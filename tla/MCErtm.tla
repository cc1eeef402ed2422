------------------------------ MODULE MCErtm ------------------------------
(***************************************************************************)
(* Small instances of Ertm.  In the passing one A sends up to four frames  *)
(* with four sequence numbers, so that they come round, through a window   *)
(* of two, and B sends one, so that acknowledgements travel in I-frames    *)
(* too and both ends poll; a buffer of two SDUs makes B busy.  The other   *)
(* instances have more frames in one direction or in both.                 *)
(***************************************************************************)
EXTENDS Ertm

AB(a, b) == [e \in End |-> IF e = "A" THEN a ELSE b]
OneOne == AB(1, 1)
TwoOne == AB(2, 1)
ThreeThree == AB(3, 3)
ThreeNone == AB(3, 0)
EightNone == AB(8, 0)
=============================================================================
