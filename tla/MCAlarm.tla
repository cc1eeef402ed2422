------------------------------ MODULE MCAlarm ------------------------------
(***************************************************************************)
(* Small instances of Alarm: one alarm of each kind, on one loop, used by  *)
(* tasks of the loop and by one other thread.                              *)
(***************************************************************************)
EXTENDS Alarm
=============================================================================
