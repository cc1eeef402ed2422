----------------------- MODULE MCClassicConnections -----------------------
(***************************************************************************)
(* Small instances of ClassicConnections.                                  *)
(***************************************************************************)
EXTENDS ClassicConnections, TLC

Symmetry == Permutations(Address) \cup Permutations(Handle)
=============================================================================
