----------------------------- MODULE MCReactor -----------------------------
(***************************************************************************)
(* Small instances of Reactor: the cfg files give all constants.  No       *)
(* symmetry is used, since the runs check liveness.                        *)
(***************************************************************************)
EXTENDS Reactor
=============================================================================
