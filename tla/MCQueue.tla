------------------------------ MODULE MCQueue ------------------------------
(***************************************************************************)
(* Small instances of Queue: more items than the queue has room for, so    *)
(* that both ends stop and start again.                                    *)
(***************************************************************************)
EXTENDS Queue
=============================================================================
