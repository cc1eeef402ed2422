----------------------------- MODULE MCHciLayer -----------------------------
(***************************************************************************)
(* A small instance of HciLayer: c1 is answered by a command complete, c2  *)
(* is enqueued with a command status callback.                             *)
(***************************************************************************)
EXTENDS HciLayer

CONSTANTS c1, c2

MCOpOf ==
  [c \in Cmd \cup {Reset, DebugInfo} |-> CASE c = Reset -> "RESET"
                    [] c = DebugInfo -> "CONTROLLER_DEBUG_INFO"
                    [] c = c2 -> "INQUIRY"
                    [] OTHER -> "READ_LOCAL_NAME"]
=============================================================================
