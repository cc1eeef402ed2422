--------------------------- MODULE CommandChannel ---------------------------
(***************************************************************************)
(* What HciLayer promises its clients: commands are answered one at a      *)
(* time, in the order they were enqueued, each once, and none is dropped   *)
(* except by a failure that empties the channel.                           *)
(***************************************************************************)
EXTENDS Sequences

CONSTANT Command

VARIABLES
  pending,   \* accepted, unanswered commands, oldest first
  answered,  \* the commands answered, in order
  flushed    \* a failure emptied the channel: the process is going down

Init == pending = <<>> /\ answered = <<>> /\ flushed = FALSE

Accept(c) ==
  /\ pending' = Append(pending, c)
  /\ UNCHANGED <<answered, flushed>>

Answer ==
  /\ pending # <<>>
  /\ answered' = Append(answered, Head(pending))
  /\ pending' = Tail(pending)
  /\ UNCHANGED flushed

Fail ==
  /\ flushed' = TRUE
  /\ pending' \in {pending, <<>>}
  /\ UNCHANGED answered

Next == (\E c \in Command : Accept(c)) \/ Answer \/ Fail

Spec == Init /\ [][Next]_<<pending, answered, flushed>>
=============================================================================
