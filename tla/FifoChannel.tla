---------------------------- MODULE FifoChannel ----------------------------
(***************************************************************************)
(* What a data path promises: what is sent is received once, in order.     *)
(* The abstract specification of os::Queue behind an EnqueueBuffer and of  *)
(* an enhanced retransmission mode channel.                                *)
(***************************************************************************)
EXTENDS Naturals, Sequences

CONSTANT Message

VARIABLES in_transit, received

fifo_vars == <<in_transit, received>>

Init == in_transit = <<>> /\ received = <<>>

Send(m) == in_transit' = Append(in_transit, m) /\ UNCHANGED received

Receive ==
  /\ in_transit # <<>>
  /\ received' = Append(received, Head(in_transit))
  /\ in_transit' = Tail(in_transit)

(* The sender takes back the latest messages, or the channel is closed. *)
Drop ==
  /\ \E n \in 0..Len(in_transit) : in_transit' = SubSeq(in_transit, 1, n)
  /\ UNCHANGED received

Next == (\E m \in Message : Send(m)) \/ Receive \/ Drop

Spec == Init /\ [][Next]_fifo_vars
=============================================================================
