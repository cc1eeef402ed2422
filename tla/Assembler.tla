----------------------------- MODULE Assembler -----------------------------
(***************************************************************************)
(* Reassembly of L2CAP PDUs from the fragments that the controller passes  *)
(* up (system/gd/hci/acl_manager/assembler.h), the routing of fragments to *)
(* a connection, and the queue to the connection's client.                 *)
(*                                                                         *)
(* A byte is <<pdu, offset>>; the header of a PDU is its first bytes and   *)
(* holds its length.  The reactables of both queues and the tasks of the   *)
(* ACL manager run in one thread, so that each is one step.  Fragments and *)
(* connection events travel on different ways: the first fragments may be  *)
(* there before the connection is known, and late ones after its end.      *)
(***************************************************************************)
EXTENDS Integers, Sequences

CONSTANTS
  kMaxQueuedPacketsPerConnection,
  kL2capBasicFrameHeaderSize,
  QueueSize,        \* of the connection's queue
  MaxLength,        \* bound on the length of a PDU
  MaxPdus,          \* bound on the PDUs sent
  EmptyFragments    \* whether a fragment may have no bytes

(* 2^16 stands for the 2^64 values of size_t, out of reach of any sum here. *)
SizeT == 65536

ASSUME AssemblerAssumption ==
  /\ kMaxQueuedPacketsPerConnection \in Nat
  /\ kL2capBasicFrameHeaderSize \in Nat \ {0}
  /\ QueueSize \in Nat \ {0} /\ MaxLength \in Nat /\ MaxPdus \in Nat
  /\ EmptyFragments \in BOOLEAN
  /\ kL2capBasicFrameHeaderSize + MaxLength + 1 < SizeT

VARIABLES
  assembler,   \* its members
  registered,  \* down_end_ has on_le_incoming_data_ready registered
  queue,       \* the connection's queue
  received,    \* what the client has dequeued
  connection,  \* whether the ACL manager knows the connection
  pdus,        \* the PDUs sent: length in the header, bytes that follow it,
               \* whether the starting fragment has the whole header
  offset,      \* bytes sent or given up of the last PDU
  lost,        \* history: PDUs of which the assembler did not get everything,
               \* that do not have the length it takes them for, or came in
               \* congestion
  front_of_empty  \* history: the front of an empty queue has been read

remote == <<pdus, offset>>
vars == <<assembler, registered, queue, received, connection, remote, lost,
          front_of_empty>>

Total(p) == kL2capBasicFrameHeaderSize + pdus[p].bytes

(* The length that the assembler takes a PDU for: none, if the starting    *)
(* fragment has not the whole header.                                      *)
Claimed(pdu) == IF pdu.headed THEN pdu.length ELSE 0

TypeOK ==
  /\ assembler.remaining_sdu_continuation_packet_size \in 0..(SizeT - 1)
  /\ assembler.enqueue_registered \in BOOLEAN /\ registered \in BOOLEAN
  /\ Len(assembler.incoming_queue) <= kMaxQueuedPacketsPerConnection + 1
  /\ Len(queue) <= QueueSize
  /\ connection \in {"early", "known", "gone"}
  /\ pdus \in Seq([length : 0..MaxLength, bytes : 0..(MaxLength + 1), headed : BOOLEAN])
  /\ lost \subseteq DOMAIN pdus /\ front_of_empty \in BOOLEAN

Init ==
  /\ assembler = [recombination_stage |-> <<>>,
                  remaining_sdu_continuation_packet_size |-> 0,
                  enqueue_registered |-> FALSE,
                  incoming_queue |-> <<>>]
  /\ registered = FALSE /\ queue = <<>> /\ received = <<>>
  /\ connection = "early"
  /\ pdus = <<>> /\ offset = 0 /\ lost = {} /\ front_of_empty = FALSE

(***************************************************************************)
(* assembler                                                               *)
(***************************************************************************)
GetL2capPduSize(payload, sent) ==
  IF Len(payload) < kL2capBasicFrameHeaderSize THEN 0 ELSE sent[Head(payload)[1]].length

remaining(payload, sent) ==
  (GetL2capPduSize(payload, sent) + kL2capBasicFrameHeaderSize + SizeT - Len(payload)) % SizeT

push(a, payload) ==
  IF Len(a.incoming_queue) > kMaxQueuedPacketsPerConnection THEN a
  ELSE [a EXCEPT !.incoming_queue = Append(@, payload), !.enqueue_registered = TRUE]

continuing_fragment(a, payload) ==
  LET stage == a.recombination_stage \o payload
      left == a.remaining_sdu_continuation_packet_size - Len(payload)
  IN IF a.remaining_sdu_continuation_packet_size < Len(payload)
     THEN [a EXCEPT !.recombination_stage = <<>>,
                    !.remaining_sdu_continuation_packet_size = 0]
     ELSE IF left # 0
     THEN [a EXCEPT !.recombination_stage = stage,
                    !.remaining_sdu_continuation_packet_size = left]
     ELSE push([a EXCEPT !.recombination_stage = <<>>,
                         !.remaining_sdu_continuation_packet_size = 0], stage)

start_appends(a, payload, sent) ==
  LET left == remaining(payload, sent)
      b == [a EXCEPT !.remaining_sdu_continuation_packet_size = left]
  IN IF left > 0 THEN [b EXCEPT !.recombination_stage = @ \o payload]
     ELSE push(b, payload)

(* An unfinished PDU is replaced, but forgotten only if this one goes on.  *)
starting_fragment(a, payload, sent) ==
  LET left == remaining(payload, sent)
      b == [a EXCEPT !.remaining_sdu_continuation_packet_size = left]
  IN IF left > 0 THEN [b EXCEPT !.recombination_stage = payload]
     ELSE push(b, payload)

(* Broadcasts, and starting fragments that are not flushable, are ignored. *)
on_incoming_packet(a, flag, payload, sent) ==
  CASE flag = "CONTINUING_FRAGMENT" -> continuing_fragment(a, payload)
    [] flag = "FIRST_AUTOMATICALLY_FLUSHABLE" -> starting_fragment(a, payload, sent)
    [] OTHER -> a

(* exchange(true) found false: RegisterEnqueue. *)
Becomes(a) ==
  /\ assembler' = a
  /\ registered' = (registered \/ (a.enqueue_registered /\ ~assembler.enqueue_registered))

stay_registered ==
  /\ registered /\ Len(queue) < QueueSize
  /\ IF assembler.incoming_queue = <<>>
     THEN front_of_empty' = TRUE /\ UNCHANGED <<assembler, queue>>
     ELSE /\ queue' = Append(queue, Head(assembler.incoming_queue))
          /\ assembler' = [assembler EXCEPT !.incoming_queue = Tail(@)]
          /\ UNCHANGED front_of_empty
  /\ UNCHANGED <<registered, received, connection, remote, lost>>

unregister_keeps_flag ==
  /\ registered /\ Len(queue) < QueueSize /\ assembler.incoming_queue # <<>>
  /\ queue' = Append(queue, Head(assembler.incoming_queue))
  /\ assembler' = [assembler EXCEPT !.incoming_queue = Tail(@)]
  /\ registered' = (Tail(assembler.incoming_queue) # <<>>)
  /\ UNCHANGED <<received, connection, remote, lost, front_of_empty>>

(* Called by the connection's queue when there is room in it.  The packet  *)
(* at the front is taken without a look whether there is one.              *)
on_le_incoming_data_ready ==
  /\ registered /\ Len(queue) < QueueSize
  /\ IF assembler.incoming_queue = <<>>
     THEN front_of_empty' = TRUE /\ UNCHANGED <<assembler, registered, queue>>
     ELSE LET rest == Tail(assembler.incoming_queue)
              ends == rest = <<>> /\ assembler.enqueue_registered
          IN /\ queue' = Append(queue, Head(assembler.incoming_queue))
             /\ assembler' = [assembler EXCEPT !.incoming_queue = rest,
                                               !.enqueue_registered = @ /\ ~ends]
             /\ registered' = (registered /\ ~ends)
             /\ UNCHANGED front_of_empty
  /\ UNCHANGED <<received, connection, remote, lost>>

(***************************************************************************)
(* The connection becomes known (connections.add constructs its assembler) *)
(* and is removed (the assembler is destroyed with it).                    *)
(***************************************************************************)
ConnectionIsAdded ==
  /\ connection = "early" /\ connection' = "known"
  /\ UNCHANGED <<assembler, registered, queue, received, remote, lost, front_of_empty>>

ConnectionIsRemoved ==
  /\ connection = "known" /\ connection' = "gone"
  /\ assembler' = [assembler EXCEPT !.enqueue_registered = FALSE, !.incoming_queue = <<>>]
  /\ registered' = (registered /\ ~assembler.enqueue_registered)
  /\ UNCHANGED <<queue, received, remote, lost, front_of_empty>>

ClientDequeues ==
  /\ queue # <<>> /\ received' = Append(received, Head(queue)) /\ queue' = Tail(queue)
  /\ UNCHANGED <<assembler, registered, connection, remote, lost, front_of_empty>>

(***************************************************************************)
(* The controller passes up what the peer sends.  A fragment of a handle   *)
(* that no connection has is dropped.                                      *)
(***************************************************************************)
dequeue_and_route_acl_packet_to_connection(flag, payload) ==
  IF connection = "known"
  THEN Becomes(on_incoming_packet(assembler, flag, payload, pdus'))
  ELSE UNCHANGED <<assembler, registered>>

Bytes(p, from, n) == [i \in 1..n |-> <<p, from + i>>]

Last == Len(pdus)
Finished == Last > 0 => offset = Total(Last)

(* The connection is not there, or the PDU now complete finds no room. *)
Loses(completes) ==
  \/ connection # "known"
  \/ completes /\ Len(assembler.incoming_queue) > kMaxQueuedPacketsPerConnection

(* The starting fragment may end anywhere, within the header too.  The     *)
(* bytes that follow the header may be more than it says.                  *)
PeerStarts(length, bytes, n) ==
  /\ Finished /\ Last < MaxPdus
  /\ bytes \in {length, length + 1} /\ n <= kL2capBasicFrameHeaderSize + bytes
  /\ n > 0 \/ EmptyFragments
  /\ LET pdu == [length |-> length, bytes |-> bytes,
                 headed |-> n >= kL2capBasicFrameHeaderSize]
     IN /\ pdus' = Append(pdus, pdu)
        /\ lost' = IF \/ bytes # Claimed(pdu)
                      \/ Loses(n = kL2capBasicFrameHeaderSize + bytes)
                   THEN lost \cup {Last + 1} ELSE lost
  /\ offset' = n
  /\ dequeue_and_route_acl_packet_to_connection(
       "FIRST_AUTOMATICALLY_FLUSHABLE", Bytes(Last + 1, 0, n))
  /\ UNCHANGED <<queue, received, connection, front_of_empty>>

PeerContinues(n) ==
  /\ Last > 0 /\ offset + n <= Total(Last) /\ (n > 0 \/ EmptyFragments)
  /\ offset' = offset + n
  /\ lost' = IF ~Finished /\ Loses(offset' = Total(Last)) THEN lost \cup {Last} ELSE lost
  /\ UNCHANGED <<pdus, queue, received, connection, front_of_empty>>
  /\ dequeue_and_route_acl_packet_to_connection(
       "CONTINUING_FRAGMENT", Bytes(Last, offset, n))

(* The rest of a PDU is flushed on the peer's side. *)
PeerFlushes ==
  /\ ~Finished /\ offset' = Total(Last) /\ lost' = lost \cup {Last}
  /\ UNCHANGED <<assembler, registered, queue, received, connection, pdus, front_of_empty>>

(* A broadcast, or a fragment of the loopback mode. *)
OtherPacket(flag) ==
  /\ UNCHANGED <<queue, received, connection, remote, lost, front_of_empty>>
  /\ dequeue_and_route_acl_packet_to_connection(flag, <<>>)

Sizes == 0..(kL2capBasicFrameHeaderSize + MaxLength + 1)

Next ==
  \/ \E length \in 0..MaxLength, bytes \in 0..(MaxLength + 1), n \in Sizes :
       PeerStarts(length, bytes, n)
  \/ \E n \in Sizes : PeerContinues(n)
  \/ PeerFlushes
  \/ \E flag \in {"ACTIVE_PERIPHERAL_BROADCAST", "FIRST_NON_AUTOMATICALLY_FLUSHABLE"} :
       OtherPacket(flag)
  \/ ConnectionIsAdded \/ ConnectionIsRemoved
  \/ on_le_incoming_data_ready \/ ClientDequeues

(* The loop runs the reactables of both ends of the connection's queue. *)
Spec == Init /\ [][Next]_vars /\ WF_vars(on_le_incoming_data_ready) /\ WF_vars(ClientDequeues)

(***************************************************************************)
(* Properties.                                                             *)
(***************************************************************************)
Output == received \o queue \o assembler.incoming_queue

(* What the assembler hands over is one PDU each, from the header to the   *)
(* length it says, and PDUs leave in the order in which they were sent,    *)
(* though unfinished ones are given up, the first fragments may be missed  *)
(* and peers may send more than they say.  Only a PDU whose starting       *)
(* fragment does not hold the whole header, of which GetL2capPduSize says  *)
(* that its length is 0, may be cut off: behind its header, nowhere else.  *)
WholePdusInOrder ==
  /\ \A i \in DOMAIN Output :
       \E p \in DOMAIN pdus :
         Output[i] = Bytes(p, 0, kL2capBasicFrameHeaderSize + Claimed(pdus[p]))
  /\ \A i, j \in DOMAIN Output : i < j => Output[i][1][1] < Output[j][1][1]

(* A PDU of which every fragment came to the assembler, for which there    *)
(* was room, and whose length the assembler could see, has been handed     *)
(* over: nothing that happened to earlier ones, flushed, missed, too long  *)
(* or begun with a part of the header, makes on_incoming_packet lose it.   *)
NothingElseLost ==
  connection # "gone" =>
    \A p \in DOMAIN pdus \ lost :
      p < Last \/ Finished => \E i \in DOMAIN Output : Output[i][1][1] = p

(* Of what arrives, all and only the whole PDUs go up, in order.           *)
PdusArriveWhole == WholePdusInOrder /\ NothingElseLost

(* The same of every PDU, however it was cut into fragments: "This         *)
(* function returns the PDU size of the L2CAP data if it's a starting      *)
(* packet" (GetL2capPduSize).  A starting fragment with a part of the      *)
(* header refutes it.                                                      *)
AlwaysWhole ==
  \A i \in DOMAIN Output :
    \E p \in DOMAIN pdus :
      Output[i] = Bytes(p, 0, kL2capBasicFrameHeaderSize + pdus[p].length)

(* on_le_incoming_data_ready finds a packet at the front whenever the      *)
(* connection's queue calls it: it is registered only while there is one.  *)
FrontIsThere == ~front_of_empty

(* The queue stays within its limit, and its callback finds a packet.      *)
Consistent == TypeOK /\ FrontIsThere

(* A PDU in incoming_queue_ reaches the client, unless the connection ends *)
(* first: on_incoming_packet registers again whenever                      *)
(* on_le_incoming_data_ready has unregistered.                             *)
EveryPduTaken ==
  \A p \in 1..MaxPdus :
    (\E i \in DOMAIN assembler.incoming_queue : assembler.incoming_queue[i][1][1] = p)
      ~> (connection = "gone" \/ \E i \in DOMAIN received : received[i][1][1] = p)
=============================================================================
