------------------------ MODULE RoundRobinScheduler ------------------------
(***************************************************************************)
(* The scheduler of outgoing ACL packets                                   *)
(* (system/gd/hci/acl_manager/round_robin_scheduler.cc).  Links register   *)
(* their queues; while the controller has buffers the scheduler watches    *)
(* all of them, takes one packet from the first that is readable, cuts it  *)
(* into fragments and feeds the fragments to the HCI layer's ACL queue,    *)
(* one controller credit each.  Classic and LE links draw on separate      *)
(* credits.  Everything here runs on the ACL manager's handler; the links, *)
(* the HCI layer and the controller act concurrently.                      *)
(*                                                                         *)
(* Of the watched queues that are readable the reactor serves the one that *)
(* has been so for longest: a queue that already holds a packet joins them *)
(* when it is registered, another one with its first packet.  The order of *)
(* registration, which starting_point_ rotates, therefore decides between  *)
(* links that have packets waiting.  The contents of packets are not       *)
(* modelled.                                                               *)
(***************************************************************************)
EXTENDS Integers, Sequences, FiniteSets, FiniteSetsExt

CONSTANTS
  Handle,        \* connection handles, the keys of the ordered map
  TypeOf,        \* TypeOf[h] is "CLASSIC" or "LE"
  MaxCredits,    \* buffers of the controller, by type
  MaxFragments,  \* bound on the fragments of one packet
  MaxPackets,    \* bound on the packets the links send altogether
  Endless,       \* no such bound: a link may send whenever it has none queued
  Prioritized,   \* the links whose priority is changed
  HciQueueSize,  \* capacity of acl_queue_ in HciLayer
  LateTraffic    \* a link may be lost while it has packets to send

Types == {"CLASSIC", "LE"}

ASSUME ConstantsAssumption ==
  /\ IsFiniteSet(Handle) /\ Handle \subseteq Nat
  /\ TypeOf \in [Handle -> Types]
  /\ MaxCredits \in [Types -> Nat \ {0}]
  /\ MaxFragments \in Nat \ {0}
  /\ MaxPackets \in Nat
  /\ Prioritized \subseteq Handle
  /\ HciQueueSize \in Nat \ {0}
  /\ Endless \in BOOLEAN /\ LateTraffic \in BOOLEAN

VARIABLES
  registered,          \* the keys of acl_queue_handlers_
  dequeue_registered,  \* dequeue_is_registered_, by handle
  sent_packets,        \* number_of_sent_packets_, by handle
  high_priority,       \* high_priority_, by handle
  credits,             \* acl_packet_credits_ and le_acl_packet_credits_
  fragments,           \* fragments_to_send_: a sequence of handles per priority
  enqueue_registered,  \* enqueue_registered_
  starting_point,      \* starting_point_: a key of acl_queue_handlers_, or End
  ahead,               \* watched links that were readable before a link, by handle
  reclaimed,           \* Unregister refilled an empty pool and nothing has started since
  posted,              \* start_round_robin tasks in the handler
  link_queue,          \* packets (their fragment counts) each link has queued
  packets,             \* packets sent so far, unless Endless
  hci_queue,           \* fragments handed to the HCI layer, not yet sent
  connected,           \* links the controller has
  buffered,            \* buffers of the controller in use, by handle
  completed            \* completed-packet credits on their way to the host

rotation == <<starting_point, ahead, reclaimed>>
scheduler == <<registered, dequeue_registered, sent_packets, high_priority,
               credits, fragments, enqueue_registered, rotation>>
links == <<link_queue, packets>>
controller == <<hci_queue, connected, buffered, completed>>
vars == <<scheduler, posted, links, controller>>

(* Iterators of acl_queue_handlers_, whose keys are regs. *)
End == -1
Begin(regs) == IF regs = {} THEN End ELSE Min(regs)
Following(h, regs) == Begin({g \in regs : g > h})

(* In the order of the loop that begins at from, g comes before h. *)
Before(g, h, from) == IF (g < from) = (h < from) THEN g < h ELSE h < from

Empty(f) == f[0] = <<>> /\ f[1] = <<>>
Top(f) == IF f[1] # <<>> THEN 1 ELSE 0
Front(f) == Head(f[Top(f)])
Pop(f) == [f EXCEPT ![Top(f)] = Tail(@)]
Size(f) == Len(f[0]) + Len(f[1])

(* How many elements of a sequence of handles belong to h. *)
CountIn(s, h) == Cardinality({i \in DOMAIN s : s[i] = h})

TypeOK ==
  /\ registered \subseteq Handle
  /\ dequeue_registered \in [Handle -> BOOLEAN]
  /\ sent_packets \in [Handle -> Nat]
  /\ high_priority \in [Handle -> BOOLEAN]
  /\ credits \in [Types -> Nat]
  /\ fragments \in [{0, 1} -> Seq(Handle)]
  /\ enqueue_registered \in BOOLEAN
  /\ starting_point \in Handle \cup {End} /\ ahead \in [Handle -> SUBSET Handle]
  /\ reclaimed \in BOOLEAN
  /\ posted \in Nat
  /\ link_queue \in [Handle -> Seq(1..MaxFragments)]
  /\ packets \in 0..MaxPackets
  /\ hci_queue \in Seq(Handle)
  /\ connected \subseteq Handle
  /\ buffered \in [Handle -> Nat]
  /\ completed \in [Handle -> Nat]

Init ==
  /\ registered = {}
  /\ dequeue_registered = [h \in Handle |-> FALSE]
  /\ sent_packets = [h \in Handle |-> 0]
  /\ high_priority = [h \in Handle |-> FALSE]
  /\ credits = MaxCredits
  /\ fragments = [p \in {0, 1} |-> <<>>]
  /\ enqueue_registered = FALSE
  /\ starting_point = End /\ ahead = [h \in Handle |-> {}]
  /\ reclaimed = FALSE
  /\ posted = 0
  /\ link_queue = [h \in Handle |-> <<>>]
  /\ packets = 0
  /\ hci_queue = <<>>
  /\ connected = {}
  /\ buffered = [h \in Handle |-> 0]
  /\ completed = [h \in Handle |-> 0]

Readable(h) == link_queue[h] # <<>>

(* The watched links that are readable. *)
Ready(dequeue) == {h \in Handle : dequeue[h] /\ Readable(h)}

(***************************************************************************)
(* start_round_robin, from the credits and the links its caller leaves: it *)
(* resumes the buffered fragments, or watches every link that has credit,  *)
(* and then the next one is the first, whether any was added or not.       *)
(***************************************************************************)
start_round_robin(cr, regs, dequeue) ==
  LET loops == Empty(fragments) /\ regs # {} /\ \E t \in Types : cr[t] > 0
      from == IF Cardinality(regs) = 1 \/ starting_point = End
              THEN Begin(regs) ELSE starting_point
      adds == {h \in regs : loops /\ ~dequeue[h] /\ cr[TypeOf[h]] > 0}
  IN /\ enqueue_registered' =
          (enqueue_registered \/ (~Empty(fragments) /\ cr[TypeOf[Front(fragments)]] > 0))
     /\ dequeue_registered' = [h \in Handle |-> dequeue[h] \/ h \in adds]
     /\ starting_point' = IF loops THEN Following(from, regs) ELSE starting_point
     /\ ahead' = [h \in Handle |->
          IF h \in adds /\ Readable(h)
          THEN Ready(dequeue) \cup {g \in adds : Readable(g) /\ Before(g, h, from)}
          ELSE ahead[h]]
     /\ reclaimed' = FALSE

start_round_robin_task ==
  /\ posted > 0
  /\ posted' = posted - 1
  /\ start_round_robin(credits, registered, dequeue_registered)
  /\ UNCHANGED <<registered, sent_packets, high_priority, credits, fragments,
                 links, controller>>

(***************************************************************************)
(* Calls of the ACL manager.                                               *)
(***************************************************************************)
Register(h) ==
  /\ h \in connected /\ h \notin registered
  /\ registered' = registered \cup {h}
  /\ sent_packets' = [sent_packets EXCEPT ![h] = 0]
  /\ high_priority' = [high_priority EXCEPT ![h] = FALSE]
  /\ IF Empty(fragments)
     THEN start_round_robin(credits, registered', dequeue_registered)
     ELSE UNCHANGED <<dequeue_registered, enqueue_registered, rotation>>
  /\ UNCHANGED <<credits, fragments, posted, links, controller>>

(* h is watched no more. *)
without(h) == [g \in Handle |-> IF g = h THEN {} ELSE ahead[g] \ {h}]

unregister_without_reclaim(h) ==
  /\ h \in registered /\ h \notin connected
  /\ registered' = registered \ {h}
  /\ sent_packets' = [sent_packets EXCEPT ![h] = 0]
  /\ dequeue_registered' = [dequeue_registered EXCEPT ![h] = FALSE]
  /\ link_queue' = [link_queue EXCEPT ![h] = <<>>]
  /\ starting_point' = Begin(registered') /\ ahead' = without(h)
  /\ UNCHANGED <<credits, high_priority, fragments, enqueue_registered, reclaimed,
                 posted, packets, controller>>

(* Called when the link is gone; its queue goes with it. *)
Unregister(h) ==
  /\ h \in registered /\ h \notin connected
  /\ registered' = registered \ {h}
  /\ credits' = [credits EXCEPT ![TypeOf[h]] = @ + sent_packets[h]]
  /\ sent_packets' = [sent_packets EXCEPT ![h] = 0]
  /\ dequeue_registered' = [dequeue_registered EXCEPT ![h] = FALSE]
  /\ link_queue' = [link_queue EXCEPT ![h] = <<>>]
  /\ starting_point' = Begin(registered') /\ ahead' = without(h)
  /\ reclaimed' = (reclaimed \/ (credits[TypeOf[h]] = 0 /\ sent_packets[h] > 0))
  /\ UNCHANGED <<high_priority, fragments, enqueue_registered, posted, packets,
                 controller>>

SetLinkPriority(h, high) ==
  /\ h \in registered /\ high # high_priority[h]
  /\ high_priority' = [high_priority EXCEPT ![h] = high]
  /\ UNCHANGED <<registered, dequeue_registered, sent_packets, credits,
                 fragments, enqueue_registered, rotation, posted, links,
                 controller>>

(***************************************************************************)
(* The first of the watched queues that are readable: one packet becomes   *)
(* fragments, and nobody is watched any more.                              *)
(***************************************************************************)
unregister_only_this(h) == [dequeue_registered EXCEPT ![h] = FALSE]

unregister_all_connections(h) == [g \in Handle |-> FALSE]

buffer_packet(h) ==
  /\ h \in registered /\ dequeue_registered[h] /\ Readable(h) /\ ahead[h] = {}
  /\ link_queue' = [link_queue EXCEPT ![h] = Tail(@)]
  /\ LET priority == IF high_priority[h] THEN 1 ELSE 0
         count == Head(link_queue[h])
     IN fragments' = [fragments EXCEPT ![priority] = @ \o [i \in 1..count |-> h]]
  /\ dequeue_registered' = unregister_all_connections(h)
  /\ sent_packets' = [sent_packets EXCEPT ![h] = @ + Size(fragments')]
  /\ enqueue_registered' = TRUE
  /\ ahead' = [g \in Handle |-> {}]
  /\ UNCHANGED <<registered, high_priority, credits, starting_point, reclaimed, posted,
                 packets, controller>>

(***************************************************************************)
(* The HCI layer's queue takes a fragment.                                 *)
(***************************************************************************)
keep_enqueue_registered(cr, frags) == ~Empty(frags)

enqueue_while_credits(cr, frags) == ~Empty(frags) /\ cr[TypeOf[Front(frags)]] > 0

handle_enqueue_next_fragment ==
  /\ enqueue_registered /\ Len(hci_queue) < HciQueueSize
  /\ LET h == Front(fragments)
     IN /\ credits[TypeOf[h]] > 0
        /\ credits' = [credits EXCEPT ![TypeOf[h]] = @ - 1]
        /\ hci_queue' = Append(hci_queue, h)
  /\ fragments' = Pop(fragments)
  /\ posted' = IF Empty(fragments') THEN posted + 1 ELSE posted
  /\ enqueue_registered' = enqueue_while_credits(credits', fragments')
  /\ UNCHANGED <<registered, dequeue_registered, sent_packets, high_priority, rotation,
                 links, connected, buffered, completed>>

(***************************************************************************)
(* Completed packets give their credits back.                              *)
(***************************************************************************)
sent_after_wrapping(sent, n) == sent - n

sent_after(sent, n) == IF sent >= n THEN sent - n ELSE 0

capped(t, n) == IF n > MaxCredits[t] THEN MaxCredits[t] ELSE n

no_restart(t, cr) == UNCHANGED <<enqueue_registered, dequeue_registered, rotation>>

restart_if_was_zero(t, cr) ==
  IF credits[t] = 0 THEN start_round_robin(cr, registered, dequeue_registered)
  ELSE UNCHANGED <<enqueue_registered, dequeue_registered, rotation>>

incoming_acl_credits(h, n) ==
  /\ n \in 1..completed[h]
  /\ completed' = [completed EXCEPT ![h] = @ - n]
  /\ \/ /\ h \notin registered
        /\ UNCHANGED scheduler
     \/ /\ h \in registered
        /\ sent_packets' = [sent_packets EXCEPT ![h] = sent_after(@, n)]
        /\ credits' = [credits EXCEPT ![TypeOf[h]] = capped(TypeOf[h], @ + n)]
        /\ restart_if_was_zero(TypeOf[h], credits')
        /\ UNCHANGED <<registered, high_priority, fragments>>
  /\ UNCHANGED <<posted, links, hci_queue, connected, buffered>>

(***************************************************************************)
(* The upper layers, the HCI layer and the controller (external).          *)
(***************************************************************************)
LinkSends(h, count) ==
  /\ h \in connected \cap registered
  /\ IF Endless THEN ~Readable(h) /\ UNCHANGED packets
     ELSE packets < MaxPackets /\ packets' = packets + 1
  /\ link_queue' = [link_queue EXCEPT ![h] = Append(@, count)]
  /\ ahead' = IF dequeue_registered[h] /\ ~Readable(h)
              THEN [ahead EXCEPT ![h] = Ready(dequeue_registered)] ELSE ahead
  /\ UNCHANGED <<registered, dequeue_registered, sent_packets, high_priority, credits,
                 fragments, enqueue_registered, starting_point, reclaimed, posted,
                 controller>>

(* A fragment for a link that is gone is dropped by the controller. *)
HciSends ==
  /\ hci_queue # <<>>
  /\ hci_queue' = Tail(hci_queue)
  /\ buffered' = [h \in Handle |->
                    IF h = Head(hci_queue) /\ h \in connected
                    THEN buffered[h] + 1 ELSE buffered[h]]
  /\ UNCHANGED <<scheduler, posted, links, connected, completed>>

(* A handle is used again only once the old link's events are through. *)
Connect(h) ==
  /\ h \notin connected \cup registered
  /\ completed[h] = 0 /\ CountIn(hci_queue, h) = 0
  /\ connected' = connected \cup {h}
  /\ UNCHANGED <<scheduler, posted, links, hci_queue, buffered, completed>>

Disconnect(h) ==
  /\ h \in connected /\ h \in registered
  /\ \/ LateTraffic
     \/ link_queue[h] = <<>> /\ CountIn(fragments[0] \o fragments[1], h) = 0
  /\ connected' = connected \ {h}
  /\ buffered' = [buffered EXCEPT ![h] = 0]
  /\ UNCHANGED <<scheduler, posted, links, hci_queue, completed>>

ControllerCompletes(h, n) ==
  /\ n \in 1..buffered[h]
  /\ buffered' = [buffered EXCEPT ![h] = @ - n]
  /\ completed' = [completed EXCEPT ![h] = @ + n]
  /\ UNCHANGED <<scheduler, posted, links, hci_queue, connected>>

CreditCounts == 1..(MaxCredits["CLASSIC"] + MaxCredits["LE"])

Next ==
  \/ start_round_robin_task
  \/ \E h \in Handle : Register(h)
  \/ \E h \in Handle : Unregister(h)
  \/ \E h \in Prioritized, high \in BOOLEAN : SetLinkPriority(h, high)
  \/ \E h \in Handle : buffer_packet(h)
  \/ handle_enqueue_next_fragment
  \/ \E h \in Handle, n \in CreditCounts : incoming_acl_credits(h, n)
  \/ \E h \in Handle, count \in 1..MaxFragments : LinkSends(h, count)
  \/ HciSends
  \/ \E h \in Handle : Connect(h)
  \/ \E h \in Handle : Disconnect(h)
  \/ \E h \in Handle, n \in CreditCounts : ControllerCompletes(h, n)

Spec == Init /\ [][Next]_vars

(* The handler and the HCI layer make progress, the reactor serves some    *)
(* watched queue that is readable, the controller completes the packets it *)
(* holds, and a lost link is eventually unregistered.                      *)
LiveSpec ==
  /\ Spec
  /\ WF_vars(start_round_robin_task)
  /\ WF_vars(\E h \in Handle : buffer_packet(h))
  /\ WF_vars(handle_enqueue_next_fragment)
  /\ \A h \in Handle : WF_vars(\E n \in CreditCounts : incoming_acl_credits(h, n))
  /\ WF_vars(HciSends)
  /\ \A h \in Handle : WF_vars(\E n \in CreditCounts : ControllerCompletes(h, n))
  /\ \A h \in Handle : WF_vars(Unregister(h))

(***************************************************************************)
(* Properties.                                                             *)
(***************************************************************************)

Links(t) == {h \in Handle : TypeOf[h] = t}

Buffered(h) == CountIn(fragments[0], h) + CountIn(fragments[1], h)

(* The enqueue callback is registered only while there is a fragment and a *)
(* credit of its type: the two assertions of handle_enqueue_next_fragment  *)
(* and its front() of the queue are safe, however credits, links and       *)
(* packets come and go.                                                    *)
EnqueueIsSafe ==
  enqueue_registered =>
    /\ ~Empty(fragments)
    /\ credits[TypeOf[Front(fragments)]] > 0

(* Packets are scheduled one at a time: while fragments wait no link is    *)
(* watched and all of them belong to one link, so number_of_sent_packets_  *)
(* grows by that packet's fragments only (buffer_packet adds the size of   *)
(* the whole queue).                                                       *)
OnePacketAtATime ==
  ~Empty(fragments) =>
    /\ \A h \in Handle : ~dequeue_registered[h]
    /\ \A p, q \in {0, 1} :
         \A i \in DOMAIN fragments[p], j \in DOMAIN fragments[q] :
           fragments[p][i] = fragments[q][j]

(* A watched link has a controller buffer to send into: a packet is never  *)
(* taken from its queue only to wait for credits.                          *)
WatchedHasCredit ==
  \A h \in Handle :
    dequeue_registered[h] => h \in registered /\ credits[TypeOf[h]] > 0

(* Both callbacks are registered with their queues only while there is a   *)
(* credit to send with: handle_enqueue_next_fragment towards the HCI layer *)
(* and buffer_packet at each link.                                         *)
SendsWithCredit == EnqueueIsSafe /\ WatchedHasCredit

(* What a link has sent without an answer: number_of_sent_packets_ counts  *)
(* its fragments when they are buffered.                                   *)
Outstanding == [h \in Handle |-> sent_packets[h] - Buffered(h)]
SumOver(f, S) == MapThenSumSet(LAMBDA h : f[h], S)

CreditSum ==
  \A t \in Types :
    credits[t] + SumOver(Outstanding, Links(t) \cap registered) = MaxCredits[t]

LinkCredits ==
  \A h \in connected \cap registered :
    Outstanding[h] = CountIn(hci_queue, h) + buffered[h] + completed[h]

(* No credit is lost or made up: what the host may still send and what its *)
(* links have sent without an answer add up to the controller's buffers,   *)
(* and a live link has sent exactly the fragments that are on their way.   *)
(* In particular the controller's buffers are never overrun.               *)
CreditsConserved == CreditSum /\ LinkCredits

(* A packet of h waits, and start_round_robin owes it a turn: it has run   *)
(* since Unregister last gave credits back to an empty pool.               *)
Waits(h) == h \in registered /\ link_queue[h] # <<>> /\ ~reclaimed

(* Again and again no packet waits: once the links send no more, which     *)
(* MaxPackets makes them, every packet queued is taken, unless its link    *)
(* goes or a reclaim leaves the scheduler standing.  (Unregister gives a   *)
(* lost link's credits back without starting the round robin, and the      *)
(* credits that come later find the pool not empty and do not start it     *)
(* either.)  No other zero of the credits, in a packet or between two,     *)
(* leaves the scheduler with nobody to start it again.                     *)
EveryPacketTaken == []<>(\A h \in Handle : ~Waits(h))

(* The round robin gives each link its turn even if the others never       *)
(* stop sending.  Not so: the start that follows the last fragment moves   *)
(* starting_point_ although it finds no credits of the type, and so does   *)
(* the one that the next credits bring, so that of two links the same one  *)
(* may be first every time there is a credit.                              *)
NoLinkStarves == \A h \in Handle : Waits(h) ~> ~Waits(h)

(* "Reclaim outstanding packets" (Unregister): reclaiming a link's packets *)
(* never gives the host more credits than the controller has buffers.      *)
ReclaimsOnlyOutstanding == \A t \in Types : credits[t] <= MaxCredits[t]

(* "Prevent registration when credits is zero" (start_round_robin): only   *)
(* the lack of credits keeps buffered fragments waiting or, when there are *)
(* none, a link unwatched, unless start_round_robin is still to run.       *)
WaitsOnlyForCredits ==
  ~enqueue_registered /\ posted = 0 =>
    IF Empty(fragments)
    THEN \A h \in registered : credits[TypeOf[h]] > 0 => dequeue_registered[h]
    ELSE credits[TypeOf[Front(fragments)]] = 0
=============================================================================
