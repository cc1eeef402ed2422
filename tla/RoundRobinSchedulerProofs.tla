--------------------- MODULE RoundRobinSchedulerProofs ---------------------
(***************************************************************************)
(* The assertions of the ACL scheduler are safe for any number of links,   *)
(* credits, packets and fragments, links lost in mid-packet included.      *)
(***************************************************************************)
EXTENDS RoundRobinScheduler, SequenceTheorems, FiniteSetTheorems,
        WellFoundedInduction, TLAPS

(* What the head and the tail of a queue are. *)
LEMMA HeadTail ==
  ASSUME NEW S, NEW s \in Seq(S), s # <<>>
  PROVE  /\ 1 \in DOMAIN s
         /\ Head(s) = s[1]
         /\ Head(s) \in S
         /\ Tail(s) \in Seq(S)
         /\ \A i \in DOMAIN Tail(s) : i + 1 \in DOMAIN s /\ Tail(s)[i] = s[i + 1]
  OBVIOUS

(* n copies of a handle, queued behind nothing. *)
LEMMA Copies ==
  ASSUME NEW h \in Handle, NEW n \in Nat \ {0}, NEW c, c = [i \in 1..n |-> h]
  PROVE  /\ c \in Seq(Handle) /\ c # <<>> /\ Head(c) = h
         /\ <<>> \o c = c
         /\ \A i \in DOMAIN c : c[i] = h
  <1>1. c \in [1..n -> Handle]
    OBVIOUS
  <1>2. c \in Seq(Handle)
    BY <1>1, SeqDef
  <1>3. DOMAIN c = 1..n /\ Len(c) = n
    BY <1>1, <1>2
  <1>4. c # <<>>
    BY <1>2, <1>3
  <1>5. Head(c) = h
    BY <1>2, <1>3, <1>4
  <1>6. <<>> \o c = c
    BY <1>2, ConcatEmptySeq
  <1> QED
    BY <1>2, <1>3, <1>4, <1>5, <1>6

(* The front of a non-empty fragment queue. *)
LEMMA FrontFacts ==
  ASSUME NEW f \in [{0, 1} -> Seq(Handle)], ~Empty(f)
  PROVE  /\ Top(f) \in {0, 1}
         /\ f[Top(f)] # <<>>
         /\ 1 \in DOMAIN f[Top(f)]
         /\ Front(f) = f[Top(f)][1]
         /\ Front(f) \in Handle
         /\ Pop(f) \in [{0, 1} -> Seq(Handle)]
         /\ \A p \in {0, 1} : \A i \in DOMAIN Pop(f)[p] :
              \E j \in DOMAIN f[p] : Pop(f)[p][i] = f[p][j]
  <1>1. Top(f) \in {0, 1} /\ f[Top(f)] # <<>> /\ f[Top(f)] \in Seq(Handle)
    BY DEF Top, Empty
  <1> DEFINE t == Top(f)
             s == f[t]
  <1>2. /\ 1 \in DOMAIN s /\ Head(s) = s[1] /\ Head(s) \in Handle
        /\ Tail(s) \in Seq(Handle)
        /\ \A i \in DOMAIN Tail(s) : i + 1 \in DOMAIN s /\ Tail(s)[i] = s[i + 1]
    BY <1>1, HeadTail
  <1>3. Pop(f) = [f EXCEPT ![t] = Tail(s)]
    BY <1>1 DEF Pop
  <1>4. Front(f) = Head(s)
    BY DEF Front
  <1> HIDE DEF t, s
  <1>5. t \in {0, 1} /\ s = f[t]
    BY <1>1 DEF t, s
  <1>6. Pop(f) \in [{0, 1} -> Seq(Handle)]
    BY <1>2, <1>3, <1>5
  <1>7. ASSUME NEW p \in {0, 1}, NEW i \in DOMAIN Pop(f)[p]
        PROVE  \E j \in DOMAIN f[p] : Pop(f)[p][i] = f[p][j]
    <2>1. CASE p = t
      BY <1>2, <1>3, <1>5, <1>7, <2>1
    <2>2. CASE p # t
      BY <1>3, <1>5, <1>7, <2>2
    <2> QED
      BY <2>1, <2>2
  <1> QED
    BY <1>1, <1>2, <1>4, <1>5, <1>6, <1>7 DEF t, s

(* All the fragments are of one link, while there are any. *)
Uniform(f) ==
  \A p, q \in {0, 1} : \A i \in DOMAIN f[p], j \in DOMAIN f[q] : f[p][i] = f[q][j]

(* The inductive invariant. *)
SafeInv ==
  /\ registered \subseteq Handle
  /\ dequeue_registered \in [Handle -> BOOLEAN]
  /\ enqueue_registered \in BOOLEAN
  /\ high_priority \in [Handle -> BOOLEAN]
  /\ sent_packets \in [Handle -> Nat]
  /\ credits \in [Types -> Nat]
  /\ fragments \in [{0, 1} -> Seq(Handle)]
  /\ link_queue \in [Handle -> Seq(1..MaxFragments)]
  /\ EnqueueIsSafe
  /\ OnePacketAtATime
  /\ WatchedHasCredit

(* start_round_robin keeps the invariant if its caller does. *)
LEMMA StartStep ==
  ASSUME fragments \in [{0, 1} -> Seq(Handle)], enqueue_registered \in BOOLEAN,
         NEW cr \in [Types -> Nat], NEW regs \in SUBSET Handle,
         NEW dequeue \in [Handle -> BOOLEAN],
         EnqueueIsSafe, OnePacketAtATime, ~Empty(fragments) => \A h \in Handle : ~dequeue[h],
         \A h \in Handle : dequeue[h] => h \in regs /\ cr[TypeOf[h]] > 0,
         \A t \in Types : credits[t] > 0 => cr[t] > 0,
         credits' = cr, registered' = regs, UNCHANGED fragments,
         start_round_robin(cr, regs, dequeue)
  PROVE  /\ EnqueueIsSafe' /\ OnePacketAtATime' /\ WatchedHasCredit'
         /\ enqueue_registered' \in BOOLEAN
         /\ dequeue_registered' \in [Handle -> BOOLEAN]
  <1>1. ~Empty(fragments) => Front(fragments) \in Handle
                             /\ TypeOf[Front(fragments)] \in Types
    BY FrontFacts, ConstantsAssumption
  <1>2. EnqueueIsSafe'
    BY <1>1 DEF EnqueueIsSafe, start_round_robin
  <1>3. OnePacketAtATime'
    BY DEF OnePacketAtATime, start_round_robin
  <1>4. WatchedHasCredit'
    BY DEF WatchedHasCredit, start_round_robin
  <1>5. enqueue_registered' \in BOOLEAN /\ dequeue_registered' \in [Handle -> BOOLEAN]
    BY DEF start_round_robin
  <1> QED
    BY <1>2, <1>3, <1>4, <1>5

(* Every step keeps the invariant. *)
LEMMA SafeStep == SafeInv /\ [Next]_vars => SafeInv'
  <1> SUFFICES ASSUME SafeInv, [Next]_vars PROVE SafeInv'
    OBVIOUS
  <1> USE DEF SafeInv
  <1>a. \A h \in Handle : TypeOf[h] \in Types
    BY ConstantsAssumption
  <1>1. CASE start_round_robin_task
    <2>1. /\ start_round_robin(credits, registered, dequeue_registered)
          /\ UNCHANGED <<registered, sent_packets, high_priority, credits,
                         fragments, link_queue>>
      BY <1>1 DEF start_round_robin_task, links
    <2>2. /\ ~Empty(fragments) => \A h \in Handle : ~dequeue_registered[h]
          /\ \A h \in Handle : dequeue_registered[h]
               => h \in registered /\ credits[TypeOf[h]] > 0
      BY DEF OnePacketAtATime, WatchedHasCredit
    <2>3. /\ EnqueueIsSafe' /\ OnePacketAtATime' /\ WatchedHasCredit'
          /\ enqueue_registered' \in BOOLEAN
          /\ dequeue_registered' \in [Handle -> BOOLEAN]
      BY <2>1, <2>2, StartStep
    <2> QED
      BY <2>1, <2>3
  <1>2. ASSUME NEW h \in Handle, Register(h) PROVE SafeInv'
    <2>1. /\ registered' = registered \cup {h}
          /\ sent_packets' = [sent_packets EXCEPT ![h] = 0]
          /\ high_priority' = [high_priority EXCEPT ![h] = FALSE]
          /\ UNCHANGED <<credits, fragments, link_queue>>
      BY <1>2 DEF Register, links
    <2>2. /\ ~Empty(fragments) => \A g \in Handle : ~dequeue_registered[g]
          /\ \A g \in Handle : dequeue_registered[g]
               => g \in registered' /\ credits[TypeOf[g]] > 0
      BY <2>1 DEF OnePacketAtATime, WatchedHasCredit
    <2>3. /\ EnqueueIsSafe' /\ OnePacketAtATime' /\ WatchedHasCredit'
          /\ enqueue_registered' \in BOOLEAN
          /\ dequeue_registered' \in [Handle -> BOOLEAN]
      <3>1. CASE Empty(fragments)
        <4>1. start_round_robin(credits, registered', dequeue_registered)
          BY <1>2, <3>1 DEF Register
        <4>2. registered' \in SUBSET Handle
          BY <2>1
        <4> QED
          BY <2>1, <2>2, <4>1, <4>2, StartStep
      <3>2. CASE ~Empty(fragments)
        <4>1. UNCHANGED <<dequeue_registered, enqueue_registered>>
          BY <1>2, <3>2 DEF Register
        <4> QED
          BY <2>1, <2>2, <4>1 DEF EnqueueIsSafe, OnePacketAtATime, WatchedHasCredit
      <3> QED
        BY <3>1, <3>2
    <2> QED
      BY <2>1, <2>3
  <1>3. ASSUME NEW h \in Handle, Unregister(h) PROVE SafeInv'
    <2>1. /\ registered' = registered \ {h}
          /\ credits' = [credits EXCEPT ![TypeOf[h]] = @ + sent_packets[h]]
          /\ sent_packets' = [sent_packets EXCEPT ![h] = 0]
          /\ dequeue_registered' = [dequeue_registered EXCEPT ![h] = FALSE]
          /\ link_queue' = [link_queue EXCEPT ![h] = <<>>]
          /\ UNCHANGED <<high_priority, fragments, enqueue_registered>>
      BY <1>3 DEF Unregister
    <2>2. /\ credits' \in [Types -> Nat]
          /\ \A t \in Types : credits[t] > 0 => credits'[t] > 0
      BY <1>a, <2>1
    <2>3. ~Empty(fragments) => TypeOf[Front(fragments)] \in Types
      BY <1>a, FrontFacts
    <2>4. EnqueueIsSafe'
      BY <2>1, <2>2, <2>3 DEF EnqueueIsSafe
    <2>5. OnePacketAtATime'
      BY <2>1 DEF OnePacketAtATime
    <2>6. WatchedHasCredit'
      BY <1>a, <2>1, <2>2 DEF WatchedHasCredit
    <2>7. link_queue' \in [Handle -> Seq(1..MaxFragments)]
      BY <2>1
    <2> QED
      BY <2>1, <2>2, <2>4, <2>5, <2>6, <2>7
  <1>4. ASSUME NEW h \in Prioritized, NEW high \in BOOLEAN, SetLinkPriority(h, high)
        PROVE  SafeInv'
    <2>1. high_priority' \in [Handle -> BOOLEAN]
      BY <1>4 DEF SetLinkPriority
    <2> QED
      BY <1>4, <2>1
      DEF SetLinkPriority, links, EnqueueIsSafe, OnePacketAtATime, WatchedHasCredit
  <1>5. ASSUME NEW h \in Handle, buffer_packet(h) PROVE SafeInv'
    <2> DEFINE pr == IF high_priority[h] THEN 1 ELSE 0
               count == Head(link_queue[h])
               new == [i \in 1..count |-> h]
    <2>1. /\ Empty(fragments) /\ credits[TypeOf[h]] > 0
      BY <1>5 DEF buffer_packet, OnePacketAtATime, WatchedHasCredit
    <2>2. /\ count \in 1..MaxFragments /\ pr \in {0, 1}
          /\ Tail(link_queue[h]) \in Seq(1..MaxFragments)
      BY <1>5, HeadTail DEF buffer_packet, Readable
    <2>3. /\ fragments' = [fragments EXCEPT ![pr] = @ \o new]
          /\ link_queue' = [link_queue EXCEPT ![h] = Tail(link_queue[h])]
          /\ dequeue_registered' = [g \in Handle |-> FALSE]
          /\ sent_packets' = [sent_packets EXCEPT ![h] = @ + Size(fragments')]
          /\ enqueue_registered' = TRUE
          /\ UNCHANGED <<registered, high_priority, credits>>
      BY <1>5 DEF buffer_packet, unregister_all_connections
    <2> HIDE DEF pr, count
    <2>4. /\ new \in Seq(Handle) /\ new # <<>> /\ Head(new) = h
          /\ <<>> \o new = new
          /\ \A i \in DOMAIN new : new[i] = h
      <3>1. count \in Nat \ {0}
        BY <2>2, ConstantsAssumption
      <3> QED
        BY <3>1, Copies
    <2> HIDE DEF new
    <2>5. fragments[0] = <<>> /\ fragments[1] = <<>>
      BY <2>1 DEF Empty
    <2>6. fragments[pr] \o new = new
      BY <2>2, <2>4, <2>5
    <2>7. /\ fragments' \in [{0, 1} -> Seq(Handle)]
          /\ fragments'[pr] = new /\ \A p \in {0, 1} : p # pr => fragments'[p] = <<>>
      BY <2>2, <2>3, <2>4, <2>5, <2>6
    <2>8. ~Empty(fragments') /\ Front(fragments') = h
      BY <2>2, <2>4, <2>7 DEF Empty, Front, Top
    <2>9. Size(fragments') \in Nat
      BY <2>7 DEF Size
    <2>10. sent_packets' \in [Handle -> Nat]
      BY <2>3, <2>9
    <2>11. EnqueueIsSafe'
      BY <2>1, <2>3, <2>8 DEF EnqueueIsSafe
    <2>12. OnePacketAtATime'
      <3>1. \A p \in {0, 1} : \A i \in DOMAIN fragments'[p] : fragments'[p][i] = h
        BY <2>2, <2>4, <2>7
      <3>2. ASSUME NEW p \in {0, 1}, NEW q \in {0, 1},
                   NEW i \in DOMAIN fragments'[p], NEW j \in DOMAIN fragments'[q]
            PROVE  fragments'[p][i] = fragments'[q][j]
        <4>1. fragments'[p][i] = h /\ fragments'[q][j] = h
          BY <3>1
        <4> QED
          BY <4>1
      <3>3. \A g \in Handle : ~dequeue_registered'[g]
        BY <2>3
      <3> QED
        BY <3>2, <3>3 DEF OnePacketAtATime
    <2>13. WatchedHasCredit'
      BY <2>3 DEF WatchedHasCredit
    <2>14. /\ link_queue' \in [Handle -> Seq(1..MaxFragments)]
           /\ dequeue_registered' \in [Handle -> BOOLEAN]
      BY <2>2, <2>3
    <2> QED
      BY <2>3, <2>7, <2>10, <2>11, <2>12, <2>13, <2>14
  <1>6. CASE handle_enqueue_next_fragment
    <2> DEFINE h == Front(fragments)
    <2>1. ~Empty(fragments) /\ credits[TypeOf[h]] > 0 /\ h \in Handle
      BY <1>6, FrontFacts DEF handle_enqueue_next_fragment, EnqueueIsSafe
    <2>2. /\ credits' = [credits EXCEPT ![TypeOf[h]] = @ - 1]
          /\ fragments' = Pop(fragments)
          /\ enqueue_registered' = enqueue_while_credits(credits', fragments')
          /\ UNCHANGED <<registered, dequeue_registered, sent_packets,
                         high_priority, link_queue>>
      BY <1>6 DEF handle_enqueue_next_fragment, links
    <2> HIDE DEF h
    <2>3. credits' \in [Types -> Nat]
      BY <1>a, <2>1, <2>2
    <2>4. /\ fragments' \in [{0, 1} -> Seq(Handle)]
          /\ \A p \in {0, 1} : \A i \in DOMAIN fragments'[p] :
               \E j \in DOMAIN fragments[p] : fragments'[p][i] = fragments[p][j]
      BY <2>1, <2>2, FrontFacts
    <2>5. \A g \in Handle : ~dequeue_registered'[g]
      BY <2>1, <2>2 DEF OnePacketAtATime
    <2>6. OnePacketAtATime'
      <3>1. Uniform(fragments)
        BY <2>1 DEF OnePacketAtATime, Uniform
      <3>2. ASSUME NEW p \in {0, 1}, NEW q \in {0, 1},
                   NEW i \in DOMAIN fragments'[p], NEW j \in DOMAIN fragments'[q]
            PROVE  fragments'[p][i] = fragments'[q][j]
        <4>1. PICK k \in DOMAIN fragments[p] : fragments'[p][i] = fragments[p][k]
          BY <2>4
        <4>2. PICK l \in DOMAIN fragments[q] : fragments'[q][j] = fragments[q][l]
          BY <2>4
        <4> QED
          BY <3>1, <4>1, <4>2 DEF Uniform
      <3> QED
        BY <2>5, <3>2 DEF OnePacketAtATime
    <2>7. WatchedHasCredit'
      BY <2>5 DEF WatchedHasCredit
    <2>8. EnqueueIsSafe' /\ enqueue_registered' \in BOOLEAN
      BY <2>2 DEF EnqueueIsSafe, enqueue_while_credits
    <2> QED
      BY <2>2, <2>3, <2>4, <2>6, <2>7, <2>8
  <1>7. ASSUME NEW h \in Handle, NEW n \in CreditCounts, incoming_acl_credits(h, n)
        PROVE  SafeInv'
    <2>1. CASE UNCHANGED scheduler
      BY <1>7, <2>1
      DEF incoming_acl_credits, links, scheduler, EnqueueIsSafe, OnePacketAtATime,
          WatchedHasCredit
    <2>2. CASE /\ sent_packets' = [sent_packets EXCEPT ![h] = sent_after(@, n)]
               /\ credits' = [credits EXCEPT ![TypeOf[h]] = capped(TypeOf[h], @ + n)]
               /\ restart_if_was_zero(TypeOf[h], credits')
               /\ UNCHANGED <<registered, high_priority, fragments>>
      <3>1. n \in Nat \ {0}
        BY ConstantsAssumption DEF CreditCounts, Types
      <3>2. sent_packets' \in [Handle -> Nat]
        BY <2>2, <3>1 DEF sent_after
      <3>3. MaxCredits[TypeOf[h]] \in Nat \ {0} /\ TypeOf[h] \in Types
        BY <1>a, ConstantsAssumption
      <3>4. /\ credits' \in [Types -> Nat]
            /\ \A t \in Types : credits[t] > 0 => credits'[t] > 0
        BY <2>2, <3>1, <3>3 DEF capped
      <3>5. link_queue' = link_queue
        BY <1>7 DEF incoming_acl_credits, links
      <3>6. /\ ~Empty(fragments) => \A g \in Handle : ~dequeue_registered[g]
            /\ \A g \in Handle : dequeue_registered[g]
                 => g \in registered /\ credits'[TypeOf[g]] > 0
        BY <1>a, <3>4 DEF OnePacketAtATime, WatchedHasCredit
      <3>7. /\ EnqueueIsSafe' /\ OnePacketAtATime' /\ WatchedHasCredit'
            /\ enqueue_registered' \in BOOLEAN
            /\ dequeue_registered' \in [Handle -> BOOLEAN]
        <4>1. CASE start_round_robin(credits', registered, dequeue_registered)
          <5>1. registered \in SUBSET Handle /\ registered' = registered
                /\ UNCHANGED fragments
            BY <2>2
          <5> QED
            BY <3>4, <3>6, <4>1, <5>1, StartStep
        <4>2. CASE UNCHANGED <<enqueue_registered, dequeue_registered>>
          <5>1. ~Empty(fragments) => TypeOf[Front(fragments)] \in Types
            BY <1>a, FrontFacts
          <5> QED
            BY <2>2, <3>4, <3>6, <4>2, <5>1
            DEF EnqueueIsSafe, OnePacketAtATime, WatchedHasCredit
        <4> QED
          BY <2>2, <4>1, <4>2 DEF restart_if_was_zero
      <3> QED
        BY <2>2, <3>2, <3>4, <3>5, <3>7
    <2> QED
      BY <1>7, <2>1, <2>2 DEF incoming_acl_credits
  <1>8. ASSUME NEW h \in Handle, NEW count \in 1..MaxFragments, LinkSends(h, count)
        PROVE  SafeInv'
    <2>1. link_queue' \in [Handle -> Seq(1..MaxFragments)]
      <3>1. Append(link_queue[h], count) \in Seq(1..MaxFragments)
        OBVIOUS
      <3> QED
        BY <1>8, <3>1 DEF LinkSends
    <2> QED
      BY <1>8, <2>1
      DEF LinkSends, scheduler, EnqueueIsSafe, OnePacketAtATime, WatchedHasCredit
  <1>9. CASE UNCHANGED <<scheduler, links>>
    BY <1>9 DEF scheduler, links, EnqueueIsSafe, OnePacketAtATime, WatchedHasCredit
  <1> QED
    BY <1>1, <1>2, <1>3, <1>4, <1>5, <1>6, <1>7, <1>8, <1>9
    DEF Next, HciSends, Connect, Disconnect, ControllerCompletes, vars

(* The invariant holds initially, and of every reachable state. *)
LEMMA SafeInit == Init => SafeInv
  <1> SUFFICES ASSUME Init PROVE SafeInv
    OBVIOUS
  <1>1. /\ fragments \in [{0, 1} -> Seq(Handle)] /\ Empty(fragments)
        /\ link_queue \in [Handle -> Seq(1..MaxFragments)]
    BY DEF Init, Empty
  <1>2. /\ registered \subseteq Handle /\ sent_packets \in [Handle -> Nat]
        /\ credits \in [Types -> Nat]
    BY ConstantsAssumption DEF Init
  <1>3. /\ dequeue_registered \in [Handle -> BOOLEAN]
        /\ high_priority \in [Handle -> BOOLEAN]
        /\ enqueue_registered \in BOOLEAN
    BY DEF Init
  <1>4. EnqueueIsSafe /\ OnePacketAtATime /\ WatchedHasCredit
    BY <1>1 DEF Init, EnqueueIsSafe, OnePacketAtATime, WatchedHasCredit
  <1> QED
    BY <1>1, <1>2, <1>3, <1>4 DEF SafeInv

LEMMA SafeInvariant == Spec => []SafeInv
  BY SafeInit, SafeStep, PTL DEF Spec

(* The assertions of handle_enqueue_next_fragment never fail: whenever the *)
(* HCI queue asks for a fragment there is one, and a credit for it.        *)
THEOREM EnqueueSafe == Spec => []EnqueueIsSafe
  <1>1. SafeInv => EnqueueIsSafe
    BY DEF SafeInv
  <1> QED
    BY <1>1, SafeInvariant, PTL

(* Packets are scheduled one at a time, from one link. *)
THEOREM OnePacket == Spec => []OnePacketAtATime
  <1>1. SafeInv => OnePacketAtATime
    BY DEF SafeInv
  <1> QED
    BY <1>1, SafeInvariant, PTL

(* A watched link is registered and has a credit. *)
THEOREM WatchedLinks == Spec => []WatchedHasCredit
  <1>1. SafeInv => WatchedHasCredit
    BY DEF SafeInv
  <1> QED
    BY <1>1, SafeInvariant, PTL

(* Fragments are sent, and packets taken, only with a credit for them. *)
THEOREM CreditForEverySend == Spec => []SendsWithCredit
  <1>1. SafeInv => SendsWithCredit
    BY DEF SafeInv, SendsWithCredit
  <1> QED
    BY <1>1, SafeInvariant, PTL

(* Induction, for sets of natural numbers and of finite sets. *)
LEMMA SetInduction ==
  ASSUME NEW T, 0 \in T, \A n \in Nat : n \in T => n + 1 \in T
  PROVE  \A n \in Nat : n \in T
  <1> SUFFICES ASSUME NEW m \in Nat, m \notin T PROVE FALSE
    OBVIOUS
  <1> DEFINE U == {n \in Nat : n \notin T}
  <1>1. U \subseteq Nat /\ U # {}
    OBVIOUS
  <1>2. PICK x \in U : \A y \in U : ~(<<y, x>> \in OpToRel(<, Nat))
    BY <1>1, NatLessThanWellFounded, WFMin
  <1>3. x # 0 /\ x - 1 \in Nat /\ x - 1 + 1 = x
    OBVIOUS
  <1>4. x - 1 \in U
    BY <1>3
  <1>5. <<x - 1, x>> \in OpToRel(<, Nat)
    BY <1>3 DEF OpToRel
  <1> QED
    BY <1>2, <1>4, <1>5

LEMMA SubsetInduction ==
  ASSUME NEW S, IsFiniteSet(S), NEW T, {} \in T,
         \A U \in SUBSET S : U # {} /\ (\A x \in U : U \ {x} \in T) => U \in T
  PROVE  \A U \in SUBSET S : U \in T
  <1> DEFINE N == {n \in Nat : \A U \in SUBSET S : Cardinality(U) = n => U \in T}
  <1>1. 0 \in N
    <2> SUFFICES ASSUME NEW U \in SUBSET S, Cardinality(U) = 0 PROVE U \in T
      OBVIOUS
    <2>1. IsFiniteSet(U)
      BY FS_Subset
    <2> QED
      BY <2>1, FS_EmptySet
  <1>2. ASSUME NEW n \in Nat, n \in N PROVE n + 1 \in N
    <2> SUFFICES ASSUME NEW U \in SUBSET S, Cardinality(U) = n + 1 PROVE U \in T
      OBVIOUS
    <2>1. IsFiniteSet(U) /\ U # {}
      BY FS_Subset, FS_EmptySet
    <2>2. \A x \in U : U \ {x} \in T
      <3> TAKE x \in U
      <3>1. Cardinality(U \ {x}) = n
        <4>1. Cardinality(U \ {x}) = Cardinality(U) - 1
          BY <2>1, FS_RemoveElement
        <4> QED
          BY <4>1
      <3> QED
        BY <1>2, <3>1
    <2> QED
      BY <2>1, <2>2
  <1> HIDE DEF N
  <1>3. \A n \in Nat : n \in N
    BY <1>1, <1>2, SetInduction
  <1> TAKE U \in SUBSET S
  <1>4. Cardinality(U) \in Nat
    BY FS_Subset, FS_CardinalityType
  <1> QED
    BY <1>3, <1>4 DEF N

Pick(s) == CHOOSE x \in s : TRUE
Rec(g, f, S) == g = [s \in SUBSET S |-> IF s = {} THEN 0 ELSE f[Pick(s)] + g[s \ {Pick(s)}]]

LEMMA SumIsRec ==
  ASSUME NEW f, NEW S
  PROVE SumOver(f, S) = (CHOOSE g : Rec(g, f, S))[S]
  BY DEF SumOver, MapThenSumSet, MapThenFoldSet, Rec, Pick

LEMMA PickIn ==
  ASSUME NEW s, s # {}
  PROVE Pick(s) \in s
  BY DEF Pick

LEMMA RecExists ==
  ASSUME NEW S, IsFiniteSet(S), NEW f, \A x \in S : f[x] \in Int
  PROVE  \E g : Rec(g, f, S)
  <1> DEFINE next(g, s) == IF s = {} THEN 0 ELSE f[Pick(s)] + g[s \ {Pick(s)}]
             N == {n \in Nat : \E g \in [SUBSET S -> Int] :
                                 \A s \in SUBSET S : Cardinality(s) <= n => g[s] = next(g, s)}
  <1>1. \A s \in SUBSET S : Cardinality(s) \in Nat /\ IsFiniteSet(s)
    BY FS_Subset, FS_CardinalityType
  <1>2. \A s \in SUBSET S : s # {} => /\ Pick(s) \in s /\ s \ {Pick(s)} \in SUBSET S
                                      /\ Cardinality(s \ {Pick(s)}) = Cardinality(s) - 1
    BY <1>1, PickIn, FS_RemoveElement
  <1>3. 0 \in N
    <2> DEFINE g == [s \in SUBSET S |-> 0]
    <2>1. g \in [SUBSET S -> Int]
      OBVIOUS
    <2>2. ASSUME NEW s \in SUBSET S, Cardinality(s) <= 0 PROVE g[s] = next(g, s)
      <3>1. s = {}
        BY <1>1, <2>2, FS_EmptySet
      <3> QED
        BY <3>1
    <2> HIDE DEF g, next
    <2> QED
      BY <2>1, <2>2
  <1>4. ASSUME NEW n \in Nat, n \in N PROVE n + 1 \in N
    <2> HIDE DEF next
    <2>1. PICK g \in [SUBSET S -> Int] :
            \A s \in SUBSET S : Cardinality(s) <= n => g[s] = next(g, s)
      BY <1>4
    <2> USE DEF next
    <2> DEFINE h == [s \in SUBSET S |-> IF Cardinality(s) <= n THEN g[s] ELSE next(g, s)]
    <2>2. \A s \in SUBSET S : next(g, s) \in Int
      <3> SUFFICES ASSUME NEW s \in SUBSET S, s # {} PROVE next(g, s) \in Int
        OBVIOUS
      <3>1. f[Pick(s)] \in Int /\ g[s \ {Pick(s)}] \in Int
        BY <1>2, <2>1
      <3> QED
        BY <3>1
    <2>3. h \in [SUBSET S -> Int]
      BY <2>2
    <2>4. ASSUME NEW s \in SUBSET S, Cardinality(s) <= n + 1 PROVE h[s] = next(h, s)
      <3>1. CASE s = {}
        <4>1. h[s] = g[s] \/ h[s] = next(g, s)
          OBVIOUS
        <4>2. Cardinality(s) = 0
          BY <3>1, FS_EmptySet
        <4>3. g[s] = 0
          BY <2>1, <3>1, <4>2
        <4> QED
          BY <3>1, <4>1, <4>3
      <3>2. CASE s # {}
        <4> DEFINE r == s \ {Pick(s)}
        <4>1. r \in SUBSET S /\ Cardinality(r) <= n
          BY <1>1, <1>2, <2>4, <3>2
        <4>2. h[r] = g[r]
          BY <4>1
        <4>3. next(h, s) = next(g, s)
          BY <3>2, <4>2
        <4>4. h[s] = next(g, s)
          BY <2>1
        <4> QED
          BY <4>3, <4>4
      <3> QED
        BY <3>1, <3>2
    <2> HIDE DEF h, next
    <2> QED
      BY <2>3, <2>4
  <1>5. Cardinality(S) \in N
    <2> HIDE DEF N
    <2>1. \A n \in Nat : n \in N
      BY <1>3, <1>4, SetInduction
    <2> QED
      BY <2>1, FS_CardinalityType
  <1>6. PICK g \in [SUBSET S -> Int] :
          \A s \in SUBSET S : Cardinality(s) <= Cardinality(S) => g[s] = next(g, s)
    BY <1>5
  <1>7. \A s \in SUBSET S : g[s] = next(g, s)
    BY <1>6, FS_Subset
  <1>8. Rec(g, f, S)
    BY <1>6, <1>7 DEF Rec
  <1> QED
    BY <1>8

(* Elements may be added in any order, and of any set that has them. *)
LEMMA RecAny ==
  ASSUME NEW S, IsFiniteSet(S), NEW f, \A x \in S : f[x] \in Int, NEW g, Rec(g, f, S)
  PROVE  /\ \A s \in SUBSET S : g[s] \in Int
         /\ \A s \in SUBSET S : \A x \in s : g[s] = f[x] + g[s \ {x}]
         /\ g[{}] = 0
  <1>1. \A s \in SUBSET S : g[s] = IF s = {} THEN 0 ELSE f[Pick(s)] + g[s \ {Pick(s)}]
    BY DEF Rec
  <1> DEFINE T == {s \in SUBSET S : g[s] \in Int /\ \A x \in s : g[s \ {x}] \in Int /\ g[s] = f[x] + g[s \ {x}]}
  <1>2. g[{}] = 0
    BY <1>1
  <1>3. {} \in T
    BY <1>2
  <1>4. ASSUME NEW U \in SUBSET S, U # {}, \A x \in U : U \ {x} \in T
        PROVE  U \in T
    <2> DEFINE p == Pick(U)
    <2>1. p \in U /\ g[U] = f[p] + g[U \ {p}]
      BY <1>1, <1>4, PickIn
    <2> HIDE DEF p
    <2>2. g[U \ {p}] \in Int /\ f[p] \in Int
      BY <1>4, <2>1
    <2>3. ASSUME NEW x \in U, x # p PROVE g[U] = f[x] + g[U \ {x}]
      <3>1. g[U \ {p}] = f[x] + g[(U \ {p}) \ {x}]
        BY <1>4, <2>1, <2>3
      <3>2. g[U \ {x}] = f[p] + g[(U \ {x}) \ {p}]
        BY <1>4, <2>1, <2>3
      <3>3. (U \ {x}) \ {p} = (U \ {p}) \ {x}
        OBVIOUS
      <3> DEFINE r == g[(U \ {p}) \ {x}]
      <3>4. r \in Int
        BY <1>4, <2>1, <2>3
      <3>5. g[U \ {x}] = f[p] + r /\ g[U \ {p}] = f[x] + r
        BY <3>1, <3>2, <3>3
      <3>6. f[x] \in Int /\ f[p] \in Int
        BY <2>1
      <3> HIDE DEF r
      <3> QED
        BY <2>1, <3>4, <3>5, <3>6
    <2>4. g[U] \in Int
      BY <2>1, <2>2
    <2>5. \A x \in U : g[U \ {x}] \in Int /\ g[U] = f[x] + g[U \ {x}]
      BY <1>4, <2>1, <2>3
    <2> QED
      BY <2>4, <2>5
  <1> HIDE DEF T
  <1>5. \A s \in SUBSET S : s \in T
    BY <1>3, <1>4, SubsetInduction
  <1> QED
    BY <1>2, <1>5 DEF T

LEMMA RecAgree ==
  ASSUME NEW S, IsFiniteSet(S), NEW U \in SUBSET S,
         NEW f, \A x \in S : f[x] \in Int, NEW e, \A x \in U : e[x] = f[x],
         NEW g, Rec(g, f, S), NEW k, Rec(k, e, U)
  PROVE  \A s \in SUBSET U : g[s] = k[s]
  <1>1. IsFiniteSet(U) /\ \A x \in U : e[x] \in Int
    BY FS_Subset
  <1> DEFINE T == {s \in SUBSET U : g[s] = k[s]}
  <1>2. /\ \A s \in SUBSET S : \A x \in s : g[s] = f[x] + g[s \ {x}]
        /\ g[{}] = 0
    BY RecAny
  <1>3. /\ \A s \in SUBSET U : \A x \in s : k[s] = e[x] + k[s \ {x}]
        /\ k[{}] = 0
    BY <1>1, RecAny
  <1>4. {} \in T
    BY <1>2, <1>3
  <1>5. ASSUME NEW s \in SUBSET U, s # {}, \A x \in s : s \ {x} \in T
        PROVE  s \in T
    <2>1. PICK x \in s : TRUE
      BY <1>5
    <2>2. g[s] = f[x] + g[s \ {x}] /\ k[s] = e[x] + k[s \ {x}]
      BY <1>2, <1>3
    <2>3. g[s \ {x}] = k[s \ {x}] /\ e[x] = f[x]
      BY <1>5
    <2> QED
      BY <2>2, <2>3
  <1> HIDE DEF T
  <1>6. \A s \in SUBSET U : s \in T
    BY ONLY <1>1, <1>4, <1>5, SubsetInduction
  <1> QED
    BY <1>6 DEF T

(* What the sums of CreditSum are: nothing for no link, and one term and   *)
(* the sum over the other links otherwise.                                 *)
LEMMA SumEmpty ==
  ASSUME NEW f
  PROVE  SumOver(f, {}) = 0
  <1>1. IsFiniteSet({}) /\ \A x \in {} : f[x] \in Int
    BY FS_EmptySet
  <1>2. Rec(CHOOSE g : Rec(g, f, {}), f, {})
    BY <1>1, RecExists
  <1> DEFINE k == CHOOSE g : Rec(g, f, {})
  <1> HIDE DEF k
  <1>3. k[{}] = 0
    BY <1>1, <1>2, RecAny DEF k
  <1> QED
    BY <1>3, SumIsRec DEF k

LEMMA SumStep ==
  ASSUME NEW S, IsFiniteSet(S), NEW f, \A x \in S : f[x] \in Int
  PROVE  /\ SumOver(f, S) \in Int
         /\ \A x \in S : SumOver(f, S) = f[x] + SumOver(f, S \ {x})
  <1> DEFINE k == CHOOSE g : Rec(g, f, S)
  <1>1. Rec(k, f, S) /\ SumOver(f, S) = k[S]
    BY RecExists, SumIsRec
  <1> HIDE DEF k
  <1>2. k[S] \in Int /\ \A x \in S : k[S] = f[x] + k[S \ {x}]
    <2>1. /\ \A s \in SUBSET S : k[s] \in Int
          /\ \A s \in SUBSET S : \A x \in s : k[s] = f[x] + k[s \ {x}]
      BY ONLY <1>1, IsFiniteSet(S), \A x \in S : f[x] \in Int, RecAny
    <2> QED
      BY <2>1
  <1>3. ASSUME NEW x \in S PROVE k[S \ {x}] = SumOver(f, S \ {x})
    <2> DEFINE U == S \ {x}
               l == CHOOSE g : Rec(g, f, U)
    <2>1. U \in SUBSET S /\ IsFiniteSet(U) /\ \A y \in U : f[y] \in Int
      BY FS_Subset
    <2> HIDE DEF U
    <2>2. Rec(l, f, U) /\ SumOver(f, U) = l[U]
      BY <2>1, RecExists, SumIsRec
    <2> HIDE DEF l
    <2>3. k[U] = l[U]
      BY <1>1, <2>1, <2>2, RecAgree
    <2> QED
      BY <2>2, <2>3 DEF U
  <1> QED
    BY <1>1, <1>2, <1>3

LEMMA SumSame ==
  ASSUME NEW S, IsFiniteSet(S), NEW f, \A x \in S : f[x] \in Int,
         NEW e, \A x \in S : e[x] = f[x]
  PROVE  SumOver(e, S) = SumOver(f, S)
  <1> DEFINE k == CHOOSE g : Rec(g, f, S)
             l == CHOOSE g : Rec(g, e, S)
  <1>1. Rec(k, f, S) /\ SumOver(f, S) = k[S]
    BY RecExists, SumIsRec
  <1>2. \A x \in S : e[x] \in Int
    OBVIOUS
  <1>3. Rec(l, e, S) /\ SumOver(e, S) = l[S]
    BY <1>2, RecExists, SumIsRec
  <1> HIDE DEF k, l
  <1>4. \A s \in SUBSET S : k[s] = l[s]
    BY ONLY <1>1, <1>3, S \in SUBSET S, IsFiniteSet(S), \A x \in S : f[x] \in Int,
            \A x \in S : e[x] = f[x], RecAgree
  <1> QED
    BY <1>1, <1>3, <1>4

LEMMA SumChange ==
  ASSUME NEW S, IsFiniteSet(S), NEW f, \A x \in S : f[x] \in Int,
         NEW a \in S, NEW e, e[a] \in Int, \A x \in S \ {a} : e[x] = f[x]
  PROVE  SumOver(e, S) = SumOver(f, S) - f[a] + e[a]
  <1>1. IsFiniteSet(S \ {a}) /\ \A x \in S \ {a} : f[x] \in Int
    BY FS_Subset
  <1>2. SumOver(e, S \ {a}) = SumOver(f, S \ {a}) /\ SumOver(f, S \ {a}) \in Int
    BY <1>1, SumSame, SumStep
  <1>3. SumOver(f, S) = f[a] + SumOver(f, S \ {a})
    BY SumStep
  <1>4. \A x \in S : e[x] \in Int
    OBVIOUS
  <1>5. SumOver(e, S) = e[a] + SumOver(e, S \ {a})
    BY <1>4, SumStep
  <1> QED
    BY <1>2, <1>3, <1>5

(* A term is no more than the sum when no other is negative. *)
LEMMA SumBound ==
  ASSUME NEW S, IsFiniteSet(S), NEW f, \A x \in S : f[x] \in Nat
  PROVE  SumOver(f, S) \in Nat /\ \A x \in S : f[x] <= SumOver(f, S)
  <1> DEFINE T == {s \in SUBSET S : SumOver(f, s) \in Nat}
  <1>0. \A s \in SUBSET S : IsFiniteSet(s) /\ \A x \in s : f[x] \in Int
    BY FS_Subset
  <1>1. {} \in T
    BY SumEmpty
  <1>2. ASSUME NEW s \in SUBSET S, s # {}, \A x \in s : s \ {x} \in T
        PROVE  s \in T
    <2>1. PICK x \in s : TRUE
      BY <1>2
    <2>2. SumOver(f, s) = f[x] + SumOver(f, s \ {x})
      BY <1>0, SumStep
    <2>3. SumOver(f, s \ {x}) \in Nat /\ f[x] \in Nat
      BY <1>2
    <2> QED
      BY <2>2, <2>3
  <1> HIDE DEF T
  <1>3. \A s \in SUBSET S : s \in T
    BY ONLY <1>1, <1>2, IsFiniteSet(S), SubsetInduction
  <1>4. \A s \in SUBSET S : SumOver(f, s) \in Nat
    BY <1>3 DEF T
  <1>5. ASSUME NEW x \in S PROVE f[x] <= SumOver(f, S)
    <2>1. SumOver(f, S) = f[x] + SumOver(f, S \ {x})
      BY <1>0, SumStep
    <2>2. SumOver(f, S \ {x}) \in Nat /\ f[x] \in Nat
      BY <1>4
    <2> QED
      BY <2>1, <2>2
  <1> QED
    BY <1>4, <1>5

(* How many elements of a queue belong to a link. *)
LEMMA CountFinite ==
  ASSUME NEW S, NEW s \in Seq(S), NEW h
  PROVE  /\ IsFiniteSet({i \in DOMAIN s : s[i] = h})
         /\ CountIn(s, h) \in Nat
         /\ CountIn(s, h) = 0 <=> \A i \in DOMAIN s : s[i] # h
  <1> DEFINE I == {i \in DOMAIN s : s[i] = h}
  <1>1. DOMAIN s = 1..Len(s) /\ Len(s) \in Nat
    OBVIOUS
  <1>2. IsFiniteSet(DOMAIN s)
    BY <1>1, FS_Interval
  <1>3. I \in SUBSET DOMAIN s
    OBVIOUS
  <1>4. IsFiniteSet(I)
    BY <1>2, <1>3, FS_Subset
  <1>5. Cardinality(I) \in Nat /\ (Cardinality(I) = 0 <=> I = {})
    BY <1>4, FS_CardinalityType, FS_EmptySet
  <1> QED
    BY <1>4, <1>5 DEF CountIn

LEMMA CountEmpty ==
  ASSUME NEW h
  PROVE  CountIn(<<>>, h) = 0
  <1>1. {i \in DOMAIN <<>> : <<>>[i] = h} = {}
    OBVIOUS
  <1> QED
    BY <1>1, FS_EmptySet DEF CountIn

LEMMA CountAppend ==
  ASSUME NEW S, NEW s \in Seq(S), NEW e \in S, NEW h
  PROVE  CountIn(Append(s, e), h) = CountIn(s, h) + (IF e = h THEN 1 ELSE 0)
  <1> DEFINE I == {i \in DOMAIN s : s[i] = h}
             J == {i \in DOMAIN Append(s, e) : Append(s, e)[i] = h}
             n == Len(s) + 1
  <1>1. /\ DOMAIN s = 1..Len(s) /\ Len(s) \in Nat
        /\ DOMAIN Append(s, e) = 1..n
        /\ \A i \in 1..Len(s) : Append(s, e)[i] = s[i]
        /\ Append(s, e)[n] = e
    OBVIOUS
  <1>2. J = IF e = h THEN I \cup {n} ELSE I
    <2>1. \A i : i \in 1..n <=> i \in 1..Len(s) \/ i = n
      BY <1>1
    <2> HIDE DEF n
    <2>2. \A i : i \in J <=> i \in I \/ (i = n /\ e = h)
      BY <1>1, <2>1
    <2> HIDE DEF I, J
    <2>3. CASE e = h
      BY <2>2, <2>3
    <2>4. CASE e # h
      BY <2>2, <2>4
    <2> QED
      BY <2>3, <2>4
  <1>3. n \notin I
    BY <1>1
  <1>4. IsFiniteSet(I) /\ Cardinality(I) \in Nat
    BY CountFinite DEF CountIn
  <1>5. Cardinality(I \cup {n}) = Cardinality(I) + 1
    <2> HIDE DEF I, n
    <2> QED
      BY <1>3, <1>4, FS_AddElement
  <1>6. CountIn(s, h) = Cardinality(I) /\ CountIn(Append(s, e), h) = Cardinality(J)
    BY DEF CountIn
  <1> HIDE DEF I, J, n
  <1>7. CASE e = h
    BY <1>2, <1>5, <1>6, <1>7
  <1>8. CASE e # h
    BY <1>2, <1>4, <1>6, <1>8
  <1> QED
    BY <1>7, <1>8

LEMMA CountTail ==
  ASSUME NEW S, NEW s \in Seq(S), s # <<>>, NEW h
  PROVE  CountIn(s, h) = CountIn(Tail(s), h) + (IF Head(s) = h THEN 1 ELSE 0)
  <1> DEFINE I == {i \in DOMAIN s : s[i] = h}
             J == {i \in DOMAIN Tail(s) : Tail(s)[i] = h}
             K == I \ {1}
             b == [i \in J |-> i + 1]
  <1>1. /\ DOMAIN s = 1..Len(s) /\ Len(s) \in Nat \ {0}
        /\ Tail(s) \in Seq(S) /\ DOMAIN Tail(s) = 1..(Len(s) - 1)
        /\ \A i \in 1..(Len(s) - 1) : Tail(s)[i] = s[i + 1]
        /\ Head(s) = s[1]
    OBVIOUS
  <1>2. \A i \in J : i \in Int /\ i + 1 \in K
    BY <1>1
  <1>3. \A k \in K : k - 1 \in J /\ k - 1 + 1 = k
    BY <1>1
  <1>4. IsFiniteSet(I) /\ IsFiniteSet(J) /\ CountIn(s, h) = Cardinality(I)
        /\ CountIn(Tail(s), h) = Cardinality(J)
    <2>1. IsFiniteSet(I)
      BY CountFinite
    <2>2. IsFiniteSet(J)
      <3> DEFINE t == Tail(s)
      <3>1. t \in Seq(S)
        BY <1>1
      <3> HIDE DEF t
      <3>2. IsFiniteSet({i \in DOMAIN t : t[i] = h})
        BY <3>1, CountFinite
      <3> QED
        BY <3>2 DEF t
    <2> QED
      BY <2>1, <2>2 DEF CountIn
  <1>5. 1 \in I <=> Head(s) = h
    BY <1>1
  <1> HIDE DEF I, J
  <1>6. b \in Bijection(J, K)
    <2>1. b \in [J -> K]
      BY <1>2
    <2>2. \A i, j \in J : b[i] = b[j] => i = j
      BY <1>2
    <2>3. \A k \in K : \E i \in J : b[i] = k
      BY <1>3
    <2> HIDE DEF b
    <2> QED
      BY <2>1, <2>2, <2>3 DEF Bijection, Injection, Surjection, IsInjective
  <1>7. Cardinality(K) = Cardinality(J)
    BY <1>4, <1>6, FS_Bijection DEF ExistsBijection
  <1>8. Cardinality(K) = IF 1 \in I THEN Cardinality(I) - 1 ELSE Cardinality(I)
    BY <1>4, FS_RemoveElement
  <1>9. Cardinality(I) \in Nat
    BY <1>4, FS_CardinalityType
  <1> HIDE DEF K
  <1> QED
    BY <1>4, <1>5, <1>7, <1>8, <1>9

LEMMA CountCopies ==
  ASSUME NEW n \in Nat, NEW h, NEW g
  PROVE  CountIn([i \in 1..n |-> h], g) = IF g = h THEN n ELSE 0
  <1> DEFINE c == [i \in 1..n |-> h]
             I == {i \in DOMAIN c : c[i] = g}
  <1>1. I = IF g = h THEN 1..n ELSE {}
    OBVIOUS
  <1>2. Cardinality(1..n) = n
    BY FS_Interval
  <1> HIDE DEF I
  <1>3. Cardinality(I) = IF g = h THEN n ELSE 0
    BY <1>1, <1>2, FS_EmptySet
  <1> QED
    BY <1>3 DEF I, CountIn

(***************************************************************************)
(* Types, and the credits.                                                 *)
(***************************************************************************)
EnvTypeOK ==
  /\ posted \in Nat
  /\ packets \in 0..MaxPackets
  /\ hci_queue \in Seq(Handle)
  /\ connected \subseteq Handle
  /\ buffered \in [Handle -> Nat]
  /\ completed \in [Handle -> Nat]

LEMMA EnvTypeStep == SafeInv /\ EnvTypeOK /\ [Next]_vars => EnvTypeOK'
  <1> SUFFICES ASSUME SafeInv, EnvTypeOK, [Next]_vars PROVE EnvTypeOK'
    OBVIOUS
  <1> USE DEF EnvTypeOK
  <1>1. CASE start_round_robin_task
    BY <1>1 DEF start_round_robin_task, links, controller
  <1>2. CASE handle_enqueue_next_fragment
    <2>1. Front(fragments) \in Handle
      BY <1>2, FrontFacts DEF SafeInv, handle_enqueue_next_fragment, EnqueueIsSafe
    <2>2. hci_queue' = Append(hci_queue, Front(fragments)) /\ posted' \in Nat
          /\ UNCHANGED <<packets, connected, buffered, completed>>
      BY <1>2 DEF handle_enqueue_next_fragment, links
    <2>3. Append(hci_queue, Front(fragments)) \in Seq(Handle)
      BY <2>1
    <2> QED
      BY <2>2, <2>3
  <1>3. ASSUME NEW h \in Handle, NEW n \in CreditCounts, incoming_acl_credits(h, n)
        PROVE  EnvTypeOK'
    <2>1. n \in Nat /\ n <= completed[h] /\ completed[h] \in Nat
      BY <1>3 DEF incoming_acl_credits
    <2>2. completed' = [completed EXCEPT ![h] = @ - n]
          /\ UNCHANGED <<posted, packets, hci_queue, connected, buffered>>
      BY <1>3 DEF incoming_acl_credits, links
    <2>3. completed' \in [Handle -> Nat]
      BY <2>1, <2>2
    <2> QED
      BY <2>2, <2>3
  <1>4. ASSUME NEW h \in Handle, NEW count \in 1..MaxFragments, LinkSends(h, count)
        PROVE  EnvTypeOK'
    BY <1>4, ConstantsAssumption DEF LinkSends, controller
  <1>5. CASE HciSends
    <2>1. Tail(hci_queue) \in Seq(Handle)
      BY <1>5, HeadTail DEF HciSends
    <2>2. buffered' \in [Handle -> Nat]
      BY <1>5 DEF HciSends
    <2> QED
      BY <1>5, <2>1, <2>2 DEF HciSends, links
  <1>6. ASSUME NEW h \in Handle, Connect(h) \/ Disconnect(h) PROVE EnvTypeOK'
    BY <1>6 DEF Connect, Disconnect, links
  <1>7. ASSUME NEW h \in Handle, NEW n \in CreditCounts, ControllerCompletes(h, n)
        PROVE  EnvTypeOK'
    <2>1. n \in Nat /\ n <= buffered[h] /\ buffered[h] \in Nat /\ completed[h] \in Nat
      BY <1>7 DEF ControllerCompletes
    <2>2. /\ buffered' = [buffered EXCEPT ![h] = @ - n]
          /\ completed' = [completed EXCEPT ![h] = @ + n]
          /\ UNCHANGED <<posted, packets, hci_queue, connected>>
      BY <1>7 DEF ControllerCompletes, links
    <2>3. buffered' \in [Handle -> Nat] /\ completed' \in [Handle -> Nat]
      BY <2>1, <2>2
    <2> QED
      BY <2>2, <2>3
  <1>8. CASE UNCHANGED <<posted, packets, controller>>
    BY <1>8 DEF controller
  <1> QED
    BY <1>1, <1>2, <1>3, <1>4, <1>5, <1>6, <1>7, <1>8
    DEF Next, Register, Unregister, SetLinkPriority, buffer_packet, vars, links

(* Where the rotation stands: at a link, or behind the last one. *)
RotationOK ==
  /\ starting_point \in Handle \cup {End} /\ ahead \in [Handle -> SUBSET Handle]
  /\ reclaimed \in BOOLEAN

LEMMA BeginType ==
  ASSUME NEW regs \in SUBSET Handle
  PROVE  Begin(regs) \in Handle \cup {End}
  <1>1. CASE regs = {}
    BY <1>1 DEF Begin
  <1>2. CASE regs # {}
    <2>1. regs \in SUBSET Nat
      BY ConstantsAssumption
    <2>2. PICK n \in regs : \A m \in regs : ~(<<m, n>> \in OpToRel(<, Nat))
      BY <1>2, <2>1, NatLessThanWellFounded, WFMin
    <2>3. ASSUME NEW m \in regs PROVE n <= m
      <3>1. m \in Nat /\ n \in Nat
        BY <2>1
      <3>2. CASE m < n
        <4>1. <<m, n>> \in OpToRel(<, Nat)
          BY <3>1, <3>2 DEF OpToRel
        <4> QED
          BY <2>2, <4>1
      <3> QED
        BY <3>1, <3>2
    <2>4. Min(regs) \in regs
      BY <2>3 DEF Min
    <2> QED
      BY <1>2, <2>4 DEF Begin
  <1> QED
    BY <1>1, <1>2

LEMMA StartRotates ==
  ASSUME RotationOK, NEW cr, NEW regs \in SUBSET Handle, NEW dequeue,
         start_round_robin(cr, regs, dequeue)
  PROVE  RotationOK'
  <1>1. \A h : Following(h, regs) \in Handle \cup {End}
    <2> TAKE h
    <2>1. {g \in regs : g > h} \in SUBSET Handle
      OBVIOUS
    <2> QED
      BY <2>1, BeginType DEF Following
  <1>2. starting_point' \in Handle \cup {End}
    BY <1>1 DEF start_round_robin, RotationOK
  <1>3. ahead' \in [Handle -> SUBSET Handle]
    BY DEF start_round_robin, Ready, RotationOK
  <1>4. reclaimed' \in BOOLEAN
    BY DEF start_round_robin
  <1> QED
    BY <1>2, <1>3, <1>4 DEF RotationOK

LEMMA RotationStep == SafeInv /\ RotationOK /\ [Next]_vars => RotationOK'
  <1> SUFFICES ASSUME SafeInv, RotationOK, [Next]_vars PROVE RotationOK'
    OBVIOUS
  <1>0. registered \in SUBSET Handle
    BY DEF SafeInv
  <1>1. CASE UNCHANGED rotation
    BY <1>1 DEF rotation, RotationOK
  <1>2. CASE start_round_robin_task
    <2>1. start_round_robin(credits, registered, dequeue_registered)
      BY <1>2 DEF start_round_robin_task
    <2> QED
      BY <1>0, <2>1, StartRotates
  <1>3. ASSUME NEW h \in Handle, Register(h) PROVE RotationOK'
    <2>1. registered' \in SUBSET Handle
      BY <1>0, <1>3 DEF Register
    <2>2. \/ start_round_robin(credits, registered', dequeue_registered)
          \/ UNCHANGED rotation
      BY <1>3 DEF Register
    <2> QED
      BY <1>1, <2>1, <2>2, StartRotates
  <1>4. ASSUME NEW h \in Handle, Unregister(h) PROVE RotationOK'
    <2>1. registered' \in SUBSET Handle /\ starting_point' = Begin(registered')
          /\ ahead' = [g \in Handle |-> IF g = h THEN {} ELSE ahead[g] \ {h}]
      BY <1>0, <1>4 DEF Unregister, without
    <2>2. starting_point' \in Handle \cup {End}
      BY <2>1, BeginType
    <2>3. ahead' \in [Handle -> SUBSET Handle]
      BY <2>1 DEF RotationOK
    <2>4. reclaimed' \in BOOLEAN
      BY <1>4, Zenon DEF Unregister
    <2> QED
      BY <2>2, <2>3, <2>4 DEF RotationOK
  <1>5. ASSUME NEW h \in Handle, buffer_packet(h) PROVE RotationOK'
    BY <1>5 DEF buffer_packet, RotationOK
  <1>6. ASSUME NEW h \in Handle, NEW n \in CreditCounts, incoming_acl_credits(h, n)
        PROVE  RotationOK'
    <2>1. \/ start_round_robin(credits', registered, dequeue_registered)
          \/ UNCHANGED rotation
      BY <1>6 DEF incoming_acl_credits, restart_if_was_zero, scheduler
    <2> QED
      BY <1>0, <1>1, <2>1, StartRotates
  <1>7. ASSUME NEW h \in Handle, NEW count \in 1..MaxFragments, LinkSends(h, count)
        PROVE  RotationOK'
    BY <1>7 DEF LinkSends, Ready, RotationOK
  <1>8. UNCHANGED scheduler => UNCHANGED rotation
    BY DEF scheduler
  <1> QED
    BY <1>1, <1>2, <1>3, <1>4, <1>5, <1>6, <1>7, <1>8
    DEF Next, SetLinkPriority, handle_enqueue_next_fragment, HciSends, Connect, Disconnect,
        ControllerCompletes, vars

LEMMA RotationInit == Init => RotationOK
  BY DEF Init, RotationOK

(* All parts of the type invariant hold of every reachable state. *)
LEMMA EnvTypeInit == Init => EnvTypeOK
  BY ConstantsAssumption DEF Init, EnvTypeOK

LEMMA EnvTypeInvariant == Spec => [](SafeInv /\ EnvTypeOK /\ RotationOK)
  BY SafeInvariant, EnvTypeInit, EnvTypeStep, RotationInit, RotationStep, PTL DEF Spec

(* Every variable of the scheduler has its type; in particular the         *)
(* counters that incoming_acl_credits and Unregister subtract from and add *)
(* to never go below zero, whatever the order of losses and late events.   *)
THEOREM TypeCorrect == Spec => []TypeOK
  <1>1. SafeInv /\ EnvTypeOK /\ RotationOK => TypeOK
    BY DEF SafeInv, EnvTypeOK, RotationOK, TypeOK
  <1> QED
    BY <1>1, EnvTypeInvariant, PTL

(***************************************************************************)
(* Where the credits are, while links that still have packets to send are  *)
(* not lost.                                                               *)
(***************************************************************************)
OnTheWay(h) == CountIn(hci_queue, h) + buffered[h] + completed[h]

(* A link that is lost has nothing left to send; what a lost link has      *)
(* outstanding covers the events that may still arrive for it; a new link  *)
(* starts with nothing on its way; and a live one has exactly its          *)
(* outstanding fragments on their way.                                     *)
LinkInv(h) ==
  /\ ~(h \in registered /\ h \in connected)
       => Buffered(h) = 0 /\ link_queue[h] = <<>>
  /\ h \notin connected => buffered[h] = 0
  /\ h \in connected /\ h \notin registered => OnTheWay(h) = 0
  /\ h \in registered => Outstanding[h] >= OnTheWay(h)
  /\ h \in registered /\ h \in connected => Outstanding[h] = OnTheWay(h)

CreditInv ==
  /\ SafeInv
  /\ EnvTypeOK
  /\ \A h \in Handle : LinkInv(h)
  /\ CreditSum

(* The counts of a state are natural numbers. *)
LEMMA CountsNow ==
  ASSUME SafeInv, EnvTypeOK, NEW h \in Handle
  PROVE  /\ Buffered(h) \in Nat /\ CountIn(hci_queue, h) \in Nat
         /\ sent_packets[h] \in Nat /\ buffered[h] \in Nat /\ completed[h] \in Nat
         /\ Outstanding[h] = sent_packets[h] - Buffered(h)
         /\ Outstanding[h] \in Int
  <1>1. CountIn(fragments[0], h) \in Nat /\ CountIn(fragments[1], h) \in Nat
    <2>1. fragments[0] \in Seq(Handle) /\ fragments[1] \in Seq(Handle)
      BY DEF SafeInv
    <2> QED
      BY <2>1, CountFinite
  <1>2. CountIn(hci_queue, h) \in Nat
    BY CountFinite DEF EnvTypeOK
  <1>3. Buffered(h) \in Nat
    BY <1>1 DEF Buffered
  <1>4. sent_packets[h] \in Nat /\ buffered[h] \in Nat /\ completed[h] \in Nat
    BY DEF SafeInv, EnvTypeOK
  <1>5. Outstanding[h] = sent_packets[h] - Buffered(h)
    BY DEF Outstanding
  <1> QED
    BY <1>2, <1>3, <1>4, <1>5

LEMMA CountsNext ==
  ASSUME SafeInv', EnvTypeOK', NEW h \in Handle
  PROVE  /\ Buffered(h)' \in Nat /\ CountIn(hci_queue', h) \in Nat
         /\ sent_packets'[h] \in Nat /\ buffered'[h] \in Nat /\ completed'[h] \in Nat
         /\ Outstanding'[h] = sent_packets'[h] - Buffered(h)'
         /\ Outstanding'[h] \in Int
  <1>1. CountIn(fragments'[0], h) \in Nat /\ CountIn(fragments'[1], h) \in Nat
    <2>1. fragments'[0] \in Seq(Handle) /\ fragments'[1] \in Seq(Handle)
      BY DEF SafeInv
    <2> QED
      BY <2>1, CountFinite
  <1>2. CountIn(hci_queue', h) \in Nat
    BY CountFinite DEF EnvTypeOK
  <1>3. Buffered(h)' \in Nat
    BY <1>1 DEF Buffered
  <1>4. sent_packets'[h] \in Nat /\ buffered'[h] \in Nat /\ completed'[h] \in Nat
    BY DEF SafeInv, EnvTypeOK
  <1>5. Outstanding'[h] = sent_packets'[h] - Buffered(h)'
    BY DEF Outstanding
  <1> QED
    BY <1>2, <1>3, <1>4, <1>5

(* The links that draw on the credits of a type. *)
LEMMA Pools ==
  ASSUME NEW R \in SUBSET Handle, NEW t \in Types
  PROVE  /\ IsFiniteSet(Links(t) \cap R)
         /\ \A h : h \in Links(t) \cap R <=> h \in R /\ TypeOf[h] = t
  <1>1. Links(t) \cap R \in SUBSET Handle
    BY DEF Links
  <1>2. IsFiniteSet(Links(t) \cap R)
    BY <1>1, FS_Subset, ConstantsAssumption
  <1> QED
    BY <1>2 DEF Links

(* A step that changes no link's outstanding fragments keeps the sum. *)
LEMMA SumKept ==
  ASSUME CreditSum, UNCHANGED <<credits, registered>>,
         \A h \in Handle : Outstanding'[h] = Outstanding[h]
  PROVE  CreditSum'
  <1>1. Outstanding' = Outstanding
    BY DEF Outstanding
  <1> QED
    BY <1>1 DEF CreditSum

(* A step that moves d credits from a pool to a link keeps it. *)
LEMMA SumMoved ==
  ASSUME SafeInv, EnvTypeOK, SafeInv', EnvTypeOK', CreditSum, UNCHANGED registered,
         NEW h \in registered, NEW d \in Int,
         credits' = [credits EXCEPT ![TypeOf[h]] = @ - d],
         Outstanding'[h] = Outstanding[h] + d,
         \A g \in Handle \ {h} : Outstanding'[g] = Outstanding[g]
  PROVE  CreditSum'
  <1>1. registered \in SUBSET Handle /\ credits \in [Types -> Nat]
    BY DEF SafeInv
  <1>2. \A g \in Handle : Outstanding[g] \in Int
    BY CountsNow
  <1>3. ASSUME NEW t \in Types
        PROVE  credits'[t] + SumOver(Outstanding', Links(t) \cap registered)
                 = MaxCredits[t]
    <2> DEFINE S == Links(t) \cap registered
    <2>1. /\ IsFiniteSet(S) /\ S \subseteq Handle
          /\ \A g : g \in S <=> g \in registered /\ TypeOf[g] = t
      BY <1>1, Pools
    <2>2. credits[t] + SumOver(Outstanding, S) = MaxCredits[t]
      BY DEF CreditSum
    <2> HIDE DEF S
    <2>3. \A g \in S : Outstanding[g] \in Int
      BY <1>2, <2>1
    <2>4. SumOver(Outstanding, S) \in Int
      BY <2>1, <2>3, SumStep
    <2>5. CASE TypeOf[h] = t
      <3>1. h \in S /\ \A g \in S \ {h} : Outstanding'[g] = Outstanding[g]
        BY <2>1, <2>5
      <3>2. Outstanding'[h] \in Int /\ Outstanding[h] \in Int
        BY <1>1, <1>2
      <3>3. SumOver(Outstanding', S)
              = SumOver(Outstanding, S) - Outstanding[h] + Outstanding'[h]
        <4> DEFINE e == Outstanding'
                   f == Outstanding
        <4>1. \A g \in S \ {h} : e[g] = f[g]
          BY <3>1
        <4>2. e[h] \in Int /\ \A g \in S : f[g] \in Int
          BY <2>3, <3>2
        <4> HIDE DEF e, f
        <4>3. SumOver(e, S) = SumOver(f, S) - f[h] + e[h]
          BY ONLY <2>1, <3>1, <4>1, <4>2, SumChange
        <4> QED
          BY <4>3 DEF e, f
      <3>4. credits'[t] = credits[t] - d /\ credits[t] \in Int
        BY <1>1, <2>5
      <3> QED
        BY <2>2, <2>4, <3>2, <3>3, <3>4 DEF S
    <2>6. CASE TypeOf[h] # t
      <3>1. \A g \in S : Outstanding'[g] = Outstanding[g]
        BY <2>1, <2>6
      <3>2. SumOver(Outstanding', S) = SumOver(Outstanding, S)
        <4> DEFINE e == Outstanding'
                   f == Outstanding
        <4>1. \A g \in S : e[g] = f[g] /\ f[g] \in Int
          BY <2>3, <3>1
        <4> HIDE DEF e, f
        <4>2. SumOver(e, S) = SumOver(f, S)
          BY ONLY <2>1, <4>1, SumSame
        <4> QED
          BY <4>2 DEF e, f
      <3>3. credits'[t] = credits[t]
        BY <1>1, <2>6
      <3> QED
        BY <2>2, <3>2, <3>3 DEF S
    <2> QED
      BY <2>5, <2>6
  <1> QED
    BY <1>3 DEF CreditSum, Links

(* A link joins the pool with nothing outstanding. *)
LEMMA SumJoined ==
  ASSUME SafeInv, EnvTypeOK, SafeInv', EnvTypeOK', CreditSum, UNCHANGED credits,
         NEW h \in Handle, h \notin registered, registered' = registered \cup {h},
         Outstanding'[h] = 0,
         \A g \in registered : Outstanding'[g] = Outstanding[g]
  PROVE  CreditSum'
  <1>1. registered \in SUBSET Handle /\ registered \cup {h} \in SUBSET Handle
    BY DEF SafeInv
  <1>2. \A g \in Handle : Outstanding[g] \in Int /\ Outstanding'[g] \in Int
    BY CountsNow, CountsNext
  <1>3. ASSUME NEW t \in Types
        PROVE  credits[t] + SumOver(Outstanding', Links(t) \cap registered')
                 = MaxCredits[t]
    <2> DEFINE S == Links(t) \cap registered
               U == Links(t) \cap (registered \cup {h})
               e == Outstanding'
               f == Outstanding
    <2>1. /\ IsFiniteSet(S) /\ S \subseteq Handle
          /\ \A g : g \in S <=> g \in registered /\ TypeOf[g] = t
      BY <1>1, Pools
    <2>2. /\ IsFiniteSet(U) /\ U \subseteq Handle
          /\ \A g : g \in U <=> g \in registered \cup {h} /\ TypeOf[g] = t
      BY <1>1, Pools
    <2>3. credits[t] + SumOver(f, S) = MaxCredits[t]
      BY DEF CreditSum
    <2>4. /\ \A g \in S : f[g] \in Int /\ e[g] = f[g]
          /\ \A g \in U : e[g] \in Int
          /\ e[h] = 0
      BY <1>1, <1>2, <2>1, <2>2
    <2> HIDE DEF S, U, e, f
    <2>5. SumOver(e, S) = SumOver(f, S) /\ SumOver(f, S) \in Int
      BY ONLY <2>1, <2>4, SumSame, SumStep
    <2>6. SumOver(e, U) = SumOver(e, S)
      <3>1. CASE h \in U
        <4>1. U \ {h} = S
          BY <2>1, <2>2, <3>1
        <4>2. SumOver(e, U) = e[h] + SumOver(e, U \ {h})
          BY ONLY <2>2, <2>4, <3>1, SumStep
        <4>3. SumOver(e, U \ {h}) = SumOver(e, S)
          BY <4>1, Zenon
        <4> QED
          BY <2>4, <2>5, <4>2, <4>3
      <3>2. CASE h \notin U
        <4>1. U = S
          BY <2>1, <2>2, <3>2
        <4> QED
          BY <4>1
      <3> QED
        BY <3>1, <3>2
    <2> QED
      BY <2>3, <2>5, <2>6 DEF U, e, f
  <1> QED
    BY <1>3 DEF CreditSum, Links

(* A link leaves the pool and its outstanding credits are given back. *)
LEMMA SumLeft ==
  ASSUME SafeInv, EnvTypeOK, SafeInv', EnvTypeOK', CreditSum,
         NEW h \in registered, registered' = registered \ {h},
         credits' = [credits EXCEPT ![TypeOf[h]] = @ + Outstanding[h]],
         \A g \in registered' : Outstanding'[g] = Outstanding[g]
  PROVE  CreditSum'
  <1>1. /\ registered \in SUBSET Handle /\ registered \ {h} \in SUBSET Handle
        /\ credits \in [Types -> Nat]
    BY DEF SafeInv
  <1>2. \A g \in Handle : Outstanding[g] \in Int
    BY CountsNow
  <1>3. ASSUME NEW t \in Types
        PROVE  credits'[t] + SumOver(Outstanding', Links(t) \cap registered')
                 = MaxCredits[t]
    <2> DEFINE S == Links(t) \cap registered
               U == Links(t) \cap (registered \ {h})
               e == Outstanding'
               f == Outstanding
    <2>1. /\ IsFiniteSet(S) /\ S \subseteq Handle
          /\ \A g : g \in S <=> g \in registered /\ TypeOf[g] = t
      BY <1>1, Pools
    <2>2. /\ IsFiniteSet(U) /\ U \subseteq Handle
          /\ \A g : g \in U <=> g \in registered \ {h} /\ TypeOf[g] = t
      BY <1>1, Pools
    <2>3. credits[t] + SumOver(f, S) = MaxCredits[t]
      BY DEF CreditSum
    <2>4. /\ \A g \in S : f[g] \in Int
          /\ \A g \in U : f[g] \in Int /\ e[g] = f[g]
      BY <1>1, <1>2, <2>1, <2>2
    <2>5. /\ credits'[t] = IF h \in S THEN credits[t] + f[h] ELSE credits[t]
          /\ credits[t] \in Int
      BY <1>1, <2>1
    <2> HIDE DEF S, U, e, f
    <2>6. SumOver(e, U) = SumOver(f, U) /\ SumOver(f, U) \in Int
      BY ONLY <2>2, <2>4, SumSame, SumStep
    <2>7. CASE h \in S
      <3>1. S \ {h} = U
        BY <2>1, <2>2, <2>7
      <3>2. SumOver(f, S) = f[h] + SumOver(f, S \ {h})
        BY ONLY <2>1, <2>4, <2>7, SumStep
      <3>3. f[h] \in Int
        BY <2>4, <2>7
      <3>4. SumOver(f, S \ {h}) = SumOver(f, U)
        BY <3>1, Zenon
      <3>5. credits'[t] + SumOver(e, U) = MaxCredits[t]
        BY <2>3, <2>5, <2>6, <2>7, <3>2, <3>3, <3>4
      <3> QED
        BY <3>5 DEF U, e
    <2>8. CASE h \notin S
      <3>1. U = S
        BY <2>1, <2>2, <2>8
      <3>2. credits'[t] + SumOver(e, U) = MaxCredits[t]
        BY <2>3, <2>5, <2>6, <2>8, <3>1
      <3> QED
        BY <3>2 DEF U, e
    <2> QED
      BY <2>7, <2>8
  <1> QED
    BY <1>3 DEF CreditSum, Links

(* A link that a step does not touch. *)
LEMMA LinkKept ==
  ASSUME NEW g \in Handle, LinkInv(g),
         g \in registered' <=> g \in registered,
         g \in connected' <=> g \in connected,
         link_queue'[g] = link_queue[g], buffered'[g] = buffered[g],
         Buffered(g)' = Buffered(g), Outstanding'[g] = Outstanding[g],
         OnTheWay(g)' = OnTheWay(g)
  PROVE  LinkInv(g)'
  BY DEF LinkInv

LEMMA SameOutstanding ==
  ASSUME UNCHANGED <<sent_packets, fragments>>
  PROVE  /\ \A g : Buffered(g)' = Buffered(g)
         /\ \A g \in Handle : Outstanding'[g] = Outstanding[g]
  BY DEF Buffered, Outstanding

(* One fragment leaves the buffer. *)
LEMMA PopCount ==
  ASSUME NEW f \in [{0, 1} -> Seq(Handle)], ~Empty(f), NEW g
  PROVE  CountIn(f[0], g) + CountIn(f[1], g)
           = CountIn(Pop(f)[0], g) + CountIn(Pop(f)[1], g)
             + (IF Front(f) = g THEN 1 ELSE 0)
  <1>1. Top(f) \in {0, 1} /\ f[Top(f)] # <<>> /\ f[0] \in Seq(Handle) /\ f[1] \in Seq(Handle)
    BY DEF Top, Empty
  <1>2. /\ Pop(f) \in [{0, 1} -> Seq(Handle)]
        /\ Pop(f)[0] \in Seq(Handle) /\ Pop(f)[1] \in Seq(Handle)
    BY FrontFacts
  <1>3. /\ CountIn(f[0], g) \in Nat /\ CountIn(f[1], g) \in Nat
        /\ CountIn(Pop(f)[0], g) \in Nat /\ CountIn(Pop(f)[1], g) \in Nat
    <2>1. \A s \in Seq(Handle) : CountIn(s, g) \in Nat
      BY CountFinite
    <2> QED
      BY <1>1, <1>2, <2>1
  <1>4. CASE Top(f) = 0
    <2>1. Pop(f)[0] = Tail(f[0]) /\ Pop(f)[1] = f[1] /\ Front(f) = Head(f[0]) /\ f[0] # <<>>
      BY <1>1, <1>4 DEF Pop, Front
    <2>2. CountIn(f[0], g) = CountIn(Tail(f[0]), g) + (IF Head(f[0]) = g THEN 1 ELSE 0)
      BY <1>1, <2>1, CountTail
    <2> QED
      BY <1>3, <2>1, <2>2
  <1>5. CASE Top(f) = 1
    <2>1. Pop(f)[1] = Tail(f[1]) /\ Pop(f)[0] = f[0] /\ Front(f) = Head(f[1]) /\ f[1] # <<>>
      BY <1>1, <1>5 DEF Pop, Front
    <2>2. CountIn(f[1], g) = CountIn(Tail(f[1]), g) + (IF Head(f[1]) = g THEN 1 ELSE 0)
      BY <1>1, <2>1, CountTail
    <2> QED
      BY <1>3, <2>1, <2>2
  <1> QED
    BY <1>1, <1>4, <1>5

(* A link with no fragment in either buffer. *)
LEMMA NoFragments ==
  ASSUME SafeInv, NEW h \in Handle, CountIn(fragments[0] \o fragments[1], h) = 0
  PROVE  Buffered(h) = 0
  <1> DEFINE s == fragments[0]
             t == fragments[1]
  <1>1. s \in Seq(Handle) /\ t \in Seq(Handle)
    BY DEF SafeInv
  <1>2. CountIn(s \o t, h) = 0
    OBVIOUS
  <1>3. Buffered(h) = CountIn(s, h) + CountIn(t, h)
    BY DEF Buffered
  <1> HIDE DEF s, t
  <1>4. s \o t \in Seq(Handle)
    BY <1>1
  <1>5. \A i \in DOMAIN (s \o t) : (s \o t)[i] # h
    <2> DEFINE c == s \o t
    <2> HIDE DEF c
    <2>1. c \in Seq(Handle) /\ CountIn(c, h) = 0
      BY <1>2, <1>4 DEF c
    <2>2. \A i \in DOMAIN c : c[i] # h
      BY <2>1, CountFinite
    <2> QED
      BY <2>2 DEF c
  <1>6. \A i \in DOMAIN s : s[i] # h
    <2> SUFFICES ASSUME NEW i \in DOMAIN s PROVE s[i] # h
      OBVIOUS
    <2>1. i \in DOMAIN (s \o t) /\ (s \o t)[i] = s[i]
      BY <1>1
    <2> QED
      BY <1>5, <2>1
  <1>7. \A i \in DOMAIN t : t[i] # h
    <2> SUFFICES ASSUME NEW i \in DOMAIN t PROVE t[i] # h
      OBVIOUS
    <2>1. i + Len(s) \in DOMAIN (s \o t) /\ (s \o t)[i + Len(s)] = t[i]
      BY <1>1
    <2> QED
      BY <1>5, <2>1
  <1>8. CountIn(s, h) = 0
    BY <1>1, <1>6, CountFinite
  <1>9. CountIn(t, h) = 0
    BY <1>1, <1>7, CountFinite
  <1> QED
    BY <1>3, <1>8, <1>9

(* Every step keeps the credit invariant. *)
LEMMA CreditStep ==
  ASSUME ~LateTraffic, CreditInv, [Next]_vars
  PROVE  CreditInv'
  <1>1. /\ SafeInv /\ EnvTypeOK /\ CreditSum /\ \A g \in Handle : LinkInv(g)
        /\ SafeInv' /\ EnvTypeOK'
    BY SafeStep, EnvTypeStep DEF CreditInv
  <1> SUFFICES (\A g \in Handle : LinkInv(g)') /\ CreditSum'
    BY <1>1 DEF CreditInv
  <1>2. /\ registered \in SUBSET Handle /\ connected \in SUBSET Handle
        /\ sent_packets \in [Handle -> Nat] /\ credits \in [Types -> Nat]
        /\ fragments \in [{0, 1} -> Seq(Handle)] /\ hci_queue \in Seq(Handle)
        /\ buffered \in [Handle -> Nat] /\ completed \in [Handle -> Nat]
        /\ link_queue \in [Handle -> Seq(1..MaxFragments)]
    BY <1>1 DEF SafeInv, EnvTypeOK
  <1>3. \A g \in Handle :
          /\ Buffered(g) \in Nat /\ CountIn(hci_queue, g) \in Nat
          /\ sent_packets[g] \in Nat /\ buffered[g] \in Nat /\ completed[g] \in Nat
          /\ Outstanding[g] = sent_packets[g] - Buffered(g)
          /\ Outstanding[g] \in Int
    BY <1>1, CountsNow
  <1>4. \A g \in Handle :
          /\ Buffered(g)' \in Nat /\ CountIn(hci_queue', g) \in Nat
          /\ sent_packets'[g] \in Nat /\ buffered'[g] \in Nat /\ completed'[g] \in Nat
          /\ Outstanding'[g] = sent_packets'[g] - Buffered(g)'
          /\ Outstanding'[g] \in Int
    BY <1>1, CountsNext
  <1>5. \A g \in Handle :
          /\ OnTheWay(g) = CountIn(hci_queue, g) + buffered[g] + completed[g]
          /\ OnTheWay(g)' = CountIn(hci_queue', g) + buffered'[g] + completed'[g]
          /\ OnTheWay(g) \in Nat /\ OnTheWay(g)' \in Nat
    BY <1>3, <1>4 DEF OnTheWay
  <1>a. CASE UNCHANGED <<registered, sent_packets, credits, fragments, link_queue,
                         controller>>
    <2>1. UNCHANGED <<registered, connected, credits>>
      BY <1>a DEF controller
    <2>2. \A g \in Handle : /\ Outstanding'[g] = Outstanding[g]
                            /\ Buffered(g)' = Buffered(g)
      BY <1>a, SameOutstanding
    <2>3. \A g \in Handle : /\ OnTheWay(g)' = OnTheWay(g) /\ buffered'[g] = buffered[g]
                            /\ link_queue'[g] = link_queue[g]
      BY <1>a, <1>5 DEF controller
    <2>4. \A g \in Handle : LinkInv(g)'
      BY <1>1, <2>1, <2>2, <2>3, LinkKept
    <2> QED
      BY <1>1, <2>1, <2>2, <2>4, SumKept
  <1>b. ASSUME NEW h \in Handle, Register(h)
        PROVE  (\A g \in Handle : LinkInv(g)') /\ CreditSum'
    <2>1. /\ h \in connected /\ h \notin registered
          /\ registered' = registered \cup {h}
          /\ sent_packets' = [sent_packets EXCEPT ![h] = 0]
          /\ UNCHANGED <<credits, fragments, link_queue, connected, hci_queue, buffered, completed>>
      BY <1>b DEF Register, links, controller
    <2>2. \A g \in Handle : Buffered(g)' = Buffered(g) /\ OnTheWay(g)' = OnTheWay(g)
      BY <1>5, <2>1 DEF Buffered
    <2>3. \A g \in Handle : g # h => Outstanding'[g] = Outstanding[g]
      BY <1>2, <1>3, <1>4, <2>1, <2>2
    <2>4. Buffered(h) = 0 /\ OnTheWay(h) = 0 /\ link_queue[h] = <<>>
      BY <1>1, <2>1 DEF LinkInv
    <2>5. Outstanding'[h] = 0
      BY <1>2, <1>4, <2>1, <2>2, <2>4
    <2>6. LinkInv(h)'
      BY <2>1, <2>2, <2>4, <2>5 DEF LinkInv
    <2>7. ASSUME NEW g \in Handle, g # h PROVE LinkInv(g)'
      BY <1>1, <2>1, <2>2, <2>3, <2>7, LinkKept
    <2>8. \A g \in registered : Outstanding'[g] = Outstanding[g]
      BY <1>2, <2>1, <2>3
    <2>9. CreditSum'
      BY <1>1, <2>1, <2>5, <2>8, SumJoined
    <2> QED
      BY <2>6, <2>7, <2>9
  <1>c. ASSUME NEW h \in Handle, Unregister(h)
        PROVE  (\A g \in Handle : LinkInv(g)') /\ CreditSum'
    <2>1. /\ h \in registered /\ h \notin connected
          /\ registered' = registered \ {h}
          /\ credits' = [credits EXCEPT ![TypeOf[h]] = @ + sent_packets[h]]
          /\ sent_packets' = [sent_packets EXCEPT ![h] = 0]
          /\ link_queue' = [link_queue EXCEPT ![h] = <<>>]
          /\ UNCHANGED <<fragments, connected, hci_queue, buffered, completed>>
      BY <1>c DEF Unregister, controller
    <2>2. \A g \in Handle : Buffered(g)' = Buffered(g) /\ OnTheWay(g)' = OnTheWay(g)
      BY <1>5, <2>1 DEF Buffered
    <2>3. \A g \in Handle : g # h => Outstanding'[g] = Outstanding[g]
                                     /\ link_queue'[g] = link_queue[g]
      BY <1>2, <1>3, <1>4, <2>1, <2>2
    <2>4. Buffered(h) = 0 /\ buffered[h] = 0
      BY <1>1, <2>1 DEF LinkInv
    <2>5. Outstanding[h] = sent_packets[h] /\ link_queue'[h] = <<>>
      BY <1>2, <1>3, <2>1, <2>4
    <2>6. LinkInv(h)'
      BY <2>1, <2>2, <2>4, <2>5 DEF LinkInv
    <2>7. ASSUME NEW g \in Handle, g # h PROVE LinkInv(g)'
      BY <1>1, <2>1, <2>2, <2>3, <2>7, LinkKept
    <2>8. \A g \in registered' : Outstanding'[g] = Outstanding[g]
      BY <1>2, <2>1, <2>3
    <2>9. credits' = [credits EXCEPT ![TypeOf[h]] = @ + Outstanding[h]]
      BY <2>1, <2>5
    <2>10. CreditSum'
      BY <1>1, <2>1, <2>8, <2>9, SumLeft
    <2> QED
      BY <2>6, <2>7, <2>10
  <1>d. ASSUME NEW h \in Handle, buffer_packet(h)
        PROVE  (\A g \in Handle : LinkInv(g)') /\ CreditSum'
    <2> DEFINE pr == IF high_priority[h] THEN 1 ELSE 0
               count == Head(link_queue[h])
               new == [i \in 1..count |-> h]
    <2>1. /\ Empty(fragments) /\ fragments[0] = <<>> /\ fragments[1] = <<>>
      BY <1>1, <1>d DEF SafeInv, buffer_packet, OnePacketAtATime, Empty
    <2>2. count \in Nat \ {0} /\ pr \in {0, 1}
      <3>1. count \in 1..MaxFragments
        BY <1>2, <1>d, HeadTail DEF buffer_packet, Readable
      <3> QED
        BY <3>1, ConstantsAssumption
    <2>3. /\ h \in registered /\ link_queue[h] # <<>>
          /\ fragments' = [fragments EXCEPT ![pr] = @ \o new]
          /\ link_queue' = [link_queue EXCEPT ![h] = Tail(link_queue[h])]
          /\ sent_packets' = [sent_packets EXCEPT ![h] = @ + Size(fragments')]
          /\ UNCHANGED <<registered, credits, connected, hci_queue, buffered, completed>>
      BY <1>d DEF buffer_packet, Readable, controller
    <2> HIDE DEF pr, count
    <2>4. /\ new \in Seq(Handle) /\ <<>> \o new = new
      BY <2>2, Copies
    <2>5. Len(new) = count /\ \A g : CountIn(new, g) = IF g = h THEN count ELSE 0
      <3>1. DOMAIN new = 1..count
        OBVIOUS
      <3>2. \A g : CountIn(new, g) = IF g = h THEN count ELSE 0
        BY <2>2, CountCopies
      <3>3. Len(new) = count
        BY <2>2, <2>4, <3>1
      <3> QED
        BY <3>2, <3>3
    <2> HIDE DEF new
    <2>6. /\ fragments'[pr] = new /\ \A p \in {0, 1} : p # pr => fragments'[p] = <<>>
      BY <1>2, <2>1, <2>2, <2>3, <2>4
    <2>7. Size(fragments') = count
      <3>1. Size(fragments') = Len(fragments'[0]) + Len(fragments'[1])
        BY DEF Size
      <3>2. Len(<<>>) = 0
        OBVIOUS
      <3>3. CASE pr = 0
        <4>1. fragments'[0] = new /\ fragments'[1] = <<>>
          BY <2>6, <3>3
        <4> QED
          BY <2>2, <2>5, <3>1, <3>2, <4>1
      <3>4. CASE pr = 1
        <4>1. fragments'[1] = new /\ fragments'[0] = <<>>
          BY <2>6, <3>4
        <4> QED
          BY <2>2, <2>5, <3>1, <3>2, <4>1
      <3> QED
        BY <2>2, <3>3, <3>4
    <2>8. \A g : Buffered(g)' = IF g = h THEN count ELSE 0
      <3>1. \A g : CountIn(<<>>, g) = 0
        BY CountEmpty
      <3> TAKE g
      <3>2. CASE pr = 0
        BY <2>2, <2>5, <2>6, <3>1, <3>2 DEF Buffered
      <3>3. CASE pr = 1
        BY <2>2, <2>5, <2>6, <3>1, <3>3 DEF Buffered
      <3> QED
        BY <2>2, <3>2, <3>3
    <2>9. \A g : Buffered(g) = 0
      <3>1. \A g : CountIn(<<>>, g) = 0
        BY CountEmpty
      <3> QED
        BY <2>1, <3>1 DEF Buffered
    <2>10. \A g \in Handle : Outstanding'[g] = Outstanding[g] /\ OnTheWay(g)' = OnTheWay(g)
      <3> TAKE g \in Handle
      <3>1. OnTheWay(g)' = OnTheWay(g)
        BY <1>5, <2>3
      <3>2. sent_packets'[g] = IF g = h THEN sent_packets[g] + count ELSE sent_packets[g]
        BY <1>2, <2>3, <2>7
      <3>3. /\ Outstanding[g] = sent_packets[g] - 0 /\ sent_packets[g] \in Nat
            /\ Outstanding'[g] = sent_packets'[g] - (IF g = h THEN count ELSE 0)
        BY <1>3, <1>4, <2>8, <2>9
      <3> QED
        BY <2>2, <3>1, <3>2, <3>3
    <2>11. h \in connected
      BY <1>1, <2>3 DEF LinkInv
    <2>12. LinkInv(h)'
      BY <1>1, <2>3, <2>10, <2>11 DEF LinkInv
    <2>13. ASSUME NEW g \in Handle, g # h PROVE LinkInv(g)'
      <3>1. link_queue'[g] = link_queue[g] /\ Buffered(g)' = Buffered(g)
        BY <1>2, <2>3, <2>8, <2>9, <2>13
      <3> QED
        BY <1>1, <2>3, <2>10, <3>1, LinkKept
    <2>14. CreditSum'
      BY <1>1, <2>3, <2>10, SumKept
    <2> QED
      BY <2>12, <2>13, <2>14
  <1>e. CASE handle_enqueue_next_fragment
    <2>0. ~Empty(fragments) /\ Front(fragments) \in Handle
      BY <1>1, <1>2, <1>e, FrontFacts DEF handle_enqueue_next_fragment, SafeInv, EnqueueIsSafe
    <2>1. PICK h \in Handle : h = Front(fragments)
      BY <2>0
    <2>2. /\ credits' = [credits EXCEPT ![TypeOf[h]] = @ - 1]
          /\ fragments' = Pop(fragments)
          /\ hci_queue' = Append(hci_queue, h)
          /\ UNCHANGED <<registered, sent_packets, link_queue, connected, buffered,
                         completed>>
      BY <1>e, <2>1 DEF handle_enqueue_next_fragment, links
    <2>3. \A g \in Handle : Buffered(g) = Buffered(g)' + (IF h = g THEN 1 ELSE 0)
      BY <1>2, <2>0, <2>1, <2>2, PopCount DEF Buffered
    <2>4. \A g \in Handle : CountIn(hci_queue', g)
                              = CountIn(hci_queue, g) + (IF h = g THEN 1 ELSE 0)
      BY <1>2, <2>1, <2>2, CountAppend
    <2>5. \A g \in Handle : g # h => /\ Outstanding'[g] = Outstanding[g]
                                     /\ OnTheWay(g)' = OnTheWay(g)
                                     /\ Buffered(g)' = Buffered(g)
      BY <1>3, <1>4, <1>5, <2>2, <2>3, <2>4
    <2>6. /\ Outstanding'[h] = Outstanding[h] + 1
          /\ OnTheWay(h)' = OnTheWay(h) + 1
          /\ Buffered(h) # 0
      <3>1. /\ Buffered(h) = Buffered(h)' + 1 /\ Buffered(h)' \in Nat
            /\ CountIn(hci_queue', h) = CountIn(hci_queue, h) + 1
            /\ CountIn(hci_queue, h) \in Nat
        BY <1>3, <1>4, <2>3, <2>4
      <3>2. /\ Outstanding[h] = sent_packets[h] - Buffered(h)
            /\ Outstanding'[h] = sent_packets[h] - Buffered(h)'
            /\ sent_packets[h] \in Nat
        BY <1>3, <1>4, <2>2
      <3>3. /\ OnTheWay(h) = CountIn(hci_queue, h) + buffered[h] + completed[h]
            /\ OnTheWay(h)' = CountIn(hci_queue', h) + buffered[h] + completed[h]
            /\ buffered[h] \in Nat /\ completed[h] \in Nat
        BY <1>3, <1>5, <2>2
      <3> QED
        BY <3>1, <3>2, <3>3
    <2>7. h \in registered /\ h \in connected /\ Outstanding[h] = OnTheWay(h)
      BY <1>1, <2>1, <2>6 DEF LinkInv
    <2>8. LinkInv(h)'
      BY <1>4, <2>1, <2>2, <2>6, <2>7 DEF LinkInv
    <2>9. ASSUME NEW g \in Handle, g # h PROVE LinkInv(g)'
      BY <1>1, <2>2, <2>5, <2>9, LinkKept
    <2>10. \A g \in Handle \ {h} : Outstanding'[g] = Outstanding[g]
      BY <2>5
    <2>11. CreditSum'
      <3> DEFINE d == 1
      <3>1. /\ d \in Int /\ Outstanding'[h] = Outstanding[h] + d
            /\ credits' = [credits EXCEPT ![TypeOf[h]] = @ - d]
        BY <2>2, <2>6
      <3> HIDE DEF d
      <3> QED
        BY <1>1, <2>2, <2>7, <2>10, <3>1, SumMoved
    <2> QED
      BY <2>8, <2>9, <2>11
  <1>f. ASSUME NEW h \in Handle, NEW n \in CreditCounts, incoming_acl_credits(h, n)
        PROVE  (\A g \in Handle : LinkInv(g)') /\ CreditSum'
    <2>1. /\ n \in Nat \ {0} /\ n <= completed[h]
          /\ completed' = [completed EXCEPT ![h] = @ - n]
          /\ UNCHANGED <<link_queue, hci_queue, connected, buffered>>
      BY <1>2, <1>f DEF incoming_acl_credits, links
    <2>2. UNCHANGED <<registered, fragments>>
      BY <1>f DEF incoming_acl_credits, scheduler
    <2>3. \A g \in Handle : Buffered(g)' = Buffered(g)
      BY <2>2 DEF Buffered
    <2>4. /\ OnTheWay(h)' = OnTheWay(h) - n
          /\ OnTheWay(h) \in Nat /\ n <= OnTheWay(h)
          /\ \A g \in Handle : g # h => OnTheWay(g)' = OnTheWay(g)
      <3>1. completed'[h] = completed[h] - n
            /\ \A g \in Handle : g # h => completed'[g] = completed[g]
        BY <1>2, <2>1
      <3>2. \A g \in Handle : g # h => OnTheWay(g)' = OnTheWay(g)
        BY <1>5, <2>1, <3>1
      <3>3. /\ OnTheWay(h) = CountIn(hci_queue, h) + buffered[h] + completed[h]
            /\ OnTheWay(h)' = CountIn(hci_queue, h) + buffered[h] + (completed[h] - n)
            /\ CountIn(hci_queue, h) \in Nat /\ buffered[h] \in Nat /\ completed[h] \in Nat
        BY <1>3, <1>5, <2>1, <3>1
      <3> QED
        BY <2>1, <3>2, <3>3
    <2>5. CASE h \notin registered
      <3>1. UNCHANGED <<sent_packets, credits>>
        BY <1>f, <2>5 DEF incoming_acl_credits, scheduler
      <3>2. \A g \in Handle : Outstanding'[g] = Outstanding[g]
        BY <2>2, <3>1, SameOutstanding
      <3>3. h \notin connected
        BY <1>1, <2>1, <2>4, <2>5 DEF LinkInv
      <3>4. LinkInv(h)'
        BY <1>1, <2>1, <2>2, <2>3, <2>5, <3>3 DEF LinkInv
      <3>5. ASSUME NEW g \in Handle, g # h PROVE LinkInv(g)'
        BY <1>1, <2>1, <2>2, <2>3, <2>4, <3>2, <3>5, LinkKept
      <3>6. CreditSum'
        BY <1>1, <2>2, <3>1, <3>2, SumKept
      <3> QED
        BY <3>4, <3>5, <3>6
    <2>6. CASE h \in registered
      <3>1. /\ sent_packets' = [sent_packets EXCEPT ![h] = sent_after(@, n)]
            /\ credits' = [credits EXCEPT ![TypeOf[h]] = capped(TypeOf[h], @ + n)]
        BY <1>f, <2>6 DEF incoming_acl_credits
      <3>2. Outstanding[h] >= OnTheWay(h)
        BY <1>1, <2>6 DEF LinkInv
      <3>3. sent_packets[h] >= n
        BY <1>3, <2>1, <2>4, <3>2
      <3>4. sent_packets'[h] = sent_packets[h] - n
        BY <1>2, <3>1, <3>3 DEF sent_after
      <3>5. Outstanding'[h] = Outstanding[h] - n
        BY <1>3, <1>4, <2>1, <2>3, <3>4
      <3>6. \A g \in Handle : g # h => Outstanding'[g] = Outstanding[g]
        BY <1>2, <1>3, <1>4, <2>3, <3>1
      <3> DEFINE t == TypeOf[h]
      <3>7. t \in Types /\ credits[t] \in Nat /\ MaxCredits[t] \in Nat
        BY <1>2, ConstantsAssumption
      <3> HIDE DEF t
      <3>8. credits[t] + n <= MaxCredits[t]
        <4> DEFINE S == Links(t) \cap registered
                   f == Outstanding
        <4>1. /\ IsFiniteSet(S) /\ S \subseteq Handle
              /\ \A g : g \in S <=> g \in registered /\ TypeOf[g] = t
          BY <1>2, <3>7, Pools
        <4>2. credits[t] + SumOver(f, S) = MaxCredits[t]
          BY <1>1, <3>7 DEF CreditSum
        <4>3. \A g \in S : f[g] \in Nat
          BY <1>1, <1>3, <1>5, <4>1 DEF LinkInv
        <4>4. h \in S /\ n <= f[h] /\ f[h] \in Nat
          <5>1. h \in S
            BY <2>6, <4>1 DEF t
          <5> QED
            BY <1>3, <2>1, <2>4, <3>2, <4>3, <5>1
        <4> HIDE DEF S, f
        <4>5. f[h] <= SumOver(f, S) /\ SumOver(f, S) \in Nat
          BY ONLY <4>1, <4>3, <4>4, SumBound
        <4> QED
          BY <2>1, <3>7, <4>2, <4>4, <4>5
      <3>9. credits' = [credits EXCEPT ![TypeOf[h]] = @ - (-n)]
        <4>1. capped(t, credits[t] + n) = credits[t] - (-n)
          BY <2>1, <3>7, <3>8 DEF capped
        <4> QED
          BY <3>1, <4>1 DEF t
      <3>10. LinkInv(h)'
        BY <1>1, <1>3, <1>4, <2>1, <2>2, <2>3, <2>4, <2>6, <3>5 DEF LinkInv
      <3>11. ASSUME NEW g \in Handle, g # h PROVE LinkInv(g)'
        BY <1>1, <2>1, <2>2, <2>3, <2>4, <3>6, <3>11, LinkKept
      <3>12. /\ Outstanding'[h] = Outstanding[h] + (-n) /\ -n \in Int
             /\ \A g \in Handle \ {h} : Outstanding'[g] = Outstanding[g]
        BY <1>3, <2>1, <3>5, <3>6
      <3>13. CreditSum'
        <4> DEFINE d == -n
        <4>1. /\ d \in Int /\ Outstanding'[h] = Outstanding[h] + d
              /\ credits' = [credits EXCEPT ![TypeOf[h]] = @ - d]
          BY <3>9, <3>12
        <4> HIDE DEF d
        <4> QED
          BY <1>1, <2>2, <2>6, <3>12, <4>1, SumMoved
      <3> QED
        BY <3>10, <3>11, <3>13
    <2> QED
      BY <2>5, <2>6
  <1>g. ASSUME NEW h \in Handle, NEW count \in 1..MaxFragments, LinkSends(h, count)
        PROVE  (\A g \in Handle : LinkInv(g)') /\ CreditSum'
    <2>1. /\ h \in registered /\ h \in connected
          /\ link_queue' = [link_queue EXCEPT ![h] = Append(@, count)]
          /\ UNCHANGED <<registered, sent_packets, credits, fragments, connected,
                         hci_queue, buffered, completed>>
      BY <1>g DEF LinkSends, scheduler, controller
    <2>2. \A g \in Handle : /\ Outstanding'[g] = Outstanding[g]
                            /\ Buffered(g)' = Buffered(g)
                            /\ OnTheWay(g)' = OnTheWay(g)
      BY <1>5, <2>1, SameOutstanding
    <2>3. LinkInv(h)'
      BY <1>1, <2>1, <2>2 DEF LinkInv
    <2>4. ASSUME NEW g \in Handle, g # h PROVE LinkInv(g)'
      <3>1. link_queue'[g] = link_queue[g]
        BY <1>2, <2>1, <2>4
      <3> QED
        BY <1>1, <2>1, <2>2, <3>1, LinkKept
    <2>5. CreditSum'
      BY <1>1, <2>1, <2>2, SumKept
    <2> QED
      BY <2>3, <2>4, <2>5
  <1>h. CASE HciSends
    <2>0. PICK h : h = Head(hci_queue)
      OBVIOUS
    <2>1. /\ hci_queue # <<>> /\ hci_queue' = Tail(hci_queue)
          /\ buffered' = [g \in Handle |-> IF g = h /\ g \in connected
                                           THEN buffered[g] + 1 ELSE buffered[g]]
          /\ UNCHANGED <<registered, sent_packets, credits, fragments, connected,
                         link_queue, completed>>
      BY <1>h, <2>0 DEF HciSends, scheduler, links
    <2>2. \A g \in Handle : /\ Outstanding'[g] = Outstanding[g]
                            /\ Buffered(g)' = Buffered(g)
      BY <2>1, SameOutstanding
    <2>3. \A g : CountIn(hci_queue, g)
                   = CountIn(hci_queue', g) + (IF h = g THEN 1 ELSE 0)
      BY <1>2, <2>0, <2>1, CountTail
    <2>4. \A g \in Handle : IF g = h /\ g \notin connected
                            THEN OnTheWay(g)' = OnTheWay(g) - 1
                            ELSE OnTheWay(g)' = OnTheWay(g)
      <3> TAKE g \in Handle
      <3>1. /\ buffered'[g] = IF g = h /\ g \in connected THEN buffered[g] + 1 ELSE buffered[g]
            /\ completed'[g] = completed[g]
        BY <2>1
      <3>2. CountIn(hci_queue, g) = CountIn(hci_queue', g) + (IF h = g THEN 1 ELSE 0)
        BY <2>3
      <3>3. /\ OnTheWay(g) = CountIn(hci_queue, g) + buffered[g] + completed[g]
            /\ OnTheWay(g)' = CountIn(hci_queue', g) + buffered'[g] + completed'[g]
            /\ CountIn(hci_queue', g) \in Nat /\ buffered[g] \in Nat /\ completed[g] \in Nat
        BY <1>3, <1>4, <1>5
      <3>4. CASE g = h
        BY <3>1, <3>2, <3>3, <3>4
      <3>5. CASE g # h
        BY <3>1, <3>2, <3>3, <3>5
      <3> QED
        BY <3>4, <3>5
    <2>5. ASSUME NEW g \in Handle PROVE LinkInv(g)'
      <3>1. CASE g # h
        <4>1. buffered'[g] = buffered[g] /\ OnTheWay(g)' = OnTheWay(g)
          BY <2>1, <2>4, <3>1
        <4> QED
          BY <1>1, <2>1, <2>2, <4>1, LinkKept
      <3>2. CASE g = h /\ g \in connected
        <4>1. OnTheWay(g)' = OnTheWay(g)
          BY <2>4, <3>2
        <4> QED
          BY <1>1, <2>1, <2>2, <3>2, <4>1 DEF LinkInv
      <3>3. CASE g = h /\ g \notin connected
        <4>1. buffered'[g] = buffered[g] /\ OnTheWay(g)' = OnTheWay(g) - 1
              /\ OnTheWay(g) \in Nat
          BY <1>3, <1>5, <2>1, <2>4, <3>3
        <4> QED
          BY <1>1, <1>3, <2>1, <2>2, <3>3, <4>1 DEF LinkInv
      <3> QED
        BY <3>1, <3>2, <3>3
    <2>6. CreditSum'
      BY <1>1, <2>1, <2>2, SumKept
    <2> QED
      BY <2>5, <2>6
  <1>i. ASSUME NEW h \in Handle, Connect(h)
        PROVE  (\A g \in Handle : LinkInv(g)') /\ CreditSum'
    <2>1. /\ h \notin connected /\ h \notin registered
          /\ completed[h] = 0 /\ CountIn(hci_queue, h) = 0
          /\ connected' = connected \cup {h}
          /\ UNCHANGED <<registered, sent_packets, credits, fragments, link_queue,
                         hci_queue, buffered, completed>>
      BY <1>i DEF Connect, scheduler, links
    <2>2. \A g \in Handle : /\ Outstanding'[g] = Outstanding[g]
                            /\ Buffered(g)' = Buffered(g)
                            /\ OnTheWay(g)' = OnTheWay(g)
      BY <1>5, <2>1, SameOutstanding
    <2>3. /\ buffered[h] = 0 /\ OnTheWay(h)' = 0 /\ Buffered(h) = 0
          /\ link_queue[h] = <<>>
      <3>1. buffered[h] = 0 /\ Buffered(h) = 0 /\ link_queue[h] = <<>>
        BY <1>1, <2>1 DEF LinkInv
      <3> QED
        BY <1>5, <2>1, <3>1
    <2>4. LinkInv(h)'
      BY <2>1, <2>2, <2>3 DEF LinkInv
    <2>5. ASSUME NEW g \in Handle, g # h PROVE LinkInv(g)'
      BY <1>1, <2>1, <2>2, <2>5, LinkKept
    <2>6. CreditSum'
      BY <1>1, <2>1, <2>2, SumKept
    <2> QED
      BY <2>4, <2>5, <2>6
  <1>j. ASSUME NEW h \in Handle, Disconnect(h)
        PROVE  (\A g \in Handle : LinkInv(g)') /\ CreditSum'
    <2>1. /\ h \in connected /\ h \in registered /\ link_queue[h] = <<>>
          /\ CountIn(fragments[0] \o fragments[1], h) = 0
          /\ connected' = connected \ {h}
          /\ buffered' = [buffered EXCEPT ![h] = 0]
          /\ UNCHANGED <<registered, sent_packets, credits, fragments, link_queue,
                         hci_queue, completed>>
      BY <1>j DEF Disconnect, scheduler, links
    <2>2. \A g \in Handle : /\ Outstanding'[g] = Outstanding[g]
                            /\ Buffered(g)' = Buffered(g)
      BY <2>1, SameOutstanding
    <2>3. Buffered(h) = 0
      BY <1>1, <2>1, NoFragments
    <2>4. /\ buffered'[h] = 0 /\ OnTheWay(h)' <= OnTheWay(h)
          /\ OnTheWay(h)' \in Nat /\ OnTheWay(h) \in Nat
          /\ \A g \in Handle : g # h => OnTheWay(g)' = OnTheWay(g)
                                        /\ buffered'[g] = buffered[g]
      BY <1>2, <1>3, <1>4, <1>5, <2>1
    <2>5. LinkInv(h)'
      BY <1>1, <1>3, <2>1, <2>2, <2>3, <2>4 DEF LinkInv
    <2>6. ASSUME NEW g \in Handle, g # h PROVE LinkInv(g)'
      BY <1>1, <2>1, <2>2, <2>4, <2>6, LinkKept
    <2>7. CreditSum'
      BY <1>1, <2>1, <2>2, SumKept
    <2> QED
      BY <2>5, <2>6, <2>7
  <1>k. ASSUME NEW h \in Handle, NEW n \in CreditCounts, ControllerCompletes(h, n)
        PROVE  (\A g \in Handle : LinkInv(g)') /\ CreditSum'
    <2>1. /\ n \in Nat \ {0} /\ n <= buffered[h]
          /\ buffered' = [buffered EXCEPT ![h] = @ - n]
          /\ completed' = [completed EXCEPT ![h] = @ + n]
          /\ UNCHANGED <<registered, sent_packets, credits, fragments, link_queue,
                         hci_queue, connected>>
      BY <1>2, <1>k DEF ControllerCompletes, scheduler, links
    <2>2. \A g \in Handle : /\ Outstanding'[g] = Outstanding[g]
                            /\ Buffered(g)' = Buffered(g)
      BY <2>1, SameOutstanding
    <2>3. \A g \in Handle : OnTheWay(g)' = OnTheWay(g) /\ OnTheWay(g) \in Nat
      <3> TAKE g \in Handle
      <3>1. /\ buffered'[g] = IF g = h THEN buffered[g] - n ELSE buffered[g]
            /\ completed'[g] = IF g = h THEN completed[g] + n ELSE completed[g]
        BY <1>2, <2>1
      <3>2. /\ OnTheWay(g) = CountIn(hci_queue, g) + buffered[g] + completed[g]
            /\ OnTheWay(g)' = CountIn(hci_queue, g) + buffered'[g] + completed'[g]
            /\ CountIn(hci_queue, g) \in Nat /\ buffered[g] \in Nat /\ completed[g] \in Nat
        BY <1>3, <1>5, <2>1
      <3> QED
        BY <1>5, <2>1, <3>1, <3>2
    <2>4. buffered[h] # 0 /\ OnTheWay(h) # 0
      BY <1>3, <1>5, <2>1
    <2>5. h \in connected /\ h \in registered
      BY <1>1, <2>4 DEF LinkInv
    <2>6. LinkInv(h)'
      BY <1>1, <2>1, <2>2, <2>3, <2>5 DEF LinkInv
    <2>7. ASSUME NEW g \in Handle, g # h PROVE LinkInv(g)'
      <3>1. buffered'[g] = buffered[g]
        BY <1>2, <2>1, <2>7
      <3> QED
        BY <1>1, <2>1, <2>2, <2>3, <3>1, LinkKept
    <2>8. CreditSum'
      BY <1>1, <2>1, <2>2, SumKept
    <2> QED
      BY <2>6, <2>7, <2>8
  <1>l. start_round_robin_task \/ (\E h \in Prioritized, high \in BOOLEAN : SetLinkPriority(h, high))
          => UNCHANGED <<registered, sent_packets, credits, fragments, link_queue,
                         controller>>
    BY DEF start_round_robin_task, SetLinkPriority, links
  <1>m. UNCHANGED vars => UNCHANGED <<registered, sent_packets, credits, fragments,
                                      link_queue, controller>>
    BY DEF vars, scheduler, links
  <1> QED
    BY <1>a, <1>b, <1>c, <1>d, <1>e, <1>f, <1>g, <1>h, <1>i, <1>j, <1>k, <1>l, <1>m
    DEF Next

(* Credits are conserved, for any number of links and buffers, as long as  *)
(* a link that still has packets to send is not lost: every credit is with *)
(* the host or with one registered link, and a live link has exactly as    *)
(* many fragments on their way as it holds credits.  The controller's      *)
(* buffers are never overrun.                                              *)
THEOREM NoCreditLost ==
  ASSUME ~LateTraffic
  PROVE  Spec => []CreditsConserved
  <1>1. Init => CreditInv
    <2> SUFFICES ASSUME Init PROVE CreditInv
      OBVIOUS
    <2>1. SafeInv /\ EnvTypeOK
      BY SafeInit, EnvTypeInit
    <2>2. \A h \in Handle : /\ Buffered(h) = 0 /\ OnTheWay(h) = 0 /\ Outstanding[h] = 0
                            /\ link_queue[h] = <<>> /\ buffered[h] = 0
      <3>1. \A h : CountIn(<<>>, h) = 0
        BY CountEmpty
      <3> QED
        BY <3>1 DEF Init, Buffered, OnTheWay, Outstanding
    <2>3. \A h \in Handle : LinkInv(h)
      BY <2>2 DEF LinkInv
    <2>4. ASSUME NEW t \in Types
          PROVE  credits[t] + SumOver(Outstanding, Links(t) \cap registered)
                   = MaxCredits[t]
      <3>1. Links(t) \cap registered = {}
        BY DEF Init
      <3>2. SumOver(Outstanding, Links(t) \cap registered) = SumOver(Outstanding, {})
        BY <3>1, Zenon
      <3>3. SumOver(Outstanding, {}) = 0
        BY SumEmpty
      <3>4. credits[t] = MaxCredits[t] /\ MaxCredits[t] \in Nat
        BY ConstantsAssumption DEF Init
      <3> QED
        BY <3>2, <3>3, <3>4
    <2> QED
      BY <2>1, <2>3, <2>4 DEF CreditInv, CreditSum
  <1>2. CreditInv /\ [Next]_vars => CreditInv'
    BY CreditStep
  <1>3. CreditInv => CreditsConserved
    <2> SUFFICES ASSUME CreditInv PROVE LinkCredits
      BY DEF CreditInv, CreditsConserved
    <2>1. ASSUME NEW h \in connected \cap registered
          PROVE  Outstanding[h] = OnTheWay(h)
      <3>1. h \in Handle
        BY DEF CreditInv, SafeInv
      <3> QED
        BY <3>1 DEF CreditInv, LinkInv
    <2> QED
      BY <2>1 DEF LinkCredits, OnTheWay
  <1> QED
    BY <1>1, <1>2, <1>3, PTL DEF Spec
=============================================================================
