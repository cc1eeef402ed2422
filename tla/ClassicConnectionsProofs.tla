---------------------- MODULE ClassicConnectionsProofs ----------------------
(***************************************************************************)
(* Classic connections, for any peers, handles and number of calls and     *)
(* events: no assertion fails, one attempt is made at a time, and in the   *)
(* end the table is right and no request waits.                            *)
(***************************************************************************)
EXTENDS ClassicConnections, SequenceTheorems, WellFoundedInduction, TLAPS

(***************************************************************************)
(* Types.  An event is well formed if it has what its handler reads.       *)
(***************************************************************************)
Calls == {"create_connection", "cancel_connect"}
Answers == {"create_status", "accept_status"}
Status == {"", "success", "failed", "unknown_connection"}

WellFormed(e) ==
  /\ e.do = "disconnect" \/ e.a \in Address
  /\ e.handle \in Handle <=> e.do = "disconnect" \/ (e.do = "complete" /\ e.status = "success")
  /\ e.do = "complete" => e.of \in {"page", "request"}
  /\ e.status = "unknown_connection" => e.of = "page"

EventOf(kinds) ==
  {e \in [do : kinds, a : Address \cup {kEmpty}, handle : Handle \cup {NoHandle},
          status : Status, of : {"", "page", "request"}, hop : {1, 2}] : WellFormed(e)}

Task == EventOf(Calls \cup Answers \cup {"request", "complete", "disconnect"})
HciEvent == EventOf(Answers \cup {"request", "complete", "disconnect", "logged"})
AnyEvent == EventOf(Calls \cup Answers \cup {"request", "complete", "disconnect", "logged"})
Command == {"create", "accept", "reject", "cancel"} \X Address

Host == [outgoing_connecting_address : Address \cup {kEmpty},
         incoming_connecting_address_set : SUBSET Address,
         pending_outgoing_connections : Seq(Address),
         connections : [Handle -> Address \cup {kEmpty}],
         scheduled : SUBSET Handle,
         aborted : BOOLEAN,
         tasks : Seq(Task), client : Seq(Handle), commands : Seq(Command),
         unanswered : SUBSET Address,
         mistaken : BOOLEAN]

TypeInv ==
  /\ host \in Host
  /\ hci \in Seq(HciEvent)
  /\ paging \in SUBSET Address
  /\ requests \in [Address -> {"none", "asked", "accepted"}]
  /\ link \in [Handle -> Address \cup {kEmpty}]

(***************************************************************************)
(* What is on its way to classic_impl, in the order in which it arrives,   *)
(* but for answers and disconnections, which fall back once.               *)
(***************************************************************************)
OnTheWay == host.tasks \o hci

(* The end of an attempt of ours: its page, or the refusal to page. *)
EndsAttempt(e) ==
  \/ e.do = "complete" /\ e.of = "page"
  \/ e.do = "create_status" /\ e.status # "success"

Creates(K) == {i \in DOMAIN K : K[i][1] = "create"}

(* There is an attempt exactly while outgoing_connecting_address_ is set,  *)
(* to its address, and it is in one place: the command is on its way, the  *)
(* controller is paging, or the end is on its way back.                    *)
AttemptOn(q, out, page, K) ==
  /\ \A i \in Creates(K) : K[i][2] = out /\ page = {} /\ \A j \in Creates(K) : j = i
  /\ \A a \in page : a = out
  /\ \A i \in DOMAIN q : EndsAttempt(q[i]) =>
       /\ q[i].a = out /\ page = {} /\ Creates(K) = {}
       /\ \A j \in DOMAIN q : EndsAttempt(q[j]) => j = i
  /\ out # kEmpty =>
       Creates(K) # {} \/ page # {} \/ \E i \in DOMAIN q : EndsAttempt(q[i])

AttemptInv ==
  AttemptOn(OnTheWay, host.outgoing_connecting_address, paging, host.commands)

(* incoming_connecting_address_set_ is what the controller's requests were *)
(* before the events on their way: G has the positions between events at   *)
(* which a has asked and its request has not ended.                        *)
Asks(e, a) == e.do = "request" /\ e.a = a
EndsRequest(e, a) == e.do = "complete" /\ e.of = "request" /\ e.a = a

Replays(G, q, a) ==
  \A i \in DOMAIN q :
    /\ Asks(q[i], a) => i - 1 \notin G /\ i \in G
    /\ EndsRequest(q[i], a) => i - 1 \in G /\ i \notin G
    /\ ~Asks(q[i], a) /\ ~EndsRequest(q[i], a) => (i - 1 \in G <=> i \in G)

RequestOn(q, a, in, asked) ==
  \E G \in SUBSET Nat : /\ 0 \in G <=> a \in in
                        /\ Len(q) \in G <=> asked # "none"
                        /\ Replays(G, q, a)
RequestInv ==
  \A a \in Address :
    RequestOn(OnTheWay, a, host.incoming_connecting_address_set, requests[a])

(* The life of a handle: the end of its connection is behind its           *)
(* beginning, and the next beginning comes when both have been forgotten.  *)
About(q, h) == {i \in DOMAIN q : q[i].handle = h}

HandleOn(q, h, conn, ln) ==
  /\ \A i, j \in About(q, h) : i < j => q[i].do = "complete" /\ q[j].do = "disconnect"
  /\ \A i \in About(q, h) : q[i].do = "complete" => conn = kEmpty
  /\ ln # kEmpty => \A i \in About(q, h) : q[i].do = "complete" /\ q[i].a = ln
  /\ ln = kEmpty /\ About(q, h) # {} => \E i \in About(q, h) : q[i].do = "disconnect"
  /\ About(q, h) = {} => conn = ln

HandleInv ==
  /\ \A h \in Handle :
       /\ HandleOn(OnTheWay, h, host.connections[h], link[h])
       /\ h \in host.scheduled <=> host.connections[h] # kEmpty
  /\ \A i \in DOMAIN host.client :
       LET h == host.client[i]
       IN /\ host.connections[h] = kEmpty /\ link[h] = kEmpty
          /\ About(OnTheWay, h) = {}

(* Requests wait only for attempts, and everything unanswered waits. *)
Waiting(h) ==
  /\ h.pending_outgoing_connections # <<>> =>
       h.outgoing_connecting_address # kEmpty \/ h.incoming_connecting_address_set # {}
  /\ \A a \in h.unanswered :
       \/ a = h.outgoing_connecting_address
       \/ \E i \in DOMAIN h.pending_outgoing_connections : h.pending_outgoing_connections[i] = a

AttemptsInv == ~host.mistaken => AttemptInv /\ RequestInv
TableInv == ~host.mistaken => ~host.aborted /\ HandleInv /\ Waiting(host)

(***************************************************************************)
(* The sequences of tasks and events.                                      *)
(***************************************************************************)
LEMMA HeadTail ==
  ASSUME NEW S, NEW s \in Seq(S), s # <<>>
  PROVE  /\ Head(s) \in S /\ Tail(s) \in Seq(S) /\ Head(s) = s[1]
         /\ Len(s) \in Nat \ {0} /\ Len(Tail(s)) = Len(s) - 1
         /\ DOMAIN s = 1..Len(s) /\ DOMAIN Tail(s) = 1..(Len(s) - 1)
         /\ \A i \in 1..(Len(s) - 1) : Tail(s)[i] = s[i + 1]
  OBVIOUS

LEMMA Appended ==
  ASSUME NEW S, NEW s \in Seq(S), NEW e \in S
  PROVE  /\ Append(s, e) \in Seq(S) /\ Len(Append(s, e)) = Len(s) + 1 /\ Len(s) \in Nat
         /\ DOMAIN s = 1..Len(s) /\ DOMAIN Append(s, e) = 1..(Len(s) + 1)
         /\ \A i \in 1..Len(s) : Append(s, e)[i] = s[i]
         /\ Append(s, e)[Len(s) + 1] = e
  OBVIOUS

(* q with x put in behind its first k elements. *)
Inserted(p, q, k, x) ==
  /\ Len(q) \in Nat /\ k \in 0..Len(q) /\ Len(p) = Len(q) + 1
  /\ DOMAIN q = 1..Len(q) /\ DOMAIN p = 1..(Len(q) + 1)
  /\ \A i \in 1..k : p[i] = q[i]
  /\ p[k + 1] = x
  /\ \A i \in (k + 2)..(Len(q) + 1) : p[i] = q[i - 1]

(* q with its element at k taken out and x at the end in its place. *)
Moved(p, q, k, x) ==
  /\ Len(q) \in Nat /\ k \in 1..Len(q) /\ Len(p) = Len(q)
  /\ DOMAIN q = 1..Len(q) /\ DOMAIN p = 1..Len(q)
  /\ \A i \in 1..(k - 1) : p[i] = q[i]
  /\ \A i \in k..(Len(q) - 1) : p[i] = q[i + 1]
  /\ p[Len(q)] = x

(* A call is posted behind the tasks. *)
LEMMA PostedTask ==
  ASSUME NEW S, NEW t \in Seq(S), NEW s \in Seq(S), NEW x \in S
  PROVE  Inserted(Append(t, x) \o s, t \o s, Len(t), x)
  BY DEF Inserted

(* The first task is run. *)
LEMMA RanTask ==
  ASSUME NEW S, NEW t \in Seq(S), NEW s \in Seq(S), t # <<>>
  PROVE  /\ Tail(t) \o s = Tail(t \o s) /\ t \o s \in Seq(S) /\ t \o s # <<>>
         /\ Head(t \o s) = Head(t)
  <1>1. t \o s \in Seq(S) /\ Len(t \o s) = Len(t) + Len(s) /\ Len(t) \in Nat \ {0}
        /\ Len(s) \in Nat
    OBVIOUS
  <1>2. t \o s # <<>> /\ Head(t \o s) = Head(t)
    BY <1>1
  <1>3. Tail(t) \o s \in Seq(S) /\ Tail(t \o s) \in Seq(S)
    BY <1>1, <1>2
  <1>4. Len(Tail(t) \o s) = Len(Tail(t \o s))
    BY <1>1, <1>2
  <1>5. \A i \in 1..Len(Tail(t \o s)) : (Tail(t) \o s)[i] = Tail(t \o s)[i]
    BY <1>1, <1>2
  <1> QED
    BY <1>1, <1>2, <1>3, <1>4, <1>5, SeqEqual

(* The HCI layer passes an event on. *)
LEMMA PassedOn ==
  ASSUME NEW S, NEW t \in Seq(S), NEW s \in Seq(S), s # <<>>
  PROVE  Append(t, Head(s)) \o Tail(s) = t \o s
  <1> DEFINE p == Append(t, Head(s)) \o Tail(s)
             q == t \o s
  <1>1. p \in Seq(S) /\ q \in Seq(S)
    OBVIOUS
  <1>2. Len(p) = Len(q)
    OBVIOUS
  <1>3. \A i \in 1..Len(q) : p[i] = q[i]
    OBVIOUS
  <1> HIDE DEF p, q
  <1>4. p = q
    BY <1>1, <1>2, <1>3, SeqEqual
  <1> QED
    BY <1>4 DEF p, q

(* It drops one. *)
LEMMA Dropped ==
  ASSUME NEW S, NEW t \in Seq(S), NEW s \in Seq(S), s # <<>>
  PROVE  Inserted(t \o s, t \o Tail(s), Len(t), Head(s))
  BY DEF Inserted

(* It posts a second task for one. *)
LEMMA PutOff ==
  ASSUME NEW S, NEW t \in Seq(S), NEW s \in Seq(S), s # <<>>, NEW x \in S
  PROVE  Moved(t \o Append(Tail(s), x), t \o s, Len(t) + 1, x)
  BY DEF Moved

(* A new event. *)
LEMMA Arrived ==
  ASSUME NEW S, NEW t \in Seq(S), NEW s \in Seq(S), NEW x \in S
  PROVE  t \o Append(s, x) = Append(t \o s, x)
  <1> DEFINE p == t \o Append(s, x)
             q == Append(t \o s, x)
  <1>1. p \in Seq(S) /\ q \in Seq(S)
    OBVIOUS
  <1>2. Len(p) = Len(q)
    OBVIOUS
  <1>3. \A i \in 1..Len(q) : p[i] = q[i]
    OBVIOUS
  <1> HIDE DEF p, q
  <1>4. p = q
    BY <1>1, <1>2, <1>3, SeqEqual
  <1> QED
    BY <1>4 DEF p, q

LEMMA MinFacts ==
  ASSUME NEW S \in SUBSET Nat, S # {}
  PROVE  Min(S) \in S /\ \A y \in S : Min(S) <= y
  <1>1. PICK x \in S : \A y \in S : ~(<<y, x>> \in OpToRel(<, Nat))
    BY NatLessThanWellFounded, WFMin
  <1>2. \A y \in S : x <= y
    <2> SUFFICES ASSUME NEW y \in S, ~(x <= y) PROVE FALSE
      OBVIOUS
    <2>1. y < x /\ x \in Nat /\ y \in Nat
      OBVIOUS
    <2>2. <<y, x>> \in OpToRel(<, Nat)
      BY <2>1 DEF OpToRel
    <2> QED
      BY <1>1, <2>2
  <1> QED
    BY <1>2 DEF Min

(***************************************************************************)
(* The operations of classic_impl.                                         *)
(***************************************************************************)

(* Commands are added at the end; only dequeue_next_connection adds one to *)
(* create a connection.                                                    *)
LEMMA EnqueueFacts ==
  ASSUME NEW h \in Host, NEW op, NEW a, <<op, a>> \in Command,
         NEW g, g = EnqueueCommand(h, op, a)
  PROVE  /\ g \in Host
         /\ g = [h EXCEPT !.commands = g.commands]
         /\ g.commands = Append(h.commands, <<op, a>>)
  <1>1. <<op, a>> \in Command /\ h.commands \in Seq(Command)
    BY DEF Host
  <1>2. Append(h.commands, <<op, a>>) \in Seq(Command)
    BY <1>1
  <1> QED
    BY <1>2 DEF EnqueueCommand, Host

(* The three outcomes of dequeue_next_connection: it must wait, nothing    *)
(* but connected devices was pending, or the next attempt begins.          *)
Blocked(h) ==
  h.incoming_connecting_address_set # {} \/ h.outgoing_connecting_address # kEmpty

Pending(h, a) ==
  \E i \in DOMAIN h.pending_outgoing_connections : h.pending_outgoing_connections[i] = a

SameRest(g, h) ==
  /\ g.incoming_connecting_address_set = h.incoming_connecting_address_set
  /\ g.connections = h.connections /\ g.scheduled = h.scheduled
  /\ g.aborted = h.aborted /\ g.tasks = h.tasks /\ g.client = h.client
  /\ g.mistaken = h.mistaken

Emptied(g, h) ==
  /\ g.outgoing_connecting_address = kEmpty /\ g.commands = h.commands
  /\ g.pending_outgoing_connections = <<>>
  /\ \A a \in g.unanswered : a \in h.unanswered /\ ~Pending(h, a)

Begun(g, h, a) ==
  /\ g.outgoing_connecting_address = a
  /\ g.commands = Append(h.commands, <<"create", a>>)
  /\ \A b \in g.unanswered : /\ b \in h.unanswered
                             /\ Pending(h, b) => b = a \/ Pending(g, b)

LEMMA DequeueFacts ==
  ASSUME NEW h \in Host, NEW g, g = dequeue_next_connection(h)
  PROVE  /\ g \in Host /\ SameRest(g, h)
         /\ Blocked(h) => g = h
         /\ ~Blocked(h) => Emptied(g, h) \/ \E a \in Address : Begun(g, h, a)
  <1> DEFINE pending == h.pending_outgoing_connections
             Skipped == {i \in DOMAIN pending : is_classic_link_already_connected(h, pending[i])}
             fresh == DOMAIN pending \ Skipped
             next == Min(fresh)
             k == [h EXCEPT !.unanswered = @ \ {pending[i] : i \in Skipped}]
             a == pending[next]
  <1>1. CASE Blocked(h)
    BY <1>1 DEF Blocked, dequeue_next_connection, SameRest
  <1>2. CASE ~Blocked(h)
    <2>1. pending \in Seq(Address)
      BY DEF Host
    <2>2. g = IF fresh = {} THEN [k EXCEPT !.pending_outgoing_connections = <<>>]
              ELSE EnqueueCommand(
                     [k EXCEPT !.pending_outgoing_connections = SubSeq(@, next + 1, Len(@)),
                               !.outgoing_connecting_address = a],
                     "create", a)
      BY <1>2 DEF Blocked, dequeue_next_connection
    <2>3. /\ k \in Host
          /\ k.unanswered = h.unanswered \ {pending[i] : i \in Skipped}
          /\ k = [h EXCEPT !.unanswered = k.unanswered]
      BY DEF Host
    <2>4. h.outgoing_connecting_address = kEmpty
      BY <1>2 DEF Blocked
    <2> HIDE DEF Skipped, k, next
    <2>5. CASE fresh = {}
      <3>1. g = [k EXCEPT !.pending_outgoing_connections = <<>>]
        BY <2>2, <2>5
      <3>2. g \in Host /\ SameRest(g, h)
        <4>1. <<>> \in Seq(Address)
          OBVIOUS
        <4>2. g \in Host
          BY <2>3, <3>1, <4>1 DEF Host
        <4>3. SameRest(k, h)
          BY <2>3 DEF Host, SameRest
        <4>4. SameRest(g, h)
          BY <2>3, <3>1, <4>3 DEF Host, SameRest
        <4> QED
          BY <4>2, <4>4
      <3>3. Emptied(g, h)
        <4>1. g.outgoing_connecting_address = kEmpty /\ g.commands = h.commands
              /\ g.pending_outgoing_connections = <<>> /\ g.unanswered = k.unanswered
          BY <2>3, <2>4, <3>1 DEF Host
        <4>2. DOMAIN pending \subseteq Skipped
          BY <2>5
        <4> QED
          BY <2>3, <4>1, <4>2 DEF Emptied, Pending
      <3> QED
        BY <1>2, <3>2, <3>3
    <2>6. CASE fresh # {}
      <3>1. fresh \in SUBSET Nat
        BY <2>1
      <3>2. next \in fresh /\ \A y \in fresh : next <= y
        BY <2>6, <3>1, MinFacts DEF next
      <3>3. next \in DOMAIN pending /\ a \in Address /\ next \in Nat /\ next >= 1
            /\ DOMAIN pending = 1..Len(pending) /\ Len(pending) \in Nat
        BY <2>1, <3>2
      <3> HIDE DEF a, fresh
      <3> DEFINE rest == SubSeq(pending, next + 1, Len(pending))
                 m == [k EXCEPT !.pending_outgoing_connections = rest,
                                !.outgoing_connecting_address = a]
      <3>4. /\ rest \in Seq(Address)
            /\ \A i \in DOMAIN pending : i > next => i - next \in DOMAIN rest
                                                   /\ rest[i - next] = pending[i]
        BY <2>1, <3>3
      <3>5. /\ m.unanswered = k.unanswered /\ m.pending_outgoing_connections = rest
            /\ m.outgoing_connecting_address = a /\ m.commands = h.commands
            /\ m \in Host
        <4> HIDE DEF rest
        <4> QED
          BY <2>3, <3>3, <3>4 DEF Host
      <3>6. SameRest(m, h)
        <4> HIDE DEF rest
        <4> QED
          BY <2>3 DEF Host, SameRest
      <3>7. g = EnqueueCommand(m, "create", a)
        BY <2>2, <2>3, <2>6 DEF Host
      <3> HIDE DEF m, rest
      <3>8. /\ g \in Host /\ g = [m EXCEPT !.commands = g.commands]
            /\ g.commands = Append(m.commands, <<"create", a>>)
        <4>1. <<"create", a>> \in Command
          BY <3>3 DEF Command
        <4>2. m \in Host
          BY <3>5
        <4> QED
          BY ONLY <3>7, <4>1, <4>2, EnqueueFacts
      <3>9. /\ g.unanswered = k.unanswered /\ g.pending_outgoing_connections = rest
            /\ g.outgoing_connecting_address = a
        BY <3>5, <3>8 DEF Host
      <3>10. SameRest(g, h)
        BY <3>5, <3>6, <3>8 DEF Host, SameRest
      <3>11. ASSUME NEW b \in g.unanswered
             PROVE  b \in h.unanswered /\ (Pending(h, b) => b = a \/ Pending(g, b))
        <4>1. b \in h.unanswered /\ \A i \in Skipped : pending[i] # b
          BY <2>3, <3>9
        <4>2. SUFFICES ASSUME NEW i \in DOMAIN pending, pending[i] = b, b # a
                       PROVE  Pending(g, b)
          BY <4>1 DEF Pending
        <4>3. i \in fresh
          BY <4>1, <4>2 DEF fresh
        <4>4. i > next
          BY <3>2, <3>3, <4>2, <4>3 DEF a
        <4>5. i - next \in DOMAIN rest /\ rest[i - next] = b
          BY <3>4, <4>2, <4>4
        <4> QED
          BY <3>9, <4>5 DEF Pending
      <3>12. Begun(g, h, a)
        BY <3>5, <3>8, <3>9, <3>11 DEF Begun
      <3> QED
        BY <1>2, <3>3, <3>8, <3>10, <3>12
    <2> QED
      BY <2>5, <2>6
  <1> QED
    BY <1>1, <1>2

(***************************************************************************)
(* The three invariants of what is on its way, and the ways it changes.    *)
(***************************************************************************)
SameButHop(e, f) ==
  e.do = f.do /\ e.a = f.a /\ e.handle = f.handle /\ e.status = f.status /\ e.of = f.of

LEMMA SameMeaning ==
  ASSUME NEW e, NEW f, SameButHop(e, f), NEW a
  PROVE  /\ EndsAttempt(e) <=> EndsAttempt(f)
         /\ Asks(e, a) <=> Asks(f, a)
         /\ EndsRequest(e, a) <=> EndsRequest(f, a)
  BY DEF SameButHop, EndsAttempt, Asks, EndsRequest

(* Where an event is found again. *)
LEMMA InsertedIndex ==
  ASSUME NEW p, NEW q, NEW k, NEW x, Inserted(p, q, k, x)
  PROVE  /\ \A i \in DOMAIN q : \E j \in DOMAIN p : p[j] = q[i]
         /\ \A j \in DOMAIN p : p[j] = x \/ \E i \in DOMAIN q : q[i] = p[j]
  <1>1. ASSUME NEW i \in DOMAIN q PROVE \E j \in DOMAIN p : p[j] = q[i]
    <2>1. CASE i <= k
      BY <2>1 DEF Inserted
    <2>2. CASE i > k
      <3>1. i + 1 \in DOMAIN p /\ p[i + 1] = q[i]
        BY <2>2 DEF Inserted
      <3> QED
        BY <3>1
    <2> QED
      BY <2>1, <2>2 DEF Inserted
  <1>2. ASSUME NEW j \in DOMAIN p, p[j] # x PROVE \E i \in DOMAIN q : q[i] = p[j]
    <2>1. CASE j <= k
      BY <2>1 DEF Inserted
    <2>2. CASE j > k + 1
      <3>1. j - 1 \in DOMAIN q /\ p[j] = q[j - 1]
        BY <2>2 DEF Inserted
      <3> QED
        BY <3>1
    <2> QED
      BY <1>2, <2>1, <2>2 DEF Inserted
  <1> QED
    BY <1>1, <1>2

Only(q) ==
  \A i, j \in DOMAIN q : EndsAttempt(q[i]) /\ EndsAttempt(q[j]) => i = j

LEMMA AttemptInserted ==
  ASSUME NEW p, NEW q, NEW k, NEW x, Inserted(p, q, k, x), ~EndsAttempt(x),
         NEW out, NEW page, NEW K
  PROVE  AttemptOn(p, out, page, K) <=> AttemptOn(q, out, page, K)
  <1>1. /\ \A i \in DOMAIN q : \E j \in DOMAIN p : p[j] = q[i]
        /\ \A j \in DOMAIN p : EndsAttempt(p[j]) => \E i \in DOMAIN q : q[i] = p[j]
    BY InsertedIndex
  <1>2. ASSUME Only(p) PROVE Only(q)
    <2> SUFFICES ASSUME NEW i \in DOMAIN q, NEW j \in DOMAIN q,
                        EndsAttempt(q[i]), EndsAttempt(q[j]), i # j
                 PROVE  FALSE
      BY DEF Only
    <2> DEFINE m(l) == IF l <= k THEN l ELSE l + 1
    <2>1. \A l \in DOMAIN q : m(l) \in DOMAIN p /\ p[m(l)] = q[l]
      BY DEF Inserted
    <2>2. m(i) # m(j)
      BY DEF Inserted
    <2> HIDE DEF m
    <2> QED
      BY <1>2, <2>1, <2>2 DEF Only
  <1>3. ASSUME Only(q) PROVE Only(p)
    <2> SUFFICES ASSUME NEW i \in DOMAIN p, NEW j \in DOMAIN p,
                        EndsAttempt(p[i]), EndsAttempt(p[j]), i # j
                 PROVE  FALSE
      BY DEF Only
    <2> DEFINE m(l) == IF l <= k THEN l ELSE l - 1
    <2>1. i # k + 1 /\ j # k + 1
      BY DEF Inserted
    <2>2. \A l \in DOMAIN p : l # k + 1 => m(l) \in DOMAIN q /\ q[m(l)] = p[l]
      BY DEF Inserted
    <2>3. m(i) # m(j)
      BY <2>1 DEF Inserted
    <2> HIDE DEF m
    <2> QED
      BY <1>3, <2>1, <2>2, <2>3 DEF Only
  <1>4. ASSUME AttemptOn(p, out, page, K) PROVE AttemptOn(q, out, page, K)
    <2>1. Only(q)
      <3>1. Only(p)
        BY <1>4 DEF AttemptOn, Only
      <3> QED
        BY <1>2, <3>1
    <2> QED
      BY <1>1, <1>4, <2>1 DEF AttemptOn, Only
  <1>5. ASSUME AttemptOn(q, out, page, K) PROVE AttemptOn(p, out, page, K)
    <2>1. Only(p)
      <3>1. Only(q)
        BY <1>5 DEF AttemptOn, Only
      <3> QED
        BY <1>3, <3>1
    <2> QED
      BY <1>1, <1>5, <2>1 DEF AttemptOn, Only
  <1> QED
    BY <1>4, <1>5

LEMMA AttemptMoved ==
  ASSUME NEW p, NEW q, NEW k, NEW x, Moved(p, q, k, x), SameButHop(x, q[k]),
         NEW out, NEW page, NEW K, AttemptOn(q, out, page, K)
  PROVE  AttemptOn(p, out, page, K)
  <1> DEFINE m(l) == IF l < k THEN l ELSE IF l = Len(q) THEN k ELSE l + 1
             w(l) == IF l < k THEN l ELSE IF l = k THEN Len(q) ELSE l - 1
  <1>1. \A l \in DOMAIN p : /\ m(l) \in DOMAIN q
                            /\ l < Len(q) => p[l] = q[m(l)]
                            /\ l = Len(q) => p[l] = x /\ m(l) = k
    BY DEF Moved
  <1>2. \A l \in DOMAIN p : /\ EndsAttempt(p[l]) <=> EndsAttempt(q[m(l)])
                            /\ p[l].a = q[m(l)].a
    <2> TAKE l \in DOMAIN p
    <2>1. CASE l < Len(q)
      BY <1>1, <2>1
    <2>2. CASE l = Len(q)
      <3>1. p[l] = x /\ q[m(l)] = q[k]
        BY <1>1, <2>2
      <3> QED
        BY <3>1, SameMeaning DEF SameButHop
    <2> QED
      BY <2>1, <2>2 DEF Moved
  <1>3. \A i, j \in DOMAIN p : m(i) = m(j) => i = j
    BY DEF Moved
  <1>4. \A l \in DOMAIN q : w(l) \in DOMAIN p /\ m(w(l)) = l
    BY DEF Moved
  <1> HIDE DEF m, w
  <1> QED
    BY <1>1, <1>2, <1>3, <1>4 DEF AttemptOn

(* An event that is not about attempts arrives, or is taken. *)
LEMMA AttemptAppended ==
  ASSUME NEW S, NEW q \in Seq(S), NEW x \in S, ~EndsAttempt(x),
         NEW out, NEW page, NEW K, AttemptOn(q, out, page, K)
  PROVE  AttemptOn(Append(q, x), out, page, K)
  <1>1. Inserted(Append(q, x), q, Len(q), x)
    BY Appended DEF Inserted
  <1> QED
    BY <1>1, AttemptInserted

LEMMA AttemptTaken ==
  ASSUME NEW S, NEW q \in Seq(S), q # <<>>, ~EndsAttempt(Head(q)),
         NEW out, NEW page, NEW K, AttemptOn(q, out, page, K)
  PROVE  AttemptOn(Tail(q), out, page, K)
  <1>1. Inserted(q, Tail(q), 0, Head(q))
    BY HeadTail DEF Inserted
  <1> QED
    BY <1>1, AttemptInserted

Neutral(e, a) == ~Asks(e, a) /\ ~EndsRequest(e, a)

LEMMA ReplaysAt ==
  ASSUME NEW G, NEW q, NEW a, Replays(G, q, a), NEW i \in DOMAIN q, NEW j, j = i - 1
  PROVE  /\ Asks(q[i], a) => j \notin G /\ i \in G
         /\ EndsRequest(q[i], a) => j \in G /\ i \notin G
         /\ Neutral(q[i], a) => (j \in G <=> i \in G)
  BY DEF Replays, Neutral

LEMMA RequestInserted ==
  ASSUME NEW p, NEW q, NEW k, NEW x, NEW a, Inserted(p, q, k, x), Neutral(x, a),
         NEW in, NEW asked
  PROVE  RequestOn(p, a, in, asked) <=> RequestOn(q, a, in, asked)
  <1>1. ASSUME RequestOn(q, a, in, asked) PROVE RequestOn(p, a, in, asked)
    <2>1. PICK G \in SUBSET Nat : /\ 0 \in G <=> a \in in
                                  /\ Len(q) \in G <=> asked # "none"
                                  /\ Replays(G, q, a)
      BY <1>1 DEF RequestOn
    <2> DEFINE F == {i \in Nat : (i <= k /\ i \in G) \/ (i > k /\ i - 1 \in G)}
    <2>2. F \in SUBSET Nat /\ (0 \in F <=> 0 \in G) /\ (Len(p) \in F <=> Len(q) \in G)
      BY DEF Inserted
    <2>3. ASSUME NEW i \in DOMAIN p
          PROVE  /\ Asks(p[i], a) => i - 1 \notin F /\ i \in F
                 /\ EndsRequest(p[i], a) => i - 1 \in F /\ i \notin F
                 /\ Neutral(p[i], a) => (i - 1 \in F <=> i \in F)
      <3>1. CASE i <= k
        <4>1. p[i] = q[i] /\ i \in DOMAIN q /\ (i \in F <=> i \in G)
              /\ (i - 1 \in F <=> i - 1 \in G)
          BY <3>1 DEF Inserted
        <4> QED
          BY <2>1, <4>1 DEF Replays, Neutral
      <3>2. CASE i = k + 1
        <4>1. p[i] = x /\ (i \in F <=> k \in G) /\ (i - 1 \in F <=> k \in G)
          BY <3>2 DEF Inserted
        <4> QED
          BY <4>1 DEF Neutral
      <3>3. CASE i > k + 1
        <4>1. /\ p[i] = q[i - 1] /\ i - 1 \in DOMAIN q /\ (i \in F <=> i - 1 \in G)
              /\ (i - 1 \in F <=> i - 1 - 1 \in G)
          BY <3>3 DEF Inserted
        <4> QED
          BY <2>1, <4>1 DEF Replays, Neutral
      <3> QED
        BY <3>1, <3>2, <3>3 DEF Inserted
    <2> HIDE DEF F
    <2>4. Replays(F, p, a)
      BY <2>3 DEF Replays, Neutral
    <2> QED
      BY <2>1, <2>2, <2>4 DEF RequestOn
  <1>2. ASSUME RequestOn(p, a, in, asked) PROVE RequestOn(q, a, in, asked)
    <2>1. PICK G \in SUBSET Nat : /\ 0 \in G <=> a \in in
                                  /\ Len(p) \in G <=> asked # "none"
                                  /\ Replays(G, p, a)
      BY <1>2 DEF RequestOn
    <2> DEFINE F == {i \in Nat : (i <= k /\ i \in G) \/ (i > k /\ i + 1 \in G)}
    <2>2. k \in G <=> k + 1 \in G
      <3> DEFINE i == k + 1
      <3>1. i \in DOMAIN p /\ p[i] = x /\ k = i - 1
        BY DEF Inserted
      <3> HIDE DEF i
      <3>2. k \in G <=> i \in G
        BY <2>1, <3>1, ReplaysAt
      <3> QED
        BY <3>2 DEF i
    <2>3. F \in SUBSET Nat /\ (0 \in F <=> 0 \in G) /\ (Len(q) \in F <=> Len(p) \in G)
      BY <2>2 DEF Inserted
    <2>4. ASSUME NEW i \in DOMAIN q
          PROVE  /\ Asks(q[i], a) => i - 1 \notin F /\ i \in F
                 /\ EndsRequest(q[i], a) => i - 1 \in F /\ i \notin F
                 /\ Neutral(q[i], a) => (i - 1 \in F <=> i \in F)
      <3>1. CASE i <= k
        <4>1. p[i] = q[i] /\ i \in DOMAIN p /\ (i \in F <=> i \in G)
              /\ (i - 1 \in F <=> i - 1 \in G)
          BY <3>1 DEF Inserted
        <4> QED
          BY <2>1, <4>1 DEF Replays, Neutral
      <3>2. CASE i > k
        <4>1. /\ p[i + 1] = q[i] /\ i + 1 \in DOMAIN p /\ (i \in F <=> i + 1 \in G)
              /\ (i - 1 \in F <=> i \in G) /\ i + 1 - 1 = i
          BY <2>2, <3>2 DEF Inserted
        <4> QED
          BY <2>1, <4>1 DEF Replays, Neutral
      <3> QED
        BY <3>1, <3>2 DEF Inserted
    <2> HIDE DEF F
    <2>5. Replays(F, q, a)
      BY <2>4 DEF Replays, Neutral
    <2> QED
      BY <2>1, <2>3, <2>5 DEF RequestOn
  <1> QED
    BY <1>1, <1>2

(* The peer asks, or its request ends, in the controller. *)
LEMMA RequestAppended ==
  ASSUME NEW S, NEW q \in Seq(S), NEW x \in S, NEW a, NEW in, NEW asked, NEW then,
         RequestOn(q, a, in, asked),
         \/ Neutral(x, a) /\ (asked = "none" <=> then = "none")
         \/ Asks(x, a) /\ asked = "none" /\ then # "none"
         \/ EndsRequest(x, a) /\ asked # "none" /\ then = "none"
  PROVE  RequestOn(Append(q, x), a, in, then)
  <1>1. PICK G \in SUBSET Nat : /\ 0 \in G <=> a \in in
                                /\ Len(q) \in G <=> asked # "none"
                                /\ Replays(G, q, a)
    BY DEF RequestOn
  <1> DEFINE p == Append(q, x)
             n == Len(q)
             F == {i \in Nat : (i <= n /\ i \in G) \/ (i = n + 1 /\ then # "none")}
  <1>2. /\ n \in Nat /\ DOMAIN q = 1..n /\ DOMAIN p = 1..(n + 1) /\ Len(p) = n + 1
        /\ \A i \in 1..n : p[i] = q[i]
        /\ p[n + 1] = x
    BY Appended
  <1> HIDE DEF p, n
  <1>3. F \in SUBSET Nat /\ (0 \in F <=> 0 \in G) /\ (n + 1 \in F <=> then # "none")
        /\ (n \in F <=> n \in G)
    BY <1>2
  <1>4. ASSUME NEW i \in DOMAIN p
        PROVE  /\ Asks(p[i], a) => i - 1 \notin F /\ i \in F
               /\ EndsRequest(p[i], a) => i - 1 \in F /\ i \notin F
               /\ Neutral(p[i], a) => (i - 1 \in F <=> i \in F)
    <2>1. CASE i <= n
      <3>1. p[i] = q[i] /\ i \in DOMAIN q /\ (i \in F <=> i \in G)
            /\ (i - 1 \in F <=> i - 1 \in G)
        BY <1>2, <2>1
      <3> QED
        BY <1>1, <3>1 DEF Replays, Neutral
    <2>2. CASE i = n + 1
      <3>1. p[i] = x /\ i - 1 = n /\ (i \in F <=> then # "none")
        BY <1>2, <1>3, <2>2
      <3>3. n \in F <=> asked # "none"
        <4> HIDE DEF F
        <4> QED
          BY <1>1, <1>3 DEF n
      <3>2. /\ Asks(x, a) => ~EndsRequest(x, a)
        BY DEF Asks, EndsRequest
      <3> HIDE DEF F
      <3> QED
        BY <3>1, <3>2, <3>3 DEF Neutral
    <2> QED
      BY <1>2, <2>1, <2>2
  <1> HIDE DEF F
  <1>5. Replays(F, p, a)
    BY <1>4 DEF Replays, Neutral
  <1>6. RequestOn(p, a, in, then)
    BY <1>1, <1>2, <1>3, <1>5 DEF RequestOn
  <1> QED
    BY <1>6 DEF p

(* classic_impl learns of it. *)
LEMMA RequestTaken ==
  ASSUME NEW S, NEW q \in Seq(S), q # <<>>, NEW a, NEW in, NEW now, NEW asked,
         RequestOn(q, a, in, asked),
         Asks(Head(q), a) => a \in now,
         EndsRequest(Head(q), a) => a \notin now,
         Neutral(Head(q), a) => (a \in now <=> a \in in)
  PROVE  /\ RequestOn(Tail(q), a, now, asked)
         /\ EndsRequest(Head(q), a) => a \in in
  <1>1. PICK G \in SUBSET Nat : /\ 0 \in G <=> a \in in
                                /\ Len(q) \in G <=> asked # "none"
                                /\ Replays(G, q, a)
    BY DEF RequestOn
  <1> DEFINE p == Tail(q)
             e == Head(q)
             n == Len(q)
             F == {i \in Nat : i + 1 \in G}
  <1>2. /\ n \in Nat \ {0} /\ DOMAIN q = 1..n /\ DOMAIN p = 1..(n - 1) /\ Len(p) = n - 1
        /\ \A i \in 1..(n - 1) : p[i] = q[i + 1]
        /\ e = q[1]
    BY HeadTail
  <1> HIDE DEF p, n, e
  <1>3. F \in SUBSET Nat /\ (0 \in F <=> 1 \in G) /\ (n - 1 \in F <=> n \in G)
    BY <1>2
  <1>4. /\ Asks(e, a) => 0 \notin G /\ 1 \in G
        /\ EndsRequest(e, a) => 0 \in G /\ 1 \notin G
        /\ Neutral(e, a) => (0 \in G <=> 1 \in G)
    <2>1. 1 \in DOMAIN q /\ 1 - 1 = 0
      BY <1>2
    <2> QED
      BY <1>1, <1>2, <2>1 DEF Replays, Neutral
  <1>5. 0 \in F <=> a \in now
    <2> HIDE DEF F
    <2> QED
      BY <1>1, <1>3, <1>4 DEF Neutral, e
  <1>6. ASSUME NEW i \in DOMAIN p
        PROVE  /\ Asks(p[i], a) => i - 1 \notin F /\ i \in F
               /\ EndsRequest(p[i], a) => i - 1 \in F /\ i \notin F
               /\ Neutral(p[i], a) => (i - 1 \in F <=> i \in F)
    <2> DEFINE j == i + 1
    <2>1. /\ p[i] = q[j] /\ j \in DOMAIN q /\ i = j - 1
          /\ (i \in F <=> j \in G) /\ (i - 1 \in F <=> i \in G)
      BY <1>2
    <2> HIDE DEF j, F
    <2>2. /\ Asks(q[j], a) => i \notin G /\ j \in G
          /\ EndsRequest(q[j], a) => i \in G /\ j \notin G
          /\ Neutral(q[j], a) => (i \in G <=> j \in G)
      BY ONLY <1>1, <2>1, ReplaysAt
    <2> QED
      BY <2>1, <2>2
  <1> HIDE DEF F
  <1>7. Replays(F, p, a)
    BY <1>6 DEF Replays, Neutral
  <1>8. RequestOn(p, a, now, asked)
    BY <1>1, <1>2, <1>3, <1>5, <1>7 DEF RequestOn, n
  <1> QED
    BY <1>1, <1>4, <1>8 DEF p, e

LEMMA HandleInserted ==
  ASSUME NEW p, NEW q, NEW k, NEW x, NEW h, Inserted(p, q, k, x), x.handle # h
  PROVE  /\ \A conn, ln : HandleOn(p, h, conn, ln) <=> HandleOn(q, h, conn, ln)
         /\ About(p, h) = {} <=> About(q, h) = {}
  <1> DEFINE m(l) == IF l <= k THEN l ELSE l + 1
             w(l) == IF l <= k THEN l ELSE l - 1
  <1>1. \A l \in About(q, h) : m(l) \in About(p, h) /\ p[m(l)] = q[l] /\ w(m(l)) = l
    BY DEF Inserted, About
  <1>2. \A l \in About(p, h) : w(l) \in About(q, h) /\ q[w(l)] = p[l] /\ m(w(l)) = l
    <2> TAKE l \in About(p, h)
    <2>1. l # k + 1
      BY DEF Inserted, About
    <2> QED
      BY <2>1 DEF Inserted, About
  <1>3. \A i, j \in About(q, h) : i < j => m(i) < m(j)
    BY DEF Inserted, About
  <1>4. \A i, j \in About(p, h) : i < j => w(i) < w(j)
    <2> TAKE i, j \in About(p, h)
    <2>1. i # k + 1 /\ j # k + 1
      BY DEF Inserted, About
    <2> QED
      BY <2>1 DEF Inserted, About
  <1> HIDE DEF m, w
  <1>5. About(p, h) = {} <=> About(q, h) = {}
    BY <1>1, <1>2
  <1>6. ASSUME NEW conn, NEW ln, HandleOn(p, h, conn, ln) PROVE HandleOn(q, h, conn, ln)
    BY <1>1, <1>2, <1>3, <1>5, <1>6 DEF HandleOn
  <1>7. ASSUME NEW conn, NEW ln, HandleOn(q, h, conn, ln) PROVE HandleOn(p, h, conn, ln)
    BY <1>1, <1>2, <1>4, <1>5, <1>7 DEF HandleOn
  <1> QED
    BY <1>5, <1>6, <1>7

(* Of the events of a handle only a disconnection is put off. *)
LEMMA HandleMoved ==
  ASSUME NEW p, NEW q, NEW k, NEW x, Moved(p, q, k, x), SameButHop(x, q[k]),
         NEW h, q[k].handle = h => q[k].do = "disconnect"
  PROVE  /\ \A conn, ln : HandleOn(q, h, conn, ln) => HandleOn(p, h, conn, ln)
         /\ About(q, h) = {} => About(p, h) = {}
  <1> DEFINE m(l) == IF l < k THEN l ELSE IF l = Len(q) THEN k ELSE l + 1
             w(l) == IF l < k THEN l ELSE IF l = k THEN Len(q) ELSE l - 1
  <1>1. \A l \in DOMAIN p : /\ m(l) \in DOMAIN q
                            /\ l < Len(q) => p[l] = q[m(l)]
                            /\ l = Len(q) => p[l] = x /\ m(l) = k
    BY DEF Moved
  <1>2. \A l \in DOMAIN p : p[l].handle = q[m(l)].handle /\ p[l].do = q[m(l)].do
                            /\ p[l].a = q[m(l)].a
    <2> TAKE l \in DOMAIN p
    <2>1. CASE l < Len(q)
      BY <1>1, <2>1
    <2>2. CASE l = Len(q)
      <3>1. p[l] = x /\ q[m(l)] = q[k]
        BY <1>1, <2>2
      <3> QED
        BY <3>1 DEF SameButHop
    <2> QED
      BY <2>1, <2>2 DEF Moved
  <1>3. \A l \in DOMAIN q : w(l) \in DOMAIN p /\ m(w(l)) = l
    <2> TAKE l \in DOMAIN q
    <2>1. /\ Len(q) \in Nat /\ k \in 1..Len(q) /\ l \in 1..Len(q)
          /\ DOMAIN p = 1..Len(q)
      BY DEF Moved
    <2>2. CASE l < k
      BY <2>1, <2>2
    <2>3. CASE l = k
      BY <2>1, <2>3
    <2>4. CASE l > k
      BY <2>1, <2>4
    <2> QED
      BY <2>1, <2>2, <2>3, <2>4
  <1>4. \A i, j \in DOMAIN p : i < j => m(i) < m(j) \/ (m(j) = k /\ k < m(i))
    BY DEF Moved
  <1> HIDE DEF m, w
  <1>5. \A l \in About(p, h) : m(l) \in About(q, h)
    BY <1>1, <1>2 DEF About
  <1>6. \A l \in About(q, h) : w(l) \in About(p, h)
    BY <1>2, <1>3 DEF About
  <1>7. ASSUME NEW conn, NEW ln, HandleOn(q, h, conn, ln) PROVE HandleOn(p, h, conn, ln)
    <2>1. ASSUME NEW i \in About(p, h), NEW j \in About(p, h), i < j
          PROVE  p[i].do = "complete" /\ p[j].do = "disconnect"
      <3>1. i \in DOMAIN p /\ j \in DOMAIN p /\ m(i) \in About(q, h) /\ m(j) \in About(q, h)
        BY <1>5 DEF About
      <3>2. CASE m(i) < m(j)
        BY <1>2, <1>7, <3>1, <3>2 DEF HandleOn
      <3>3. CASE m(j) = k /\ k < m(i)
        <4>1. q[k].do = "complete" /\ q[k].handle = h
          BY <1>7, <3>1, <3>3 DEF HandleOn, About
        <4> QED
          BY <4>1
      <3> QED
        BY <1>4, <2>1, <3>1, <3>2, <3>3
    <2>2. \A l \in About(p, h) : l \in DOMAIN p
      BY DEF About
    <2>3. \A l \in About(q, h) : w(l) \in DOMAIN p /\ p[w(l)].do = q[l].do
      <3> TAKE l \in About(q, h)
      <3>1. l \in DOMAIN q
        BY DEF About
      <3>2. w(l) \in DOMAIN p /\ m(w(l)) = l
        BY <1>3, <3>1
      <3> QED
        BY <1>2, <3>2
    <2> QED
      BY <1>2, <1>5, <1>6, <1>7, <2>1, <2>2, <2>3 DEF HandleOn
  <1> QED
    BY <1>5, <1>7

(* A connection begins, or ends, in the controller. *)
LEMMA HandleBegins ==
  ASSUME NEW S, NEW q \in Seq(S), NEW x \in S, NEW h, x.handle = h, x.do = "complete",
         About(q, h) = {}, x.a # kEmpty
  PROVE  HandleOn(Append(q, x), h, kEmpty, x.a)
  <1> DEFINE p == Append(q, x)
             n == Len(q) + 1
  <1>1. /\ n \in Nat \ {0} /\ n \in DOMAIN p /\ DOMAIN p = 1..n /\ p[n] = x
        /\ \A i \in 1..n : i # n => i \in DOMAIN q /\ p[i] = q[i]
    BY Appended
  <1> HIDE DEF p, n
  <1>2. About(p, h) = {n}
    <2>1. n \in About(p, h)
      BY <1>1 DEF About
    <2>2. ASSUME NEW i \in About(p, h), i # n PROVE FALSE
      <3>1. i \in 1..n /\ p[i].handle = h
        BY <1>1 DEF About
      <3>2. i \in DOMAIN q /\ p[i] = q[i]
        BY <1>1, <2>2, <3>1
      <3> QED
        BY <3>1, <3>2 DEF About
    <2> QED
      BY <2>1, <2>2
  <1>3. HandleOn(p, h, kEmpty, x.a)
    BY <1>1, <1>2 DEF HandleOn
  <1> QED
    BY <1>3 DEF p

LEMMA HandleEnds ==
  ASSUME NEW S, NEW q \in Seq(S), NEW x \in S, NEW h, x.handle = h, x.do = "disconnect",
         NEW conn, NEW ln, ln # kEmpty, HandleOn(q, h, conn, ln)
  PROVE  HandleOn(Append(q, x), h, conn, kEmpty)
  <1> DEFINE p == Append(q, x)
             n == Len(q) + 1
  <1>1. /\ n \in Nat \ {0} /\ n \in DOMAIN p /\ DOMAIN p = 1..n /\ p[n] = x /\ DOMAIN q = 1..(n - 1)
        /\ \A i \in 1..(n - 1) : p[i] = q[i]
    BY Appended
  <1> HIDE DEF p, n
  <1>2. \A i \in About(p, h) : i = n \/ (i < n /\ i \in About(q, h) /\ p[i] = q[i])
    <2> SUFFICES ASSUME NEW i \in About(p, h), i # n
                 PROVE  i < n /\ i \in About(q, h) /\ p[i] = q[i]
      OBVIOUS
    <2>1. i \in 1..n /\ p[i].handle = h
      BY <1>1 DEF About
    <2>2. i < n /\ i \in 1..(n - 1)
      BY <1>1, <2>1
    <2>3. i \in DOMAIN q /\ p[i] = q[i]
      BY <1>1, <2>2
    <2> QED
      BY <2>1, <2>2, <2>3 DEF About
  <1>3. n \in About(p, h)
    BY <1>1 DEF About
  <1>4. \A i, j \in About(q, h) : ~(i < j)
    BY DEF HandleOn
  <1>5. \A i \in About(q, h) : q[i].do = "complete" /\ conn = kEmpty
    BY DEF HandleOn
  <1>6. ASSUME NEW i \in About(p, h), NEW j \in About(p, h), i < j
        PROVE  p[i].do = "complete" /\ p[j].do = "disconnect"
    <2>1. i \in 1..n /\ j \in 1..n
      BY <1>1 DEF About
    <2>2. CASE j = n
      BY <1>1, <1>2, <1>5, <1>6, <2>1, <2>2
    <2>3. CASE j # n
      BY <1>2, <1>4, <1>6, <2>1, <2>3
    <2> QED
      BY <2>2, <2>3
  <1>7. HandleOn(p, h, conn, kEmpty)
    BY <1>1, <1>2, <1>3, <1>5, <1>6 DEF HandleOn
  <1> QED
    BY <1>7 DEF p

(* classic_impl learns of it. *)
LEMMA HandleTaken ==
  ASSUME NEW S, NEW q \in Seq(S), q # <<>>, NEW h, Head(q).handle = h,
         NEW conn, NEW ln, HandleOn(q, h, conn, ln)
  PROVE  /\ Head(q).do = "complete" =>
              conn = kEmpty /\ HandleOn(Tail(q), h, Head(q).a, ln)
         /\ Head(q).do = "disconnect" =>
              ln = kEmpty /\ About(Tail(q), h) = {} /\ HandleOn(Tail(q), h, kEmpty, ln)
  <1> DEFINE p == Tail(q)
             e == Head(q)
             n == Len(q)
  <1>1. /\ n \in Nat \ {0} /\ DOMAIN q = 1..n /\ DOMAIN p = 1..(n - 1) /\ e = q[1]
        /\ \A i \in 1..(n - 1) : p[i] = q[i + 1]
    BY HeadTail
  <1>2. e.handle = h
    OBVIOUS
  <1> HIDE DEF p, n, e
  <1>3. 1 \in About(q, h)
    BY <1>1, <1>2 DEF About
  <1>4. \A i \in About(p, h) : /\ i \in Nat /\ i + 1 \in About(q, h) /\ p[i] = q[i + 1]
                               /\ 1 < i + 1
    BY <1>1 DEF About
  <1>5. \A i \in About(p, h) : e.do = "complete" /\ p[i].do = "disconnect"
    BY <1>1, <1>3, <1>4 DEF HandleOn
  <1>6. \A i, j \in About(p, h) : ~(i < j)
    <2> SUFFICES ASSUME NEW i \in About(p, h), NEW j \in About(p, h), i < j PROVE FALSE
      OBVIOUS
    <2>1. i + 1 < j + 1
      BY <1>4
    <2>2. q[i + 1].do = "complete"
      BY <1>4, <2>1 DEF HandleOn
    <2> QED
      BY <1>4, <1>5, <2>2
  <1>7. ASSUME e.do = "complete"
        PROVE  conn = kEmpty /\ HandleOn(p, h, e.a, ln)
    <2>1. conn = kEmpty
      BY <1>1, <1>3, <1>7 DEF HandleOn
    <2>2. CASE ln # kEmpty
      <3>1. e.a = ln /\ About(p, h) = {}
        BY <1>1, <1>3, <1>4, <1>5, <2>2 DEF HandleOn
      <3> QED
        BY <2>1, <2>2, <3>1 DEF HandleOn
    <2>3. CASE ln = kEmpty
      <3>1. PICK i \in About(q, h) : q[i].do = "disconnect"
        BY <1>3, <2>3 DEF HandleOn
      <3>2. i # 1 /\ i \in 1..n
        BY <1>1, <1>7, <3>1 DEF About
      <3>3. i - 1 \in About(p, h)
        <4>1. i - 1 \in 1..(n - 1) /\ i - 1 + 1 = i
          BY <1>1, <3>2
        <4> QED
          BY <1>1, <3>1, <4>1 DEF About
      <3> QED
        BY <1>5, <1>6, <2>1, <2>3, <3>3 DEF HandleOn
    <2> QED
      BY <2>2, <2>3
  <1>8. ASSUME e.do = "disconnect"
        PROVE  ln = kEmpty /\ About(p, h) = {} /\ HandleOn(p, h, kEmpty, ln)
    <2>1. About(p, h) = {}
      BY <1>5, <1>8
    <2>2. ln = kEmpty
      BY <1>1, <1>3, <1>8 DEF HandleOn
    <2> QED
      BY <2>1, <2>2 DEF HandleOn
  <1> QED
    BY <1>7, <1>8 DEF p, e

(***************************************************************************)
(* What each operation does to the fields of its host.                     *)
(***************************************************************************)
LEMMA CreateFacts ==
  ASSUME NEW h \in Host, NEW a \in Address, NEW g, g = create_connection(h, a)
  PROVE  \E k \in Host :
           /\ g = dequeue_next_connection(k) /\ SameRest(k, h)
           /\ k.outgoing_connecting_address = h.outgoing_connecting_address
           /\ k.commands = h.commands
           /\ k.pending_outgoing_connections = Append(h.pending_outgoing_connections, a)
           /\ k.unanswered = h.unanswered \cup {a}
  <1> DEFINE pending == Append(h.pending_outgoing_connections, a)
             k == [h EXCEPT !.pending_outgoing_connections = pending,
                            !.unanswered = h.unanswered \cup {a}]
  <1>1. pending \in Seq(Address)
    <2>1. h.pending_outgoing_connections \in Seq(Address)
      BY DEF Host
    <2> QED
      BY <2>1
  <1>2. g = dequeue_next_connection(k)
    BY DEF create_connection
  <1> HIDE DEF pending
  <1>3. k \in Host /\ k.pending_outgoing_connections = pending
        /\ k.unanswered = h.unanswered \cup {a} /\ k.commands = h.commands
        /\ k.outgoing_connecting_address = h.outgoing_connecting_address
    BY <1>1 DEF Host
  <1>4. SameRest(k, h)
    BY DEF Host, SameRest
  <1> HIDE DEF k
  <1> QED
    BY <1>2, <1>3, <1>4 DEF pending

LEMMA FailFacts ==
  ASSUME NEW h \in Host, NEW status, status # "success",
         NEW g, g = on_create_connection_status(h, status)
  PROVE  \E k \in Host :
           /\ g = dequeue_next_connection(k) /\ SameRest(k, h)
           /\ k.outgoing_connecting_address = kEmpty
           /\ k.commands = h.commands
           /\ k.pending_outgoing_connections = h.pending_outgoing_connections
           /\ k.unanswered = h.unanswered \ {h.outgoing_connecting_address}
  <1> DEFINE m == [h EXCEPT !.unanswered = h.unanswered \ {h.outgoing_connecting_address}]
             k == [m EXCEPT !.outgoing_connecting_address = kEmpty]
  <1>1. g = dequeue_next_connection(k)
    BY DEF on_create_connection_status, OnConnectFail
  <1>2. k \in Host /\ k.outgoing_connecting_address = kEmpty /\ k.commands = h.commands
        /\ k.pending_outgoing_connections = h.pending_outgoing_connections
        /\ k.unanswered = h.unanswered \ {h.outgoing_connecting_address}
    BY DEF Host
  <1>3. SameRest(k, h)
    BY DEF Host, SameRest
  <1> HIDE DEF k
  <1> QED
    BY <1>1, <1>2, <1>3

(* The end of an attempt is announced, when its handle is free. *)
Announced(k, h, status, a, handle) ==
  /\ k.commands = h.commands /\ k.tasks = h.tasks /\ k.client = h.client
  /\ k.mistaken = h.mistaken
  /\ k.pending_outgoing_connections = h.pending_outgoing_connections
  /\ status # "success" =>
       /\ k.connections = h.connections /\ k.scheduled = h.scheduled
       /\ k.aborted = h.aborted /\ k.unanswered = h.unanswered \ {a}
  /\ status = "success" /\ h.connections[handle] = kEmpty =>
       /\ k.connections = [h.connections EXCEPT ![handle] = a]
       /\ k.scheduled = h.scheduled \cup {handle}
       /\ k.aborted = h.aborted /\ k.unanswered = h.unanswered \ {a}

LEMMA AnnounceFacts ==
  ASSUME NEW h \in Host, NEW status, NEW a \in Address, NEW handle,
         status = "success" => handle \in Handle,
         NEW k, k = create_and_announce_connection(h, status, a, handle)
  PROVE  /\ k \in Host /\ Announced(k, h, status, a, handle)
         /\ k.outgoing_connecting_address = h.outgoing_connecting_address
         /\ k.incoming_connecting_address_set = h.incoming_connecting_address_set
  <1>1. CASE status # "success"
    BY <1>1 DEF create_and_announce_connection, OnConnectFail, Host, Announced
  <1>2. CASE status = "success" /\ h.connections[handle] # kEmpty
    BY <1>2 DEF create_and_announce_connection, Host, Announced
  <1>3. CASE status = "success" /\ h.connections[handle] = kEmpty
    <2> DEFINE c == [h.connections EXCEPT ![handle] = a]
               s == h.scheduled \cup {handle}
    <2>1. c \in [Handle -> Address \cup {kEmpty}] /\ s \in SUBSET Handle
      BY <1>3 DEF Host
    <2>2. k = [h EXCEPT !.scheduled = s, !.connections = c,
                        !.unanswered = h.unanswered \ {a}]
      BY <1>3 DEF create_and_announce_connection, Host
    <2> HIDE DEF c, s
    <2>3. k \in Host
      BY <2>1, <2>2 DEF Host
    <2>4. k.connections = c /\ k.scheduled = s /\ k.unanswered = h.unanswered \ {a}
          /\ k.aborted = h.aborted
          /\ k.outgoing_connecting_address = h.outgoing_connecting_address
          /\ k.incoming_connecting_address_set = h.incoming_connecting_address_set
      BY <2>2 DEF Host
    <2>5. /\ k.commands = h.commands /\ k.tasks = h.tasks /\ k.client = h.client
          /\ k.mistaken = h.mistaken
          /\ k.pending_outgoing_connections = h.pending_outgoing_connections
      BY <2>2 DEF Host
    <2> QED
      BY <1>3, <2>3, <2>4, <2>5 DEF Announced, c, s
  <1> QED
    BY <1>1, <1>2, <1>3

(* The attempt that on_connection_complete takes it for is over. *)
OursOver(g, h, status, a, handle) ==
  \E k \in Host :
    /\ g = dequeue_next_connection(k) /\ Announced(k, h, status, a, handle)
    /\ k.outgoing_connecting_address = kEmpty
    /\ k.incoming_connecting_address_set = h.incoming_connecting_address_set

TheirsOver(g, h, status, a, handle) ==
  \E k \in Host :
    /\ g = dequeue_next_connection(k) /\ Announced(k, h, status, a, handle)
    /\ k.outgoing_connecting_address = h.outgoing_connecting_address
    /\ k.incoming_connecting_address_set = h.incoming_connecting_address_set \ {a}

LEMMA CompleteFacts ==
  ASSUME NEW h \in Host, NEW status, NEW a \in Address, NEW handle,
         status = "success" => handle \in Handle,
         NEW g, g = on_connection_complete(h, status, a, handle)
  PROVE  /\ h.outgoing_connecting_address = a => OursOver(g, h, status, a, handle)
         /\ h.outgoing_connecting_address # a /\ a \in h.incoming_connecting_address_set =>
              TheirsOver(g, h, status, a, handle)
         /\ g \in Host /\ g.mistaken = h.mistaken /\ g.tasks = h.tasks
  <1>1. CASE h.outgoing_connecting_address = a
    <2> DEFINE m == [h EXCEPT !.outgoing_connecting_address = kEmpty]
               k == create_and_announce_connection(m, status, a, handle)
    <2>1. g = dequeue_next_connection(k)
      BY <1>1 DEF on_connection_complete
    <2>2. m \in Host /\ m.outgoing_connecting_address = kEmpty
          /\ m.incoming_connecting_address_set = h.incoming_connecting_address_set
      BY DEF Host
    <2>3. /\ m.commands = h.commands /\ m.tasks = h.tasks /\ m.client = h.client
          /\ m.mistaken = h.mistaken
          /\ m.pending_outgoing_connections = h.pending_outgoing_connections
          /\ m.connections = h.connections /\ m.scheduled = h.scheduled
          /\ m.aborted = h.aborted /\ m.unanswered = h.unanswered
      BY DEF Host
    <2> HIDE DEF m
    <2>4. /\ k \in Host /\ Announced(k, m, status, a, handle)
          /\ k.outgoing_connecting_address = m.outgoing_connecting_address
          /\ k.incoming_connecting_address_set = m.incoming_connecting_address_set
      BY <2>2, AnnounceFacts
    <2> HIDE DEF k
    <2>5. Announced(k, h, status, a, handle)
      BY <2>3, <2>4 DEF Announced
    <2>6. g \in Host /\ SameRest(g, k)
      BY <2>1, <2>4, DequeueFacts
    <2> QED
      BY <1>1, <2>1, <2>2, <2>4, <2>5, <2>6 DEF SameRest, Announced, OursOver
  <1>2. CASE h.outgoing_connecting_address # a /\ a \in h.incoming_connecting_address_set
    <2> DEFINE m == [h EXCEPT !.incoming_connecting_address_set =
                                h.incoming_connecting_address_set \ {a}]
               k == create_and_announce_connection(m, status, a, handle)
    <2>1. g = dequeue_next_connection(k)
      BY <1>2 DEF on_connection_complete
    <2>2. m \in Host /\ m.outgoing_connecting_address = h.outgoing_connecting_address
          /\ m.incoming_connecting_address_set = h.incoming_connecting_address_set \ {a}
      BY DEF Host
    <2>3. /\ m.commands = h.commands /\ m.tasks = h.tasks /\ m.client = h.client
          /\ m.mistaken = h.mistaken
          /\ m.pending_outgoing_connections = h.pending_outgoing_connections
          /\ m.connections = h.connections /\ m.scheduled = h.scheduled
          /\ m.aborted = h.aborted /\ m.unanswered = h.unanswered
      BY DEF Host
    <2> HIDE DEF m
    <2>4. /\ k \in Host /\ Announced(k, m, status, a, handle)
          /\ k.outgoing_connecting_address = m.outgoing_connecting_address
          /\ k.incoming_connecting_address_set = m.incoming_connecting_address_set
      BY <2>2, AnnounceFacts
    <2> HIDE DEF k
    <2>5. Announced(k, h, status, a, handle)
      BY <2>3, <2>4 DEF Announced
    <2>6. g \in Host /\ SameRest(g, k)
      BY <2>1, <2>4, DequeueFacts
    <2> QED
      BY <1>2, <2>1, <2>2, <2>4, <2>5, <2>6 DEF SameRest, Announced, TheirsOver
  <1>3. CASE h.outgoing_connecting_address # a /\ a \notin h.incoming_connecting_address_set
    <2>1. g = [h EXCEPT !.aborted = h.aborted \/ status = "unknown_connection"]
      BY <1>3 DEF on_connection_complete
    <2>2. (h.aborted \/ status = "unknown_connection") \in BOOLEAN
      OBVIOUS
    <2> QED
      BY <1>3, <2>1, <2>2 DEF Host
  <1> QED
    BY <1>1, <1>2, <1>3

Answered(g, h, a) ==
  /\ g \in Host
  /\ g.outgoing_connecting_address = h.outgoing_connecting_address
  /\ g.incoming_connecting_address_set = h.incoming_connecting_address_set \cup {a}
  /\ g.pending_outgoing_connections = h.pending_outgoing_connections
  /\ g.connections = h.connections /\ g.scheduled = h.scheduled
  /\ g.aborted = h.aborted /\ g.client = h.client /\ g.unanswered = h.unanswered
  /\ g.tasks = h.tasks /\ g.mistaken = h.mistaken
  /\ \E op : /\ op # "create" /\ <<op, a>> \in Command
             /\ g.commands = Append(h.commands, <<op, a>>)

LEMMA IncomingFacts ==
  ASSUME NEW h \in Host, NEW a \in Address, NEW g, g = on_incoming_connection(h, a)
  PROVE  Answered(g, h, a)
  <1> DEFINE m == [h EXCEPT !.incoming_connecting_address_set =
                              h.incoming_connecting_address_set \cup {a}]
  <1>1. /\ m \in Host
        /\ m.incoming_connecting_address_set = h.incoming_connecting_address_set \cup {a}
        /\ m.commands = h.commands
    BY DEF Host
  <1>2. /\ m.outgoing_connecting_address = h.outgoing_connecting_address
        /\ m.pending_outgoing_connections = h.pending_outgoing_connections
        /\ m.connections = h.connections /\ m.scheduled = h.scheduled
        /\ m.aborted = h.aborted /\ m.client = h.client /\ m.unanswered = h.unanswered
        /\ m.tasks = h.tasks /\ m.mistaken = h.mistaken
    BY DEF Host
  <1>3. PICK op : op \in {"reject", "accept"} /\ g = EnqueueCommand(m, op, a)
    BY DEF on_incoming_connection
  <1> HIDE DEF m
  <1>4. <<op, a>> \in Command /\ op # "create"
    BY <1>3 DEF Command
  <1>5. /\ g \in Host /\ g = [m EXCEPT !.commands = g.commands]
        /\ g.commands = Append(m.commands, <<op, a>>)
    <2>1. m \in Host
      BY <1>1
    <2>2. g = EnqueueCommand(m, op, a)
      BY <1>3
    <2>3. <<op, a>> \in Command
      BY <1>4
    <2> QED
      BY ONLY <2>1, <2>2, <2>3, EnqueueFacts
  <1>6. /\ g.outgoing_connecting_address = m.outgoing_connecting_address
        /\ g.incoming_connecting_address_set = m.incoming_connecting_address_set
        /\ g.pending_outgoing_connections = m.pending_outgoing_connections
        /\ g.connections = m.connections /\ g.scheduled = m.scheduled
        /\ g.aborted = m.aborted /\ g.client = m.client /\ g.unanswered = m.unanswered
        /\ g.tasks = m.tasks /\ g.mistaken = m.mistaken
    BY <1>1, <1>5 DEF Host
  <1> QED
    BY <1>1, <1>2, <1>4, <1>5, <1>6 DEF Answered

LEMMA CancelFacts ==
  ASSUME NEW h \in Host, NEW a \in Address, NEW g, g = cancel_connect(h, a)
  PROVE  \/ g = h
         \/ /\ g \in Host /\ SameRest(g, h)
            /\ g.outgoing_connecting_address = h.outgoing_connecting_address
            /\ g.pending_outgoing_connections = h.pending_outgoing_connections
            /\ g.unanswered = h.unanswered
            /\ <<"cancel", a>> \in Command
            /\ g.commands = Append(h.commands, <<"cancel", a>>)
  <1> SUFFICES ASSUME g # h
               PROVE  /\ g \in Host /\ SameRest(g, h)
                      /\ g.outgoing_connecting_address = h.outgoing_connecting_address
                      /\ g.pending_outgoing_connections = h.pending_outgoing_connections
                      /\ g.unanswered = h.unanswered
                      /\ <<"cancel", a>> \in Command
                      /\ g.commands = Append(h.commands, <<"cancel", a>>)
    OBVIOUS
  <1>1. g = EnqueueCommand(h, "cancel", a)
    BY DEF cancel_connect
  <1>2. <<"cancel", a>> \in Command
    BY DEF Command
  <1>3. /\ g \in Host /\ g = [h EXCEPT !.commands = g.commands]
        /\ g.commands = Append(h.commands, <<"cancel", a>>)
    BY ONLY <1>1, <1>2, EnqueueFacts
  <1> QED
    BY <1>2, <1>3 DEF Host, SameRest

Removed(g, h, n) ==
  /\ g \in Host /\ h.connections[n] # kEmpty
  /\ g.outgoing_connecting_address = h.outgoing_connecting_address
  /\ g.incoming_connecting_address_set = h.incoming_connecting_address_set
  /\ g.pending_outgoing_connections = h.pending_outgoing_connections
  /\ g.commands = h.commands /\ g.unanswered = h.unanswered
  /\ g.tasks = h.tasks /\ g.mistaken = h.mistaken
  /\ g.connections = [h.connections EXCEPT ![n] = kEmpty]
  /\ g.scheduled = h.scheduled \ {n}
  /\ g.client = Append(h.client, n)
  /\ n \in h.scheduled => g.aborted = h.aborted

LEMMA DisconnectFacts ==
  ASSUME NEW h \in Host, NEW n \in Handle, NEW g, g = on_classic_disconnect(h, n)
  PROVE  (h.connections[n] = kEmpty /\ g = h) \/ Removed(g, h, n)
  <1>1. CASE h.connections[n] = kEmpty
    BY <1>1 DEF on_classic_disconnect
  <1>2. CASE h.connections[n] # kEmpty
    <2> DEFINE c == [h.connections EXCEPT ![n] = kEmpty]
               s == h.scheduled \ {n}
               t == Append(h.client, n)
               b == h.aborted \/ n \notin h.scheduled
    <2>1. c \in [Handle -> Address \cup {kEmpty}] /\ s \in SUBSET Handle
      BY DEF Host
    <2>2. t \in Seq(Handle)
      <3>1. h.client \in Seq(Handle)
        BY DEF Host
      <3> QED
        BY <3>1
    <2>3. g = [h EXCEPT !.aborted = b, !.scheduled = s, !.client = t, !.connections = c]
      BY <1>2 DEF on_classic_disconnect, Host
    <2>4. b \in BOOLEAN /\ (n \in h.scheduled => b = h.aborted)
      <3>1. h.aborted \in BOOLEAN
        BY DEF Host
      <3> QED
        BY <3>1
    <2> HIDE DEF c, s, t, b
    <2>5. g \in Host
      BY <2>1, <2>2, <2>3, <2>4 DEF Host
    <2>6. g.aborted = b /\ g.scheduled = s /\ g.client = t /\ g.connections = c
      BY <2>3 DEF Host
    <2>7. /\ g.outgoing_connecting_address = h.outgoing_connecting_address
          /\ g.incoming_connecting_address_set = h.incoming_connecting_address_set
          /\ g.pending_outgoing_connections = h.pending_outgoing_connections
          /\ g.commands = h.commands /\ g.unanswered = h.unanswered
          /\ g.tasks = h.tasks /\ g.mistaken = h.mistaken
      BY <2>3 DEF Host
    <2>8. n \in h.scheduled => g.aborted = h.aborted
      BY <2>4, <2>6
    <2> QED
      BY <1>2, <2>5, <2>6, <2>7, <2>8 DEF Removed, c, s, t
  <1> QED
    BY <1>1, <1>2

(***************************************************************************)
(* Attempts, as classic_impl runs a task.                                  *)
(***************************************************************************)
LEMMA EventFacts ==
  ASSUME NEW e \in AnyEvent
  PROVE  /\ e.do # "disconnect" => e.a \in Address
         /\ EndsAttempt(e) => e.a \in Address
         /\ e.handle \in Handle <=> e.do = "disconnect" \/ (e.do = "complete" /\ e.status = "success")
         /\ e.do = "complete" => e.of \in {"page", "request"}
         /\ e.status = "unknown_connection" => e.of = "page"
  BY DEF AnyEvent, EventOf, WellFormed, EndsAttempt

LEMMA MoreEvents ==
  /\ Task \subseteq AnyEvent /\ HciEvent \subseteq AnyEvent
  /\ \A e \in HciEvent : e.do # "logged" => e \in Task
  BY DEF Task, HciEvent, AnyEvent, EventOf

(* One more command. *)
OneMore(L, K, c) ==
  /\ \A i \in Creates(K) : i \in Creates(L) /\ L[i] = K[i] /\ i # Len(K) + 1
  /\ \A i \in Creates(L) : i = Len(K) + 1 \/ (i \in Creates(K) /\ L[i] = K[i])
  /\ Len(K) + 1 \in Creates(L) <=> c[1] = "create"
  /\ L[Len(K) + 1] = c

LEMMA CreatesAppended ==
  ASSUME NEW K \in Seq(Command), NEW c \in Command
  PROVE  OneMore(Append(K, c), K, c)
  <1> DEFINE n == Len(K) + 1
             L == Append(K, c)
  <1>1. /\ n \in Nat \ {0} /\ DOMAIN K = 1..(n - 1) /\ DOMAIN L = 1..n /\ L[n] = c
        /\ \A i \in 1..(n - 1) : L[i] = K[i]
    BY Appended
  <1> HIDE DEF n, L
  <1>2. \A i \in DOMAIN K : i \in DOMAIN L /\ L[i] = K[i] /\ i # n
    BY <1>1
  <1>3. \A i \in DOMAIN L : i # n => i \in DOMAIN K
    BY <1>1
  <1>4. n \in DOMAIN L
    BY <1>1
  <1>5. /\ \A i \in Creates(K) : i \in Creates(L) /\ L[i] = K[i] /\ i # n
        /\ \A i \in Creates(L) : i = n \/ (i \in Creates(K) /\ L[i] = K[i])
        /\ n \in Creates(L) <=> c[1] = "create"
        /\ L[n] = c
    BY <1>1, <1>2, <1>3, <1>4 DEF Creates
  <1>6. OneMore(L, K, c)
    BY <1>5 DEF OneMore, n
  <1> QED
    BY <1>6 DEF L

LEMMA EnqueueAttempt ==
  ASSUME NEW K \in Seq(Command), NEW op, NEW a, <<op, a>> \in Command, op # "create",
         NEW q, NEW out, NEW page, AttemptOn(q, out, page, K)
  PROVE  AttemptOn(q, out, page, Append(K, <<op, a>>))
  <1> DEFINE L == Append(K, <<op, a>>)
  <1>1. OneMore(L, K, <<op, a>>)
    BY CreatesAppended
  <1> HIDE DEF L
  <1>2. Creates(L) = Creates(K) /\ \A i \in Creates(K) : L[i] = K[i]
    BY <1>1 DEF OneMore
  <1>3. AttemptOn(q, out, page, L)
    BY <1>2 DEF AttemptOn
  <1> QED
    BY <1>3 DEF L

(* No attempt, so none of its traces. *)
LEMMA Idle ==
  ASSUME NEW q \in Seq(AnyEvent), NEW page \in SUBSET Address, NEW K \in Seq(Command),
         AttemptOn(q, kEmpty, page, K)
  PROVE  Creates(K) = {} /\ page = {} /\ \A i \in DOMAIN q : ~EndsAttempt(q[i])
  <1>1. ASSUME NEW i \in Creates(K) PROVE FALSE
    <2>1. i \in DOMAIN K /\ K[i] \in Command
      BY DEF Creates
    <2>2. K[i][2] \in Address
      BY <2>1 DEF Command
    <2> QED
      BY <2>2, ClassicAssumption DEF AttemptOn
  <1>2. page = {}
    BY ClassicAssumption DEF AttemptOn
  <1>3. ASSUME NEW i \in DOMAIN q, EndsAttempt(q[i]) PROVE FALSE
    <2>1. q[i] \in AnyEvent
      OBVIOUS
    <2>2. q[i].a \in Address
      BY <1>3, <2>1, EventFacts
    <2> QED
      BY <1>3, <2>2, ClassicAssumption DEF AttemptOn
  <1> QED
    BY <1>1, <1>2, <1>3

LEMMA DequeueAttempt ==
  ASSUME NEW h \in Host, NEW g, g = dequeue_next_connection(h),
         NEW q \in Seq(AnyEvent), NEW page \in SUBSET Address,
         AttemptOn(q, h.outgoing_connecting_address, page, h.commands)
  PROVE  AttemptOn(q, g.outgoing_connecting_address, page, g.commands)
  <1>1. h.commands \in Seq(Command)
    BY DEF Host
  <1>2. CASE Blocked(h)
    BY <1>2, DequeueFacts
  <1>3. CASE ~Blocked(h)
    <2>1. h.outgoing_connecting_address = kEmpty
      BY <1>3 DEF Blocked
    <2>2. /\ Creates(h.commands) = {} /\ page = {}
          /\ \A i \in DOMAIN q : ~EndsAttempt(q[i])
      BY <1>1, <2>1, Idle
    <2>3. CASE Emptied(g, h)
      BY <2>1, <2>3 DEF Emptied
    <2>4. ASSUME NEW a \in Address, Begun(g, h, a)
          PROVE  AttemptOn(q, g.outgoing_connecting_address, page, g.commands)
      <3> DEFINE c == <<"create", a>>
                 n == Len(h.commands) + 1
      <3>1. c \in Command /\ c[1] = "create" /\ c[2] = a
        BY DEF Command
      <3>2. g.commands = Append(h.commands, c) /\ g.outgoing_connecting_address = a
        BY <2>4 DEF Begun
      <3> HIDE DEF c
      <3>3. /\ \A i \in Creates(g.commands) : i = n \/ i \in Creates(h.commands)
            /\ n \in Creates(g.commands) <=> c[1] = "create"
            /\ g.commands[n] = c
        <4>1. OneMore(g.commands, h.commands, c)
          BY <1>1, <3>1, <3>2, CreatesAppended
        <4> QED
          BY <4>1 DEF OneMore
      <3> HIDE DEF n
      <3>4. Creates(g.commands) = {n}
        BY <2>2, <3>1, <3>3
      <3> QED
        BY <2>2, <3>1, <3>2, <3>3, <3>4 DEF AttemptOn
    <2> QED
      BY <1>3, <2>3, <2>4, DequeueFacts
  <1> QED
    BY <1>2, <1>3

(* The end of our attempt is taken. *)
LEMMA AttemptOver ==
  ASSUME NEW q \in Seq(AnyEvent), q # <<>>, EndsAttempt(Head(q)),
         NEW out, NEW page, NEW K, AttemptOn(q, out, page, K)
  PROVE  Head(q).a = out /\ AttemptOn(Tail(q), kEmpty, page, K)
  <1> DEFINE p == Tail(q)
             n == Len(q)
  <1>1. /\ n \in Nat \ {0} /\ DOMAIN q = 1..n /\ DOMAIN p = 1..(n - 1) /\ Head(q) = q[1]
        /\ \A i \in 1..(n - 1) : p[i] = q[i + 1]
    BY HeadTail
  <1> HIDE DEF p, n
  <1>2. 1 \in DOMAIN q /\ EndsAttempt(q[1])
    BY <1>1
  <1>3. /\ q[1].a = out /\ page = {} /\ Creates(K) = {}
        /\ \A j \in DOMAIN q : EndsAttempt(q[j]) => j = 1
    BY <1>2 DEF AttemptOn
  <1>4. ASSUME NEW i \in DOMAIN p, EndsAttempt(p[i]) PROVE FALSE
    <2>1. i + 1 \in DOMAIN q /\ p[i] = q[i + 1] /\ i + 1 # 1
      BY <1>1
    <2> QED
      BY <1>3, <1>4, <2>1
  <1>5. AttemptOn(p, kEmpty, page, K)
    BY <1>3, <1>4 DEF AttemptOn
  <1> QED
    BY <1>1, <1>3, <1>5 DEF p

AttemptsOn(h, q, page, req) ==
  /\ AttemptOn(q, h.outgoing_connecting_address, page, h.commands)
  /\ \A a \in Address : RequestOn(q, a, h.incoming_connecting_address_set, req[a])

(* An event that does not touch requests. *)
LEMMA RequestsKept ==
  ASSUME NEW q \in Seq(AnyEvent), q # <<>>, NEW in, NEW req,
         \A a \in Address : RequestOn(q, a, in, req[a]),
         \A a \in Address : Neutral(Head(q), a)
  PROVE  \A a \in Address : RequestOn(Tail(q), a, in, req[a])
  <1> TAKE a \in Address
  <1>1. Neutral(Head(q), a) /\ RequestOn(q, a, in, req[a])
    OBVIOUS
  <1>2. ~Asks(Head(q), a) /\ ~EndsRequest(Head(q), a)
    BY <1>1 DEF Neutral
  <1> QED
    BY <1>1, <1>2, RequestTaken

LEMMA RunAttempts ==
  ASSUME NEW h \in Host, NEW q \in Seq(AnyEvent), q # <<>>, NEW e \in Task, e = Head(q),
         NEW page \in SUBSET Address, NEW req, AttemptsOn(h, q, page, req),
         ~Mistakes(h, e), NEW g, g = Execute(h, e)
  PROVE  AttemptsOn(g, Tail(q), page, req)
  <1> DEFINE p == Tail(q)
             out == h.outgoing_connecting_address
             in == h.incoming_connecting_address_set
  <1>0. p \in Seq(AnyEvent) /\ h.commands \in Seq(Command)
    BY DEF Host
  <1>1. AttemptOn(q, out, page, h.commands) /\ \A a \in Address : RequestOn(q, a, in, req[a])
    BY DEF AttemptsOn
  <1>2. e \in AnyEvent
    BY MoreEvents
  <1>3. ~EndsAttempt(e) => AttemptOn(p, out, page, h.commands)
    BY <1>1, AttemptTaken
  <1>4. (\A a \in Address : Neutral(e, a)) => \A a \in Address : RequestOn(p, a, in, req[a])
    BY <1>1, RequestsKept
  <1>5. e.do \notin {"request", "complete"} => \A a \in Address : Neutral(e, a)
    BY DEF Neutral, Asks, EndsRequest
  <1>6. e.do \notin {"create_status", "complete"} => ~EndsAttempt(e)
    BY DEF EndsAttempt
  <1> HIDE DEF p, out, in
  <1>7. CASE e.do = "create_connection"
    <2>1. e.a \in Address /\ g = create_connection(h, e.a)
      BY <1>2, <1>7, EventFacts DEF Execute
    <2>2. PICK k \in Host :
            /\ g = dequeue_next_connection(k) /\ SameRest(k, h)
            /\ k.outgoing_connecting_address = h.outgoing_connecting_address
            /\ k.commands = h.commands
      BY <2>1, CreateFacts
    <2>3. AttemptOn(p, k.outgoing_connecting_address, page, k.commands)
      BY <1>3, <1>6, <1>7, <2>2 DEF out
    <2>4. AttemptOn(p, g.outgoing_connecting_address, page, g.commands)
      BY <1>0, <2>2, <2>3, DequeueAttempt
    <2>5. g.incoming_connecting_address_set = in
      BY <2>2, DequeueFacts DEF SameRest, in
    <2> QED
      BY <1>4, <1>5, <1>7, <2>4, <2>5 DEF AttemptsOn, p
  <1>8. CASE \/ e.do = "cancel_connect"
             \/ e.do = "accept_status"
    <2>1. e.a \in Address /\ (g = cancel_connect(h, e.a) \/ g = h)
      BY <1>2, <1>8, EventFacts DEF Execute, on_accept_connection_status
    <2>2. AttemptOn(p, out, page, h.commands)
      BY <1>3, <1>6, <1>8
    <2>3. AttemptOn(p, g.outgoing_connecting_address, page, g.commands)
          /\ g.incoming_connecting_address_set = in
      <3>1. CASE g = h
        BY <2>2, <3>1 DEF out, in
      <3>2. CASE g # h
        <4>1. /\ g.outgoing_connecting_address = out
              /\ g.incoming_connecting_address_set = in
              /\ <<"cancel", e.a>> \in Command
              /\ g.commands = Append(h.commands, <<"cancel", e.a>>)
          BY <2>1, <3>2, CancelFacts DEF SameRest, out, in
        <4>2. AttemptOn(p, out, page, Append(h.commands, <<"cancel", e.a>>))
          BY <1>0, <2>2, <4>1, EnqueueAttempt
        <4> QED
          BY <4>1, <4>2
      <3> QED
        BY <3>1, <3>2
    <2> QED
      BY <1>4, <1>5, <1>8, <2>3 DEF AttemptsOn, p
  <1>9. CASE e.do = "create_status"
    <2>1. g = on_create_connection_status(h, e.status)
      BY <1>9 DEF Execute
    <2>2. CASE e.status = "success"
      <3>1. g = h /\ ~EndsAttempt(e)
        BY <1>9, <2>1, <2>2 DEF on_create_connection_status, EndsAttempt
      <3> QED
        BY <1>3, <1>4, <1>5, <1>9, <3>1 DEF AttemptsOn, p, out, in
    <2>3. CASE e.status # "success"
      <3>1. PICK k \in Host :
              /\ g = dequeue_next_connection(k) /\ SameRest(k, h)
              /\ k.outgoing_connecting_address = kEmpty
              /\ k.commands = h.commands
        BY <2>1, <2>3, FailFacts
      <3>2. EndsAttempt(e)
        BY <1>9, <2>3 DEF EndsAttempt
      <3>3. AttemptOn(p, k.outgoing_connecting_address, page, k.commands)
        BY <1>1, <3>1, <3>2, AttemptOver DEF p
      <3>4. AttemptOn(p, g.outgoing_connecting_address, page, g.commands)
        BY <1>0, <3>1, <3>3, DequeueAttempt
      <3>5. g.incoming_connecting_address_set = in
        BY <3>1, DequeueFacts DEF SameRest, in
      <3> QED
        BY <1>4, <1>5, <1>9, <3>4, <3>5 DEF AttemptsOn, p
    <2> QED
      BY <2>2, <2>3
  <1>10. CASE e.do = "request"
    <2>1. e.a \in Address /\ g = on_incoming_connection(h, e.a)
      BY <1>2, <1>10, EventFacts DEF Execute
    <2>2. PICK op :
            /\ op # "create" /\ <<op, e.a>> \in Command
            /\ g.commands = Append(h.commands, <<op, e.a>>)
            /\ g.outgoing_connecting_address = out
            /\ g.incoming_connecting_address_set = in \cup {e.a}
      <3>1. Answered(g, h, e.a)
        BY <2>1, IncomingFacts
      <3> QED
        BY <3>1 DEF Answered, out, in
    <2>3. AttemptOn(p, out, page, h.commands)
      BY <1>3, <1>6, <1>10
    <2>4. AttemptOn(p, out, page, Append(h.commands, <<op, e.a>>))
      BY <1>0, <2>2, <2>3, EnqueueAttempt
    <2>5. ASSUME NEW b \in Address PROVE RequestOn(p, b, in \cup {e.a}, req[b])
      <3> DEFINE now == in \cup {e.a}
      <3>1. /\ Asks(e, b) => b \in now
            /\ ~EndsRequest(e, b)
            /\ Neutral(e, b) => (b \in now <=> b \in in)
        BY <1>10 DEF Asks, EndsRequest, Neutral
      <3> HIDE DEF now
      <3>2. RequestOn(p, b, now, req[b])
        BY <1>1, <3>1, RequestTaken DEF p
      <3> QED
        BY <3>2 DEF now
    <2>6. AttemptOn(p, g.outgoing_connecting_address, page, g.commands)
      BY <2>2, <2>4
    <2>7. \A b \in Address : RequestOn(p, b, g.incoming_connecting_address_set, req[b])
      BY <2>2, <2>5
    <2> QED
      BY <2>6, <2>7 DEF AttemptsOn, p
  <1>11. CASE e.do = "complete" /\ e.of = "page"
    <2>1. /\ e.a \in Address /\ (e.status = "success" => e.handle \in Handle)
          /\ g = on_connection_complete(h, e.status, e.a, e.handle)
      BY <1>2, <1>11, EventFacts DEF Execute
    <2>2. EndsAttempt(e)
      BY <1>11 DEF EndsAttempt
    <2>3. e.a = out /\ AttemptOn(p, kEmpty, page, h.commands)
      BY <1>1, <2>2, AttemptOver DEF p
    <2>4. PICK k \in Host :
            /\ g = dequeue_next_connection(k) /\ Announced(k, h, e.status, e.a, e.handle)
            /\ k.outgoing_connecting_address = kEmpty
            /\ k.incoming_connecting_address_set = in
      <3>1. OursOver(g, h, e.status, e.a, e.handle)
        BY <2>1, <2>3, CompleteFacts DEF out
      <3> QED
        BY <3>1 DEF OursOver, in
    <2>5. AttemptOn(p, k.outgoing_connecting_address, page, k.commands)
      BY <2>3, <2>4 DEF Announced
    <2>6. AttemptOn(p, g.outgoing_connecting_address, page, g.commands)
      BY <1>0, <2>4, <2>5, DequeueAttempt
    <2>7. g.incoming_connecting_address_set = in
      BY <2>4, DequeueFacts DEF SameRest
    <2>8. \A a \in Address : Neutral(e, a)
      BY <1>11 DEF Neutral, Asks, EndsRequest
    <2> QED
      BY <1>4, <2>6, <2>7, <2>8 DEF AttemptsOn, p
  <1>12. CASE e.do = "complete" /\ e.of = "request"
    <2>1. /\ e.a \in Address /\ (e.status = "success" => e.handle \in Handle)
          /\ g = on_connection_complete(h, e.status, e.a, e.handle)
      BY <1>2, <1>12, EventFacts DEF Execute
    <2>2. ASSUME NEW b \in Address
          PROVE  /\ RequestOn(p, b, in \ {e.a}, req[b])
                 /\ b = e.a => b \in in
      <3> DEFINE now == in \ {e.a}
      <3>1. /\ ~Asks(e, b)
            /\ EndsRequest(e, b) => b \notin now
            /\ Neutral(e, b) => (b \in now <=> b \in in)
            /\ b = e.a => EndsRequest(e, b)
        BY <1>12 DEF Asks, EndsRequest, Neutral
      <3> HIDE DEF now
      <3>2. RequestOn(p, b, now, req[b]) /\ (EndsRequest(e, b) => b \in in)
        BY <1>1, <3>1, RequestTaken DEF p
      <3> QED
        BY <3>1, <3>2 DEF now
    <2>3. e.a \in in /\ out # e.a
      BY <1>12, <2>1, <2>2 DEF Mistakes, in, out
    <2>4. PICK k \in Host :
            /\ g = dequeue_next_connection(k) /\ Announced(k, h, e.status, e.a, e.handle)
            /\ k.outgoing_connecting_address = out
            /\ k.incoming_connecting_address_set = in \ {e.a}
      <3>1. TheirsOver(g, h, e.status, e.a, e.handle)
        BY <2>1, <2>3, CompleteFacts DEF out, in
      <3> QED
        BY <3>1 DEF TheirsOver, out, in
    <2>5. ~EndsAttempt(e)
      BY <1>12 DEF EndsAttempt
    <2>6. AttemptOn(p, k.outgoing_connecting_address, page, k.commands)
      BY <1>3, <2>4, <2>5 DEF Announced
    <2>7. AttemptOn(p, g.outgoing_connecting_address, page, g.commands)
      BY <1>0, <2>4, <2>6, DequeueAttempt
    <2>8. g.incoming_connecting_address_set = in \ {e.a}
      BY <2>4, DequeueFacts DEF SameRest
    <2>9. \A b \in Address : RequestOn(p, b, g.incoming_connecting_address_set, req[b])
      BY <2>2, <2>8
    <2> QED
      BY <2>7, <2>9 DEF AttemptsOn, p
  <1>13. CASE e.do = "disconnect"
    <2>1. e.handle \in Handle /\ g = on_classic_disconnect(h, e.handle)
      BY <1>2, <1>13, EventFacts DEF Execute
    <2>2. /\ g.outgoing_connecting_address = out
          /\ g.incoming_connecting_address_set = in
          /\ g.commands = h.commands
      <3>1. g = h \/ Removed(g, h, e.handle)
        BY <2>1, DisconnectFacts
      <3> QED
        BY <3>1 DEF Removed, out, in
    <2> QED
      BY <1>3, <1>4, <1>5, <1>6, <1>13, <2>2 DEF AttemptsOn, p
  <1>14. \/ e.do \in {"create_connection", "cancel_connect", "accept_status", "create_status",
                      "request", "disconnect"}
         \/ e.do = "complete" /\ e.of \in {"page", "request"}
    BY <1>2, EventFacts DEF Task, EventOf, Calls, Answers
  <1> QED
    BY <1>7, <1>8, <1>9, <1>10, <1>11, <1>12, <1>13, <1>14

(***************************************************************************)
(* Types.                                                                  *)
(***************************************************************************)
LEMMA ExecuteFacts ==
  ASSUME NEW h \in Host, NEW e \in Task, NEW g, g = Execute(h, e)
  PROVE  g \in Host /\ g.tasks = h.tasks /\ g.mistaken = h.mistaken
  <1>1. e \in AnyEvent
    BY MoreEvents
  <1>2. CASE e.do = "create_connection"
    <2>1. e.a \in Address /\ g = create_connection(h, e.a)
      BY <1>1, <1>2, EventFacts DEF Execute
    <2>2. PICK k \in Host : g = dequeue_next_connection(k) /\ SameRest(k, h)
      BY <2>1, CreateFacts
    <2>3. g \in Host /\ SameRest(g, k)
      BY <2>2, DequeueFacts
    <2> QED
      BY <2>2, <2>3 DEF SameRest
  <1>3. CASE e.do = "cancel_connect" \/ e.do = "accept_status"
    <2>1. e.a \in Address /\ (g = cancel_connect(h, e.a) \/ g = h)
      BY <1>1, <1>3, EventFacts DEF Execute, on_accept_connection_status
    <2>2. g = h \/ (g \in Host /\ SameRest(g, h))
      BY <2>1, CancelFacts
    <2> QED
      BY <2>2 DEF SameRest
  <1>4. CASE e.do = "create_status"
    <2>1. g = on_create_connection_status(h, e.status)
      BY <1>4 DEF Execute
    <2>2. CASE e.status = "success"
      BY <2>1, <2>2 DEF on_create_connection_status
    <2>3. CASE e.status # "success"
      <3>1. PICK k \in Host : g = dequeue_next_connection(k) /\ SameRest(k, h)
        BY <2>1, <2>3, FailFacts
      <3>2. g \in Host /\ SameRest(g, k)
        BY <3>1, DequeueFacts
      <3> QED
        BY <3>1, <3>2 DEF SameRest
    <2> QED
      BY <2>2, <2>3
  <1>5. CASE e.do = "request"
    <2>1. e.a \in Address /\ g = on_incoming_connection(h, e.a)
      BY <1>1, <1>5, EventFacts DEF Execute
    <2>2. Answered(g, h, e.a)
      BY <2>1, IncomingFacts
    <2> QED
      BY <2>2 DEF Answered
  <1>6. CASE e.do = "complete"
    <2>1. /\ e.a \in Address /\ (e.status = "success" => e.handle \in Handle)
          /\ g = on_connection_complete(h, e.status, e.a, e.handle)
      BY <1>1, <1>6, EventFacts DEF Execute
    <2> QED
      BY <2>1, CompleteFacts
  <1>7. CASE e.do = "disconnect"
    <2>1. e.handle \in Handle /\ g = on_classic_disconnect(h, e.handle)
      BY <1>1, <1>7, EventFacts DEF Execute
    <2>2. g = h \/ Removed(g, h, e.handle)
      BY <2>1, DisconnectFacts
    <2> QED
      BY <2>2 DEF Removed
  <1> QED
    BY <1>2, <1>3, <1>4, <1>5, <1>6, <1>7 DEF Task, EventOf, Calls, Answers

(* The events that calls, commands, attempts and links give rise to. *)
LEMMA NewEvents ==
  /\ \A do \in Calls, a \in Address : Event(do, a, NoHandle, "", "") \in Task
  /\ \A do \in Answers, a \in Address, s \in {"success", "failed"} :
       Event(do, a, NoHandle, s, "") \in HciEvent
  /\ \A a \in Address : /\ Event("logged", a, NoHandle, "", "") \in HciEvent
                        /\ Event("request", a, NoHandle, "", "") \in HciEvent
                        /\ Complete(a, NoHandle, "unknown_connection", "page") \in HciEvent
  /\ \A a \in Address, of \in {"page", "request"} :
       /\ Complete(a, NoHandle, "failed", of) \in HciEvent
       /\ \A n \in Handle : Complete(a, n, "success", of) \in HciEvent
  /\ \A n \in Handle : Event("disconnect", kEmpty, n, "", "") \in HciEvent
  <1>1. \A do \in Calls, a \in Address : Event(do, a, NoHandle, "", "") \in Task
    BY ClassicAssumption DEF Event, Task, EventOf, WellFormed, Calls, Answers, Status
  <1>2. \A do \in Answers, a \in Address, s \in {"success", "failed"} :
          Event(do, a, NoHandle, s, "") \in HciEvent
    BY ClassicAssumption DEF Event, HciEvent, EventOf, WellFormed, Answers, Status
  <1>3. \A a \in Address : /\ Event("logged", a, NoHandle, "", "") \in HciEvent
                           /\ Event("request", a, NoHandle, "", "") \in HciEvent
    BY ClassicAssumption DEF Event, HciEvent, EventOf, WellFormed, Status
  <1>4. \A a \in Address : Complete(a, NoHandle, "unknown_connection", "page") \in HciEvent
    BY ClassicAssumption DEF Complete, Event, HciEvent, EventOf, WellFormed, Status
  <1>5. \A a \in Address, of \in {"page", "request"} :
          Complete(a, NoHandle, "failed", of) \in HciEvent
    BY ClassicAssumption DEF Complete, Event, HciEvent, EventOf, WellFormed, Status
  <1>6. \A a \in Address, of \in {"page", "request"}, n \in Handle :
          Complete(a, n, "success", of) \in HciEvent
    BY DEF Complete, Event, HciEvent, EventOf, WellFormed, Status
  <1>7. \A n \in Handle : Event("disconnect", kEmpty, n, "", "") \in HciEvent
    BY DEF Event, HciEvent, EventOf, WellFormed, Status
  <1> QED
    BY <1>1, <1>2, <1>3, <1>4, <1>5, <1>6, <1>7

LEMMA PutOffEvent ==
  ASSUME NEW e \in HciEvent, NEW x, x = [e EXCEPT !.hop = 2]
  PROVE  x \in HciEvent /\ SameButHop(x, e)
  BY DEF HciEvent, EventOf, WellFormed, SameButHop

(* The task at the head is taken out of its queue. *)
LEMMA TaskTaken ==
  ASSUME TypeInv, host.tasks # <<>>, NEW b \in BOOLEAN,
         NEW h, h = [host EXCEPT !.tasks = Tail(host.tasks), !.mistaken = b]
  PROVE  /\ h \in Host /\ h.tasks = Tail(host.tasks) /\ h.mistaken = b
         /\ h.outgoing_connecting_address = host.outgoing_connecting_address
         /\ h.incoming_connecting_address_set = host.incoming_connecting_address_set
         /\ h.pending_outgoing_connections = host.pending_outgoing_connections
         /\ h.connections = host.connections /\ h.scheduled = host.scheduled
         /\ h.aborted = host.aborted /\ h.client = host.client
         /\ h.commands = host.commands /\ h.unanswered = host.unanswered
         /\ Head(host.tasks) \in Task
  <1>1. host \in Host /\ host.tasks \in Seq(Task)
    BY DEF TypeInv, Host
  <1>2. Tail(host.tasks) \in Seq(Task) /\ Head(host.tasks) \in Task
    BY <1>1
  <1>3. /\ h \in Host /\ h.tasks = Tail(host.tasks) /\ h.mistaken = b
    BY <1>1, <1>2 DEF Host
  <1>4. /\ h.outgoing_connecting_address = host.outgoing_connecting_address
        /\ h.incoming_connecting_address_set = host.incoming_connecting_address_set
        /\ h.pending_outgoing_connections = host.pending_outgoing_connections
        /\ h.connections = host.connections /\ h.scheduled = host.scheduled
        /\ h.aborted = host.aborted /\ h.client = host.client
        /\ h.commands = host.commands /\ h.unanswered = host.unanswered
    BY <1>1 DEF Host
  <1> QED
    BY <1>2, <1>3, <1>4

(* What RunTask does, with the host it hands to the task. *)
LEMMA RunTaskFacts ==
  ASSUME TypeInv, RunTask
  PROVE  \E h \in Host, e \in Task :
           /\ host.tasks # <<>> /\ e = Head(host.tasks)
           /\ h = [host EXCEPT !.tasks = Tail(host.tasks),
                               !.mistaken = host.mistaken \/ Mistakes(host, e)]
           /\ h.tasks = Tail(host.tasks) /\ h.mistaken = (host.mistaken \/ Mistakes(host, e))
           /\ host' = Execute(h, e) /\ host' \in Host
           /\ host'.tasks = Tail(host.tasks) /\ host'.mistaken = h.mistaken
           /\ hci' = hci /\ paging' = paging /\ requests' = requests /\ link' = link
  <1> DEFINE e == Head(host.tasks)
             b == host.mistaken \/ Mistakes(host, e)
             h == [host EXCEPT !.tasks = Tail(host.tasks), !.mistaken = b]
  <1>1. host.tasks # <<>> /\ host' = Execute(h, e)
    BY DEF RunTask
  <1>2. b \in BOOLEAN
    BY DEF TypeInv, Host
  <1>3. hci' = hci /\ paging' = paging /\ requests' = requests /\ link' = link
    BY DEF RunTask, controller
  <1>4. h \in Host /\ h.tasks = Tail(host.tasks) /\ h.mistaken = b /\ e \in Task
    <2> HIDE DEF b
    <2> QED
      BY <1>1, <1>2, TaskTaken
  <1>6. h = [host EXCEPT !.tasks = Tail(host.tasks),
                         !.mistaken = host.mistaken \/ Mistakes(host, e)]
    OBVIOUS
  <1> HIDE DEF h, e
  <1>5. host' \in Host /\ host'.tasks = h.tasks /\ host'.mistaken = h.mistaken
    BY <1>1, <1>4, ExecuteFacts
  <1> QED
    BY <1>1, <1>3, <1>4, <1>5, <1>6 DEF e

SameAttempt(g, h) ==
  /\ g.outgoing_connecting_address = h.outgoing_connecting_address
  /\ g.incoming_connecting_address_set = h.incoming_connecting_address_set
  /\ g.mistaken = h.mistaken

SameTable(g, h) ==
  /\ g.pending_outgoing_connections = h.pending_outgoing_connections
  /\ g.scheduled = h.scheduled /\ g.aborted = h.aborted /\ g.unanswered = h.unanswered

LEMMA Posted ==
  ASSUME NEW h \in Host, NEW x \in Task, NEW g, g = [h EXCEPT !.tasks = Append(h.tasks, x)]
  PROVE  /\ g \in Host /\ SameAttempt(g, h) /\ SameTable(g, h)
         /\ g.tasks = Append(h.tasks, x) /\ g.connections = h.connections
         /\ g.client = h.client /\ g.commands = h.commands
  <1>1. Append(h.tasks, x) \in Seq(Task)
    <2>1. h.tasks \in Seq(Task)
      BY DEF Host
    <2> QED
      BY <2>1
  <1> QED
    BY <1>1 DEF Host, SameAttempt, SameTable

LEMMA Sent ==
  ASSUME NEW h \in Host, h.commands # <<>>, NEW g, g = [h EXCEPT !.commands = Tail(h.commands)]
  PROVE  /\ g \in Host /\ SameAttempt(g, h) /\ SameTable(g, h)
         /\ g.tasks = h.tasks /\ g.connections = h.connections
         /\ g.client = h.client /\ g.commands = Tail(h.commands)
         /\ Head(h.commands) \in Command /\ h.commands \in Seq(Command)
  <1>1. h.commands \in Seq(Command)
    BY DEF Host
  <1>2. Tail(h.commands) \in Seq(Command) /\ Head(h.commands) \in Command
    BY <1>1
  <1> QED
    BY <1>1, <1>2 DEF Host, SameAttempt, SameTable

LEMMA Invalidated ==
  ASSUME NEW h \in Host, h.client # <<>>, NEW n, n = Head(h.client),
         NEW g, g = invalidate([h EXCEPT !.client = Tail(h.client)], n)
  PROVE  /\ g \in Host /\ SameAttempt(g, h) /\ SameTable(g, h)
         /\ g.tasks = h.tasks /\ g.commands = h.commands
         /\ g.connections = [h.connections EXCEPT ![n] = kEmpty]
         /\ g.client = Tail(h.client) /\ n \in Handle /\ h.client \in Seq(Handle)
  <1>1. h.client \in Seq(Handle)
    BY DEF Host
  <1>2. Tail(h.client) \in Seq(Handle) /\ n \in Handle
    BY <1>1
  <1> DEFINE c == [h.connections EXCEPT ![n] = kEmpty]
  <1>3. c \in [Handle -> Address \cup {kEmpty}]
    BY DEF Host
  <1>4. g = [h EXCEPT !.client = Tail(h.client), !.connections = c]
    BY DEF invalidate, Host
  <1> HIDE DEF c
  <1>5. g \in Host /\ g.connections = c /\ g.client = Tail(h.client)
    BY <1>2, <1>3, <1>4 DEF Host
  <1>6. SameAttempt(g, h) /\ SameTable(g, h) /\ g.tasks = h.tasks /\ g.commands = h.commands
    BY <1>4 DEF Host, SameAttempt, SameTable
  <1> QED
    BY <1>1, <1>2, <1>5, <1>6 DEF c

LEMMA TypesInit == Init => TypeInv
  <1> SUFFICES ASSUME Init PROVE TypeInv
    OBVIOUS
  <1>1. <<>> \in Seq(Address) /\ <<>> \in Seq(Task) /\ <<>> \in Seq(Handle)
        /\ <<>> \in Seq(Command) /\ <<>> \in Seq(HciEvent)
    OBVIOUS
  <1> DEFINE c == [n \in Handle |-> kEmpty]
  <1>2. c \in [Handle -> Address \cup {kEmpty}]
    OBVIOUS
  <1>3. requests \in [Address -> {"none", "asked", "accepted"}]
        /\ link \in [Handle -> Address \cup {kEmpty}] /\ paging \in SUBSET Address
    BY DEF Init
  <1>4. host \in Host
    <2>1. host = [outgoing_connecting_address |-> kEmpty,
                  incoming_connecting_address_set |-> {},
                  pending_outgoing_connections |-> <<>>,
                  connections |-> c, scheduled |-> {}, aborted |-> FALSE,
                  tasks |-> <<>>, client |-> <<>>, commands |-> <<>>,
                  unanswered |-> {}, mistaken |-> FALSE]
      BY DEF Init
    <2> HIDE DEF c
    <2> QED
      BY <1>1, <1>2, <2>1 DEF Host
  <1> QED
    BY <1>1, <1>3, <1>4 DEF TypeInv, Init

(* The command at the head, and the controller's answers. *)
LEMMA SentFacts ==
  ASSUME TypeInv, NEW op, CanExecute(op)
  PROVE  /\ host' \in Host /\ SameAttempt(host', host) /\ SameTable(host', host)
         /\ host'.tasks = host.tasks /\ host'.connections = host.connections
         /\ host'.client = host.client /\ host'.commands = Tail(host.commands)
         /\ host.commands \in Seq(Command) /\ host.commands # <<>>
         /\ command[1] = op /\ command[2] \in Address /\ command = Head(host.commands)
  <1>1. host \in Host /\ host.commands # <<>> /\ command[1] = op
        /\ host' = [host EXCEPT !.commands = Tail(host.commands)]
    BY DEF TypeInv, CanExecute
  <1>2. /\ host' \in Host /\ SameAttempt(host', host) /\ SameTable(host', host)
        /\ host'.tasks = host.tasks /\ host'.connections = host.connections
        /\ host'.client = host.client /\ host'.commands = Tail(host.commands)
        /\ Head(host.commands) \in Command /\ host.commands \in Seq(Command)
    BY <1>1, Sent
  <1> QED
    BY <1>1, <1>2 DEF command, Command

LEMMA TypesStep == TypeInv /\ [Next]_vars => TypeInv'
  <1> SUFFICES ASSUME TypeInv, [Next]_vars PROVE TypeInv'
    OBVIOUS
  <1>0. /\ host \in Host /\ hci \in Seq(HciEvent) /\ paging \in SUBSET Address
        /\ requests \in [Address -> {"none", "asked", "accepted"}]
        /\ link \in [Handle -> Address \cup {kEmpty}]
    BY DEF TypeInv
  <1>1. \A x \in HciEvent : Append(hci, x) \in Seq(HciEvent)
    BY <1>0
  <1>2. \A x, y \in HciEvent : Append(Append(hci, x), y) \in Seq(HciEvent)
    BY <1>0
  <1>3. CASE RunTask
    <2>1. host' \in Host /\ hci' = hci /\ paging' = paging /\ requests' = requests /\ link' = link
      BY <1>3, RunTaskFacts
    <2> QED
      BY <1>0, <2>1 DEF TypeInv
  <1>4. CASE RunHci
    <2> DEFINE e == Head(hci)
    <2>1. hci # <<>> /\ paging' = paging /\ requests' = requests /\ link' = link
      BY <1>4 DEF RunHci, controller
    <2>2. e \in HciEvent /\ Tail(hci) \in Seq(HciEvent)
      BY <1>0, <2>1
    <2>3. \/ hci' = Append(Tail(hci), [e EXCEPT !.hop = 2]) /\ host' = host
          \/ hci' = Tail(hci) /\ host' = host
          \/ /\ hci' = Tail(hci) /\ e.do # "logged"
             /\ host' = [host EXCEPT !.tasks = Append(host.tasks, e)]
      BY <1>4 DEF RunHci
    <2> HIDE DEF e
    <2>4. [e EXCEPT !.hop = 2] \in HciEvent
      BY <2>2, PutOffEvent
    <2>5. hci' \in Seq(HciEvent)
      BY <2>2, <2>3, <2>4
    <2>6. host' \in Host
      BY <1>0, <2>2, <2>3, MoreEvents, Posted
    <2> QED
      BY <1>0, <2>1, <2>5, <2>6 DEF TypeInv
  <1>5. CASE RunClient
    <2>1. /\ hci' = hci /\ paging' = paging /\ requests' = requests /\ link' = link
          /\ host.client # <<>>
          /\ host' = invalidate([host EXCEPT !.client = Tail(host.client)], Head(host.client))
      BY <1>5 DEF RunClient, controller
    <2>2. host' \in Host
      BY <1>0, <2>1, Invalidated
    <2> QED
      BY <1>0, <2>1, <2>2 DEF TypeInv
  <1>6. ASSUME NEW ok \in BOOLEAN, ExecuteCreate(ok) PROVE TypeInv'
    <2>1. CanExecute("create") /\ requests' = requests /\ link' = link
      BY <1>6 DEF ExecuteCreate
    <2>2. host' \in Host /\ command[2] \in Address
      BY <2>1, SentFacts
    <2>3. PICK s \in {"success", "failed"} :
            hci' = Append(hci, Event("create_status", command[2], NoHandle, s, ""))
      BY <1>6 DEF ExecuteCreate
    <2>4. hci' \in Seq(HciEvent)
      <3>1. Event("create_status", command[2], NoHandle, s, "") \in HciEvent
        BY <2>2, NewEvents DEF Answers
      <3> QED
        BY <1>1, <2>3, <3>1
    <2>5. paging' \in SUBSET Address
      BY <1>0, <1>6, <2>2 DEF ExecuteCreate
    <2> QED
      BY <1>0, <2>1, <2>2, <2>4, <2>5 DEF TypeInv
  <1>7. CASE ExecuteAccept
    <2>1. CanExecute("accept") /\ paging' = paging /\ link' = link
      BY <1>7 DEF ExecuteAccept
    <2>2. host' \in Host /\ command[2] \in Address
      BY <2>1, SentFacts
    <2>3. PICK s \in {"success", "failed"} :
            hci' = Append(hci, Event("accept_status", command[2], NoHandle, s, ""))
      BY <1>7 DEF ExecuteAccept
    <2>4. hci' \in Seq(HciEvent)
      <3>1. Event("accept_status", command[2], NoHandle, s, "") \in HciEvent
        BY <2>2, NewEvents DEF Answers
      <3> QED
        BY <1>1, <2>3, <3>1
    <2>5. requests' \in [Address -> {"none", "asked", "accepted"}]
      BY <1>0, <1>7, <2>2 DEF ExecuteAccept
    <2> QED
      BY <1>0, <2>1, <2>2, <2>4, <2>5 DEF TypeInv
  <1>8. CASE ExecuteReject
    <2>1. CanExecute("reject") /\ paging' = paging /\ link' = link
      BY <1>8 DEF ExecuteReject
    <2>2. host' \in Host /\ command[2] \in Address
      BY <2>1, SentFacts
    <2> DEFINE x == Event("logged", command[2], NoHandle, "", "")
               y == Complete(command[2], NoHandle, "failed", "request")
    <2>3. x \in HciEvent /\ y \in HciEvent
      BY <2>2, NewEvents
    <2>4. hci' = Append(Append(hci, x), y) \/ hci' = Append(hci, x)
      BY <1>8 DEF ExecuteReject
    <2>5. requests' \in [Address -> {"none", "asked", "accepted"}]
      BY <1>0, <1>8, <2>2 DEF ExecuteReject
    <2> HIDE DEF x, y
    <2>6. hci' \in Seq(HciEvent)
      BY <1>1, <1>2, <2>3, <2>4
    <2> QED
      BY <1>0, <2>1, <2>2, <2>5, <2>6 DEF TypeInv
  <1>9. CASE ExecuteCancel
    <2>1. CanExecute("cancel") /\ requests' = requests /\ link' = link
      BY <1>9 DEF ExecuteCancel
    <2>2. host' \in Host /\ command[2] \in Address
      BY <2>1, SentFacts
    <2> DEFINE x == Event("logged", command[2], NoHandle, "", "")
               y == Complete(command[2], NoHandle, "unknown_connection", "page")
    <2>3. x \in HciEvent /\ y \in HciEvent
      BY <2>2, NewEvents
    <2>4. hci' = Append(Append(hci, x), y) \/ hci' = Append(hci, x)
      BY <1>9 DEF ExecuteCancel
    <2>5. paging' \in SUBSET Address
      BY <1>0, <1>9 DEF ExecuteCancel
    <2> HIDE DEF x, y
    <2>6. hci' \in Seq(HciEvent)
      BY <1>1, <1>2, <2>3, <2>4
    <2> QED
      BY <1>0, <2>1, <2>2, <2>5, <2>6 DEF TypeInv
  <1>10. ASSUME NEW a \in Address, CreateConnection(a) \/ CancelConnect(a) PROVE TypeInv'
    <2>1. PICK do \in Calls : Call(do, a)
      BY <1>10 DEF CreateConnection, CancelConnect, Calls
    <2> DEFINE x == Event(do, a, NoHandle, "", "")
    <2>2. x \in Task
      BY NewEvents
    <2>3. /\ hci' = hci /\ paging' = paging /\ requests' = requests /\ link' = link
          /\ host' = [host EXCEPT !.tasks = Append(host.tasks, x)]
      BY <2>1 DEF Call, controller
    <2> HIDE DEF x
    <2>4. host' \in Host
      BY <1>0, <2>2, <2>3, Posted
    <2> QED
      BY <1>0, <2>3, <2>4 DEF TypeInv
  <1>11. ASSUME NEW a \in Address, NEW of \in {"page", "request"}, Ends(a, of)
         PROVE  host' = host /\ hci' \in Seq(HciEvent) /\ link' \in [Handle -> Address \cup {kEmpty}]
    <2>1. host' = host
      BY <1>11 DEF Ends
    <2>2. CASE hci' = Append(hci, Complete(a, NoHandle, "failed", of)) /\ UNCHANGED link
      BY <1>0, <1>1, <2>1, <2>2, NewEvents
    <2>3. ASSUME NEW n \in FreeHandles, link' = [link EXCEPT ![n] = a],
                 hci' = Append(hci, Complete(a, n, "success", of))
          PROVE  hci' \in Seq(HciEvent) /\ link' \in [Handle -> Address \cup {kEmpty}]
      <3>1. n \in Handle
        BY DEF FreeHandles
      <3>2. Complete(a, n, "success", of) \in HciEvent
        BY <3>1, NewEvents
      <3> QED
        BY <1>0, <1>1, <2>3, <3>1, <3>2
    <2> QED
      BY <1>11, <2>1, <2>2, <2>3 DEF Ends
  <1>12. ASSUME NEW a \in Address, PageEnds(a) \/ AcceptEnds(a) PROVE TypeInv'
    <2>1. PICK of \in {"page", "request"} : Ends(a, of)
      BY <1>12 DEF PageEnds, AcceptEnds
    <2>2. paging' \in SUBSET Address /\ requests' \in [Address -> {"none", "asked", "accepted"}]
      BY <1>0, <1>12 DEF PageEnds, AcceptEnds
    <2> QED
      BY <1>0, <1>11, <2>1, <2>2 DEF TypeInv
  <1>13. ASSUME NEW a \in Address, PeerRequests(a) \/ RequestExpires(a) PROVE TypeInv'
    <2>1. host' = host /\ paging' = paging /\ link' = link
      BY <1>13 DEF PeerRequests, RequestExpires
    <2>2. requests' \in [Address -> {"none", "asked", "accepted"}]
      BY <1>0, <1>13 DEF PeerRequests, RequestExpires
    <2>3. PICK x \in HciEvent : hci' = Append(hci, x)
      BY <1>13, NewEvents DEF PeerRequests, RequestExpires
    <2> QED
      BY <1>0, <1>1, <2>1, <2>2, <2>3 DEF TypeInv
  <1>14. ASSUME NEW n \in Handle, LinkEnds(n) PROVE TypeInv'
    <2>1. host' = host /\ paging' = paging /\ requests' = requests
      BY <1>14 DEF LinkEnds
    <2>2. link' \in [Handle -> Address \cup {kEmpty}]
      BY <1>0, <1>14 DEF LinkEnds
    <2>3. PICK x \in HciEvent : hci' = Append(hci, x)
      BY <1>14, NewEvents DEF LinkEnds
    <2> QED
      BY <1>0, <1>1, <2>1, <2>2, <2>3 DEF TypeInv
  <1>15. CASE UNCHANGED vars
    BY <1>0, <1>15 DEF TypeInv, vars, controller
  <1> QED
    BY <1>3, <1>4, <1>5, <1>6, <1>7, <1>8, <1>9, <1>10, <1>12, <1>13, <1>14, <1>15 DEF Next

(***************************************************************************)
(* Attempts and requests.                                                  *)
(***************************************************************************)
LEMMA SentAttempt ==
  ASSUME NEW K \in Seq(Command), K # <<>>, NEW q, NEW out, NEW page, AttemptOn(q, out, page, K)
  PROVE  /\ Head(K)[1] # "create" => AttemptOn(q, out, page, Tail(K))
         /\ Head(K)[1] = "create" =>
              /\ Head(K)[2] = out /\ page = {} /\ Creates(Tail(K)) = {}
              /\ \A i \in DOMAIN q : ~EndsAttempt(q[i])
  <1> DEFINE L == Tail(K)
             n == Len(K)
  <1>1. /\ n \in Nat \ {0} /\ DOMAIN K = 1..n /\ DOMAIN L = 1..(n - 1) /\ Head(K) = K[1]
        /\ \A i \in 1..(n - 1) : L[i] = K[i + 1]
    BY HeadTail
  <1> HIDE DEF L, n
  <1>2. \A i \in Creates(L) : /\ i \in Nat /\ i + 1 \in Creates(K) /\ L[i] = K[i + 1]
                              /\ i + 1 # 1
    BY <1>1 DEF Creates
  <1>3. ASSUME Head(K)[1] # "create" PROVE AttemptOn(q, out, page, L)
    <2>1. ASSUME NEW i \in Creates(K) PROVE i - 1 \in Creates(L)
      <3>1. i \in 1..n /\ K[i][1] = "create" /\ i # 1
        BY <1>1, <1>3 DEF Creates
      <3> DEFINE j == i - 1
      <3>2. j \in 1..(n - 1) /\ i = j + 1
        BY <1>1, <3>1
      <3> HIDE DEF j
      <3>3. j \in Creates(L)
        BY <1>1, <3>1, <3>2 DEF Creates
      <3> QED
        BY <3>3 DEF j
    <2>2. Creates(L) = {} <=> Creates(K) = {}
      BY <1>2, <2>1
    <2>3. ASSUME NEW i \in Creates(L)
          PROVE  L[i][2] = out /\ page = {} /\ \A j \in Creates(L) : j = i
      <3>1. /\ i + 1 \in Creates(K) /\ L[i] = K[i + 1] /\ i \in Nat
            /\ \A j \in Creates(L) : j + 1 \in Creates(K) /\ j \in Nat
        BY <1>2
      <3>2. K[i + 1][2] = out /\ page = {} /\ \A j \in Creates(K) : j = i + 1
        BY <3>1 DEF AttemptOn
      <3>3. ASSUME NEW j \in Creates(L) PROVE j = i
        <4>1. j + 1 = i + 1 /\ j \in Nat
          BY <3>1, <3>2
        <4> QED
          BY <3>1, <4>1
      <3> QED
        BY <3>1, <3>2, <3>3
    <2> QED
      BY <2>2, <2>3 DEF AttemptOn
  <1>4. ASSUME Head(K)[1] = "create"
        PROVE  /\ Head(K)[2] = out /\ page = {} /\ Creates(L) = {}
               /\ \A i \in DOMAIN q : ~EndsAttempt(q[i])
    <2>1. 1 \in Creates(K)
      BY <1>1, <1>4 DEF Creates
    <2>2. K[1][2] = out /\ page = {} /\ \A j \in Creates(K) : j = 1
      BY <2>1 DEF AttemptOn
    <2>3. Creates(L) = {}
      BY <1>2, <2>2
    <2>4. \A i \in DOMAIN q : ~EndsAttempt(q[i])
      BY <2>1 DEF AttemptOn
    <2> QED
      BY <1>1, <2>2, <2>3, <2>4
  <1> QED
    BY <1>3, <1>4 DEF L

(* The end of our attempt, known to the controller only until now. *)
LEMMA AttemptEnds ==
  ASSUME NEW q \in Seq(AnyEvent), NEW x \in AnyEvent, EndsAttempt(x), NEW K, Creates(K) = {},
         \A i \in DOMAIN q : ~EndsAttempt(q[i])
  PROVE  AttemptOn(Append(q, x), x.a, {}, K)
  <1> DEFINE p == Append(q, x)
             n == Len(q) + 1
  <1>1. /\ n \in Nat \ {0} /\ n \in DOMAIN p /\ DOMAIN p = 1..n /\ p[n] = x
        /\ \A i \in 1..n : i # n => i \in DOMAIN q /\ p[i] = q[i]
    BY Appended
  <1> HIDE DEF p, n
  <1>2. \A i \in DOMAIN p : EndsAttempt(p[i]) <=> i = n
    BY <1>1
  <1>3. AttemptOn(p, x.a, {}, K)
    BY <1>1, <1>2 DEF AttemptOn
  <1> QED
    BY <1>3 DEF p

LEMMA PageOver ==
  ASSUME NEW q, NEW out, NEW page, NEW K, AttemptOn(q, out, page, K), NEW a \in page
  PROVE  /\ a = out /\ page \ {a} = {} /\ Creates(K) = {}
         /\ \A i \in DOMAIN q : ~EndsAttempt(q[i])
  BY DEF AttemptOn

(* An event of the controller that is not about attempts or requests. *)
LEMMA NeutralArrives ==
  ASSUME NEW h, NEW q \in Seq(AnyEvent), NEW x \in AnyEvent, NEW page, NEW req,
         AttemptsOn(h, q, page, req), ~EndsAttempt(x), \A a \in Address : Neutral(x, a)
  PROVE  AttemptsOn(h, Append(q, x), page, req)
  <1>1. AttemptOn(Append(q, x), h.outgoing_connecting_address, page, h.commands)
    BY AttemptAppended DEF AttemptsOn
  <1>2. ASSUME NEW a \in Address
        PROVE  RequestOn(Append(q, x), a, h.incoming_connecting_address_set, req[a])
    <2>1. Neutral(x, a) /\ RequestOn(q, a, h.incoming_connecting_address_set, req[a])
      BY DEF AttemptsOn
    <2>2. req[a] = "none" <=> req[a] = "none"
      OBVIOUS
    <2> QED
      BY <2>1, <2>2, RequestAppended
  <1> QED
    BY <1>1, <1>2 DEF AttemptsOn

(* One that is about a request. *)
LEMMA RequestArrives ==
  ASSUME NEW q \in Seq(AnyEvent), NEW x \in AnyEvent, NEW in, NEW req, NEW a \in Address, NEW s,
         req \in [Address -> {"none", "asked", "accepted"}],
         s \in {"none", "asked", "accepted"},
         \A b \in Address : RequestOn(q, b, in, req[b]),
         \A b \in Address : b # a => Neutral(x, b),
         \/ Neutral(x, a) /\ (req[a] = "none" <=> s = "none")
         \/ Asks(x, a) /\ req[a] = "none" /\ s # "none"
         \/ EndsRequest(x, a) /\ req[a] # "none" /\ s = "none"
  PROVE  \A b \in Address : RequestOn(Append(q, x), b, in, [req EXCEPT ![a] = s][b])
  <1> TAKE b \in Address
  <1> DEFINE then == [req EXCEPT ![a] = s][b]
  <1>1. RequestOn(q, b, in, req[b])
    OBVIOUS
  <1>2. /\ b = a => then = s
        /\ b # a => then = req[b] /\ Neutral(x, b)
    OBVIOUS
  <1> HIDE DEF then
  <1>3. \/ Neutral(x, b) /\ (req[b] = "none" <=> then = "none")
        \/ Asks(x, b) /\ req[b] = "none" /\ then # "none"
        \/ EndsRequest(x, b) /\ req[b] # "none" /\ then = "none"
    <2>1. CASE b = a
      BY <1>2, <2>1
    <2>2. CASE b # a
      BY <1>2, <2>2
    <2> QED
      BY <2>1, <2>2
  <1>4. RequestOn(Append(q, x), b, in, then)
    BY <1>1, <1>3, RequestAppended
  <1> QED
    BY <1>4 DEF then

LEMMA SameAttemptsOn ==
  ASSUME NEW g, NEW h, SameAttempt(g, h), g.commands = h.commands,
         NEW q, NEW page, NEW req, AttemptsOn(h, q, page, req)
  PROVE  AttemptsOn(g, q, page, req)
  BY DEF SameAttempt, AttemptsOn

(* The kinds of events. *)
LEMMA Kinds ==
  /\ \A do \in Calls \cup {"logged", "accept_status", "disconnect"} : \A a, n, s, of :
       /\ ~EndsAttempt(Event(do, a, n, s, of))
       /\ \A b : Neutral(Event(do, a, n, s, of), b)
  /\ \A a, n, s, of, b : Neutral(Event("create_status", a, n, s, of), b)
  /\ \A a, n, of : ~EndsAttempt(Event("create_status", a, n, "success", of))
  /\ \A a, n, of : EndsAttempt(Event("create_status", a, n, "failed", of))
  /\ \A a, n, s, of : /\ ~EndsAttempt(Event("request", a, n, s, of))
                      /\ Asks(Event("request", a, n, s, of), a)
                      /\ \A b : b # a => Neutral(Event("request", a, n, s, of), b)
  /\ \A a, n, s : /\ EndsAttempt(Complete(a, n, s, "page"))
                  /\ \A b : Neutral(Complete(a, n, s, "page"), b)
  /\ \A a, n, s : /\ ~EndsAttempt(Complete(a, n, s, "request"))
                  /\ EndsRequest(Complete(a, n, s, "request"), a)
                  /\ \A b : b # a => Neutral(Complete(a, n, s, "request"), b)
  /\ \A do, a, n, s, of : /\ Event(do, a, n, s, of).a = a
                          /\ Event(do, a, n, s, of).do = do
                          /\ Event(do, a, n, s, of).handle = n
  BY DEF Complete, Event, EndsAttempt, Neutral, Asks, EndsRequest, Calls

LEMMA QueueTypes ==
  ASSUME TypeInv
  PROVE  /\ host.tasks \in Seq(AnyEvent) /\ hci \in Seq(AnyEvent) /\ OnTheWay \in Seq(AnyEvent)
         /\ host \in Host /\ host.commands \in Seq(Command)
         /\ \A x \in HciEvent : /\ x \in AnyEvent
                                /\ host.tasks \o Append(hci, x) = Append(OnTheWay, x)
  <1>1. /\ host \in Host /\ host.tasks \in Seq(Task) /\ hci \in Seq(HciEvent)
        /\ host.commands \in Seq(Command)
    BY DEF TypeInv, Host
  <1>2. Task \subseteq AnyEvent /\ HciEvent \subseteq AnyEvent
    BY MoreEvents
  <1>3. host.tasks \in Seq(AnyEvent)
    BY <1>1, <1>2
  <1>4. hci \in Seq(AnyEvent)
    BY <1>1, <1>2
  <1>5. OnTheWay \in Seq(AnyEvent)
    BY <1>3, <1>4 DEF OnTheWay
  <1>6. \A x \in HciEvent : host.tasks \o Append(hci, x) = Append(OnTheWay, x)
    <2> TAKE x \in HciEvent
    <2>1. x \in AnyEvent
      BY <1>2
    <2>2. PICK t \in Seq(AnyEvent), s \in Seq(AnyEvent) : t = host.tasks /\ s = hci
      BY <1>3, <1>4
    <2>3. t \o Append(s, x) = Append(t \o s, x)
      BY ONLY t \in Seq(AnyEvent), s \in Seq(AnyEvent), <2>1, Arrived
    <2> QED
      BY <2>2, <2>3 DEF OnTheWay
  <1> QED
    BY <1>1, <1>2, <1>3, <1>4, <1>5, <1>6

Attempting == AttemptsOn(host, OnTheWay, paging, requests)

LEMMA AttemptsMeaning == AttemptsInv <=> (~host.mistaken => Attempting)
  BY DEF AttemptsInv, AttemptInv, RequestInv, Attempting, AttemptsOn

LEMMA RunTaskAttempts ==
  ASSUME TypeInv, AttemptsInv, RunTask, ~host'.mistaken PROVE Attempting'
  <1>1. PICK h \in Host, e \in Task :
          /\ host.tasks # <<>> /\ e = Head(host.tasks)
          /\ h = [host EXCEPT !.tasks = Tail(host.tasks),
                              !.mistaken = host.mistaken \/ Mistakes(host, e)]
          /\ h.tasks = Tail(host.tasks) /\ h.mistaken = (host.mistaken \/ Mistakes(host, e))
          /\ host' = Execute(h, e) /\ host' \in Host
          /\ host'.tasks = Tail(host.tasks) /\ host'.mistaken = h.mistaken
          /\ hci' = hci /\ paging' = paging /\ requests' = requests /\ link' = link
    BY RunTaskFacts
  <1>2. ~host.mistaken /\ ~Mistakes(host, e)
    BY <1>1
  <1>3. /\ h.outgoing_connecting_address = host.outgoing_connecting_address
        /\ h.incoming_connecting_address_set = host.incoming_connecting_address_set
        /\ h.commands = host.commands
    BY <1>1 DEF TypeInv, Host
  <1>4. ~Mistakes(h, e)
    BY <1>2, <1>3 DEF Mistakes
  <1>5. AttemptsOn(h, OnTheWay, paging, requests)
    BY <1>2, <1>3, AttemptsMeaning DEF Attempting, AttemptsOn
  <1>6. /\ OnTheWay # <<>> /\ Head(OnTheWay) = e /\ Tail(OnTheWay) = OnTheWay'
        /\ OnTheWay \in Seq(AnyEvent)
    BY <1>1, QueueTypes, RanTask DEF OnTheWay
  <1>7. paging \in SUBSET Address
    BY DEF TypeInv
  <1>8. AttemptsOn(host', Tail(OnTheWay), paging, requests)
    BY <1>1, <1>4, <1>5, <1>6, <1>7, RunAttempts
  <1> QED
    BY <1>1, <1>6, <1>8 DEF Attempting

LEMMA RunHciAttempts ==
  ASSUME TypeInv, AttemptsInv, RunHci, ~host'.mistaken PROVE Attempting'
  <1> DEFINE e == Head(hci)
             t == host.tasks
             x == [e EXCEPT !.hop = 2]
  <1>1. /\ hci # <<>> /\ paging' = paging /\ requests' = requests
        /\ hci \in Seq(HciEvent) /\ e \in HciEvent /\ e \in AnyEvent
        /\ host \in Host /\ t \in Seq(AnyEvent) /\ hci \in Seq(AnyEvent)
    <2>1. hci # <<>> /\ paging' = paging /\ requests' = requests /\ hci \in Seq(HciEvent)
      BY DEF RunHci, controller, TypeInv
    <2>2. e \in HciEvent
      BY <2>1
    <2> QED
      BY <2>1, <2>2, QueueTypes
  <1>2. \/ /\ hci' = Append(Tail(hci), x) /\ host' = host
           /\ e.do \in {"create_status", "accept_status", "logged", "disconnect"}
        \/ hci' = Tail(hci) /\ host' = host /\ e.do = "logged"
        \/ /\ hci' = Tail(hci) /\ e.do # "logged"
           /\ host' = [host EXCEPT !.tasks = Append(host.tasks, e)]
    BY DEF RunHci
  <1>3. x \in HciEvent /\ SameButHop(x, e)
    BY <1>1, PutOffEvent
  <1>4. x \in AnyEvent
    BY <1>3, MoreEvents
  <1>5. Tail(hci) \in Seq(AnyEvent)
    BY <1>1
  <1> HIDE DEF e, x, t
  <1>6. CASE /\ hci' = Append(Tail(hci), x) /\ host' = host
             /\ e.do \in {"create_status", "accept_status", "logged", "disconnect"}
    <2>1. Attempting
      BY <1>6, AttemptsMeaning
    <2> DEFINE p == t \o Append(Tail(hci), x)
               q == t \o hci
               k == Len(t) + 1
               r == t \o Tail(hci)
    <2>2. Moved(p, q, k, x)
      BY <1>1, <1>4, PutOff
    <2>3. q[k] = e
      BY <1>1 DEF e
    <2>4. Inserted(q, r, Len(t), e)
      BY <1>1, Dropped DEF e
    <2>5. p = Append(r, x) /\ r \in Seq(AnyEvent)
      BY <1>1, <1>4, <1>5, Arrived
    <2>6. OnTheWay = q /\ OnTheWay' = p
      BY <1>6 DEF OnTheWay, t
    <2> HIDE DEF p, q, k, r
    <2>7. AttemptOn(p, host.outgoing_connecting_address, paging, host.commands)
      BY <1>3, <2>1, <2>2, <2>3, <2>6, AttemptMoved DEF Attempting, AttemptsOn
    <2>8. ASSUME NEW a \in Address
          PROVE  RequestOn(p, a, host.incoming_connecting_address_set, requests[a])
      <3>1. Neutral(e, a) /\ Neutral(x, a)
        BY <1>3, <1>6 DEF SameButHop, Neutral, Asks, EndsRequest
      <3>2. RequestOn(q, a, host.incoming_connecting_address_set, requests[a])
        BY <2>1, <2>6 DEF Attempting, AttemptsOn
      <3>3. RequestOn(r, a, host.incoming_connecting_address_set, requests[a])
        BY <2>4, <3>1, <3>2, RequestInserted
      <3>4. requests[a] = "none" <=> requests[a] = "none"
        OBVIOUS
      <3> QED
        BY <1>4, <2>5, <3>1, <3>3, <3>4, RequestAppended
    <2> QED
      BY <1>1, <1>6, <2>6, <2>7, <2>8 DEF Attempting, AttemptsOn
  <1>7. CASE hci' = Tail(hci) /\ host' = host /\ e.do = "logged"
    <2>1. Attempting
      BY <1>7, AttemptsMeaning
    <2> DEFINE q == t \o hci
               r == t \o Tail(hci)
    <2>2. Inserted(q, r, Len(t), e)
      BY <1>1, Dropped DEF e
    <2>3. OnTheWay = q /\ OnTheWay' = r
      BY <1>7 DEF OnTheWay, t
    <2>4. ~EndsAttempt(e) /\ \A a : Neutral(e, a)
      BY <1>7 DEF EndsAttempt, Neutral, Asks, EndsRequest
    <2> HIDE DEF q, r
    <2>5. AttemptOn(r, host.outgoing_connecting_address, paging, host.commands)
      BY <2>1, <2>2, <2>3, <2>4, AttemptInserted DEF Attempting, AttemptsOn
    <2>6. ASSUME NEW a \in Address
          PROVE  RequestOn(r, a, host.incoming_connecting_address_set, requests[a])
      <3>1. RequestOn(q, a, host.incoming_connecting_address_set, requests[a])
        BY <2>1, <2>3 DEF Attempting, AttemptsOn
      <3> QED
        BY <2>2, <2>4, <3>1, RequestInserted
    <2> QED
      BY <1>1, <1>7, <2>3, <2>5, <2>6 DEF Attempting, AttemptsOn
  <1>8. CASE /\ hci' = Tail(hci) /\ e.do # "logged"
             /\ host' = [host EXCEPT !.tasks = Append(host.tasks, e)]
    <2>1. e \in Task
      BY <1>1, <1>8, MoreEvents
    <2>2. /\ SameAttempt(host', host) /\ host'.tasks = Append(t, e)
          /\ host'.commands = host.commands
      BY <1>1, <1>8, <2>1, Posted DEF t
    <2>3. OnTheWay' = OnTheWay
      BY <1>1, <1>8, <2>2, PassedOn DEF OnTheWay, e, t
    <2>4. Attempting
      BY <2>2, AttemptsMeaning DEF SameAttempt
    <2>5. AttemptsOn(host', OnTheWay, paging, requests)
      BY <2>2, <2>4, SameAttemptsOn DEF Attempting
    <2> QED
      BY <1>1, <2>3, <2>5 DEF Attempting
  <1> QED
    BY <1>2, <1>6, <1>7, <1>8

LEMMA CallAttempts ==
  ASSUME TypeInv, AttemptsInv, NEW do \in Calls, NEW a \in Address, Call(do, a), ~host'.mistaken
  PROVE  Attempting'
  <1> DEFINE x == Event(do, a, NoHandle, "", "")
             t == host.tasks
  <1>1. x \in Task /\ x \in AnyEvent /\ ~EndsAttempt(x) /\ \A b \in Address : Neutral(x, b)
    BY NewEvents, MoreEvents, Kinds
  <1>2. /\ hci' = hci /\ paging' = paging /\ requests' = requests
        /\ host' = [host EXCEPT !.tasks = Append(t, x)]
    BY DEF Call, controller
  <1> HIDE DEF x
  <1>3. /\ SameAttempt(host', host) /\ host'.tasks = Append(t, x)
        /\ host'.commands = host.commands
    BY <1>1, <1>2, Posted, QueueTypes
  <1>4. Inserted(OnTheWay', OnTheWay, Len(t), x)
    BY <1>1, <1>2, <1>3, QueueTypes, PostedTask DEF OnTheWay
  <1>5. Attempting
    BY <1>3, AttemptsMeaning DEF SameAttempt
  <1>6. AttemptOn(OnTheWay', host.outgoing_connecting_address, paging, host.commands)
    BY <1>1, <1>4, <1>5, AttemptInserted DEF Attempting, AttemptsOn
  <1>7. ASSUME NEW b \in Address
        PROVE  RequestOn(OnTheWay', b, host.incoming_connecting_address_set, requests[b])
    <2>1. RequestOn(OnTheWay, b, host.incoming_connecting_address_set, requests[b])
          /\ Neutral(x, b)
      BY <1>1, <1>5 DEF Attempting, AttemptsOn
    <2> QED
      BY <1>4, <2>1, RequestInserted
  <1> QED
    BY <1>2, <1>3, <1>6, <1>7 DEF Attempting, AttemptsOn, SameAttempt

LEMMA CreateAttempts ==
  ASSUME TypeInv, AttemptsInv, NEW ok \in BOOLEAN, ExecuteCreate(ok), ~host'.mistaken
  PROVE  Attempting'
  <1> DEFINE a == command[2]
             s == IF ok THEN "success" ELSE "failed"
             x == Event("create_status", a, NoHandle, s, "")
             out == host.outgoing_connecting_address
             L == Tail(host.commands)
  <1>1. /\ SameAttempt(host', host) /\ host'.tasks = host.tasks /\ host'.commands = L
        /\ host.commands \in Seq(Command) /\ host.commands # <<>>
        /\ Head(host.commands)[1] = "create" /\ Head(host.commands)[2] = a /\ a \in Address
    <2>1. CanExecute("create")
      BY DEF ExecuteCreate
    <2> QED
      BY <2>1, SentFacts DEF command
  <1>2. /\ hci' = Append(hci, x) /\ requests' = requests
        /\ paging' = IF ok THEN paging \cup {a} ELSE paging
    BY DEF ExecuteCreate
  <1>3. s \in {"success", "failed"} /\ (ok => s = "success") /\ (~ok => s = "failed")
    OBVIOUS
  <1> HIDE DEF a, s
  <1>4. x \in HciEvent /\ x.a = a
    <2>1. a \in Address /\ s \in {"success", "failed"}
      BY <1>1, <1>3
    <2>2. PICK b \in Address, r \in {"success", "failed"} : b = a /\ r = s
      BY <2>1
    <2>3. Event("create_status", b, NoHandle, r, "") \in HciEvent
      BY NewEvents DEF Answers
    <2>4. x \in HciEvent
      BY <2>2, <2>3
    <2>5. x.a = a
      BY DEF Event
    <2> QED
      BY <2>4, <2>5
  <1>5. Attempting
    BY <1>1, AttemptsMeaning DEF SameAttempt
  <1>6. /\ a = out /\ paging = {} /\ Creates(L) = {}
        /\ \A i \in DOMAIN OnTheWay : ~EndsAttempt(OnTheWay[i])
    BY <1>1, <1>5, SentAttempt DEF Attempting, AttemptsOn
  <1>7. \A b : Neutral(x, b)
    BY Kinds
  <1>8. ok => ~EndsAttempt(x)
    BY <1>3, Kinds
  <1>9. ~ok => EndsAttempt(x)
    BY <1>3, Kinds
  <1> HIDE DEF x
  <1>10. OnTheWay' = Append(OnTheWay, x) /\ x \in AnyEvent /\ OnTheWay \in Seq(AnyEvent)
    BY <1>1, <1>2, <1>4, QueueTypes DEF OnTheWay
  <1>11. AttemptOn(OnTheWay', out, paging', L)
    <2>1. CASE ok
      <3>1. AttemptOn(OnTheWay, out, {a}, L)
        BY <1>6 DEF AttemptOn
      <3>2. paging' = {a}
        BY <1>2, <1>6, <2>1
      <3> QED
        BY <1>8, <1>10, <2>1, <3>1, <3>2, AttemptAppended
    <2>2. CASE ~ok
      <3>1. AttemptOn(Append(OnTheWay, x), x.a, {}, L)
        BY <1>6, <1>9, <1>10, <2>2, AttemptEnds
      <3> QED
        BY <1>2, <1>4, <1>6, <1>10, <2>2, <3>1
    <2> QED
      BY <2>1, <2>2
  <1>12. ASSUME NEW b \in Address
         PROVE  RequestOn(OnTheWay', b, host.incoming_connecting_address_set, requests[b])
    <2>1. RequestOn(OnTheWay, b, host.incoming_connecting_address_set, requests[b])
      BY <1>5 DEF Attempting, AttemptsOn
    <2>2. requests[b] = "none" <=> requests[b] = "none"
      OBVIOUS
    <2> QED
      BY <1>7, <1>10, <2>1, <2>2, RequestAppended
  <1> QED
    BY <1>1, <1>2, <1>11, <1>12 DEF Attempting, AttemptsOn, SameAttempt

LEMMA OtherSent ==
  ASSUME TypeInv, AttemptsInv, ~host'.mistaken, NEW op, op # "create", CanExecute(op)
  PROVE  /\ SameAttempt(host', host) /\ host'.tasks = host.tasks /\ command[2] \in Address
         /\ AttemptOn(OnTheWay, host'.outgoing_connecting_address, paging, host'.commands)
         /\ AttemptsOn(host', OnTheWay, paging, requests)
  <1>1. /\ SameAttempt(host', host) /\ host'.tasks = host.tasks
        /\ host'.commands = Tail(host.commands)
        /\ host.commands \in Seq(Command) /\ host.commands # <<>>
        /\ Head(host.commands)[1] # "create" /\ command[2] \in Address
    BY SentFacts DEF command
  <1>2. Attempting
    BY <1>1, AttemptsMeaning DEF SameAttempt
  <1>3. AttemptOn(OnTheWay, host.outgoing_connecting_address, paging, Tail(host.commands))
    BY <1>1, <1>2, SentAttempt DEF Attempting, AttemptsOn
  <1> QED
    BY <1>1, <1>2, <1>3 DEF Attempting, AttemptsOn, SameAttempt

LEMMA AcceptAttempts ==
  ASSUME TypeInv, AttemptsInv, ExecuteAccept, ~host'.mistaken PROVE Attempting'
  <1> DEFINE ok == requests[command[2]] = "asked"
  <1>1. CanExecute("accept") /\ paging' = paging
    BY DEF ExecuteAccept
  <1>2. /\ SameAttempt(host', host) /\ host'.tasks = host.tasks /\ command[2] \in Address
        /\ AttemptsOn(host', OnTheWay, paging, requests)
    BY <1>1, OtherSent
  <1>3. PICK a \in Address, s \in {"success", "failed"} :
          /\ a = command[2]
          /\ hci' = Append(hci, Event("accept_status", a, NoHandle, s, ""))
    BY <1>2 DEF ExecuteAccept
  <1>4. PICK x : x = Event("accept_status", a, NoHandle, s, "")
    OBVIOUS
  <1>5. x \in HciEvent /\ ~EndsAttempt(x) /\ \A b \in Address : Neutral(x, b)
    BY <1>4, NewEvents, Kinds DEF Answers
  <1>6. OnTheWay' = Append(OnTheWay, x) /\ x \in AnyEvent /\ OnTheWay \in Seq(AnyEvent)
    BY <1>2, <1>3, <1>4, <1>5, QueueTypes DEF OnTheWay
  <1>7. AttemptsOn(host', OnTheWay', paging, requests)
    BY <1>2, <1>5, <1>6, NeutralArrives
  <1>8. \A b \in Address :
          RequestOn(OnTheWay', b, host'.incoming_connecting_address_set, requests'[b])
    <2>1. CASE requests' = requests
      BY <1>7, <2>1 DEF AttemptsOn
    <2>2. CASE ok /\ requests' = [requests EXCEPT ![a] = "accepted"]
      <3>1. requests \in [Address -> {"none", "asked", "accepted"}] /\ requests[a] # "none"
        BY <1>3, <2>2 DEF TypeInv
      <3>2. Neutral(x, a) /\ \A b \in Address :
              RequestOn(OnTheWay, b, host'.incoming_connecting_address_set, requests[b])
        BY <1>2, <1>5 DEF AttemptsOn
      <3>3. \A b \in Address :
              RequestOn(Append(OnTheWay, x), b, host'.incoming_connecting_address_set,
                        [requests EXCEPT ![a] = "accepted"][b])
        BY <1>5, <1>6, <3>1, <3>2, RequestArrives
      <3> QED
        BY <1>6, <2>2, <3>3
    <2> QED
      BY <1>3, <2>1, <2>2 DEF ExecuteAccept
  <1> QED
    BY <1>1, <1>7, <1>8 DEF Attempting, AttemptsOn

(* A command whose answer is logged. *)
LEMMA Logged ==
  ASSUME TypeInv, AttemptsInv, ~host'.mistaken, NEW op, op # "create", CanExecute(op)
  PROVE  \E a \in Address, x \in HciEvent :
           /\ a = command[2] /\ x = Event("logged", a, NoHandle, "", "")
           /\ SameAttempt(host', host) /\ host'.tasks = host.tasks
           /\ AttemptsOn(host', Append(OnTheWay, x), paging, requests)
           /\ Append(OnTheWay, x) \in Seq(AnyEvent)
           /\ hci' = Append(hci, x) => OnTheWay' = Append(OnTheWay, x)
           /\ \A y \in HciEvent : hci' = Append(Append(hci, x), y) =>
                                    OnTheWay' = Append(Append(OnTheWay, x), y)
  <1>1. /\ SameAttempt(host', host) /\ host'.tasks = host.tasks /\ command[2] \in Address
        /\ AttemptsOn(host', OnTheWay, paging, requests)
    BY OtherSent
  <1>2. PICK a \in Address : a = command[2]
    BY <1>1
  <1>3. PICK x \in HciEvent : x = Event("logged", a, NoHandle, "", "")
    BY NewEvents
  <1>4. ~EndsAttempt(x) /\ \A b \in Address : Neutral(x, b)
    BY <1>3, Kinds
  <1>5. /\ OnTheWay \in Seq(AnyEvent) /\ x \in AnyEvent /\ hci \in Seq(AnyEvent)
        /\ host.tasks \in Seq(AnyEvent)
        /\ host.tasks \o Append(hci, x) = Append(OnTheWay, x)
    BY QueueTypes
  <1>6. AttemptsOn(host', Append(OnTheWay, x), paging, requests)
    BY <1>1, <1>4, <1>5, NeutralArrives
  <1>7. Append(OnTheWay, x) \in Seq(AnyEvent)
    BY <1>5
  <1>8. hci' = Append(hci, x) => OnTheWay' = Append(OnTheWay, x)
    BY <1>1, <1>5 DEF OnTheWay
  <1>9. ASSUME NEW y \in HciEvent, hci' = Append(Append(hci, x), y)
        PROVE  OnTheWay' = Append(Append(OnTheWay, x), y)
    <2>1. y \in AnyEvent
      BY MoreEvents
    <2>2. PICK t \in Seq(AnyEvent), s \in Seq(AnyEvent) : t = host.tasks /\ s = Append(hci, x)
      <3>1. Append(hci, x) \in Seq(AnyEvent)
        BY <1>5
      <3> QED
        BY <1>5, <3>1
    <2>3. t \o Append(s, y) = Append(t \o s, y)
      BY ONLY t \in Seq(AnyEvent), s \in Seq(AnyEvent), <2>1, Arrived
    <2>4. OnTheWay' = t \o Append(s, y)
      BY <1>1, <1>9, <2>2 DEF OnTheWay
    <2> QED
      BY <1>5, <2>2, <2>3, <2>4
  <1> QED
    BY <1>1, <1>2, <1>3, <1>6, <1>7, <1>8, <1>9

LEMMA RejectAttempts ==
  ASSUME TypeInv, AttemptsInv, ExecuteReject, ~host'.mistaken PROVE Attempting'
  <1>1. CanExecute("reject") /\ paging' = paging
    BY DEF ExecuteReject
  <1>2. PICK a \in Address, x \in HciEvent :
          /\ a = command[2] /\ x = Event("logged", a, NoHandle, "", "")
          /\ SameAttempt(host', host) /\ host'.tasks = host.tasks
          /\ AttemptsOn(host', Append(OnTheWay, x), paging, requests)
          /\ Append(OnTheWay, x) \in Seq(AnyEvent)
          /\ hci' = Append(hci, x) => OnTheWay' = Append(OnTheWay, x)
          /\ \A y \in HciEvent : hci' = Append(Append(hci, x), y) =>
                                   OnTheWay' = Append(Append(OnTheWay, x), y)
    BY <1>1, Logged
  <1>3. PICK y \in HciEvent : y = Complete(a, NoHandle, "failed", "request")
    BY NewEvents
  <1>4. /\ ~EndsAttempt(y) /\ EndsRequest(y, a) /\ y \in AnyEvent
        /\ \A b \in Address : b # a => Neutral(y, b)
    BY <1>3, Kinds, MoreEvents
  <1>5. \/ hci' = Append(hci, x) /\ requests' = requests
        \/ /\ hci' = Append(Append(hci, x), y) /\ requests[a] = "asked"
           /\ requests' = [requests EXCEPT ![a] = "none"]
    BY <1>2, <1>3 DEF ExecuteReject
  <1>6. CASE hci' = Append(hci, x) /\ requests' = requests
    BY <1>1, <1>2, <1>6 DEF Attempting
  <1>7. CASE /\ hci' = Append(Append(hci, x), y) /\ requests[a] = "asked"
             /\ requests' = [requests EXCEPT ![a] = "none"]
    <2>1. PICK q \in Seq(AnyEvent) : q = Append(OnTheWay, x)
      BY <1>2
    <2>2. OnTheWay' = Append(q, y)
      BY <1>2, <1>7, <2>1
    <2>3. AttemptsOn(host', q, paging, requests)
      BY <1>2, <2>1
    <2>4. AttemptOn(Append(q, y), host'.outgoing_connecting_address, paging, host'.commands)
      BY <1>4, <2>3, AttemptAppended DEF AttemptsOn
    <2>5. requests \in [Address -> {"none", "asked", "accepted"}] /\ requests[a] # "none"
      BY <1>7 DEF TypeInv
    <2>6. \A b \in Address :
            RequestOn(Append(q, y), b, host'.incoming_connecting_address_set,
                      [requests EXCEPT ![a] = "none"][b])
      BY <1>4, <2>3, <2>5, RequestArrives DEF AttemptsOn
    <2> QED
      BY <1>1, <1>7, <2>2, <2>4, <2>6 DEF Attempting, AttemptsOn
  <1> QED
    BY <1>5, <1>6, <1>7

(* Our attempt ends in the controller. *)
LEMMA OursEnds ==
  ASSUME NEW h, NEW q \in Seq(AnyEvent), NEW a \in paging, NEW y \in AnyEvent,
         EndsAttempt(y), y.a = a, \A b \in Address : Neutral(y, b),
         AttemptsOn(h, q, paging, requests)
  PROVE  AttemptsOn(h, Append(q, y), paging \ {a}, requests)
  <1>1. AttemptOn(q, h.outgoing_connecting_address, paging, h.commands)
    BY DEF AttemptsOn
  <1>2. /\ a = h.outgoing_connecting_address /\ paging \ {a} = {} /\ Creates(h.commands) = {}
        /\ \A i \in DOMAIN q : ~EndsAttempt(q[i])
    BY <1>1, PageOver
  <1>3. AttemptOn(Append(q, y), y.a, {}, h.commands)
    BY <1>2, AttemptEnds
  <1>4. ASSUME NEW b \in Address
        PROVE  RequestOn(Append(q, y), b, h.incoming_connecting_address_set, requests[b])
    <2>1. RequestOn(q, b, h.incoming_connecting_address_set, requests[b]) /\ Neutral(y, b)
      BY DEF AttemptsOn
    <2>2. requests[b] = "none" <=> requests[b] = "none"
      OBVIOUS
    <2> QED
      BY <2>1, <2>2, RequestAppended
  <1> QED
    BY <1>2, <1>3, <1>4 DEF AttemptsOn

LEMMA CancelAttempts ==
  ASSUME TypeInv, AttemptsInv, ExecuteCancel, ~host'.mistaken PROVE Attempting'
  <1>1. CanExecute("cancel") /\ requests' = requests
    BY DEF ExecuteCancel
  <1>2. PICK a \in Address, x \in HciEvent :
          /\ a = command[2] /\ x = Event("logged", a, NoHandle, "", "")
          /\ SameAttempt(host', host) /\ host'.tasks = host.tasks
          /\ AttemptsOn(host', Append(OnTheWay, x), paging, requests)
          /\ Append(OnTheWay, x) \in Seq(AnyEvent)
          /\ hci' = Append(hci, x) => OnTheWay' = Append(OnTheWay, x)
          /\ \A y \in HciEvent : hci' = Append(Append(hci, x), y) =>
                                   OnTheWay' = Append(Append(OnTheWay, x), y)
    BY <1>1, Logged
  <1>3. PICK y \in HciEvent : y = Complete(a, NoHandle, "unknown_connection", "page")
    BY NewEvents
  <1>4. EndsAttempt(y) /\ y \in AnyEvent /\ \A b \in Address : Neutral(y, b)
    BY <1>3, Kinds, MoreEvents
  <1>5. y.a = a
    BY <1>3 DEF Complete, Event
  <1>6. \/ hci' = Append(hci, x) /\ paging' = paging
        \/ a \in paging /\ hci' = Append(Append(hci, x), y) /\ paging' = paging \ {a}
    BY <1>2, <1>3 DEF ExecuteCancel
  <1>7. CASE hci' = Append(hci, x) /\ paging' = paging
    BY <1>1, <1>2, <1>7 DEF Attempting
  <1>8. CASE a \in paging /\ hci' = Append(Append(hci, x), y) /\ paging' = paging \ {a}
    <2>1. PICK q \in Seq(AnyEvent) : q = Append(OnTheWay, x)
      BY <1>2
    <2>2. OnTheWay' = Append(q, y)
      BY <1>2, <1>8, <2>1
    <2>3. AttemptsOn(host', q, paging, requests)
      BY <1>2, <2>1
    <2>4. AttemptsOn(host', Append(q, y), paging \ {a}, requests)
      BY <1>4, <1>5, <1>8, <2>3, OursEnds
    <2> QED
      BY <1>1, <1>8, <2>2, <2>4 DEF Attempting
  <1> QED
    BY <1>6, <1>7, <1>8

LEMMA ArrivesFacts ==
  ASSUME TypeInv, AttemptsInv, host' = host, ~host'.mistaken, NEW x \in HciEvent,
         hci' = Append(hci, x)
  PROVE  /\ Attempting /\ OnTheWay' = Append(OnTheWay, x)
         /\ x \in AnyEvent /\ OnTheWay \in Seq(AnyEvent)
  BY QueueTypes, AttemptsMeaning DEF OnTheWay

LEMMA PageAttempts ==
  ASSUME TypeInv, AttemptsInv, NEW a \in Address, PageEnds(a), ~host'.mistaken
  PROVE  Attempting'
  <1>1. a \in paging /\ Ends(a, "page") /\ paging' = paging \ {a} /\ requests' = requests
        /\ host' = host
    BY DEF PageEnds, Ends
  <1>2. PICK n \in Handle \cup {NoHandle}, s \in {"success", "failed"} :
          /\ s = "success" <=> n \in Handle
          /\ hci' = Append(hci, Complete(a, n, s, "page"))
    BY <1>1, ClassicAssumption DEF Ends, FreeHandles
  <1>3. PICK y : y = Complete(a, n, s, "page")
    OBVIOUS
  <1>4. y \in HciEvent
    BY <1>2, <1>3, NewEvents
  <1>5. EndsAttempt(y) /\ \A b \in Address : Neutral(y, b)
    BY <1>3, Kinds
  <1>6. y.a = a
    BY <1>3 DEF Complete, Event
  <1>7. /\ Attempting /\ OnTheWay' = Append(OnTheWay, y)
        /\ y \in AnyEvent /\ OnTheWay \in Seq(AnyEvent)
    BY <1>1, <1>2, <1>3, <1>4, ArrivesFacts
  <1>8. AttemptsOn(host, Append(OnTheWay, y), paging \ {a}, requests)
    BY <1>1, <1>5, <1>6, <1>7, OursEnds DEF Attempting
  <1> QED
    BY <1>1, <1>7, <1>8 DEF Attempting

(* A peer's request comes, or ends. *)
LEMMA TheirsAttempts ==
  ASSUME TypeInv, AttemptsInv, NEW a \in Address,
         AcceptEnds(a) \/ PeerRequests(a) \/ RequestExpires(a), ~host'.mistaken
  PROVE  Attempting'
  <1>1. host' = host /\ paging' = paging
    BY DEF AcceptEnds, Ends, PeerRequests, RequestExpires
  <1>2. PICK y \in HciEvent, s \in {"none", "asked"} :
          /\ hci' = Append(hci, y) /\ requests' = [requests EXCEPT ![a] = s]
          /\ ~EndsAttempt(y) /\ \A b \in Address : b # a => Neutral(y, b)
          /\ \/ Asks(y, a) /\ requests[a] = "none" /\ s # "none"
             \/ EndsRequest(y, a) /\ requests[a] # "none" /\ s = "none"
    <2>1. CASE AcceptEnds(a)
      <3>1. requests[a] # "none" /\ requests' = [requests EXCEPT ![a] = "none"]
            /\ Ends(a, "request")
        BY <2>1 DEF AcceptEnds
      <3>2. PICK n \in Handle \cup {NoHandle}, s \in {"success", "failed"} :
              /\ s = "success" <=> n \in Handle
              /\ hci' = Append(hci, Complete(a, n, s, "request"))
        BY <3>1, ClassicAssumption DEF Ends, FreeHandles
      <3>3. PICK y : y = Complete(a, n, s, "request")
        OBVIOUS
      <3>4. y \in HciEvent
        BY <3>2, <3>3, NewEvents
      <3>5. ~EndsAttempt(y) /\ EndsRequest(y, a) /\ \A b \in Address : b # a => Neutral(y, b)
        BY <3>3, Kinds
      <3> QED
        BY <3>1, <3>2, <3>3, <3>4, <3>5
    <2>2. CASE PeerRequests(a)
      <3>1. PICK y \in HciEvent : y = Event("request", a, NoHandle, "", "")
        BY NewEvents
      <3>2. ~EndsAttempt(y) /\ Asks(y, a) /\ \A b \in Address : b # a => Neutral(y, b)
        BY <3>1 DEF Event, EndsAttempt, Asks, Neutral, EndsRequest
      <3> QED
        BY <2>2, <3>1, <3>2 DEF PeerRequests
    <2>3. CASE RequestExpires(a)
      <3>1. PICK y \in HciEvent : y = Complete(a, NoHandle, "failed", "request")
        BY NewEvents
      <3>2. ~EndsAttempt(y) /\ EndsRequest(y, a) /\ \A b \in Address : b # a => Neutral(y, b)
        BY <3>1, Kinds
      <3> QED
        BY <2>3, <3>1, <3>2 DEF RequestExpires
    <2> QED
      BY <2>1, <2>2, <2>3
  <1>3. /\ Attempting /\ OnTheWay' = Append(OnTheWay, y)
        /\ y \in AnyEvent /\ OnTheWay \in Seq(AnyEvent)
    BY <1>1, <1>2, ArrivesFacts
  <1>4. AttemptOn(OnTheWay', host.outgoing_connecting_address, paging, host.commands)
    BY <1>2, <1>3, AttemptAppended DEF Attempting, AttemptsOn
  <1>5. \A b \in Address :
          RequestOn(Append(OnTheWay, y), b, host.incoming_connecting_address_set,
                    [requests EXCEPT ![a] = s][b])
    <2>1. requests \in [Address -> {"none", "asked", "accepted"}]
          /\ s \in {"none", "asked", "accepted"}
      BY DEF TypeInv
    <2>2. \A b \in Address :
            RequestOn(OnTheWay, b, host.incoming_connecting_address_set, requests[b])
      BY <1>3 DEF Attempting, AttemptsOn
    <2> QED
      BY <1>2, <1>3, <2>1, <2>2, RequestArrives
  <1> QED
    BY <1>1, <1>2, <1>3, <1>4, <1>5 DEF Attempting, AttemptsOn

LEMMA AttemptsStep ==
  ASSUME TypeInv, AttemptsInv, [Next]_vars PROVE AttemptsInv'
  <1> SUFFICES ASSUME ~host'.mistaken PROVE Attempting'
    BY DEF AttemptsInv, AttemptInv, RequestInv, Attempting, AttemptsOn
  <1>1. CASE RunTask
    BY <1>1, RunTaskAttempts
  <1>2. CASE RunHci
    BY <1>2, RunHciAttempts
  <1>3. CASE RunClient
    <2>1. /\ hci' = hci /\ paging' = paging /\ requests' = requests /\ link' = link
          /\ host.client # <<>> /\ host \in Host
          /\ host' = invalidate([host EXCEPT !.client = Tail(host.client)], Head(host.client))
      BY <1>3 DEF RunClient, controller, TypeInv
    <2>2. SameAttempt(host', host) /\ host'.commands = host.commands
          /\ host'.tasks = host.tasks
      BY <2>1, Invalidated
    <2>3. Attempting
      BY <2>2, AttemptsMeaning DEF SameAttempt
    <2>4. AttemptsOn(host', OnTheWay, paging, requests)
      BY <2>2, <2>3, SameAttemptsOn DEF Attempting
    <2> QED
      BY <2>1, <2>2, <2>4 DEF Attempting, OnTheWay
  <1>4. CASE \E ok \in BOOLEAN : ExecuteCreate(ok)
    BY <1>4, CreateAttempts
  <1>5. CASE ExecuteAccept
    BY <1>5, AcceptAttempts
  <1>6. CASE ExecuteReject
    BY <1>6, RejectAttempts
  <1>7. CASE ExecuteCancel
    BY <1>7, CancelAttempts
  <1>8. CASE \E a \in Address : CreateConnection(a) \/ CancelConnect(a)
    <2>1. PICK a \in Address, do \in Calls : Call(do, a)
      BY <1>8 DEF CreateConnection, CancelConnect, Calls
    <2> QED
      BY <2>1, CallAttempts
  <1>9. CASE \E a \in Address : PageEnds(a)
    BY <1>9, PageAttempts
  <1>10. CASE \E a \in Address : AcceptEnds(a) \/ PeerRequests(a) \/ RequestExpires(a)
    BY <1>10, TheirsAttempts
  <1>11. CASE \E n \in Handle : LinkEnds(n)
    <2>1. PICK n \in Handle : LinkEnds(n)
      BY <1>11
    <2>2. PICK x \in HciEvent : x = Event("disconnect", kEmpty, n, "", "")
      BY NewEvents
    <2>3. /\ host' = host /\ paging' = paging /\ requests' = requests
          /\ hci' = Append(hci, x)
      BY <2>1, <2>2 DEF LinkEnds
    <2>4. ~EndsAttempt(x) /\ \A b \in Address : Neutral(x, b)
      BY <2>2, Kinds
    <2>5. /\ Attempting /\ OnTheWay' = Append(OnTheWay, x)
          /\ x \in AnyEvent /\ OnTheWay \in Seq(AnyEvent)
      BY <2>3, ArrivesFacts
    <2>6. AttemptsOn(host, Append(OnTheWay, x), paging, requests)
      BY <2>4, <2>5, NeutralArrives DEF Attempting
    <2> QED
      BY <2>3, <2>5, <2>6 DEF Attempting
  <1>12. CASE UNCHANGED vars
    <2>1. host' = host /\ hci' = hci /\ paging' = paging /\ requests' = requests
      BY <1>12 DEF vars, controller
    <2>2. Attempting
      BY <2>1, AttemptsMeaning
    <2> QED
      BY <2>1, <2>2 DEF Attempting, OnTheWay
  <1> QED
    BY <1>1, <1>2, <1>3, <1>4, <1>5, <1>6, <1>7, <1>8, <1>9, <1>10, <1>11, <1>12 DEF Next

(***************************************************************************)
(* The table of connections and the requests that wait.                    *)
(***************************************************************************)
TableOn(conn, sched, client, q, ln) ==
  /\ \A n \in Handle : /\ HandleOn(q, n, conn[n], ln[n])
                       /\ n \in sched <=> conn[n] # kEmpty
  /\ \A i \in DOMAIN client : /\ conn[client[i]] = kEmpty /\ ln[client[i]] = kEmpty
                              /\ About(q, client[i]) = {}

Tabled(h, q, ln) == TableOn(h.connections, h.scheduled, h.client, q, ln)

LEMMA TableMeaning ==
  TableInv <=> (~host.mistaken => ~host.aborted /\ Tabled(host, OnTheWay, link) /\ Waiting(host))
  BY DEF TableInv, HandleInv, Tabled, TableOn

(* Everything unanswered is being tried, or waits. *)
Owed(h) ==
  \A a \in h.unanswered : a = h.outgoing_connecting_address \/ Pending(h, a)

LEMMA WaitingMeaning ==
  ASSUME NEW h
  PROVE  Waiting(h) <=> Owed(h) /\ (h.pending_outgoing_connections # <<>> => Blocked(h))
  BY DEF Waiting, Owed, Pending, Blocked

LEMMA DequeueWaiting ==
  ASSUME NEW h \in Host, NEW g, g = dequeue_next_connection(h), Owed(h)
  PROVE  Waiting(g)
  <1>1. CASE Blocked(h)
    BY <1>1, DequeueFacts, WaitingMeaning
  <1>2. CASE ~Blocked(h)
    <2>1. h.outgoing_connecting_address = kEmpty
      BY <1>2 DEF Blocked
    <2>2. \A a \in h.unanswered : a \in Address /\ a # kEmpty
      BY ClassicAssumption DEF Host
    <2>3. \A a \in h.unanswered : Pending(h, a)
      BY <2>1, <2>2 DEF Owed
    <2>4. CASE Emptied(g, h)
      <3>1. g.pending_outgoing_connections = <<>> /\ g.unanswered = {}
        BY <2>3, <2>4 DEF Emptied
      <3> QED
        BY <3>1, WaitingMeaning DEF Owed
    <2>5. ASSUME NEW a \in Address, Begun(g, h, a) PROVE Waiting(g)
      <3>1. g.outgoing_connecting_address = a /\ a # kEmpty
        BY <2>5, ClassicAssumption DEF Begun
      <3>2. Owed(g) /\ Blocked(g)
        BY <2>3, <2>5, <3>1 DEF Begun, Owed, Blocked
      <3> QED
        BY <3>2, WaitingMeaning
    <2> QED
      BY <1>2, <2>4, <2>5, DequeueFacts
  <1> QED
    BY <1>1, <1>2

(* An event without a handle is taken, put in, or dropped. *)
LEMMA TableInserted ==
  ASSUME NEW p, NEW q, NEW k, NEW x, Inserted(p, q, k, x), \A n \in Handle : x.handle # n,
         NEW conn, NEW sched, NEW client \in Seq(Handle), NEW ln
  PROVE  TableOn(conn, sched, client, p, ln) <=> TableOn(conn, sched, client, q, ln)
  <1>1. \A n \in Handle : HandleOn(p, n, conn[n], ln[n]) <=> HandleOn(q, n, conn[n], ln[n])
    BY HandleInserted
  <1>2. \A n \in Handle : About(p, n) = {} <=> About(q, n) = {}
    BY HandleInserted
  <1>3. \A i \in DOMAIN client : client[i] \in Handle
    OBVIOUS
  <1> QED
    BY <1>1, <1>2, <1>3 DEF TableOn

LEMMA TableArrives ==
  ASSUME NEW q \in Seq(AnyEvent), NEW x \in AnyEvent, \A n \in Handle : x.handle # n,
         NEW conn, NEW sched, NEW client \in Seq(Handle), NEW ln,
         TableOn(conn, sched, client, q, ln)
  PROVE  TableOn(conn, sched, client, Append(q, x), ln)
  <1>1. Inserted(Append(q, x), q, Len(q), x)
    BY Appended DEF Inserted
  <1> QED
    BY <1>1, TableInserted

LEMMA TableTaken ==
  ASSUME NEW q \in Seq(AnyEvent), q # <<>>, \A n \in Handle : Head(q).handle # n,
         NEW conn, NEW sched, NEW client \in Seq(Handle), NEW ln,
         TableOn(conn, sched, client, q, ln)
  PROVE  TableOn(conn, sched, client, Tail(q), ln)
  <1>1. Inserted(q, Tail(q), 0, Head(q))
    BY HeadTail DEF Inserted
  <1> QED
    BY <1>1, TableInserted

(* What the head says of one handle does not concern another. *)
LEMMA OtherHandles ==
  ASSUME NEW q \in Seq(AnyEvent), q # <<>>, NEW m, Head(q).handle = m
  PROVE  /\ \A n, conn, ln : n # m => (HandleOn(q, n, conn, ln) <=> HandleOn(Tail(q), n, conn, ln))
         /\ \A n : n # m => (About(q, n) = {} <=> About(Tail(q), n) = {})
         /\ About(q, m) # {}
  <1>1. Inserted(q, Tail(q), 0, Head(q))
    BY HeadTail DEF Inserted
  <1>2. 1 \in About(q, m)
    BY HeadTail DEF About
  <1> QED
    BY <1>1, <1>2, HandleInserted

LEMMA TableBegins ==
  ASSUME NEW q \in Seq(AnyEvent), q # <<>>, NEW m \in Handle, Head(q).handle = m,
         Head(q).do = "complete", NEW a \in Address, a = Head(q).a,
         NEW conn \in [Handle -> Address \cup {kEmpty}], NEW sched,
         NEW client \in Seq(Handle), NEW ln, TableOn(conn, sched, client, q, ln)
  PROVE  /\ conn[m] = kEmpty
         /\ TableOn([conn EXCEPT ![m] = a], sched \cup {m}, client, Tail(q), ln)
  <1>1. conn[m] = kEmpty /\ HandleOn(Tail(q), m, a, ln[m])
    <2>1. HandleOn(q, m, conn[m], ln[m])
      BY DEF TableOn
    <2> QED
      BY <2>1, HandleTaken
  <1> DEFINE c == [conn EXCEPT ![m] = a]
  <1>2. c[m] = a /\ a # kEmpty /\ \A n \in Handle : n # m => c[n] = conn[n]
    BY ClassicAssumption
  <1> HIDE DEF c
  <1>3. ASSUME NEW n \in Handle
        PROVE  HandleOn(Tail(q), n, c[n], ln[n]) /\ (n \in sched \cup {m} <=> c[n] # kEmpty)
    <2>1. CASE n = m
      BY <1>1, <1>2, <2>1
    <2>2. CASE n # m
      <3>1. HandleOn(q, n, conn[n], ln[n]) /\ (n \in sched <=> conn[n] # kEmpty)
        BY DEF TableOn
      <3>2. HandleOn(Tail(q), n, conn[n], ln[n])
        BY <2>2, <3>1, OtherHandles
      <3> QED
        BY <1>2, <2>2, <3>1, <3>2
    <2> QED
      BY <2>1, <2>2
  <1>4. ASSUME NEW i \in DOMAIN client
        PROVE  c[client[i]] = kEmpty /\ ln[client[i]] = kEmpty /\ About(Tail(q), client[i]) = {}
    <2>1. client[i] \in Handle /\ conn[client[i]] = kEmpty /\ ln[client[i]] = kEmpty
          /\ About(q, client[i]) = {}
      BY DEF TableOn
    <2>2. client[i] # m
      BY <2>1, OtherHandles
    <2>3. About(Tail(q), client[i]) = {}
      BY <2>1, <2>2, OtherHandles
    <2> QED
      BY <1>2, <2>1, <2>2, <2>3
  <1>5. TableOn(c, sched \cup {m}, client, Tail(q), ln)
    BY <1>3, <1>4 DEF TableOn
  <1> QED
    BY <1>1, <1>5 DEF c

LEMMA TableEnds ==
  ASSUME NEW q \in Seq(AnyEvent), q # <<>>, NEW m \in Handle, Head(q).handle = m,
         Head(q).do = "disconnect",
         NEW conn \in [Handle -> Address \cup {kEmpty}], NEW sched,
         NEW client \in Seq(Handle), NEW ln, TableOn(conn, sched, client, q, ln)
  PROVE  /\ conn[m] = kEmpty => TableOn(conn, sched, client, Tail(q), ln)
         /\ conn[m] # kEmpty =>
              /\ m \in sched
              /\ TableOn([conn EXCEPT ![m] = kEmpty], sched \ {m}, Append(client, m), Tail(q), ln)
  <1>1. ln[m] = kEmpty /\ About(Tail(q), m) = {} /\ HandleOn(Tail(q), m, kEmpty, ln[m])
    <2>1. HandleOn(q, m, conn[m], ln[m])
      BY DEF TableOn
    <2> QED
      BY <2>1, HandleTaken
  <1>2. m \in sched <=> conn[m] # kEmpty
    BY DEF TableOn
  <1>3. ASSUME NEW n \in Handle, n # m
        PROVE  HandleOn(Tail(q), n, conn[n], ln[n]) /\ (n \in sched <=> conn[n] # kEmpty)
    <2>1. HandleOn(q, n, conn[n], ln[n]) /\ (n \in sched <=> conn[n] # kEmpty)
      BY DEF TableOn
    <2> QED
      BY <1>3, <2>1, OtherHandles
  <1>4. ASSUME NEW i \in DOMAIN client
        PROVE  /\ client[i] \in Handle /\ conn[client[i]] = kEmpty /\ ln[client[i]] = kEmpty
               /\ About(Tail(q), client[i]) = {}
    <2>1. client[i] \in Handle /\ conn[client[i]] = kEmpty /\ ln[client[i]] = kEmpty
          /\ About(q, client[i]) = {}
      BY DEF TableOn
    <2>2. client[i] # m
      BY <2>1, OtherHandles
    <2> QED
      BY <2>1, <2>2, OtherHandles
  <1>5. ASSUME conn[m] = kEmpty PROVE TableOn(conn, sched, client, Tail(q), ln)
    <2>1. \A n \in Handle : HandleOn(Tail(q), n, conn[n], ln[n]) /\ (n \in sched <=> conn[n] # kEmpty)
      BY <1>1, <1>2, <1>3, <1>5
    <2> QED
      BY <1>4, <2>1 DEF TableOn
  <1>6. ASSUME conn[m] # kEmpty
        PROVE  TableOn([conn EXCEPT ![m] = kEmpty], sched \ {m}, Append(client, m), Tail(q), ln)
    <2> DEFINE c == [conn EXCEPT ![m] = kEmpty]
               d == Append(client, m)
    <2>1. c[m] = kEmpty /\ \A n \in Handle : n # m => c[n] = conn[n]
      OBVIOUS
    <2>2. \A i \in DOMAIN d : d[i] = m \/ (i \in DOMAIN client /\ d[i] = client[i])
      OBVIOUS
    <2> HIDE DEF c, d
    <2>3. \A n \in Handle : /\ HandleOn(Tail(q), n, c[n], ln[n])
                            /\ n \in sched \ {m} <=> c[n] # kEmpty
      BY <1>1, <1>3, <2>1
    <2>4. \A i \in DOMAIN d : /\ c[d[i]] = kEmpty /\ ln[d[i]] = kEmpty
                              /\ About(Tail(q), d[i]) = {}
      BY <1>1, <1>4, <2>1, <2>2
    <2>5. TableOn(c, sched \ {m}, d, Tail(q), ln)
      BY <2>3, <2>4 DEF TableOn
    <2> QED
      BY <2>5 DEF c, d
  <1> QED
    BY <1>2, <1>5, <1>6

LEMMA RunTable ==
  ASSUME NEW h \in Host, NEW q \in Seq(AnyEvent), q # <<>>, NEW e \in Task, e = Head(q),
         NEW page \in SUBSET Address, NEW req, AttemptsOn(h, q, page, req),
         ~Mistakes(h, e), NEW ln, Tabled(h, q, ln), Waiting(h), ~h.aborted,
         NEW g, g = Execute(h, e)
  PROVE  ~g.aborted /\ Tabled(g, Tail(q), ln) /\ Waiting(g)
  <1> DEFINE conn == h.connections
             sched == h.scheduled
             client == h.client
  <1>0. /\ conn \in [Handle -> Address \cup {kEmpty}] /\ client \in Seq(Handle)
        /\ h.pending_outgoing_connections \in Seq(Address)
    BY DEF Host
  <1>1. e \in AnyEvent
    BY MoreEvents
  <1>2. TableOn(conn, sched, client, q, ln)
    BY DEF Tabled
  <1> HIDE DEF conn, sched, client
  <1>3. (\A n \in Handle : e.handle # n) => TableOn(conn, sched, client, Tail(q), ln)
    BY <1>0, <1>2, TableTaken
  <1>4. e.do \notin {"complete", "disconnect"} => \A n \in Handle : e.handle # n
    BY <1>1, EventFacts
  <1>5. Owed(h) /\ (h.pending_outgoing_connections # <<>> => Blocked(h))
    BY WaitingMeaning
  <1>6. ASSUME NEW k \in Host, g = dequeue_next_connection(k), ~k.aborted, Owed(k),
               TableOn(k.connections, k.scheduled, k.client, Tail(q), ln)
        PROVE  ~g.aborted /\ Tabled(g, Tail(q), ln) /\ Waiting(g)
    <2>1. SameRest(g, k) /\ Waiting(g)
      BY <1>6, DequeueFacts, DequeueWaiting
    <2> QED
      BY <1>6, <2>1 DEF SameRest, Tabled
  <1>7. CASE e.do = "create_connection"
    <2>1. e.a \in Address /\ g = create_connection(h, e.a)
      BY <1>1, <1>7, EventFacts DEF Execute
    <2>2. PICK k \in Host :
            /\ g = dequeue_next_connection(k) /\ SameRest(k, h)
            /\ k.outgoing_connecting_address = h.outgoing_connecting_address
            /\ k.commands = h.commands
            /\ k.pending_outgoing_connections = Append(h.pending_outgoing_connections, e.a)
            /\ k.unanswered = h.unanswered \cup {e.a}
      BY <2>1, CreateFacts
    <2>3. Pending(k, e.a) /\ \A b : Pending(h, b) => Pending(k, b)
      <3> DEFINE s == h.pending_outgoing_connections
                 p == Append(s, e.a)
      <3>1. /\ \A i \in DOMAIN s : i \in DOMAIN p /\ p[i] = s[i]
            /\ Len(s) + 1 \in DOMAIN p /\ p[Len(s) + 1] = e.a
        BY <1>0, <2>1
      <3> HIDE DEF p, s
      <3> QED
        BY <2>2, <3>1 DEF Pending, p, s
    <2>4. Owed(k)
      BY <1>5, <2>2, <2>3 DEF Owed
    <2>5. ~k.aborted /\ TableOn(k.connections, k.scheduled, k.client, Tail(q), ln)
      BY <1>3, <1>4, <1>7, <2>2 DEF SameRest, conn, sched, client
    <2> QED
      BY <1>6, <2>2, <2>4, <2>5
  <1>8. CASE e.do = "cancel_connect" \/ e.do = "accept_status"
    <2>1. e.a \in Address /\ (g = cancel_connect(h, e.a) \/ g = h)
      BY <1>1, <1>8, EventFacts DEF Execute, on_accept_connection_status
    <2>2. /\ SameRest(g, h)
          /\ g.outgoing_connecting_address = h.outgoing_connecting_address
          /\ g.pending_outgoing_connections = h.pending_outgoing_connections
          /\ g.unanswered = h.unanswered
      <3>1. SameRest(h, h)
        BY DEF SameRest
      <3> QED
        BY <2>1, <3>1, CancelFacts
    <2>3. Waiting(g)
      BY <2>2 DEF Waiting, SameRest
    <2> QED
      BY <1>3, <1>4, <1>8, <2>2, <2>3 DEF SameRest, Tabled, conn, sched, client
  <1>9. CASE e.do = "create_status"
    <2>1. g = on_create_connection_status(h, e.status)
      BY <1>9 DEF Execute
    <2>2. CASE e.status = "success"
      <3>1. g = h
        BY <2>1, <2>2 DEF on_create_connection_status
      <3> QED
        BY <1>3, <1>4, <1>9, <3>1 DEF Tabled, conn, sched, client
    <2>3. CASE e.status # "success"
      <3>1. PICK k \in Host :
              /\ g = dequeue_next_connection(k) /\ SameRest(k, h)
              /\ k.outgoing_connecting_address = kEmpty
              /\ k.commands = h.commands
              /\ k.pending_outgoing_connections = h.pending_outgoing_connections
              /\ k.unanswered = h.unanswered \ {h.outgoing_connecting_address}
        BY <2>1, <2>3, FailFacts
      <3>2. Owed(k)
        BY <1>5, <3>1 DEF Owed, Pending
      <3>3. ~k.aborted /\ TableOn(k.connections, k.scheduled, k.client, Tail(q), ln)
        BY <1>3, <1>4, <1>9, <3>1 DEF SameRest, conn, sched, client
      <3> QED
        BY <1>6, <3>1, <3>2, <3>3
    <2> QED
      BY <2>2, <2>3
  <1>10. CASE e.do = "request"
    <2>1. e.a \in Address /\ g = on_incoming_connection(h, e.a)
      BY <1>1, <1>10, EventFacts DEF Execute
    <2>2. Answered(g, h, e.a)
      BY <2>1, IncomingFacts
    <2>3. /\ g.outgoing_connecting_address = h.outgoing_connecting_address
          /\ g.incoming_connecting_address_set # {}
          /\ g.pending_outgoing_connections = h.pending_outgoing_connections
          /\ g.connections = conn /\ g.scheduled = sched
          /\ g.aborted = h.aborted /\ g.client = client /\ g.unanswered = h.unanswered
      BY <2>2 DEF Answered, conn, sched, client
    <2>4. Waiting(g)
      BY <2>3 DEF Waiting
    <2> QED
      BY <1>3, <1>4, <1>10, <2>3, <2>4 DEF Tabled
  <1>11. CASE e.do = "complete"
    <2>1. /\ e.a \in Address /\ (e.status = "success" => e.handle \in Handle)
          /\ (e.status # "success" => \A n \in Handle : e.handle # n)
          /\ g = on_connection_complete(h, e.status, e.a, e.handle)
      BY <1>1, <1>11, EventFacts DEF Execute
    <2>2. \/ h.outgoing_connecting_address = e.a
          \/ h.outgoing_connecting_address # e.a /\ e.a \in h.incoming_connecting_address_set
      <3>1. CASE e.of = "page"
        <4>1. EndsAttempt(Head(q))
          BY <1>11, <3>1 DEF EndsAttempt
        <4>2. Head(q).a = h.outgoing_connecting_address
          BY <4>1, AttemptOver DEF AttemptsOn
        <4> QED
          BY <4>2
      <3>2. CASE e.of = "request"
        <4> DEFINE in == h.incoming_connecting_address_set
                   now == in \ {e.a}
        <4>1. RequestOn(q, e.a, in, req[e.a])
          BY <2>1 DEF AttemptsOn
        <4>2. EndsRequest(Head(q), e.a) /\ ~Asks(Head(q), e.a) /\ ~Neutral(Head(q), e.a)
          BY <1>11, <3>2 DEF EndsRequest, Asks, Neutral
        <4>3. e.a \notin now
          OBVIOUS
        <4> HIDE DEF in, now
        <4>4. e.a \in in
          BY <4>1, <4>2, <4>3, RequestTaken
        <4> QED
          BY <4>4 DEF in
      <3> QED
        BY <1>1, <1>11, <3>1, <3>2, EventFacts
    <2>3. PICK k \in Host :
            /\ g = dequeue_next_connection(k) /\ Announced(k, h, e.status, e.a, e.handle)
            /\ \/ k.outgoing_connecting_address = h.outgoing_connecting_address
               \/ h.outgoing_connecting_address = e.a
      <3>1. \/ OursOver(g, h, e.status, e.a, e.handle) /\ h.outgoing_connecting_address = e.a
            \/ TheirsOver(g, h, e.status, e.a, e.handle)
        BY <2>1, <2>2, CompleteFacts
      <3> QED
        BY <3>1 DEF OursOver, TheirsOver
    <2>4. CASE e.status # "success"
      <3>1. /\ k.connections = conn /\ k.scheduled = sched /\ k.client = client
            /\ k.aborted = h.aborted /\ k.unanswered = h.unanswered \ {e.a}
            /\ k.pending_outgoing_connections = h.pending_outgoing_connections
        BY <2>3, <2>4 DEF Announced, conn, sched, client
      <3>2. Owed(k)
        BY <1>5, <2>3, <3>1 DEF Owed, Pending
      <3>3. ~k.aborted /\ TableOn(k.connections, k.scheduled, k.client, Tail(q), ln)
        BY <1>3, <2>1, <2>4, <3>1
      <3> QED
        BY <1>6, <2>3, <3>2, <3>3
    <2>5. CASE e.status = "success"
      <3>1. PICK m \in Handle, a \in Address : m = e.handle /\ a = e.a
        BY <2>1, <2>5
      <3>2. Head(q).handle = m /\ Head(q).do = "complete" /\ a = Head(q).a
        BY <1>11, <3>1
      <3>3. /\ conn[m] = kEmpty
            /\ TableOn([conn EXCEPT ![m] = a], sched \cup {m}, client, Tail(q), ln)
        BY <1>0, <1>2, <3>2, TableBegins
      <3>4. /\ k.connections = [conn EXCEPT ![m] = a] /\ k.scheduled = sched \cup {m}
            /\ k.client = client /\ k.aborted = h.aborted
            /\ k.unanswered = h.unanswered \ {a}
            /\ k.pending_outgoing_connections = h.pending_outgoing_connections
        BY <2>3, <2>5, <3>1, <3>3 DEF Announced, conn, sched, client
      <3>5. Owed(k)
        BY <1>5, <2>3, <3>1, <3>4 DEF Owed, Pending
      <3>6. ~k.aborted /\ TableOn(k.connections, k.scheduled, k.client, Tail(q), ln)
        BY <3>3, <3>4
      <3> QED
        BY <1>6, <2>3, <3>5, <3>6
    <2> QED
      BY <2>4, <2>5
  <1>12. CASE e.do = "disconnect"
    <2>1. PICK m \in Handle : m = e.handle /\ g = on_classic_disconnect(h, m)
      BY <1>1, <1>12, EventFacts DEF Execute
    <2>2. Head(q).handle = m /\ Head(q).do = "disconnect"
      BY <1>12, <2>1
    <2>3. /\ conn[m] = kEmpty => TableOn(conn, sched, client, Tail(q), ln)
          /\ conn[m] # kEmpty =>
               /\ m \in sched
               /\ TableOn([conn EXCEPT ![m] = kEmpty], sched \ {m}, Append(client, m),
                          Tail(q), ln)
      BY <1>0, <1>2, <2>2, TableEnds
    <2>4. (h.connections[m] = kEmpty /\ g = h) \/ Removed(g, h, m)
      BY <2>1, DisconnectFacts
    <2>5. CASE h.connections[m] = kEmpty /\ g = h
      BY <2>3, <2>5 DEF Tabled, conn, sched, client
    <2>6. CASE Removed(g, h, m)
      <3>1. /\ g.outgoing_connecting_address = h.outgoing_connecting_address
            /\ g.incoming_connecting_address_set = h.incoming_connecting_address_set
            /\ g.pending_outgoing_connections = h.pending_outgoing_connections
            /\ g.unanswered = h.unanswered
        BY <2>6 DEF Removed
      <3>2. /\ g.connections = [conn EXCEPT ![m] = kEmpty] /\ g.scheduled = sched \ {m}
            /\ g.client = Append(client, m) /\ g.aborted = h.aborted
            /\ TableOn([conn EXCEPT ![m] = kEmpty], sched \ {m}, Append(client, m), Tail(q), ln)
        BY <2>3, <2>6 DEF Removed, conn, sched, client
      <3>3. Waiting(g)
        BY <3>1 DEF Waiting
      <3> QED
        BY <3>2, <3>3 DEF Tabled
    <2> QED
      BY <2>4, <2>5, <2>6
  <1> QED
    BY <1>7, <1>8, <1>9, <1>10, <1>11, <1>12 DEF Task, EventOf, Calls, Answers

Tabling == ~host.aborted /\ Tabled(host, OnTheWay, link) /\ Waiting(host)

(* The host is only read, or changed elsewhere. *)
LEMMA SameTabled ==
  ASSUME NEW g, NEW h, SameAttempt(g, h), SameTable(g, h), g.connections = h.connections,
         g.client = h.client
  PROVE  /\ ~h.aborted => ~g.aborted
         /\ Waiting(h) => Waiting(g)
         /\ \A q, ln : Tabled(h, q, ln) => Tabled(g, q, ln)
  BY DEF SameAttempt, SameTable, Waiting, Tabled

LEMMA ClientType ==
  ASSUME TypeInv
  PROVE  /\ host.client \in Seq(Handle) /\ host.connections \in [Handle -> Address \cup {kEmpty}]
         /\ link \in [Handle -> Address \cup {kEmpty}]
  BY DEF TypeInv, Host

LEMMA NoHandles ==
  \A n \in Handle : NoHandle # n
  BY ClassicAssumption

LEMMA RunTaskTable ==
  ASSUME TypeInv, AttemptsInv, TableInv, RunTask, ~host'.mistaken PROVE Tabling'
  <1>1. PICK h \in Host, e \in Task :
          /\ host.tasks # <<>> /\ e = Head(host.tasks)
          /\ h = [host EXCEPT !.tasks = Tail(host.tasks),
                              !.mistaken = host.mistaken \/ Mistakes(host, e)]
          /\ h.tasks = Tail(host.tasks) /\ h.mistaken = (host.mistaken \/ Mistakes(host, e))
          /\ host' = Execute(h, e) /\ host' \in Host
          /\ host'.tasks = Tail(host.tasks) /\ host'.mistaken = h.mistaken
          /\ hci' = hci /\ paging' = paging /\ requests' = requests /\ link' = link
    BY RunTaskFacts
  <1>2. ~host.mistaken /\ ~Mistakes(host, e)
    BY <1>1
  <1>3. /\ SameAttempt(h, host) /\ SameTable(h, host) /\ h.connections = host.connections
        /\ h.client = host.client /\ h.commands = host.commands
    <2>1. h.mistaken = host.mistaken
      BY <1>1, <1>2 DEF TypeInv, Host
    <2> QED
      BY <1>1, <2>1 DEF TypeInv, Host, SameAttempt, SameTable
  <1>4. ~Mistakes(h, e)
    BY <1>2, <1>3 DEF Mistakes, SameAttempt
  <1>5. AttemptsOn(h, OnTheWay, paging, requests)
    BY <1>2, <1>3, AttemptsMeaning, SameAttemptsOn DEF Attempting
  <1>6. ~h.aborted /\ Waiting(h) /\ Tabled(h, OnTheWay, link)
    BY <1>2, <1>3, TableMeaning, SameTabled
  <1>7. /\ OnTheWay # <<>> /\ Head(OnTheWay) = e /\ Tail(OnTheWay) = OnTheWay'
        /\ OnTheWay \in Seq(AnyEvent)
    BY <1>1, QueueTypes, RanTask DEF OnTheWay
  <1>8. paging \in SUBSET Address
    BY DEF TypeInv
  <1>9. ~host'.aborted /\ Tabled(host', Tail(OnTheWay), link) /\ Waiting(host')
    BY <1>1, <1>4, <1>5, <1>6, <1>7, <1>8, RunTable
  <1> QED
    BY <1>1, <1>7, <1>9 DEF Tabling

LEMMA RunHciTable ==
  ASSUME TypeInv, TableInv, RunHci, ~host'.mistaken PROVE Tabling'
  <1> DEFINE e == Head(hci)
             t == host.tasks
             x == [e EXCEPT !.hop = 2]
  <1>1. /\ hci # <<>> /\ link' = link
        /\ hci \in Seq(HciEvent) /\ e \in HciEvent /\ e \in AnyEvent
        /\ host \in Host /\ t \in Seq(AnyEvent) /\ hci \in Seq(AnyEvent)
    <2>1. hci # <<>> /\ link' = link /\ hci \in Seq(HciEvent)
      BY DEF RunHci, controller, TypeInv
    <2>2. e \in HciEvent
      BY <2>1
    <2> QED
      BY <2>1, <2>2, QueueTypes
  <1>2. \/ /\ hci' = Append(Tail(hci), x) /\ host' = host
           /\ e.do \in {"create_status", "accept_status", "logged", "disconnect"}
        \/ hci' = Tail(hci) /\ host' = host /\ e.do = "logged"
        \/ /\ hci' = Tail(hci) /\ e.do # "logged"
           /\ host' = [host EXCEPT !.tasks = Append(host.tasks, e)]
    BY DEF RunHci
  <1>3. x \in HciEvent /\ SameButHop(x, e)
    BY <1>1, PutOffEvent
  <1>4. x \in AnyEvent
    BY <1>3, MoreEvents
  <1>5. host.client \in Seq(Handle)
    BY ClientType
  <1> HIDE DEF e, x, t
  <1>6. CASE /\ hci' = Append(Tail(hci), x) /\ host' = host
             /\ e.do \in {"create_status", "accept_status", "logged", "disconnect"}
    <2>1. Tabling
      BY <1>6, TableMeaning DEF Tabling
    <2> DEFINE p == t \o Append(Tail(hci), x)
               q == t \o hci
               k == Len(t) + 1
    <2>2. Moved(p, q, k, x)
      BY <1>1, <1>4, PutOff
    <2>3. q[k] = e
      BY <1>1 DEF e
    <2>4. OnTheWay = q /\ OnTheWay' = p
      BY <1>6 DEF OnTheWay, t
    <2> HIDE DEF p, q, k
    <2>5. ASSUME NEW n \in Handle PROVE q[k].handle = n => q[k].do = "disconnect"
      BY <1>1, <1>6, <2>3, EventFacts
    <2>6. ASSUME NEW n \in Handle
          PROVE  /\ \A conn, ln : HandleOn(q, n, conn, ln) => HandleOn(p, n, conn, ln)
                 /\ About(q, n) = {} => About(p, n) = {}
      BY <1>3, <2>2, <2>3, <2>5, HandleMoved
    <2>7. \A i \in DOMAIN host.client : host.client[i] \in Handle
      BY <1>5
    <2>8. Tabled(host, p, link)
      BY <2>1, <2>4, <2>6, <2>7 DEF Tabling, Tabled, TableOn
    <2> QED
      BY <1>1, <1>6, <2>1, <2>4, <2>8 DEF Tabling
  <1>7. CASE hci' = Tail(hci) /\ host' = host /\ e.do = "logged"
    <2>1. Tabling
      BY <1>7, TableMeaning DEF Tabling
    <2> DEFINE q == t \o hci
               r == t \o Tail(hci)
    <2>2. Inserted(q, r, Len(t), e)
      BY <1>1, Dropped DEF e
    <2>3. OnTheWay = q /\ OnTheWay' = r
      BY <1>7 DEF OnTheWay, t
    <2>4. \A n \in Handle : e.handle # n
      BY <1>1, <1>7, EventFacts
    <2> HIDE DEF q, r
    <2>5. Tabled(host, r, link)
      BY <1>5, <2>1, <2>2, <2>3, <2>4, TableInserted DEF Tabling, Tabled
    <2> QED
      BY <1>1, <1>7, <2>1, <2>3, <2>5 DEF Tabling
  <1>8. CASE /\ hci' = Tail(hci) /\ e.do # "logged"
             /\ host' = [host EXCEPT !.tasks = Append(host.tasks, e)]
    <2>1. e \in Task
      BY <1>1, <1>8, MoreEvents
    <2>2. /\ SameAttempt(host', host) /\ SameTable(host', host) /\ host'.tasks = Append(t, e)
          /\ host'.connections = host.connections /\ host'.client = host.client
      BY <1>1, <1>8, <2>1, Posted DEF t
    <2>3. OnTheWay' = OnTheWay
      BY <1>1, <1>8, <2>2, PassedOn DEF OnTheWay, e, t
    <2>4. Tabling
      BY <2>2, TableMeaning DEF SameAttempt, Tabling
    <2>5. ~host'.aborted /\ Waiting(host') /\ Tabled(host', OnTheWay, link)
      BY <2>2, <2>4, SameTabled DEF Tabling
    <2> QED
      BY <1>1, <2>3, <2>5 DEF Tabling
  <1> QED
    BY <1>2, <1>6, <1>7, <1>8

LEMMA RunClientTable ==
  ASSUME TypeInv, TableInv, RunClient, ~host'.mistaken PROVE Tabling'
  <1>1. /\ hci' = hci /\ link' = link /\ host.client # <<>> /\ host \in Host
        /\ host' = invalidate([host EXCEPT !.client = Tail(host.client)], Head(host.client))
    BY DEF RunClient, controller, TypeInv
  <1>2. PICK n \in Handle : n = Head(host.client)
    BY <1>1, ClientType
  <1>3. /\ SameAttempt(host', host) /\ SameTable(host', host) /\ host'.tasks = host.tasks
        /\ host'.connections = [host.connections EXCEPT ![n] = kEmpty]
        /\ host'.client = Tail(host.client)
    BY <1>1, <1>2, Invalidated
  <1>4. ~host.aborted /\ Waiting(host) /\ Tabled(host, OnTheWay, link)
    BY <1>3, TableMeaning DEF SameAttempt
  <1>5. /\ host.client \in Seq(Handle)
        /\ host.connections \in [Handle -> Address \cup {kEmpty}]
    BY ClientType
  <1>6. 1 \in DOMAIN host.client /\ host.client[1] = n
    BY <1>1, <1>2, <1>5
  <1>7. host.connections[n] = kEmpty
    BY <1>4, <1>6 DEF Tabled, TableOn
  <1>8. host'.connections = host.connections
    BY <1>3, <1>5, <1>7
  <1>9. \A i \in DOMAIN Tail(host.client) :
          i + 1 \in DOMAIN host.client /\ Tail(host.client)[i] = host.client[i + 1]
    BY <1>1, <1>5
  <1>10. Tabled(host', OnTheWay, link)
    <2>1. host'.scheduled = host.scheduled
      BY <1>3 DEF SameTable
    <2>2. ASSUME NEW i \in DOMAIN host'.client
          PROVE  /\ host.connections[host'.client[i]] = kEmpty
                 /\ link[host'.client[i]] = kEmpty /\ About(OnTheWay, host'.client[i]) = {}
      <3>1. PICK j \in DOMAIN host.client : host'.client[i] = host.client[j]
        BY <1>3, <1>9
      <3>2. /\ host.connections[host.client[j]] = kEmpty /\ link[host.client[j]] = kEmpty
            /\ About(OnTheWay, host.client[j]) = {}
        BY <1>4 DEF Tabled, TableOn
      <3> QED
        BY <3>1, <3>2
    <2>3. \A m \in Handle : /\ HandleOn(OnTheWay, m, host.connections[m], link[m])
                            /\ m \in host.scheduled <=> host.connections[m] # kEmpty
      BY <1>4 DEF Tabled, TableOn
    <2>4. TableOn(host.connections, host.scheduled, host'.client, OnTheWay, link)
      BY <2>2, <2>3 DEF TableOn
    <2> QED
      BY <1>8, <2>1, <2>4 DEF Tabled
  <1>11. ~host'.aborted /\ Waiting(host')
    BY <1>3, <1>4 DEF SameAttempt, SameTable, Waiting
  <1> QED
    BY <1>1, <1>3, <1>10, <1>11 DEF Tabling, OnTheWay

LEMMA CallTable ==
  ASSUME TypeInv, TableInv, NEW do \in Calls, NEW a \in Address, Call(do, a), ~host'.mistaken
  PROVE  Tabling'
  <1> DEFINE t == host.tasks
  <1>1. PICK x \in Task : x = Event(do, a, NoHandle, "", "")
    BY NewEvents
  <1>2. /\ hci' = hci /\ link' = link
        /\ host' = [host EXCEPT !.tasks = Append(t, x)]
    BY <1>1 DEF Call, controller
  <1>3. x \in AnyEvent /\ \A n \in Handle : x.handle # n
    <2>1. x.handle = NoHandle
      BY <1>1 DEF Event
    <2> QED
      BY <2>1, MoreEvents, NoHandles
  <1>4. /\ SameAttempt(host', host) /\ SameTable(host', host) /\ host'.tasks = Append(t, x)
        /\ host'.connections = host.connections /\ host'.client = host.client
    BY <1>2, Posted, QueueTypes
  <1>5. Inserted(OnTheWay', OnTheWay, Len(t), x)
    BY <1>2, <1>3, <1>4, QueueTypes, PostedTask DEF OnTheWay
  <1>6. ~host.aborted /\ Waiting(host) /\ Tabled(host, OnTheWay, link)
    BY <1>4, TableMeaning DEF SameAttempt
  <1>7. Tabled(host, OnTheWay', link)
    BY <1>3, <1>5, <1>6, TableInserted, ClientType DEF Tabled
  <1>8. ~host'.aborted /\ Waiting(host') /\ Tabled(host', OnTheWay', link)
    BY <1>4, <1>6, <1>7, SameTabled
  <1> QED
    BY <1>2, <1>8 DEF Tabling

(* A command is executed: its answer, and perhaps another event, without a *)
(* handle.                                                                 *)
LEMMA ExecuteTable ==
  ASSUME TypeInv, AttemptsInv, TableInv, ~host'.mistaken, link' = link, NEW op, CanExecute(op),
         NEW x \in HciEvent, x.handle = NoHandle,
         \/ hci' = Append(hci, x)
         \/ \E y \in HciEvent : y.handle = NoHandle /\ hci' = Append(Append(hci, x), y)
  PROVE  Tabling'
  <1>1. /\ SameAttempt(host', host) /\ SameTable(host', host) /\ host'.tasks = host.tasks
        /\ host'.connections = host.connections /\ host'.client = host.client
    BY SentFacts
  <1>2. ~host.aborted /\ Waiting(host) /\ Tabled(host, OnTheWay, link)
    BY <1>1, TableMeaning DEF SameAttempt
  <1>3. /\ OnTheWay \in Seq(AnyEvent) /\ x \in AnyEvent /\ hci \in Seq(AnyEvent)
        /\ host.tasks \in Seq(AnyEvent)
        /\ host.tasks \o Append(hci, x) = Append(OnTheWay, x)
    BY QueueTypes
  <1>4. \A n \in Handle : x.handle # n
    BY NoHandles
  <1>5. Tabled(host, Append(OnTheWay, x), link)
    BY <1>2, <1>3, <1>4, TableArrives, ClientType DEF Tabled
  <1>6. CASE hci' = Append(hci, x)
    <2>1. OnTheWay' = Append(OnTheWay, x)
      BY <1>1, <1>3, <1>6 DEF OnTheWay
    <2>2. ~host'.aborted /\ Waiting(host') /\ Tabled(host', Append(OnTheWay, x), link)
      BY <1>1, <1>2, <1>5, SameTabled
    <2> QED
      BY <2>1, <2>2 DEF Tabling
  <1>7. ASSUME NEW y \in HciEvent, y.handle = NoHandle, hci' = Append(Append(hci, x), y)
        PROVE  Tabling'
    <2>1. y \in AnyEvent /\ \A n \in Handle : y.handle # n
      BY <1>7, MoreEvents, NoHandles
    <2>2. PICK t \in Seq(AnyEvent), s \in Seq(AnyEvent) : t = host.tasks /\ s = Append(hci, x)
      <3>1. Append(hci, x) \in Seq(AnyEvent)
        BY <1>3
      <3> QED
        BY <1>3, <3>1
    <2>3. t \o Append(s, y) = Append(t \o s, y)
      BY ONLY t \in Seq(AnyEvent), s \in Seq(AnyEvent), <2>1, Arrived
    <2>4. OnTheWay' = t \o Append(s, y)
      BY <1>1, <1>7, <2>2 DEF OnTheWay
    <2>5. OnTheWay' = Append(Append(OnTheWay, x), y)
      BY <1>3, <2>2, <2>3, <2>4
    <2>6. PICK q \in Seq(AnyEvent) : q = Append(OnTheWay, x)
      <3>1. Append(OnTheWay, x) \in Seq(AnyEvent)
        BY <1>3
      <3> QED
        BY <3>1
    <2>7. Tabled(host, Append(q, y), link)
      BY <1>5, <2>1, <2>6, TableArrives, ClientType DEF Tabled
    <2>8. ~host'.aborted /\ Waiting(host') /\ Tabled(host', Append(q, y), link)
      BY <1>1, <1>2, <2>7, SameTabled
    <2> QED
      BY <2>5, <2>6, <2>8 DEF Tabling
  <1> QED
    BY <1>6, <1>7

(* A handle that the host has forgotten is nowhere on the way. *)
LEMMA ForgottenFacts ==
  ASSUME TypeInv, NEW n \in Handle, Forgotten(n)
  PROVE  About(OnTheWay, n) = {}
  <1>1. host.tasks \in Seq(AnyEvent) /\ hci \in Seq(AnyEvent)
    BY QueueTypes
  <1>2. /\ \A i \in DOMAIN hci : hci[i].handle # n
        /\ \A i \in DOMAIN host.tasks : host.tasks[i].handle # n
    BY DEF Forgotten
  <1>3. \A i \in DOMAIN OnTheWay :
          \/ i \in DOMAIN host.tasks /\ OnTheWay[i] = host.tasks[i]
          \/ i - Len(host.tasks) \in DOMAIN hci /\ OnTheWay[i] = hci[i - Len(host.tasks)]
    BY <1>1 DEF OnTheWay
  <1> QED
    BY <1>2, <1>3 DEF About

LEMMA EventArrives ==
  ASSUME TypeInv, TableInv, host' = host, ~host'.mistaken, NEW x \in HciEvent,
         hci' = Append(hci, x)
  PROVE  /\ Tabling /\ OnTheWay' = Append(OnTheWay, x)
         /\ x \in AnyEvent /\ OnTheWay \in Seq(AnyEvent)
  BY QueueTypes, TableMeaning DEF OnTheWay, Tabling

LEMMA OtherArrives ==
  ASSUME NEW q \in Seq(AnyEvent), NEW x \in AnyEvent, NEW n, x.handle # n
  PROVE  /\ \A conn, ln : HandleOn(q, n, conn, ln) => HandleOn(Append(q, x), n, conn, ln)
         /\ About(q, n) = {} => About(Append(q, x), n) = {}
  <1>1. Inserted(Append(q, x), q, Len(q), x)
    BY Appended DEF Inserted
  <1> QED
    BY <1>1, HandleInserted

(* An event without a handle. *)
LEMMA PlainArrives ==
  ASSUME TypeInv, TableInv, host' = host, link' = link, ~host'.mistaken, NEW x \in HciEvent,
         hci' = Append(hci, x), x.handle = NoHandle
  PROVE  Tabling'
  <1>1. /\ Tabling /\ OnTheWay' = Append(OnTheWay, x)
        /\ x \in AnyEvent /\ OnTheWay \in Seq(AnyEvent)
    BY EventArrives
  <1>2. \A n \in Handle : x.handle # n
    BY NoHandles
  <1>3. Tabled(host, Append(OnTheWay, x), link)
    BY <1>1, <1>2, TableArrives, ClientType DEF Tabled, Tabling
  <1> QED
    BY <1>1, <1>3 DEF Tabling

LEMMA EndsTable ==
  ASSUME ~ReusesHandles, TypeInv, TableInv, NEW a \in Address, NEW of \in {"page", "request"},
         Ends(a, of), ~host'.mistaken
  PROVE  Tabling'
  <1>1. host' = host
    BY DEF Ends
  <1>2. CASE hci' = Append(hci, Complete(a, NoHandle, "failed", of)) /\ UNCHANGED link
    <2>1. PICK x \in HciEvent : x = Complete(a, NoHandle, "failed", of)
      BY NewEvents
    <2>2. x.handle = NoHandle
      BY <2>1 DEF Complete, Event
    <2> QED
      BY <1>1, <1>2, <2>1, <2>2, PlainArrives
  <1>3. ASSUME NEW m \in FreeHandles, link' = [link EXCEPT ![m] = a],
               hci' = Append(hci, Complete(a, m, "success", of))
        PROVE  Tabling'
    <2>1. m \in Handle /\ link[m] = kEmpty /\ Forgotten(m)
      BY DEF FreeHandles
    <2>2. PICK x \in HciEvent : x = Complete(a, m, "success", of)
      BY <2>1, NewEvents
    <2>3. x.handle = m /\ x.do = "complete" /\ x.a = a /\ a # kEmpty
      BY <2>2, ClassicAssumption DEF Complete, Event
    <2>4. /\ Tabling /\ OnTheWay' = Append(OnTheWay, x)
          /\ x \in AnyEvent /\ OnTheWay \in Seq(AnyEvent)
      BY <1>1, <1>3, <2>2, EventArrives
    <2>5. About(OnTheWay, m) = {} /\ host.connections[m] = kEmpty
          /\ \A i \in DOMAIN host.client : host.client[i] # m
      BY <2>1, ForgottenFacts DEF Forgotten
    <2> DEFINE p == Append(OnTheWay, x)
    <2>6. HandleOn(p, m, kEmpty, a)
      BY <2>3, <2>4, <2>5, HandleBegins
    <2>7. ASSUME NEW n \in Handle, n # m
          PROVE  /\ \A conn, ln : HandleOn(OnTheWay, n, conn, ln) => HandleOn(p, n, conn, ln)
                 /\ About(OnTheWay, n) = {} => About(p, n) = {}
      BY <2>3, <2>4, <2>7, OtherArrives
    <2> HIDE DEF p
    <2>8. /\ link'[m] = a /\ \A n \in Handle : n # m => link'[n] = link[n]
          /\ host.client \in Seq(Handle)
      BY <1>3, <2>1, ClientType
    <2>9. ASSUME NEW n \in Handle
          PROVE  /\ HandleOn(p, n, host.connections[n], link'[n])
                 /\ n \in host.scheduled <=> host.connections[n] # kEmpty
      <3>1. /\ HandleOn(OnTheWay, n, host.connections[n], link[n])
            /\ n \in host.scheduled <=> host.connections[n] # kEmpty
        BY <2>4 DEF Tabling, Tabled, TableOn
      <3>2. CASE n = m
        BY <2>5, <2>6, <2>8, <3>1, <3>2
      <3>3. CASE n # m
        BY <2>7, <2>8, <3>1, <3>3
      <3> QED
        BY <3>2, <3>3
    <2>10. ASSUME NEW i \in DOMAIN host.client
           PROVE  /\ host.connections[host.client[i]] = kEmpty
                  /\ link'[host.client[i]] = kEmpty /\ About(p, host.client[i]) = {}
      <3>1. /\ host.connections[host.client[i]] = kEmpty /\ link[host.client[i]] = kEmpty
            /\ About(OnTheWay, host.client[i]) = {}
        BY <2>4 DEF Tabling, Tabled, TableOn
      <3>2. host.client[i] \in Handle /\ host.client[i] # m
        BY <2>5, <2>8
      <3> QED
        BY <2>7, <2>8, <3>1, <3>2
    <2>11. Tabled(host, p, link')
      BY <2>9, <2>10 DEF Tabled, TableOn
    <2> QED
      BY <1>1, <2>4, <2>11 DEF Tabling, p
  <1> QED
    BY <1>2, <1>3 DEF Ends

LEMMA LinkEndsTable ==
  ASSUME TypeInv, TableInv, NEW m \in Handle, LinkEnds(m), ~host'.mistaken
  PROVE  Tabling'
  <1>1. host' = host /\ link[m] # kEmpty /\ link' = [link EXCEPT ![m] = kEmpty]
    BY DEF LinkEnds
  <1>2. PICK x \in HciEvent : x = Event("disconnect", kEmpty, m, "", "")
    BY NewEvents
  <1>3. hci' = Append(hci, x)
    BY <1>2 DEF LinkEnds
  <1>4. x.handle = m /\ x.do = "disconnect"
    BY <1>2 DEF Event
  <1>5. /\ Tabling /\ OnTheWay' = Append(OnTheWay, x)
        /\ x \in AnyEvent /\ OnTheWay \in Seq(AnyEvent)
    BY <1>1, <1>3, EventArrives
  <1> DEFINE p == Append(OnTheWay, x)
  <1>6. HandleOn(p, m, host.connections[m], kEmpty)
    <2>1. HandleOn(OnTheWay, m, host.connections[m], link[m])
      BY <1>5 DEF Tabling, Tabled, TableOn
    <2> QED
      BY <1>1, <1>4, <1>5, <2>1, HandleEnds
  <1>7. ASSUME NEW n \in Handle, n # m
        PROVE  /\ \A conn, ln : HandleOn(OnTheWay, n, conn, ln) => HandleOn(p, n, conn, ln)
               /\ About(OnTheWay, n) = {} => About(p, n) = {}
    BY <1>4, <1>5, <1>7, OtherArrives
  <1> HIDE DEF p
  <1>8. /\ link'[m] = kEmpty /\ \A n \in Handle : n # m => link'[n] = link[n]
        /\ host.client \in Seq(Handle)
    BY <1>1, ClientType
  <1>9. ASSUME NEW n \in Handle
        PROVE  /\ HandleOn(p, n, host.connections[n], link'[n])
               /\ n \in host.scheduled <=> host.connections[n] # kEmpty
    <2>1. /\ HandleOn(OnTheWay, n, host.connections[n], link[n])
          /\ n \in host.scheduled <=> host.connections[n] # kEmpty
      BY <1>5 DEF Tabling, Tabled, TableOn
    <2>2. CASE n = m
      BY <1>6, <1>8, <2>1, <2>2
    <2>3. CASE n # m
      BY <1>7, <1>8, <2>1, <2>3
    <2> QED
      BY <2>2, <2>3
  <1>10. ASSUME NEW i \in DOMAIN host.client
         PROVE  /\ host.connections[host.client[i]] = kEmpty
                /\ link'[host.client[i]] = kEmpty /\ About(p, host.client[i]) = {}
    <2>1. /\ host.connections[host.client[i]] = kEmpty /\ link[host.client[i]] = kEmpty
          /\ About(OnTheWay, host.client[i]) = {}
      BY <1>5 DEF Tabling, Tabled, TableOn
    <2>2. host.client[i] \in Handle /\ host.client[i] # m
      BY <1>1, <1>8, <2>1
    <2> QED
      BY <1>7, <1>8, <2>1, <2>2
  <1>11. Tabled(host, p, link')
    BY <1>9, <1>10 DEF Tabled, TableOn
  <1> QED
    BY <1>1, <1>5, <1>11 DEF Tabling, p

LEMMA TableStep ==
  ASSUME ~ReusesHandles, TypeInv, AttemptsInv, TableInv, [Next]_vars PROVE TableInv'
  <1> SUFFICES ASSUME ~host'.mistaken PROVE Tabling'
    BY DEF TableInv, HandleInv, Tabling, Tabled, TableOn
  <1>1. CASE RunTask
    BY <1>1, RunTaskTable
  <1>2. CASE RunHci
    BY <1>2, RunHciTable
  <1>3. CASE RunClient
    BY <1>3, RunClientTable
  <1>4. ASSUME NEW ok \in BOOLEAN, ExecuteCreate(ok) PROVE Tabling'
    <2>1. CanExecute("create") /\ link' = link
      BY <1>4 DEF ExecuteCreate
    <2>2. PICK a \in Address, s \in {"success", "failed"} :
            hci' = Append(hci, Event("create_status", a, NoHandle, s, ""))
      BY <1>4, <2>1, SentFacts DEF ExecuteCreate
    <2>3. PICK x \in HciEvent : x = Event("create_status", a, NoHandle, s, "")
      BY NewEvents DEF Answers
    <2>4. x.handle = NoHandle
      BY <2>3 DEF Event
    <2> QED
      BY <2>1, <2>2, <2>3, <2>4, ExecuteTable
  <1>5. CASE ExecuteAccept
    <2>1. CanExecute("accept") /\ link' = link
      BY <1>5 DEF ExecuteAccept
    <2>2. PICK a \in Address, s \in {"success", "failed"} :
            hci' = Append(hci, Event("accept_status", a, NoHandle, s, ""))
      BY <1>5, <2>1, SentFacts DEF ExecuteAccept
    <2>3. PICK x \in HciEvent : x = Event("accept_status", a, NoHandle, s, "")
      BY NewEvents DEF Answers
    <2>4. x.handle = NoHandle
      BY <2>3 DEF Event
    <2> QED
      BY <2>1, <2>2, <2>3, <2>4, ExecuteTable
  <1>6. CASE ExecuteReject \/ ExecuteCancel
    <2>1. PICK op : CanExecute(op) /\ link' = link
      BY <1>6 DEF ExecuteReject, ExecuteCancel
    <2>2. PICK a \in Address : a = command[2]
      BY <2>1, SentFacts
    <2>3. PICK x \in HciEvent : x = Event("logged", a, NoHandle, "", "")
      BY NewEvents
    <2>4. PICK y \in HciEvent : y = Complete(a, NoHandle, "failed", "request")
      BY NewEvents
    <2>5. PICK z \in HciEvent : z = Complete(a, NoHandle, "unknown_connection", "page")
      BY NewEvents
    <2>6. \/ hci' = Append(hci, x)
          \/ hci' = Append(Append(hci, x), y)
          \/ hci' = Append(Append(hci, x), z)
      BY <1>6, <2>2, <2>3, <2>4, <2>5 DEF ExecuteReject, ExecuteCancel
    <2>7. x.handle = NoHandle /\ y.handle = NoHandle /\ z.handle = NoHandle
      BY <2>3, <2>4, <2>5 DEF Complete, Event
    <2> QED
      BY <2>1, <2>6, <2>7, ExecuteTable
  <1>7. CASE \E a \in Address : CreateConnection(a) \/ CancelConnect(a)
    <2>1. PICK a \in Address, do \in Calls : Call(do, a)
      BY <1>7 DEF CreateConnection, CancelConnect, Calls
    <2> QED
      BY <2>1, CallTable
  <1>8. CASE \E a \in Address : PageEnds(a) \/ AcceptEnds(a)
    <2>1. PICK a \in Address, of \in {"page", "request"} : Ends(a, of)
      BY <1>8 DEF PageEnds, AcceptEnds
    <2> QED
      BY <2>1, EndsTable
  <1>9. ASSUME NEW a \in Address, PeerRequests(a) \/ RequestExpires(a) PROVE Tabling'
    <2>1. host' = host /\ link' = link
      BY <1>9 DEF PeerRequests, RequestExpires
    <2>2. PICK x \in HciEvent : x = Event("request", a, NoHandle, "", "")
      BY NewEvents
    <2>3. PICK y \in HciEvent : y = Complete(a, NoHandle, "failed", "request")
      BY NewEvents
    <2>4. hci' = Append(hci, x) \/ hci' = Append(hci, y)
      BY <1>9, <2>2, <2>3 DEF PeerRequests, RequestExpires
    <2>5. x.handle = NoHandle /\ y.handle = NoHandle
      BY <2>2, <2>3 DEF Complete, Event
    <2> QED
      BY <2>1, <2>4, <2>5, PlainArrives
  <1>10. CASE \E n \in Handle : LinkEnds(n)
    BY <1>10, LinkEndsTable
  <1>11. CASE UNCHANGED vars
    <2>1. host' = host /\ hci' = hci /\ link' = link
      BY <1>11 DEF vars, controller
    <2>2. Tabling
      BY <2>1, TableMeaning DEF Tabling
    <2> QED
      BY <2>1, <2>2 DEF Tabling, OnTheWay
  <1> QED
    BY <1>1, <1>2, <1>3, <1>4, <1>5, <1>6, <1>7, <1>8, <1>9, <1>10, <1>11 DEF Next

(***************************************************************************)
(* The results.                                                            *)
(***************************************************************************)
LEMMA EmptyWay ==
  ASSUME NEW q, q = <<>>
  PROVE  DOMAIN q = {} /\ Len(q) = 0 /\ (\A n : About(q, n) = {})
  BY DEF About

LEMMA NothingUnderWay ==
  ASSUME Init
  PROVE  /\ OnTheWay = <<>> /\ host.commands = <<>> /\ host.client = <<>>
         /\ host.outgoing_connecting_address = kEmpty
         /\ host.incoming_connecting_address_set = {}
         /\ host.pending_outgoing_connections = <<>> /\ host.unanswered = {}
         /\ ~host.aborted /\ host.scheduled = {} /\ paging = {}
         /\ host.connections = [n \in Handle |-> kEmpty]
         /\ link = [n \in Handle |-> kEmpty] /\ requests = [a \in Address |-> "none"]
  BY DEF Init, OnTheWay

LEMMA AttemptsInit == Init => AttemptsInv
  <1> SUFFICES ASSUME Init PROVE Attempting
    BY AttemptsMeaning
  <1>1. DOMAIN OnTheWay = {} /\ Len(OnTheWay) = 0 /\ Creates(host.commands) = {}
    BY NothingUnderWay, EmptyWay DEF Creates
  <1>2. AttemptOn(OnTheWay, host.outgoing_connecting_address, paging, host.commands)
    BY <1>1, NothingUnderWay DEF AttemptOn
  <1>3. ASSUME NEW a \in Address
        PROVE  RequestOn(OnTheWay, a, host.incoming_connecting_address_set, requests[a])
    <2>1. Replays({}, OnTheWay, a)
      BY <1>1 DEF Replays
    <2>2. a \notin host.incoming_connecting_address_set /\ requests[a] = "none"
      BY NothingUnderWay
    <2>3. {} \in SUBSET Nat
      OBVIOUS
    <2> QED
      BY <2>1, <2>2, <2>3 DEF RequestOn
  <1> QED
    BY <1>2, <1>3 DEF Attempting, AttemptsOn

LEMMA TableInit == Init => TableInv
  <1> SUFFICES ASSUME Init PROVE Tabling
    BY TableMeaning DEF Tabling
  <1>1. /\ DOMAIN host.client = {} /\ \A n : About(OnTheWay, n) = {}
        /\ DOMAIN host.pending_outgoing_connections = {}
    BY NothingUnderWay, EmptyWay
  <1>2. \A n \in Handle : host.connections[n] = kEmpty /\ link[n] = kEmpty
    BY NothingUnderWay
  <1>3. \A n \in Handle : HandleOn(OnTheWay, n, host.connections[n], link[n])
    BY <1>1, <1>2 DEF HandleOn
  <1>4. Tabled(host, OnTheWay, link)
    BY <1>1, <1>2, <1>3, NothingUnderWay DEF Tabled, TableOn
  <1>5. Waiting(host) /\ ~host.aborted
    BY NothingUnderWay DEF Waiting
  <1> QED
    BY <1>4, <1>5 DEF Tabling

LEMMA TypesImplyTypeOK == TypeInv => TypeOK
  BY DEF TypeInv, TypeOK, Host

(* The types of the tasks, events and commands on their way included,      *)
(* everything stays what it should be; and while no end of a peer's        *)
(* attempt has been taken for the end of ours, each attempt of             *)
(* dequeue_next_connection is in one place, and                            *)
(* incoming_connecting_address_set_ is what the controller's requests were *)
(* before the events on their way.                                         *)
THEOREM AttemptsHold == Spec => [](TypeInv /\ AttemptsInv)
  <1>1. Init => TypeInv /\ AttemptsInv
    BY TypesInit, AttemptsInit
  <1>2. TypeInv /\ AttemptsInv /\ [Next]_vars => (TypeInv /\ AttemptsInv)'
    BY TypesStep, AttemptsStep
  <1> QED
    BY <1>1, <1>2, PTL DEF Spec

(* dequeue_next_connection sends a create connection command only when the *)
(* controller has finished with the one before, however answers,           *)
(* completions, requests and cancellations are ordered.                    *)
THEOREM OneAttemptAtATime == Spec => []OneAttempt
  <1>1. AttemptsInv => OneAttempt
    <2> SUFFICES ASSUME AttemptsInv, ~host.mistaken, paging # {},
                        NEW i \in DOMAIN host.commands, host.commands[i][1] = "create"
                 PROVE  FALSE
      BY DEF OneAttempt
    <2>1. i \in Creates(host.commands)
      BY DEF Creates
    <2> QED
      BY <2>1 DEF AttemptsInv, AttemptInv, AttemptOn
  <1> QED
    BY <1>1, AttemptsHold, PTL

(* If the controller leaves a handle alone until the host has forgotten    *)
(* it, the table of connections, the handles registered with the round     *)
(* robin, the callbacks to the client and the events on their way agree    *)
(* for every handle, and whatever waits or is unanswered has a reason.     *)
THEOREM TableHolds ==
  ASSUME ~ReusesHandles PROVE Spec => [](TypeInv /\ AttemptsInv /\ TableInv)
  <1>1. Init => TypeInv /\ AttemptsInv /\ TableInv
    BY TypesInit, AttemptsInit, TableInit
  <1>2. TypeInv /\ AttemptsInv /\ TableInv /\ [Next]_vars => (TypeInv /\ AttemptsInv /\ TableInv)'
    BY TypesStep, AttemptsStep, TableStep
  <1> QED
    BY <1>1, <1>2, PTL DEF Spec

(* connections.add finds its handle free, Unregister finds the handle in   *)
(* the scheduler, and no cancelled attempt ends without a matching entry.  *)
THEOREM NoAssertion ==
  ASSUME ~ReusesHandles PROVE Spec => []Consistent
  <1>1. TypeInv /\ TableInv => Consistent
    BY TypesImplyTypeOK DEF TableInv, Consistent, NoAssertionFails
  <1>2. Spec => [](TypeInv /\ AttemptsInv /\ TableInv)
    BY TableHolds
  <1> QED
    BY <1>1, <1>2, PTL

LEMMA Rest ==
  ASSUME TypeInv, Delivered
  PROVE  OnTheWay = <<>> /\ Creates(host.commands) = {}
  BY DEF Delivered, OnTheWay, Creates

(* When every event and callback has been delivered, the table and the     *)
(* scheduler's handles are the controller's connections; when the          *)
(* controller has nothing under way either, no request waits and each      *)
(* CreateConnection has been answered.                                     *)
THEOREM EverythingSettles ==
  ASSUME ~ReusesHandles PROVE Spec => []Settled
  <1>1. ASSUME TypeInv, TableInv PROVE TableAgrees
    <2> SUFFICES ASSUME Delivered, ~host.mistaken
                 PROVE  /\ host.connections = link
                        /\ host.scheduled = {n \in Handle : link[n] # kEmpty}
      BY DEF TableAgrees
    <2>1. Tabled(host, OnTheWay, link)
      BY <1>1, TableMeaning
    <2>2. \A n : About(OnTheWay, n) = {}
      BY <1>1, Rest, EmptyWay
    <2>3. \A n \in Handle : /\ host.connections[n] = link[n]
                            /\ n \in host.scheduled <=> host.connections[n] # kEmpty
      BY <2>1, <2>2 DEF Tabled, TableOn, HandleOn
    <2>4. host.connections = link
      BY <1>1, <2>3, ClientType
    <2>5. host.scheduled \subseteq Handle
      BY <1>1 DEF TypeInv, Host
    <2> QED
      BY <2>3, <2>4, <2>5
  <1>2. ASSUME TypeInv, AttemptsInv, TableInv PROVE NothingStuck
    <2> SUFFICES ASSUME AtRest, ~host.mistaken
                 PROVE  /\ host.outgoing_connecting_address = kEmpty
                        /\ host.incoming_connecting_address_set = {}
                        /\ host.pending_outgoing_connections = <<>>
                        /\ host.unanswered = {}
      BY DEF NothingStuck
    <2>1. /\ OnTheWay = <<>> /\ Creates(host.commands) = {} /\ paging = {}
          /\ \A a \in Address : requests[a] = "none"
      BY <1>2, Rest DEF AtRest
    <2>2. DOMAIN OnTheWay = {} /\ Len(OnTheWay) = 0
      BY <2>1, EmptyWay
    <2>3. Attempting /\ Waiting(host)
      BY <1>2, AttemptsMeaning, TableMeaning
    <2>4. host.outgoing_connecting_address = kEmpty
      BY <2>1, <2>2, <2>3 DEF Attempting, AttemptsOn, AttemptOn
    <2>5. \A a \in Address : a \notin host.incoming_connecting_address_set
      <3> TAKE a \in Address
      <3>1. RequestOn(OnTheWay, a, host.incoming_connecting_address_set, requests[a])
        BY <2>3 DEF Attempting, AttemptsOn
      <3> QED
        BY <2>1, <2>2, <3>1 DEF RequestOn
    <2>6. host.incoming_connecting_address_set \subseteq Address /\ host.unanswered \subseteq Address
      BY <1>2 DEF TypeInv, Host
    <2>7. host.incoming_connecting_address_set = {}
      BY <2>5, <2>6
    <2>8. host.pending_outgoing_connections = <<>>
      BY <2>3, <2>4, <2>7 DEF Waiting
    <2>9. DOMAIN host.pending_outgoing_connections = {}
      BY <2>8, EmptyWay
    <2>10. host.unanswered = {}
      BY <2>3, <2>4, <2>6, <2>9, ClassicAssumption DEF Waiting
    <2> QED
      BY <2>4, <2>7, <2>8, <2>10
  <1>3. TypeInv /\ AttemptsInv /\ TableInv => Settled
    BY <1>1, <1>2 DEF Settled
  <1>4. Spec => [](TypeInv /\ AttemptsInv /\ TableInv)
    BY TableHolds
  <1> QED
    BY <1>3, <1>4, PTL
=============================================================================
