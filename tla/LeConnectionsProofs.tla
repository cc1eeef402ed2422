------------------------ MODULE LeConnectionsProofs ------------------------
(***************************************************************************)
(* Proofs about the LE connections: what le_impl and the address manager   *)
(* guarantee to the controller, for any set of peers and any number of     *)
(* calls.                                                                  *)
(*                                                                         *)
(* Every operation is a function from a record h to a record, so that the  *)
(* inductive invariant is a predicate All(h, x) of such a record, and each *)
(* operation has a lemma: All holds of its result if it holds of h.  x is  *)
(* what is known besides: the clients that have raced, the requests whose  *)
(* alarms are set, the changes of the accept list that are being made but  *)
(* are in no queue yet, and how far the registration of the scanner is.    *)
(***************************************************************************)
EXTENDS LeConnections, SequenceTheorems, TLAPS

(***************************************************************************)
(* Types.                                                                  *)
(***************************************************************************)
ListCommand == ({"add", "remove"} \X Address) \cup ({"clear"} \X {NoAddress})
ResolvingName == {"resolution_off", "resolving_list", "resolution_on"}
CachedCommand == ListCommand \cup ((ResolvingName \cup {"rotate", "update_irk"}) \X {NoAddress})
UseName == {"create", "cancel", "scan_on", "scan_off"}
SentCommand ==
  ListCommand \cup ((ResolvingName \cup UseName \cup {"set_random_address"}) \X {NoAddress})

ClientTask == {"register_client", "unregister_client", "ack_pause", "ack_resume"}
PlainTask ==
  {"pause_registered_clients", "resume_registered_clients", "handle_next_command",
   "check_cached_commands", "set_privacy_policy", "prepare_to_update_irk",
   "arm_connectability", "clear_connect_list", "change_resolving_list",
   "clear_resolving_list", "OnCommandComplete"}
AddressTask ==
  {"cancel_and_remove", "add_to_background", "remove_from_background",
   "remove_device_from_connect_list", "peripheral", "peripheral_invalid", "disconnect"}
AnswerTask == {"on_create_connection", "on_cancel_complete"}
CreateArgument == (Address \X {TRUE} \X BOOLEAN) \cup ({NoAddress} \X {FALSE} \X {FALSE})
CentralArgument ==
  ({"success", "failed", "invalid_parameters"} \X Address)
    \cup ({"unknown_connection"} \X (Address \cup {NoAddress}))

Task ==
  (ClientTask \X Client) \cup (PlainTask \X {"le", NoAddress})
    \cup (AddressTask \X Address) \cup (AnswerTask \X {"success", "disallowed"})
    \cup ({"push_command"} \X ListCommand) \cup ({"create_le_connection"} \X CreateArgument)
    \cup ({"central"} \X CentralArgument)

Host ==
  [registered_clients : [Client -> ClientStates \cup {Absent}],
   address_policy : {"USE_PUBLIC_ADDRESS", "USE_RESOLVABLE_ADDRESS"},
   cached_commands : Seq(CachedCommand), rotation_alarm : BOOLEAN,
   scan_registered : BOOLEAN, scan_paused : BOOLEAN,
   is_scanning : BOOLEAN, scan_on_resume : BOOLEAN,
   connectability_state : ConnectabilityState, pause_connection : BOOLEAN,
   arm_on_resume : BOOLEAN, address_manager_registered : BOOLEAN,
   ready_to_unregister : BOOLEAN, connecting_le : SUBSET Address,
   direct_connections : SUBSET Address, background_connections : SUBSET Address,
   connect_list : SUBSET Address, connections : SUBSET Address,
   timeout_alarms : SUBSET Address,
   tasks : Seq(Task), commands : Seq(SentCommand)]

Mode == {"synced", "pending", "joining", "leaving", "acking"}
Context ==
  [raced : SUBSET Client, asked : SUBSET Address,
   pushing : Seq(ListCommand), posting : Seq(ListCommand), mode : Mode]

(***************************************************************************)
(* The parts of the invariant.                                             *)
(***************************************************************************)
At(s, name) == {i \in DOMAIN s : s[i][1] = name}

(* What runs, or is started by a command before position n, is stopped by  *)
(* a later command before n.                                               *)
Off(s, on, off, running, n) ==
  /\ \A i \in At(s, on) : i < n => \E j \in At(s, off) : i < j /\ j < n
  /\ running => \E j \in At(s, off) : j < n

CancelledBefore(h, n) == Off(h.commands, "create", "cancel", initiating, n)
Cancelled(h) == CancelledBefore(h, Len(h.commands) + 1)
ScanOffBefore(h, n) == Off(h.commands, "scan_on", "scan_off", scanning, n)
ScanOff(h) == ScanOffBefore(h, Len(h.commands) + 1)

(* There is at most one attempt to connect: its command is on its way, the *)
(* controller initiates, or the event that ends it is.  The state of       *)
(* le_impl tells whether there is one.                                     *)
OneAttempt(h) ==
  /\ \A i, j \in At(h.commands, "create") : i = j
  /\ \A i, j \in At(h.tasks, "central") : i = j
  /\ initiating => At(h.commands, "create") = {} /\ At(h.tasks, "central") = {}
  /\ At(h.commands, "create") # {} => At(h.tasks, "central") = {}

Attempting(h) ==
  At(h.commands, "create") # {} \/ initiating \/ At(h.tasks, "central") # {}

(* The answer to a create connection command is that it was accepted, and  *)
(* comes before the event that ends the attempt.                           *)
AnswersInOrder(h) ==
  \A i \in At(h.tasks, "on_create_connection") :
    /\ h.tasks[i][2] = "success"
    /\ initiating \/ \E j \in At(h.tasks, "central") : i < j

StateFits(h) ==
  /\ h.connectability_state # "DISARMED" <=> Attempting(h)
  /\ h.connectability_state = "ARMING" =>
       At(h.commands, "create") # {} \/ At(h.tasks, "on_create_connection") # {}
  /\ h.connectability_state = "DISARMING" => Cancelled(h)

Attempt(h) == OneAttempt(h) /\ AnswersInOrder(h) /\ StateFits(h)

Changing(c) == c[1] \notin UseName
ChangingAddress(c) == Changing(c) /\ c[1] \notin {"add", "remove", "clear"}

(* While the address manager takes le_impl for paused, or does not know of *)
(* it, its attempt is cancelled, and so it is before every change.         *)
Held(h) ==
  /\ h.registered_clients["le"] \in {"PAUSED", Absent} => Cancelled(h)
  /\ \A n \in DOMAIN h.commands : Changing(h.commands[n]) => CancelledBefore(h, n)

ScanState(h) ==
  /\ h.scan_paused => ~h.is_scanning
  /\ h.is_scanning => h.scan_registered
  /\ ~h.is_scanning => ScanOff(h)

(* No closure behind position n registers or unregisters the scanner. *)
NotListed(h, n) ==
  \A i \in DOMAIN h.tasks :
    i > n /\ h.tasks[i][1] \in {"register_client", "unregister_client"}
      => h.tasks[i][2] # "scanner"

ScannerState(h) == h.registered_clients["scanner"]
ScannerAcks(h) == \E i \in DOMAIN h.tasks : h.tasks[i] = <<"ack_pause", "scanner">>

(* How far the registration of the scanner is: it is as the scanner wants  *)
(* it, the closure that makes it so is next, or that closure runs.         *)
Synced(h) ==
  /\ NotListed(h, 0)
  /\ ScannerState(h) # Absent <=> h.scan_registered
  /\ ScannerState(h) = "PAUSED" => h.scan_paused
Joining(h) == h.scan_registered /\ ScannerState(h) = Absent
Leaving(h) ==
  /\ ~h.scan_registered
  /\ ScannerState(h) = "WAITING_FOR_PAUSE" => h.cached_commands # <<>>
Pending(h) ==
  /\ h.tasks # <<>> /\ NotListed(h, 1)
  /\ \/ h.tasks[1] = <<"register_client", "scanner">> /\ Joining(h)
     \/ h.tasks[1] = <<"unregister_client", "scanner">> /\ Leaving(h) /\ ScannerState(h) # Absent

Form(h, mode) ==
  /\ mode = "synced" =>
       Synced(h) /\ (ScannerState(h) = "WAITING_FOR_PAUSE" => ScannerAcks(h))
  /\ mode = "acking" => Synced(h)
  /\ mode = "joining" => NotListed(h, 0) /\ Joining(h)
  /\ mode = "leaving" => NotListed(h, 0) /\ Leaving(h)
  /\ mode = "pending" => Pending(h)

ScanHeld(h) ==
  \A n \in DOMAIN h.commands : ChangingAddress(h.commands[n]) => ScanOffBefore(h, n)

(* The changes that the closures in a queue push. *)
PushedBy(tasks) ==
  [i \in DOMAIN tasks |->
     IF tasks[i][1] = "push_command" THEN tasks[i][2] ELSE <<"none", NoAddress>>]

Stream(h, x) ==
  Apply(Apply(Apply(Apply(Apply(accept_list, h.commands), h.cached_commands), x.pushing),
              PushedBy(h.tasks)), x.posting)

All(h, x) ==
  /\ h \in Host
  /\ x.asked \subseteq h.timeout_alarms
  /\ Attempt(h)
  /\ "le" \notin x.raced => Held(h)
  /\ ScanState(h)
  /\ "scanner" \notin x.raced => ScanHeld(h) /\ Form(h, x.mode)
  /\ "le" \notin rejected => Stream(h, x) = h.connect_list

(* The direct requests that are answered unless their alarm is. *)
Timed == asked \ forgotten

(* What is known between two steps. *)
Here(mode) ==
  [raced |-> raced, asked |-> Timed, pushing |-> <<>>, posting |-> <<>>, mode |-> mode]

Inv ==
  /\ initiating \in BOOLEAN /\ scanning \in BOOLEAN
  /\ accept_list \subseteq Address /\ connected \subseteq Address
  /\ rejected \subseteq raced /\ raced \subseteq Client /\ Timed \subseteq Address
  /\ \E mode \in {"synced", "pending"} : All(host, Here(mode))

(***************************************************************************)
(* Queues.                                                                 *)
(***************************************************************************)

(* The positions of a name after a queue has been extended. *)
LEMMA AtAppend ==
  ASSUME NEW S, NEW s \in Seq(S), NEW c \in S, NEW name
  PROVE  /\ c[1] # name => At(Append(s, c), name) = At(s, name)
         /\ c[1] = name => At(Append(s, c), name) = At(s, name) \cup {Len(s) + 1}
         /\ At(s, name) \subseteq 1 .. Len(s)
BY DEF At

(* The positions of a name after the head of a queue has been taken off. *)
LEMMA AtTail ==
  ASSUME NEW S, NEW s \in Seq(S), s # <<>>, NEW name
  PROVE  /\ \A i \in Nat : i \in At(Tail(s), name) <=> i >= 1 /\ i + 1 \in At(s, name)
         /\ At(s, name) \subseteq 1 .. Len(s) /\ At(Tail(s), name) \subseteq Nat
         /\ s[1][1] = name <=> 1 \in At(s, name)
         /\ Head(s) = s[1] /\ Len(Tail(s)) = Len(s) - 1
BY DEF At

(* Whether something is off before n is not changed by what comes later. *)
LEMMA OffBefore ==
  ASSUME NEW S, NEW s \in Seq(S), NEW c \in S, NEW on, NEW off, NEW running,
         NEW n \in Nat, n <= Len(s) + 1
  PROVE  Off(Append(s, c), on, off, running, n) <=> Off(s, on, off, running, n)
<1>1. ASSUME NEW name
      PROVE  /\ \A i \in At(Append(s, c), name) : i < n => i \in At(s, name)
             /\ At(s, name) \subseteq At(Append(s, c), name)
  BY DEF At
<1> QED
  BY <1>1 DEF Off

(* What was off stays off unless it is started; and stopping does it. *)
LEMMA OffAppend ==
  ASSUME NEW S, NEW s \in Seq(S), NEW c \in S, NEW on, NEW off, NEW running,
         c[1] # on, Off(s, on, off, running, Len(s) + 1) \/ c[1] = off
  PROVE  Off(Append(s, c), on, off, running, Len(Append(s, c)) + 1)
<1>1. Len(Append(s, c)) = Len(s) + 1 /\ Len(s) \in Nat
  OBVIOUS
<1>2. At(Append(s, c), on) = At(s, on) /\ At(s, on) \subseteq 1 .. Len(s)
  BY AtAppend
<1>3. CASE c[1] = off
  <2>1. Len(s) + 1 \in At(Append(s, c), off)
    BY <1>3, AtAppend
  <2> QED
    BY <1>1, <1>2, <2>1 DEF Off
<1>4. CASE c[1] # off
  <2>1. At(Append(s, c), off) = At(s, off) /\ At(s, off) \subseteq 1 .. Len(s)
    BY <1>4, AtAppend
  <2> QED
    BY <1>1, <1>2, <1>4, <2>1 DEF Off
<1> QED
  BY <1>3, <1>4

(* What is off before a position is off before the same command when the   *)
(* head of the queue has been executed.                                    *)
LEMMA OffTail ==
  ASSUME NEW S, NEW s \in Seq(S), s # <<>>, NEW on, NEW off, on # off,
         NEW running \in BOOLEAN, NEW n \in Nat, n >= 1,
         Off(s, on, off, running, n + 1)
  PROVE  Off(Tail(s), on, off,
             s[1][1] = on \/ (running /\ s[1][1] # off), n)
<1>1. /\ \A i \in Nat : i \in At(Tail(s), on) <=> i >= 1 /\ i + 1 \in At(s, on)
      /\ \A i \in Nat : i \in At(Tail(s), off) <=> i >= 1 /\ i + 1 \in At(s, off)
      /\ At(s, on) \subseteq Nat \ {0} /\ At(Tail(s), on) \subseteq Nat
      /\ At(s, off) \subseteq Nat \ {0} /\ At(Tail(s), off) \subseteq Nat
      /\ s[1][1] = on <=> 1 \in At(s, on)
      /\ s[1][1] = off <=> 1 \in At(s, off)
  BY AtTail
<1>2. ASSUME NEW i \in At(Tail(s), on), i < n
      PROVE  \E j \in At(Tail(s), off) : i < j /\ j < n
  <2>1. PICK k \in At(s, off) : i + 1 < k /\ k < n + 1
    BY <1>1, <1>2 DEF Off
  <2>2. k - 1 \in At(Tail(s), off) /\ i < k - 1 /\ k - 1 < n
    BY <1>1, <1>2, <2>1
  <2> QED
    BY <2>2
<1>3. ASSUME s[1][1] = on \/ (running /\ s[1][1] # off)
      PROVE  \E j \in At(Tail(s), off) : j < n
  <2>1. PICK k \in At(s, off) : k < n + 1 /\ k # 1
    BY <1>1, <1>3 DEF Off
  <2>2. k - 1 \in At(Tail(s), off) /\ k - 1 < n
    BY <1>1, <2>1
  <2> QED
    BY <2>2
<1> QED
  BY <1>2, <1>3 DEF Off

(* Off before the head of the queue means off. *)
LEMMA OffAtHead ==
  ASSUME NEW S, NEW s \in Seq(S), NEW on, NEW off, NEW running,
         Off(s, on, off, running, 1)
  PROVE  ~running
<1>1. At(s, off) \subseteq Nat \ {0}
  BY DEF At
<1> QED
  BY <1>1 DEF Off

(***************************************************************************)
(* The accept list after a queue of changes.                               *)
(***************************************************************************)

(* A queue of changes may be applied in two parts. *)
LEMMA ApplyParts ==
  ASSUME NEW list, NEW S, NEW s \in Seq(S), NEW t \in Seq(S)
  PROVE  Apply(list, s \o t) = Apply(Apply(list, s), t)
<1> DEFINE st == s \o t
<1>1. /\ \A i \in DOMAIN s : i \in DOMAIN st /\ st[i] = s[i]
      /\ \A i \in DOMAIN t : Len(s) + i \in DOMAIN st /\ st[Len(s) + i] = t[i]
      /\ \A i \in DOMAIN st : i \in DOMAIN s \/ (i - Len(s) \in DOMAIN t /\ i > Len(s))
      /\ DOMAIN s = 1 .. Len(s) /\ DOMAIN t = 1 .. Len(t) /\ DOMAIN st = 1 .. (Len(s) + Len(t))
      /\ Len(s) \in Nat /\ Len(t) \in Nat
  OBVIOUS
<1> HIDE DEF st
<1>2. ASSUME NEW a \in Address
      PROVE  a \in Apply(list, st) <=> a \in Apply(Apply(list, s), t)
  <2> DEFINE Ch(c) == Changes(c, a)
             Add(c) == c = <<"add", a>>
             In(l, q) == \/ l /\ \A i \in DOMAIN q : ~Ch(q[i])
                         \/ \E i \in DOMAIN q : Add(q[i]) /\ \A j \in DOMAIN q : Ch(q[j]) => j <= i
  <2>1. /\ a \in Apply(list, st) <=> In(a \in list, st)
        /\ a \in Apply(list, s) <=> In(a \in list, s)
        /\ a \in Apply(Apply(list, s), t) <=> In(a \in Apply(list, s), t)
    BY <1>2 DEF Apply
  <2>2. \A c : Add(c) => Ch(c)
    BY DEF Changes
  <2>3. CASE \E i \in DOMAIN t : Ch(t[i])
    <3>1. In(a \in list, st) => In(a \in Apply(list, s), t)
      <4> SUFFICES ASSUME In(a \in list, st)
                   PROVE  \E i \in DOMAIN t : Add(t[i]) /\ \A j \in DOMAIN t : Ch(t[j]) => j <= i
        OBVIOUS
      <4> HIDE DEF Ch, Add
      <4>1. PICK i \in DOMAIN st : Add(st[i]) /\ \A j \in DOMAIN st : Ch(st[j]) => j <= i
        BY <1>1, <2>3
      <4>2. i - Len(s) \in DOMAIN t /\ i > Len(s)
        BY <1>1, <2>3, <4>1
      <4>3. t[i - Len(s)] = st[i]
        BY <1>1, <4>2
      <4>4. ASSUME NEW j \in DOMAIN t, Ch(t[j])
            PROVE  j <= i - Len(s)
        BY <1>1, <4>1, <4>4
      <4> QED
        BY <4>1, <4>2, <4>3, <4>4
    <3>2. In(a \in Apply(list, s), t) => In(a \in list, st)
      <4> SUFFICES ASSUME In(a \in Apply(list, s), t)
                   PROVE  \E i \in DOMAIN st : Add(st[i]) /\ \A j \in DOMAIN st : Ch(st[j]) => j <= i
        OBVIOUS
      <4> HIDE DEF Ch, Add
      <4>1. PICK i \in DOMAIN t : Add(t[i]) /\ \A j \in DOMAIN t : Ch(t[j]) => j <= i
        BY <2>3
      <4>2. Len(s) + i \in DOMAIN st /\ Add(st[Len(s) + i])
        BY <1>1, <4>1
      <4>3. ASSUME NEW j \in DOMAIN st, Ch(st[j])
            PROVE  j <= Len(s) + i
        BY <1>1, <4>1, <4>3
      <4> QED
        BY <4>2, <4>3
    <3> QED
      BY <2>1, <3>1, <3>2
  <2>4. CASE \A i \in DOMAIN t : ~Ch(t[i])
    <3>1. In(a \in Apply(list, s), t) <=> a \in Apply(list, s)
      BY <2>2, <2>4
    <3>2. In(a \in list, s) => In(a \in list, st)
      <4> HIDE DEF Ch, Add
      <4>1. \A j \in DOMAIN st : Ch(st[j]) => j \in DOMAIN s /\ Ch(s[j])
        BY <1>1, <2>4
      <4> QED
        BY <1>1, <4>1
    <3>3. In(a \in list, st) => In(a \in list, s)
      <4> HIDE DEF Ch, Add
      <4>1. \A j \in DOMAIN st : Ch(st[j]) => j \in DOMAIN s /\ Ch(s[j])
        BY <1>1, <2>4
      <4> QED
        BY <1>1, <2>2, <4>1
    <3> QED
      BY <2>1, <3>1, <3>2, <3>3
  <2> QED
    BY <2>3, <2>4
<1>3. Apply(list, st) \subseteq Address /\ Apply(Apply(list, s), t) \subseteq Address
  BY DEF Apply
<1> QED
  BY <1>2, <1>3 DEF st

(* A queue is applied change by change, from its head or to its end. *)
LEMMA ApplyAppend ==
  ASSUME NEW list, NEW S, NEW s \in Seq(S), NEW c \in S
  PROVE  Apply(list, Append(s, c)) = Apply(Apply(list, s), <<c>>)
<1> DEFINE t == <<c>>
<1>1. t \in Seq(S) /\ Append(s, c) = s \o t
  BY AppendIsConcat
<1> HIDE DEF t
<1>2. Apply(list, s \o t) = Apply(Apply(list, s), t)
  BY <1>1, ApplyParts
<1> QED
  BY <1>1, <1>2 DEF t

LEMMA ApplyTail ==
  ASSUME NEW list, NEW S, NEW s \in Seq(S), s # <<>>
  PROVE  Apply(list, s) = Apply(Apply(list, <<Head(s)>>), Tail(s))
<1> DEFINE h == <<Head(s)>>
           t == Tail(s)
<1>1. h \in Seq(S) /\ t \in Seq(S) /\ s = h \o t
  OBVIOUS
<1> HIDE DEF h, t
<1>2. Apply(list, h \o t) = Apply(Apply(list, h), t)
  BY <1>1, ApplyParts
<1> QED
  BY <1>1, <1>2 DEF h, t

(* What one change does. *)
LEMMA ApplyOne ==
  ASSUME NEW list \in SUBSET Address, NEW c
  PROVE  /\ c[1] \notin {"add", "remove", "clear"} => Apply(list, <<c>>) = list
         /\ \A a \in Address : Apply(list, <<<<"add", a>>>>) = list \cup {a}
         /\ \A a \in Address : Apply(list, <<<<"remove", a>>>>) = list \ {a}
         /\ Apply(list, <<<<"clear", NoAddress>>>>) = {}
         /\ Apply(list, <<>>) = list
<1>1. \A d : DOMAIN <<d>> = {1} /\ <<d>>[1] = d
  OBVIOUS
<1>2. ASSUME NEW d
      PROVE  Apply(list, <<d>>) =
               {a \in Address : (a \in list /\ ~Changes(d, a)) \/ d = <<"add", a>>}
  BY <1>1 DEF Apply
<1>3. Apply(list, <<>>) = list
  BY DEF Apply
<1>4. c[1] \notin {"add", "remove", "clear"} => Apply(list, <<c>>) = list
  BY <1>2 DEF Changes
<1>5. ASSUME NEW a \in Address
      PROVE  Apply(list, <<<<"add", a>>>>) = list \cup {a}
  BY <1>2, <1>5 DEF Changes
<1>6. ASSUME NEW a \in Address
      PROVE  Apply(list, <<<<"remove", a>>>>) = list \ {a}
  BY <1>2, <1>6 DEF Changes
<1>7. Apply(list, <<<<"clear", NoAddress>>>>) = {}
  BY <1>2 DEF Changes
<1> QED
  BY <1>3, <1>4, <1>5, <1>6, <1>7

LEMMA ApplyInAddress ==
  ASSUME NEW list, NEW s
  PROVE  Apply(list, s) \in SUBSET Address
BY DEF Apply

(* A command that is no change of the list. *)
LEMMA ApplyNone ==
  ASSUME NEW list, NEW s, NEW c, c[1] \notin {"add", "remove", "clear"}
  PROVE  Apply(Apply(list, s), <<c>>) = Apply(list, s)
BY ApplyOne, ApplyInAddress

(* The changes that closures push, when a closure is posted or taken off. *)
Push(task) == IF task[1] = "push_command" THEN task[2] ELSE <<"none", NoAddress>>
PushCommand == ListCommand \cup {<<"none", NoAddress>>}

LEMMA PushType ==
  ASSUME NEW task \in Task
  PROVE  Push(task) \in PushCommand
BY DEF Push, PushCommand, Task, ClientTask, PlainTask, AddressTask, AnswerTask

LEMMA PushedByType ==
  ASSUME NEW tasks \in Seq(Task)
  PROVE  PushedBy(tasks) \in Seq(PushCommand) /\ Len(PushedBy(tasks)) = Len(tasks)
<1>1. /\ PushedBy(tasks) = [i \in 1 .. Len(tasks) |-> Push(tasks[i])]
      /\ \A i \in 1 .. Len(tasks) : Push(tasks[i]) \in PushCommand
      /\ Len(tasks) \in Nat
  BY PushType DEF PushedBy, Push
<1> QED
  BY <1>1

LEMMA PushedByAppend ==
  ASSUME NEW tasks \in Seq(Task), NEW task \in Task
  PROVE  PushedBy(Append(tasks, task)) = Append(PushedBy(tasks), Push(task))
<1> DEFINE t == Append(tasks, task)
<1>0. t \in Seq(Task) /\ Len(t) = Len(tasks) + 1
  OBVIOUS
<1> HIDE DEF t
<1>1. /\ PushedBy(tasks) \in Seq(PushCommand) /\ Len(PushedBy(tasks)) = Len(tasks)
      /\ PushedBy(t) \in Seq(PushCommand) /\ Len(PushedBy(t)) = Len(tasks) + 1
      /\ Push(task) \in PushCommand
  BY <1>0, PushedByType, PushType
<1> USE DEF t
<1>2. ASSUME NEW i \in 1 .. (Len(tasks) + 1)
      PROVE  PushedBy(Append(tasks, task))[i] = Append(PushedBy(tasks), Push(task))[i]
  BY <1>1, <1>2 DEF PushedBy, Push
<1>3. /\ Append(PushedBy(tasks), Push(task)) \in Seq(PushCommand)
      /\ Len(Append(PushedBy(tasks), Push(task))) = Len(tasks) + 1
  BY <1>1
<1> QED
  BY <1>1, <1>2, <1>3, SeqEqual

LEMMA PushedByTail ==
  ASSUME NEW tasks \in Seq(Task), tasks # <<>>
  PROVE  /\ PushedBy(tasks) # <<>> /\ PushedBy(Tail(tasks)) = Tail(PushedBy(tasks))
         /\ Head(PushedBy(tasks)) = Push(Head(tasks))
<1> DEFINE t == Tail(tasks)
<1>0. t \in Seq(Task) /\ Len(t) = Len(tasks) - 1 /\ Len(tasks) \in Nat \ {0}
  OBVIOUS
<1> HIDE DEF t
<1>1. /\ PushedBy(tasks) \in Seq(PushCommand) /\ Len(PushedBy(tasks)) = Len(tasks)
      /\ PushedBy(t) \in Seq(PushCommand) /\ Len(PushedBy(t)) = Len(tasks) - 1
      /\ Len(tasks) \in Nat \ {0}
  BY <1>0, PushedByType
<1> USE DEF t
<1>2. ASSUME NEW i \in 1 .. (Len(tasks) - 1)
      PROVE  PushedBy(Tail(tasks))[i] = Tail(PushedBy(tasks))[i]
  BY <1>1, <1>2 DEF PushedBy, Push
<1>3. PushedBy(tasks) # <<>> /\ PushedBy(tasks)[1] = Push(tasks[1])
  BY <1>1 DEF PushedBy, Push
<1>4. /\ Tail(PushedBy(tasks)) \in Seq(PushCommand)
      /\ Len(Tail(PushedBy(tasks))) = Len(tasks) - 1
  BY <1>1, <1>3
<1>5. PushedBy(Tail(tasks)) = Tail(PushedBy(tasks))
  BY <1>1, <1>2, <1>4, SeqEqual
<1> QED
  BY <1>1, <1>3, <1>5

(***************************************************************************)
(* How the parts of the invariant fare when a command is sent.             *)
(***************************************************************************)
Sent(h, g, c) ==
  h \in Host /\ g \in Host /\ c \in SentCommand /\ g.commands = Append(h.commands, c)

LEMMA SentLast ==
  ASSUME NEW h, NEW g, NEW c, Sent(h, g, c)
  PROVE  /\ DOMAIN g.commands = 1 .. (Len(h.commands) + 1)
         /\ DOMAIN h.commands = 1 .. Len(h.commands)
         /\ Len(h.commands) \in Nat /\ Len(g.commands) = Len(h.commands) + 1
         /\ g.commands[Len(h.commands) + 1] = c
         /\ \A n \in DOMAIN h.commands : g.commands[n] = h.commands[n]
BY DEF Sent, Host

(* For the attempt to connect, and for the scan. *)
LEMMA SentCancelled ==
  ASSUME NEW h, NEW g, NEW c, Sent(h, g, c)
  PROVE  /\ \A n \in 1 .. (Len(h.commands) + 1) : CancelledBefore(g, n) <=> CancelledBefore(h, n)
         /\ Cancelled(h) <=> CancelledBefore(g, Len(h.commands) + 1)
         /\ c[1] # "create" /\ (c[1] = "cancel" \/ Cancelled(h)) => Cancelled(g)
<1>1. h.commands \in Seq(SentCommand) /\ c \in SentCommand /\ g.commands = Append(h.commands, c)
  BY DEF Sent, Host
<1>2. ASSUME NEW n \in 1 .. (Len(h.commands) + 1)
      PROVE  CancelledBefore(g, n) <=> CancelledBefore(h, n)
  <2>1. n \in Nat /\ n <= Len(h.commands) + 1
    BY <1>1
  <2> QED
    BY <1>1, <2>1, OffBefore DEF CancelledBefore
<1>3. c[1] # "create" /\ (c[1] = "cancel" \/ Cancelled(h)) => Cancelled(g)
  BY <1>1, OffAppend DEF Cancelled, CancelledBefore
<1>4. Len(h.commands) + 1 \in 1 .. (Len(h.commands) + 1)
  BY <1>1
<1> QED
  BY <1>2, <1>3, <1>4 DEF Cancelled

LEMMA SentScanOff ==
  ASSUME NEW h, NEW g, NEW c, Sent(h, g, c)
  PROVE  /\ \A n \in 1 .. (Len(h.commands) + 1) : ScanOffBefore(g, n) <=> ScanOffBefore(h, n)
         /\ ScanOff(h) <=> ScanOffBefore(g, Len(h.commands) + 1)
         /\ c[1] # "scan_on" /\ (c[1] = "scan_off" \/ ScanOff(h)) => ScanOff(g)
<1>1. h.commands \in Seq(SentCommand) /\ c \in SentCommand /\ g.commands = Append(h.commands, c)
  BY DEF Sent, Host
<1>2. ASSUME NEW n \in 1 .. (Len(h.commands) + 1)
      PROVE  ScanOffBefore(g, n) <=> ScanOffBefore(h, n)
  <2>1. n \in Nat /\ n <= Len(h.commands) + 1
    BY <1>1
  <2> QED
    BY <1>1, <2>1, OffBefore DEF ScanOffBefore
<1>3. c[1] # "scan_on" /\ (c[1] = "scan_off" \/ ScanOff(h)) => ScanOff(g)
  BY <1>1, OffAppend DEF ScanOff, ScanOffBefore
<1>4. Len(h.commands) + 1 \in 1 .. (Len(h.commands) + 1)
  BY <1>1
<1> QED
  BY <1>2, <1>3, <1>4 DEF ScanOff

(* A change is sent only while le_impl is held, a create connection        *)
(* command only while it is not.                                           *)
LEMMA SentHeld ==
  ASSUME NEW h, NEW g, NEW c, Sent(h, g, c), Held(h),
         g.registered_clients["le"] = h.registered_clients["le"],
         Changing(c) => h.registered_clients["le"] \in {"PAUSED", Absent},
         c[1] = "create" => h.registered_clients["le"] \notin {"PAUSED", Absent}
  PROVE  Held(g)
<1>1. h.registered_clients["le"] \in {"PAUSED", Absent} => Cancelled(h)
  BY DEF Held
<1>2. Cancelled(h) /\ c[1] # "create" => Cancelled(g)
  BY SentCancelled
<1>3. ASSUME NEW n \in DOMAIN g.commands, Changing(g.commands[n])
      PROVE  CancelledBefore(g, n)
  <2>1. CASE n = Len(h.commands) + 1
    <3>1. Cancelled(h)
      BY <1>1, <1>3, <2>1, SentLast
    <3> QED
      BY <2>1, <3>1, SentCancelled
  <2>2. CASE n # Len(h.commands) + 1
    <3>1. n \in DOMAIN h.commands /\ g.commands[n] = h.commands[n]
      BY <2>2, SentLast
    <3>2. CancelledBefore(h, n)
      BY <1>3, <3>1 DEF Held
    <3> QED
      BY <3>1, <3>2, SentLast, SentCancelled
  <2> QED
    BY <2>1, <2>2
<1> QED
  BY <1>1, <1>2, <1>3 DEF Held

LEMMA SentScanHeld ==
  ASSUME NEW h, NEW g, NEW c, Sent(h, g, c), ScanHeld(h), ChangingAddress(c) => ScanOff(h)
  PROVE  ScanHeld(g)
<1>1. ASSUME NEW n \in DOMAIN g.commands, ChangingAddress(g.commands[n])
      PROVE  ScanOffBefore(g, n)
  <2>1. CASE n = Len(h.commands) + 1
    <3>1. ScanOff(h)
      BY <1>1, <2>1, SentLast
    <3> QED
      BY <2>1, <3>1, SentScanOff
  <2>2. CASE n # Len(h.commands) + 1
    <3>1. n \in DOMAIN h.commands /\ g.commands[n] = h.commands[n]
      BY <2>2, SentLast
    <3>2. ScanOffBefore(h, n)
      BY <1>1, <3>1 DEF ScanHeld
    <3> QED
      BY <3>1, <3>2, SentLast, SentScanOff
  <2> QED
    BY <2>1, <2>2
<1> QED
  BY <1>1 DEF ScanHeld

(* A command that neither starts an attempt nor changes the state. *)
LEMMA SentAttempt ==
  ASSUME NEW h, NEW g, NEW c, Sent(h, g, c), Attempt(h), c[1] # "create",
         g.tasks = h.tasks, g.connectability_state = h.connectability_state
  PROVE  Attempt(g)
<1>1. At(g.commands, "create") = At(h.commands, "create")
  BY AtAppend DEF Sent, Host
<1>2. Cancelled(h) => Cancelled(g)
  BY SentCancelled
<1> QED
  BY <1>1, <1>2 DEF Attempt, OneAttempt, AnswersInOrder, StateFits, Attempting

LEMMA SentScanState ==
  ASSUME NEW h, NEW g, NEW c, Sent(h, g, c), ScanState(h), c[1] # "scan_on",
         g.scan_paused = h.scan_paused, g.is_scanning = h.is_scanning,
         g.scan_registered = h.scan_registered
  PROVE  ScanState(g)
BY SentScanOff DEF ScanState

LEMMA SentStream ==
  ASSUME NEW h, NEW g, NEW c, Sent(h, g, c), NEW x,
         c[1] \notin {"add", "remove", "clear"},
         g.cached_commands = h.cached_commands, g.tasks = h.tasks
  PROVE  Stream(g, x) = Stream(h, x)
<1>1. Apply(accept_list, g.commands) = Apply(Apply(accept_list, h.commands), <<c>>)
  BY ApplyAppend DEF Sent, Host
<1>2. Apply(Apply(accept_list, h.commands), <<c>>) = Apply(accept_list, h.commands)
  BY ApplyOne, ApplyInAddress
<1> QED
  BY <1>1, <1>2 DEF Stream

(* The registration of the scanner depends on these parts of the state. *)
LEMMA SameForm ==
  ASSUME NEW h, NEW g, NEW mode, Form(h, mode),
         g.tasks = h.tasks, g.cached_commands = h.cached_commands,
         g.registered_clients["scanner"] = h.registered_clients["scanner"],
         g.scan_registered = h.scan_registered, g.scan_paused = h.scan_paused
  PROVE  Form(g, mode)
BY DEF Form, Synced, Joining, Leaving, Pending, NotListed, ScannerState, ScannerAcks

(***************************************************************************)
(* What the invariant does not depend on.                                  *)
(***************************************************************************)
Keeps(h, g) ==
  /\ g \in Host
  /\ g.registered_clients = h.registered_clients /\ g.cached_commands = h.cached_commands
  /\ g.scan_registered = h.scan_registered /\ g.scan_paused = h.scan_paused
  /\ g.is_scanning = h.is_scanning /\ g.connectability_state = h.connectability_state
  /\ g.tasks = h.tasks /\ g.commands = h.commands

LEMMA KeepsAll ==
  ASSUME NEW h, NEW x, NEW g, All(h, x), Keeps(h, g), g.connect_list = h.connect_list,
         x.asked \subseteq g.timeout_alarms
  PROVE  All(g, x)
<1>1. Attempt(g)
  BY DEF All, Keeps, Attempt, OneAttempt, AnswersInOrder, StateFits, Attempting, Cancelled,
         CancelledBefore
<1>2. "le" \notin x.raced => Held(g)
  BY DEF All, Keeps, Held, Cancelled, CancelledBefore
<1>3. ScanState(g) /\ ("scanner" \notin x.raced => ScanHeld(g))
  BY DEF All, Keeps, ScanState, ScanHeld, ScanOff, ScanOffBefore
<1>4. "scanner" \notin x.raced => Form(g, x.mode)
  BY SameForm DEF All, Keeps
<1>5. Stream(g, x) = Stream(h, x)
  BY DEF Keeps, Stream
<1> QED
  BY <1>1, <1>2, <1>3, <1>4, <1>5 DEF All, Keeps

(***************************************************************************)
(* Posting closures.                                                       *)
(***************************************************************************)
LEMMA PostFields ==
  ASSUME NEW h \in Host, NEW task \in Task
  PROVE  /\ Post(h, task) \in Host
         /\ Post(h, task).tasks = Append(h.tasks, task)
         /\ Post(h, task).registered_clients = h.registered_clients
         /\ Post(h, task).cached_commands = h.cached_commands
         /\ Post(h, task).scan_registered = h.scan_registered
         /\ Post(h, task).scan_paused = h.scan_paused
         /\ Post(h, task).is_scanning = h.is_scanning
         /\ Post(h, task).connectability_state = h.connectability_state
         /\ Post(h, task).connect_list = h.connect_list
         /\ Post(h, task).commands = h.commands
         /\ Post(h, task).timeout_alarms = h.timeout_alarms
         /\ Post(h, task).connections = h.connections
         /\ Post(h, task).pause_connection = h.pause_connection
         /\ Post(h, task).arm_on_resume = h.arm_on_resume
<1>1. Append(h.tasks, task) \in Seq(Task)
  BY DEF Host
<1>2. Post(h, task) \in Host
  BY <1>1 DEF Post, Host
<1>3. Post(h, task).tasks = Append(h.tasks, task)
  BY DEF Post, Host
<1> QED
  BY <1>2, <1>3 DEF Post

(* Closures that the invariant says nothing of, and those that push. *)
NotOfScanner(task) ==
  task[1] \in {"register_client", "unregister_client"} => task[2] # "scanner"
Inert(task, x) ==
  /\ task \in Task /\ task[1] \notin {"central", "on_create_connection"}
  /\ "scanner" \in x.raced \/ NotOfScanner(task)

LEMMA PostForm ==
  ASSUME NEW h \in Host, NEW task \in Task, NotOfScanner(task), NEW mode, Form(h, mode)
  PROVE  Form(Post(h, task), mode)
<1> DEFINE g == Post(h, task)
<1>1. /\ h.tasks \in Seq(Task) /\ task \in Task /\ g.tasks = Append(h.tasks, task)
      /\ g.registered_clients = h.registered_clients /\ g.cached_commands = h.cached_commands
      /\ g.scan_registered = h.scan_registered /\ g.scan_paused = h.scan_paused
  BY PostFields DEF Host
<1> HIDE DEF g
<1>2. /\ DOMAIN h.tasks = 1 .. Len(h.tasks) /\ DOMAIN g.tasks = 1 .. (Len(h.tasks) + 1)
      /\ Len(h.tasks) \in Nat /\ g.tasks[Len(h.tasks) + 1] = task
      /\ \A i \in DOMAIN h.tasks : g.tasks[i] = h.tasks[i]
      /\ g.tasks # <<>> /\ (h.tasks # <<>> => 1 \in DOMAIN h.tasks)
  BY <1>1
<1>3. \A n : NotListed(h, n) => NotListed(g, n)
  BY <1>2 DEF NotListed, NotOfScanner
<1>4. ScannerAcks(h) => ScannerAcks(g)
  BY <1>2 DEF ScannerAcks
<1>5. Pending(h) => Pending(g)
  BY <1>1, <1>2, <1>3 DEF Pending, Joining, Leaving, ScannerState
<1>6. Synced(h) => Synced(g)
  BY <1>1, <1>3 DEF Synced, ScannerState
<1>7. ScannerState(g) = ScannerState(h) /\ (Joining(h) => Joining(g)) /\ (Leaving(h) => Leaving(g))
  BY <1>1 DEF ScannerState, Joining, Leaving
<1> QED
  BY <1>3, <1>4, <1>5, <1>6, <1>7 DEF Form, g

LEMMA PostParts ==
  ASSUME NEW h, NEW x, NEW task, All(h, x), Inert(task, x)
  PROVE  /\ Post(h, task) \in Host
         /\ x.asked \subseteq Post(h, task).timeout_alarms
         /\ Attempt(Post(h, task))
         /\ "le" \notin x.raced => Held(Post(h, task))
         /\ ScanState(Post(h, task))
         /\ "scanner" \notin x.raced => ScanHeld(Post(h, task)) /\ Form(Post(h, task), x.mode)
<1> DEFINE g == Post(h, task)
<1>1. /\ h \in Host /\ g \in Host /\ g.tasks = Append(h.tasks, task)
      /\ g.registered_clients = h.registered_clients
      /\ g.scan_registered = h.scan_registered /\ g.scan_paused = h.scan_paused
      /\ g.is_scanning = h.is_scanning /\ g.connectability_state = h.connectability_state
      /\ g.commands = h.commands /\ g.timeout_alarms = h.timeout_alarms
  BY PostFields DEF All, Inert
<1>2. "scanner" \notin x.raced => Form(g, x.mode)
  BY PostForm DEF All, Inert
<1> HIDE DEF g
<1>3. /\ At(g.tasks, "central") = At(h.tasks, "central")
      /\ At(g.tasks, "on_create_connection") = At(h.tasks, "on_create_connection")
      /\ \A i \in At(h.tasks, "on_create_connection") : g.tasks[i] = h.tasks[i]
  <2>1. h.tasks \in Seq(Task) /\ task \in Task
        /\ task[1] # "central" /\ task[1] # "on_create_connection"
    BY <1>1 DEF Host, Inert
  <2>2. /\ At(g.tasks, "central") = At(h.tasks, "central")
        /\ At(g.tasks, "on_create_connection") = At(h.tasks, "on_create_connection")
    BY <1>1, <2>1, AtAppend
  <2>3. \A i \in At(h.tasks, "on_create_connection") : g.tasks[i] = h.tasks[i]
    BY <1>1, <2>1 DEF At
  <2> QED
    BY <2>2, <2>3
<1>4. Attempt(g)
  BY <1>1, <1>3 DEF All, Attempt, OneAttempt, AnswersInOrder, StateFits, Attempting, Cancelled,
                    CancelledBefore
<1>5. "le" \notin x.raced => Held(g)
  BY <1>1 DEF All, Held, Cancelled, CancelledBefore
<1>6. ScanState(g) /\ ("scanner" \notin x.raced => ScanHeld(g))
  BY <1>1 DEF All, ScanState, ScanHeld, ScanOff, ScanOffBefore
<1>7. x.asked \subseteq g.timeout_alarms
  BY <1>1 DEF All
<1> QED
  BY <1>1, <1>2, <1>4, <1>5, <1>6, <1>7 DEF g

LEMMA PostInert ==
  ASSUME NEW h, NEW x, NEW task, All(h, x), Inert(task, x), task[1] # "push_command"
  PROVE  All(Post(h, task), x)
<1> DEFINE g == Post(h, task)
<1>1. /\ g.tasks = Append(h.tasks, task) /\ g.commands = h.commands
      /\ g.cached_commands = h.cached_commands /\ g.connect_list = h.connect_list
      /\ h.tasks \in Seq(Task) /\ task \in Task
  BY PostFields DEF All, Inert, Host
<1> DEFINE l == Apply(Apply(Apply(accept_list, h.commands), h.cached_commands), x.pushing)
           p == PushedBy(h.tasks)
<1>2. /\ p \in Seq(PushCommand) /\ Push(task) \in PushCommand
      /\ PushedBy(g.tasks) = Append(p, Push(task))
  BY <1>1, PushedByType, PushedByAppend, PushType
<1>3. Push(task)[1] \notin {"add", "remove", "clear"}
  BY DEF Push
<1>4. Stream(g, x) = Apply(Apply(l, PushedBy(g.tasks)), x.posting) /\ Stream(h, x) = Apply(Apply(l, p), x.posting)
  BY <1>1 DEF Stream
<1> HIDE DEF g, l, p
<1>5. Apply(l, PushedBy(g.tasks)) = Apply(Apply(l, p), <<Push(task)>>)
  BY <1>2, ApplyAppend
<1>6. Apply(Apply(l, p), <<Push(task)>>) = Apply(l, p)
  BY <1>3, ApplyNone
<1>7. Stream(g, x) = Stream(h, x)
  BY <1>4, <1>5, <1>6
<1> QED
  BY <1>1, <1>7, PostParts DEF All, g

(***************************************************************************)
(* Changes of connect_list: the command is posted in the same closure.     *)
(***************************************************************************)
LEMMA InertTasks ==
  ASSUME NEW x
  PROVE  /\ Inert(<<"register_client", "le">>, x)
         /\ Inert(<<"unregister_client", "le">>, x)
         /\ \A c \in Client : Inert(<<"ack_pause", c>>, x) /\ Inert(<<"ack_resume", c>>, x)
         /\ \A do \in PlainTask, arg \in {"le", NoAddress} : Inert(<<do, arg>>, x)
         /\ \A a \in Address, do \in AddressTask : Inert(<<do, a>>, x)
         /\ \A arg \in CreateArgument : Inert(<<"create_le_connection", arg>>, x)
         /\ \A status \in {"success", "disallowed"} : Inert(<<"on_cancel_complete", status>>, x)
BY DEF Inert, NotOfScanner, Task, ClientTask, PlainTask, AddressTask, AnswerTask, Client

LEMMA register_with_address_manager_All ==
  ASSUME NEW h, NEW x, All(h, x)
  PROVE  All(register_with_address_manager(h), x)
<1> DEFINE g == [h EXCEPT !.address_manager_registered = TRUE, !.pause_connection = TRUE]
<1>1. h \in Host /\ x.asked \subseteq h.timeout_alarms
  BY DEF All
<1>2. Keeps(h, g) /\ g.connect_list = h.connect_list /\ g.timeout_alarms = h.timeout_alarms
  BY <1>1 DEF Keeps, Host
<1> HIDE DEF g
<1>3. All(g, x)
  BY <1>1, <1>2, KeepsAll
<1>4. All(Post(g, <<"register_client", "le">>), x)
  BY <1>3, InertTasks, PostInert
<1> QED
  BY <1>4 DEF register_with_address_manager, g

(* The change of connect_list, and the closure that pushes the command. *)
LEMMA ListChanged ==
  ASSUME NEW h, NEW x \in Context, All(h, x), x.posting = <<>>, NEW c \in ListCommand,
         NEW g, Keeps(h, g), x.asked \subseteq g.timeout_alarms,
         g.connect_list = Apply(h.connect_list, <<c>>)
  PROVE  All(g, [x EXCEPT !.posting = <<c>>])
<1> DEFINE y == [x EXCEPT !.posting = <<c>>]
           e == [g EXCEPT !.connect_list = h.connect_list]
<1>1. /\ h \in Host /\ g \in Host /\ h.connect_list \in SUBSET Address
      /\ y.raced = x.raced /\ y.asked = x.asked /\ y.pushing = x.pushing
      /\ y.mode = x.mode /\ y.posting = <<c>>
  BY DEF All, Keeps, Host, Context
<1>2. /\ e \in Host /\ Keeps(h, e) /\ Keeps(e, g) /\ e.connect_list = h.connect_list
      /\ x.asked \subseteq e.timeout_alarms
  BY <1>1 DEF Keeps, Host
<1>3. All(e, x)
  BY <1>2, KeepsAll
<1>4. Stream(e, x) = Apply(Stream(e, x), <<>>) /\ Stream(e, x) \in SUBSET Address
  BY ApplyOne, ApplyInAddress DEF Stream
<1> DEFINE l == Apply(Apply(Apply(Apply(accept_list, e.commands), e.cached_commands),
                            x.pushing), PushedBy(e.tasks))
<1>5. Stream(e, x) = l
  <2>1. l \in SUBSET Address /\ Stream(e, x) = Apply(l, <<>>)
    BY ApplyInAddress DEF Stream
  <2> HIDE DEF l
  <2> QED
    BY <2>1, ApplyOne
<1>6. Stream(g, y) = Apply(l, <<c>>)
  BY <1>1, <1>2 DEF Stream, Keeps
<1>7. "le" \notin rejected => Stream(g, y) = g.connect_list
  BY <1>2, <1>3, <1>5, <1>6 DEF All
<1> HIDE DEF y, e
<1>8. Attempt(g)
  BY <1>2, <1>3 DEF All, Keeps, Attempt, OneAttempt, AnswersInOrder, StateFits, Attempting,
                    Cancelled, CancelledBefore
<1>9. "le" \notin x.raced => Held(g)
  BY <1>2, <1>3 DEF All, Keeps, Held, Cancelled, CancelledBefore
<1>10. ScanState(g) /\ ("scanner" \notin x.raced => ScanHeld(g))
  BY <1>2, <1>3 DEF All, Keeps, ScanState, ScanHeld, ScanOff, ScanOffBefore
<1>11. "scanner" \notin x.raced => Form(g, x.mode)
  BY <1>2, <1>3, SameForm DEF All, Keeps
<1> QED
  BY <1>1, <1>7, <1>8, <1>9, <1>10, <1>11 DEF All, y

LEMMA PostPush ==
  ASSUME NEW h, NEW x \in Context, NEW c \in ListCommand, x.posting = <<>>,
         All(h, [x EXCEPT !.posting = <<c>>])
  PROVE  All(Post(h, <<"push_command", c>>), x)
<1> DEFINE task == <<"push_command", c>>
           y == [x EXCEPT !.posting = <<c>>]
           g == Post(h, task)
<1>1. /\ Inert(task, y) /\ task \in Task
      /\ y.raced = x.raced /\ y.asked = x.asked /\ y.pushing = x.pushing
      /\ y.mode = x.mode /\ y.posting = <<c>>
  BY DEF Inert, NotOfScanner, Task, Context
<1>2. /\ g.tasks = Append(h.tasks, task) /\ g.commands = h.commands
      /\ g.cached_commands = h.cached_commands /\ g.connect_list = h.connect_list
      /\ h.tasks \in Seq(Task)
  BY <1>1, PostFields DEF All, Host
<1> DEFINE l == Apply(Apply(Apply(accept_list, h.commands), h.cached_commands), x.pushing)
           p == PushedBy(h.tasks)
<1>3. /\ p \in Seq(PushCommand) /\ c \in PushCommand
      /\ PushedBy(g.tasks) = Append(p, c)
  BY <1>1, <1>2, PushedByType, PushedByAppend DEF Push, PushCommand
<1>4. /\ Stream(g, x) = Apply(Apply(l, PushedBy(g.tasks)), <<>>)
      /\ Stream(h, y) = Apply(Apply(l, p), <<c>>)
  BY <1>1, <1>2 DEF Stream
<1>5. All(h, y)
  OBVIOUS
<1> HIDE DEF g, l, p, y
<1>6. Apply(l, PushedBy(g.tasks)) = Apply(Apply(l, p), <<c>>)
  BY <1>3, ApplyAppend
<1>7. Stream(g, x) = Stream(h, y)
  BY <1>4, <1>6, ApplyOne, ApplyInAddress
<1>8. /\ g \in Host /\ x.asked \subseteq g.timeout_alarms /\ Attempt(g)
      /\ "le" \notin x.raced => Held(g)
      /\ ScanState(g)
      /\ "scanner" \notin x.raced => ScanHeld(g) /\ Form(g, x.mode)
  BY <1>1, <1>5, PostParts DEF g
<1> QED
  BY <1>2, <1>5, <1>7, <1>8 DEF All, g

LEMMA ListChangePosted ==
  ASSUME NEW h, NEW x \in Context, All(h, x), x.posting = <<>>, NEW c \in ListCommand,
         NEW g, Keeps(h, g), x.asked \subseteq g.timeout_alarms,
         g.connect_list = Apply(h.connect_list, <<c>>)
  PROVE  All(Post(register_with_address_manager(g), <<"push_command", c>>), x)
<1> DEFINE y == [x EXCEPT !.posting = <<c>>]
<1>1. All(g, y)
  BY ListChanged
<1> HIDE DEF y
<1>2. All(register_with_address_manager(g), y)
  BY <1>1, register_with_address_manager_All
<1> QED
  BY <1>2, PostPush DEF y

LEMMA add_device_to_connect_list_All ==
  ASSUME NEW h, NEW x \in Context, All(h, x), x.posting = <<>>, NEW a \in Address
  PROVE  All(add_device_to_connect_list(h, a), x)
<1> DEFINE g == [h EXCEPT !.connect_list = @ \cup {a}]
           c == <<"add", a>>
<1>1. h \in Host /\ x.asked \subseteq h.timeout_alarms
  BY DEF All
<1>2. /\ Keeps(h, g) /\ g.connect_list = h.connect_list \cup {a}
      /\ g.timeout_alarms = h.timeout_alarms /\ h.connect_list \in SUBSET Address
  BY <1>1 DEF Keeps, Host
<1>3. c \in ListCommand /\ g.connect_list = Apply(h.connect_list, <<c>>)
  BY <1>2, ApplyOne DEF ListCommand
<1> HIDE DEF g, c
<1>4. All(Post(register_with_address_manager(g), <<"push_command", c>>), x)
  BY <1>1, <1>2, <1>3, ListChangePosted
<1> QED
  BY <1>4 DEF add_device_to_connect_list, g, c

LEMMA remove_device_from_connect_list_All ==
  ASSUME NEW h, NEW x \in Context, All(h, x), x.posting = <<>>, NEW a \in Address
  PROVE  All(remove_device_from_connect_list(h, a), x)
<1> DEFINE g == [h EXCEPT !.connect_list = @ \ {a}, !.connecting_le = @ \ {a},
                          !.direct_connections = @ \ {a}]
           c == <<"remove", a>>
<1>1. h \in Host /\ x.asked \subseteq h.timeout_alarms
  BY DEF All
<1>2. /\ Keeps(h, g) /\ g.connect_list = h.connect_list \ {a}
      /\ g.timeout_alarms = h.timeout_alarms /\ h.connect_list \in SUBSET Address
  BY <1>1 DEF Keeps, Host
<1>3. c \in ListCommand /\ g.connect_list = Apply(h.connect_list, <<c>>)
  BY <1>2, ApplyOne DEF ListCommand
<1> HIDE DEF g, c
<1>4. All(Post(register_with_address_manager(g), <<"push_command", c>>), x)
  BY <1>1, <1>2, <1>3, ListChangePosted
<1> QED
  BY <1>4 DEF remove_device_from_connect_list, g, c

LEMMA clear_connect_list_All ==
  ASSUME NEW h, NEW x \in Context, All(h, x), x.posting = <<>>
  PROVE  All(clear_connect_list(h), x)
<1> DEFINE g == [h EXCEPT !.connect_list = {}]
           c == <<"clear", NoAddress>>
<1>1. h \in Host /\ x.asked \subseteq h.timeout_alarms
  BY DEF All
<1>2. /\ Keeps(h, g) /\ g.connect_list = {}
      /\ g.timeout_alarms = h.timeout_alarms /\ h.connect_list \in SUBSET Address
  BY <1>1 DEF Keeps, Host
<1>3. c \in ListCommand /\ g.connect_list = Apply(h.connect_list, <<c>>)
  BY <1>2, ApplyOne DEF ListCommand
<1> HIDE DEF g, c
<1>4. All(Post(register_with_address_manager(g), <<"push_command", c>>), x)
  BY <1>1, <1>2, <1>3, ListChangePosted
<1> QED
  BY <1>4 DEF clear_connect_list, g, c

(***************************************************************************)
(* Starting and stopping, connecting and scanning.                         *)
(***************************************************************************)
LEMMA disarm_connectability_All ==
  ASSUME NEW h, NEW x, All(h, x)
  PROVE  All(disarm_connectability(h), x)
<1> DEFINE c == <<"cancel", NoAddress>>
           g == [h EXCEPT !.connectability_state = "DISARMING", !.commands = Append(@, c)]
<1> SUFFICES ASSUME h.connectability_state \in {"ARMED", "ARMING"}
             PROVE  All(g, x)
  <2>1. h.connectability_state \in {"ARMED", "ARMING"} => disarm_connectability(h) = g
    BY DEF All, disarm_connectability, enqueue_command, Host
  <2> QED
    BY <2>1 DEF disarm_connectability
<1>1. h \in Host /\ c \in SentCommand /\ c[1] = "cancel" /\ ~Changing(c) /\ ~ChangingAddress(c)
  BY DEF All, SentCommand, UseName, Changing, ChangingAddress
<1>2. Append(h.commands, c) \in Seq(SentCommand)
  BY <1>1 DEF Host
<1>3. /\ g \in Host /\ g.commands = Append(h.commands, c) /\ g.tasks = h.tasks
      /\ g.connectability_state = "DISARMING"
      /\ g.registered_clients = h.registered_clients /\ g.cached_commands = h.cached_commands
      /\ g.scan_registered = h.scan_registered /\ g.scan_paused = h.scan_paused
      /\ g.is_scanning = h.is_scanning /\ g.connect_list = h.connect_list
      /\ g.timeout_alarms = h.timeout_alarms
  BY <1>1, <1>2 DEF Host, ConnectabilityState
<1> HIDE DEF c, g
<1>4. Sent(h, g, c)
  BY <1>1, <1>3 DEF Sent
<1>5. Cancelled(g)
  BY <1>1, <1>4, SentCancelled
<1>6. Attempt(g)
  <2>1. At(g.commands, "create") = At(h.commands, "create")
    BY <1>1, <1>3, AtAppend DEF Host
  <2> QED
    BY <1>3, <1>5, <2>1 DEF All, Attempt, OneAttempt, AnswersInOrder, StateFits, Attempting
<1>7. "le" \notin x.raced => Held(g)
  BY <1>1, <1>3, <1>4, SentHeld DEF All
<1>8. ScanState(g) /\ ("scanner" \notin x.raced => ScanHeld(g))
  BY <1>1, <1>3, <1>4, SentScanState, SentScanHeld DEF All
<1>9. "scanner" \notin x.raced => Form(g, x.mode)
  BY <1>3, SameForm DEF All
<1>10. Stream(g, x) = Stream(h, x)
  BY <1>1, <1>3, <1>4, SentStream
<1> QED
  BY <1>3, <1>6, <1>7, <1>8, <1>9, <1>10 DEF All

LEMMA arm_connectability_All ==
  ASSUME NEW h, NEW x, All(h, x),
         "le" \in x.raced \/ h.registered_clients["le"] \notin {"PAUSED", Absent}
  PROVE  All(arm_connectability(h), x)
<1> DEFINE c == <<"create", NoAddress>>
           g == [h EXCEPT !.connectability_state = "ARMING", !.connecting_le = h.connect_list,
                          !.commands = Append(@, c)]
<1> SUFFICES ASSUME h.connectability_state = "DISARMED"
             PROVE  All(g, x)
  <2>1. h.connectability_state = "DISARMED" /\ h.connect_list # {} => arm_connectability(h) = g
    BY DEF All, arm_connectability, enqueue_command, Host
  <2>2. ~(h.connectability_state = "DISARMED" /\ h.connect_list # {})
          => arm_connectability(h) = h
    BY DEF arm_connectability
  <2> HIDE DEF g
  <2> QED
    BY <2>1, <2>2
<1>1. h \in Host /\ c \in SentCommand /\ c[1] = "create" /\ ~Changing(c) /\ ~ChangingAddress(c)
  BY DEF All, SentCommand, UseName, Changing, ChangingAddress
<1>2. Append(h.commands, c) \in Seq(SentCommand)
  BY <1>1 DEF Host
<1>3. /\ g \in Host /\ g.commands = Append(h.commands, c) /\ g.tasks = h.tasks
      /\ g.connectability_state = "ARMING"
      /\ g.registered_clients = h.registered_clients /\ g.cached_commands = h.cached_commands
      /\ g.scan_registered = h.scan_registered /\ g.scan_paused = h.scan_paused
      /\ g.is_scanning = h.is_scanning /\ g.connect_list = h.connect_list
      /\ g.timeout_alarms = h.timeout_alarms
  BY <1>1, <1>2 DEF Host, ConnectabilityState
<1> HIDE DEF c, g
<1>4. Sent(h, g, c)
  BY <1>1, <1>3 DEF Sent
<1>5. Attempt(g)
  <2>1. At(h.commands, "create") = {} /\ ~initiating /\ At(h.tasks, "central") = {}
    BY DEF All, Attempt, StateFits, Attempting
  <2>2. /\ \A i \in At(g.commands, "create") : i = Len(h.commands) + 1
        /\ At(g.commands, "create") # {}
    BY <1>1, <1>4, <2>1, SentLast DEF At
  <2> QED
    BY <1>3, <2>1, <2>2 DEF All, Attempt, OneAttempt, AnswersInOrder, StateFits, Attempting
<1>6. "le" \notin x.raced => Held(g)
  BY <1>1, <1>3, <1>4, SentHeld DEF All
<1>7. ScanState(g) /\ ("scanner" \notin x.raced => ScanHeld(g))
  BY <1>1, <1>3, <1>4, SentScanState, SentScanHeld DEF All
<1>8. "scanner" \notin x.raced => Form(g, x.mode)
  BY <1>3, SameForm DEF All
<1>9. Stream(g, x) = Stream(h, x)
  BY <1>1, <1>3, <1>4, SentStream
<1> QED
  BY <1>3, <1>5, <1>6, <1>7, <1>8, <1>9 DEF All

LEMMA stop_scan_All ==
  ASSUME NEW h, NEW x, All(h, x)
  PROVE  All(stop_scan(h), x) /\ ~stop_scan(h).is_scanning
<1> DEFINE c == <<"scan_off", NoAddress>>
           g == [h EXCEPT !.is_scanning = FALSE, !.commands = Append(@, c)]
<1> SUFFICES ASSUME h.is_scanning
             PROVE  All(g, x) /\ ~g.is_scanning
  <2>1. h.is_scanning => stop_scan(h) = g
    BY DEF All, stop_scan, enqueue_command, Host
  <2>2. ~h.is_scanning => stop_scan(h) = h
    BY DEF stop_scan
  <2> HIDE DEF g
  <2> QED
    BY <2>1, <2>2
<1>1. h \in Host /\ c \in SentCommand /\ c[1] = "scan_off" /\ ~Changing(c) /\ ~ChangingAddress(c)
  BY DEF All, SentCommand, UseName, Changing, ChangingAddress
<1>2. Append(h.commands, c) \in Seq(SentCommand)
  BY <1>1 DEF Host
<1>3. /\ g \in Host /\ g.commands = Append(h.commands, c) /\ g.tasks = h.tasks
      /\ ~g.is_scanning /\ g.connectability_state = h.connectability_state
      /\ g.registered_clients = h.registered_clients /\ g.cached_commands = h.cached_commands
      /\ g.scan_registered = h.scan_registered /\ g.scan_paused = h.scan_paused
      /\ g.connect_list = h.connect_list /\ g.timeout_alarms = h.timeout_alarms
  BY <1>1, <1>2 DEF Host
<1> HIDE DEF c, g
<1>4. Sent(h, g, c)
  BY <1>1, <1>3 DEF Sent
<1>5. Attempt(g)
  BY <1>1, <1>3, <1>4, SentAttempt DEF All
<1>6. "le" \notin x.raced => Held(g)
  BY <1>1, <1>3, <1>4, SentHeld DEF All
<1>7. ScanState(g)
  BY <1>1, <1>3, <1>4, SentScanOff DEF All, ScanState
<1>8. "scanner" \notin x.raced => ScanHeld(g) /\ Form(g, x.mode)
  BY <1>1, <1>3, <1>4, SentScanHeld, SameForm DEF All
<1>9. Stream(g, x) = Stream(h, x)
  BY <1>1, <1>3, <1>4, SentStream
<1> QED
  BY <1>3, <1>5, <1>6, <1>7, <1>8, <1>9 DEF All

(* A scanner that is registered starts again. *)
LEMMA ScanSent ==
  ASSUME NEW h, NEW x, All(h, x), NEW g, NEW c, Sent(h, g, c), c = <<"scan_on", NoAddress>>,
         ~h.scan_paused, h.scan_registered,
         g.is_scanning, g.tasks = h.tasks,
         g.connectability_state = h.connectability_state,
         g.registered_clients = h.registered_clients, g.cached_commands = h.cached_commands,
         g.scan_registered = h.scan_registered, g.scan_paused = h.scan_paused,
         g.connect_list = h.connect_list, g.timeout_alarms = h.timeout_alarms
  PROVE  All(g, x)
<1>1. c[1] = "scan_on" /\ ~Changing(c) /\ ~ChangingAddress(c)
  BY DEF Changing, ChangingAddress, UseName
<1>2. Attempt(g)
  BY <1>1, SentAttempt DEF All
<1>3. "le" \notin x.raced => Held(g)
  BY <1>1, SentHeld DEF All
<1>4. ScanState(g)
  BY DEF ScanState
<1>5. "scanner" \notin x.raced => ScanHeld(g) /\ Form(g, x.mode)
  BY <1>1, SentScanHeld, SameForm DEF All
<1>6. Stream(g, x) = Stream(h, x)
  BY <1>1, SentStream
<1> QED
  BY <1>2, <1>3, <1>4, <1>5, <1>6 DEF All, Sent

(* A closure that registers the scanner comes only with a race, here. *)
LEMMA start_scan_All ==
  ASSUME NEW h, NEW x, All(h, x),
         h.scan_paused \/ h.scan_registered \/ "scanner" \in x.raced
  PROVE  All(start_scan(h), x)
<1>1. h \in Host /\ x.asked \subseteq h.timeout_alarms
  BY DEF All
<1>2. CASE h.scan_paused
  <2> DEFINE g == [h EXCEPT !.scan_on_resume = TRUE]
  <2>1. Keeps(h, g) /\ g.connect_list = h.connect_list /\ g.timeout_alarms = h.timeout_alarms
    BY <1>1 DEF Keeps, Host
  <2> HIDE DEF g
  <2>2. All(g, x)
    BY <1>1, <2>1, KeepsAll
  <2> QED
    BY <1>2, <2>2 DEF start_scan, g
<1>3. CASE ~h.scan_paused
  <2> DEFINE task == <<"register_client", "scanner">>
             b == IF h.scan_registered THEN h ELSE Post(h, task)
             r == [b EXCEPT !.scan_registered = TRUE]
             c == <<"scan_on", NoAddress>>
             g == [b EXCEPT !.is_scanning = TRUE, !.scan_registered = TRUE,
                            !.commands = Append(@, c)]
  <2>1. start_scan(h) = enqueue_command([b EXCEPT !.is_scanning = TRUE, !.scan_registered = TRUE], c)
    BY <1>3 DEF start_scan
  <2>2. All(b, x) /\ ~b.scan_paused /\ (b.scan_registered \/ "scanner" \in x.raced)
    <3>1. CASE h.scan_registered
      BY <1>3, <3>1
    <3>2. CASE ~h.scan_registered
      <4>1. task \in Task /\ Inert(task, x) /\ task[1] # "push_command"
        BY <1>3, <3>2 DEF Inert, Task, ClientTask, Client
      <4>2. Post(h, task).scan_paused = h.scan_paused
        BY <1>1, <4>1, PostFields
      <4> HIDE DEF task
      <4> QED
        BY <1>3, <3>2, <4>1, <4>2, PostInert
    <3> QED
      BY <3>1, <3>2
  <2> HIDE DEF b
  <2>3. b \in Host /\ x.asked \subseteq b.timeout_alarms
    BY <2>2 DEF All
  <2>4. /\ r \in Host /\ r.scan_registered /\ r.scan_paused = b.scan_paused
        /\ r.is_scanning = b.is_scanning /\ r.commands = b.commands /\ r.tasks = b.tasks
        /\ r.connectability_state = b.connectability_state
        /\ r.registered_clients = b.registered_clients /\ r.cached_commands = b.cached_commands
        /\ r.connect_list = b.connect_list /\ r.timeout_alarms = b.timeout_alarms
    BY <2>3 DEF Host
  <2>5. c \in SentCommand
    BY DEF SentCommand, UseName
  <2>6. Append(b.commands, c) \in Seq(SentCommand)
    BY <2>3, <2>5 DEF Host
  <2>7. /\ g \in Host /\ g.commands = Append(r.commands, c) /\ g.tasks = r.tasks
        /\ g.is_scanning /\ g.connectability_state = r.connectability_state
        /\ g.registered_clients = r.registered_clients /\ g.cached_commands = r.cached_commands
        /\ g.scan_registered = r.scan_registered /\ g.scan_paused = r.scan_paused
        /\ g.connect_list = r.connect_list /\ g.timeout_alarms = r.timeout_alarms
    BY <2>3, <2>4, <2>6 DEF Host
  <2>8. start_scan(h) = g
    BY <2>1, <2>3 DEF enqueue_command, Host
  <2> HIDE DEF g, r
  <2>9. All(r, x)
    <3>1. Attempt(r)
      BY <2>2, <2>4 DEF All, Attempt, OneAttempt, AnswersInOrder, StateFits, Attempting,
                        Cancelled, CancelledBefore
    <3>2. "le" \notin x.raced => Held(r)
      BY <2>2, <2>4 DEF All, Held, Cancelled, CancelledBefore
    <3>3. ScanState(r) /\ ("scanner" \notin x.raced => ScanHeld(r))
      BY <2>2, <2>4 DEF All, ScanState, ScanHeld, ScanOff, ScanOffBefore
    <3>4. "scanner" \notin x.raced => Form(r, x.mode)
      <4> SUFFICES ASSUME "scanner" \notin x.raced
                   PROVE  Form(r, x.mode)
        OBVIOUS
      <4>1. b.scan_registered /\ b.scan_registered \in BOOLEAN /\ r.scan_registered \in BOOLEAN
        BY <2>2, <2>3, <2>4 DEF Host
      <4>2. r.scan_registered = b.scan_registered
        BY <2>4, <4>1
      <4> QED
        BY <2>2, <2>4, <4>2, SameForm DEF All
    <3>5. Stream(r, x) = Stream(b, x)
      BY <2>4 DEF Stream
    <3> QED
      BY <2>2, <2>4, <3>1, <3>2, <3>3, <3>4, <3>5 DEF All
  <2>10. Sent(r, g, c)
    BY <2>4, <2>5, <2>7 DEF Sent
  <2>11. All(g, x)
    BY <2>2, <2>4, <2>7, <2>9, <2>10, ScanSent
  <2> QED
    BY <2>8, <2>11
<1> QED
  BY <1>2, <1>3

(***************************************************************************)
(* The clients: OnPause and OnResume.                                      *)
(***************************************************************************)
SameContext(x, y) ==
  /\ y.raced = x.raced /\ y.asked = x.asked
  /\ y.pushing = x.pushing /\ y.posting = x.posting

LEMMA ModeChanged ==
  ASSUME NEW h, NEW x, NEW y, All(h, x), SameContext(x, y),
         "scanner" \in x.raced \/ Form(h, y.mode)
  PROVE  All(h, y)
BY DEF All, SameContext, Stream

LEMMA SetStateFields ==
  ASSUME NEW h \in Host, NEW c \in Client, NEW state \in ClientStates \cup {Absent}
  PROVE  /\ SetState(h, c, state) \in Host
         /\ SetState(h, c, state).registered_clients[c] = state
         /\ \A d \in Client \ {c} :
              SetState(h, c, state).registered_clients[d] = h.registered_clients[d]
         /\ SetState(h, c, state).cached_commands = h.cached_commands
         /\ SetState(h, c, state).scan_registered = h.scan_registered
         /\ SetState(h, c, state).scan_paused = h.scan_paused
         /\ SetState(h, c, state).is_scanning = h.is_scanning
         /\ SetState(h, c, state).connectability_state = h.connectability_state
         /\ SetState(h, c, state).connect_list = h.connect_list
         /\ SetState(h, c, state).tasks = h.tasks
         /\ SetState(h, c, state).commands = h.commands
         /\ SetState(h, c, state).timeout_alarms = h.timeout_alarms
         /\ SetState(h, c, state).rotation_alarm = h.rotation_alarm
<1> DEFINE r == [h.registered_clients EXCEPT ![c] = state]
<1>1. /\ r \in [Client -> ClientStates \cup {Absent}] /\ r[c] = state
      /\ \A d \in Client \ {c} : r[d] = h.registered_clients[d]
  BY DEF Host
<1>2. SetState(h, c, state) = [h EXCEPT !.registered_clients = r]
  BY DEF SetState
<1> HIDE DEF r
<1>3. SetState(h, c, state) \in Host /\ SetState(h, c, state).registered_clients = r
  BY <1>1, <1>2 DEF Host
<1> QED
  BY <1>1, <1>2, <1>3

LEMMA SetStateAll ==
  ASSUME NEW h, NEW x, All(h, x), NEW c \in Client, NEW state \in ClientStates \cup {Absent},
         c = "le" /\ state \in {"PAUSED", Absent} => "le" \in x.raced \/ Cancelled(h),
         c = "scanner" => "scanner" \in x.raced \/ Form(SetState(h, c, state), x.mode)
  PROVE  All(SetState(h, c, state), x)
<1> DEFINE g == SetState(h, c, state)
<1>1. /\ h \in Host /\ g \in Host /\ g.registered_clients[c] = state
      /\ \A d \in Client \ {c} : g.registered_clients[d] = h.registered_clients[d]
      /\ g.cached_commands = h.cached_commands
      /\ g.scan_registered = h.scan_registered /\ g.scan_paused = h.scan_paused
      /\ g.is_scanning = h.is_scanning /\ g.connectability_state = h.connectability_state
      /\ g.connect_list = h.connect_list /\ g.tasks = h.tasks /\ g.commands = h.commands
      /\ g.timeout_alarms = h.timeout_alarms
  BY SetStateFields DEF All
<1>2. c = "scanner" => "scanner" \in x.raced \/ Form(g, x.mode)
  OBVIOUS
<1> HIDE DEF g
<1>3. Attempt(g)
  BY <1>1 DEF All, Attempt, OneAttempt, AnswersInOrder, StateFits, Attempting, Cancelled,
              CancelledBefore
<1>4. "le" \notin x.raced => Held(g)
  <2> SUFFICES ASSUME "le" \notin x.raced
               PROVE  Held(g)
    OBVIOUS
  <2>1. Held(h) /\ "le" \in Client
    BY DEF All, Client
  <2>2. g.registered_clients["le"] \in {"PAUSED", Absent} => Cancelled(h)
    <3>1. CASE c = "le"
      BY <1>1, <3>1
    <3>2. CASE c # "le"
      BY <1>1, <2>1, <3>2 DEF Held
    <3> QED
      BY <3>1, <3>2
  <2> QED
    BY <1>1, <2>1, <2>2 DEF Held, Cancelled, CancelledBefore
<1>5. ScanState(g) /\ ("scanner" \notin x.raced => ScanHeld(g))
  BY <1>1 DEF All, ScanState, ScanHeld, ScanOff, ScanOffBefore
<1>6. "scanner" \notin x.raced => Form(g, x.mode)
  <2>1. CASE c = "scanner"
    BY <1>2, <2>1
  <2>2. CASE c # "scanner"
    BY <1>1, <2>2, SameForm DEF All, Client
  <2> QED
    BY <2>1, <2>2
<1>7. Stream(g, x) = Stream(h, x)
  BY <1>1 DEF Stream
<1> QED
  BY <1>1, <1>3, <1>4, <1>5, <1>6, <1>7 DEF All, g

LEMMA check_for_unregister_All ==
  ASSUME NEW h, NEW x, All(h, x)
  PROVE  All(check_for_unregister(h), x)
<1> DEFINE g == [h EXCEPT !.address_manager_registered = FALSE, !.pause_connection = FALSE,
                          !.ready_to_unregister = FALSE]
<1>1. h \in Host /\ x.asked \subseteq h.timeout_alarms
  BY DEF All
<1>2. Keeps(h, g) /\ g.connect_list = h.connect_list /\ g.timeout_alarms = h.timeout_alarms
  BY <1>1 DEF Keeps, Host
<1> HIDE DEF g
<1>3. All(g, x)
  BY <1>1, <1>2, KeepsAll
<1>4. All(Post(g, <<"unregister_client", "le">>), x)
  BY <1>3, InertTasks, PostInert
<1> QED
  BY <1>4 DEF check_for_unregister, g

LEMMA le_OnPause_All ==
  ASSUME NEW h, NEW x, All(h, x)
  PROVE  All(le_OnPause(h), x)
<1> DEFINE p == [h EXCEPT !.pause_connection = TRUE]
           q == [p EXCEPT !.arm_on_resume = p.connecting_le # {}]
<1>1. h \in Host /\ x.asked \subseteq h.timeout_alarms
  BY DEF All
<1>2. /\ Keeps(h, p) /\ p.connect_list = h.connect_list /\ p.timeout_alarms = h.timeout_alarms
      /\ p \in Host
  BY <1>1 DEF Keeps, Host
<1> HIDE DEF p
<1>3. Keeps(p, q) /\ q.connect_list = p.connect_list /\ q.timeout_alarms = p.timeout_alarms
  BY <1>2 DEF Keeps, Host
<1> HIDE DEF q
<1>4. All(p, x) /\ All(q, x)
  BY <1>1, <1>2, <1>3, KeepsAll
<1>5. "le" \in Client
  BY DEF Client
<1>6. All(Post(p, <<"ack_pause", "le">>), x) /\ All(disarm_connectability(q), x)
  BY <1>4, <1>5, InertTasks, PostInert, disarm_connectability_All
<1> QED
  BY <1>6 DEF le_OnPause, p, q

LEMMA le_OnResume_All ==
  ASSUME NEW h, NEW x, All(h, x),
         "le" \in x.raced \/ h.registered_clients["le"] \notin {"PAUSED", Absent}
  PROVE  All(le_OnResume(h), x)
<1> DEFINE p == [h EXCEPT !.pause_connection = FALSE]
           armed == IF p.arm_on_resume THEN arm_connectability(p) ELSE p
           q == [armed EXCEPT !.arm_on_resume = FALSE]
<1>1. h \in Host /\ x.asked \subseteq h.timeout_alarms
  BY DEF All
<1>2. /\ Keeps(h, p) /\ p.connect_list = h.connect_list /\ p.timeout_alarms = h.timeout_alarms
      /\ p.registered_clients = h.registered_clients
  BY <1>1 DEF Keeps, Host
<1> HIDE DEF p
<1>3. All(p, x)
  BY <1>1, <1>2, KeepsAll
<1>4. All(armed, x)
  BY <1>2, <1>3, arm_connectability_All
<1> HIDE DEF armed
<1>5. /\ Keeps(armed, q) /\ q.connect_list = armed.connect_list
      /\ q.timeout_alarms = armed.timeout_alarms /\ x.asked \subseteq armed.timeout_alarms
  BY <1>4 DEF All, Keeps, Host
<1> HIDE DEF q
<1>6. All(q, x) /\ "le" \in Client
  BY <1>4, <1>5, KeepsAll DEF Client
<1>7. All(Post(q, <<"ack_resume", "le">>), x)
  BY <1>6, InertTasks, PostInert
<1>8. All(check_for_unregister(Post(q, <<"ack_resume", "le">>)), x)
  BY <1>7, check_for_unregister_All
<1> QED
  BY <1>8 DEF le_OnResume, q, armed, p

(* scan_paused may be set when the scan has been stopped, and be reset     *)
(* when the address manager does not take the scanner for paused.          *)
LEMMA ScanPausedAll ==
  ASSUME NEW h, NEW x, All(h, x), NEW paused \in BOOLEAN, NEW again \in BOOLEAN,
         paused => ~h.is_scanning,
         ~paused => "scanner" \in x.raced \/ ScannerState(h) # "PAUSED"
  PROVE  All([h EXCEPT !.scan_paused = paused, !.scan_on_resume = again], x)
<1> DEFINE g == [h EXCEPT !.scan_paused = paused, !.scan_on_resume = again]
<1>1. /\ h \in Host /\ g \in Host /\ g.scan_paused = paused
      /\ g.registered_clients = h.registered_clients /\ g.cached_commands = h.cached_commands
      /\ g.scan_registered = h.scan_registered
      /\ g.is_scanning = h.is_scanning /\ g.connectability_state = h.connectability_state
      /\ g.connect_list = h.connect_list /\ g.tasks = h.tasks /\ g.commands = h.commands
      /\ g.timeout_alarms = h.timeout_alarms
  BY DEF All, Host
<1> HIDE DEF g
<1>2. Attempt(g)
  BY <1>1 DEF All, Attempt, OneAttempt, AnswersInOrder, StateFits, Attempting, Cancelled,
              CancelledBefore
<1>3. "le" \notin x.raced => Held(g)
  BY <1>1 DEF All, Held, Cancelled, CancelledBefore
<1>4. ScanState(g) /\ ("scanner" \notin x.raced => ScanHeld(g))
  BY <1>1 DEF All, ScanState, ScanHeld, ScanOff, ScanOffBefore
<1>5. "scanner" \notin x.raced => Form(g, x.mode)
  BY <1>1 DEF All, Form, Synced, Joining, Leaving, Pending, NotListed, ScannerState, ScannerAcks
<1>6. Stream(g, x) = Stream(h, x)
  BY <1>1 DEF Stream
<1> QED
  BY <1>1, <1>2, <1>3, <1>4, <1>5, <1>6 DEF All, g

LEMMA scanner_OnPause_All ==
  ASSUME NEW h, NEW x, All(h, x)
  PROVE  All(scanner_OnPause(h), x) /\ ScannerAcks(scanner_OnPause(h))
<1> DEFINE s == stop_scan(h)
           v == h.is_scanning
           p == [s EXCEPT !.scan_paused = TRUE, !.scan_on_resume = v]
           task == <<"ack_pause", "scanner">>
<1>1. h \in Host /\ v \in BOOLEAN
  BY DEF All, Host
<1>2. stop_scan([h EXCEPT !.scan_paused = TRUE, !.scan_on_resume = v]) = p
  BY <1>1 DEF stop_scan, enqueue_command, Host
<1>3. All(s, x) /\ ~s.is_scanning
  BY stop_scan_All
<1>4. scanner_OnPause(h) = Post(p, task)
  BY <1>2 DEF scanner_OnPause
<1> HIDE DEF s, v
<1>5. All(p, x)
  BY <1>1, <1>3, ScanPausedAll
<1> HIDE DEF p
<1>6. task \in Task /\ Inert(task, x) /\ task[1] # "push_command"
  BY InertTasks DEF Client, Inert
<1>7. All(Post(p, task), x)
  BY <1>5, <1>6, PostInert
<1>8. ScannerAcks(Post(p, task))
  <2>1. p.tasks \in Seq(Task) /\ Post(p, task).tasks = Append(p.tasks, task)
    BY <1>5, <1>6, PostFields DEF All, Host
  <2>2. Len(p.tasks) + 1 \in DOMAIN Append(p.tasks, task)
        /\ Append(p.tasks, task)[Len(p.tasks) + 1] = task
    BY <1>6, <2>1
  <2> QED
    BY <2>1, <2>2 DEF ScannerAcks
<1> QED
  BY <1>4, <1>7, <1>8

LEMMA scanner_OnResume_All ==
  ASSUME NEW h, NEW x, All(h, x),
         "scanner" \in x.raced \/ (ScannerState(h) # "PAUSED" /\ h.scan_registered)
  PROVE  All(scanner_OnResume(h), x)
<1> DEFINE p == [h EXCEPT !.scan_paused = FALSE]
           q == IF p.scan_on_resume THEN start_scan(p) ELSE p
           again == h.scan_on_resume
<1>1. h \in Host /\ again \in BOOLEAN
  BY DEF All, Host
<1>2. p = [h EXCEPT !.scan_paused = FALSE, !.scan_on_resume = again]
  BY <1>1 DEF Host
<1>3. p.scan_registered = h.scan_registered
  BY <1>1 DEF Host
<1> HIDE DEF again
<1>4. All(p, x)
  BY <1>1, <1>2, ScanPausedAll
<1> HIDE DEF p
<1>5. All(q, x)
  BY <1>3, <1>4, start_scan_All
<1> HIDE DEF q
<1>6. All(Post(q, <<"ack_resume", "scanner">>), x)
  BY <1>5, InertTasks, PostInert DEF Client
<1> QED
  BY <1>6 DEF scanner_OnResume, p, q

LEMMA OnPauseFields ==
  ASSUME NEW h \in Host, NEW c \in Client
  PROVE  /\ OnPause(h, c).registered_clients = h.registered_clients
         /\ OnPause(h, c).cached_commands = h.cached_commands
<1>1. /\ le_OnPause(h).registered_clients = h.registered_clients
      /\ le_OnPause(h).cached_commands = h.cached_commands
  BY DEF le_OnPause, disarm_connectability, enqueue_command, Post, Host
<1>2. /\ scanner_OnPause(h).registered_clients = h.registered_clients
      /\ scanner_OnPause(h).cached_commands = h.cached_commands
  BY DEF scanner_OnPause, stop_scan, enqueue_command, Post, Host
<1> QED
  BY <1>1, <1>2 DEF OnPause

LEMMA OnPauseAll ==
  ASSUME NEW h, NEW x, All(h, x), NEW c \in Client
  PROVE  All(OnPause(h, c), x) /\ (c = "scanner" => ScannerAcks(OnPause(h, c)))
BY le_OnPause_All, scanner_OnPause_All DEF OnPause, Client

(***************************************************************************)
(* The address manager.                                                    *)
(***************************************************************************)

(* What the registration of the scanner allows besides the invariant. *)
LEMMA SyncedFacts ==
  ASSUME NEW h, NEW x, All(h, x), x.mode \in {"synced", "acking"}, "scanner" \notin x.raced
  PROVE  /\ Synced(h) /\ (ScannerState(h) # Absent <=> h.scan_registered)
         /\ ScannerState(h) = "PAUSED" => h.scan_paused
BY DEF All, Form, Synced

LEMMA pause_client_All ==
  ASSUME NEW h, NEW x \in Context, All(h, x), NEW c \in Client,
         x.mode = "synced" \/ (x.mode = "pending" /\ h.cached_commands # <<>>)
  PROVE  /\ All(pause_client(h, c), x)
         /\ pause_client(h, c).cached_commands = h.cached_commands
<1> DEFINE w == "WAITING_FOR_PAUSE"
           g == SetState(h, c, w)
<1> SUFFICES ASSUME h.registered_clients[c] \notin {Absent, "PAUSED"}
             PROVE  All(OnPause(g, c), x) /\ OnPause(g, c).cached_commands = h.cached_commands
  BY DEF pause_client
<1>1. h \in Host /\ w \in ClientStates \cup {Absent} /\ w # Absent /\ w # "PAUSED"
  BY DEF All, ClientStates, Absent
<1>2. /\ g \in Host /\ g.cached_commands = h.cached_commands /\ g.tasks = h.tasks
      /\ g.registered_clients[c] = w /\ g.scan_registered = h.scan_registered
      /\ g.scan_paused = h.scan_paused
  BY <1>1, SetStateFields
<1>3. OnPause(g, c).cached_commands = h.cached_commands
  BY <1>2, OnPauseFields
<1>4. CASE c = "le" \/ "scanner" \in x.raced
  <2>1. All(g, x)
    BY <1>1, <1>4, SetStateAll
  <2> QED
    BY <1>3, <2>1, OnPauseAll
<1>5. CASE c = "scanner" /\ "scanner" \notin x.raced /\ x.mode = "synced"
  <2> DEFINE y == [x EXCEPT !.mode = "acking"]
  <2>1. SameContext(x, y) /\ SameContext(y, x) /\ y.mode = "acking"
    BY DEF Context, SameContext
  <2> HIDE DEF y
  <2>2. Synced(h) /\ (ScannerState(h) # Absent <=> h.scan_registered)
    BY <1>5, SyncedFacts
  <2>3. Form(h, "acking") /\ Synced(g) /\ Form(g, "acking")
    BY <1>1, <1>2, <1>5, <2>2 DEF Form, Synced, NotListed, ScannerState
  <2>4. All(h, y)
    BY <2>1, <2>3, ModeChanged
  <2>5. All(g, y)
    BY <1>1, <1>5, <2>1, <2>3, <2>4, SetStateAll
  <2>6. All(OnPause(g, c), y) /\ ScannerAcks(OnPause(g, c))
    BY <1>5, <2>5, OnPauseAll
  <2>7. Form(OnPause(g, c), "synced")
    BY <1>5, <2>1, <2>6 DEF All, Form, SameContext
  <2>8. All(OnPause(g, c), x)
    BY <1>5, <2>1, <2>6, <2>7, ModeChanged
  <2> QED
    BY <1>3, <2>8
<1>6. CASE c = "scanner" /\ "scanner" \notin x.raced /\ x.mode = "pending"
  <2>1. Pending(h)
    BY <1>6 DEF All, Form
  <2>2. Pending(g)
    BY <1>1, <1>2, <1>6, <2>1 DEF Pending, Joining, Leaving, NotListed, ScannerState
  <2>3. Form(g, x.mode)
    BY <1>6, <2>2 DEF Form
  <2>4. All(g, x)
    BY <1>1, <1>6, <2>3, SetStateAll
  <2> QED
    BY <1>3, <2>4, OnPauseAll
<1> QED
  BY <1>4, <1>5, <1>6 DEF Client

LEMMA ClientOrderIsClient == ClientOrder[1] \in Client /\ ClientOrder[2] \in Client
BY ClientOrderAssumption DEF Client

LEMMA pause_registered_clients_All ==
  ASSUME NEW h, NEW x \in Context, All(h, x),
         x.mode = "synced" \/ (x.mode = "pending" /\ h.cached_commands # <<>>)
  PROVE  /\ All(pause_registered_clients(h), x)
         /\ pause_registered_clients(h).cached_commands = h.cached_commands
<1> DEFINE g == pause_client(h, ClientOrder[1])
<1>1. All(g, x) /\ g.cached_commands = h.cached_commands
  BY pause_client_All, ClientOrderIsClient
<1> HIDE DEF g
<1>2. /\ All(pause_client(g, ClientOrder[2]), x)
      /\ pause_client(g, ClientOrder[2]).cached_commands = h.cached_commands
  BY <1>1, pause_client_All, ClientOrderIsClient
<1> QED
  BY <1>2 DEF pause_registered_clients, g

(* When every client is paused, or unknown, nothing is going on. *)
LEMMA AllPausedFacts ==
  ASSUME NEW h, NEW x, All(h, x), AllPaused(h), x.mode \in {"synced", "leaving"}
  PROVE  /\ h.registered_clients["le"] \in {"PAUSED", Absent}
         /\ h.registered_clients["scanner"] \in {"PAUSED", Absent}
         /\ "scanner" \in x.raced \/ ScanOff(h)
<1>1. /\ h.registered_clients["le"] \in {"PAUSED", Absent}
      /\ h.registered_clients["scanner"] \in {"PAUSED", Absent}
  BY DEF AllPaused, Registered, Client
<1>2. ASSUME "scanner" \notin x.raced
      PROVE  ~h.is_scanning
  <2>1. ScanState(h) /\ Form(h, x.mode)
    BY <1>2 DEF All
  <2> QED
    BY <1>1, <2>1 DEF Form, Synced, Leaving, ScannerState, ScanState
<1> QED
  BY <1>1, <1>2 DEF All, ScanState

(* The command at the head of cached_commands is sent. *)
LEMMA CachedSent ==
  ASSUME NEW h, NEW x, All(h, x), AllPaused(h), x.mode \in {"synced", "leaving"},
         h.cached_commands # <<>>, NEW g, NEW c, Sent(h, g, c),
         Apply(Apply(accept_list, h.commands), <<c>>)
           = Apply(Apply(accept_list, h.commands), <<Head(h.cached_commands)>>),
         g.cached_commands = Tail(h.cached_commands), g.tasks = h.tasks,
         Changing(c), g.connectability_state = h.connectability_state,
         g.registered_clients = h.registered_clients, g.is_scanning = h.is_scanning,
         g.scan_registered = h.scan_registered, g.scan_paused = h.scan_paused,
         g.connect_list = h.connect_list, g.timeout_alarms = h.timeout_alarms
  PROVE  All(g, x)
<1>1. /\ h.registered_clients["le"] \in {"PAUSED", Absent}
      /\ h.registered_clients["scanner"] \in {"PAUSED", Absent}
      /\ "scanner" \in x.raced \/ ScanOff(h)
  BY AllPausedFacts
<1>2. c[1] # "create" /\ c[1] # "scan_on"
  BY DEF Changing, UseName
<1>3. Attempt(g)
  BY <1>2, SentAttempt DEF All
<1>4. "le" \notin x.raced => Held(g)
  BY <1>1, <1>2, SentHeld DEF All
<1>5. ScanState(g)
  BY <1>2, SentScanState DEF All
<1>6. "scanner" \notin x.raced => ScanHeld(g)
  BY <1>1, SentScanHeld DEF All
<1>7. "scanner" \notin x.raced => Form(g, x.mode)
  <2> SUFFICES ASSUME "scanner" \notin x.raced, Form(h, x.mode)
               PROVE  Form(g, x.mode)
    BY DEF All
  <2>1. ScannerState(g) = ScannerState(h) /\ ScannerState(h) # "WAITING_FOR_PAUSE"
    BY <1>1 DEF ScannerState, Absent
  <2> QED
    BY <2>1 DEF Form, Synced, Leaving, NotListed, ScannerState
<1>8. Stream(g, x) = Stream(h, x)
  <2> DEFINE l == Apply(accept_list, h.commands)
  <2>1. h.commands \in Seq(SentCommand) /\ c \in SentCommand
        /\ h.cached_commands \in Seq(CachedCommand)
    BY DEF Sent, Host
  <2>2. Apply(accept_list, g.commands) = Apply(l, <<c>>)
    BY <2>1, ApplyAppend DEF Sent
  <2>3. Apply(l, h.cached_commands)
          = Apply(Apply(l, <<Head(h.cached_commands)>>), Tail(h.cached_commands))
    BY <2>1, ApplyTail
  <2> QED
    BY <2>2, <2>3 DEF Stream
<1> QED
  BY <1>3, <1>4, <1>5, <1>6, <1>7, <1>8 DEF All, Sent

LEMMA handle_next_command_All ==
  ASSUME NEW h, NEW x, All(h, x), x.mode \in {"synced", "leaving"}, ~NothingToHandle(h)
  PROVE  All(handle_next_command(h), x)
<1> SUFFICES ASSUME AllPaused(h), h.cached_commands # <<>>
             PROVE  All(handle_next_command(h), x)
  BY DEF handle_next_command, NothingToHandle
<1> DEFINE m == Head(h.cached_commands)
           t == Tail(h.cached_commands)
           l == Apply(accept_list, h.commands)
           random == <<"set_random_address", NoAddress>>
<1>1. h \in Host /\ m \in CachedCommand /\ t \in Seq(CachedCommand)
  BY DEF All, Host
<1>2. random \in SentCommand /\ Changing(random) /\ random[1] \notin {"add", "remove", "clear"}
  BY DEF SentCommand, Changing, UseName
<1>3. h.commands \in Seq(SentCommand)
  BY <1>1 DEF Host
<1>4. Apply(l, <<random>>) = l
  BY <1>2, ApplyNone
<1> HIDE DEF m, t, random, l
<1>5. CASE m[1] = "rotate"
  <2> DEFINE g == [h EXCEPT !.cached_commands = t, !.rotation_alarm = TRUE,
                            !.commands = Append(@, random)]
  <2>1. handle_next_command(h) = g
    BY <1>1, <1>5 DEF handle_next_command, set_random_address, enqueue_command, Host, m, t, random
  <2>2. /\ g \in Host /\ g.commands = Append(h.commands, random) /\ g.cached_commands = t
        /\ g.tasks = h.tasks /\ g.connectability_state = h.connectability_state
        /\ g.registered_clients = h.registered_clients /\ g.is_scanning = h.is_scanning
        /\ g.scan_registered = h.scan_registered /\ g.scan_paused = h.scan_paused
        /\ g.connect_list = h.connect_list /\ g.timeout_alarms = h.timeout_alarms
    <3>1. Append(h.commands, random) \in Seq(SentCommand)
      BY <1>2, <1>3
    <3> QED
      BY <1>1, <3>1 DEF Host
  <2> HIDE DEF g
  <2>3. Sent(h, g, random)
    BY <1>1, <1>2, <2>2 DEF Sent
  <2>4. Apply(l, <<m>>) = l
    BY <1>5, ApplyNone DEF l
  <2>5. All(g, x)
    BY <1>2, <1>4, <2>2, <2>3, <2>4, CachedSent DEF l, m, t
  <2> QED
    BY <2>1, <2>5
<1>6. CASE m[1] = "update_irk"
  <2> DEFINE g == [h EXCEPT !.cached_commands = t, !.commands = Append(@, random)]
  <2>1. handle_next_command(h) = g
    BY <1>1, <1>6 DEF handle_next_command, set_random_address, enqueue_command, Host, m, t, random
  <2>2. /\ g \in Host /\ g.commands = Append(h.commands, random) /\ g.cached_commands = t
        /\ g.tasks = h.tasks /\ g.connectability_state = h.connectability_state
        /\ g.registered_clients = h.registered_clients /\ g.is_scanning = h.is_scanning
        /\ g.scan_registered = h.scan_registered /\ g.scan_paused = h.scan_paused
        /\ g.connect_list = h.connect_list /\ g.timeout_alarms = h.timeout_alarms
    <3>1. Append(h.commands, random) \in Seq(SentCommand)
      BY <1>2, <1>3
    <3> QED
      BY <1>1, <3>1 DEF Host
  <2> HIDE DEF g
  <2>3. Sent(h, g, random)
    BY <1>1, <1>2, <2>2 DEF Sent
  <2>4. Apply(l, <<m>>) = l
    BY <1>6, ApplyNone DEF l
  <2>5. All(g, x)
    BY <1>2, <1>4, <2>2, <2>3, <2>4, CachedSent DEF l, m, t
  <2> QED
    BY <2>1, <2>5
<1>7. CASE m[1] \notin {"rotate", "update_irk"}
  <2> DEFINE g == [h EXCEPT !.cached_commands = t, !.commands = Append(@, m)]
  <2>1. handle_next_command(h) = g
    BY <1>1, <1>7 DEF handle_next_command, enqueue_command, Host, m, t
  <2>2. m \in SentCommand /\ Changing(m)
    BY <1>1, <1>7 DEF CachedCommand, SentCommand, Changing, UseName, ListCommand, ResolvingName
  <2>3. /\ g \in Host /\ g.commands = Append(h.commands, m) /\ g.cached_commands = t
        /\ g.tasks = h.tasks /\ g.connectability_state = h.connectability_state
        /\ g.registered_clients = h.registered_clients /\ g.is_scanning = h.is_scanning
        /\ g.scan_registered = h.scan_registered /\ g.scan_paused = h.scan_paused
        /\ g.connect_list = h.connect_list /\ g.timeout_alarms = h.timeout_alarms
    <3>1. Append(h.commands, m) \in Seq(SentCommand)
      BY <1>3, <2>2
    <3> QED
      BY <1>1, <3>1 DEF Host
  <2> HIDE DEF g
  <2>4. Sent(h, g, m)
    BY <1>1, <2>2, <2>3 DEF Sent
  <2>5. All(g, x)
    BY <2>2, <2>3, <2>4, CachedSent DEF l, m, t
  <2> QED
    BY <2>1, <2>5
<1> QED
  BY <1>5, <1>6, <1>7

LEMMA resume_client_All ==
  ASSUME NEW h, NEW x, All(h, x), x.mode = "synced", NEW c \in Client
  PROVE  All(resume_client(h, c), x)
<1> DEFINE w == "WAITING_FOR_RESUME"
           g == SetState(h, c, w)
<1> SUFFICES ASSUME c \in Registered(h)
             PROVE  All(OnResume(g, c), x)
  BY DEF resume_client
<1>1. h \in Host /\ w \in ClientStates \cup {Absent} /\ w \notin {Absent, "PAUSED"}
  BY DEF All, ClientStates, Absent
<1>2. /\ g.tasks = h.tasks /\ g.registered_clients[c] = w
      /\ g.scan_registered = h.scan_registered
  BY <1>1, SetStateFields
<1>3. h.registered_clients[c] # Absent
  BY DEF Registered
<1>4. c = "scanner" => "scanner" \in x.raced \/ (Form(g, x.mode) /\ g.scan_registered)
  <2> SUFFICES ASSUME c = "scanner", "scanner" \notin x.raced
               PROVE  Form(g, x.mode) /\ g.scan_registered
    OBVIOUS
  <2>1. Synced(h) /\ h.scan_registered
    BY <1>3, SyncedFacts DEF ScannerState
  <2> QED
    BY <1>1, <1>2, <2>1 DEF Form, Synced, NotListed, ScannerState
<1>5. All(g, x)
  BY <1>1, <1>4, SetStateAll
<1>6. CASE c = "le"
  BY <1>1, <1>2, <1>5, <1>6, le_OnResume_All DEF OnResume
<1>7. CASE c = "scanner"
  <2>1. ScannerState(g) # "PAUSED"
    BY <1>1, <1>2, <1>7 DEF ScannerState
  <2>2. All(scanner_OnResume(g), x)
    BY <1>4, <1>5, <1>7, <2>1, scanner_OnResume_All
  <2> QED
    BY <1>7, <2>2 DEF OnResume
<1> QED
  BY <1>6, <1>7 DEF Client

LEMMA resume_registered_clients_All ==
  ASSUME NEW h, NEW x, All(h, x), x.mode = "synced"
  PROVE  All(resume_registered_clients(h), x)
<1>1. CASE h.cached_commands # <<>>
  BY <1>1, handle_next_command_All DEF resume_registered_clients, NothingToHandle
<1>2. CASE h.cached_commands = <<>>
  <2> DEFINE g == resume_client(h, ClientOrder[1])
  <2>1. All(g, x)
    BY resume_client_All, ClientOrderIsClient
  <2> HIDE DEF g
  <2>2. All(resume_client(g, ClientOrder[2]), x)
    BY <2>1, resume_client_All, ClientOrderIsClient
  <2> QED
    BY <1>2, <2>2 DEF resume_registered_clients, g
<1> QED
  BY <1>1, <1>2

LEMMA check_cached_commands_All ==
  ASSUME NEW h, NEW x \in Context, All(h, x), x.mode = "synced"
  PROVE  All(check_cached_commands(h), x)
<1>1. CASE ~AllPaused(h) /\ h.cached_commands # <<>>
  BY <1>1, pause_registered_clients_All DEF check_cached_commands
<1>2. CASE h.cached_commands = <<>>
  BY <1>2, resume_registered_clients_All DEF check_cached_commands
<1>3. CASE AllPaused(h) /\ h.cached_commands # <<>>
  BY <1>3, handle_next_command_All DEF check_cached_commands, NothingToHandle
<1> QED
  BY <1>1, <1>2, <1>3

(* What ack_pause does when it has noted the acknowledgement. *)
AfterPause(g) ==
  LET first == IF g.registered_clients[ClientOrder[1]] \in {Absent, "PAUSED"}
               THEN ClientOrder[2] ELSE ClientOrder[1]
  IN IF AllPaused(g) THEN check_cached_commands(g)
     ELSE IF g.registered_clients[first] = "WAITING_FOR_PAUSE" THEN g
     ELSE OnPause(g, first)

LEMMA ack_pause_AfterPause ==
  ASSUME NEW h, NEW c
  PROVE  ack_pause(h, c) =
           IF c \notin Registered(h) THEN h ELSE AfterPause(SetState(h, c, "PAUSED"))
BY DEF ack_pause, AfterPause

LEMMA AfterPauseAll ==
  ASSUME NEW g, NEW x \in Context, All(g, x),
         \/ x.mode = "synced"
         \/ x.mode = "leaving" /\ (AllPaused(g) => g.cached_commands # <<>>)
  PROVE  All(AfterPause(g), x)
<1>1. CASE AllPaused(g) /\ x.mode = "synced"
  BY <1>1, check_cached_commands_All DEF AfterPause
<1>2. CASE AllPaused(g) /\ x.mode = "leaving"
  <2>1. check_cached_commands(g) = handle_next_command(g)
    BY <1>2 DEF check_cached_commands
  <2> QED
    BY <1>2, <2>1, handle_next_command_All DEF AfterPause, NothingToHandle
<1>3. CASE ~AllPaused(g)
  <2> DEFINE first == IF g.registered_clients[ClientOrder[1]] \in {Absent, "PAUSED"}
                      THEN ClientOrder[2] ELSE ClientOrder[1]
  <2>1. first \in Client
    BY ClientOrderIsClient
  <2>2. All(OnPause(g, first), x)
    BY <2>1, OnPauseAll
  <2> QED
    BY <1>3, <2>2 DEF AfterPause
<1> QED
  BY <1>1, <1>2, <1>3

(* le_impl has nothing under way, or its attempt is cancelled. *)
LEMMA NotArmedCancelled ==
  ASSUME NEW h, NEW x, All(h, x), ~Armed(h)
  PROVE  Cancelled(h)
<1>1. h.connectability_state \in {"DISARMED", "DISARMING"}
  BY DEF All, Host, ConnectabilityState, Armed
<1>2. CASE h.connectability_state = "DISARMED"
  <2>1. At(h.commands, "create") = {} /\ ~initiating
    BY <1>2 DEF All, Attempt, StateFits, Attempting
  <2> QED
    BY <2>1 DEF Cancelled, CancelledBefore, Off
<1>3. CASE h.connectability_state = "DISARMING"
  BY <1>3 DEF All, Attempt, StateFits
<1> QED
  BY <1>1, <1>2, <1>3

LEMMA ack_pause_le_All ==
  ASSUME NEW h, NEW x \in Context, All(h, x), x.mode = "synced",
         "le" \in Registered(h) => "le" \in x.raced \/ ~Armed(h)
  PROVE  All(ack_pause(h, "le"), x)
<1> SUFFICES ASSUME "le" \in Registered(h)
             PROVE  All(AfterPause(SetState(h, "le", "PAUSED")), x)
  BY ack_pause_AfterPause
<1>1. "le" \in x.raced \/ Cancelled(h)
  BY NotArmedCancelled
<1>2. All(SetState(h, "le", "PAUSED"), x)
  BY <1>1, SetStateAll DEF Client, ClientStates
<1> QED
  BY <1>2, AfterPauseAll

LEMMA ack_pause_scanner_All ==
  ASSUME NEW h, NEW x \in Context, NEW y \in Context, All(h, x), x.mode = "acking",
         SameContext(x, y), y.mode = "synced",
         "scanner" \in Registered(h) => "scanner" \in x.raced \/ h.scan_paused
  PROVE  All(ack_pause(h, "scanner"), y)
<1> DEFINE g == SetState(h, "scanner", "PAUSED")
<1>1. /\ h \in Host /\ "scanner" \in Client /\ "PAUSED" \in ClientStates \cup {Absent}
      /\ "PAUSED" # Absent
  BY DEF All, Client, ClientStates, Absent
<1>2. /\ g.tasks = h.tasks /\ g.registered_clients["scanner"] = "PAUSED"
      /\ g.scan_registered = h.scan_registered /\ g.scan_paused = h.scan_paused
  BY <1>1, SetStateFields
<1>3. CASE "scanner" \notin Registered(h)
  <2>1. h.registered_clients["scanner"] = Absent
    BY <1>1, <1>3 DEF Registered
  <2>2. "scanner" \in x.raced \/ Form(h, y.mode)
    BY <2>1, SyncedFacts DEF Form, ScannerState, Absent
  <2>3. All(h, y)
    BY <2>2, ModeChanged
  <2> QED
    BY <1>3, <2>3, ack_pause_AfterPause
<1>4. CASE "scanner" \in Registered(h)
  <2>1. "scanner" \in x.raced \/ (Form(g, x.mode) /\ Form(g, y.mode))
    <3> SUFFICES ASSUME "scanner" \notin x.raced
                 PROVE  Form(g, x.mode) /\ Form(g, y.mode)
      OBVIOUS
    <3>1. Synced(h) /\ h.scan_registered /\ h.scan_paused
      BY <1>4, SyncedFacts DEF Registered, ScannerState
    <3> QED
      BY <1>1, <1>2, <3>1 DEF Form, Synced, NotListed, ScannerState
  <2>2. All(g, x)
    BY <1>1, <2>1, SetStateAll
  <2> HIDE DEF g
  <2>3. All(g, y)
    BY <2>1, <2>2, ModeChanged
  <2>4. All(AfterPause(g), y)
    BY <2>3, AfterPauseAll
  <2> QED
    BY <1>4, <2>4, ack_pause_AfterPause DEF g
<1> QED
  BY <1>3, <1>4

LEMMA ack_resume_All ==
  ASSUME NEW h, NEW x, All(h, x), x.mode \in {"synced", "leaving"}, NEW c \in Client
  PROVE  All(ack_resume(h, c), x)
<1> DEFINE w == "RESUMED"
           g == SetState(h, c, w)
<1> SUFFICES ASSUME c \in Registered(h)
             PROVE  All(g, x)
  BY DEF ack_resume
<1>1. h \in Host /\ w \in ClientStates \cup {Absent} /\ w \notin {Absent, "PAUSED", "WAITING_FOR_PAUSE"}
  BY DEF All, ClientStates, Absent
<1>2. /\ g.tasks = h.tasks /\ g.registered_clients[c] = w
      /\ g.scan_registered = h.scan_registered
  BY <1>1, SetStateFields
<1>3. c = "scanner" => "scanner" \in x.raced \/ Form(g, x.mode)
  <2> SUFFICES ASSUME c = "scanner", "scanner" \notin x.raced, Form(h, x.mode)
               PROVE  Form(g, x.mode)
    BY DEF All
  <2>1. ScannerState(h) # Absent
    BY DEF Registered, ScannerState
  <2> QED
    BY <1>1, <1>2, <2>1 DEF Form, Synced, Leaving, NotListed, ScannerState
<1> QED
  BY <1>1, <1>3, SetStateAll

(* Registration.  The closure that registers the scanner ends the time     *)
(* during which the address manager does not know of it.                   *)
LEMMA register_client_All ==
  ASSUME NEW h, NEW x, NEW y, All(h, x), NEW c \in Client, SameContext(x, y),
         y.mode = "synced",
         IF c = "scanner" THEN x.mode = "joining" ELSE x.mode = "synced"
  PROVE  All(register_client(h, c), y)
<1> DEFINE w == "RESUMED"
           s == SetState(h, c, w)
           g == IF c \in Registered(h) THEN h ELSE s
<1>1. h \in Host /\ w \in ClientStates \cup {Absent} /\ w \notin {Absent, "PAUSED", "WAITING_FOR_PAUSE"}
  BY DEF All, ClientStates, Absent
<1>2. /\ s \in Host /\ s.tasks = h.tasks /\ s.registered_clients[c] = w
      /\ s.scan_registered = h.scan_registered
  BY <1>1, SetStateFields
<1>3. All(g, y)
  <2>1. CASE c = "le" \/ "scanner" \in x.raced
    <3>1. All(h, y)
      BY <2>1, ModeChanged DEF All
    <3>2. All(s, y)
      BY <1>1, <2>1, <3>1, SetStateAll DEF SameContext
    <3> QED
      BY <3>1, <3>2
  <2>2. CASE c = "scanner" /\ "scanner" \notin x.raced
    <3>1. NotListed(h, 0) /\ Joining(h)
      BY <2>2 DEF All, Form
    <3>2. c \notin Registered(h)
      BY <2>2, <3>1 DEF Joining, ScannerState, Registered
    <3>3. Form(s, y.mode) /\ NotListed(s, 0)
      BY <1>1, <1>2, <2>2, <3>1 DEF Form, Synced, Joining, NotListed, ScannerState
    <3> DEFINE z == [raced |-> x.raced, asked |-> x.asked, pushing |-> x.pushing,
                     posting |-> x.posting, mode |-> "none"]
    <3>4. SameContext(x, z) /\ SameContext(z, y) /\ z.mode = "none" /\ z.raced = x.raced
      BY DEF SameContext
    <3> HIDE DEF z
    <3>5. \A r : Form(r, "none")
      BY DEF Form
    <3>6. All(h, z)
      BY <3>4, <3>5, ModeChanged
    <3>7. All(s, z)
      BY <1>1, <2>2, <3>4, <3>5, <3>6, SetStateAll
    <3>8. All(s, y)
      BY <3>3, <3>4, <3>7, ModeChanged
    <3> QED
      BY <3>2, <3>8
  <2> QED
    BY <2>1, <2>2 DEF Client
<1> HIDE DEF g
<1> DEFINE r == [g EXCEPT !.rotation_alarm = TRUE]
<1>4. /\ Keeps(g, r) /\ r.connect_list = g.connect_list
      /\ r.timeout_alarms = g.timeout_alarms /\ y.asked \subseteq g.timeout_alarms
  BY <1>3 DEF All, Keeps, Host
<1> HIDE DEF r
<1>5. All(r, y)
  BY <1>3, <1>4, KeepsAll
<1> QED
  BY <1>3, <1>5 DEF register_client, g, r

LEMMA RotationAlarmAll ==
  ASSUME NEW h, NEW x, All(h, x), NEW alarm \in BOOLEAN
  PROVE  All([h EXCEPT !.rotation_alarm = alarm], x)
<1> DEFINE g == [h EXCEPT !.rotation_alarm = alarm]
<1>1. /\ Keeps(h, g) /\ g.connect_list = h.connect_list
      /\ g.timeout_alarms = h.timeout_alarms /\ x.asked \subseteq h.timeout_alarms
  BY DEF All, Keeps, Host
<1> HIDE DEF g
<1>2. All(g, x)
  BY <1>1, KeepsAll
<1> QED
  BY <1>2 DEF g

(* What unregister_client does before it erases the client. *)
Unregistering(h, c) ==
  CASE h.registered_clients[c] = "WAITING_FOR_PAUSE" -> ack_pause(h, c)
    [] h.registered_clients[c] = "WAITING_FOR_RESUME" -> ack_resume(h, c)
    [] OTHER -> h

LEMMA unregister_client_Unregistering ==
  ASSUME NEW h, NEW x, NEW c \in Client, All(SetState(Unregistering(h, c), c, Absent), x)
  PROVE  All(unregister_client(h, c), x)
<1> DEFINE g == SetState(Unregistering(h, c), c, Absent)
           r == [g EXCEPT !.rotation_alarm = FALSE]
<1>1. All(g, x)
  OBVIOUS
<1>2. unregister_client(h, c) = IF Registered(g) = {} THEN r ELSE g
  BY DEF unregister_client, Unregistering
<1> HIDE DEF g
<1>3. All(r, x)
  BY <1>1, RotationAlarmAll
<1> QED
  BY <1>1, <1>2, <1>3

LEMMA unregister_le_All ==
  ASSUME NEW h, NEW x \in Context, All(h, x), x.mode = "synced",
         "le" \in x.raced \/ (~Armed(h) /\ ~Armed(unregister_client(h, "le")))
  PROVE  All(unregister_client(h, "le"), x)
<1> DEFINE k == Unregistering(h, "le")
           g == SetState(k, "le", Absent)
           r == [g EXCEPT !.rotation_alarm = FALSE]
<1>1. "le" \in Client /\ Absent \in ClientStates \cup {Absent}
  BY DEF Client
<1>2. All(k, x)
  <2>1. All(ack_pause(h, "le"), x) /\ All(ack_resume(h, "le"), x)
    BY <1>1, ack_pause_le_All, ack_resume_All
  <2> QED
    BY <2>1 DEF Unregistering
<1>3. "le" \in x.raced \/ ~Armed(k)
  <2>1. unregister_client(h, "le") = IF Registered(g) = {} THEN r ELSE g
    BY DEF unregister_client, Unregistering
  <2> HIDE DEF k
  <2>2. g \in Host /\ g.connectability_state = k.connectability_state
    BY <1>1, <1>2, SetStateFields DEF All
  <2> HIDE DEF g
  <2>3. r.connectability_state = k.connectability_state
    BY <2>2 DEF Host
  <2> QED
    BY <2>1, <2>2, <2>3 DEF Armed
<1> HIDE DEF k
<1>4. "le" \in x.raced \/ Cancelled(k)
  BY <1>2, <1>3, NotArmedCancelled
<1>5. All(g, x)
  BY <1>1, <1>2, <1>4, SetStateAll
<1> QED
  BY <1>1, <1>5, unregister_client_Unregistering DEF k

LEMMA unregister_scanner_All ==
  ASSUME NEW h, NEW x \in Context, NEW y \in Context, All(h, x), x.mode = "leaving",
         SameContext(x, y), y.mode = "synced"
  PROVE  All(unregister_client(h, "scanner"), y)
<1> DEFINE k == Unregistering(h, "scanner")
           g == SetState(k, "scanner", Absent)
           p == SetState(h, "scanner", "PAUSED")
<1>1. "scanner" \in Client /\ Absent \in ClientStates \cup {Absent}
  BY DEF Client
<1>2. CASE "scanner" \in x.raced
  <2>1. "scanner" \in y.raced
    BY <1>2 DEF SameContext
  <2>2. All(h, y)
    BY <1>2, ModeChanged
  <2>3. All(p, y)
    BY <1>1, <2>1, <2>2, SetStateAll DEF ClientStates
  <2>4. All(ack_pause(h, "scanner"), y)
    BY <2>2, <2>3, AfterPauseAll, ack_pause_AfterPause
  <2>5. All(k, y)
    BY <1>1, <2>2, <2>4, ack_resume_All DEF Unregistering
  <2> HIDE DEF k
  <2>6. All(g, y)
    BY <1>1, <2>1, <2>5, SetStateAll
  <2> QED
    BY <1>1, <2>6, unregister_client_Unregistering DEF k
<1>3. CASE "scanner" \notin x.raced
  <2>1. NotListed(h, 0) /\ Leaving(h) /\ h \in Host
    BY <1>3 DEF All, Form
  <2>2. ASSUME h.registered_clients["scanner"] = "WAITING_FOR_PAUSE"
        PROVE  All(ack_pause(h, "scanner"), x)
    <3>1. "PAUSED" \in ClientStates \cup {Absent} /\ h.cached_commands # <<>>
          /\ "scanner" \in Registered(h)
      BY <1>1, <2>1, <2>2 DEF ClientStates, Leaving, ScannerState, Registered, Absent
    <3>2. /\ p.tasks = h.tasks /\ p.registered_clients["scanner"] = "PAUSED"
          /\ p.scan_registered = h.scan_registered /\ p.cached_commands = h.cached_commands
      BY <1>1, <2>1, <3>1, SetStateFields
    <3>3. Form(p, x.mode)
      BY <2>1, <3>1, <3>2 DEF Form, Leaving, NotListed, ScannerState
    <3>4. All(p, x)
      BY <1>1, <3>1, <3>3, SetStateAll
    <3> HIDE DEF p
    <3>5. All(AfterPause(p), x)
      BY <3>1, <3>2, <3>4, AfterPauseAll
    <3> QED
      BY <3>1, <3>5, ack_pause_AfterPause DEF p
  <2>3. All(ack_resume(h, "scanner"), x)
    BY <1>1, ack_resume_All
  <2>4. All(k, x)
    BY <2>2, <2>3 DEF Unregistering
  <2> HIDE DEF k
  <2>5. NotListed(k, 0) /\ Leaving(k) /\ k \in Host
    BY <1>3, <2>4 DEF All, Form
  <2>6. /\ g.tasks = k.tasks /\ g.registered_clients["scanner"] = Absent
        /\ g.scan_registered = k.scan_registered
    BY <1>1, <2>5, SetStateFields
  <2>7. Form(g, x.mode) /\ Form(g, y.mode)
    BY <2>5, <2>6 DEF Form, Leaving, Synced, NotListed, ScannerState, Absent
  <2>8. All(g, x)
    BY <1>1, <2>4, <2>7, SetStateAll
  <2> HIDE DEF g
  <2>9. All(g, y)
    BY <2>7, <2>8, ModeChanged
  <2> QED
    BY <1>1, <2>9, unregister_client_Unregistering DEF g, k
<1> QED
  BY <1>2, <1>3

(* A command is cached: one that is no change of the accept list, or the   *)
(* one that is being pushed.                                               *)
LEMMA CachedParts ==
  ASSUME NEW h, NEW x, NEW y, All(h, x), NEW c \in CachedCommand,
         y.raced = x.raced, y.asked = x.asked, y.mode = x.mode, y.posting = x.posting,
         \/ y.pushing = x.pushing /\ x.pushing = <<>> /\ c[1] \notin {"add", "remove", "clear"}
         \/ x.pushing = <<c>> /\ y.pushing = <<>>
  PROVE  All([h EXCEPT !.cached_commands = Append(@, c)], y)
<1> DEFINE g == [h EXCEPT !.cached_commands = Append(@, c)]
<1>1. h \in Host /\ h.cached_commands \in Seq(CachedCommand)
  BY DEF All, Host
<1>2. Append(h.cached_commands, c) \in Seq(CachedCommand) /\ Append(h.cached_commands, c) # <<>>
  BY <1>1, AppendProperties
<1>3. /\ g \in Host /\ g.cached_commands = Append(h.cached_commands, c)
      /\ g.registered_clients = h.registered_clients
      /\ g.scan_registered = h.scan_registered /\ g.scan_paused = h.scan_paused
      /\ g.is_scanning = h.is_scanning /\ g.connectability_state = h.connectability_state
      /\ g.connect_list = h.connect_list /\ g.tasks = h.tasks /\ g.commands = h.commands
      /\ g.timeout_alarms = h.timeout_alarms
  BY <1>1, <1>2 DEF Host
<1> HIDE DEF g
<1>4. Attempt(g)
  BY <1>3 DEF All, Attempt, OneAttempt, AnswersInOrder, StateFits, Attempting, Cancelled,
              CancelledBefore
<1>5. "le" \notin x.raced => Held(g)
  BY <1>3 DEF All, Held, Cancelled, CancelledBefore
<1>6. ScanState(g) /\ ("scanner" \notin x.raced => ScanHeld(g))
  BY <1>3 DEF All, ScanState, ScanHeld, ScanOff, ScanOffBefore
<1>7. "scanner" \notin x.raced => Form(g, x.mode)
  BY <1>2, <1>3 DEF All, Form, Synced, Joining, Leaving, Pending, NotListed, ScannerState,
                    ScannerAcks
<1>8. Stream(g, y) = Stream(h, x)
  <2> DEFINE l == Apply(accept_list, h.commands)
             m == Apply(l, h.cached_commands)
  <2>1. Apply(l, g.cached_commands) = Apply(m, <<c>>)
    BY <1>1, <1>3, ApplyAppend
  <2>2. Apply(m, <<c>>) \in SUBSET Address /\ m \in SUBSET Address
    BY ApplyInAddress
  <2>3. /\ Stream(g, y) = Apply(Apply(Apply(Apply(m, <<c>>), y.pushing),
                                      PushedBy(h.tasks)), x.posting)
        /\ Stream(h, x) = Apply(Apply(Apply(m, x.pushing), PushedBy(h.tasks)), x.posting)
    BY <1>3, <2>1 DEF Stream
  <2>4. CASE x.pushing = <<c>> /\ y.pushing = <<>>
    <3>1. Apply(Apply(m, <<c>>), <<>>) = Apply(m, <<c>>)
      BY <2>2, ApplyOne
    <3> QED
      BY <2>3, <2>4, <3>1
  <2>5. CASE y.pushing = x.pushing /\ c[1] \notin {"add", "remove", "clear"}
    <3>1. Apply(m, <<c>>) = m
      BY <2>5, ApplyNone
    <3> QED
      BY <2>3, <2>5, <3>1
  <2> QED
    BY <2>4, <2>5
<1> QED
  BY <1>3, <1>4, <1>5, <1>6, <1>7, <1>8 DEF All, g

LEMMA CachedAll ==
  ASSUME NEW h, NEW x, All(h, x), NEW c \in CachedCommand, x.pushing = <<>>,
         c[1] \notin {"add", "remove", "clear"}
  PROVE  All([h EXCEPT !.cached_commands = Append(@, c)], x)
BY CachedParts

LEMMA push_command_All ==
  ASSUME NEW h, NEW x \in Context, NEW y \in Context, NEW c \in ListCommand, All(h, x),
         y.raced = x.raced, y.asked = x.asked, y.mode = x.mode, y.posting = x.posting,
         x.mode = "synced", x.pushing = <<c>>, y.pushing = <<>>
  PROVE  All(push_command(h, c), y)
<1> DEFINE p == pause_registered_clients(h)
<1>1. All(p, x) /\ c \in CachedCommand
  BY pause_registered_clients_All DEF CachedCommand
<1> HIDE DEF p
<1>2. All([p EXCEPT !.cached_commands = Append(@, c)], y)
  BY <1>1, CachedParts
<1> QED
  BY <1>2 DEF push_command, p

LEMMA prepare_to_rotate_All ==
  ASSUME NEW h, NEW x \in Context, All(h, x), x.pushing = <<>>, x.mode \in {"synced", "pending"}
  PROVE  All(prepare_to_rotate(h), x)
<1> DEFINE c == <<"rotate", NoAddress>>
           g == [h EXCEPT !.cached_commands = Append(@, c)]
           r == [g EXCEPT !.rotation_alarm = FALSE]
<1>1. c \in CachedCommand /\ c[1] \notin {"add", "remove", "clear"}
  BY DEF CachedCommand
<1>2. h \in Host /\ h.cached_commands \in Seq(CachedCommand)
  BY DEF All, Host
<1>3. r = [h EXCEPT !.cached_commands = Append(@, c), !.rotation_alarm = FALSE]
  BY <1>2 DEF Host
<1>5. prepare_to_rotate(h) = pause_registered_clients(r)
  BY <1>3 DEF prepare_to_rotate
<1> HIDE DEF c
<1>4. g.cached_commands # <<>>
  <2>1. Append(h.cached_commands, c) # <<>>
    BY <1>1, <1>2, AppendProperties
  <2> QED
    BY <1>2, <2>1 DEF Host
<1>6. All(g, x)
  BY <1>1, CachedAll
<1> HIDE DEF g
<1>7. All(r, x)
  BY <1>6, RotationAlarmAll
<1>8. r.cached_commands = g.cached_commands
  BY <1>6 DEF All, Host
<1> HIDE DEF r
<1>9. All(pause_registered_clients(r), x)
  BY <1>4, <1>7, <1>8, pause_registered_clients_All
<1> QED
  BY <1>5, <1>9

LEMMA prepare_to_update_irk_All ==
  ASSUME NEW h, NEW x \in Context, All(h, x), x.pushing = <<>>, x.mode = "synced"
  PROVE  All(prepare_to_update_irk(h), x)
<1> DEFINE c == <<"update_irk", NoAddress>>
           g == [h EXCEPT !.cached_commands = Append(@, c)]
<1>1. c \in CachedCommand /\ c[1] \notin {"add", "remove", "clear"}
  BY DEF CachedCommand
<1>2. h \in Host /\ h.cached_commands \in Seq(CachedCommand)
  BY DEF All, Host
<1>4. prepare_to_update_irk(h)
        = IF Registered(g) = {} THEN handle_next_command(g) ELSE pause_registered_clients(g)
  BY DEF prepare_to_update_irk
<1> HIDE DEF c
<1>3. g.cached_commands # <<>>
  <2>1. Append(h.cached_commands, c) # <<>>
    BY <1>1, <1>2, AppendProperties
  <2> QED
    BY <1>2, <2>1 DEF Host
<1>5. All(g, x)
  BY <1>1, CachedAll
<1> HIDE DEF g
<1>6. All(handle_next_command(g), x) /\ All(pause_registered_clients(g), x)
  BY <1>3, <1>5, handle_next_command_All, pause_registered_clients_All DEF NothingToHandle
<1> QED
  BY <1>4, <1>6

(* The three commands of a change of the resolving list. *)
LEMMA ResolvingCached ==
  ASSUME NEW h, NEW x, All(h, x), x.pushing = <<>>
  PROVE  All([h EXCEPT !.cached_commands = @ \o ResolvingCommands], x)
<1> DEFINE a == <<"resolution_off", NoAddress>>
           b == <<"resolving_list", NoAddress>>
           c == <<"resolution_on", NoAddress>>
           f == [h EXCEPT !.cached_commands = Append(@, a)]
           g == [f EXCEPT !.cached_commands = Append(@, b)]
           r == [g EXCEPT !.cached_commands = Append(@, c)]
           s == h.cached_commands
<1>1. /\ a \in CachedCommand /\ b \in CachedCommand /\ c \in CachedCommand
      /\ a[1] \notin {"add", "remove", "clear"} /\ b[1] \notin {"add", "remove", "clear"}
      /\ c[1] \notin {"add", "remove", "clear"}
  BY DEF CachedCommand, ResolvingName
<1>2. h \in Host /\ s \in Seq(CachedCommand)
  BY DEF All, Host
<1>3. s \o ResolvingCommands = Append(Append(Append(s, a), b), c)
  <2>1. ResolvingCommands = <<a, b, c>>
    BY DEF ResolvingCommands
  <2> HIDE DEF a, b, c, s
  <2>2. s \o <<a, b, c>> = Append(Append(Append(s, a), b), c)
    BY <1>1, <1>2
  <2> QED
    BY <2>1, <2>2
<1>4. All(f, x)
  <2> HIDE DEF a
  <2> QED
    BY <1>1, CachedAll
<1>5. All(g, x)
  <2> HIDE DEF b, f
  <2> QED
    BY <1>1, <1>4, CachedAll
<1>6. All(r, x)
  <2> HIDE DEF c, g
  <2> QED
    BY <1>1, <1>5, CachedAll
<1>7. r = [h EXCEPT !.cached_commands = Append(Append(Append(s, a), b), c)]
  <2> HIDE DEF a, b, c
  <2> QED
    BY <1>2 DEF Host
<1> HIDE DEF r
<1> QED
  BY <1>3, <1>6, <1>7

LEMMA ChangeResolvingList_All ==
  ASSUME NEW h, NEW x, All(h, x), x.pushing = <<>>
  PROVE  All(ChangeResolvingList(h), x) /\ All(ClearResolvingList(h), x)
<1> DEFINE g == [h EXCEPT !.cached_commands = @ \o ResolvingCommands]
           do == IF Registered(h) = {} THEN "handle_next_command" ELSE "pause_registered_clients"
<1>1. All(g, x)
  BY ResolvingCached
<1> HIDE DEF g
<1>2. do \in PlainTask /\ "pause_registered_clients" \in PlainTask
      /\ do # "push_command"
  BY DEF PlainTask
<1>3. ChangeResolvingList(h) = Post(g, <<do, "le">>)
  BY DEF ChangeResolvingList, g
<1> HIDE DEF do
<1>4. All(Post(g, <<do, "le">>), x) /\ All(Post(g, <<"pause_registered_clients", "le">>), x)
  BY <1>1, <1>2, InertTasks, PostInert
<1> QED
  BY <1>3, <1>4 DEF ClearResolvingList, g

(***************************************************************************)
(* The rest of le_impl.                                                    *)
(***************************************************************************)

(* Less is known: more clients have raced, fewer requests wait. *)
LEMMA Weaker ==
  ASSUME NEW h, NEW x, NEW y, All(h, x),
         x.raced \subseteq y.raced, y.asked \subseteq h.timeout_alarms,
         y.pushing = x.pushing, y.posting = x.posting, y.mode = x.mode
  PROVE  All(h, y)
BY DEF All, Stream

(* A change of le_impl's own variables, and of its alarms. *)
LEMMA Edited ==
  ASSUME NEW h, NEW x, NEW y, NEW g, All(h, x), Keeps(h, g), g.connect_list = h.connect_list,
         y.raced = x.raced, y.asked \subseteq g.timeout_alarms,
         y.pushing = x.pushing, y.posting = x.posting, y.mode = x.mode
  PROVE  All(g, y)
<1> DEFINE z == [raced |-> x.raced, asked |-> {}, pushing |-> x.pushing,
                 posting |-> x.posting, mode |-> x.mode]
<1>1. /\ z.raced = x.raced /\ z.asked = {} /\ z.pushing = x.pushing
      /\ z.posting = x.posting /\ z.mode = x.mode
  OBVIOUS
<1> HIDE DEF z
<1>2. All(h, z)
  BY <1>1, Weaker
<1>3. All(g, z)
  BY <1>1, <1>2, KeepsAll
<1> QED
  BY <1>1, <1>3, Weaker

LEMMA AddressIsNotNone == \A a \in Address : a # NoAddress
BY LeConnectionsAssumption

LEMMA register_and_pause_All ==
  ASSUME NEW h, NEW x, All(h, x)
  PROVE  All(register_and_pause(h), x)
<1> DEFINE g == [h EXCEPT !.address_manager_registered = TRUE,
                          !.pause_connection = @ \/ Rotating(h)]
<1>1. h \in Host /\ x.asked \subseteq h.timeout_alarms
  BY DEF All
<1>2. Keeps(h, g) /\ g.connect_list = h.connect_list /\ g.timeout_alarms = h.timeout_alarms
  BY <1>1 DEF Keeps, Host, Rotating
<1>3. register_and_pause(h) = IF h.address_manager_registered THEN h
                              ELSE Post(g, <<"register_client", "le">>)
  BY DEF register_and_pause
<1> HIDE DEF g
<1>4. All(g, x)
  BY <1>1, <1>2, KeepsAll
<1>5. All(Post(g, <<"register_client", "le">>), x)
  BY <1>4, InertTasks, PostInert
<1> QED
  BY <1>3, <1>5

LEMMA ArmOnResumeAll ==
  ASSUME NEW h, NEW x, All(h, x), NEW arm \in BOOLEAN
  PROVE  All([h EXCEPT !.arm_on_resume = arm], x)
<1> DEFINE g == [h EXCEPT !.arm_on_resume = arm]
<1>1. h \in Host /\ x.asked \subseteq h.timeout_alarms
  BY DEF All
<1>2. Keeps(h, g) /\ g.connect_list = h.connect_list /\ g.timeout_alarms = h.timeout_alarms
  BY <1>1 DEF Keeps, Host
<1> HIDE DEF g
<1>3. All(g, x)
  BY <1>1, <1>2, KeepsAll
<1> QED
  BY <1>3 DEF g

(* The alarm of a direct connection is set with it. *)
LEMMA create_le_connection_All ==
  ASSUME NEW h, NEW x \in Context, NEW y \in Context, All(h, x), x.posting = <<>>,
         NEW a \in Address \cup {NoAddress}, NEW add \in BOOLEAN, NEW direct \in BOOLEAN,
         add => a \in Address, y.raced = x.raced, y.pushing = x.pushing,
         y.posting = x.posting, y.mode = x.mode,
         IF add /\ direct /\ a \notin h.connections THEN y.asked \subseteq x.asked \cup {a}
         ELSE y.asked \subseteq x.asked
  PROVE  All(create_le_connection(h, a, add, direct), y)
<1> DEFINE listed == IF add THEN add_device_to_connect_list(h, a) ELSE h
           both == [listed EXCEPT !.direct_connections = @ \cup {a},
                                  !.timeout_alarms = @ \cup {a}]
           timed == IF add /\ direct THEN both ELSE listed
           g == register_and_pause(timed)
           later == [g EXCEPT !.arm_on_resume = TRUE]
           now == Post(g, <<"arm_connectability", "le">>)
<1>1. create_le_connection(h, a, add, direct)
        = IF a \in h.connections THEN h
          ELSE IF g.pause_connection THEN later
          ELSE IF g.connectability_state \in {"ARMED", "ARMING"} THEN g
          ELSE IF add THEN later ELSE now
  BY DEF create_le_connection
<1>2. a \in h.connections => All(h, y)
  <2>1. x.asked \subseteq h.timeout_alarms
    BY DEF All
  <2> QED
    BY <2>1, Weaker
<1>3. CASE a \notin h.connections
  <2>1. All(listed, x)
    BY add_device_to_connect_list_All
  <2> HIDE DEF listed
  <2>2. listed \in Host /\ x.asked \subseteq listed.timeout_alarms
    BY <2>1 DEF All
  <2>3. All(timed, y)
    <3>1. CASE add /\ direct
      <4>1. /\ Keeps(listed, both) /\ both.connect_list = listed.connect_list
            /\ both.timeout_alarms = listed.timeout_alarms \cup {a}
        BY <2>2, <3>1 DEF Keeps, Host
      <4> HIDE DEF both
      <4>2. All(both, y)
        BY <1>3, <2>1, <2>2, <3>1, <4>1, Edited
      <4> QED
        BY <3>1, <4>2
    <3>2. CASE ~(add /\ direct)
      <4>1. All(listed, y)
        BY <2>1, <2>2, <3>2, Weaker
      <4> QED
        BY <3>2, <4>1
    <3> QED
      BY <3>1, <3>2
  <2> HIDE DEF timed
  <2>4. All(g, y)
    BY <2>3, register_and_pause_All
  <2> HIDE DEF g
  <2>5. All(later, y)
    BY <2>4, ArmOnResumeAll
  <2>6. All(now, y)
    <3>1. "arm_connectability" \in PlainTask
      BY DEF PlainTask
    <3> QED
      BY <2>4, <3>1, InertTasks, PostInert
  <2> HIDE DEF later, now
  <2> QED
    BY <1>1, <1>3, <2>4, <2>5, <2>6
<1> HIDE DEF g, later, now
<1> QED
  BY <1>1, <1>2, <1>3

(* What takes the alarm of a off, and answers the request for a. *)
LEMMA AlarmOff ==
  ASSUME NEW h, NEW x, NEW y, All(h, x), NEW a,
         y.raced = x.raced, y.asked \subseteq x.asked \ {a},
         y.pushing = x.pushing, y.posting = x.posting, y.mode = x.mode
  PROVE  All([h EXCEPT !.timeout_alarms = @ \ {a}], y)
<1> DEFINE g == [h EXCEPT !.timeout_alarms = @ \ {a}]
<1>1. h \in Host /\ x.asked \subseteq h.timeout_alarms
  BY DEF All
<1>2. /\ Keeps(h, g) /\ g.connect_list = h.connect_list
      /\ g.timeout_alarms = h.timeout_alarms \ {a}
  BY <1>1 DEF Keeps, Host
<1> HIDE DEF g
<1>3. All(g, y)
  BY <1>1, <1>2, Edited
<1> QED
  BY <1>3 DEF g

LEMMA cancel_connect_All ==
  ASSUME NEW h, NEW x \in Context, NEW y \in Context, All(h, x), NEW a \in Address,
         x.posting = <<>>, y.raced = x.raced, y.asked \subseteq x.asked \ {a},
         y.pushing = x.pushing, y.posting = x.posting, y.mode = x.mode
  PROVE  All(cancel_connect(h, a), y)
<1> DEFINE g == [h EXCEPT !.timeout_alarms = @ \ {a}]
<1>1. All(g, y)
  BY AlarmOff
<1> HIDE DEF g
<1>2. All(remove_device_from_connect_list(g, a), y)
  BY <1>1, remove_device_from_connect_list_All
<1> QED
  BY <1>2 DEF cancel_connect, g

LEMMA on_create_connection_timeout_All ==
  ASSUME NEW h, NEW x \in Context, NEW y \in Context, All(h, x), NEW a \in Address,
         x.posting = <<>>, y.raced = x.raced, y.asked \subseteq x.asked \ {a},
         y.pushing = x.pushing, y.posting = x.posting, y.mode = x.mode
  PROVE  All(on_create_connection_timeout(h, a), y)
<1> DEFINE g == [h EXCEPT !.timeout_alarms = @ \ {a}]
           d == [g EXCEPT !.direct_connections = @ \ {a}]
<1>1. All(g, y)
  BY AlarmOff
<1>2. on_create_connection_timeout(h, a)
        = IF a \in g.background_connections THEN disarm_connectability(d)
          ELSE cancel_connect(g, a)
  BY DEF on_create_connection_timeout
<1> HIDE DEF g
<1>3. g \in Host /\ y.asked \subseteq g.timeout_alarms
  BY <1>1 DEF All
<1>4. Keeps(g, d) /\ d.connect_list = g.connect_list /\ d.timeout_alarms = g.timeout_alarms
  BY <1>3 DEF Keeps, Host
<1> HIDE DEF d
<1>5. All(d, y)
  BY <1>1, <1>3, <1>4, KeepsAll
<1>6. All(disarm_connectability(d), y)
  BY <1>5, disarm_connectability_All
<1>7. All(cancel_connect(g, a), y)
  <2>1. y.asked \subseteq y.asked \ {a}
    BY DEF Context
  <2> QED
    BY <1>1, <2>1, cancel_connect_All
<1> QED
  BY <1>2, <1>6, <1>7

LEMMA BackgroundAll ==
  ASSUME NEW h, NEW x, All(h, x), NEW B \in SUBSET Address
  PROVE  All([h EXCEPT !.background_connections = B], x)
<1> DEFINE g == [h EXCEPT !.background_connections = B]
<1>1. h \in Host /\ x.asked \subseteq h.timeout_alarms
  BY DEF All
<1>2. Keeps(h, g) /\ g.connect_list = h.connect_list /\ g.timeout_alarms = h.timeout_alarms
  BY <1>1 DEF Keeps, Host
<1> HIDE DEF g
<1>3. All(g, x)
  BY <1>1, <1>2, KeepsAll
<1> QED
  BY <1>3 DEF g

LEMMA ConnectionsAll ==
  ASSUME NEW h, NEW x, All(h, x), NEW C \in SUBSET Address
  PROVE  All([h EXCEPT !.connections = C], x)
<1> DEFINE g == [h EXCEPT !.connections = C]
<1>1. h \in Host /\ x.asked \subseteq h.timeout_alarms
  BY DEF All
<1>2. Keeps(h, g) /\ g.connect_list = h.connect_list /\ g.timeout_alarms = h.timeout_alarms
  BY <1>1 DEF Keeps, Host
<1> HIDE DEF g
<1>3. All(g, x)
  BY <1>1, <1>2, KeepsAll
<1> QED
  BY <1>3 DEF g

LEMMA add_connection_All ==
  ASSUME NEW h, NEW x, All(h, x), NEW a \in Address, NEW status
  PROVE  All(add_connection(h, status, a), x)
<1>1. h.connections \cup {a} \in SUBSET Address
  BY DEF All, Host
<1> QED
  BY <1>1, ConnectionsAll DEF add_connection

LEMMA on_cancel_complete_All ==
  ASSUME NEW h, NEW x, All(h, x), NEW status
  PROVE  All(on_create_connection_cancel_complete(h, status), x)
<1>1. All(Post(h, <<"ack_pause", "le">>), x)
  BY InertTasks, PostInert DEF Client
<1> QED
  BY <1>1 DEF on_create_connection_cancel_complete

LEMMA on_le_connection_canceled_on_pause_All ==
  ASSUME NEW h, NEW x, All(h, x)
  PROVE  All(on_le_connection_canceled_on_pause(h), x)
<1> DEFINE g == [h EXCEPT !.arm_on_resume = TRUE]
<1>1. All(g, x)
  BY ArmOnResumeAll
<1> HIDE DEF g
<1>2. All(Post(g, <<"ack_pause", "le">>), x)
  BY <1>1, InertTasks, PostInert DEF Client
<1> QED
  BY <1>2 DEF on_le_connection_canceled_on_pause, g

LEMMA on_peripheral_connection_complete_All ==
  ASSUME NEW h, NEW x \in Context, NEW y \in Context, All(h, x), NEW a \in Address,
         NEW status, x.posting = <<>>, y.raced = x.raced, y.asked \subseteq x.asked,
         a \in h.connect_list => y.asked \subseteq x.asked \ {a},
         y.pushing = x.pushing, y.posting = x.posting, y.mode = x.mode
  PROVE  All(on_peripheral_connection_complete(h, status, a), y)
<1> DEFINE c == [h EXCEPT !.timeout_alarms = @ \ {a}]
           r == remove_device_from_connect_list(c, a)
           g == IF a \in h.connect_list THEN r ELSE h
<1>1. on_peripheral_connection_complete(h, status, a) = add_connection(g, status, a)
  BY DEF on_peripheral_connection_complete
<1>2. a \in h.connect_list => All(c, y)
  BY AlarmOff
<1> HIDE DEF c
<1>3. a \in h.connect_list => All(r, y)
  BY <1>2, remove_device_from_connect_list_All
<1> HIDE DEF r
<1>4. All(h, y)
  <2>1. x.asked \subseteq h.timeout_alarms
    BY DEF All
  <2> QED
    BY <2>1, Weaker
<1>5. All(g, y)
  BY <1>3, <1>4
<1> HIDE DEF g
<1> QED
  BY <1>1, <1>5, add_connection_All

LEMMA on_le_disconnect_All ==
  ASSUME NEW h, NEW x \in Context, All(h, x), NEW a \in Address, x.posting = <<>>
  PROVE  All(on_le_disconnect(h, a), x)
<1> DEFINE g == [h EXCEPT !.connections = @ \ {a}]
           r == [g EXCEPT !.arm_on_resume = TRUE]
<1>1. All(g, x)
  <2>1. h.connections \ {a} \in SUBSET Address
    BY DEF All, Host
  <2> QED
    BY <2>1, ConnectionsAll
<1>2. on_le_disconnect(h, a)
        = IF a \in h.connections \cap h.background_connections
          THEN add_device_to_connect_list(r, a) ELSE g
  BY DEF on_le_disconnect
<1> HIDE DEF g
<1>3. All(r, x)
  BY <1>1, ArmOnResumeAll
<1> HIDE DEF r
<1>4. All(add_device_to_connect_list(r, a), x)
  BY <1>3, add_device_to_connect_list_All
<1> QED
  BY <1>1, <1>2, <1>4

LEMMA OnCommandComplete_All ==
  ASSUME NEW h, NEW x, All(h, x)
  PROVE  All(OnCommandComplete(h), x)
<1>1. "check_cached_commands" \in PlainTask
  BY DEF PlainTask
<1> QED
  BY <1>1, InertTasks, PostInert DEF OnCommandComplete

(***************************************************************************)
(* A connection complete event, when it has been taken off the queue and   *)
(* the state has been set.                                                 *)
(***************************************************************************)
Disarmed(h) == [h EXCEPT !.connectability_state = "DISARMED"]

LEMMA on_central_connection_complete_All ==
  ASSUME NEW h, NEW x \in Context, NEW y \in Context, All(Disarmed(h), x), h \in Host,
         NEW status, NEW a, <<status, a>> \in CentralArgument,
         x.posting = <<>>, y.raced = x.raced, y.asked \subseteq x.asked,
         ~(status = "unknown_connection" /\ h.pause_connection) => y.asked \subseteq x.asked \ {a},
         y.pushing = x.pushing, y.posting = x.posting, y.mode = x.mode
  PROVE  All(on_central_connection_complete(h, status, a), y)
<1> DEFINE kept == status = "unknown_connection" /\ h.pause_connection
           g == Disarmed(h)
           common == [g EXCEPT !.connecting_le = {}, !.timeout_alarms = @ \ {a}]
           ready == [common EXCEPT !.arm_on_resume = FALSE, !.ready_to_unregister = TRUE]
           removed == remove_device_from_connect_list(ready, a)
           again == IF removed.connect_list = {} THEN removed
                    ELSE Post(removed, <<"create_le_connection", <<NoAddress, FALSE, FALSE>>>>)
<1>1. on_central_connection_complete(h, status, a)
        = IF kept
          THEN on_le_connection_canceled_on_pause(g)
          ELSE IF status = "unknown_connection" THEN create_le_connection(common, a, FALSE, FALSE)
          ELSE IF status = "failed" THEN again ELSE add_connection(again, status, a)
  <2>1. g.pause_connection = h.pause_connection
    BY DEF Disarmed, Host
  <2> QED
    BY <2>1 DEF on_central_connection_complete, Disarmed
<1>2. /\ a \in Address \cup {NoAddress}
      /\ status # "unknown_connection" => a \in Address
  BY DEF CentralArgument
<1> HIDE DEF kept
<1>3. g \in Host /\ x.asked \subseteq g.timeout_alarms /\ All(g, x)
  BY DEF All
<1> HIDE DEF g
<1>4. All(g, y)
  BY <1>3, Weaker
<1>5. All(on_le_connection_canceled_on_pause(g), y)
  BY <1>4, on_le_connection_canceled_on_pause_All
<1>6. /\ Keeps(g, common) /\ common.connect_list = g.connect_list
      /\ common.timeout_alarms = g.timeout_alarms \ {a}
  BY <1>3 DEF Keeps, Host
<1> HIDE DEF common
<1>7. ~kept => All(common, y) /\ common \in Host
  <2>1. ~kept => All(common, y)
    BY <1>3, <1>6, Edited DEF kept
  <2> QED
    BY <2>1 DEF All
<1>8. ~kept => All(create_le_connection(common, a, FALSE, FALSE), y)
  BY <1>2, <1>7, create_le_connection_All
<1>9. ASSUME a \in Address, ~kept
      PROVE  All(again, y)
  <2>1. /\ Keeps(common, ready) /\ ready.connect_list = common.connect_list
        /\ ready.timeout_alarms = common.timeout_alarms
    BY <1>7, <1>9 DEF Keeps, Host
  <2> HIDE DEF ready
  <2>2. y.asked \subseteq common.timeout_alarms
    BY <1>7, <1>9 DEF All
  <2>3. All(ready, y)
    BY <1>7, <1>9, <2>1, <2>2, KeepsAll
  <2>4. All(removed, y)
    BY <1>9, <2>3, remove_device_from_connect_list_All
  <2> HIDE DEF removed
  <2>5. All(Post(removed, <<"create_le_connection", <<NoAddress, FALSE, FALSE>>>>), y)
    <3> DEFINE arg == <<NoAddress, FALSE, FALSE>>
    <3>1. arg \in CreateArgument
      BY DEF CreateArgument
    <3> HIDE DEF arg
    <3>2. All(Post(removed, <<"create_le_connection", arg>>), y)
      BY <2>4, <3>1, InertTasks, PostInert
    <3> QED
      BY <3>2 DEF arg
  <2> QED
    BY <2>4, <2>5
<1> HIDE DEF again
<1>10. a \in Address /\ ~kept => All(again, y) /\ All(add_connection(again, status, a), y)
  BY <1>9, add_connection_All
<1> QED
  BY <1>1, <1>2, <1>5, <1>8, <1>10

(***************************************************************************)
(* A closure is taken off the queue.                                       *)
(***************************************************************************)
Popped(h) == [h EXCEPT !.tasks = Tail(@)]

LEMMA PoppedFields ==
  ASSUME NEW h \in Host, h.tasks # <<>>
  PROVE  /\ Popped(h) \in Host /\ Popped(h).tasks = Tail(h.tasks)
         /\ Popped(h).registered_clients = h.registered_clients
         /\ Popped(h).cached_commands = h.cached_commands
         /\ Popped(h).scan_registered = h.scan_registered
         /\ Popped(h).scan_paused = h.scan_paused
         /\ Popped(h).is_scanning = h.is_scanning
         /\ Popped(h).connectability_state = h.connectability_state
         /\ Popped(h).connect_list = h.connect_list
         /\ Popped(h).commands = h.commands
         /\ Popped(h).timeout_alarms = h.timeout_alarms
         /\ h.tasks[1] \in Task /\ Head(h.tasks) = h.tasks[1]
<1>1. h.tasks \in Seq(Task)
  BY DEF Host
<1>2. Tail(h.tasks) \in Seq(Task) /\ h.tasks[1] \in Task /\ Head(h.tasks) = h.tasks[1]
  BY <1>1
<1>3. Popped(h) \in Host
  BY <1>2 DEF Popped, Host
<1>4. Popped(h).tasks = Tail(h.tasks)
  BY DEF Popped, Host
<1> QED
  BY <1>2, <1>3, <1>4 DEF Popped

(* A change that a closure pushes is under way while it runs. *)
Pushing(task) == IF task[1] = "push_command" THEN <<task[2]>> ELSE <<>>

LEMMA PoppedStream ==
  ASSUME NEW h \in Host, h.tasks # <<>>, NEW x, NEW y, x.pushing = <<>>,
         y.pushing = Pushing(h.tasks[1]), y.posting = x.posting
  PROVE  Stream(Popped(h), y) = Stream(h, x)
<1> DEFINE m == Apply(Apply(accept_list, h.commands), h.cached_commands)
           p == PushedBy(h.tasks)
           c == Push(h.tasks[1])
<1>1. /\ Popped(h).tasks = Tail(h.tasks) /\ Popped(h).commands = h.commands
      /\ Popped(h).cached_commands = h.cached_commands /\ Head(h.tasks) = h.tasks[1]
  BY PoppedFields
<1>2. /\ p \in Seq(PushCommand) /\ p # <<>> /\ Head(p) = c
      /\ PushedBy(Tail(h.tasks)) = Tail(p)
  BY <1>1, PushedByType, PushedByTail DEF Host
<1>3. m \in SUBSET Address
  BY ApplyInAddress
<1>4. /\ Stream(h, x) = Apply(Apply(Apply(m, <<>>), p), x.posting)
      /\ Stream(Popped(h), y) = Apply(Apply(Apply(m, y.pushing), Tail(p)), x.posting)
  BY <1>1, <1>2 DEF Stream
<1> HIDE DEF p, c, m
<1>5. Apply(m, <<>>) = m
  BY <1>3, ApplyOne
<1>6. Apply(m, p) = Apply(Apply(m, <<c>>), Tail(p))
  BY <1>2, ApplyTail
<1>7. Apply(m, y.pushing) = Apply(m, <<c>>)
  <2>1. CASE h.tasks[1][1] = "push_command"
    BY <2>1 DEF Pushing, Push, c
  <2>2. CASE h.tasks[1][1] # "push_command"
    <3>1. c = <<"none", NoAddress>> /\ y.pushing = <<>>
      BY <2>2 DEF Pushing, Push, c
    <3>2. c[1] \notin {"add", "remove", "clear"}
      BY <3>1
    <3>3. Apply(m, <<c>>) = m
      BY <1>3, <3>2, ApplyOne
    <3> QED
      BY <1>5, <3>1, <3>3
  <2> QED
    BY <2>1, <2>2
<1> QED
  BY <1>4, <1>5, <1>6, <1>7

(* How far the registration of the scanner is while a closure runs. *)
While(task) ==
  IF task = <<"register_client", "scanner">> THEN "joining"
  ELSE IF task = <<"unregister_client", "scanner">> THEN "leaving"
  ELSE IF task = <<"ack_pause", "scanner">> THEN "acking" ELSE "synced"

LEMMA PoppedForm ==
  ASSUME NEW h \in Host, h.tasks # <<>>, NEW mode \in {"synced", "pending"}, Form(h, mode)
  PROVE  Form(Popped(h), While(h.tasks[1]))
<1> DEFINE g == Popped(h)
           task == h.tasks[1]
<1>1. /\ g.tasks = Tail(h.tasks) /\ g.registered_clients = h.registered_clients
      /\ g.cached_commands = h.cached_commands
      /\ g.scan_registered = h.scan_registered /\ g.scan_paused = h.scan_paused
      /\ h.tasks \in Seq(Task)
  BY PoppedFields DEF Host
<1> HIDE DEF g
<1>2. /\ DOMAIN g.tasks = 1 .. (Len(h.tasks) - 1) /\ DOMAIN h.tasks = 1 .. Len(h.tasks)
      /\ Len(h.tasks) \in Nat \ {0}
      /\ \A i \in DOMAIN g.tasks : g.tasks[i] = h.tasks[i + 1]
  BY <1>1
<1>3. NotListed(h, 0) \/ NotListed(h, 1) => NotListed(g, 0)
  BY <1>2 DEF NotListed
<1>4. /\ ScannerState(g) = ScannerState(h) /\ (Joining(h) <=> Joining(g))
      /\ (Leaving(h) <=> Leaving(g))
  BY <1>1 DEF ScannerState, Joining, Leaving
<1>5. CASE mode = "pending"
  <2>1. NotListed(g, 0)
    BY <1>3, <1>5 DEF Form, Pending
  <2>2. CASE task = <<"register_client", "scanner">>
    <3>1. Joining(h)
      BY <1>5, <2>2 DEF Form, Pending
    <3> QED
      BY <1>4, <2>1, <2>2, <3>1 DEF Form, While, g
  <2>3. CASE task = <<"unregister_client", "scanner">>
    <3>1. Leaving(h)
      BY <1>5, <2>3 DEF Form, Pending
    <3>2. While(task) = "leaving"
      BY <2>3 DEF While
    <3> QED
      BY <1>4, <2>1, <3>1, <3>2 DEF Form, g
  <2> QED
    BY <1>5, <2>2, <2>3 DEF Form, Pending
<1>6. CASE mode = "synced"
  <2>1. Synced(h) /\ (ScannerState(h) = "WAITING_FOR_PAUSE" => ScannerAcks(h))
    BY <1>6 DEF Form
  <2>2. Synced(g)
    BY <1>1, <1>3, <2>1 DEF Synced, ScannerState
  <2>3. 1 \in DOMAIN h.tasks /\ 1 > 0
    BY <1>2
  <2>4. task # <<"register_client", "scanner">> /\ task # <<"unregister_client", "scanner">>
    BY <2>1, <2>3 DEF Synced, NotListed
  <2>5. CASE task = <<"ack_pause", "scanner">>
    <3>1. While(task) = "acking"
      BY <2>5 DEF While
    <3> QED
      BY <2>2, <3>1 DEF Form, g
  <2>6. CASE task # <<"ack_pause", "scanner">>
    <3>1. While(task) = "synced"
      BY <2>4, <2>6 DEF While
    <3>2. ScannerAcks(h) => ScannerAcks(g)
      <4> SUFFICES ASSUME NEW i \in DOMAIN h.tasks, h.tasks[i] = <<"ack_pause", "scanner">>
                   PROVE  ScannerAcks(g)
        BY DEF ScannerAcks
      <4>1. i # 1
        BY <2>6
      <4>2. i - 1 \in DOMAIN g.tasks /\ g.tasks[i - 1] = h.tasks[(i - 1) + 1] /\ (i - 1) + 1 = i
        BY <1>2, <4>1
      <4> QED
        BY <4>2 DEF ScannerAcks
    <3> QED
      BY <1>4, <2>1, <2>2, <3>1, <3>2 DEF Form, g
  <2> QED
    BY <2>5, <2>6
<1> QED
  BY <1>5, <1>6

(* All but the attempt, whatever the closure is. *)
LEMMA PoppedParts ==
  ASSUME NEW h, NEW x, NEW y, All(h, x), h.tasks # <<>>, x.mode \in {"synced", "pending"},
         x.pushing = <<>>, y.raced = x.raced, y.asked = x.asked, y.posting = x.posting,
         y.pushing = Pushing(h.tasks[1]), y.mode = While(h.tasks[1])
  PROVE  /\ Popped(h) \in Host
         /\ y.asked \subseteq Popped(h).timeout_alarms
         /\ "le" \notin y.raced => Held(Popped(h))
         /\ ScanState(Popped(h))
         /\ "scanner" \notin y.raced => ScanHeld(Popped(h)) /\ Form(Popped(h), y.mode)
         /\ "le" \notin rejected => Stream(Popped(h), y) = Popped(h).connect_list
<1>1. h \in Host
  BY DEF All
<1>2. /\ Popped(h) \in Host /\ Popped(h).timeout_alarms = h.timeout_alarms
      /\ Popped(h).registered_clients = h.registered_clients
      /\ Popped(h).scan_registered = h.scan_registered
      /\ Popped(h).scan_paused = h.scan_paused /\ Popped(h).is_scanning = h.is_scanning
      /\ Popped(h).connect_list = h.connect_list /\ Popped(h).commands = h.commands
  BY <1>1, PoppedFields
<1>3. "le" \notin y.raced => Held(Popped(h))
  BY <1>2 DEF All, Held, Cancelled, CancelledBefore
<1>4. ScanState(Popped(h)) /\ ("scanner" \notin y.raced => ScanHeld(Popped(h)))
  BY <1>2 DEF All, ScanState, ScanHeld, ScanOff, ScanOffBefore
<1>5. "scanner" \notin y.raced => Form(Popped(h), y.mode)
  BY <1>1, PoppedForm DEF All
<1>6. Stream(Popped(h), y) = Stream(h, x)
  BY <1>1, PoppedStream
<1> QED
  BY <1>2, <1>3, <1>4, <1>5, <1>6 DEF All

LEMMA PoppedAt ==
  ASSUME NEW h \in Host, h.tasks # <<>>, NEW name
  PROVE  /\ \A i \in Nat : i \in At(Popped(h).tasks, name) <=> i >= 1 /\ i + 1 \in At(h.tasks, name)
         /\ At(h.tasks, name) \subseteq Nat \ {0} /\ At(Popped(h).tasks, name) \subseteq Nat \ {0}
         /\ h.tasks[1][1] = name <=> 1 \in At(h.tasks, name)
         /\ \A i \in At(Popped(h).tasks, name) : Popped(h).tasks[i] = h.tasks[i + 1]
<1>1. h.tasks \in Seq(Task) /\ Popped(h).tasks = Tail(h.tasks)
  BY PoppedFields DEF Host
<1> HIDE DEF Popped
<1>2. At(h.tasks, name) \subseteq Nat \ {0} /\ At(Popped(h).tasks, name) \subseteq Nat \ {0}
  BY <1>1 DEF At
<1>3. \A i \in At(Popped(h).tasks, name) : Popped(h).tasks[i] = h.tasks[i + 1]
  BY <1>1 DEF At
<1> QED
  BY <1>1, <1>2, <1>3, AtTail

(* A closure that is no answer to a create connection command. *)
LEMMA PoppedAll ==
  ASSUME NEW h, NEW x, NEW y, All(h, x), h.tasks # <<>>, x.mode \in {"synced", "pending"},
         h.tasks[1][1] \notin {"central", "on_create_connection"},
         x.pushing = <<>>, y.raced = x.raced, y.asked = x.asked, y.posting = x.posting,
         y.pushing = Pushing(h.tasks[1]), y.mode = While(h.tasks[1])
  PROVE  All(Popped(h), y)
<1> DEFINE g == Popped(h)
<1>1. h \in Host /\ Attempt(h)
  BY DEF All
<1>2. g.commands = h.commands /\ g.connectability_state = h.connectability_state
  BY <1>1, PoppedFields
<1>3. /\ \A i \in At(h.tasks, "central") : i - 1 \in At(g.tasks, "central")
      /\ \A i \in At(h.tasks, "on_create_connection") : i - 1 \in At(g.tasks, "on_create_connection")
      /\ \A i \in At(g.tasks, "central") : i + 1 \in At(h.tasks, "central")
      /\ \A i \in At(g.tasks, "on_create_connection") :
           i + 1 \in At(h.tasks, "on_create_connection") /\ g.tasks[i] = h.tasks[i + 1]
      /\ At(h.tasks, "central") \subseteq Nat /\ At(g.tasks, "central") \subseteq Nat
      /\ At(h.tasks, "on_create_connection") \subseteq Nat
      /\ At(g.tasks, "on_create_connection") \subseteq Nat
  <2>1. ASSUME NEW name \in {"central", "on_create_connection"}
        PROVE  /\ \A i \in At(h.tasks, name) : i - 1 \in At(g.tasks, name)
               /\ \A i \in At(g.tasks, name) : i + 1 \in At(h.tasks, name) /\ g.tasks[i] = h.tasks[i + 1]
               /\ At(h.tasks, name) \subseteq Nat /\ At(g.tasks, name) \subseteq Nat
    <3>1. /\ \A i \in Nat : i \in At(g.tasks, name) <=> i >= 1 /\ i + 1 \in At(h.tasks, name)
          /\ At(h.tasks, name) \subseteq Nat \ {0} /\ At(g.tasks, name) \subseteq Nat \ {0}
          /\ 1 \notin At(h.tasks, name)
          /\ \A i \in At(g.tasks, name) : g.tasks[i] = h.tasks[i + 1]
      BY <1>1, <2>1, PoppedAt
    <3> HIDE DEF g
    <3>2. ASSUME NEW i \in At(h.tasks, name)
          PROVE  i - 1 \in At(g.tasks, name)
      <4>1. i \in Nat /\ i > 1 /\ (i - 1) + 1 = i /\ i - 1 \in Nat /\ i - 1 >= 1
        BY <3>1, <3>2
      <4> QED
        BY <3>1, <3>2, <4>1
    <3> QED
      BY <3>1, <3>2
  <2> QED
    BY <2>1
<1> HIDE DEF g
<1>4. At(g.tasks, "central") = {} <=> At(h.tasks, "central") = {}
  BY <1>3
<1>5. OneAttempt(g)
  <2>1. ASSUME NEW i \in At(g.tasks, "central"), NEW j \in At(g.tasks, "central")
        PROVE  i = j
    <3>1. i + 1 = j + 1
      BY <1>1, <1>3, <2>1 DEF Attempt, OneAttempt
    <3> QED
      BY <1>3, <3>1
  <2> QED
    BY <1>1, <1>2, <1>4, <2>1 DEF Attempt, OneAttempt
<1>6. AnswersInOrder(g)
  <2> SUFFICES ASSUME NEW i \in At(g.tasks, "on_create_connection")
               PROVE  /\ g.tasks[i][2] = "success"
                      /\ initiating \/ \E j \in At(g.tasks, "central") : i < j
    BY DEF AnswersInOrder
  <2>1. /\ h.tasks[i + 1][2] = "success"
        /\ initiating \/ \E j \in At(h.tasks, "central") : i + 1 < j
    BY <1>1, <1>3 DEF Attempt, AnswersInOrder
  <2>2. \A j \in At(h.tasks, "central") : i + 1 < j => i < j - 1
    BY <1>3
  <2> QED
    BY <1>3, <2>1, <2>2
<1>7. StateFits(g)
  <2>1. At(h.tasks, "on_create_connection") # {} => At(g.tasks, "on_create_connection") # {}
    BY <1>3
  <2> QED
    BY <1>1, <1>2, <1>4, <2>1 DEF Attempt, StateFits, Attempting, Cancelled, CancelledBefore
<1>8. Attempt(g)
  BY <1>5, <1>6, <1>7 DEF Attempt
<1> QED
  BY <1>8, PoppedParts DEF All, g

(* The closures that set the state of the attempt. *)
StateSet(h, state) == [h EXCEPT !.connectability_state = state]

LEMMA PoppedAndSet ==
  ASSUME NEW h, NEW x, NEW y, All(h, x), h.tasks # <<>>, x.mode \in {"synced", "pending"},
         x.pushing = <<>>, y.raced = x.raced, y.asked = x.asked, y.posting = x.posting,
         y.pushing = Pushing(h.tasks[1]), y.mode = While(h.tasks[1]),
         NEW state \in ConnectabilityState, Attempt(StateSet(Popped(h), state))
  PROVE  All(StateSet(Popped(h), state), y)
<1> DEFINE g == Popped(h)
           r == StateSet(Popped(h), state)
<1>1. /\ g \in Host /\ y.asked \subseteq g.timeout_alarms /\ ("le" \notin y.raced => Held(g))
      /\ ScanState(g) /\ ("scanner" \notin y.raced => ScanHeld(g) /\ Form(g, y.mode))
      /\ "le" \notin rejected => Stream(g, y) = g.connect_list
  BY PoppedParts
<1> HIDE DEF Popped
<1>2. /\ r \in Host /\ r.timeout_alarms = g.timeout_alarms /\ r.connect_list = g.connect_list
      /\ r.registered_clients = g.registered_clients /\ r.cached_commands = g.cached_commands
      /\ r.scan_registered = g.scan_registered /\ r.scan_paused = g.scan_paused
      /\ r.is_scanning = g.is_scanning /\ r.tasks = g.tasks /\ r.commands = g.commands
  BY <1>1 DEF StateSet, Host
<1> HIDE DEF g, r
<1>3. "le" \notin y.raced => Held(r)
  BY <1>1, <1>2 DEF Held, Cancelled, CancelledBefore
<1>4. ScanState(r) /\ ("scanner" \notin y.raced => ScanHeld(r))
  BY <1>1, <1>2 DEF ScanState, ScanHeld, ScanOff, ScanOffBefore
<1>5. "scanner" \notin y.raced => Form(r, y.mode)
  BY <1>1, <1>2, SameForm
<1>6. Stream(r, y) = Stream(g, y)
  BY <1>2 DEF Stream
<1> QED
  BY <1>1, <1>2, <1>3, <1>4, <1>5, <1>6 DEF All, r

(* The controller accepts a create connection command. *)
LEMMA on_create_connection_Attempt ==
  ASSUME NEW h \in Host, h.tasks # <<>>, Attempt(h), h.tasks[1][1] = "on_create_connection"
  PROVE  h.tasks[1][2] = "success" /\ Attempt(StateSet(Popped(h), "ARMED"))
<1> DEFINE g == Popped(h)
           r == StateSet(g, "ARMED")
           C == "central"
           O == "on_create_connection"
<1>1. /\ g \in Host /\ g.commands = h.commands
  BY PoppedFields
<1>2. /\ r.commands = g.commands /\ r.tasks = g.tasks /\ r.connectability_state = "ARMED"
  BY <1>1 DEF StateSet, Host
<1>3. /\ \A i \in Nat : i \in At(g.tasks, C) <=> i >= 1 /\ i + 1 \in At(h.tasks, C)
      /\ At(h.tasks, C) \subseteq Nat \ {0} /\ At(g.tasks, C) \subseteq Nat \ {0}
      /\ 1 \notin At(h.tasks, C)
  BY PoppedAt
<1>4. /\ \A i \in At(g.tasks, O) : i + 1 \in At(h.tasks, O) /\ g.tasks[i] = h.tasks[i + 1]
      /\ At(g.tasks, O) \subseteq Nat \ {0}
      /\ 1 \in At(h.tasks, O)
  <2>1. /\ \A i \in Nat : i \in At(g.tasks, O) <=> i >= 1 /\ i + 1 \in At(h.tasks, O)
        /\ At(g.tasks, O) \subseteq Nat \ {0}
        /\ 1 \in At(h.tasks, O)
        /\ \A i \in At(g.tasks, O) : g.tasks[i] = h.tasks[i + 1]
    BY PoppedAt
  <2> HIDE DEF g
  <2> QED
    BY <2>1
<1> HIDE DEF g, r
<1>5. ASSUME NEW i \in At(h.tasks, C)
      PROVE  i - 1 \in At(g.tasks, C) /\ i - 1 \in Nat
  <2>1. i \in Nat /\ i > 1 /\ (i - 1) + 1 = i /\ i - 1 \in Nat /\ i - 1 >= 1
    BY <1>3, <1>5
  <2> QED
    BY <1>3, <1>5, <2>1
<1>6. At(g.tasks, C) = {} <=> At(h.tasks, C) = {}
  BY <1>3, <1>5
<1>7. h.tasks[1][2] = "success" /\ Attempting(h)
  BY <1>4 DEF Attempt, AnswersInOrder, Attempting
<1>8. OneAttempt(r)
  <2>1. ASSUME NEW i \in At(g.tasks, C), NEW j \in At(g.tasks, C)
        PROVE  i = j
    <3>1. i + 1 = j + 1 /\ i \in Nat /\ j \in Nat
      BY <1>3, <2>1 DEF Attempt, OneAttempt
    <3> QED
      BY <3>1
  <2> QED
    BY <1>1, <1>2, <1>6, <2>1 DEF Attempt, OneAttempt
<1>9. AnswersInOrder(r)
  <2> SUFFICES ASSUME NEW i \in At(r.tasks, O)
               PROVE  /\ r.tasks[i][2] = "success"
                      /\ initiating \/ \E j \in At(r.tasks, C) : i < j
    BY DEF AnswersInOrder
  <2>1. /\ h.tasks[i + 1][2] = "success" /\ i \in Nat
        /\ initiating \/ \E j \in At(h.tasks, C) : i + 1 < j
    BY <1>2, <1>4 DEF Attempt, AnswersInOrder
  <2>2. \A j \in At(h.tasks, C) : i + 1 < j => i < j - 1
    BY <1>3, <2>1
  <2> QED
    BY <1>2, <1>4, <1>5, <2>1, <2>2
<1>10. StateFits(r)
  BY <1>1, <1>2, <1>6, <1>7 DEF StateFits, Attempting
<1> QED
  BY <1>7, <1>8, <1>9, <1>10 DEF Attempt, r, g

(* The attempt has ended: there is no other. *)
LEMMA on_central_Attempt ==
  ASSUME NEW h \in Host, h.tasks # <<>>, Attempt(h), h.tasks[1][1] = "central"
  PROVE  Attempt(StateSet(Popped(h), "DISARMED"))
<1> DEFINE g == Popped(h)
           r == StateSet(g, "DISARMED")
           C == "central"
           O == "on_create_connection"
<1>1. /\ g \in Host /\ g.commands = h.commands
  BY PoppedFields
<1>2. /\ r.commands = g.commands /\ r.tasks = g.tasks /\ r.connectability_state = "DISARMED"
  BY <1>1 DEF StateSet, Host
<1>3. /\ \A i \in Nat : i \in At(g.tasks, C) <=> i >= 1 /\ i + 1 \in At(h.tasks, C)
      /\ At(h.tasks, C) \subseteq Nat \ {0} /\ At(g.tasks, C) \subseteq Nat \ {0}
      /\ 1 \in At(h.tasks, C)
  BY PoppedAt
<1>4. /\ \A i \in Nat : i \in At(g.tasks, O) <=> i >= 1 /\ i + 1 \in At(h.tasks, O)
      /\ At(g.tasks, O) \subseteq Nat \ {0}
  BY PoppedAt
<1> HIDE DEF g, r
<1>5. ~initiating /\ At(h.commands, "create") = {} /\ \A i \in At(h.tasks, C) : i = 1
  BY <1>3 DEF Attempt, OneAttempt
<1>6. At(g.tasks, C) = {}
  <2> SUFFICES ASSUME NEW i \in At(g.tasks, C) PROVE FALSE
    OBVIOUS
  <2>1. i + 1 = 1 /\ i \in Nat /\ i >= 1
    BY <1>3, <1>5
  <2> QED
    BY <2>1
<1>7. At(g.tasks, O) = {}
  <2> SUFFICES ASSUME NEW i \in At(g.tasks, O) PROVE FALSE
    OBVIOUS
  <2>1. i + 1 \in At(h.tasks, O) /\ i \in Nat /\ i >= 1
    BY <1>4
  <2>2. \E j \in At(h.tasks, C) : i + 1 < j
    BY <1>5, <2>1 DEF Attempt, AnswersInOrder
  <2> QED
    BY <1>5, <2>1, <2>2
<1> QED
  BY <1>1, <1>2, <1>5, <1>6, <1>7
     DEF Attempt, OneAttempt, AnswersInOrder, StateFits, Attempting, r, g

(***************************************************************************)
(* A closure runs.                                                         *)
(***************************************************************************)
Knowing(r, q, pushing, mode) ==
  [raced |-> r, asked |-> q, pushing |-> pushing, posting |-> <<>>, mode |-> mode]

LEMMA KnowingFields ==
  ASSUME NEW r \in SUBSET Client, NEW q \in SUBSET Address, NEW p \in Seq(ListCommand),
         NEW m \in Mode
  PROVE  /\ Knowing(r, q, p, m) \in Context
         /\ Knowing(r, q, p, m).raced = r /\ Knowing(r, q, p, m).asked = q
         /\ Knowing(r, q, p, m).pushing = p /\ Knowing(r, q, p, m).posting = <<>>
         /\ Knowing(r, q, p, m).mode = m
BY DEF Knowing, Context

LEMMA KnowingMode ==
  ASSUME NEW r \in SUBSET Client, NEW q \in SUBSET Address, NEW m \in Mode
  PROVE  /\ Knowing(r, q, <<>>, m) \in Context
         /\ Knowing(r, q, <<>>, m).raced = r /\ Knowing(r, q, <<>>, m).asked = q
         /\ Knowing(r, q, <<>>, m).pushing = <<>> /\ Knowing(r, q, <<>>, m).posting = <<>>
         /\ Knowing(r, q, <<>>, m).mode = m
<1> DEFINE e == <<>>
<1>1. e \in Seq(ListCommand)
  OBVIOUS
<1> HIDE DEF e
<1>2. /\ Knowing(r, q, e, m) \in Context
      /\ Knowing(r, q, e, m).raced = r /\ Knowing(r, q, e, m).asked = q
      /\ Knowing(r, q, e, m).pushing = e /\ Knowing(r, q, e, m).posting = <<>>
      /\ Knowing(r, q, e, m).mode = m
  BY <1>1, KnowingFields
<1> QED
  BY <1>2 DEF e

LEMMA ExecuteClientTask ==
  ASSUME NEW h, NEW c
  PROVE  /\ Execute(h, "register_client", c) = register_client(h, c)
         /\ Execute(h, "unregister_client", c) = unregister_client(h, c)
         /\ Execute(h, "ack_pause", c) = ack_pause(h, c)
         /\ Execute(h, "ack_resume", c) = ack_resume(h, c)
BY DEF Execute

LEMMA ExecutePlainTask ==
  ASSUME NEW h, NEW arg
  PROVE  /\ Execute(h, "pause_registered_clients", arg) = pause_registered_clients(h)
         /\ Execute(h, "resume_registered_clients", arg) = resume_registered_clients(h)
         /\ Execute(h, "handle_next_command", arg) = handle_next_command(h)
         /\ Execute(h, "check_cached_commands", arg) = check_cached_commands(h)
         /\ Execute(h, "set_privacy_policy", arg) = Post(h, <<"prepare_to_update_irk", "le">>)
         /\ Execute(h, "prepare_to_update_irk", arg) = prepare_to_update_irk(h)
         /\ Execute(h, "arm_connectability", arg) = arm_connectability(h)
         /\ Execute(h, "clear_connect_list", arg) = clear_connect_list(h)
         /\ Execute(h, "change_resolving_list", arg)
              = ChangeResolvingList(register_with_address_manager(h))
         /\ Execute(h, "clear_resolving_list", arg) = ClearResolvingList(h)
         /\ Execute(h, "OnCommandComplete", arg) = OnCommandComplete(h)
BY DEF Execute

LEMMA ExecuteAddressTask ==
  ASSUME NEW h, NEW a
  PROVE  /\ Execute(h, "cancel_and_remove", a)
              = cancel_connect([h EXCEPT !.background_connections = @ \ {a}], a)
         /\ Execute(h, "add_to_background", a)
              = [h EXCEPT !.background_connections = @ \cup {a}]
         /\ Execute(h, "remove_from_background", a)
              = [h EXCEPT !.background_connections = @ \ {a}]
         /\ Execute(h, "remove_device_from_connect_list", a)
              = remove_device_from_connect_list(h, a)
         /\ Execute(h, "peripheral", a) = on_peripheral_connection_complete(h, "success", a)
         /\ Execute(h, "peripheral_invalid", a)
              = on_peripheral_connection_complete(h, "invalid_parameters", a)
         /\ Execute(h, "disconnect", a) = on_le_disconnect(h, a)
BY DEF Execute

LEMMA ExecuteOther ==
  ASSUME NEW h, NEW arg
  PROVE  /\ Execute(h, "push_command", arg) = push_command(h, arg)
         /\ Execute(h, "create_le_connection", arg)
              = create_le_connection(h, arg[1], arg[2], arg[3])
         /\ Execute(h, "on_create_connection", arg) = on_create_connection(h, arg)
         /\ Execute(h, "on_cancel_complete", arg) = on_create_connection_cancel_complete(h, arg)
         /\ Execute(h, "central", arg) = on_central_connection_complete(h, arg[1], arg[2])
BY DEF Execute

(* The requests with an alarm after a closure. *)
AskedAfter(q, h, do, arg) ==
  ((q \cup Asks(h, do, arg)) \ Answered(do, arg)) \ Forgets(h, do, arg)

LEMMA AskedSame ==
  ASSUME NEW q \in SUBSET Address, NEW h, NEW do, NEW arg,
         do \notin {"create_le_connection", "central", "peripheral", "peripheral_invalid",
                    "cancel_and_remove"}
  PROVE  AskedAfter(q, h, do, arg) = q
<1>1. Asks(h, do, arg) = {} /\ Answered(do, arg) = {} /\ Forgets(h, do, arg) = {}
  BY DEF Asks, Answered, Forgets
<1> QED
  BY <1>1 DEF AskedAfter

LEMMA AskedLess ==
  ASSUME NEW q \in SUBSET Address, NEW h, NEW do, NEW arg,
         do \in {"peripheral", "cancel_and_remove"}
  PROVE  AskedAfter(q, h, do, arg) = q \ {arg}
<1>1. Asks(h, do, arg) = {} /\ Answered(do, arg) = {arg} /\ Forgets(h, do, arg) = {}
  BY DEF Asks, Answered, Forgets
<1> QED
  BY <1>1 DEF AskedAfter

LEMMA AskedInvalid ==
  ASSUME NEW q \in SUBSET Address, NEW h, NEW a \in Address
  PROVE  AskedAfter(q, h, "peripheral_invalid", a)
           = IF a \in h.connect_list THEN q \ {a} ELSE q
<1> DEFINE do == "peripheral_invalid"
<1>1. Asks(h, do, a) = {} /\ Answered(do, a) = {}
  BY DEF Asks, Answered
<1>2. Forgets(h, do, a) = IF a \in h.connect_list THEN {a} ELSE {}
  BY DEF Forgets
<1> QED
  BY <1>1, <1>2 DEF AskedAfter

LEMMA AskedCentral ==
  ASSUME NEW q \in SUBSET Address, NEW h, NEW arg \in CentralArgument
  PROVE  /\ AskedAfter(q, h, "central", arg) \subseteq q
         /\ ~(arg[1] = "unknown_connection" /\ h.pause_connection) =>
              AskedAfter(q, h, "central", arg) \subseteq q \ {arg[2]}
<1>1. Asks(h, "central", arg) = {}
  BY DEF Asks
<1>2. AskedAfter(q, h, "central", arg) \subseteq q
  BY <1>1 DEF AskedAfter
<1>3. ASSUME ~(arg[1] = "unknown_connection" /\ h.pause_connection), arg[2] \in Address
      PROVE  arg[2] \in Answered("central", arg) \cup Forgets(h, "central", arg)
  <2>1. arg[1] \in {"success", "failed", "invalid_parameters", "unknown_connection"}
    BY DEF CentralArgument
  <2>2. CASE arg[1] \in {"success", "failed"}
    BY <2>2 DEF Answered
  <2>3. CASE arg[1] \in {"invalid_parameters", "unknown_connection"}
    BY <1>3, <2>3 DEF Forgets
  <2> QED
    BY <2>1, <2>2, <2>3
<1> QED
  BY <1>2, <1>3 DEF AskedAfter

LEMMA AskedMore ==
  ASSUME NEW q \in SUBSET Address, NEW h, NEW arg \in CreateArgument
  PROVE  /\ AskedAfter(q, h, "create_le_connection", arg) \in SUBSET Address
         /\ IF arg[2] /\ arg[3] /\ arg[1] \notin h.connections
            THEN AskedAfter(q, h, "create_le_connection", arg) \subseteq q \cup {arg[1]}
            ELSE AskedAfter(q, h, "create_le_connection", arg) \subseteq q
<1>1. Answered("create_le_connection", arg) = {} /\ Forgets(h, "create_le_connection", arg) = {}
  BY DEF Answered, Forgets
<1>2. Asks(h, "create_le_connection", arg) \subseteq
        IF arg[2] /\ arg[3] /\ arg[1] \notin h.connections THEN {arg[1]} ELSE {}
  <2>1. ASSUME NEW a \in Address, arg = <<a, TRUE, TRUE>>
        PROVE  arg[2] /\ arg[3] /\ arg[1] = a
    BY <2>1
  <2> QED
    BY <2>1 DEF Asks
<1>3. Asks(h, "create_le_connection", arg) \subseteq Address
  BY DEF Asks
<1> QED
  BY <1>1, <1>2, <1>3 DEF AskedAfter

(* What holds while a closure runs gives what holds after it. *)
Running(h, task, r, q) ==
  /\ task \in Task /\ r \in SUBSET Client /\ q \in SUBSET Address
  /\ Races(h, task[1], task[2]) \subseteq r
  /\ ~(task[1] = "handle_next_command" /\ NothingToHandle(h))
  /\ All(h, Knowing(r, q, Pushing(task), While(task)))
Ran(h, task, r, q) ==
  All(Execute(h, task[1], task[2]),
      Knowing(r, AskedAfter(q, h, task[1], task[2]), <<>>, "synced"))

LEMMA RunClientTask ==
  ASSUME NEW h, NEW r, NEW q, NEW do \in ClientTask, NEW c \in Client,
         Running(h, <<do, c>>, r, q)
  PROVE  Ran(h, <<do, c>>, r, q)
<1> DEFINE x == Knowing(r, q, <<>>, While(<<do, c>>))
           y == Knowing(r, q, <<>>, "synced")
<1>1. /\ r \in SUBSET Client /\ q \in SUBSET Address
      /\ Pushing(<<do, c>>) = <<>> /\ While(<<do, c>>) \in Mode
      /\ Races(h, do, c) \subseteq r /\ All(h, Knowing(r, q, Pushing(<<do, c>>), While(<<do, c>>)))
  BY DEF Running, Pushing, While, Mode, ClientTask
<1>2. AskedAfter(q, h, do, c) = q
  BY <1>1, AskedSame DEF ClientTask
<1>3. /\ x \in Context /\ y \in Context /\ x.raced = r /\ y.raced = r
      /\ x.asked = q /\ y.asked = q /\ x.pushing = <<>> /\ y.pushing = <<>>
      /\ x.posting = <<>> /\ y.posting = <<>> /\ x.mode = While(<<do, c>>) /\ y.mode = "synced"
  <2>1. "synced" \in Mode
    BY DEF Mode
  <2> QED
    BY <1>1, <2>1, KnowingMode
<1>4. All(h, x)
  BY <1>1
<1> HIDE DEF x, y
<1>5. SameContext(x, y)
  BY <1>3 DEF SameContext
<1>6. SUFFICES All(Execute(h, do, c), y)
  BY <1>2 DEF Ran, y
<1>7. c = "le" => All(h, y)
  <2> SUFFICES ASSUME c = "le" PROVE All(h, y)
    OBVIOUS
  <2>1. x.mode = "synced"
    BY <1>3 DEF While
  <2> QED
    BY <1>3, <1>4, <2>1, Weaker DEF All
<1>8. CASE do = "register_client"
  <2>1. IF c = "scanner" THEN x.mode = "joining" ELSE x.mode = "synced"
    BY <1>3, <1>8 DEF Client, While
  <2>2. All(register_client(h, c), y)
    BY <1>3, <1>4, <1>5, <2>1, register_client_All
  <2> QED
    BY <1>8, <2>2, ExecuteClientTask
<1>9. CASE do = "unregister_client" /\ c = "scanner"
  <2>1. x.mode = "leaving"
    BY <1>3, <1>9 DEF While
  <2>2. All(unregister_client(h, "scanner"), y)
    BY <1>3, <1>4, <1>5, <2>1, unregister_scanner_All
  <2> QED
    BY <1>9, <2>2, ExecuteClientTask
<1>10. CASE do = "unregister_client" /\ c = "le"
  <2>1. "le" \in y.raced \/ (~Armed(h) /\ ~Armed(unregister_client(h, "le")))
    BY <1>1, <1>3, <1>10 DEF Races
  <2>2. All(unregister_client(h, "le"), y)
    BY <1>3, <1>7, <1>10, <2>1, unregister_le_All
  <2> QED
    BY <1>10, <2>2, ExecuteClientTask
<1>11. CASE do = "ack_pause" /\ c = "scanner"
  <2>1. x.mode = "acking"
    BY <1>3, <1>11 DEF While
  <2>2. "scanner" \in Registered(h) => "scanner" \in x.raced \/ h.scan_paused
    BY <1>1, <1>3, <1>11 DEF Races
  <2>3. All(ack_pause(h, "scanner"), y)
    BY <1>3, <1>4, <1>5, <2>1, <2>2, ack_pause_scanner_All
  <2> QED
    BY <1>11, <2>3, ExecuteClientTask
<1>12. CASE do = "ack_pause" /\ c = "le"
  <2>1. "le" \in Registered(h) => "le" \in y.raced \/ ~Armed(h)
    BY <1>1, <1>3, <1>12 DEF Races
  <2>2. All(ack_pause(h, "le"), y)
    BY <1>3, <1>7, <1>12, <2>1, ack_pause_le_All
  <2> QED
    BY <1>12, <2>2, ExecuteClientTask
<1>13. CASE do = "ack_resume"
  <2>1. x.mode = "synced"
    BY <1>3, <1>13 DEF While
  <2>2. All(h, y)
    BY <1>3, <1>4, <2>1, Weaker DEF All
  <2>3. All(ack_resume(h, c), y)
    BY <1>3, <2>2, ack_resume_All
  <2> QED
    BY <1>13, <2>3, ExecuteClientTask
<1> QED
  BY <1>8, <1>9, <1>10, <1>11, <1>12, <1>13 DEF ClientTask, Client

(* Of the other closures, those that push nothing. *)
LEMMA RunningOther ==
  ASSUME NEW h, NEW task, NEW r, NEW q, Running(h, task, r, q),
         task[1] \notin ClientTask \cup {"push_command"}
  PROVE  /\ All(h, Knowing(r, q, <<>>, "synced"))
         /\ r \in SUBSET Client /\ q \in SUBSET Address
         /\ Knowing(r, q, <<>>, "synced") \in Context
         /\ Knowing(r, q, <<>>, "synced").raced = r
         /\ Knowing(r, q, <<>>, "synced").asked = q
         /\ Knowing(r, q, <<>>, "synced").pushing = <<>>
         /\ Knowing(r, q, <<>>, "synced").posting = <<>>
         /\ Knowing(r, q, <<>>, "synced").mode = "synced"
<1>1. Pushing(task) = <<>> /\ While(task) = "synced"
  BY DEF Pushing, While, ClientTask
<1>2. r \in SUBSET Client /\ q \in SUBSET Address /\ All(h, Knowing(r, q, <<>>, "synced"))
  BY <1>1 DEF Running
<1>3. "synced" \in Mode
  BY DEF Mode
<1> QED
  BY <1>2, <1>3, KnowingMode

LEMMA RunPlainTask ==
  ASSUME NEW h, NEW r, NEW q, NEW do \in PlainTask, NEW arg \in {"le", NoAddress},
         Running(h, <<do, arg>>, r, q)
  PROVE  Ran(h, <<do, arg>>, r, q)
<1> DEFINE y == Knowing(r, q, <<>>, "synced")
           task == <<do, arg>>
<1>1. task[1] = do /\ task[2] = arg /\ do \notin ClientTask \cup {"push_command"}
  BY DEF PlainTask, ClientTask
<1> HIDE DEF task
<1>2. /\ All(h, y) /\ y \in Context /\ y.raced = r /\ y.asked = q /\ y.pushing = <<>>
      /\ y.posting = <<>> /\ y.mode = "synced" /\ q \in SUBSET Address
  BY <1>1, RunningOther DEF task
<1>3. /\ Races(h, do, arg) \subseteq r
      /\ ~(do = "handle_next_command" /\ NothingToHandle(h))
  BY <1>1 DEF Running, task
<1> HIDE DEF y
<1>4. AskedAfter(q, h, do, arg) = q
  BY <1>2, AskedSame DEF PlainTask
<1>5. SUFFICES All(Execute(h, do, arg), y)
  BY <1>1, <1>4 DEF Ran, y, task
<1>6. /\ All(pause_registered_clients(h), y) /\ All(resume_registered_clients(h), y)
      /\ All(check_cached_commands(h), y) /\ All(prepare_to_update_irk(h), y)
  BY <1>2, pause_registered_clients_All, resume_registered_clients_All,
     check_cached_commands_All, prepare_to_update_irk_All
<1>7. /\ All(clear_connect_list(h), y) /\ All(ClearResolvingList(h), y)
      /\ All(OnCommandComplete(h), y) /\ All(register_with_address_manager(h), y)
  BY <1>2, clear_connect_list_All, ChangeResolvingList_All, OnCommandComplete_All,
     register_with_address_manager_All
<1>8. All(ChangeResolvingList(register_with_address_manager(h)), y)
  BY <1>2, <1>7, ChangeResolvingList_All
<1>9. All(Post(h, <<"prepare_to_update_irk", "le">>), y)
  <2>1. "prepare_to_update_irk" \in PlainTask
    BY DEF PlainTask
  <2> QED
    BY <1>2, <2>1, InertTasks, PostInert
<1>10. do = "handle_next_command" => All(handle_next_command(h), y)
  BY <1>2, <1>3, handle_next_command_All
<1>11. do = "arm_connectability" => All(arm_connectability(h), y)
  <2> SUFFICES ASSUME do = "arm_connectability" PROVE All(arm_connectability(h), y)
    OBVIOUS
  <2>1. "le" \in r \/ h.registered_clients["le"] \in {"RESUMED", "WAITING_FOR_RESUME"}
    BY <1>3 DEF Races, Client
  <2>2. "le" \in y.raced \/ h.registered_clients["le"] \notin {"PAUSED", Absent}
    BY <1>2, <2>1 DEF Absent
  <2> QED
    BY <1>2, <2>2, arm_connectability_All
<1> QED
  BY <1>6, <1>7, <1>8, <1>9, <1>10, <1>11, ExecutePlainTask DEF PlainTask

LEMMA RunAddressTask ==
  ASSUME NEW h, NEW r, NEW q, NEW do \in AddressTask, NEW a \in Address,
         Running(h, <<do, a>>, r, q)
  PROVE  Ran(h, <<do, a>>, r, q)
<1> DEFINE x == Knowing(r, q, <<>>, "synced")
           p == AskedAfter(q, h, do, a)
           y == Knowing(r, p, <<>>, "synced")
           task == <<do, a>>
<1>1. task[1] = do /\ task[2] = a /\ do \notin ClientTask \cup {"push_command"}
  BY DEF AddressTask, ClientTask
<1> HIDE DEF task
<1>2. /\ All(h, x) /\ x \in Context /\ x.raced = r /\ x.asked = q /\ x.pushing = <<>>
      /\ x.posting = <<>> /\ x.mode = "synced" /\ q \in SUBSET Address /\ r \in SUBSET Client
  BY <1>1, RunningOther DEF task
<1>3. /\ p \in SUBSET Address
      /\ do \in {"peripheral", "cancel_and_remove"} => p = q \ {a}
      /\ do = "peripheral_invalid" => p = IF a \in h.connect_list THEN q \ {a} ELSE q
      /\ do \notin {"peripheral", "peripheral_invalid", "cancel_and_remove"} => p = q
  BY <1>2, AskedSame, AskedLess, AskedInvalid DEF AddressTask
<1>4. SUFFICES All(Execute(h, do, a), y)
  BY <1>1 DEF Ran, y, task
<1> HIDE DEF p
<1>5. /\ y \in Context /\ y.raced = r /\ y.asked = p /\ y.pushing = <<>>
      /\ y.posting = <<>> /\ y.mode = "synced"
  <2>1. "synced" \in Mode
    BY DEF Mode
  <2> QED
    BY <1>2, <1>3, <2>1, KnowingMode
<1>6. do \notin {"peripheral", "peripheral_invalid", "cancel_and_remove"} => All(h, y)
  BY <1>2, <1>3
<1> HIDE DEF x, y
<1>7. CASE do = "cancel_and_remove"
  <2> DEFINE B == h.background_connections \ {a}
             g == [h EXCEPT !.background_connections = B]
  <2>1. B \in SUBSET Address
    BY <1>2 DEF All, Host
  <2>2. All(g, x)
    BY <1>2, <2>1, BackgroundAll
  <2> HIDE DEF g
  <2>3. All(cancel_connect(g, a), y)
    BY <1>2, <1>3, <1>5, <1>7, <2>2, cancel_connect_All
  <2> QED
    BY <1>7, <2>3, ExecuteAddressTask DEF g
<1>8. CASE do = "add_to_background"
  <2>1. h.background_connections \cup {a} \in SUBSET Address
    BY <1>2 DEF All, Host
  <2>2. All([h EXCEPT !.background_connections = h.background_connections \cup {a}], y)
    BY <1>6, <1>8, <2>1, BackgroundAll
  <2> QED
    BY <1>8, <2>2, ExecuteAddressTask
<1>9. CASE do = "remove_from_background"
  <2>1. h.background_connections \ {a} \in SUBSET Address
    BY <1>2 DEF All, Host
  <2>2. All([h EXCEPT !.background_connections = h.background_connections \ {a}], y)
    BY <1>6, <1>9, <2>1, BackgroundAll
  <2> QED
    BY <1>9, <2>2, ExecuteAddressTask
<1>10. CASE do = "remove_device_from_connect_list"
  <2>1. All(remove_device_from_connect_list(h, a), y)
    BY <1>5, <1>6, <1>10, remove_device_from_connect_list_All
  <2> QED
    BY <1>10, <2>1, ExecuteAddressTask
<1>11. CASE do \in {"peripheral", "peripheral_invalid"}
  <2>1. /\ All(on_peripheral_connection_complete(h, "success", a), y)
        /\ All(on_peripheral_connection_complete(h, "invalid_parameters", a), y)
    BY <1>2, <1>3, <1>5, <1>11, on_peripheral_connection_complete_All
  <2> QED
    BY <1>11, <2>1, ExecuteAddressTask
<1>12. CASE do = "disconnect"
  <2>1. All(on_le_disconnect(h, a), y)
    BY <1>5, <1>6, <1>12, on_le_disconnect_All
  <2> QED
    BY <1>12, <2>1, ExecuteAddressTask
<1> QED
  BY <1>7, <1>8, <1>9, <1>10, <1>11, <1>12 DEF AddressTask

LEMMA RunPushCommand ==
  ASSUME NEW h, NEW r, NEW q, NEW c \in ListCommand, Running(h, <<"push_command", c>>, r, q)
  PROVE  Ran(h, <<"push_command", c>>, r, q)
<1> DEFINE s == <<c>>
           x == Knowing(r, q, s, "synced")
           y == Knowing(r, q, <<>>, "synced")
<1>1. Pushing(<<"push_command", c>>) = s /\ While(<<"push_command", c>>) = "synced"
  BY DEF Pushing, While
<1>2. s \in Seq(ListCommand) /\ "synced" \in Mode
  BY DEF Mode
<1>3. r \in SUBSET Client /\ q \in SUBSET Address /\ All(h, x)
  BY <1>1 DEF Running
<1>4. AskedAfter(q, h, "push_command", c) = q
  BY <1>3, AskedSame
<1>5. SUFFICES All(push_command(h, c), y)
  BY <1>4, ExecuteOther DEF Ran
<1> HIDE DEF s
<1>6. /\ x \in Context /\ x.raced = r /\ x.asked = q /\ x.pushing = s /\ x.posting = <<>>
      /\ x.mode = "synced"
  BY <1>2, <1>3, KnowingFields
<1>7. /\ y \in Context /\ y.raced = r /\ y.asked = q /\ y.pushing = <<>> /\ y.posting = <<>>
      /\ y.mode = "synced"
  BY <1>2, <1>3, KnowingMode
<1> HIDE DEF x, y
<1>8. x.pushing = <<c>>
  BY <1>6 DEF s
<1> QED
  BY <1>3, <1>6, <1>7, <1>8, push_command_All

LEMMA RunCancelComplete ==
  ASSUME NEW h, NEW r, NEW q, NEW status \in {"success", "disallowed"},
         Running(h, <<"on_cancel_complete", status>>, r, q)
  PROVE  Ran(h, <<"on_cancel_complete", status>>, r, q)
<1> DEFINE y == Knowing(r, q, <<>>, "synced")
           task == <<"on_cancel_complete", status>>
<1>1. task[1] = "on_cancel_complete" /\ task[2] = status
      /\ task[1] \notin ClientTask \cup {"push_command"}
  BY DEF ClientTask
<1> HIDE DEF task
<1>2. All(h, y) /\ q \in SUBSET Address
  BY <1>1, RunningOther DEF task
<1> HIDE DEF y
<1>3. All(on_create_connection_cancel_complete(h, status), y)
  BY <1>2, on_cancel_complete_All
<1>4. AskedAfter(q, h, "on_cancel_complete", status) = q
  BY <1>2, AskedSame
<1> QED
  BY <1>1, <1>3, <1>4, ExecuteOther DEF Ran, y, task

LEMMA RunCreate ==
  ASSUME NEW h, NEW r, NEW q, NEW arg \in CreateArgument,
         Running(h, <<"create_le_connection", arg>>, r, q)
  PROVE  Ran(h, <<"create_le_connection", arg>>, r, q)
<1> DEFINE x == Knowing(r, q, <<>>, "synced")
           p == AskedAfter(q, h, "create_le_connection", arg)
           y == Knowing(r, p, <<>>, "synced")
           task == <<"create_le_connection", arg>>
<1>1. task[1] = "create_le_connection" /\ task[2] = arg
      /\ task[1] \notin ClientTask \cup {"push_command"}
  BY DEF ClientTask
<1> HIDE DEF task
<1>2. /\ All(h, x) /\ x \in Context /\ x.raced = r /\ x.asked = q /\ x.pushing = <<>>
      /\ x.posting = <<>> /\ x.mode = "synced" /\ q \in SUBSET Address /\ r \in SUBSET Client
  BY <1>1, RunningOther DEF task
<1>3. /\ p \in SUBSET Address
      /\ IF arg[2] /\ arg[3] /\ arg[1] \notin h.connections THEN p \subseteq q \cup {arg[1]}
         ELSE p \subseteq q
  BY <1>2, AskedMore
<1>4. SUFFICES All(create_le_connection(h, arg[1], arg[2], arg[3]), y)
  BY <1>1, ExecuteOther DEF Ran, task
<1> HIDE DEF p
<1>5. /\ y \in Context /\ y.raced = r /\ y.asked = p /\ y.pushing = <<>>
      /\ y.posting = <<>> /\ y.mode = "synced"
  <2>1. "synced" \in Mode
    BY DEF Mode
  <2> QED
    BY <1>2, <1>3, <2>1, KnowingMode
<1> HIDE DEF x, y
<1>6. /\ arg[1] \in Address \cup {NoAddress} /\ arg[2] \in BOOLEAN /\ arg[3] \in BOOLEAN
      /\ arg[2] => arg[1] \in Address
  BY DEF CreateArgument
<1> QED
  BY <1>2, <1>3, <1>5, <1>6, create_le_connection_All

(* Every closure but the answers to a create connection command. *)
LEMMA RunAny ==
  ASSUME NEW h, NEW task, NEW r, NEW q, Running(h, task, r, q),
         task[1] \notin {"central", "on_create_connection"}
  PROVE  Ran(h, task, r, q)
<1>1. task \in Task
  BY DEF Running
<1>2. CASE task \in ClientTask \X Client
  <2>1. PICK do \in ClientTask, c \in Client : task = <<do, c>>
    BY <1>2
  <2> QED
    BY <2>1, RunClientTask
<1>3. CASE task \in PlainTask \X {"le", NoAddress}
  <2>1. PICK do \in PlainTask, arg \in {"le", NoAddress} : task = <<do, arg>>
    BY <1>3
  <2> QED
    BY <2>1, RunPlainTask
<1>4. CASE task \in AddressTask \X Address
  <2>1. PICK do \in AddressTask, a \in Address : task = <<do, a>>
    BY <1>4
  <2> QED
    BY <2>1, RunAddressTask
<1>5. CASE task \in AnswerTask \X {"success", "disallowed"}
  <2>1. PICK status \in {"success", "disallowed"} : task = <<"on_cancel_complete", status>>
    BY <1>5 DEF AnswerTask
  <2> QED
    BY <2>1, RunCancelComplete
<1>6. CASE task \in {"push_command"} \X ListCommand
  <2>1. PICK c \in ListCommand : task = <<"push_command", c>>
    BY <1>6
  <2> QED
    BY <2>1, RunPushCommand
<1>7. CASE task \in {"create_le_connection"} \X CreateArgument
  <2>1. PICK arg \in CreateArgument : task = <<"create_le_connection", arg>>
    BY <1>7
  <2> QED
    BY <2>1, RunCreate
<1>8. task \notin {"central"} \X CentralArgument
  OBVIOUS
<1> QED
  BY <1>1, <1>2, <1>3, <1>4, <1>5, <1>6, <1>7, <1>8 DEF Task

LEMMA PushingType ==
  ASSUME NEW task \in Task
  PROVE  Pushing(task) \in Seq(ListCommand) /\ While(task) \in Mode
<1>1. task[1] = "push_command" => task[2] \in ListCommand
  BY DEF Task, ClientTask, PlainTask, AddressTask, AnswerTask
<1>2. task[1] = "push_command" => <<task[2]>> \in Seq(ListCommand)
  BY <1>1
<1>3. <<>> \in Seq(ListCommand)
  OBVIOUS
<1>4. While(task) \in Mode
  BY DEF While, Mode
<1> QED
  BY <1>2, <1>3, <1>4 DEF Pushing

LEMMA HereIsKnowing ==
  ASSUME NEW mode
  PROVE  Here(mode) = Knowing(raced, Timed, <<>>, mode)
BY DEF Here, Knowing

(* The handler runs a closure. *)
LEMMA RunTaskAll ==
  ASSUME Inv, RunTask
  PROVE  /\ raced' \in SUBSET Client /\ raced \subseteq raced' /\ Timed' \in SUBSET Address
         /\ All(host', Knowing(raced', Timed', <<>>, "synced"))
<1> DEFINE task == host.tasks[1]
           h == Popped(host)
           r == raced \cup Races(h, task[1], task[2])
           q == AskedAfter(Timed, h, task[1], task[2])
           y == Knowing(raced, Timed, Pushing(task), While(task))
           w == Knowing(r, Timed, Pushing(task), While(task))
           z == Knowing(r, q, <<>>, "synced")
<1>1. PICK mode \in {"synced", "pending"} : All(host, Here(mode))
  BY DEF Inv
<1> DEFINE x == Here(mode)
<1>2. /\ host \in Host /\ host.tasks # <<>> /\ Attempt(host)
      /\ raced \in SUBSET Client /\ Timed \in SUBSET Address
  BY <1>1 DEF Inv, RunTask, All
<1>3. task \in Task /\ Head(host.tasks) = task
  BY <1>2, PoppedFields
<1>4. /\ ~(task[1] = "handle_next_command" /\ NothingToHandle(h))
      /\ host' = Execute(h, task[1], task[2]) /\ Timed' = q /\ raced' = r
  <2>1. /\ asked' = (asked \cup Asks(h, task[1], task[2])) \ Answered(task[1], task[2])
        /\ forgotten' = ((forgotten \ Asks(h, task[1], task[2]))
                           \cup Forgets(h, task[1], task[2])) \cap asked'
        /\ ~(task[1] = "handle_next_command" /\ NothingToHandle(h))
        /\ host' = Execute(h, task[1], task[2]) /\ raced' = r
    BY <1>3 DEF RunTask, Popped
  <2>2. Timed' = q
    BY <2>1 DEF AskedAfter, Timed
  <2> QED
    BY <2>1, <2>2
<1>5. r \in SUBSET Client /\ raced \subseteq r /\ q \in SUBSET Address
      /\ Races(h, task[1], task[2]) \subseteq r
  BY <1>2 DEF Races, AskedAfter, Asks
<1>6. /\ x \in Context /\ x.raced = raced /\ x.asked = Timed /\ x.pushing = <<>>
      /\ x.posting = <<>> /\ x.mode = mode
  <2>1. mode \in Mode
    BY DEF Mode
  <2> QED
    BY <1>2, <2>1, HereIsKnowing, KnowingMode
<1>7. /\ y.raced = raced /\ y.asked = Timed /\ y.pushing = Pushing(task)
      /\ y.posting = <<>> /\ y.mode = While(task) /\ y \in Context
  BY <1>2, <1>3, PushingType, KnowingFields
<1>8. /\ z \in Context /\ z.raced = r /\ z.asked = q /\ z.pushing = <<>>
      /\ z.posting = <<>> /\ z.mode = "synced"
  <2>1. "synced" \in Mode
    BY DEF Mode
  <2> HIDE DEF r, q
  <2> QED
    BY <1>5, <2>1, KnowingMode
<1>9. SUFFICES All(Execute(h, task[1], task[2]), z)
  BY <1>4, <1>5
<1> HIDE DEF x
<1>10. CASE task[1] \notin {"central", "on_create_connection"}
  <2>1. All(h, y)
    <3> HIDE DEF y
    <3> QED
      BY <1>1, <1>2, <1>6, <1>7, <1>10, PoppedAll DEF x
  <2>2. All(h, w)
    <3>1. /\ w.raced = r /\ w.asked = Timed /\ w.pushing = Pushing(task)
          /\ w.posting = <<>> /\ w.mode = While(task)
      <4> HIDE DEF r, h
      <4> QED
        BY <1>2, <1>3, <1>5, PushingType, KnowingFields
    <3>2. Timed \subseteq h.timeout_alarms
      BY <1>7, <2>1 DEF All
    <3> HIDE DEF w, y, r, h, task
    <3> QED
      BY <1>5, <1>7, <2>1, <3>1, <3>2, Weaker
  <2>3. Running(h, task, r, Timed)
    BY <1>2, <1>3, <1>4, <1>5, <2>2 DEF Running
  <2>4. Ran(h, task, r, Timed)
    <3> HIDE DEF r, h, task
    <3> QED
      BY <1>10, <2>3, RunAny
  <2> QED
    BY <2>4 DEF Ran
<1>11. CASE task[1] = "on_create_connection"
  <2> DEFINE g == StateSet(h, "ARMED")
  <2>1. task[2] = "success" /\ Attempt(g)
    BY <1>2, <1>11, on_create_connection_Attempt
  <2>2. "ARMED" \in ConnectabilityState
    BY DEF ConnectabilityState
  <2>3. All(g, y)
    <3> HIDE DEF y
    <3> QED
      BY <1>1, <1>2, <1>6, <1>7, <2>1, <2>2, PoppedAndSet DEF x
  <2>4. Pushing(task) = <<>> /\ While(task) = "synced" /\ q = Timed
    <3>1. Pushing(task) = <<>> /\ While(task) = "synced"
      BY <1>11 DEF Pushing, While
    <3>2. q = Timed
      BY <1>2, <1>11, AskedSame
    <3> QED
      BY <3>1, <3>2
  <2>5. Timed \subseteq g.timeout_alarms
    BY <1>7, <2>3 DEF All
  <2>6. Execute(h, task[1], task[2]) = g
    BY <1>11, <2>1, ExecuteOther DEF on_create_connection, StateSet
  <2> HIDE DEF y, z, g, r, q, h
  <2>7. All(g, z)
    BY <1>5, <1>7, <1>8, <2>3, <2>4, <2>5, Weaker
  <2> QED
    BY <2>6, <2>7
<1>12. CASE task[1] = "central"
  <2> DEFINE g == StateSet(h, "DISARMED")
             v == Knowing(r, Timed, <<>>, "synced")
             arg == task[2]
  <2>1. Attempt(g)
    BY <1>2, <1>12, on_central_Attempt
  <2>2. "DISARMED" \in ConnectabilityState
    BY DEF ConnectabilityState
  <2>3. All(g, y)
    <3> HIDE DEF y
    <3> QED
      BY <1>1, <1>2, <1>6, <1>7, <2>1, <2>2, PoppedAndSet DEF x
  <2>4. Pushing(task) = <<>> /\ While(task) = "synced" /\ Timed \in SUBSET Address
    BY <1>2, <1>12 DEF Pushing, While
  <2>5. Timed \subseteq g.timeout_alarms
    BY <1>7, <2>3 DEF All
  <2>6. /\ v \in Context /\ v.raced = r /\ v.asked = Timed /\ v.pushing = <<>>
        /\ v.posting = <<>> /\ v.mode = "synced"
    <3>1. "synced" \in Mode
      BY DEF Mode
    <3> HIDE DEF r
    <3> QED
      BY <1>2, <1>5, <3>1, KnowingMode
  <2>7. All(g, v)
    <3> HIDE DEF v, y, g, r
    <3> QED
      BY <1>5, <1>7, <2>3, <2>4, <2>5, <2>6, Weaker
  <2>8. h \in Host /\ g = Disarmed(h)
    <3>1. h \in Host
      BY <1>2, PoppedFields
    <3> QED
      BY <3>1 DEF StateSet, Disarmed
  <2>9. arg \in CentralArgument /\ arg = <<arg[1], arg[2]>>
    <3>1. task \in {"central"} \X CentralArgument
      BY <1>3, <1>12 DEF Task, ClientTask, PlainTask, AddressTask, AnswerTask
    <3>2. arg \in CentralArgument
      BY <3>1
    <3> HIDE DEF arg
    <3> QED
      BY <3>2 DEF CentralArgument
  <2>12. /\ q \subseteq Timed
         /\ ~(arg[1] = "unknown_connection" /\ h.pause_connection) => q \subseteq Timed \ {arg[2]}
    <3> HIDE DEF h, arg
    <3>1. q = AskedAfter(Timed, h, "central", arg)
      BY <1>12 DEF arg
    <3> QED
      BY <1>2, <2>9, <3>1, AskedCentral
  <2>10. Execute(h, task[1], arg) = on_central_connection_complete(h, arg[1], arg[2])
    BY <1>12, ExecuteOther
  <2> HIDE DEF z, v, g, h, q, arg, r
  <2>11. All(on_central_connection_complete(h, arg[1], arg[2]), z)
    BY <1>8, <2>6, <2>7, <2>8, <2>9, <2>12, on_central_connection_complete_All
  <2> QED
    BY <2>10, <2>11 DEF arg
<1> QED
  BY <1>10, <1>11, <1>12

(***************************************************************************)
(* Steps that leave the controller alone.                                  *)
(***************************************************************************)
LEMMA ControllerUnaware ==
  ASSUME Inv, UNCHANGED <<initiating, accept_list, scanning, rejected>>,
         connected' \in SUBSET Address, NEW mode \in {"synced", "pending"},
         raced' \in SUBSET Client, raced \subseteq raced', Timed' \in SUBSET Address,
         All(host', Knowing(raced', Timed', <<>>, mode))
  PROVE  Inv'
<1> DEFINE y == Knowing(raced', Timed', <<>>, mode)
<1>1. /\ initiating' = initiating /\ accept_list' = accept_list
      /\ scanning' = scanning /\ rejected' = rejected
  OBVIOUS
<1>2. Here(mode)' = y
  BY DEF Here, Knowing
<1>3. /\ y.raced = raced' /\ y.asked = Timed' /\ y.pushing = <<>> /\ y.posting = <<>>
      /\ y.mode = mode
  BY DEF Knowing
<1> HIDE DEF y
<1>4. Attempt(host)'
  BY <1>1 DEF All, Attempt, OneAttempt, AnswersInOrder, StateFits, Attempting, Cancelled,
              CancelledBefore
<1>5. "le" \notin raced' => Held(host)'
  BY <1>1, <1>3 DEF All, Held, Cancelled, CancelledBefore, y
<1>6. ScanState(host)' /\ ("scanner" \notin raced' => ScanHeld(host)')
  BY <1>1, <1>3 DEF All, ScanState, ScanHeld, ScanOff, ScanOffBefore, y
<1>7. "scanner" \notin raced' => Form(host, mode)'
  BY <1>3 DEF All, y
<1>8. "le" \notin rejected' => Stream(host, Here(mode))' = host'.connect_list
  BY <1>1, <1>2 DEF All, Stream, y
<1>9. (host \in Host)' /\ Timed' \subseteq host'.timeout_alarms
  BY <1>3 DEF All, y
<1>10. All(host, Here(mode))'
  BY <1>2, <1>3, <1>4, <1>5, <1>6, <1>7, <1>8, <1>9 DEF All
<1> QED
  BY <1>1, <1>10 DEF Inv

LEMMA ControllerIdle ==
  ASSUME Inv, UNCHANGED controller, NEW mode \in {"synced", "pending"},
         raced' \in SUBSET Client, raced \subseteq raced', Timed' \in SUBSET Address,
         All(host', Knowing(raced', Timed', <<>>, mode))
  PROVE  Inv'
<1>1. UNCHANGED <<initiating, accept_list, scanning, rejected>> /\ connected' \in SUBSET Address
  BY DEF controller, Inv
<1> QED
  BY <1>1, ControllerUnaware

LEMMA RunTaskStep == Inv /\ RunTask => Inv'
<1> SUFFICES ASSUME Inv, RunTask PROVE Inv'
  OBVIOUS
<1>1. UNCHANGED controller
  BY DEF RunTask
<1> QED
  BY <1>1, RunTaskAll, ControllerIdle

(* What is known between two steps, with its mode. *)
LEMMA InvHere ==
  ASSUME Inv
  PROVE  \E mode \in {"synced", "pending"} :
           /\ All(host, Knowing(raced, Timed, <<>>, mode)) /\ mode \in Mode
           /\ Knowing(raced, Timed, <<>>, mode) \in Context
           /\ Knowing(raced, Timed, <<>>, mode).raced = raced
           /\ Knowing(raced, Timed, <<>>, mode).asked = Timed
           /\ Knowing(raced, Timed, <<>>, mode).pushing = <<>>
           /\ Knowing(raced, Timed, <<>>, mode).posting = <<>>
           /\ Knowing(raced, Timed, <<>>, mode).mode = mode
<1>1. PICK mode \in {"synced", "pending"} : All(host, Here(mode))
  BY DEF Inv
<1>2. raced \in SUBSET Client /\ Timed \in SUBSET Address /\ mode \in Mode
  BY DEF Inv, Mode
<1> QED
  BY <1>1, <1>2, HereIsKnowing, KnowingMode

LEMMA CreateConnectionTimeoutStep ==
  ASSUME Inv, NEW a \in Address, CreateConnectionTimeout(a)
  PROVE  Inv'
<1>1. PICK mode \in {"synced", "pending"} :
           /\ All(host, Knowing(raced, Timed, <<>>, mode)) /\ mode \in Mode
           /\ Knowing(raced, Timed, <<>>, mode) \in Context
           /\ Knowing(raced, Timed, <<>>, mode).raced = raced
           /\ Knowing(raced, Timed, <<>>, mode).asked = Timed
           /\ Knowing(raced, Timed, <<>>, mode).pushing = <<>>
           /\ Knowing(raced, Timed, <<>>, mode).posting = <<>>
           /\ Knowing(raced, Timed, <<>>, mode).mode = mode
  BY InvHere
<1> DEFINE x == Knowing(raced, Timed, <<>>, mode)
           q == Timed \ {a}
           y == Knowing(raced, q, <<>>, mode)
<1>2. /\ host' = on_create_connection_timeout(host, a) /\ raced' = raced /\ Timed' = q
      /\ UNCHANGED controller /\ raced \in SUBSET Client /\ q \in SUBSET Address
  BY DEF CreateConnectionTimeout, Inv, Timed
<1>3. /\ y \in Context /\ y.raced = raced /\ y.asked = q /\ y.pushing = <<>>
      /\ y.posting = <<>> /\ y.mode = mode
  BY <1>1, <1>2, KnowingMode
<1> HIDE DEF x, y
<1>4. All(on_create_connection_timeout(host, a), y)
  BY <1>1, <1>3, on_create_connection_timeout_All DEF x
<1>5. All(host', Knowing(raced', Timed', <<>>, mode))
  BY <1>2, <1>4 DEF y
<1> QED
  BY <1>2, <1>5, ControllerIdle

LEMMA RotationTimeoutStep ==
  ASSUME Inv, RotationTimeout
  PROVE  Inv'
<1>1. PICK mode \in {"synced", "pending"} :
           /\ All(host, Knowing(raced, Timed, <<>>, mode)) /\ mode \in Mode
           /\ Knowing(raced, Timed, <<>>, mode) \in Context
           /\ Knowing(raced, Timed, <<>>, mode).raced = raced
           /\ Knowing(raced, Timed, <<>>, mode).asked = Timed
           /\ Knowing(raced, Timed, <<>>, mode).pushing = <<>>
           /\ Knowing(raced, Timed, <<>>, mode).posting = <<>>
           /\ Knowing(raced, Timed, <<>>, mode).mode = mode
  BY InvHere
<1>2. /\ host' = prepare_to_rotate(host) /\ raced' = raced /\ Timed' = Timed
      /\ UNCHANGED controller /\ raced \in SUBSET Client /\ Timed \in SUBSET Address
  BY DEF RotationTimeout, Inv, Timed, requests
<1>3. All(prepare_to_rotate(host), Knowing(raced, Timed, <<>>, mode))
  BY <1>1, prepare_to_rotate_All
<1>4. All(host', Knowing(raced', Timed', <<>>, mode))
  BY <1>2, <1>3
<1> QED
  BY <1>2, <1>4, ControllerIdle

(* A call posts a closure, or two. *)
CallTask(t) == t[1] # "push_command" /\ \A x : Inert(t, x)

LEMMA PostedCall ==
  ASSUME Inv, NEW t, CallTask(t), NEW s, CallTask(s) /\ s \in Task, t \in Task,
         UNCHANGED <<controller, raced, Timed>>,
         host' = Post(host, t) \/ host' = Post(Post(host, s), t)
  PROVE  Inv'
<1>1. PICK mode \in {"synced", "pending"} : All(host, Knowing(raced, Timed, <<>>, mode))
  BY InvHere
<1> DEFINE x == Knowing(raced, Timed, <<>>, mode)
<1> HIDE DEF x
<1>2. All(Post(host, t), x) /\ All(Post(host, s), x)
  BY <1>1, PostInert DEF x, CallTask
<1>3. All(Post(Post(host, s), t), x)
  BY <1>2, PostInert DEF CallTask
<1>4. All(host', x)
  BY <1>2, <1>3
<1>5. All(host', Knowing(raced', Timed', <<>>, mode))
  BY <1>4 DEF x
<1> QED
  BY <1>5, ControllerIdle DEF Inv

LEMMA CallOne ==
  ASSUME Inv, NEW t \in Task, CallTask(t), Call(<<t>>)
  PROVE  Inv'
<1>1. host \in Host /\ host.tasks \in Seq(Task)
  BY InvHere DEF All, Host
<1>2. host.tasks \o <<t>> = Append(host.tasks, t)
  BY <1>1, AppendIsConcat
<1>3. host' = Post(host, t)
  BY <1>1, <1>2 DEF Call, Post, Host
<1> QED
  BY <1>3, PostedCall DEF Call, Timed, requests

LEMMA CallTwo ==
  ASSUME Inv, NEW s \in Task, NEW t \in Task, CallTask(s), CallTask(t), Call(<<s>> \o <<t>>)
  PROVE  Inv'
<1>1. host \in Host /\ host.tasks \in Seq(Task)
  BY InvHere DEF All, Host
<1>2. host.tasks \o (<<s>> \o <<t>>) = Append(Append(host.tasks, s), t)
  BY <1>1
<1>3. host' = Post(Post(host, s), t)
  BY <1>1, <1>2 DEF Call, Post, Host
<1> QED
  BY <1>3, PostedCall DEF Call, Timed, requests

LEMMA CallTasks ==
  /\ \A do \in AddressTask, a \in Address : CallTask(<<do, a>>) /\ <<do, a>> \in Task
  /\ \A do \in PlainTask : CallTask(<<do, NoAddress>>) /\ <<do, NoAddress>> \in Task
  /\ \A arg \in CreateArgument :
       CallTask(<<"create_le_connection", arg>>) /\ <<"create_le_connection", arg>> \in Task
<1>1. ASSUME NEW do \in AddressTask, NEW a \in Address
      PROVE  CallTask(<<do, a>>) /\ <<do, a>> \in Task
  <2>1. <<do, a>>[1] # "push_command" /\ <<do, a>> \in Task
    BY DEF AddressTask, Task
  <2> QED
    BY <2>1, InertTasks DEF CallTask
<1>2. ASSUME NEW do \in PlainTask
      PROVE  CallTask(<<do, NoAddress>>) /\ <<do, NoAddress>> \in Task
  <2>1. <<do, NoAddress>>[1] # "push_command" /\ <<do, NoAddress>> \in Task
    BY DEF PlainTask, Task
  <2> QED
    BY <2>1, InertTasks DEF CallTask
<1>3. ASSUME NEW arg \in CreateArgument
      PROVE  /\ CallTask(<<"create_le_connection", arg>>)
             /\ <<"create_le_connection", arg>> \in Task
  <2>1. /\ <<"create_le_connection", arg>>[1] # "push_command"
        /\ <<"create_le_connection", arg>> \in Task
    BY DEF Task
  <2> QED
    BY <2>1, InertTasks DEF CallTask
<1> QED
  BY <1>1, <1>2, <1>3

(* The entry points of AclManager. *)
LEMMA AclManagerStep ==
  ASSUME Inv, AclManager
  PROVE  Inv'
<1>1. ASSUME NEW a \in Address, NEW is_direct \in BOOLEAN, CreateLeConnection(a, is_direct)
      PROVE  Inv'
  <2> DEFINE arg == <<a, TRUE, is_direct>>
             s == <<"add_to_background", a>>
             t == <<"create_le_connection", arg>>
  <2>1. arg \in CreateArgument
    BY DEF CreateArgument
  <2>2. Call((IF is_direct THEN <<>> ELSE <<s>>) \o <<t>>)
    BY <1>1 DEF CreateLeConnection
  <2> HIDE DEF arg
  <2>3. CallTask(t) /\ t \in Task /\ CallTask(s) /\ s \in Task
    BY <2>1, CallTasks DEF AddressTask
  <2> HIDE DEF s, t
  <2>4. CASE is_direct
    <3>1. <<>> \o <<t>> = <<t>>
      OBVIOUS
    <3> QED
      BY <2>2, <2>3, <2>4, <3>1, CallOne
  <2>5. CASE ~is_direct
    <3>1. Call(<<s>> \o <<t>>)
      BY <2>2, <2>5
    <3> QED
      BY <2>3, <3>1, CallTwo
  <2> QED
    BY <2>4, <2>5
<1>2. ASSUME NEW do \in AddressTask, NEW a \in Address, Call(<<<<do, a>>>>)
      PROVE  Inv'
  <2> DEFINE t == <<do, a>>
  <2>1. CallTask(t) /\ t \in Task
    BY CallTasks
  <2>2. Call(<<t>>)
    BY <1>2
  <2> HIDE DEF t
  <2> QED
    BY <2>1, <2>2, CallOne
<1>3. ASSUME NEW do \in PlainTask, Call(<<<<do, NoAddress>>>>)
      PROVE  Inv'
  <2> DEFINE t == <<do, NoAddress>>
  <2>1. CallTask(t) /\ t \in Task
    BY CallTasks
  <2>2. Call(<<t>>)
    BY <1>3
  <2> HIDE DEF t
  <2> QED
    BY <2>1, <2>2, CallOne
<1>4. ASSUME NEW a \in Address,
             \/ CancelLeConnectAndRemoveFromBackgroundList(a)
             \/ RemoveFromBackgroundList(a) \/ RemoveDeviceFromFilterAcceptList(a)
      PROVE  Inv'
  BY <1>2, <1>4 DEF CancelLeConnectAndRemoveFromBackgroundList, RemoveFromBackgroundList,
                    RemoveDeviceFromFilterAcceptList, AddressTask
<1>5. ASSUME \/ ClearFilterAcceptList \/ ChangeAclResolvingList \/ ClearAclResolvingList
             \/ SetPrivacyPolicyForInitiatorAddress
      PROVE  Inv'
  BY <1>3, <1>5 DEF ClearFilterAcceptList, ChangeAclResolvingList, ClearAclResolvingList,
                    SetPrivacyPolicyForInitiatorAddress, PlainTask
<1> QED
  BY <1>1, <1>4, <1>5 DEF AclManager

(***************************************************************************)
(* The scanning manager registers and unregisters.                         *)
(***************************************************************************)
LEMMA StopScanFields ==
  ASSUME NEW h \in Host
  PROVE  /\ stop_scan(h) \in Host /\ stop_scan(h).scan_registered = h.scan_registered
         /\ stop_scan(h).scan_paused = h.scan_paused /\ stop_scan(h).tasks = h.tasks
         /\ stop_scan(h).cached_commands = h.cached_commands
         /\ stop_scan(h).registered_clients = h.registered_clients
<1> DEFINE g == [h EXCEPT !.is_scanning = FALSE]
           c == <<"scan_off", NoAddress>>
           k == enqueue_command(g, c)
<1>1. c \in SentCommand
  BY DEF SentCommand, UseName
<1>2. /\ g \in Host /\ g.scan_registered = h.scan_registered /\ g.scan_paused = h.scan_paused
      /\ g.tasks = h.tasks /\ g.cached_commands = h.cached_commands
      /\ g.registered_clients = h.registered_clients
  BY DEF Host
<1>3. stop_scan(h) = IF ~h.is_scanning THEN h ELSE k
  BY DEF stop_scan
<1> HIDE DEF g, c
<1>4. Append(g.commands, c) \in Seq(SentCommand)
  BY <1>1, <1>2 DEF Host
<1>5. /\ k \in Host /\ k.scan_registered = g.scan_registered /\ k.scan_paused = g.scan_paused
      /\ k.tasks = g.tasks /\ k.cached_commands = g.cached_commands
      /\ k.registered_clients = g.registered_clients
  BY <1>2, <1>4 DEF enqueue_command, Host
<1> HIDE DEF k
<1> QED
  BY <1>2, <1>3, <1>5

(* A scanner that does not scan posts its registration, or its end. *)
Listing(h, b, paused) == [h EXCEPT !.scan_registered = b, !.scan_paused = paused]

LEMMA ScanListed ==
  ASSUME NEW h, NEW x, NEW y, All(h, x), ~h.is_scanning, NEW b \in BOOLEAN,
         NEW paused \in BOOLEAN, NEW do \in {"register_client", "unregister_client"},
         x.raced \subseteq y.raced, y.asked = x.asked, y.pushing = x.pushing,
         y.posting = x.posting, "scanner" \in y.raced
           \/ Form(Post(Listing(h, b, paused), <<do, "scanner">>), y.mode)
  PROVE  All(Post(Listing(h, b, paused), <<do, "scanner">>), y)
<1> DEFINE z == [raced |-> y.raced \cup {"scanner"}, asked |-> x.asked, pushing |-> x.pushing,
                 posting |-> x.posting, mode |-> x.mode]
           g == Listing(h, b, paused)
           t == <<do, "scanner">>
           k == Post(g, t)
<1>1. /\ z.raced = y.raced \cup {"scanner"} /\ z.asked = x.asked /\ z.pushing = x.pushing
      /\ z.posting = x.posting /\ z.mode = x.mode
  OBVIOUS
<1> HIDE DEF z
<1>2. h \in Host /\ x.asked \subseteq h.timeout_alarms
  BY DEF All
<1>3. All(h, z)
  BY <1>1, <1>2, Weaker
<1>4. /\ g \in Host /\ g.timeout_alarms = h.timeout_alarms /\ g.connect_list = h.connect_list
      /\ g.registered_clients = h.registered_clients /\ g.cached_commands = h.cached_commands
      /\ g.is_scanning = h.is_scanning /\ g.tasks = h.tasks /\ g.commands = h.commands
      /\ g.connectability_state = h.connectability_state
  BY <1>2 DEF Listing, Host
<1> HIDE DEF g
<1>5. Attempt(g)
  BY <1>3, <1>4 DEF All, Attempt, OneAttempt, AnswersInOrder, StateFits, Attempting, Cancelled,
                    CancelledBefore
<1>6. "le" \notin z.raced => Held(g)
  BY <1>3, <1>4 DEF All, Held, Cancelled, CancelledBefore
<1>7. ScanState(g)
  BY <1>3, <1>4 DEF All, ScanState, ScanOff, ScanOffBefore
<1>8. Stream(g, z) = Stream(h, z)
  BY <1>4 DEF Stream
<1>9. All(g, z)
  BY <1>1, <1>2, <1>3, <1>4, <1>5, <1>6, <1>7, <1>8 DEF All
<1>10. t \in Task /\ t[1] \notin {"central", "on_create_connection", "push_command"}
  BY DEF Task, ClientTask, Client
<1>11. Inert(t, z)
  BY <1>1, <1>10 DEF Inert
<1> HIDE DEF t
<1>12. All(k, z)
  BY <1>9, <1>10, <1>11, PostInert
<1>13. k.commands = h.commands
  BY <1>4, <1>10, PostFields
<1>14. "scanner" \notin y.raced => ScanHeld(k)
  BY <1>13 DEF All, ScanHeld, ScanOffBefore
<1>15. "scanner" \in y.raced \/ Form(k, y.mode)
  BY DEF g, t
<1> HIDE DEF k
<1>16. Stream(k, y) = Stream(k, z)
  BY <1>1 DEF Stream
<1>17. All(k, y)
  BY <1>1, <1>12, <1>14, <1>15, <1>16 DEF All
<1> QED
  BY <1>17 DEF k, g, t

(* The same as what scan does: the order of stopping and posting is       *)
(* immaterial.                                                             *)
LEMMA scan_Cases ==
  ASSUME NEW h \in Host
  PROVE  /\ h.scan_registered =>
              scan(h, FALSE) = Post(Listing(stop_scan(h), FALSE, FALSE),
                                    <<"unregister_client", "scanner">>)
         /\ ~h.scan_registered => scan(h, FALSE) = stop_scan(h)
         /\ scan(h, TRUE) = start_scan(stop_scan(h))
<1>1. scan(h, TRUE) = start_scan(stop_scan(h))
  BY DEF scan
<1>2. ~h.scan_registered => scan(h, FALSE) = stop_scan(h)
  BY DEF scan
<1>3. ASSUME h.scan_registered
      PROVE  scan(h, FALSE) = Post(Listing(stop_scan(h), FALSE, FALSE),
                                   <<"unregister_client", "scanner">>)
  <2> DEFINE t == <<"unregister_client", "scanner">>
             c == <<"scan_off", NoAddress>>
             g == Post([h EXCEPT !.scan_registered = FALSE, !.scan_paused = FALSE], t)
  <2>1. scan(h, FALSE) = IF ~g.is_scanning THEN g
                         ELSE enqueue_command([g EXCEPT !.is_scanning = FALSE], c)
    BY <1>3 DEF scan, stop_scan
  <2>2. stop_scan(h) = IF ~h.is_scanning THEN h
                       ELSE enqueue_command([h EXCEPT !.is_scanning = FALSE], c)
    BY DEF stop_scan
  <2> HIDE DEF t, c
  <2>3. g.is_scanning = h.is_scanning
    BY DEF Post, Host
  <2>4. CASE ~h.is_scanning
    BY <2>1, <2>2, <2>3, <2>4 DEF Listing, t
  <2>5. CASE h.is_scanning
    <3>1. enqueue_command([g EXCEPT !.is_scanning = FALSE], c)
            = Post(Listing(enqueue_command([h EXCEPT !.is_scanning = FALSE], c), FALSE, FALSE), t)
      BY DEF Listing, Post, enqueue_command, Host
    <3> QED
      BY <2>1, <2>2, <2>3, <2>5, <3>1 DEF t
  <2> QED
    BY <2>4, <2>5
<1> QED
  BY <1>1, <1>2, <1>3

(* The scanner registers with the handler at rest. *)
LEMMA StartRegisters ==
  ASSUME NEW h, NEW x, NEW y, All(h, x), ~h.is_scanning, ~h.scan_paused, ~h.scan_registered,
         x.raced = y.raced, y.asked = x.asked, y.pushing = x.pushing, y.posting = x.posting,
         Form(Post(Listing(h, TRUE, FALSE), <<"register_client", "scanner">>), y.mode)
  PROVE  All(start_scan(h), y)
<1> DEFINE t == <<"register_client", "scanner">>
           c == <<"scan_on", NoAddress>>
           p == Post(Listing(h, TRUE, FALSE), t)
           f == [Post(h, t) EXCEPT !.is_scanning = TRUE, !.scan_registered = TRUE]
           g == enqueue_command(f, c)
<1>1. start_scan(h) = g
  BY DEF start_scan
<1>2. All(p, y)
  BY ScanListed
<1>3. c \in SentCommand /\ t \in Task
  BY DEF SentCommand, UseName, Task, ClientTask, Client
<1>4. h \in Host /\ p \in Host /\ p.commands \in Seq(SentCommand)
  BY <1>2 DEF All, Host
<1> HIDE DEF c, t
<1>5. f = [p EXCEPT !.is_scanning = TRUE]
  BY <1>4 DEF Listing, Post, Host
<1>6. p.scan_registered /\ ~p.scan_paused
  BY <1>4 DEF Listing, Post, Host
<1> HIDE DEF p, f
<1>7. Append(p.commands, c) \in Seq(SentCommand)
  BY <1>3, <1>4
<1>8. /\ g \in Host /\ g.commands = Append(p.commands, c) /\ g.is_scanning
      /\ g.tasks = p.tasks /\ g.connectability_state = p.connectability_state
      /\ g.registered_clients = p.registered_clients /\ g.cached_commands = p.cached_commands
      /\ g.scan_registered = p.scan_registered /\ g.scan_paused = p.scan_paused
      /\ g.connect_list = p.connect_list /\ g.timeout_alarms = p.timeout_alarms
  BY <1>4, <1>5, <1>7 DEF enqueue_command, Host
<1>9. Sent(p, g, c)
  BY <1>3, <1>4, <1>8 DEF Sent
<1> HIDE DEF g
<1>10. c = <<"scan_on", NoAddress>>
  BY DEF c
<1>11. All(g, y)
  BY <1>2, <1>6, <1>8, <1>9, <1>10, ScanSent
<1> QED
  BY <1>1, <1>11

(* What scan does to the registration. *)
LEMMA ScanRegisters ==
  ASSUME NEW h \in Host
  PROVE  /\ scan(h, FALSE).scan_registered = FALSE
         /\ scan(h, TRUE).scan_registered = (h.scan_registered \/ ~h.scan_paused)
<1>1. /\ stop_scan(h) \in Host /\ stop_scan(h).scan_registered = h.scan_registered
      /\ stop_scan(h).scan_paused = h.scan_paused
  BY StopScanFields
<1>2. scan(h, FALSE).scan_registered = FALSE
  BY <1>1, scan_Cases DEF Listing, Post, Host
<1> DEFINE k == stop_scan(h)
<1> HIDE DEF k
<1>3. start_scan(k).scan_registered = (k.scan_registered \/ ~k.scan_paused)
  BY <1>1 DEF start_scan, Post, enqueue_command, Host, k
<1> QED
  BY <1>1, <1>2, <1>3, scan_Cases DEF k, Host

(* The queue of a handler at rest after a closure has been posted. *)
LEMMA OnlyTask ==
  ASSUME NEW g, NEW t, g.tasks = Append(<<>>, t)
  PROVE  g.tasks # <<>> /\ g.tasks[1] = t /\ NotListed(g, 1)
BY DEF NotListed

LEMMA ScanStep ==
  ASSUME Inv, NEW start \in BOOLEAN, Scan(start)
  PROVE  Inv'
<1>1. PICK mode \in {"synced", "pending"} :
           /\ All(host, Knowing(raced, Timed, <<>>, mode)) /\ mode \in Mode
           /\ Knowing(raced, Timed, <<>>, mode) \in Context
           /\ Knowing(raced, Timed, <<>>, mode).raced = raced
           /\ Knowing(raced, Timed, <<>>, mode).asked = Timed
           /\ Knowing(raced, Timed, <<>>, mode).pushing = <<>>
           /\ Knowing(raced, Timed, <<>>, mode).posting = <<>>
           /\ Knowing(raced, Timed, <<>>, mode).mode = mode
  BY InvHere
<1> DEFINE x == Knowing(raced, Timed, <<>>, mode)
           k == stop_scan(host)
           changed == host'.scan_registered # host.scan_registered
<1>2. /\ host' = scan(host, start) /\ Timed' = Timed /\ UNCHANGED controller
      /\ raced' = IF changed /\ ~(Quiet /\ host.cached_commands = <<>>)
                  THEN raced \cup {"scanner"} ELSE raced
      /\ raced \in SUBSET Client /\ Timed \in SUBSET Address
  BY DEF Scan, Inv, Timed, requests
<1>3. raced' \in SUBSET Client /\ raced \subseteq raced'
  BY <1>2 DEF Client
<1>4. host \in Host
  BY <1>1 DEF All
<1>5. All(k, x) /\ ~k.is_scanning
  BY <1>1, stop_scan_All
<1>6. /\ k \in Host /\ k.scan_registered = host.scan_registered /\ k.tasks = host.tasks
      /\ k.scan_paused = host.scan_paused /\ k.cached_commands = host.cached_commands
      /\ k.registered_clients = host.registered_clients
  BY <1>4, StopScanFields
<1> HIDE DEF x, k
<1>7. CASE "scanner" \in raced'
  <2> DEFINE y == Knowing(raced', Timed, <<>>, mode)
  <2>1. /\ y.raced = raced' /\ y.asked = Timed /\ y.pushing = <<>> /\ y.posting = <<>>
        /\ y.mode = mode
    BY <1>1, <1>2, <1>3, KnowingMode
  <2> HIDE DEF y
  <2>2. /\ x.raced = raced /\ x.asked = Timed /\ x.pushing = <<>> /\ x.posting = <<>>
        /\ x.mode = mode /\ Timed \subseteq k.timeout_alarms
    BY <1>1, <1>5 DEF x, All
  <2>3. All(k, y)
    BY <1>3, <1>5, <2>1, <2>2, Weaker
  <2>4. All(start_scan(k), y)
    BY <1>7, <2>1, <2>3, start_scan_All
  <2>5. All(Post(Listing(k, FALSE, FALSE), <<"unregister_client", "scanner">>), y)
    BY <1>5, <1>7, <2>1, <2>3, ScanListed
  <2>6. All(scan(host, start), y)
    BY <1>4, <2>3, <2>4, <2>5, scan_Cases DEF k
  <2>7. All(host', Knowing(raced', Timed', <<>>, mode))
    BY <1>2, <2>6 DEF y
  <2> QED
    BY <1>2, <1>3, <2>7, ControllerIdle
<1>8. CASE "scanner" \notin raced' /\ ~changed
  <2>1. raced' = raced
    BY <1>2, <1>8
  <2>2. start => k.scan_paused \/ k.scan_registered
    BY <1>2, <1>4, <1>6, <1>8, ScanRegisters
  <2>3. start => All(start_scan(k), x)
    BY <1>5, <2>2, start_scan_All
  <2>4. ~start => ~host.scan_registered
    BY <1>2, <1>4, <1>8, ScanRegisters
  <2>5. All(scan(host, start), x)
    BY <1>4, <1>5, <2>3, <2>4, scan_Cases DEF k
  <2>6. All(host', Knowing(raced', Timed', <<>>, mode))
    BY <1>2, <2>1, <2>5 DEF x
  <2> QED
    BY <1>2, <1>3, <2>6, ControllerIdle
<1>9. CASE "scanner" \notin raced' /\ changed
  <2> DEFINE y == Knowing(raced, Timed, <<>>, "pending")
  <2>1. raced' = raced /\ host.tasks = <<>> /\ host.cached_commands = <<>>
    BY <1>2, <1>9 DEF Quiet
  <2>2. Form(host, mode)
    BY <1>1, <1>9, <2>1 DEF All
  <2>3. /\ Synced(host) /\ ScannerState(host) # "WAITING_FOR_PAUSE"
        /\ host.scan_registered <=> ScannerState(host) # Absent
    <3>1. mode = "synced"
      BY <2>1, <2>2 DEF Form, Pending
    <3>2. ~ScannerAcks(host)
      BY <2>1 DEF ScannerAcks
    <3> QED
      BY <2>2, <3>1, <3>2 DEF Form, Synced
  <2>4. /\ y.raced = raced /\ y.asked = Timed /\ y.pushing = <<>> /\ y.posting = <<>>
        /\ y.mode = "pending"
    <3>1. "pending" \in Mode
      BY DEF Mode
    <3> QED
      BY <1>2, <3>1, KnowingMode
  <2> HIDE DEF y
  <2>5. /\ x.raced = raced /\ x.asked = Timed /\ x.pushing = <<>> /\ x.posting = <<>>
    BY <1>1 DEF x
  <2>6. ASSUME NEW b \in BOOLEAN, NEW t \in Task
        PROVE  LET g == Post(Listing(k, b, FALSE), t)
               IN /\ g.tasks # <<>> /\ g.tasks[1] = t /\ NotListed(g, 1)
                  /\ g.scan_registered = b /\ ScannerState(g) = ScannerState(host)
    <3> DEFINE f == Listing(k, b, FALSE)
               g == Post(f, t)
    <3>1. /\ f \in Host /\ f.tasks = <<>> /\ f.scan_registered = b
          /\ f.registered_clients = host.registered_clients
      BY <1>6, <2>1 DEF Listing, Host
    <3> HIDE DEF f
    <3>2. /\ g.tasks = Append(<<>>, t) /\ g.scan_registered = b
          /\ g.registered_clients = host.registered_clients
      BY <3>1, PostFields
    <3> HIDE DEF g
    <3>3. g.tasks # <<>> /\ g.tasks[1] = t /\ NotListed(g, 1)
      BY <3>2, OnlyTask
    <3>4. ScannerState(g) = ScannerState(host)
      BY <3>2 DEF ScannerState
    <3>5. /\ g.tasks # <<>> /\ g.tasks[1] = t /\ NotListed(g, 1)
          /\ g.scan_registered = b /\ ScannerState(g) = ScannerState(host)
      BY <3>2, <3>3, <3>4
    <3> QED
      BY <3>5 DEF g, f
  <2>7. CASE start
    <3> DEFINE t == <<"register_client", "scanner">>
               g == Post(Listing(k, TRUE, FALSE), t)
    <3>1. ~k.scan_registered /\ ~k.scan_paused /\ ScannerState(host) = Absent
      BY <1>2, <1>4, <1>6, <1>9, <2>3, <2>7, ScanRegisters DEF Host
    <3>2. t \in Task
      BY DEF Task, ClientTask, Client
    <3> HIDE DEF t
    <3>3. /\ g.tasks # <<>> /\ g.tasks[1] = t /\ NotListed(g, 1)
          /\ g.scan_registered = TRUE /\ ScannerState(g) = ScannerState(host)
      BY <2>6, <3>2
    <3> HIDE DEF g
    <3>4. Form(g, "pending")
      BY <3>1, <3>3 DEF Form, Pending, Joining, t
    <3>5. All(start_scan(k), y)
      BY <1>5, <2>4, <2>5, <3>1, <3>4, StartRegisters DEF g, t
    <3>6. All(host', Knowing(raced', Timed', <<>>, "pending"))
      BY <1>2, <1>4, <2>1, <2>7, <3>5, scan_Cases DEF y, k
    <3> QED
      BY <1>2, <1>3, <3>6, ControllerIdle
  <2>8. CASE ~start
    <3> DEFINE t == <<"unregister_client", "scanner">>
               g == Post(Listing(k, FALSE, FALSE), t)
    <3>1. host.scan_registered
      BY <1>2, <1>4, <1>9, <2>8, ScanRegisters DEF Host
    <3>2. t \in Task
      BY DEF Task, ClientTask, Client
    <3> HIDE DEF t
    <3>3. /\ g.tasks # <<>> /\ g.tasks[1] = t /\ NotListed(g, 1)
          /\ g.scan_registered = FALSE /\ ScannerState(g) = ScannerState(host)
      BY <2>6, <3>2
    <3> HIDE DEF g
    <3>4. Form(g, "pending")
      BY <2>3, <3>1, <3>3 DEF Form, Pending, Leaving, t
    <3>5. All(g, y)
      BY <1>5, <2>4, <2>5, <3>4, ScanListed DEF g, t
    <3>6. All(host', Knowing(raced', Timed', <<>>, "pending"))
      BY <1>2, <1>4, <2>1, <2>8, <3>1, <3>5, scan_Cases DEF y, k, g, t
    <3> QED
      BY <1>2, <1>3, <3>6, ControllerIdle
  <2> QED
    BY <2>7, <2>8
<1> QED
  BY <1>7, <1>8, <1>9

(***************************************************************************)
(* Events of the controller.                                               *)
(***************************************************************************)
LEMMA PeerStep ==
  ASSUME Inv, NEW a \in Address, NEW event \in {"peripheral", "peripheral_invalid"},
         PeerConnects(a, event) \/ PeerDisconnects(a)
  PROVE  Inv'
<1>1. PICK mode \in {"synced", "pending"} : All(host, Knowing(raced, Timed, <<>>, mode))
  BY InvHere
<1> DEFINE x == Knowing(raced, Timed, <<>>, mode)
<1> HIDE DEF x
<1>2. ASSUME NEW do \in {"peripheral", "peripheral_invalid", "disconnect"}
      PROVE  All(Post(host, <<do, a>>), x)
  <2>1. do \in AddressTask /\ <<do, a>>[1] # "push_command"
    BY DEF AddressTask
  <2> QED
    BY <1>1, <2>1, InertTasks, PostInert DEF x
<1>3. All(host', x)
  BY <1>2 DEF PeerConnects, PeerDisconnects
<1>4. /\ UNCHANGED <<initiating, accept_list, scanning, rejected, raced, Timed>>
      /\ connected' \in SUBSET Address
  BY DEF PeerConnects, PeerDisconnects, Inv, Timed, requests
<1>5. All(host', Knowing(raced', Timed', <<>>, mode))
  BY <1>3, <1>4 DEF x
<1>6. raced' \in SUBSET Client /\ raced \subseteq raced' /\ Timed' \in SUBSET Address
  BY <1>4 DEF Inv
<1> QED
  BY <1>4, <1>5, <1>6, ControllerUnaware

(* An event changes neither what is on its way to the accept list nor how  *)
(* far the registration of the scanner is.                                 *)
Event(t) == t \in Task /\ t[1] # "push_command" /\ NotOfScanner(t)

LEMMA EventPosted ==
  ASSUME NEW h \in Host, NEW t, Event(t), NEW mode, NEW l
  PROVE  /\ Form(h, mode) => Form(Post(h, t), mode)
         /\ Apply(l, PushedBy(Post(h, t).tasks)) = Apply(l, PushedBy(h.tasks))
<1>1. t \in Task /\ NotOfScanner(t) /\ t[1] # "push_command"
  BY DEF Event
<1>2. Form(h, mode) => Form(Post(h, t), mode)
  BY <1>1, PostForm
<1> DEFINE p == PushedBy(h.tasks)
           c == <<"none", NoAddress>>
<1>3. h.tasks \in Seq(Task) /\ Post(h, t).tasks = Append(h.tasks, t)
  BY <1>1, PostFields DEF Host
<1>4. PushedBy(Post(h, t).tasks) = Append(p, c) /\ c \in PushCommand
  BY <1>1, <1>3, PushedByAppend DEF Push, PushCommand
<1>5. p \in Seq(PushCommand)
  BY <1>3, PushedByType
<1>6. c[1] \notin {"add", "remove", "clear"}
  OBVIOUS
<1> HIDE DEF p, c
<1>7. Apply(l, Append(p, c)) = Apply(Apply(l, p), <<c>>)
  BY <1>4, <1>5, ApplyAppend
<1>8. Apply(Apply(l, p), <<c>>) = Apply(l, p)
  BY <1>6, ApplyNone
<1> QED
  BY <1>2, <1>4, <1>7, <1>8 DEF p

(* The invariant when it is put together after a step of the controller. *)
LEMMA ControllerStep ==
  ASSUME Inv, UNCHANGED <<raced, Timed>>, NEW mode \in {"synced", "pending"},
         initiating' \in BOOLEAN, scanning' \in BOOLEAN, accept_list' \in SUBSET Address,
         connected' \in SUBSET Address, rejected' \subseteq raced,
         host' \in Host, host'.timeout_alarms = host.timeout_alarms,
         Attempt(host)', "le" \notin raced => Held(host)', ScanState(host)',
         "scanner" \notin raced => ScanHeld(host)' /\ Form(host', mode),
         "le" \notin rejected' =>
           Apply(Apply(Apply(accept_list', host'.commands), host'.cached_commands),
                 PushedBy(host'.tasks)) = host'.connect_list
  PROVE  Inv'
<1>1. /\ Here(mode)'.raced = raced' /\ Here(mode)'.asked = Timed'
      /\ Here(mode)'.pushing = <<>> /\ Here(mode)'.posting = <<>> /\ Here(mode)'.mode = mode
  BY DEF Here
<1>2. Timed \subseteq host.timeout_alarms /\ raced \subseteq Client /\ Timed \subseteq Address
  BY InvHere DEF All, Inv
<1>3. "le" \notin rejected' => Stream(host, Here(mode))' = host'.connect_list
  <2> DEFINE l == Apply(Apply(accept_list', host'.commands), host'.cached_commands)
             p == PushedBy(host'.tasks)
  <2>1. Stream(host, Here(mode))' = Apply(Apply(Apply(l, <<>>), p), <<>>)
    BY <1>1 DEF Stream
  <2>2. l \in SUBSET Address
    BY ApplyInAddress
  <2> HIDE DEF l, p
  <2>3. Apply(l, <<>>) = l
    BY <2>2, ApplyOne
  <2>4. Apply(l, p) \in SUBSET Address
    BY ApplyInAddress
  <2>5. Apply(Apply(l, p), <<>>) = Apply(l, p)
    BY <2>4, ApplyOne
  <2> QED
    BY <2>1, <2>3, <2>5 DEF l, p
<1>4. All(host, Here(mode))'
  BY <1>1, <1>2, <1>3 DEF All
<1> QED
  BY <1>2, <1>4 DEF Inv

(* What the invariant says of the queues between two steps. *)
LEMMA InvParts ==
  ASSUME Inv
  PROVE  /\ host \in Host /\ Attempt(host) /\ ScanState(host)
         /\ "le" \notin raced => Held(host)
         /\ "scanner" \notin raced => ScanHeld(host)
         /\ initiating \in BOOLEAN /\ scanning \in BOOLEAN /\ accept_list \in SUBSET Address
         /\ connected \in SUBSET Address /\ rejected \subseteq raced /\ raced \in SUBSET Client
         /\ \E mode \in {"synced", "pending"} : "scanner" \notin raced => Form(host, mode)
         /\ "le" \notin rejected =>
              Apply(Apply(Apply(accept_list, host.commands), host.cached_commands),
                    PushedBy(host.tasks)) = host.connect_list
<1>1. PICK mode \in {"synced", "pending"} : All(host, Here(mode))
  BY DEF Inv
<1>2. /\ Here(mode).raced = raced /\ Here(mode).pushing = <<>> /\ Here(mode).posting = <<>>
      /\ Here(mode).mode = mode
  BY DEF Here
<1>3. "le" \notin rejected =>
              Apply(Apply(Apply(accept_list, host.commands), host.cached_commands),
                    PushedBy(host.tasks)) = host.connect_list
  <2> DEFINE l == Apply(Apply(accept_list, host.commands), host.cached_commands)
             p == PushedBy(host.tasks)
  <2>1. Stream(host, Here(mode)) = Apply(Apply(Apply(l, <<>>), p), <<>>)
    BY <1>2 DEF Stream
  <2>2. l \in SUBSET Address
    BY ApplyInAddress
  <2>6. "le" \notin rejected => Stream(host, Here(mode)) = host.connect_list
    BY <1>1 DEF All
  <2> HIDE DEF l, p
  <2>3. Apply(l, <<>>) = l
    BY <2>2, ApplyOne
  <2>4. Apply(l, p) \in SUBSET Address
    BY ApplyInAddress
  <2>5. Apply(Apply(l, p), <<>>) = Apply(l, p)
    BY <2>4, ApplyOne
  <2> QED
    BY <2>1, <2>3, <2>5, <2>6 DEF l, p
<1> QED
  BY <1>1, <1>2, <1>3 DEF Inv, All

(* The positions of a name when a closure has been posted. *)
LEMMA PostAt ==
  ASSUME NEW h \in Host, NEW t \in Task, NEW name
  PROVE  /\ t[1] = name => At(Post(h, t).tasks, name) = At(h.tasks, name) \cup {Len(h.tasks) + 1}
         /\ t[1] # name => At(Post(h, t).tasks, name) = At(h.tasks, name)
         /\ At(h.tasks, name) \subseteq 1 .. Len(h.tasks) /\ Len(h.tasks) \in Nat
         /\ Post(h, t).tasks[Len(h.tasks) + 1] = t
         /\ \A i \in At(h.tasks, name) : Post(h, t).tasks[i] = h.tasks[i]
<1> DEFINE s == h.tasks
<1>1. s \in Seq(Task) /\ Post(h, t).tasks = Append(s, t)
  BY PostFields DEF Host
<1> HIDE DEF s
<1>2. /\ t[1] = name => At(Append(s, t), name) = At(s, name) \cup {Len(s) + 1}
      /\ t[1] # name => At(Append(s, t), name) = At(s, name)
      /\ At(s, name) \subseteq 1 .. Len(s)
  BY <1>1 DEF At
<1>3. \A i \in 1 .. Len(s) : Append(s, t)[i] = s[i]
  BY <1>1
<1>4. Append(s, t)[Len(s) + 1] = t /\ Len(s) \in Nat
  BY <1>1
<1> QED
  BY <1>1, <1>2, <1>3, <1>4 DEF s

(* A peer on the accept list answers. *)
LEMMA ConnectionCompleteStep ==
  ASSUME Inv, NEW a \in Address, NEW status \in {"success", "failed", "invalid_parameters"},
         ConnectionComplete(a, status)
  PROVE  Inv'
<1> DEFINE arg == <<status, a>>
           t == <<"central", arg>>
<1>1. /\ initiating /\ initiating' = FALSE /\ connected' \in SUBSET Address
      /\ host' = Post(host, t)
      /\ UNCHANGED <<accept_list, scanning, rejected, raced, Timed>>
  BY DEF ConnectionComplete, Inv, Timed, requests
<1>2. arg \in CentralArgument
  BY DEF CentralArgument
<1> HIDE DEF arg
<1>3. t \in Task /\ t[1] = "central" /\ Event(t)
  BY <1>2 DEF Task, Event, NotOfScanner
<1> HIDE DEF t
<1>4. /\ host \in Host /\ Attempt(host) /\ ScanState(host)
      /\ "le" \notin raced => Held(host)
      /\ "scanner" \notin raced => ScanHeld(host)
      /\ initiating \in BOOLEAN /\ scanning \in BOOLEAN /\ accept_list \in SUBSET Address
      /\ rejected \subseteq raced
      /\ "le" \notin rejected =>
           Apply(Apply(Apply(accept_list, host.commands), host.cached_commands),
                 PushedBy(host.tasks)) = host.connect_list
  BY InvParts
<1>5. PICK mode \in {"synced", "pending"} : "scanner" \notin raced => Form(host, mode)
  BY InvParts
<1>6. /\ host' \in Host /\ host'.tasks = Append(host.tasks, t)
      /\ host'.registered_clients = host.registered_clients
      /\ host'.cached_commands = host.cached_commands
      /\ host'.scan_registered = host.scan_registered /\ host'.scan_paused = host.scan_paused
      /\ host'.is_scanning = host.is_scanning /\ host'.commands = host.commands
      /\ host'.connectability_state = host.connectability_state
      /\ host'.connect_list = host.connect_list /\ host'.timeout_alarms = host.timeout_alarms
  BY <1>1, <1>3, <1>4, PostFields
<1>7. /\ "scanner" \notin raced => Form(host', mode)
      /\ \A l : Apply(l, PushedBy(host'.tasks)) = Apply(l, PushedBy(host.tasks))
  BY <1>1, <1>3, <1>4, <1>5, EventPosted
<1>8. \A n : CancelledBefore(host, n) => CancelledBefore(host, n)'
  BY <1>1, <1>6 DEF CancelledBefore, Off
<1>9. "le" \notin raced => Held(host)'
  BY <1>4, <1>6, <1>8 DEF Held, Cancelled
<1>10. ScanState(host)' /\ ("scanner" \notin raced => ScanHeld(host)')
  BY <1>1, <1>4, <1>6 DEF ScanState, ScanHeld, ScanOff, ScanOffBefore
<1>11. Attempt(host)'
  <2>1. At(host.commands, "create") = {} /\ At(host.tasks, "central") = {}
    BY <1>1, <1>4 DEF Attempt, OneAttempt
  <2>2. host.tasks \in Seq(Task) /\ t \in Task
    BY <1>3, <1>4 DEF Host
  <2>3. /\ At(host'.tasks, "central") = {Len(host.tasks) + 1}
        /\ At(host'.tasks, "on_create_connection") = At(host.tasks, "on_create_connection")
        /\ At(host.tasks, "on_create_connection") \subseteq 1 .. Len(host.tasks)
        /\ Len(host.tasks) \in Nat
    <3>1. /\ At(host'.tasks, "central") = At(host.tasks, "central") \cup {Len(host.tasks) + 1}
          /\ At(host'.tasks, "on_create_connection") = At(host.tasks, "on_create_connection")
      <4>1. At(Post(host, t).tasks, "central") = At(host.tasks, "central") \cup {Len(host.tasks) + 1}
        BY <1>3, <1>4, PostAt
      <4>2. At(Post(host, t).tasks, "on_create_connection") = At(host.tasks, "on_create_connection")
        <5>1. t[1] # "on_create_connection" /\ t \in Task /\ host \in Host
          BY <1>3, <1>4
        <5> QED
          BY <5>1, PostAt
      <4> QED
        BY <1>1, <4>1, <4>2
    <3>2. /\ At(host.tasks, "on_create_connection") \subseteq 1 .. Len(host.tasks)
          /\ Len(host.tasks) \in Nat
      BY <1>3, <1>4, PostAt
    <3> QED
      BY <2>1, <3>1, <3>2
  <2>4. \A i \in At(host.tasks, "on_create_connection") : host'.tasks[i] = host.tasks[i]
    <3>1. \A i \in At(host.tasks, "on_create_connection") : Post(host, t).tasks[i] = host.tasks[i]
      BY <1>3, <1>4, PostAt
    <3> QED
      BY <1>1, <3>1
  <2>5. OneAttempt(host)'
    BY <1>1, <1>6, <2>1, <2>3 DEF OneAttempt
  <2>6. AnswersInOrder(host)'
    <3>1. ASSUME NEW i \in At(host.tasks, "on_create_connection")
          PROVE  /\ host'.tasks[i][2] = "success"
                 /\ \E j \in At(host'.tasks, "central") : i < j
      <4>1. host.tasks[i][2] = "success"
        BY <1>4 DEF Attempt, AnswersInOrder
      <4>2. i < Len(host.tasks) + 1
        BY <2>3
      <4> QED
        BY <2>3, <2>4, <4>1, <4>2
    <3> QED
      BY <2>3, <3>1 DEF AnswersInOrder
  <2>7. StateFits(host)'
    BY <1>1, <1>4, <1>6, <1>8, <2>1, <2>3 DEF Attempt, StateFits, Attempting, Cancelled
  <2> QED
    BY <2>5, <2>6, <2>7 DEF Attempt
<1> QED
  BY <1>1, <1>4, <1>6, <1>7, <1>9, <1>10, <1>11, ControllerStep

(***************************************************************************)
(* The controller executes a command.                                      *)
(***************************************************************************)

(* g is the state without the command, before the events are posted. *)
Sending(h) == [h EXCEPT !.commands = Tail(@)]

LEMMA SendingFields ==
  ASSUME NEW h \in Host, h.commands # <<>>
  PROVE  /\ Sending(h) \in Host /\ Sending(h).commands = Tail(h.commands)
         /\ Sending(h).tasks = h.tasks /\ Sending(h).registered_clients = h.registered_clients
         /\ Sending(h).cached_commands = h.cached_commands
         /\ Sending(h).scan_registered = h.scan_registered
         /\ Sending(h).scan_paused = h.scan_paused /\ Sending(h).is_scanning = h.is_scanning
         /\ Sending(h).connectability_state = h.connectability_state
         /\ Sending(h).connect_list = h.connect_list
         /\ Sending(h).timeout_alarms = h.timeout_alarms
<1>1. Tail(h.commands) \in Seq(SentCommand)
  BY DEF Host
<1>2. Sending(h) \in Host
  BY <1>1 DEF Sending, Host
<1>3. Sending(h).commands = Tail(h.commands)
  BY DEF Sending, Host
<1> QED
  BY <1>2, <1>3 DEF Sending

LEMMA EventsPosted ==
  ASSUME NEW h \in Host, h.commands # <<>>, NEW s \in Task, NEW t \in Task
  PROVE  /\ [h EXCEPT !.commands = Tail(@), !.tasks = @ \o <<>>] = Sending(h)
         /\ [h EXCEPT !.commands = Tail(@), !.tasks = @ \o <<t>>] = Post(Sending(h), t)
         /\ [h EXCEPT !.commands = Tail(@), !.tasks = @ \o <<s, t>>]
              = Post(Post(Sending(h), s), t)
<1>1. h.tasks \in Seq(Task)
  BY DEF Host
<1>2. /\ h.tasks \o <<>> = h.tasks /\ h.tasks \o <<t>> = Append(h.tasks, t)
      /\ h.tasks \o <<s, t>> = Append(Append(h.tasks, s), t)
  BY <1>1, AppendIsConcat, ConcatEmptySeq
<1>3. [h EXCEPT !.commands = Tail(@), !.tasks = @ \o <<>>] = Sending(h)
  BY <1>2 DEF Sending, Host
<1>4. [h EXCEPT !.commands = Tail(@), !.tasks = @ \o <<t>>] = Post(Sending(h), t)
  BY <1>2 DEF Sending, Post, Host
<1>5. [h EXCEPT !.commands = Tail(@), !.tasks = @ \o <<s, t>>] = Post(Post(Sending(h), s), t)
  BY <1>2 DEF Sending, Post, Host
<1> QED
  BY <1>3, <1>4, <1>5

(* What a command leaves as it is: all but the attempt to connect. *)
LEMMA CommandTaken ==
  ASSUME Inv, host.commands # <<>>, NEW n, n = host.commands[1][1],
         host' \in Host, host'.commands = Tail(host.commands),
         host'.registered_clients = host.registered_clients,
         host'.scan_registered = host.scan_registered, host'.scan_paused = host.scan_paused,
         host'.is_scanning = host.is_scanning,
         initiating' = (n = "create" \/ (initiating /\ n # "cancel")),
         scanning' = (n = "scan_on" \/ (scanning /\ n # "scan_off"))
  PROVE  /\ Cancelled(host) => Cancelled(host)'
         /\ "le" \notin raced => Held(host)'
         /\ ScanState(host)'
         /\ "scanner" \notin raced => ScanHeld(host)'
<1>1. /\ host \in Host /\ ScanState(host)
      /\ "le" \notin raced => Held(host)
      /\ "scanner" \notin raced => ScanHeld(host)
      /\ initiating \in BOOLEAN /\ scanning \in BOOLEAN
  BY InvParts
<1>2. host.commands \in Seq(SentCommand)
  BY <1>1 DEF Host
<1>3. /\ DOMAIN host'.commands = 1 .. (Len(host.commands) - 1)
      /\ Len(host'.commands) + 1 = Len(host.commands) /\ Len(host.commands) \in Nat \ {0}
      /\ \A i \in DOMAIN host'.commands : /\ i \in Nat /\ i >= 1 /\ i + 1 \in DOMAIN host.commands
                                          /\ host'.commands[i] = host.commands[i + 1]
  BY <1>2
<1>4. ASSUME NEW i \in Nat, i >= 1
      PROVE  /\ CancelledBefore(host, i + 1) => CancelledBefore(host, i)'
             /\ ScanOffBefore(host, i + 1) => ScanOffBefore(host, i)'
  <2>1. CancelledBefore(host, i + 1) => CancelledBefore(host, i)'
    BY <1>1, <1>2, <1>4, OffTail DEF CancelledBefore
  <2>2. ScanOffBefore(host, i + 1) => ScanOffBefore(host, i)'
    BY <1>1, <1>2, <1>4, OffTail DEF ScanOffBefore
  <2> QED
    BY <2>1, <2>2
<1>5. Cancelled(host) => Cancelled(host)'
  BY <1>3, <1>4 DEF Cancelled
<1>6. ScanOff(host) => ScanOff(host)'
  BY <1>3, <1>4 DEF ScanOff
<1>7. "le" \notin raced => Held(host)'
  <2> SUFFICES ASSUME "le" \notin raced PROVE Held(host)'
    OBVIOUS
  <2>1. ASSUME NEW i \in DOMAIN host'.commands, Changing(host'.commands[i])
        PROVE  CancelledBefore(host, i)'
    BY <1>1, <1>3, <1>4, <2>1 DEF Held
  <2> QED
    BY <1>1, <1>5, <2>1 DEF Held
<1>8. ScanState(host)'
  BY <1>1, <1>6 DEF ScanState
<1>9. "scanner" \notin raced => ScanHeld(host)'
  BY <1>1, <1>3, <1>4 DEF ScanHeld
<1> QED
  BY <1>5, <1>7, <1>8, <1>9

(* The accept list when a command has been executed. *)
LEMMA StreamTaken ==
  ASSUME Inv, host.commands # <<>>, host'.commands = Tail(host.commands),
         host'.cached_commands = host.cached_commands, host'.connect_list = host.connect_list,
         \A l : Apply(l, PushedBy(host'.tasks)) = Apply(l, PushedBy(host.tasks)),
         "le" \notin rejected,
         accept_list' = Apply(accept_list, <<host.commands[1]>>)
  PROVE  Apply(Apply(Apply(accept_list', host'.commands), host'.cached_commands),
               PushedBy(host'.tasks)) = host'.connect_list
<1>1. host.commands \in Seq(SentCommand) /\ Head(host.commands) = host.commands[1]
  BY InvParts DEF Host
<1>2. Apply(accept_list, host.commands)
        = Apply(Apply(accept_list, <<host.commands[1]>>), Tail(host.commands))
  BY <1>1, ApplyTail
<1>3. Apply(accept_list', host'.commands) = Apply(accept_list, host.commands)
  BY <1>2
<1> QED
  BY <1>3, InvParts

LEMMA CreateTaken ==
  ASSUME NEW s \in Seq(SentCommand), s # <<>>, \A i, j \in At(s, "create") : i = j
  PROVE  /\ s[1][1] = "create" => At(Tail(s), "create") = {}
         /\ s[1][1] # "create" => (At(Tail(s), "create") = {} <=> At(s, "create") = {})
         /\ \A i, j \in At(Tail(s), "create") : i = j
<1> DEFINE A == At(s, "create")
           B == At(Tail(s), "create")
<1>1. /\ \A i \in Nat : i \in B <=> i >= 1 /\ i + 1 \in A
      /\ A \subseteq 1 .. Len(s) /\ B \subseteq Nat
      /\ s[1][1] = "create" <=> 1 \in A
      /\ Len(s) \in Nat /\ \A i, j \in A : i = j
  BY AtTail
<1> HIDE DEF A, B
<1>2. ASSUME 1 \in A PROVE B = {}
  <2> SUFFICES ASSUME NEW i \in B PROVE FALSE
    OBVIOUS
  <2>1. i + 1 = 1 /\ i \in Nat /\ i >= 1
    BY <1>1, <1>2
  <2> QED
    BY <2>1
<1>3. ASSUME 1 \notin A PROVE B = {} <=> A = {}
  <2>1. ASSUME NEW i \in A PROVE i - 1 \in B
    <3>1. i \in Nat /\ i > 1 /\ i - 1 \in Nat /\ i - 1 >= 1 /\ (i - 1) + 1 = i
      BY <1>1, <1>3
    <3> QED
      BY <1>1, <2>1, <3>1
  <2> QED
    BY <1>1, <2>1
<1>4. ASSUME NEW i \in B, NEW j \in B PROVE i = j
  <2>1. i \in Nat /\ j \in Nat /\ i + 1 = j + 1
    BY <1>1, <1>4
  <2> QED
    BY <2>1
<1> QED
  BY <1>1, <1>2, <1>3, <1>4 DEF A, B

(* A command that does not begin or end an attempt. *)
LEMMA AttemptKept ==
  ASSUME Inv, host.commands # <<>>, host'.commands = Tail(host.commands),
         host.commands[1][1] # "create", initiating' = initiating,
         Cancelled(host) => Cancelled(host)',
         host'.connectability_state = host.connectability_state,
         At(host'.tasks, "central") = At(host.tasks, "central"),
         At(host'.tasks, "on_create_connection") = At(host.tasks, "on_create_connection"),
         \A i \in At(host.tasks, "on_create_connection") : host'.tasks[i] = host.tasks[i]
  PROVE  Attempt(host)'
<1>1. Attempt(host) /\ host \in Host /\ host.commands \in Seq(SentCommand)
  BY InvParts DEF Host
<1>2. /\ At(host'.commands, "create") = {} <=> At(host.commands, "create") = {}
      /\ \A i, j \in At(host'.commands, "create") : i = j
  <2>1. \A i, j \in At(host.commands, "create") : i = j
    BY <1>1 DEF Attempt, OneAttempt
  <2>2. /\ At(Tail(host.commands), "create") = {} <=> At(host.commands, "create") = {}
        /\ \A i, j \in At(Tail(host.commands), "create") : i = j
    BY <1>1, <2>1, CreateTaken
  <2> QED
    BY <2>2
<1>3. OneAttempt(host)'
  BY <1>1, <1>2 DEF Attempt, OneAttempt
<1>4. AnswersInOrder(host)'
  BY <1>1 DEF Attempt, AnswersInOrder
<1>5. StateFits(host)'
  BY <1>1, <1>2 DEF Attempt, StateFits, Attempting
<1> QED
  BY <1>3, <1>4, <1>5 DEF Attempt

(* The state when a command has been taken and one event posted. *)
LEMMA OneEvent ==
  ASSUME NEW h \in Host, h.commands # <<>>, NEW t, Event(t), NEW g, g = Post(Sending(h), t)
  PROVE  /\ g \in Host /\ g.commands = Tail(h.commands) /\ g.tasks = Append(h.tasks, t)
         /\ g.registered_clients = h.registered_clients
         /\ g.cached_commands = h.cached_commands
         /\ g.scan_registered = h.scan_registered /\ g.scan_paused = h.scan_paused
         /\ g.is_scanning = h.is_scanning
         /\ g.connectability_state = h.connectability_state
         /\ g.connect_list = h.connect_list /\ g.timeout_alarms = h.timeout_alarms
         /\ \A mode : Form(h, mode) => Form(g, mode)
         /\ \A l : Apply(l, PushedBy(g.tasks)) = Apply(l, PushedBy(h.tasks))
<1> DEFINE f == Sending(h)
<1>1. /\ f \in Host /\ f.commands = Tail(h.commands) /\ f.tasks = h.tasks
      /\ f.registered_clients = h.registered_clients
      /\ f.cached_commands = h.cached_commands
      /\ f.scan_registered = h.scan_registered /\ f.scan_paused = h.scan_paused
      /\ f.is_scanning = h.is_scanning
      /\ f.connectability_state = h.connectability_state
      /\ f.connect_list = h.connect_list /\ f.timeout_alarms = h.timeout_alarms
  BY SendingFields
<1> HIDE DEF f
<1>2. g = Post(f, t) /\ t \in Task
  BY DEF f, Event
<1>3. /\ g \in Host /\ g.commands = f.commands /\ g.tasks = Append(f.tasks, t)
      /\ g.registered_clients = f.registered_clients
      /\ g.cached_commands = f.cached_commands
      /\ g.scan_registered = f.scan_registered /\ g.scan_paused = f.scan_paused
      /\ g.is_scanning = f.is_scanning
      /\ g.connectability_state = f.connectability_state
      /\ g.connect_list = f.connect_list /\ g.timeout_alarms = f.timeout_alarms
  BY <1>1, <1>2, PostFields
<1>4. ASSUME NEW mode, Form(h, mode) PROVE Form(g, mode)
  <2>1. Form(f, mode)
    BY <1>1, <1>4, SameForm
  <2> QED
    BY <1>1, <1>2, <2>1, EventPosted
<1>5. \A l : Apply(l, PushedBy(g.tasks)) = Apply(l, PushedBy(h.tasks))
  BY <1>1, <1>2, EventPosted
<1> QED
  BY <1>1, <1>3, <1>4, <1>5

(* The positions of a name in the queue of closures after an event. *)
LEMMA EventAt ==
  ASSUME NEW s \in Seq(Task), NEW t \in Task, NEW name \in {"central", "on_create_connection"}
  PROVE  /\ t[1] = name => At(Append(s, t), name) = At(s, name) \cup {Len(s) + 1}
         /\ t[1] # name => At(Append(s, t), name) = At(s, name)
         /\ At(s, name) \subseteq 1 .. Len(s) /\ Len(s) \in Nat
         /\ Append(s, t)[Len(s) + 1] = t
         /\ \A i \in At(s, name) : Append(s, t)[i] = s[i]
<1>1. /\ t[1] = name => At(Append(s, t), name) = At(s, name) \cup {Len(s) + 1}
      /\ t[1] # name => At(Append(s, t), name) = At(s, name)
      /\ At(s, name) \subseteq 1 .. Len(s)
  BY DEF At
<1>2. \A i \in 1 .. Len(s) : Append(s, t)[i] = s[i]
  OBVIOUS
<1>3. Append(s, t)[Len(s) + 1] = t /\ Len(s) \in Nat
  OBVIOUS
<1> QED
  BY <1>1, <1>2, <1>3

LEMMA ExecuteCreateStep ==
  ASSUME Inv, ExecuteCreate
  PROVE  Inv'
<1> DEFINE t == <<"on_create_connection", "success">>
<1>1. /\ host \in Host /\ host.commands # <<>> /\ host.commands \in Seq(SentCommand)
      /\ Attempt(host) /\ command = host.commands[1] /\ host.commands[1][1] = "create"
      /\ rejected \subseteq raced /\ accept_list \in SUBSET Address
      /\ connected \in SUBSET Address /\ scanning \in BOOLEAN
  BY InvParts DEF ExecuteCreate, command, Host
<1>2. 1 \in At(host.commands, "create")
  BY <1>1, AtTail
<1>3. ~initiating /\ At(host.tasks, "central") = {} /\ Attempting(host)
  BY <1>1, <1>2 DEF Attempt, OneAttempt, Attempting
<1>4. /\ host' = [host EXCEPT !.commands = Tail(@), !.tasks = @ \o <<t>>]
      /\ initiating' = TRUE /\ rejected' = rejected
      /\ UNCHANGED <<accept_list, connected, scanning, raced, Timed>>
  BY <1>3 DEF ExecuteCreate, WithEvents, Unbusy, Timed, requests
<1>5. Event(t) /\ t \in Task /\ t[1] = "on_create_connection" /\ t[2] = "success"
  BY DEF Event, Task, AnswerTask, NotOfScanner
<1> HIDE DEF t
<1>6. host' = Post(Sending(host), t)
  BY <1>1, <1>4, <1>5, EventsPosted
<1>7. /\ host' \in Host /\ host'.commands = Tail(host.commands)
      /\ host'.tasks = Append(host.tasks, t)
      /\ host'.registered_clients = host.registered_clients
      /\ host'.cached_commands = host.cached_commands
      /\ host'.scan_registered = host.scan_registered /\ host'.scan_paused = host.scan_paused
      /\ host'.is_scanning = host.is_scanning
      /\ host'.connectability_state = host.connectability_state
      /\ host'.connect_list = host.connect_list /\ host'.timeout_alarms = host.timeout_alarms
      /\ \A mode : Form(host, mode) => Form(host', mode)
      /\ \A l : Apply(l, PushedBy(host'.tasks)) = Apply(l, PushedBy(host.tasks))
  BY <1>1, <1>5, <1>6, OneEvent
<1>8. /\ Cancelled(host) => Cancelled(host)'
      /\ "le" \notin raced => Held(host)'
      /\ ScanState(host)'
      /\ "scanner" \notin raced => ScanHeld(host)'
  BY <1>1, <1>4, <1>7, CommandTaken
<1>9. Attempt(host)'
  <2>1. At(host'.commands, "create") = {}
    <3>1. \A i, j \in At(host.commands, "create") : i = j
      BY <1>1 DEF Attempt, OneAttempt
    <3> QED
      BY <1>1, <1>7, <3>1, CreateTaken
  <2> DEFINE s == host.tasks
  <2>7. s \in Seq(Task) /\ t \in Task /\ host'.tasks = Append(s, t)
    BY <1>1, <1>5, <1>7 DEF Host
  <2> HIDE DEF s
  <2>2. At(host'.tasks, "central") = {}
    <3>1. t[1] # "central"
      BY <1>5
    <3>2. At(Append(s, t), "central") = At(s, "central")
      BY <2>7, <3>1, EventAt
    <3> QED
      BY <1>3, <2>7, <3>2 DEF s
  <2>3. /\ At(host'.tasks, "on_create_connection")
             = At(host.tasks, "on_create_connection") \cup {Len(host.tasks) + 1}
        /\ host'.tasks[Len(host.tasks) + 1] = t
        /\ \A i \in At(host.tasks, "on_create_connection") : host'.tasks[i] = host.tasks[i]
    <3>1. /\ At(Append(s, t), "on_create_connection")
               = At(s, "on_create_connection") \cup {Len(s) + 1}
          /\ Append(s, t)[Len(s) + 1] = t
          /\ \A i \in At(s, "on_create_connection") : Append(s, t)[i] = s[i]
      BY <1>5, <2>7, EventAt
    <3> QED
      BY <2>7, <3>1 DEF s
  <2>4. OneAttempt(host)'
    BY <1>4, <2>1, <2>2 DEF OneAttempt
  <2>5. AnswersInOrder(host)'
    BY <1>1, <1>4, <1>5, <2>3 DEF Attempt, AnswersInOrder
  <2>6. StateFits(host)'
    BY <1>1, <1>3, <1>4, <1>7, <1>8, <2>3 DEF Attempt, StateFits, Attempting
  <2> QED
    BY <2>4, <2>5, <2>6 DEF Attempt
<1>10. "le" \notin rejected' =>
         Apply(Apply(Apply(accept_list', host'.commands), host'.cached_commands),
               PushedBy(host'.tasks)) = host'.connect_list
  <2>1. host.commands[1][1] \notin {"add", "remove", "clear"}
    BY <1>1
  <2>2. accept_list' = Apply(accept_list, <<host.commands[1]>>)
    BY <1>1, <1>4, <2>1, ApplyOne
  <2> QED
    BY <1>1, <1>4, <1>7, <2>2, StreamTaken
<1>11. PICK mode \in {"synced", "pending"} : "scanner" \notin raced => Form(host, mode)
  BY InvParts
<1> QED
  BY <1>1, <1>4, <1>7, <1>8, <1>9, <1>10, <1>11, ControllerStep

LEMMA ExecuteScanStep ==
  ASSUME Inv, ExecuteScan
  PROVE  Inv'
<1>1. /\ host \in Host /\ host.commands # <<>> /\ host.commands \in Seq(SentCommand)
      /\ Attempt(host) /\ command = host.commands[1]
      /\ host.commands[1][1] \in {"scan_on", "scan_off"}
      /\ rejected \subseteq raced /\ accept_list \in SUBSET Address
      /\ connected \in SUBSET Address /\ scanning \in BOOLEAN /\ initiating \in BOOLEAN
  BY InvParts DEF ExecuteScan, command, Host
<1>2. /\ host' = [host EXCEPT !.commands = Tail(@), !.tasks = @ \o <<>>]
      /\ scanning' = (host.commands[1][1] = "scan_on")
      /\ UNCHANGED <<initiating, accept_list, connected, rejected, raced, Timed>>
  BY <1>1 DEF ExecuteScan, WithEvents, Unbusy, Timed, requests
<1>3. host' = Sending(host)
  <2>1. host.tasks \in Seq(Task)
    BY <1>1 DEF Host
  <2>2. host.tasks \o <<>> = host.tasks
    BY <2>1, ConcatEmptySeq
  <2> QED
    BY <1>1, <1>2, <2>2 DEF Sending, Host
<1>4. /\ host' \in Host /\ host'.commands = Tail(host.commands) /\ host'.tasks = host.tasks
      /\ host'.registered_clients = host.registered_clients
      /\ host'.cached_commands = host.cached_commands
      /\ host'.scan_registered = host.scan_registered /\ host'.scan_paused = host.scan_paused
      /\ host'.is_scanning = host.is_scanning
      /\ host'.connectability_state = host.connectability_state
      /\ host'.connect_list = host.connect_list /\ host'.timeout_alarms = host.timeout_alarms
  BY <1>1, <1>3, SendingFields
<1>5. /\ Cancelled(host) => Cancelled(host)'
      /\ "le" \notin raced => Held(host)'
      /\ ScanState(host)'
      /\ "scanner" \notin raced => ScanHeld(host)'
  <2>1. /\ initiating' = (host.commands[1][1] = "create"
                            \/ (initiating /\ host.commands[1][1] # "cancel"))
        /\ scanning' = (host.commands[1][1] = "scan_on"
                          \/ (scanning /\ host.commands[1][1] # "scan_off"))
    BY <1>1, <1>2
  <2> QED
    BY <1>1, <1>4, <2>1, CommandTaken
<1>6. Attempt(host)'
  BY <1>1, <1>2, <1>4, <1>5, AttemptKept
<1>7. "le" \notin rejected' =>
         Apply(Apply(Apply(accept_list', host'.commands), host'.cached_commands),
               PushedBy(host'.tasks)) = host'.connect_list
  <2>1. host.commands[1][1] \notin {"add", "remove", "clear"}
    BY <1>1
  <2>2. accept_list' = Apply(accept_list, <<host.commands[1]>>)
    BY <1>1, <1>2, <2>1, ApplyOne
  <2> QED
    BY <1>1, <1>2, <1>4, <2>2, StreamTaken
<1>8. PICK mode \in {"synced", "pending"} : "scanner" \notin raced => Form(host, mode)
  BY InvParts
<1>9. "scanner" \notin raced => Form(host', mode)
  BY <1>4, <1>8, SameForm
<1> QED
  BY <1>1, <1>2, <1>4, <1>5, <1>6, <1>7, <1>9, ControllerStep

(* The positions of the answers after an event that is none. *)
LEMMA NoAnswer ==
  ASSUME NEW s \in Seq(Task), NEW t \in Task, t[1] \notin {"central", "on_create_connection"}
  PROVE  /\ At(Append(s, t), "central") = At(s, "central")
         /\ At(Append(s, t), "on_create_connection") = At(s, "on_create_connection")
         /\ \A i \in At(s, "on_create_connection") : Append(s, t)[i] = s[i]
<1>1. t[1] # "central" /\ t[1] # "on_create_connection"
  OBVIOUS
<1>2. At(Append(s, t), "central") = At(s, "central")
  BY <1>1, EventAt
<1>3. /\ At(Append(s, t), "on_create_connection") = At(s, "on_create_connection")
      /\ \A i \in At(s, "on_create_connection") : Append(s, t)[i] = s[i]
  BY <1>1, EventAt
<1> QED
  BY <1>2, <1>3

(* There is nothing to cancel. *)
LEMMA CancelNothing ==
  ASSUME Inv, NEW a, ExecuteCancel(a), ~initiating
  PROVE  Inv'
<1> DEFINE t == <<"on_cancel_complete", "disallowed">>
<1>1. /\ host \in Host /\ host.commands # <<>> /\ host.commands \in Seq(SentCommand)
      /\ Attempt(host) /\ command = host.commands[1] /\ host.commands[1][1] = "cancel"
      /\ rejected \subseteq raced /\ accept_list \in SUBSET Address
      /\ connected \in SUBSET Address /\ scanning \in BOOLEAN /\ initiating \in BOOLEAN
  BY InvParts DEF ExecuteCancel, command, Host
<1>2. /\ host' = [host EXCEPT !.commands = Tail(@), !.tasks = @ \o <<t>>]
      /\ initiating' = FALSE /\ initiating' = initiating
      /\ UNCHANGED <<accept_list, connected, scanning, rejected, raced, Timed>>
  BY <1>1 DEF ExecuteCancel, WithEvents, Unbusy, Timed, requests
<1>3. Event(t) /\ t \in Task /\ t[1] \notin {"central", "on_create_connection"}
  BY DEF Event, Task, AnswerTask, NotOfScanner
<1> HIDE DEF t
<1>4. host' = Post(Sending(host), t)
  BY <1>1, <1>2, <1>3, EventsPosted
<1>5. /\ host' \in Host /\ host'.commands = Tail(host.commands)
      /\ host'.tasks = Append(host.tasks, t)
      /\ host'.registered_clients = host.registered_clients
      /\ host'.cached_commands = host.cached_commands
      /\ host'.scan_registered = host.scan_registered /\ host'.scan_paused = host.scan_paused
      /\ host'.is_scanning = host.is_scanning
      /\ host'.connectability_state = host.connectability_state
      /\ host'.connect_list = host.connect_list /\ host'.timeout_alarms = host.timeout_alarms
      /\ \A mode : Form(host, mode) => Form(host', mode)
      /\ \A l : Apply(l, PushedBy(host'.tasks)) = Apply(l, PushedBy(host.tasks))
  <2> DEFINE g == Post(Sending(host), t)
  <2>1. /\ g \in Host /\ g.commands = Tail(host.commands) /\ g.tasks = Append(host.tasks, t)
        /\ g.registered_clients = host.registered_clients
        /\ g.cached_commands = host.cached_commands
        /\ g.scan_registered = host.scan_registered /\ g.scan_paused = host.scan_paused
        /\ g.is_scanning = host.is_scanning
        /\ g.connectability_state = host.connectability_state
        /\ g.connect_list = host.connect_list /\ g.timeout_alarms = host.timeout_alarms
    BY <1>1, <1>3, OneEvent
  <2>2. ASSUME NEW mode, Form(host, mode) PROVE Form(g, mode)
    BY <1>1, <1>3, <2>2, OneEvent
  <2>3. ASSUME NEW l PROVE Apply(l, PushedBy(g.tasks)) = Apply(l, PushedBy(host.tasks))
    <3>1. /\ Sending(host) \in Host /\ Sending(host).tasks = host.tasks
      BY <1>1, SendingFields
    <3>2. Apply(l, PushedBy(Post(Sending(host), t).tasks))
            = Apply(l, PushedBy(Sending(host).tasks))
      BY <1>3, <3>1, EventPosted
    <3> QED
      BY <3>1, <3>2
  <2> HIDE DEF g
  <2>4. host' = g
    BY <1>4 DEF g
  <2> QED
    BY <2>1, <2>2, <2>3, <2>4
<1>6. /\ Cancelled(host) => Cancelled(host)'
      /\ "le" \notin raced => Held(host)'
      /\ ScanState(host)'
      /\ "scanner" \notin raced => ScanHeld(host)'
  <2>1. /\ initiating' = (host.commands[1][1] = "create"
                            \/ (initiating /\ host.commands[1][1] # "cancel"))
        /\ scanning' = (host.commands[1][1] = "scan_on"
                          \/ (scanning /\ host.commands[1][1] # "scan_off"))
    BY <1>1, <1>2
  <2> QED
    BY <1>1, <1>5, <2>1, CommandTaken
<1>7. Attempt(host)'
  <2> DEFINE s == host.tasks
  <2>1. s \in Seq(Task) /\ host'.tasks = Append(s, t)
    BY <1>1, <1>5 DEF Host
  <2> HIDE DEF s
  <2>2. /\ At(Append(s, t), "central") = At(s, "central")
        /\ At(Append(s, t), "on_create_connection") = At(s, "on_create_connection")
        /\ \A i \in At(s, "on_create_connection") : Append(s, t)[i] = s[i]
    BY <1>3, <2>1, NoAnswer
  <2>3. /\ At(host'.tasks, "central") = At(host.tasks, "central")
        /\ At(host'.tasks, "on_create_connection") = At(host.tasks, "on_create_connection")
        /\ \A i \in At(host.tasks, "on_create_connection") : host'.tasks[i] = host.tasks[i]
    BY <2>1, <2>2 DEF s
  <2> QED
    BY <1>1, <1>2, <1>5, <1>6, <2>3, AttemptKept
<1>8. "le" \notin rejected' =>
         Apply(Apply(Apply(accept_list', host'.commands), host'.cached_commands),
               PushedBy(host'.tasks)) = host'.connect_list
  <2>1. host.commands[1][1] \notin {"add", "remove", "clear"}
    BY <1>1
  <2>2. accept_list' = Apply(accept_list, <<host.commands[1]>>)
    BY <1>1, <1>2, <2>1, ApplyOne
  <2> QED
    BY <1>1, <1>2, <1>5, <2>2, StreamTaken
<1>9. PICK mode \in {"synced", "pending"} : "scanner" \notin raced => Form(host, mode)
  BY InvParts
<1> QED
  BY <1>1, <1>2, <1>5, <1>6, <1>7, <1>8, <1>9, ControllerStep

(* The attempt is cancelled, and ends with an event of its own. *)
LEMMA CancelAttempt ==
  ASSUME Inv, NEW a \in accept_list \cup {NoAddress}, ExecuteCancel(a), initiating
  PROVE  Inv'
<1> DEFINE u == <<"on_cancel_complete", "success">>
           arg == <<"unknown_connection", a>>
           t == <<"central", arg>>
<1>1. /\ host \in Host /\ host.commands # <<>> /\ host.commands \in Seq(SentCommand)
      /\ Attempt(host) /\ command = host.commands[1] /\ host.commands[1][1] = "cancel"
      /\ rejected \subseteq raced /\ accept_list \in SUBSET Address
      /\ connected \in SUBSET Address /\ scanning \in BOOLEAN /\ initiating \in BOOLEAN
  BY InvParts DEF ExecuteCancel, command, Host
<1>2. /\ host' = [host EXCEPT !.commands = Tail(@), !.tasks = @ \o <<u, t>>]
      /\ initiating' = FALSE
      /\ UNCHANGED <<accept_list, connected, scanning, rejected, raced, Timed>>
  BY DEF ExecuteCancel, WithEvents, Unbusy, Timed, requests
<1>3. Event(u) /\ u \in Task /\ u[1] \notin {"central", "on_create_connection"}
  BY DEF Event, Task, AnswerTask, NotOfScanner
<1>4. arg \in CentralArgument
  BY <1>1 DEF CentralArgument
<1> HIDE DEF u, arg
<1>5. Event(t) /\ t \in Task /\ t[1] = "central"
  BY <1>4 DEF Event, Task, NotOfScanner
<1> HIDE DEF t
<1>0. PICK g : g = Post(Sending(host), u)
  OBVIOUS
<1>6. host' = Post(g, t)
  BY <1>0, <1>1, <1>2, <1>3, <1>5, EventsPosted
<1>7. /\ g \in Host /\ g.commands = Tail(host.commands)
      /\ g.tasks = Append(host.tasks, u)
      /\ g.registered_clients = host.registered_clients
      /\ g.cached_commands = host.cached_commands
      /\ g.scan_registered = host.scan_registered /\ g.scan_paused = host.scan_paused
      /\ g.is_scanning = host.is_scanning
      /\ g.connectability_state = host.connectability_state
      /\ g.connect_list = host.connect_list /\ g.timeout_alarms = host.timeout_alarms
      /\ \A mode : Form(host, mode) => Form(g, mode)
      /\ \A l : Apply(l, PushedBy(g.tasks)) = Apply(l, PushedBy(host.tasks))
  <2>1. host \in Host /\ host.commands # <<>> /\ Event(u) /\ g = Post(Sending(host), u)
    BY <1>0, <1>1, <1>3
  <2>5. ASSUME NEW mode, Form(host, mode) PROVE Form(g, mode)
    BY <2>1, <2>5, OneEvent
  <2>2. ASSUME NEW l PROVE Apply(l, PushedBy(g.tasks)) = Apply(l, PushedBy(host.tasks))
    <3>1. /\ Sending(host) \in Host /\ Sending(host).tasks = host.tasks
      BY <2>1, SendingFields
    <3>2. Apply(l, PushedBy(Post(Sending(host), u).tasks))
            = Apply(l, PushedBy(Sending(host).tasks))
      BY <2>1, <3>1, EventPosted
    <3> QED
      BY <2>1, <3>1, <3>2
  <2>3. /\ g \in Host /\ g.commands = Tail(host.commands) /\ g.tasks = Append(host.tasks, u)
        /\ g.registered_clients = host.registered_clients
        /\ g.cached_commands = host.cached_commands
    BY <2>1, OneEvent
  <2>4. /\ g.scan_registered = host.scan_registered /\ g.scan_paused = host.scan_paused
        /\ g.is_scanning = host.is_scanning
        /\ g.connectability_state = host.connectability_state
        /\ g.connect_list = host.connect_list /\ g.timeout_alarms = host.timeout_alarms
    BY <2>1, OneEvent
  <2> QED
    BY <2>2, <2>3, <2>4, <2>5
<1>8. /\ host' \in Host /\ host'.commands = g.commands
      /\ host'.tasks = Append(g.tasks, t)
      /\ host'.registered_clients = g.registered_clients
      /\ host'.cached_commands = g.cached_commands
      /\ host'.scan_registered = g.scan_registered /\ host'.scan_paused = g.scan_paused
      /\ host'.is_scanning = g.is_scanning
      /\ host'.connectability_state = g.connectability_state
      /\ host'.connect_list = g.connect_list /\ host'.timeout_alarms = g.timeout_alarms
  BY <1>5, <1>6, <1>7, PostFields
<1>9. /\ \A mode : Form(host, mode) => Form(host', mode)
      /\ \A l : Apply(l, PushedBy(host'.tasks)) = Apply(l, PushedBy(host.tasks))
  <2>1. ASSUME NEW mode, Form(g, mode) PROVE Form(Post(g, t), mode)
    BY <1>5, <1>7, <2>1, EventPosted
  <2>2. ASSUME NEW l
        PROVE  Apply(l, PushedBy(Post(g, t).tasks)) = Apply(l, PushedBy(g.tasks))
    BY <1>5, <1>7, EventPosted
  <2> QED
    BY <1>6, <1>7, <2>1, <2>2
<1>10. /\ Cancelled(host) => Cancelled(host)'
       /\ "le" \notin raced => Held(host)'
       /\ ScanState(host)'
       /\ "scanner" \notin raced => ScanHeld(host)'
  <2>1. /\ initiating' = (host.commands[1][1] = "create"
                            \/ (initiating /\ host.commands[1][1] # "cancel"))
        /\ scanning' = (host.commands[1][1] = "scan_on"
                          \/ (scanning /\ host.commands[1][1] # "scan_off"))
    BY <1>1, <1>2
  <2> QED
    BY <1>1, <1>7, <1>8, <2>1, CommandTaken
<1>11. Attempt(host)'
  <2> DEFINE s == host.tasks
             r == Append(s, u)
  <2>1. s \in Seq(Task) /\ r \in Seq(Task) /\ host'.tasks = Append(r, t) /\ Len(r) = Len(s) + 1
        /\ Len(s) \in Nat
    BY <1>1, <1>3, <1>7, <1>8 DEF Host
  <2>2. At(host.commands, "create") = {} /\ At(s, "central") = {}
    BY <1>1 DEF Attempt, OneAttempt
  <2> HIDE DEF s
  <2>3. /\ At(r, "central") = At(s, "central")
        /\ At(r, "on_create_connection") = At(s, "on_create_connection")
        /\ \A i \in At(s, "on_create_connection") : r[i] = s[i]
    BY <1>3, <2>1, NoAnswer
  <2> HIDE DEF r
  <2>4. At(Append(r, t), "central") = At(r, "central") \cup {Len(r) + 1}
    BY <1>5, <2>1, EventAt
  <2>5. /\ At(Append(r, t), "on_create_connection") = At(r, "on_create_connection")
        /\ At(r, "on_create_connection") \subseteq 1 .. Len(r) /\ Len(r) \in Nat
        /\ \A i \in At(r, "on_create_connection") : Append(r, t)[i] = r[i]
    <3>1. t[1] # "on_create_connection"
      BY <1>5
    <3> QED
      BY <1>5, <2>1, <3>1, EventAt
  <2>6. /\ At(host'.tasks, "central") = {Len(r) + 1}
        /\ At(host'.tasks, "on_create_connection") = At(host.tasks, "on_create_connection")
        /\ \A i \in At(host.tasks, "on_create_connection") :
             host'.tasks[i] = host.tasks[i] /\ i < Len(r) + 1
    BY <2>1, <2>2, <2>3, <2>4, <2>5 DEF s
  <2>7. At(host'.commands, "create") = {}
    <3>1. /\ \A i, j \in At(host.commands, "create") : i = j
          /\ host.commands[1][1] # "create"
      BY <1>1, <2>2
    <3>2. At(Tail(host.commands), "create") = {}
      BY <1>1, <2>2, <3>1, CreateTaken
    <3> QED
      BY <1>7, <1>8, <3>2
  <2>8. OneAttempt(host)'
    BY <1>2, <2>6, <2>7 DEF OneAttempt
  <2>9. AnswersInOrder(host)'
    BY <1>1, <2>6 DEF Attempt, AnswersInOrder
  <2>10. StateFits(host)'
    BY <1>1, <1>7, <1>8, <1>10, <2>2, <2>6 DEF Attempt, StateFits, Attempting
  <2> QED
    BY <2>8, <2>9, <2>10 DEF Attempt
<1>12. "le" \notin rejected' =>
         Apply(Apply(Apply(accept_list', host'.commands), host'.cached_commands),
               PushedBy(host'.tasks)) = host'.connect_list
  <2>1. host.commands[1][1] \notin {"add", "remove", "clear"}
    BY <1>1
  <2>2. accept_list' = Apply(accept_list, <<host.commands[1]>>)
    BY <1>1, <1>2, <2>1, ApplyOne
  <2> QED
    BY <1>1, <1>2, <1>7, <1>8, <1>9, <2>2, StreamTaken
<1>13. PICK mode \in {"synced", "pending"} : "scanner" \notin raced => Form(host, mode)
  BY InvParts
<1>14. "scanner" \notin raced => Form(host', mode)
  BY <1>9, <1>13
<1> QED
  BY <1>1, <1>2, <1>7, <1>8, <1>10, <1>11, <1>12, <1>14, ControllerStep

(* The commands for the controller by what they do to the accept list. *)
LEMMA SentCases ==
  ASSUME NEW c \in SentCommand
  PROVE  \/ \E a \in Address : c = <<"add", a>>
         \/ \E a \in Address : c = <<"remove", a>>
         \/ c = <<"clear", NoAddress>>
         \/ c[1] \notin {"add", "remove", "clear"}
<1>1. CASE c \in {"add", "remove"} \X Address
  BY <1>1
<1>2. CASE c \in {"clear"} \X {NoAddress}
  BY <1>2
<1>3. CASE c \in (ResolvingName \cup UseName \cup {"set_random_address"}) \X {NoAddress}
  BY <1>3 DEF ResolvingName, UseName
<1> QED
  BY <1>1, <1>2, <1>3 DEF SentCommand, ListCommand

(* A list, or the address, is changed. *)
LEMMA ExecuteListStep ==
  ASSUME Inv, ExecuteList
  PROVE  Inv'
<1> DEFINE t == <<"OnCommandComplete", NoAddress>>
           c == host.commands[1]
           busy == initiating \/ (scanning /\ c[1] \notin {"add", "remove", "clear"})
<1>1. /\ host \in Host /\ host.commands # <<>> /\ host.commands \in Seq(SentCommand)
      /\ Attempt(host) /\ command = c /\ c[1] \notin UseName /\ c \in SentCommand
      /\ rejected \subseteq raced /\ accept_list \in SUBSET Address
      /\ connected \in SUBSET Address /\ scanning \in BOOLEAN /\ initiating \in BOOLEAN
  BY InvParts DEF ExecuteList, command, Host, UseName
<1>2. /\ host' = [host EXCEPT !.commands = Tail(@), !.tasks = @ \o <<t>>]
      /\ rejected' = rejected \cup {d \in Client : busy /\ (d = "le") = initiating}
      /\ accept_list' = CASE busy -> accept_list
                          [] c[1] = "add" -> accept_list \cup {c[2]}
                          [] c[1] = "remove" -> accept_list \ {c[2]}
                          [] c[1] = "clear" -> {}
                          [] OTHER -> accept_list
      /\ UNCHANGED <<initiating, connected, scanning, raced, Timed>>
  BY <1>1 DEF ExecuteList, WithEvents, Unbusy, Timed, requests
<1>3. Event(t) /\ t \in Task /\ t[1] \notin {"central", "on_create_connection"}
  BY DEF Event, Task, PlainTask, NotOfScanner
<1> HIDE DEF t
<1>4. host' = Post(Sending(host), t)
  BY <1>1, <1>2, <1>3, EventsPosted
<1>5. /\ host' \in Host /\ host'.commands = Tail(host.commands)
      /\ host'.tasks = Append(host.tasks, t)
      /\ host'.registered_clients = host.registered_clients
      /\ host'.cached_commands = host.cached_commands
      /\ host'.scan_registered = host.scan_registered /\ host'.scan_paused = host.scan_paused
      /\ host'.is_scanning = host.is_scanning
      /\ host'.connectability_state = host.connectability_state
      /\ host'.connect_list = host.connect_list /\ host'.timeout_alarms = host.timeout_alarms
      /\ \A mode : Form(host, mode) => Form(host', mode)
      /\ \A l : Apply(l, PushedBy(host'.tasks)) = Apply(l, PushedBy(host.tasks))
  BY <1>1, <1>3, <1>4, OneEvent
<1>6. /\ Cancelled(host) => Cancelled(host)'
      /\ "le" \notin raced => Held(host)'
      /\ ScanState(host)'
      /\ "scanner" \notin raced => ScanHeld(host)'
  <2>1. /\ initiating' = (c[1] = "create" \/ (initiating /\ c[1] # "cancel"))
        /\ scanning' = (c[1] = "scan_on" \/ (scanning /\ c[1] # "scan_off"))
    BY <1>1, <1>2 DEF UseName
  <2> QED
    BY <1>1, <1>5, <2>1, CommandTaken
<1>7. Attempt(host)'
  <2> DEFINE s == host.tasks
  <2>1. s \in Seq(Task) /\ host'.tasks = Append(s, t)
    BY <1>1, <1>5 DEF Host
  <2> HIDE DEF s
  <2>2. /\ At(Append(s, t), "central") = At(s, "central")
        /\ At(Append(s, t), "on_create_connection") = At(s, "on_create_connection")
        /\ \A i \in At(s, "on_create_connection") : Append(s, t)[i] = s[i]
    BY <1>3, <2>1, NoAnswer
  <2>3. /\ At(host'.tasks, "central") = At(host.tasks, "central")
        /\ At(host'.tasks, "on_create_connection") = At(host.tasks, "on_create_connection")
        /\ \A i \in At(host.tasks, "on_create_connection") : host'.tasks[i] = host.tasks[i]
    BY <2>1, <2>2 DEF s
  <2>4. host.commands[1][1] # "create"
    BY <1>1 DEF UseName
  <2> QED
    BY <1>1, <1>2, <1>5, <1>6, <2>3, <2>4, AttemptKept
<1>8. 1 \in DOMAIN host.commands
  BY <1>1
<1>9. initiating => "le" \in raced
  <2> SUFFICES ASSUME initiating, "le" \notin raced PROVE FALSE
    OBVIOUS
  <2>1. CancelledBefore(host, 1)
    BY <1>1, <1>8, InvParts DEF Held, Changing
  <2> QED
    BY <1>1, <2>1, OffAtHead DEF CancelledBefore
<1>10. scanning /\ c[1] \notin {"add", "remove", "clear"} => "scanner" \in raced
  <2> SUFFICES ASSUME scanning, c[1] \notin {"add", "remove", "clear"}, "scanner" \notin raced
               PROVE  FALSE
    OBVIOUS
  <2>1. ScanOffBefore(host, 1)
    BY <1>1, <1>8, InvParts DEF ScanHeld, ChangingAddress, Changing
  <2> QED
    BY <1>1, <2>1, OffAtHead DEF ScanOffBefore
<1>11. rejected' \subseteq raced
  BY <1>1, <1>2, <1>9, <1>10 DEF Client
<1>12. /\ accept_list' \in SUBSET Address
       /\ "le" \notin rejected' => accept_list' = Apply(accept_list, <<c>>)
  <2>1. \/ \E a \in Address : c = <<"add", a>>
        \/ \E a \in Address : c = <<"remove", a>>
        \/ c = <<"clear", NoAddress>>
        \/ c[1] \notin {"add", "remove", "clear"}
    BY <1>1, SentCases
  <2>0. "le" \notin rejected' => ~busy \/ ~initiating
    BY <1>1, <1>2 DEF Client
  <2> HIDE DEF c
  <2>2. ASSUME NEW a \in Address, c = <<"add", a>>
        PROVE  /\ accept_list' \in SUBSET Address
               /\ "le" \notin rejected' => accept_list' = Apply(accept_list, <<c>>)
    <3>1. Apply(accept_list, <<c>>) = accept_list \cup {a} /\ c[1] = "add" /\ c[2] = a
      BY <1>1, <2>2, ApplyOne
    <3> QED
      BY <1>1, <1>2, <2>0, <3>1
  <2>3. ASSUME NEW a \in Address, c = <<"remove", a>>
        PROVE  /\ accept_list' \in SUBSET Address
               /\ "le" \notin rejected' => accept_list' = Apply(accept_list, <<c>>)
    <3>1. Apply(accept_list, <<c>>) = accept_list \ {a} /\ c[1] = "remove" /\ c[2] = a
      BY <1>1, <2>3, ApplyOne
    <3> QED
      BY <1>1, <1>2, <2>0, <3>1
  <2>4. CASE c = <<"clear", NoAddress>>
    <3>1. Apply(accept_list, <<c>>) = {} /\ c[1] = "clear"
      BY <1>1, <2>4, ApplyOne
    <3> QED
      BY <1>1, <1>2, <2>0, <3>1
  <2>5. CASE c[1] \notin {"add", "remove", "clear"}
    <3>1. Apply(accept_list, <<c>>) = accept_list
      BY <1>1, <2>5, ApplyOne
    <3>2. accept_list' = accept_list
      BY <1>2, <2>5
    <3> QED
      BY <1>1, <3>1, <3>2
  <2> QED
    BY <2>1, <2>2, <2>3, <2>4, <2>5
<1>13. "le" \notin rejected' =>
         Apply(Apply(Apply(accept_list', host'.commands), host'.cached_commands),
               PushedBy(host'.tasks)) = host'.connect_list
  <2>1. "le" \notin rejected' => "le" \notin rejected
    BY <1>2
  <2> QED
    BY <1>1, <1>5, <1>12, <2>1, StreamTaken
<1>14. PICK mode \in {"synced", "pending"} : "scanner" \notin raced => Form(host, mode)
  BY InvParts
<1> QED
  BY <1>1, <1>2, <1>5, <1>6, <1>7, <1>11, <1>12, <1>13, <1>14, ControllerStep

(***************************************************************************)
(* The invariant.                                                          *)
(***************************************************************************)
LEMMA InvInit == Init => Inv
<1> SUFFICES ASSUME Init PROVE Inv
  OBVIOUS
<1>1. /\ initiating = FALSE /\ accept_list = {} /\ connected = {} /\ scanning = FALSE
      /\ rejected = {} /\ raced = {} /\ Timed = {}
  BY DEF Init, Timed
<1>2. /\ host \in Host /\ host.timeout_alarms = {} /\ host.connect_list = {}
      /\ host.connectability_state = "DISARMED" /\ host.cached_commands = <<>>
      /\ host.registered_clients = [c \in Client |-> Absent]
      /\ host.scan_registered = FALSE /\ host.scan_paused = FALSE /\ host.is_scanning = FALSE
      /\ host.tasks \in {<<>>, <<<<"resume_registered_clients", "le">>>>}
      /\ host.commands \in {<<>>, <<<<"set_random_address", NoAddress>>>>}
  <2>1. PICK arm \in BOOLEAN, policy \in {"USE_PUBLIC_ADDRESS", "USE_RESOLVABLE_ADDRESS"} :
          host = [registered_clients |-> [c \in Client |-> Absent],
                  address_policy |-> policy,
                  cached_commands |-> <<>>, rotation_alarm |-> FALSE,
                  scan_registered |-> FALSE, scan_paused |-> FALSE,
                  is_scanning |-> FALSE, scan_on_resume |-> FALSE,
                  connectability_state |-> "DISARMED", pause_connection |-> FALSE,
                  arm_on_resume |-> arm, address_manager_registered |-> FALSE,
                  ready_to_unregister |-> FALSE, connecting_le |-> {},
                  direct_connections |-> {}, background_connections |-> {},
                  connect_list |-> {}, connections |-> {}, timeout_alarms |-> {},
                  tasks |-> IF policy = "USE_PUBLIC_ADDRESS"
                            THEN <<<<"resume_registered_clients", "le">>>> ELSE <<>>,
                  commands |-> IF policy = "USE_PUBLIC_ADDRESS" THEN <<>>
                               ELSE <<<<"set_random_address", NoAddress>>>>]
    BY DEF Init
  <2>2. <<"resume_registered_clients", "le">> \in Task
    BY DEF Task, PlainTask
  <2>3. <<"set_random_address", NoAddress>> \in SentCommand
    BY DEF SentCommand
  <2>4. /\ host.tasks \in {<<>>, <<<<"resume_registered_clients", "le">>>>}
        /\ host.commands \in {<<>>, <<<<"set_random_address", NoAddress>>>>}
    BY <2>1
  <2>5. host.tasks \in Seq(Task) /\ host.commands \in Seq(SentCommand)
    <3>1. ASSUME NEW S, NEW d \in S, NEW s, s \in {<<>>, <<d>>} PROVE s \in Seq(S)
      <4>1. <<>> \in Seq(S) /\ <<d>> \in Seq(S)
        OBVIOUS
      <4>2. s = <<>> \/ s = <<d>>
        BY <3>1
      <4> QED
        BY <4>1, <4>2
    <3> QED
      BY <2>2, <2>3, <2>4, <3>1
  <2>6. /\ host.registered_clients \in [Client -> ClientStates \cup {Absent}]
        /\ host.connectability_state \in ConnectabilityState
        /\ host.cached_commands \in Seq(CachedCommand)
    BY <2>1 DEF ConnectabilityState
  <2>7. host \in Host
    BY <2>1, <2>5, <2>6 DEF Host
  <2> QED
    BY <2>1, <2>4, <2>7
<1>3. /\ \A i \in DOMAIN host.tasks : host.tasks[i][1] = "resume_registered_clients"
      /\ \A i \in DOMAIN host.commands : host.commands[i][1] = "set_random_address"
      /\ DOMAIN host.tasks \subseteq Nat /\ DOMAIN host.commands \subseteq Nat
  BY <1>2
<1>4. \A name \in UseName : At(host.commands, name) = {}
  BY <1>3 DEF At, UseName
<1>5. At(host.tasks, "central") = {} /\ At(host.tasks, "on_create_connection") = {}
  BY <1>3 DEF At
<1>6. \A n : CancelledBefore(host, n) /\ ScanOffBefore(host, n)
  BY <1>1, <1>4 DEF CancelledBefore, ScanOffBefore, Off, UseName
<1>7. Attempt(host)
  BY <1>1, <1>2, <1>4, <1>5
     DEF Attempt, OneAttempt, AnswersInOrder, StateFits, Attempting, UseName
<1>8. Held(host) /\ ScanState(host) /\ ScanHeld(host)
  BY <1>2, <1>6 DEF Held, Cancelled, ScanState, ScanOff, ScanHeld
<1>9. Form(host, "synced")
  <2>1. ScannerState(host) = Absent
    BY <1>2 DEF ScannerState, Client
  <2>2. NotListed(host, 0)
    BY <1>3 DEF NotListed
  <2> QED
    BY <1>2, <2>1, <2>2 DEF Form, Synced, Absent
<1>10. Stream(host, Here("synced")) = {}
  <2>1. Here("synced").pushing = <<>> /\ Here("synced").posting = <<>>
    BY DEF Here
  <2>2. ASSUME NEW s, \A i \in DOMAIN s : s[i][1] \notin {"add", "remove", "clear"}
        PROVE  Apply({}, s) = {}
    BY <2>2 DEF Apply, Changes
  <2>3. \A i \in DOMAIN PushedBy(host.tasks) :
          PushedBy(host.tasks)[i][1] \notin {"add", "remove", "clear"}
    BY <1>3 DEF PushedBy
  <2>4. /\ Apply({}, host.commands) = {} /\ Apply({}, <<>>) = {}
        /\ Apply({}, PushedBy(host.tasks)) = {}
    BY <1>3, <2>2, <2>3
  <2> QED
    BY <1>1, <1>2, <2>1, <2>4 DEF Stream
<1>11. All(host, Here("synced"))
  BY <1>1, <1>2, <1>7, <1>8, <1>9, <1>10 DEF All, Here
<1> QED
  BY <1>1, <1>11 DEF Inv

LEMMA InvStutter == Inv /\ UNCHANGED vars => Inv'
<1> SUFFICES ASSUME Inv, UNCHANGED vars PROVE Inv'
  OBVIOUS
<1>1. /\ host' = host /\ initiating' = initiating /\ accept_list' = accept_list
      /\ connected' = connected /\ scanning' = scanning /\ rejected' = rejected
      /\ raced' = raced /\ Timed' = Timed
  BY DEF vars, controller, requests, Timed
<1>2. PICK mode \in {"synced", "pending"} : "scanner" \notin raced => Form(host, mode)
  BY InvParts
<1>3. /\ Attempt(host)' /\ ("le" \notin raced => Held(host)') /\ ScanState(host)'
      /\ "scanner" \notin raced => ScanHeld(host)' /\ Form(host', mode)
  <2>1. Attempt(host)' <=> Attempt(host)
    BY <1>1 DEF Attempt, OneAttempt, AnswersInOrder, StateFits, Attempting, Cancelled,
                CancelledBefore
  <2>2. Held(host)' <=> Held(host)
    BY <1>1 DEF Held, Cancelled, CancelledBefore
  <2>3. (ScanState(host)' <=> ScanState(host)) /\ (ScanHeld(host)' <=> ScanHeld(host))
    BY <1>1 DEF ScanState, ScanHeld, ScanOff, ScanOffBefore
  <2> QED
    BY <1>1, <1>2, <2>1, <2>2, <2>3, InvParts
<1>4. "le" \notin rejected' =>
         Apply(Apply(Apply(accept_list', host'.commands), host'.cached_commands),
               PushedBy(host'.tasks)) = host'.connect_list
  BY <1>1, InvParts
<1> QED
  BY <1>1, <1>3, <1>4, InvParts, ControllerStep

LEMMA InvStep == Inv /\ [Next]_vars => Inv'
<1> SUFFICES ASSUME Inv, [Next]_vars PROVE Inv'
  OBVIOUS
<1>1. ASSUME NEW start \in BOOLEAN, Scan(start) PROVE Inv'
  BY <1>1, ScanStep
<1>2. CASE RunTask
  BY <1>2, RunTaskStep
<1>3. CASE Controller
  <2>1. CASE ExecuteCreate
    BY <2>1, ExecuteCreateStep
  <2>2. ASSUME NEW a \in accept_list \cup {NoAddress}, ExecuteCancel(a) PROVE Inv'
    BY <2>2, CancelNothing, CancelAttempt
  <2>3. CASE ExecuteScan
    BY <2>3, ExecuteScanStep
  <2>4. CASE ExecuteList
    BY <2>4, ExecuteListStep
  <2> QED
    BY <1>3, <2>1, <2>2, <2>3, <2>4 DEF Controller
<1>4. CASE AclManager
  BY <1>4, AclManagerStep
<1>5. CASE RotationTimeout
  BY <1>5, RotationTimeoutStep
<1>6. ASSUME NEW a \in Address, CreateConnectionTimeout(a) PROVE Inv'
  BY <1>6, CreateConnectionTimeoutStep
<1>7. ASSUME NEW a \in Address, NEW event \in {"peripheral", "peripheral_invalid"},
             PeerConnects(a, event) \/ PeerDisconnects(a)
      PROVE  Inv'
  BY <1>7, PeerStep
<1>8. ASSUME NEW a \in Address, NEW status \in {"success", "failed", "invalid_parameters"},
             ConnectionComplete(a, status)
      PROVE  Inv'
  BY <1>8, ConnectionCompleteStep
<1>9. CASE UNCHANGED vars
  BY <1>9, InvStutter
<1> QED
  BY <1>1, <1>2, <1>3, <1>4, <1>5, <1>6, <1>7, <1>8, <1>9 DEF Next

(* Whatever the calls, the scanning and the peers do in whatever order, at *)
(* most one attempt to connect is under way, it is cancelled before every  *)
(* command that changes a list unless le_impl raced, and what is on its    *)
(* way to the controller makes its accept list that of le_impl: the        *)
(* inductive invariant of le_impl.h and le_address_manager.cc.             *)
THEOREM Invariance == Spec => []Inv
<1>1. Init => Inv
  BY InvInit
<1>2. Inv /\ [Next]_vars => Inv'
  BY InvStep
<1> QED
  BY <1>1, <1>2, PTL DEF Spec

(* No command that changes a list or the address reaches the controller    *)
(* while it initiates, or the address while it scans, unless its client    *)
(* escaped the pause of pause_registered_clients.                          *)
THEOREM RejectedOnlyAfterRace == Spec => []NeverRejected
<1>1. Inv => NeverRejected
  BY DEF Inv, NeverRejected
<1> QED
  BY <1>1, Invariance, PTL

(* A request that is forgotten is not answered yet. *)
RequestsOK == asked \subseteq Address /\ forgotten \subseteq asked

LEMMA RequestsTyped == Spec => []RequestsOK
<1>1. Init => RequestsOK
  BY DEF Init, RequestsOK
<1>2. RequestsOK /\ [Next]_vars => RequestsOK'
  <2> SUFFICES ASSUME RequestsOK, [Next]_vars PROVE RequestsOK'
    OBVIOUS
  <2>1. CASE RunTask
    <3>1. PICK h, t :
            /\ asked' = (asked \cup Asks(h, t[1], t[2])) \ Answered(t[1], t[2])
            /\ forgotten' \subseteq asked'
      BY <2>1 DEF RunTask
    <3> QED
      BY <3>1 DEF RequestsOK, Asks
  <2>2. ASSUME NEW a, CreateConnectionTimeout(a) PROVE RequestsOK'
    BY <2>2 DEF CreateConnectionTimeout, RequestsOK
  <2>3. CASE UNCHANGED requests
    BY <2>3 DEF requests, RequestsOK
  <2>4. Controller => UNCHANGED requests
    BY DEF Controller, ExecuteCreate, ExecuteScan, ExecuteList, ExecuteCancel, Unbusy
  <2>5. AclManager => UNCHANGED requests
    BY DEF AclManager, CreateLeConnection, CancelLeConnectAndRemoveFromBackgroundList,
           RemoveFromBackgroundList, RemoveDeviceFromFilterAcceptList, ClearFilterAcceptList,
           ChangeAclResolvingList, ClearAclResolvingList, SetPrivacyPolicyForInitiatorAddress,
           Call
  <2>6. /\ RotationTimeout \/ (\E start \in BOOLEAN : Scan(start)) => UNCHANGED requests
        /\ \A a, event : PeerConnects(a, event) \/ PeerDisconnects(a) => UNCHANGED requests
        /\ \A a, status : ConnectionComplete(a, status) => UNCHANGED requests
        /\ UNCHANGED vars => UNCHANGED requests
    BY DEF RotationTimeout, Scan, PeerConnects, PeerDisconnects, ConnectionComplete, vars
  <2> QED
    BY <2>1, <2>2, <2>3, <2>4, <2>5, <2>6 DEF Next
<1> QED
  BY <1>1, <1>2, PTL DEF Spec

(* The types that the state of le_impl and the address manager keeps. *)
LEMMA InvTypes == Inv /\ RequestsOK => TypeOK
<1> SUFFICES ASSUME Inv, RequestsOK PROVE TypeOK
  OBVIOUS
<1>1. /\ host \in Host /\ initiating \in BOOLEAN /\ scanning \in BOOLEAN
      /\ accept_list \in SUBSET Address /\ connected \in SUBSET Address
      /\ rejected \subseteq raced /\ raced \in SUBSET Client
  BY InvParts
<1> QED
  BY <1>1 DEF TypeOK, Host, RequestsOK

(* Three queues of changes are applied one after the other. *)
LEMMA ApplyThree ==
  ASSUME NEW list, NEW S, NEW s \in Seq(S), NEW t \in Seq(S), NEW u \in Seq(S)
  PROVE  Apply(list, s \o t \o u) = Apply(Apply(Apply(list, s), t), u)
<1> DEFINE st == s \o t
<1>1. st \in Seq(S)
  OBVIOUS
<1>2. Apply(list, st) = Apply(Apply(list, s), t)
  BY ApplyParts
<1> HIDE DEF st
<1>3. Apply(list, st \o u) = Apply(Apply(list, st), u)
  BY <1>1, ApplyParts
<1> QED
  BY <1>2, <1>3 DEF st

LEMMA InvLists == Inv => NothingLost
<1> SUFFICES ASSUME Inv, "le" \notin rejected
             PROVE  Apply(accept_list, host.commands \o host.cached_commands \o Pushed)
                      = host.connect_list
  BY DEF NothingLost
<1> DEFINE S == SentCommand \cup CachedCommand \cup PushCommand
           p == PushedBy(host.tasks)
<1>1. Apply(Apply(Apply(accept_list, host.commands), host.cached_commands), p)
        = host.connect_list
  BY InvParts
<1>2. host \in Host
  BY InvParts
<1>3. /\ host.commands \in Seq(SentCommand) /\ host.cached_commands \in Seq(CachedCommand)
      /\ host.tasks \in Seq(Task)
  BY <1>2 DEF Host
<1>4. p \in Seq(PushCommand)
  BY <1>3, PushedByType
<1>5. Pushed = p
  BY DEF Pushed, PushedBy
<1> HIDE DEF p
<1>6. ASSUME NEW T, NEW s \in Seq(T), T \subseteq S PROVE s \in Seq(S)
  <2> HIDE DEF S
  <2> QED
    BY <1>6
<1>7. host.commands \in Seq(S) /\ host.cached_commands \in Seq(S) /\ p \in Seq(S)
  BY <1>3, <1>4, <1>6
<1> HIDE DEF S
<1>8. Apply(accept_list, host.commands \o host.cached_commands \o p)
        = Apply(Apply(Apply(accept_list, host.commands), host.cached_commands), p)
  BY <1>7, ApplyThree
<1> QED
  BY <1>1, <1>5, <1>8

(* The state is well formed, and connect_list of le_impl is what the       *)
(* filter accept list of the controller becomes once the commands on their *)
(* way, cached by the address manager and posted to it are executed.       *)
THEOREM NothingIsLost == Spec => []ListsAgree
<1>1. Inv /\ RequestsOK => ListsAgree
  BY InvTypes, InvLists DEF ListsAgree
<1> QED
  BY <1>1, Invariance, RequestsTyped, PTL

(* Every direct connection that create_le_connection accepted and that is  *)
(* not answered or cancelled has its alarm in                              *)
(* create_connection_timeout_alarms_, unless the event of its own attempt  *)
(* took it: that of a cancelled attempt that names the device, or of a     *)
(* connection whose parameters check_connection_parameters refuses.        *)
THEOREM RequestsAreTimed == Spec => []EveryRequestTimed
<1>1. Inv => EveryRequestTimed
  <2> SUFFICES ASSUME Inv PROVE EveryRequestTimed
    OBVIOUS
  <2>1. PICK mode \in {"synced", "pending"} : All(host, Here(mode))
    BY DEF Inv
  <2> QED
    BY <2>1 DEF All, Here, EveryRequestTimed, Timed
<1> QED
  BY <1>1, Invariance, PTL

(* When the handler is idle connectability_state_ says whether the         *)
(* controller initiates, although the answers to cancel and create and the *)
(* connection complete event cross each other.                             *)
THEOREM IdleStateAgrees == Spec => []StateAgrees
<1>1. Inv => StateAgrees
  <2> SUFFICES ASSUME Inv, Quiet
               PROVE  host.connectability_state = IF initiating THEN "ARMED" ELSE "DISARMED"
    BY DEF StateAgrees, AtRest
  <2>1. host \in Host /\ Attempt(host) /\ initiating \in BOOLEAN
    BY InvParts
  <2>2. \A name : At(host.tasks, name) = {} /\ At(host.commands, name) = {}
    BY DEF Quiet, At
  <2>3. Cancelled(host) => ~initiating
    BY <2>2 DEF Cancelled, CancelledBefore, Off
  <2>4. host.connectability_state \in ConnectabilityState
    BY <2>1 DEF Host
  <2> QED
    BY <2>1, <2>2, <2>3, <2>4 DEF Attempt, StateFits, Attempting, ConnectabilityState
<1> QED
  BY <1>1, Invariance, PTL

(***************************************************************************)
(* Every client is resumed: something is always on its way that will do    *)
(* it.  t is the closure that is running, taken off the queue.             *)
(***************************************************************************)
Holds(s, x) == \E i \in DOMAIN s : s[i] = x
Comes(h, t, x) == x = t \/ Holds(h.tasks, x)

NoTask == <<"none", NoAddress>>
Cancel == <<"cancel", NoAddress>>
CancelEnds == {"central"} \X ({"unknown_connection"} \X (Address \cup {NoAddress}))
CancelFails == <<"on_cancel_complete", "disallowed">>
AckPause(c) == <<"ack_pause", c>>
AckResume(c) == <<"ack_resume", c>>
Unregister(c) == <<"unregister_client", c>>

(* c will acknowledge a pause: its acknowledgement is posted, or le_impl   *)
(* has been told to pause and its cancel command will be answered.         *)
Acks(h, t, c) ==
  \/ Comes(h, t, AckPause(c))
  \/ /\ c = "le" /\ h.pause_connection
     /\ Holds(h.commands, Cancel) \/ (\E end \in CancelEnds : Comes(h, t, end)) \/ Comes(h, t, CancelFails)

(* The address manager will look at cached_commands_ once more. *)
Drives(h, t) ==
  \/ \E i \in DOMAIN h.commands : Changing(h.commands[i])
  \/ Comes(h, t, <<"OnCommandComplete", NoAddress>>)
  \/ Comes(h, t, <<"check_cached_commands", "le">>)

Waits(h, t) ==
  \A c \in Client :
    /\ h.registered_clients[c] = "WAITING_FOR_PAUSE" => Acks(h, t, c)
    /\ h.registered_clients[c] = "WAITING_FOR_RESUME" => Comes(h, t, AckResume(c))

SomePaused(h) == \E c \in Client : h.registered_clients[c] = "PAUSED"
Driven(h, t) == SomePaused(h) => Drives(h, t) \/ \E c \in Registered(h) : Acks(h, t, c)

(* A scanner that is paused acknowledges after what is at position k. *)
AcksBehind(h, k) ==
  h.scan_registered /\ h.scan_paused =>
    \E j \in DOMAIN h.tasks : j > k /\ h.tasks[j] = AckPause("scanner")
Ordered == {Unregister("le"), AckResume("scanner")}
Behind(h, t) ==
  /\ \A k \in DOMAIN h.tasks : h.tasks[k] \in Ordered => AcksBehind(h, k)
  /\ t \in Ordered => AcksBehind(h, 0)

ScanWaits(h, t) ==
  h.scan_registered /\ h.scan_paused =>
    Comes(h, t, AckPause("scanner")) \/ ScannerState(h) = "PAUSED"

Triggered(h, t) == Waits(h, t) /\ Driven(h, t) /\ Behind(h, t) /\ ScanWaits(h, t)

(* An attempt that is being cancelled has its cancel command or the event  *)
(* that ends it on its way, or it ended before it was cancelled.           *)
Stopping(h) ==
  h.connectability_state = "DISARMING" =>
    \/ Holds(h.commands, Cancel) \/ (\E end \in CancelEnds : Holds(h.tasks, end))
    \/ \E i, j \in DOMAIN h.tasks :
         i < j /\ h.tasks[i][1] = "central" /\ h.tasks[j] = CancelFails

(* The scanner unregisters while no one is paused. *)
Fresh(h) == Holds(h.tasks, Unregister("scanner")) => ~SomePaused(h)

ResumeInv == raced = {} => Triggered(host, NoTask) /\ Stopping(host) /\ Fresh(host)

(***************************************************************************)
(* Operations that only add to the queues.                                 *)
(***************************************************************************)
Grows(h, g) ==
  /\ g \in Host
  /\ \A i \in DOMAIN h.tasks : i \in DOMAIN g.tasks /\ g.tasks[i] = h.tasks[i]
  /\ \A i \in DOMAIN g.tasks :
       g.tasks[i] \in Ordered \cup {Unregister("scanner")} => i \in DOMAIN h.tasks
  /\ \A i \in DOMAIN h.commands : i \in DOMAIN g.commands /\ g.commands[i] = h.commands[i]
  /\ g.connectability_state = "DISARMING" =>
       h.connectability_state = "DISARMING" \/ Holds(g.commands, Cancel)
  /\ h.pause_connection => g.pause_connection
  /\ g.registered_clients = h.registered_clients /\ g.scan_registered = h.scan_registered

Adds(h, g) == Grows(h, g) /\ g.scan_paused = h.scan_paused

LEMMA GrowsTrans ==
  ASSUME NEW h, NEW g, NEW f
  PROVE  /\ Grows(h, g) /\ Grows(g, f) => Grows(h, f)
         /\ Adds(h, g) /\ Adds(g, f) => Adds(h, f)
<1>1. Grows(h, g) /\ Grows(g, f) => Grows(h, f)
  BY DEF Grows, Holds
<1> QED
  BY <1>1 DEF Adds

LEMMA GrowsComes ==
  ASSUME NEW h, NEW g, Grows(h, g), NEW t
  PROVE  /\ \A x : Comes(h, t, x) => Comes(g, t, x)
         /\ \A x : Holds(h.commands, x) => Holds(g.commands, x)
         /\ \A c : Acks(h, t, c) => Acks(g, t, c)
         /\ Drives(h, t) => Drives(g, t)
         /\ Registered(g) = Registered(h)
<1>1. \A x : Comes(h, t, x) => Comes(g, t, x)
  BY DEF Grows, Comes, Holds
<1>2. \A x : Holds(h.commands, x) => Holds(g.commands, x)
  BY DEF Grows, Holds
<1>3. \A c : Acks(h, t, c) => Acks(g, t, c)
  BY <1>1, <1>2 DEF Acks, Grows
<1>4. Drives(h, t) => Drives(g, t)
  BY <1>1 DEF Drives, Grows
<1> QED
  BY <1>1, <1>2, <1>3, <1>4 DEF Grows, Registered

LEMMA GrowsStopping ==
  ASSUME NEW h, NEW g, Grows(h, g), Stopping(h)
  PROVE  Stopping(g)
BY DEF Grows, Stopping, Holds

LEMMA AddsTriggered ==
  ASSUME NEW h, NEW g, Adds(h, g), NEW t, Triggered(h, t)
  PROVE  Triggered(g, t)
<1>1. Grows(h, g) /\ g.scan_paused = h.scan_paused
  BY DEF Adds
<1>2. Waits(g, t)
  BY <1>1, GrowsComes DEF Triggered, Waits, Grows
<1>3. Driven(g, t)
  BY <1>1, GrowsComes DEF Triggered, Driven, SomePaused, Grows
<1>4. \A k : AcksBehind(h, k) => AcksBehind(g, k)
  BY <1>1 DEF AcksBehind, Grows
<1>5. Behind(g, t)
  BY <1>1, <1>4 DEF Triggered, Behind, Grows
<1>6. ScanWaits(g, t)
  BY <1>1, GrowsComes DEF Triggered, ScanWaits, ScannerState, Grows
<1> QED
  BY <1>2, <1>3, <1>5, <1>6 DEF Triggered

(* The closure that runs matters only if it is one of these. *)
Triggers ==
  CancelEnds \cup {CancelFails, <<"OnCommandComplete", NoAddress>>, <<"check_cached_commands", "le">>}
    \cup {AckPause(c) : c \in Client} \cup {AckResume(c) : c \in Client} \cup Ordered

LEMMA NoTrigger ==
  ASSUME NEW h, NEW t, Triggered(h, t), t \notin Triggers
  PROVE  Triggered(h, NoTask)
<1>1. \A x \in Triggers : Comes(h, t, x) => Comes(h, NoTask, x)
  BY DEF Comes
<1>2. \A c \in Client : Acks(h, t, c) => Acks(h, NoTask, c)
  BY <1>1 DEF Acks, Triggers
<1>3. Drives(h, t) => Drives(h, NoTask)
  BY <1>1 DEF Drives, Triggers
<1>4. Waits(h, NoTask)
  BY <1>1, <1>2 DEF Triggered, Waits, Triggers
<1>5. Driven(h, NoTask)
  BY <1>2, <1>3 DEF Triggered, Driven, Registered
<1>6. Behind(h, NoTask)
  BY DEF Triggered, Behind, Ordered, NoTask, Unregister, AckResume
<1>7. ScanWaits(h, NoTask)
  BY <1>1 DEF Triggered, ScanWaits, Triggers, Client
<1> QED
  BY <1>4, <1>5, <1>6, <1>7 DEF Triggered

(***************************************************************************)
(* le_impl's operations only add.                                          *)
(***************************************************************************)
LEMMA GrowsSelf ==
  ASSUME NEW h \in Host
  PROVE  Adds(h, h)
BY DEF Adds, Grows

LEMMA PostAdds ==
  ASSUME NEW h \in Host, NEW task \in Task, task \notin Ordered \cup {Unregister("scanner")}
  PROVE  Adds(h, Post(h, task)) /\ Holds(Post(h, task).tasks, task)
<1> DEFINE g == Post(h, task)
<1>1. /\ g \in Host /\ g.tasks = Append(h.tasks, task) /\ h.tasks \in Seq(Task)
      /\ g.registered_clients = h.registered_clients /\ g.commands = h.commands
      /\ g.scan_registered = h.scan_registered /\ g.scan_paused = h.scan_paused
      /\ g.connectability_state = h.connectability_state
      /\ g.pause_connection = h.pause_connection
  BY PostFields DEF Host
<1> HIDE DEF g
<1>2. /\ DOMAIN h.tasks = 1 .. Len(h.tasks) /\ DOMAIN g.tasks = 1 .. (Len(h.tasks) + 1)
      /\ Len(h.tasks) \in Nat /\ g.tasks[Len(h.tasks) + 1] = task
      /\ \A i \in DOMAIN h.tasks : g.tasks[i] = h.tasks[i]
  BY <1>1
<1>3. Holds(g.tasks, task)
  BY <1>2 DEF Holds
<1>4. \A i \in DOMAIN h.tasks : i \in DOMAIN g.tasks
  BY <1>2
<1>5. ASSUME NEW i \in DOMAIN g.tasks, g.tasks[i] \in Ordered \cup {Unregister("scanner")}
      PROVE  i \in DOMAIN h.tasks
  BY <1>2, <1>5
<1> QED
  BY <1>1, <1>2, <1>3, <1>4, <1>5 DEF Adds, Grows, g

LEMMA SentFields ==
  ASSUME NEW h \in Host, NEW c \in SentCommand
  PROVE  /\ enqueue_command(h, c) \in Host
         /\ enqueue_command(h, c).commands = Append(h.commands, c)
         /\ enqueue_command(h, c).tasks = h.tasks
         /\ enqueue_command(h, c).registered_clients = h.registered_clients
         /\ enqueue_command(h, c).scan_registered = h.scan_registered
         /\ enqueue_command(h, c).scan_paused = h.scan_paused
         /\ enqueue_command(h, c).connectability_state = h.connectability_state
         /\ enqueue_command(h, c).pause_connection = h.pause_connection
<1>1. Append(h.commands, c) \in Seq(SentCommand)
  BY DEF Host
<1>2. enqueue_command(h, c) \in Host
  BY <1>1 DEF enqueue_command, Host
<1>3. enqueue_command(h, c).commands = Append(h.commands, c)
  BY DEF enqueue_command, Host
<1> QED
  BY <1>2, <1>3 DEF enqueue_command

LEMMA SentLonger ==
  ASSUME NEW h \in Host, NEW c \in SentCommand, NEW g, g.commands = Append(h.commands, c)
  PROVE  /\ \A i \in DOMAIN h.commands : i \in DOMAIN g.commands /\ g.commands[i] = h.commands[i]
         /\ \E i \in DOMAIN g.commands : g.commands[i] = c
<1>1. h.commands \in Seq(SentCommand)
  BY DEF Host
<1>2. /\ DOMAIN h.commands = 1 .. Len(h.commands)
      /\ DOMAIN g.commands = 1 .. (Len(h.commands) + 1)
      /\ Len(h.commands) \in Nat /\ g.commands[Len(h.commands) + 1] = c
      /\ \A i \in DOMAIN h.commands : g.commands[i] = h.commands[i]
  BY <1>1
<1>3. \E i \in DOMAIN g.commands : g.commands[i] = c
  BY <1>2
<1> QED
  BY <1>2, <1>3

(* Neither the queues nor the registrations change. *)
Still(h, g) ==
  /\ g \in Host /\ g.tasks = h.tasks /\ g.commands = h.commands
  /\ g.registered_clients = h.registered_clients
  /\ g.scan_registered = h.scan_registered /\ g.scan_paused = h.scan_paused

LEMMA StillAdds ==
  ASSUME NEW h \in Host, NEW g, Still(h, g), h.pause_connection => g.pause_connection,
         g.connectability_state \in {h.connectability_state, "DISARMED", "ARMED", "ARMING"}
  PROVE  Adds(h, g)
BY DEF Still, Adds, Grows

LEMMA SendAdds ==
  ASSUME NEW h \in Host, NEW c \in SentCommand, NEW p, Still(h, p),
         h.pause_connection => p.pause_connection,
         \/ p.connectability_state \in {h.connectability_state, "DISARMED", "ARMED", "ARMING"}
         \/ c = Cancel
  PROVE  /\ Adds(h, enqueue_command(p, c)) /\ Holds(enqueue_command(p, c).commands, c)
<1> DEFINE g == enqueue_command(p, c)
<1>1. p \in Host
  BY DEF Still
<1>2. /\ g \in Host /\ g.commands = Append(h.commands, c) /\ g.tasks = h.tasks
      /\ g.registered_clients = h.registered_clients
      /\ g.scan_registered = h.scan_registered /\ g.scan_paused = h.scan_paused
      /\ g.connectability_state = p.connectability_state
      /\ g.pause_connection = p.pause_connection
  BY <1>1, SentFields DEF Still
<1> HIDE DEF g
<1>3. /\ \A i \in DOMAIN h.commands : i \in DOMAIN g.commands /\ g.commands[i] = h.commands[i]
      /\ Holds(g.commands, c)
  BY <1>2, SentLonger DEF Holds
<1> QED
  BY <1>2, <1>3 DEF Adds, Grows, g

(* The closures that le_impl posts. *)
LEMMA PostedTasks ==
  /\ <<"register_client", "le">> \in Task
  /\ \A c \in Client : <<"ack_pause", c>> \in Task
  /\ \A do \in PlainTask, arg \in {"le", NoAddress} : <<do, arg>> \in Task
  /\ \A a \in Address, do \in AddressTask : <<do, a>> \in Task
  /\ \A c \in ListCommand : <<"push_command", c>> \in Task
  /\ \A arg \in CreateArgument : <<"create_le_connection", arg>> \in Task
BY DEF Task, ClientTask, Client

LEMMA PostCommon ==
  ASSUME NEW h, NEW g, Adds(h, g), NEW do, NEW arg, <<do, arg>> \in Task,
         do \notin {"unregister_client", "ack_resume"}
  PROVE  Adds(h, Post(g, <<do, arg>>)) /\ Holds(Post(g, <<do, arg>>).tasks, <<do, arg>>)
<1> DEFINE task == <<do, arg>>
<1>1. task \notin Ordered \cup {Unregister("scanner")}
  BY DEF Ordered, Unregister, AckResume
<1>2. g \in Host /\ task \in Task
  BY DEF Adds, Grows
<1> HIDE DEF task
<1>3. Adds(g, Post(g, task)) /\ Holds(Post(g, task).tasks, task)
  BY <1>1, <1>2, PostAdds
<1> QED
  BY <1>3, GrowsTrans DEF task

LEMMA register_Adds ==
  ASSUME NEW h \in Host
  PROVE  Adds(h, register_with_address_manager(h)) /\ Adds(h, register_and_pause(h))
<1> DEFINE p == [h EXCEPT !.address_manager_registered = TRUE, !.pause_connection = TRUE]
           q == [h EXCEPT !.address_manager_registered = TRUE,
                          !.pause_connection = @ \/ Rotating(h)]
<1>1. Still(h, p) /\ p.pause_connection /\ p.connectability_state = h.connectability_state
  BY DEF Still, Host
<1>2. /\ Still(h, q) /\ (h.pause_connection => q.pause_connection)
      /\ q.connectability_state = h.connectability_state
  BY DEF Still, Host
<1>3. Adds(h, h) /\ Adds(h, p) /\ Adds(h, q)
  BY <1>1, <1>2, StillAdds, GrowsSelf
<1> HIDE DEF p, q
<1>4. /\ Adds(h, Post(p, <<"register_client", "le">>))
      /\ Adds(h, Post(q, <<"register_client", "le">>))
  BY <1>3, PostCommon, PostedTasks
<1> QED
  BY <1>3, <1>4 DEF register_with_address_manager, register_and_pause, p, q

LEMMA ListChange_Adds ==
  ASSUME NEW h \in Host, NEW p, Still(h, p), p.pause_connection = h.pause_connection,
         p.connectability_state = h.connectability_state, NEW c \in ListCommand
  PROVE  Adds(h, Post(register_with_address_manager(p), <<"push_command", c>>))
<1>1. Adds(h, p) /\ p \in Host
  BY StillAdds DEF Still
<1>2. Adds(h, register_with_address_manager(p))
  BY <1>1, register_Adds, GrowsTrans
<1> QED
  BY <1>2, PostCommon, PostedTasks

LEMMA connect_list_Adds ==
  ASSUME NEW h \in Host, NEW a \in Address
  PROVE  /\ Adds(h, add_device_to_connect_list(h, a))
         /\ Adds(h, remove_device_from_connect_list(h, a))
         /\ Adds(h, clear_connect_list(h))
<1> DEFINE p == [h EXCEPT !.connect_list = @ \cup {a}]
           q == [h EXCEPT !.connect_list = @ \ {a}, !.connecting_le = @ \ {a},
                          !.direct_connections = @ \ {a}]
           r == [h EXCEPT !.connect_list = {}]
<1>1. Still(h, p) /\ p.pause_connection = h.pause_connection
      /\ p.connectability_state = h.connectability_state
  BY DEF Still, Host
<1>2. Still(h, q) /\ q.pause_connection = h.pause_connection
      /\ q.connectability_state = h.connectability_state
  BY DEF Still, Host
<1>3. Still(h, r) /\ r.pause_connection = h.pause_connection
      /\ r.connectability_state = h.connectability_state
  BY DEF Still, Host
<1>4. <<"add", a>> \in ListCommand /\ <<"remove", a>> \in ListCommand
      /\ <<"clear", NoAddress>> \in ListCommand
  BY DEF ListCommand
<1> HIDE DEF p, q, r
<1>5. Adds(h, Post(register_with_address_manager(p), <<"push_command", <<"add", a>>>>))
  BY <1>1, <1>4, ListChange_Adds
<1>6. Adds(h, Post(register_with_address_manager(q), <<"push_command", <<"remove", a>>>>))
  BY <1>2, <1>4, ListChange_Adds
<1>7. Adds(h, Post(register_with_address_manager(r), <<"push_command", <<"clear", NoAddress>>>>))
  BY <1>3, <1>4, ListChange_Adds
<1>8. Adds(h, h)
  BY GrowsSelf
<1> QED
  BY <1>5, <1>6, <1>7, <1>8
     DEF add_device_to_connect_list, remove_device_from_connect_list, clear_connect_list, p, q, r

LEMMA connectability_Adds ==
  ASSUME NEW h \in Host
  PROVE  Adds(h, arm_connectability(h)) /\ Adds(h, disarm_connectability(h))
<1> DEFINE p == [h EXCEPT !.connectability_state = "ARMING", !.connecting_le = h.connect_list]
           q == [h EXCEPT !.connectability_state = "DISARMING"]
           c == <<"create", NoAddress>>
<1>1. Still(h, p) /\ p.pause_connection = h.pause_connection /\ p.connectability_state = "ARMING"
  BY DEF Still, Host, ConnectabilityState
<1>2. Still(h, q) /\ q.pause_connection = h.pause_connection
  BY DEF Still, Host, ConnectabilityState
<1>3. c \in SentCommand /\ Cancel \in SentCommand
  BY DEF SentCommand, UseName, Cancel
<1> HIDE DEF p, q, c
<1>4. Adds(h, enqueue_command(p, c)) /\ Adds(h, enqueue_command(q, Cancel)) /\ Adds(h, h)
  BY <1>1, <1>2, <1>3, SendAdds, GrowsSelf
<1> QED
  BY <1>4 DEF arm_connectability, disarm_connectability, Cancel, p, q, c

LEMMA cancel_connect_Adds ==
  ASSUME NEW h \in Host, NEW a \in Address
  PROVE  /\ Adds(h, cancel_connect(h, a)) /\ Adds(h, on_create_connection_timeout(h, a))
<1> DEFINE g == [h EXCEPT !.timeout_alarms = @ \ {a}]
           d == [g EXCEPT !.direct_connections = @ \ {a}]
           f == [g EXCEPT !.timeout_alarms = @ \ {a}]
<1>1. Still(h, g) /\ g.pause_connection = h.pause_connection
      /\ g.connectability_state = h.connectability_state
  BY DEF Still, Host
<1>2. Still(h, d) /\ d.pause_connection = h.pause_connection
      /\ d.connectability_state = h.connectability_state
  BY DEF Still, Host
<1>3. Still(h, f) /\ f.pause_connection = h.pause_connection
      /\ f.connectability_state = h.connectability_state
  BY DEF Still, Host
<1>4. Adds(h, g) /\ Adds(h, d) /\ Adds(h, f) /\ g \in Host /\ d \in Host /\ f \in Host
  BY <1>1, <1>2, <1>3, StillAdds DEF Still
<1> HIDE DEF g, d, f
<1>5. /\ Adds(h, remove_device_from_connect_list(g, a)) /\ Adds(h, disarm_connectability(d))
      /\ Adds(h, remove_device_from_connect_list(f, a))
  BY <1>4, connect_list_Adds, connectability_Adds, GrowsTrans
<1> QED
  BY <1>5 DEF cancel_connect, on_create_connection_timeout, g, d, f

LEMMA create_Adds ==
  ASSUME NEW h \in Host, NEW arg \in CreateArgument \cup (Address \X {FALSE} \X {FALSE})
  PROVE  Adds(h, create_le_connection(h, arg[1], arg[2], arg[3]))
<1> DEFINE a == arg[1]
           listed == IF arg[2] THEN add_device_to_connect_list(h, a) ELSE h
           alarmed == [listed EXCEPT !.direct_connections = @ \cup {a},
                                     !.timeout_alarms = @ \cup {a}]
           timed == IF arg[2] /\ arg[3] THEN alarmed ELSE listed
           g == register_and_pause(timed)
           r == [g EXCEPT !.arm_on_resume = TRUE]
<1>1. arg[2] => a \in Address
  BY DEF CreateArgument
<1>2. Adds(h, listed) /\ listed \in Host
  BY <1>1, connect_list_Adds, GrowsSelf DEF Adds, Grows
<1> HIDE DEF listed, a
<1>3. arg[2] => /\ Still(listed, alarmed) /\ alarmed.pause_connection = listed.pause_connection
                /\ alarmed.connectability_state = listed.connectability_state
  BY <1>1, <1>2 DEF Still, Host
<1>4. Adds(h, timed) /\ timed \in Host
  BY <1>2, <1>3, StillAdds, GrowsTrans DEF Still
<1> HIDE DEF timed
<1>5. Adds(h, g) /\ g \in Host
  BY <1>4, register_Adds, GrowsTrans DEF Adds, Grows
<1> HIDE DEF g
<1>6. Still(g, r) /\ r.pause_connection = g.pause_connection
      /\ r.connectability_state = g.connectability_state
  BY <1>5 DEF Still, Host
<1>7. Adds(h, r)
  BY <1>5, <1>6, StillAdds, GrowsTrans
<1>8. Adds(h, Post(g, <<"arm_connectability", "le">>))
  BY <1>5, PostCommon, PostedTasks DEF PlainTask
<1>9. Adds(h, h)
  BY GrowsSelf
<1> QED
  BY <1>5, <1>7, <1>8, <1>9 DEF create_le_connection, r, g, timed, listed, a

LEMMA events_Adds ==
  ASSUME NEW h \in Host, NEW a \in Address, NEW status
  PROVE  /\ Adds(h, on_peripheral_connection_complete(h, status, a))
         /\ Adds(h, on_le_disconnect(h, a))
         /\ Adds(h, add_connection(h, status, a))
<1> DEFINE t == [h EXCEPT !.timeout_alarms = @ \ {a}]
           p == IF a \in h.connect_list THEN remove_device_from_connect_list(t, a) ELSE h
           d == [h EXCEPT !.connections = @ \ {a}]
           e == [d EXCEPT !.arm_on_resume = TRUE]
<1>1. ASSUME NEW g, Adds(h, g)
      PROVE  Adds(h, add_connection(g, status, a))
  <2>1. g \in Host
    BY <1>1 DEF Adds, Grows
  <2> DEFINE f == add_connection(g, status, a)
  <2>2. Still(g, f) /\ f.pause_connection = g.pause_connection
        /\ f.connectability_state = g.connectability_state
    <3>1. g.connections \cup {a} \in SUBSET Address
      BY <2>1 DEF Host
    <3>2. f = g \/ f = [g EXCEPT !.connections = g.connections \cup {a}]
      BY DEF add_connection
    <3> HIDE DEF f
    <3> QED
      BY <2>1, <3>1, <3>2 DEF Still, Host
  <2> HIDE DEF f
  <2>3. Adds(g, f)
    BY <2>1, <2>2, StillAdds
  <2> QED
    BY <1>1, <2>3, GrowsTrans DEF f
<1>2. Still(h, t) /\ t.pause_connection = h.pause_connection
      /\ t.connectability_state = h.connectability_state
  BY DEF Still, Host
<1>3. Still(h, d) /\ d.pause_connection = h.pause_connection
      /\ d.connectability_state = h.connectability_state
  BY DEF Still, Host
<1>4. Still(h, e) /\ e.pause_connection = h.pause_connection
      /\ e.connectability_state = h.connectability_state
  BY DEF Still, Host
<1>5. Adds(h, t) /\ Adds(h, d) /\ Adds(h, e) /\ Adds(h, h) /\ t \in Host /\ e \in Host
  BY <1>2, <1>3, <1>4, StillAdds, GrowsSelf DEF Still
<1> HIDE DEF t, d, e
<1>6. Adds(h, p) /\ Adds(h, add_device_to_connect_list(e, a))
  BY <1>5, connect_list_Adds, GrowsTrans
<1> HIDE DEF p
<1>7. Adds(h, add_connection(p, status, a)) /\ Adds(h, add_connection(h, status, a))
  BY <1>1, <1>5, <1>6
<1> QED
  BY <1>5, <1>6, <1>7 DEF on_peripheral_connection_complete, on_le_disconnect, p, t, d, e

LEMMA central_Adds ==
  ASSUME NEW h \in Host, NEW arg \in CentralArgument
  PROVE  /\ Adds(h, on_central_connection_complete(h, arg[1], arg[2]))
         /\ arg[1] = "unknown_connection" /\ h.pause_connection =>
              Holds(on_central_connection_complete(h, arg[1], arg[2]).tasks, AckPause("le"))
         /\ Adds([h EXCEPT !.connectability_state = "DISARMED"],
                 on_central_connection_complete(h, arg[1], arg[2]))
<1> DEFINE status == arg[1]
           a == arg[2]
           g == [h EXCEPT !.connectability_state = "DISARMED"]
           u == [g EXCEPT !.arm_on_resume = TRUE]
           common == [g EXCEPT !.connecting_le = {}, !.timeout_alarms = @ \ {a}]
           ready == [common EXCEPT !.arm_on_resume = FALSE, !.ready_to_unregister = TRUE]
           removed == remove_device_from_connect_list(ready, a)
           posted == Post(removed, <<"create_le_connection", <<NoAddress, FALSE, FALSE>>>>)
           again == IF removed.connect_list = {} THEN removed ELSE posted
           none == <<NoAddress, FALSE, FALSE>>
           seek == <<a, FALSE, FALSE>>
<1>1. Still(h, g) /\ g.pause_connection = h.pause_connection
      /\ g.connectability_state = "DISARMED"
  BY DEF Still, Host, ConnectabilityState
<1>2. g \in Host /\ Adds(h, g) /\ Adds(g, g)
  BY <1>1, StillAdds, GrowsSelf DEF Still
<1>3. /\ a \in Address \cup {NoAddress}
      /\ status # "unknown_connection" => a \in Address
  BY DEF CentralArgument
<1> HIDE DEF g, status, a
<1>4. Still(g, u) /\ u.pause_connection = g.pause_connection
      /\ u.connectability_state = g.connectability_state
  BY <1>2 DEF Still, Host
<1>5. Still(g, common) /\ common.pause_connection = g.pause_connection
      /\ common.connectability_state = g.connectability_state
  BY <1>2 DEF Still, Host
<1>6. Still(g, ready) /\ ready.pause_connection = g.pause_connection
      /\ ready.connectability_state = g.connectability_state
  BY <1>2 DEF Still, Host
<1>7. /\ Adds(g, u) /\ Adds(g, common) /\ Adds(g, ready)
      /\ common \in Host /\ ready \in Host
  BY <1>2, <1>4, <1>5, <1>6, StillAdds DEF Still
<1> HIDE DEF u, common, ready
<1>8. Adds(g, Post(u, AckPause("le"))) /\ Holds(Post(u, AckPause("le")).tasks, AckPause("le"))
  BY <1>7, PostCommon, PostedTasks DEF AckPause, Client
<1>9. none \in CreateArgument /\ none[1] = NoAddress /\ none[2] = FALSE /\ none[3] = FALSE
  BY DEF CreateArgument
<1> HIDE DEF none
<1>10. Adds(g, create_le_connection(common, a, FALSE, FALSE))
  <2>1. /\ seek \in CreateArgument \cup (Address \X {FALSE} \X {FALSE})
        /\ seek[1] = a /\ seek[2] = FALSE /\ seek[3] = FALSE
    BY <1>3 DEF CreateArgument
  <2> HIDE DEF seek
  <2>2. Adds(common, create_le_connection(common, seek[1], seek[2], seek[3]))
    BY <1>7, <2>1, create_Adds
  <2> QED
    BY <1>7, <2>1, <2>2, GrowsTrans
<1>11. a \in Address => Adds(g, again) /\ again \in Host
  <2> SUFFICES ASSUME a \in Address PROVE Adds(g, again)
    BY DEF Adds, Grows
  <2>1. Adds(g, removed)
    BY <1>7, connect_list_Adds, GrowsTrans
  <2> HIDE DEF removed
  <2>2. Adds(g, Post(removed, <<"create_le_connection", none>>))
    BY <1>9, <2>1, PostCommon, PostedTasks
  <2> QED
    BY <2>1, <2>2 DEF none
<1> HIDE DEF again
<1>12. a \in Address => Adds(g, add_connection(again, status, a))
  BY <1>11, events_Adds, GrowsTrans
<1> DEFINE f == on_central_connection_complete(h, status, a)
<1>13. f = IF status = "unknown_connection" /\ g.pause_connection
           THEN Post(u, AckPause("le"))
           ELSE IF status = "unknown_connection" THEN create_le_connection(common, a, FALSE, FALSE)
           ELSE IF status = "failed" THEN again ELSE add_connection(again, status, a)
  BY DEF on_central_connection_complete, on_le_connection_canceled_on_pause, AckPause,
         g, u, common, ready, removed, again
<1> HIDE DEF f
<1>14. Adds(g, f)
  BY <1>3, <1>8, <1>10, <1>11, <1>12, <1>13
<1>15. status = "unknown_connection" /\ h.pause_connection => Holds(f.tasks, AckPause("le"))
  BY <1>1, <1>8, <1>13
<1>16. Adds(h, f)
  BY <1>2, <1>14, GrowsTrans
<1> QED
  BY <1>3, <1>14, <1>15, <1>16 DEF f, g, status, a

LEMMA answers_Adds ==
  ASSUME NEW h \in Host, NEW status \in {"success", "disallowed"}
  PROVE  /\ Adds(h, on_create_connection(h, status))
         /\ Adds(h, on_create_connection_cancel_complete(h, status))
         /\ status = "disallowed" /\ h.pause_connection =>
              Holds(on_create_connection_cancel_complete(h, status).tasks, AckPause("le"))
<1> DEFINE g == on_create_connection(h, status)
<1>1. /\ Still(h, g) /\ g.pause_connection = h.pause_connection
      /\ g.connectability_state \in {"ARMED", "DISARMED"}
  BY DEF Still, Host, ConnectabilityState, on_create_connection
<1> HIDE DEF g
<1>2. Adds(h, g) /\ Adds(h, h)
  BY <1>1, StillAdds, GrowsSelf
<1>3. Adds(h, Post(h, AckPause("le"))) /\ Holds(Post(h, AckPause("le")).tasks, AckPause("le"))
  BY <1>2, PostCommon, PostedTasks DEF AckPause, Client
<1> QED
  BY <1>2, <1>3 DEF on_create_connection_cancel_complete, AckPause, g

LEMMA background_Adds ==
  ASSUME NEW h \in Host, NEW a \in Address
  PROVE  /\ Adds(h, [h EXCEPT !.background_connections = @ \cup {a}])
         /\ Adds(h, [h EXCEPT !.background_connections = @ \ {a}])
         /\ Adds(h, cancel_connect([h EXCEPT !.background_connections = @ \ {a}], a))
<1> DEFINE p == [h EXCEPT !.background_connections = @ \cup {a}]
           q == [h EXCEPT !.background_connections = @ \ {a}]
<1>1. Still(h, p) /\ p.pause_connection = h.pause_connection
      /\ p.connectability_state = h.connectability_state
  BY DEF Still, Host
<1>2. Still(h, q) /\ q.pause_connection = h.pause_connection
      /\ q.connectability_state = h.connectability_state
  BY DEF Still, Host
<1>3. Adds(h, p) /\ Adds(h, q) /\ q \in Host
  BY <1>1, <1>2, StillAdds DEF Still
<1> HIDE DEF p, q
<1>4. Adds(h, cancel_connect(q, a))
  BY <1>3, cancel_connect_Adds, GrowsTrans
<1> QED
  BY <1>3, <1>4 DEF p, q

(* Commands are cached. *)
LEMMA cached_Adds ==
  ASSUME NEW h \in Host, NEW s \in Seq(CachedCommand)
  PROVE  Adds(h, [h EXCEPT !.cached_commands = @ \o s])
<1> DEFINE g == [h EXCEPT !.cached_commands = @ \o s]
<1>1. h.cached_commands \o s \in Seq(CachedCommand)
  BY DEF Host
<1>2. Still(h, g) /\ g.pause_connection = h.pause_connection
      /\ g.connectability_state = h.connectability_state
  BY <1>1 DEF Still, Host
<1> QED
  BY <1>2, StillAdds

LEMMA resolving_Adds ==
  ASSUME NEW h \in Host
  PROVE  /\ Adds(h, ChangeResolvingList(register_with_address_manager(h)))
         /\ Adds(h, ClearResolvingList(h)) /\ Adds(h, OnCommandComplete(h))
         /\ Adds(h, Post(h, <<"prepare_to_update_irk", "le">>))
<1>1. ResolvingCommands \in Seq(CachedCommand)
  BY DEF ResolvingCommands, CachedCommand, ResolvingName
<1>2. ASSUME NEW g, Adds(h, g), NEW do \in PlainTask
      PROVE  Adds(h, Post(g, <<do, "le">>))
  BY <1>2, PostCommon, PostedTasks DEF PlainTask
<1>3. ASSUME NEW g, Adds(h, g), NEW do \in PlainTask
      PROVE  Adds(h, Post([g EXCEPT !.cached_commands = @ \o ResolvingCommands], <<do, "le">>))
  <2>1. g \in Host
    BY <1>3 DEF Adds, Grows
  <2>2. Adds(h, [g EXCEPT !.cached_commands = @ \o ResolvingCommands])
    BY <1>1, <1>3, <2>1, cached_Adds, GrowsTrans
  <2> QED
    BY <1>2, <2>2
<1>4. Adds(h, register_with_address_manager(h)) /\ Adds(h, h)
  BY register_Adds, GrowsSelf
<1>5. {"handle_next_command", "pause_registered_clients", "check_cached_commands",
       "prepare_to_update_irk"} \subseteq PlainTask
  BY DEF PlainTask
<1>6. Adds(h, ClearResolvingList(h))
  BY <1>3, <1>4, <1>5 DEF ClearResolvingList
<1>7. ASSUME NEW g, Adds(h, g)
      PROVE  Adds(h, ChangeResolvingList(g))
  BY <1>3, <1>5, <1>7 DEF ChangeResolvingList
<1> QED
  BY <1>2, <1>4, <1>5, <1>6, <1>7 DEF OnCommandComplete

(***************************************************************************)
(* A client is told to pause.                                              *)
(***************************************************************************)
LEMMA stop_scan_Adds ==
  ASSUME NEW h \in Host
  PROVE  Adds(h, stop_scan(h))
<1> DEFINE p == [h EXCEPT !.is_scanning = FALSE]
           c == <<"scan_off", NoAddress>>
<1>1. Still(h, p) /\ p.pause_connection = h.pause_connection
      /\ p.connectability_state = h.connectability_state
  BY DEF Still, Host
<1>2. c \in SentCommand
  BY DEF SentCommand, UseName
<1> HIDE DEF p, c
<1>3. Adds(h, enqueue_command(p, c)) /\ Adds(h, h)
  BY <1>1, <1>2, SendAdds, GrowsSelf
<1> QED
  BY <1>3 DEF stop_scan, p, c

LEMMA le_OnPause_Acks ==
  ASSUME NEW h \in Host, Stopping(h), NEW t
  PROVE  Adds(h, le_OnPause(h)) /\ Acks(le_OnPause(h), t, "le")
<1> DEFINE p == [h EXCEPT !.pause_connection = TRUE]
           q == [p EXCEPT !.arm_on_resume = p.connecting_le # {}]
           r == [q EXCEPT !.connectability_state = "DISARMING"]
<1>1. Still(h, p) /\ p.pause_connection /\ p.connectability_state = h.connectability_state
  BY DEF Still, Host
<1>2. Still(h, q) /\ q.pause_connection /\ q.connectability_state = h.connectability_state
  BY DEF Still, Host
<1>3. Still(h, r) /\ r.pause_connection
  BY DEF Still, Host, ConnectabilityState
<1>4. Adds(h, p) /\ Adds(h, q) /\ q \in Host /\ p \in Host /\ q.tasks = h.tasks
      /\ q.commands = h.commands
  BY <1>1, <1>2, StillAdds DEF Still
<1>5. h.connectability_state \in ConnectabilityState
  BY DEF Host
<1> HIDE DEF p, q
<1>6. CASE h.connectability_state = "DISARMED"
  <2>1. le_OnPause(h) = Post(p, AckPause("le"))
    BY <1>1, <1>6 DEF le_OnPause, p, AckPause
  <2>2. Adds(h, Post(p, AckPause("le"))) /\ Holds(Post(p, AckPause("le")).tasks, AckPause("le"))
    BY <1>4, PostCommon, PostedTasks DEF AckPause, Client
  <2> QED
    BY <2>1, <2>2 DEF Acks, Comes
<1>7. CASE h.connectability_state \in {"ARMED", "ARMING"}
  <2> HIDE DEF r
  <2>1. le_OnPause(h) = enqueue_command(r, Cancel)
    BY <1>1, <1>2, <1>7 DEF le_OnPause, disarm_connectability, Cancel, p, q, r
  <2>2. Cancel \in SentCommand
    BY DEF SentCommand, UseName, Cancel
  <2>3. Adds(h, enqueue_command(r, Cancel)) /\ Holds(enqueue_command(r, Cancel).commands, Cancel)
    BY <1>3, <2>2, SendAdds
  <2>4. enqueue_command(r, Cancel).pause_connection
    BY <1>3, <2>2, SentFields DEF Still
  <2> QED
    BY <2>1, <2>3, <2>4 DEF Acks
<1>8. CASE h.connectability_state = "DISARMING"
  <2>1. le_OnPause(h) = q
    BY <1>1, <1>2, <1>8 DEF le_OnPause, disarm_connectability, p, q
  <2>2. Holds(h.commands, Cancel) \/ (\E end \in CancelEnds : Holds(h.tasks, end)) \/ Holds(h.tasks, CancelFails)
    BY <1>8 DEF Stopping, Holds
  <2> QED
    BY <1>2, <1>4, <2>1, <2>2 DEF Acks, Comes
<1> QED
  BY <1>5, <1>6, <1>7, <1>8 DEF ConnectabilityState

LEMMA scanner_OnPause_Acks ==
  ASSUME NEW h \in Host, NEW t
  PROVE  /\ Grows(h, scanner_OnPause(h)) /\ Acks(scanner_OnPause(h), t, "scanner")
         /\ Holds(scanner_OnPause(h).tasks, AckPause("scanner"))
         /\ \A k : k \in DOMAIN h.tasks \/ k = 0 => AcksBehind(scanner_OnPause(h), k)
<1> DEFINE p == [h EXCEPT !.scan_paused = TRUE, !.scan_on_resume = h.is_scanning]
           q == stop_scan(p)
           task == AckPause("scanner")
           g == Post(q, task)
<1>1. p \in Host /\ Grows(h, p) /\ p.tasks = h.tasks
  <2>1. /\ p \in Host /\ p.tasks = h.tasks /\ p.commands = h.commands
        /\ p.registered_clients = h.registered_clients
        /\ p.scan_registered = h.scan_registered
        /\ p.connectability_state = h.connectability_state
        /\ p.pause_connection = h.pause_connection
    BY DEF Host
  <2> HIDE DEF p
  <2> QED
    BY <2>1 DEF Grows
<1> HIDE DEF p
<1>2. Adds(p, q)
  BY <1>1, stop_scan_Adds
<1> HIDE DEF q
<1>3. Adds(p, g) /\ Holds(g.tasks, task)
  BY <1>2, PostCommon, PostedTasks DEF AckPause, Client
<1>4. Grows(h, g)
  BY <1>1, <1>3, GrowsTrans DEF Adds
<1>5. q \in Host /\ q.tasks \in Seq(Task) /\ task \in Task
  BY <1>2, PostedTasks DEF Adds, Grows, Host, AckPause, Client
<1>6. g.tasks = Append(q.tasks, task)
  BY <1>5, PostFields
<1>7. \A k \in DOMAIN h.tasks : k \in DOMAIN q.tasks
  BY <1>1, <1>2 DEF Adds, Grows
<1>8. ASSUME NEW k, k \in DOMAIN h.tasks \/ k = 0
      PROVE  AcksBehind(g, k)
  <2> DEFINE n == Len(q.tasks) + 1
  <2>1. n \in DOMAIN g.tasks /\ g.tasks[n] = task /\ n > k
    BY <1>5, <1>6, <1>7, <1>8
  <2> QED
    BY <2>1 DEF AcksBehind
<1>9. g = scanner_OnPause(h)
  BY DEF scanner_OnPause, g, q, p, task, AckPause
<1> HIDE DEF g
<1>10. Acks(g, t, "scanner")
  BY <1>3 DEF Acks, Comes
<1> QED
  BY <1>3, <1>4, <1>8, <1>9, <1>10

(* All of Triggered but what the clients that are paused wait for. *)
Ready(h, t) == h \in Host /\ Waits(h, t) /\ Behind(h, t) /\ ScanWaits(h, t) /\ Stopping(h)

LEMMA ReadyTriggered ==
  ASSUME NEW h, NEW t
  PROVE  /\ Ready(h, t) /\ Driven(h, t) => Triggered(h, t)
         /\ h \in Host /\ Triggered(h, t) /\ Stopping(h) => Ready(h, t) /\ Driven(h, t)
BY DEF Ready, Triggered

LEMMA OnPauseAcks ==
  ASSUME NEW h \in Host, Stopping(h), NEW t, NEW c \in Client
  PROVE  /\ Grows(h, OnPause(h, c)) /\ Acks(OnPause(h, c), t, c)
         /\ Behind(h, t) => Behind(OnPause(h, c), t)
         /\ ScanWaits(h, t) => ScanWaits(OnPause(h, c), t)
<1> DEFINE g == OnPause(h, c)
<1>1. CASE c = "le"
  <2>1. Adds(h, g) /\ Acks(g, t, c)
    BY <1>1, le_OnPause_Acks DEF OnPause
  <2> HIDE DEF g
  <2>2. Grows(h, g) /\ g.scan_paused = h.scan_paused
    BY <2>1 DEF Adds
  <2>3. Behind(h, t) => Behind(g, t)
    <3>1. \A k : AcksBehind(h, k) => AcksBehind(g, k)
      BY <2>2 DEF AcksBehind, Grows
    <3> QED
      BY <2>2, <3>1 DEF Behind, Grows
  <2>4. ScanWaits(h, t) => ScanWaits(g, t)
    BY <2>2, GrowsComes DEF ScanWaits, ScannerState, Grows
  <2> QED
    BY <2>1, <2>2, <2>3, <2>4 DEF g
<1>2. CASE c = "scanner"
  <2>1. /\ Grows(h, g) /\ Acks(g, t, c) /\ Holds(g.tasks, AckPause("scanner"))
        /\ \A k : k \in DOMAIN h.tasks \/ k = 0 => AcksBehind(g, k)
    BY <1>2, scanner_OnPause_Acks DEF OnPause
  <2> HIDE DEF g
  <2>2. Behind(g, t)
    BY <2>1 DEF Behind, Grows
  <2>3. ScanWaits(g, t)
    BY <2>1 DEF ScanWaits, Comes
  <2> QED
    BY <2>1, <2>2, <2>3 DEF g
<1> QED
  BY <1>1, <1>2 DEF Client

LEMMA pause_client_Ready ==
  ASSUME NEW h, NEW t, Ready(h, t), NEW c \in Client
  PROVE  /\ Ready(pause_client(h, c), t)
         /\ Driven(h, t) => Driven(pause_client(h, c), t)
         /\ Registered(pause_client(h, c)) = Registered(h)
         /\ \A d \in Client : pause_client(h, c).registered_clients[d] = "PAUSED"
                              <=> h.registered_clients[d] = "PAUSED"
         /\ pause_client(h, c).registered_clients[c] \in {Absent, "PAUSED", "WAITING_FOR_PAUSE"}
         /\ \A d \in Client \ {c} :
              pause_client(h, c).registered_clients[d] = h.registered_clients[d]
<1>1. CASE h.registered_clients[c] \in {Absent, "PAUSED", "WAITING_FOR_PAUSE"}
  BY <1>1 DEF pause_client
<1>2. CASE h.registered_clients[c] \notin {Absent, "PAUSED", "WAITING_FOR_PAUSE"}
  <2> DEFINE w == "WAITING_FOR_PAUSE"
             p == SetState(h, c, w)
             g == OnPause(p, c)
  <2>1. g = pause_client(h, c)
    BY <1>2 DEF pause_client
  <2>2. h \in Host /\ w \in ClientStates \cup {Absent} /\ w # Absent /\ w # "PAUSED"
        /\ w # "WAITING_FOR_RESUME"
    BY DEF Ready, ClientStates, Absent
  <2>3. /\ p \in Host /\ p.tasks = h.tasks /\ p.commands = h.commands
        /\ p.registered_clients[c] = w
        /\ \A d \in Client \ {c} : p.registered_clients[d] = h.registered_clients[d]
        /\ p.scan_registered = h.scan_registered /\ p.scan_paused = h.scan_paused
        /\ p.connectability_state = h.connectability_state
    BY <2>2, SetStateFields
  <2>4. p.pause_connection = h.pause_connection
    BY <2>2 DEF SetState, Host
  <2> HIDE DEF p, w
  <2>5. Stopping(p) /\ Behind(p, t) /\ ScanWaits(p, t)
    BY <1>2, <2>2, <2>3 DEF Ready, Stopping, Behind, AcksBehind, ScanWaits, ScannerState, Comes,
                            Client
  <2>6. /\ Grows(p, g) /\ Acks(g, t, c) /\ Behind(g, t) /\ ScanWaits(g, t)
    BY <2>3, <2>5, OnPauseAcks
  <2> HIDE DEF g
  <2>7. Stopping(g) /\ g \in Host /\ g.registered_clients = p.registered_clients
    BY <2>5, <2>6, GrowsStopping DEF Grows
  <2>8. \A d : Acks(h, t, d) => Acks(p, t, d)
    BY <2>3, <2>4 DEF Acks, Comes
  <2>9. \A d : Acks(p, t, d) => Acks(g, t, d)
    BY <2>6, GrowsComes
  <2>10. \A x : Comes(h, t, x) => Comes(g, t, x)
    <3>1. \A x : Comes(h, t, x) => Comes(p, t, x)
      BY <2>3 DEF Comes
    <3> QED
      BY <2>6, <3>1, GrowsComes
  <2>11. Waits(g, t)
    <3> SUFFICES ASSUME NEW d \in Client
                 PROVE  /\ g.registered_clients[d] = "WAITING_FOR_PAUSE" => Acks(g, t, d)
                        /\ g.registered_clients[d] = "WAITING_FOR_RESUME" => Comes(g, t, AckResume(d))
      BY DEF Waits
    <3>1. CASE d = c
      BY <2>2, <2>3, <2>6, <2>7, <3>1
    <3>2. CASE d # c
      BY <2>3, <2>7, <2>8, <2>9, <2>10, <3>2 DEF Ready, Waits
    <3> QED
      BY <3>1, <3>2
  <2>12. Registered(g) = Registered(h)
    BY <1>2, <2>2, <2>3, <2>7 DEF Registered
  <2>13. \A d \in Client : g.registered_clients[d] = "PAUSED" <=> h.registered_clients[d] = "PAUSED"
    BY <1>2, <2>2, <2>3, <2>7
  <2>14. Drives(h, t) => Drives(g, t)
    <3>1. Drives(h, t) => Drives(p, t)
      BY <2>3 DEF Drives, Comes
    <3> QED
      BY <2>6, <3>1, GrowsComes
  <2>15. Driven(h, t) => Driven(g, t)
    BY <2>8, <2>9, <2>12, <2>13, <2>14 DEF Driven, SomePaused
  <2>16. Ready(g, t)
    BY <2>6, <2>7, <2>11 DEF Ready
  <2> QED
    BY <2>1, <2>2, <2>3, <2>7, <2>12, <2>13, <2>15, <2>16 DEF w
<1> QED
  BY <1>1, <1>2

LEMMA pause_registered_Ready ==
  ASSUME NEW h, NEW t, Ready(h, t)
  PROVE  /\ Ready(pause_registered_clients(h), t)
         /\ Driven(h, t) => Driven(pause_registered_clients(h), t)
         /\ Registered(pause_registered_clients(h)) = Registered(h)
         /\ \A c \in Registered(h) :
              pause_registered_clients(h).registered_clients[c] \in {"PAUSED", "WAITING_FOR_PAUSE"}
         /\ \A c \in Client : pause_registered_clients(h).registered_clients[c] = "PAUSED"
                              <=> h.registered_clients[c] = "PAUSED"
<1> DEFINE a == ClientOrder[1]
           b == ClientOrder[2]
           p == pause_client(h, a)
           g == pause_client(p, b)
<1>1. a \in Client /\ b \in Client /\ a # b /\ Client = {a, b}
  BY ClientOrderAssumption DEF Client
<1> HIDE DEF a, b
<1>2. /\ Ready(p, t) /\ (Driven(h, t) => Driven(p, t)) /\ Registered(p) = Registered(h)
      /\ \A c \in Client : p.registered_clients[c] = "PAUSED" <=> h.registered_clients[c] = "PAUSED"
      /\ p.registered_clients[a] \in {Absent, "PAUSED", "WAITING_FOR_PAUSE"}
  BY <1>1, pause_client_Ready
<1> HIDE DEF p
<1>3. /\ Ready(g, t) /\ (Driven(p, t) => Driven(g, t)) /\ Registered(g) = Registered(p)
      /\ \A c \in Client : g.registered_clients[c] = "PAUSED" <=> p.registered_clients[c] = "PAUSED"
      /\ g.registered_clients[b] \in {Absent, "PAUSED", "WAITING_FOR_PAUSE"}
      /\ g.registered_clients[a] = p.registered_clients[a]
  BY <1>1, <1>2, pause_client_Ready
<1>4. g = pause_registered_clients(h)
  BY DEF pause_registered_clients, g, p, a, b
<1> HIDE DEF g
<1>5. \A c \in Registered(h) : g.registered_clients[c] \in {"PAUSED", "WAITING_FOR_PAUSE"}
  <2> SUFFICES ASSUME NEW c \in Registered(g)
               PROVE  g.registered_clients[c] \in {"PAUSED", "WAITING_FOR_PAUSE"}
    BY <1>2, <1>3
  <2>1. c \in {a, b} /\ g.registered_clients[c] # Absent
    BY <1>1 DEF Registered
  <2> QED
    BY <1>2, <1>3, <2>1
<1> QED
  BY <1>2, <1>3, <1>4, <1>5

(* After a pause, what the clients that are paused wait for is the         *)
(* acknowledgement of one that is not.                                     *)
LEMMA pause_registered_Triggered ==
  ASSUME NEW h, NEW t, Ready(h, t), Driven(h, t) \/ ~AllPaused(h)
  PROVE  Triggered(pause_registered_clients(h), t) /\ Stopping(pause_registered_clients(h))
<1> DEFINE g == pause_registered_clients(h)
<1>1. /\ Ready(g, t) /\ (Driven(h, t) => Driven(g, t)) /\ Registered(g) = Registered(h)
      /\ \A c \in Registered(h) : g.registered_clients[c] \in {"PAUSED", "WAITING_FOR_PAUSE"}
      /\ \A c \in Client : g.registered_clients[c] = "PAUSED" <=> h.registered_clients[c] = "PAUSED"
  BY pause_registered_Ready
<1> HIDE DEF g
<1>2. ASSUME ~AllPaused(h)
      PROVE  Driven(g, t)
  <2>1. PICK c \in Registered(h) : h.registered_clients[c] # "PAUSED"
    BY <1>2 DEF AllPaused
  <2>2. c \in Client /\ g.registered_clients[c] = "WAITING_FOR_PAUSE"
    BY <1>1, <2>1 DEF Registered
  <2>3. Acks(g, t, c) /\ c \in Registered(g)
    BY <1>1, <2>1, <2>2 DEF Ready, Waits
  <2> QED
    BY <2>3 DEF Driven
<1> QED
  BY <1>1, <1>2, ReadyTriggered DEF Ready, g

(***************************************************************************)
(* The clients are paused: the next command is sent, or they are resumed.  *)
(***************************************************************************)
Goal(g) == Triggered(g, NoTask) /\ Stopping(g)

(* The scanner is registered, if it wants to be. *)
Known(h) == h.scan_registered => ScannerState(h) # Absent

LEMMA handle_next_Goal ==
  ASSUME NEW h \in Host, AllPaused(h), h.cached_commands # <<>>, Behind(h, NoTask),
         Stopping(h), Known(h)
  PROVE  /\ Goal(handle_next_command(h)) /\ Drives(handle_next_command(h), NoTask)
         /\ handle_next_command(h).registered_clients = h.registered_clients
         /\ Grows(h, handle_next_command(h))
<1> DEFINE c == Head(h.cached_commands)
           t == Tail(h.cached_commands)
           p == [h EXCEPT !.cached_commands = t]
           q == [p EXCEPT !.rotation_alarm = TRUE]
           s == <<"set_random_address", NoAddress>>
           g == handle_next_command(h)
<1>1. c \in CachedCommand /\ t \in Seq(CachedCommand)
  BY DEF Host
<1>2. /\ s \in SentCommand /\ Changing(s)
      /\ c[1] \notin {"rotate", "update_irk"} => c \in SentCommand /\ Changing(c)
  BY <1>1 DEF CachedCommand, SentCommand, ListCommand, ResolvingName, UseName, Changing
<1> HIDE DEF c, t, s
<1>3. Still(h, p) /\ p.pause_connection = h.pause_connection
      /\ p.connectability_state = h.connectability_state
  BY <1>1 DEF Still, Host
<1>4. Still(h, q) /\ q.pause_connection = h.pause_connection
      /\ q.connectability_state = h.connectability_state
  BY <1>1 DEF Still, Host
<1> HIDE DEF p, q
<1>5. g = CASE c[1] = "rotate" -> enqueue_command(q, s)
            [] c[1] = "update_irk" -> enqueue_command(p, s)
            [] OTHER -> enqueue_command(p, c)
  BY DEF handle_next_command, set_random_address, c, t, p, q, s
<1> HIDE DEF g
<1>6. PICK m \in SentCommand : Changing(m) /\ Adds(h, g) /\ Holds(g.commands, m)
  BY <1>2, <1>3, <1>4, <1>5, SendAdds
<1>7. Drives(g, NoTask)
  BY <1>6 DEF Drives, Holds
<1>8. Grows(h, g) /\ g.scan_paused = h.scan_paused
  BY <1>6 DEF Adds
<1>9. g.registered_clients = h.registered_clients /\ Stopping(g)
  BY <1>8, GrowsStopping DEF Grows
<1>10. \A d \in Client : h.registered_clients[d] \in {"PAUSED", Absent}
  BY DEF AllPaused, Registered
<1>11. Waits(g, NoTask) /\ Driven(g, NoTask)
  BY <1>7, <1>9, <1>10 DEF Waits, Driven, Absent
<1>12. Behind(g, NoTask)
  <2>1. \A k : AcksBehind(h, k) => AcksBehind(g, k)
    BY <1>8 DEF AcksBehind, Grows
  <2> QED
    BY <1>8, <2>1 DEF Behind, Grows
<1>13. ScanWaits(g, NoTask)
  BY <1>8, <1>10 DEF ScanWaits, ScannerState, Known, Grows, Client
<1> QED
  BY <1>7, <1>8, <1>9, <1>11, <1>12, <1>13 DEF Goal, Triggered, g

(* A client is called back, and nothing is taken off the queues. *)
Extends(h, g) ==
  /\ g \in Host
  /\ \A i \in DOMAIN h.tasks : i \in DOMAIN g.tasks /\ g.tasks[i] = h.tasks[i]
  /\ \A i \in DOMAIN h.commands : i \in DOMAIN g.commands /\ g.commands[i] = h.commands[i]
  /\ g.connectability_state = "DISARMING" => h.connectability_state = "DISARMING"
  /\ g.registered_clients = h.registered_clients

LEMMA ExtendsTrans ==
  ASSUME NEW h, NEW g, NEW f, Extends(h, g), Extends(g, f)
  PROVE  Extends(h, f)
BY DEF Extends

LEMMA PostExtends ==
  ASSUME NEW h \in Host, NEW task \in Task
  PROVE  /\ Extends(h, Post(h, task)) /\ Holds(Post(h, task).tasks, task)
         /\ Post(h, task).scan_registered = h.scan_registered
         /\ Post(h, task).scan_paused = h.scan_paused
<1> DEFINE g == Post(h, task)
<1>1. /\ g \in Host /\ g.tasks = Append(h.tasks, task) /\ h.tasks \in Seq(Task)
      /\ g.registered_clients = h.registered_clients /\ g.commands = h.commands
      /\ g.scan_registered = h.scan_registered /\ g.scan_paused = h.scan_paused
      /\ g.connectability_state = h.connectability_state
  BY PostFields DEF Host
<1> HIDE DEF g
<1>2. /\ DOMAIN h.tasks = 1 .. Len(h.tasks) /\ DOMAIN g.tasks = 1 .. (Len(h.tasks) + 1)
      /\ Len(h.tasks) \in Nat /\ g.tasks[Len(h.tasks) + 1] = task
      /\ \A i \in DOMAIN h.tasks : g.tasks[i] = h.tasks[i]
  BY <1>1
<1>3. Holds(g.tasks, task)
  BY <1>2 DEF Holds
<1>4. \A i \in DOMAIN h.tasks : i \in DOMAIN g.tasks
  BY <1>2
<1> QED
  BY <1>1, <1>2, <1>3, <1>4 DEF Extends, g

LEMMA AddsExtends ==
  ASSUME NEW h, NEW g, Adds(h, g),
         g.connectability_state = "DISARMING" => h.connectability_state = "DISARMING"
  PROVE  /\ Extends(h, g) /\ g.scan_registered = h.scan_registered /\ g.scan_paused = h.scan_paused
BY DEF Adds, Grows, Extends

LEMMA ResumeTasks ==
  /\ <<"unregister_client", "le">> \in Task
  /\ \A c \in Client : AckResume(c) \in Task
BY DEF Task, ClientTask, Client, AckResume

LEMMA le_OnResume_Extends ==
  ASSUME NEW h \in Host
  PROVE  /\ Extends(h, le_OnResume(h)) /\ Holds(le_OnResume(h).tasks, AckResume("le"))
         /\ le_OnResume(h).scan_registered = h.scan_registered
         /\ le_OnResume(h).scan_paused = h.scan_paused
<1> DEFINE p == [h EXCEPT !.pause_connection = FALSE]
           armed == IF p.arm_on_resume THEN arm_connectability(p) ELSE p
           q == [armed EXCEPT !.arm_on_resume = FALSE]
           g == Post(q, AckResume("le"))
           r == [g EXCEPT !.address_manager_registered = FALSE, !.pause_connection = FALSE,
                          !.ready_to_unregister = FALSE]
           f == Post(r, <<"unregister_client", "le">>)
<1>1. /\ Extends(h, p) /\ p \in Host
      /\ p.scan_registered = h.scan_registered /\ p.scan_paused = h.scan_paused
  BY DEF Extends, Host
<1> HIDE DEF p
<1>2. /\ Extends(h, armed) /\ armed \in Host
      /\ armed.scan_registered = h.scan_registered /\ armed.scan_paused = h.scan_paused
  <2> DEFINE a == arm_connectability(p)
  <2>1. Adds(p, a)
    BY <1>1, connectability_Adds
  <2>2. a.connectability_state = "DISARMING" => p.connectability_state = "DISARMING"
    BY <1>1 DEF arm_connectability, enqueue_command, Host
  <2> HIDE DEF a
  <2>3. Extends(p, a) /\ a.scan_registered = p.scan_registered /\ a.scan_paused = p.scan_paused
    BY <2>1, <2>2, AddsExtends
  <2>4. Extends(h, a)
    BY <1>1, <2>3, ExtendsTrans
  <2> QED
    BY <1>1, <2>3, <2>4 DEF Extends, a
<1> HIDE DEF armed
<1>3. /\ Extends(armed, q) /\ q \in Host
      /\ q.scan_registered = armed.scan_registered /\ q.scan_paused = armed.scan_paused
  BY <1>2 DEF Extends, Host
<1> HIDE DEF q
<1>4. /\ Extends(q, g) /\ g \in Host /\ Holds(g.tasks, AckResume("le"))
      /\ g.scan_registered = q.scan_registered /\ g.scan_paused = q.scan_paused
  BY <1>3, PostExtends, ResumeTasks DEF Client, Extends
<1>5. Extends(h, g)
  BY <1>2, <1>3, <1>4, ExtendsTrans
<1> HIDE DEF g
<1>6. /\ Extends(g, r) /\ r \in Host /\ r.tasks = g.tasks
      /\ r.scan_registered = g.scan_registered /\ r.scan_paused = g.scan_paused
  BY <1>4 DEF Extends, Host
<1> HIDE DEF r
<1>7. /\ Extends(r, f) /\ f.scan_registered = r.scan_registered /\ f.scan_paused = r.scan_paused
  BY <1>6, PostExtends, ResumeTasks
<1>8. Extends(h, f)
  BY <1>5, <1>6, <1>7, ExtendsTrans
<1>9. Holds(f.tasks, AckResume("le"))
  BY <1>4, <1>6, <1>7 DEF Holds, Extends
<1>10. le_OnResume(h) \in {f, g}
  <2>1. le_OnResume(h) = check_for_unregister(g)
    BY DEF le_OnResume, AckResume, g, q, armed, p
  <2> QED
    BY <2>1 DEF check_for_unregister, f, r
<1> HIDE DEF f
<1> QED
  BY <1>2, <1>3, <1>4, <1>5, <1>6, <1>7, <1>8, <1>9, <1>10

LEMMA scanner_OnResume_Extends ==
  ASSUME NEW h \in Host
  PROVE  /\ Extends(h, scanner_OnResume(h))
         /\ Holds(scanner_OnResume(h).tasks, AckResume("scanner"))
         /\ ~scanner_OnResume(h).scan_paused
<1> DEFINE p == [h EXCEPT !.scan_paused = FALSE]
           task == <<"register_client", "scanner">>
           r == IF p.scan_registered THEN p ELSE Post(p, task)
           s == [r EXCEPT !.is_scanning = TRUE, !.scan_registered = TRUE]
           c == <<"scan_on", NoAddress>>
           q == enqueue_command(s, c)
           f == IF p.scan_on_resume THEN q ELSE p
<1>1. Extends(h, p) /\ p \in Host /\ ~p.scan_paused
  BY DEF Extends, Host
<1>2. task \in Task /\ c \in SentCommand
  BY DEF Task, ClientTask, Client, SentCommand, UseName
<1>3. scanner_OnResume(h) = Post(f, AckResume("scanner"))
  BY <1>1 DEF scanner_OnResume, start_scan, AckResume
<1> HIDE DEF p, task, c
<1>4. Extends(p, r) /\ r \in Host /\ ~r.scan_paused
  <2>1. Extends(p, p)
    BY <1>1 DEF Extends
  <2> QED
    BY <1>1, <1>2, <2>1, PostExtends DEF Extends
<1> HIDE DEF r
<1>5. Extends(r, s) /\ s \in Host /\ ~s.scan_paused
  BY <1>4 DEF Extends, Host
<1> HIDE DEF s
<1>6. Extends(s, q) /\ ~q.scan_paused
  <2>1. /\ q \in Host /\ q.commands = Append(s.commands, c) /\ q.tasks = s.tasks
        /\ q.registered_clients = s.registered_clients /\ q.scan_paused = s.scan_paused
        /\ q.connectability_state = s.connectability_state
    BY <1>2, <1>5, SentFields
  <2> HIDE DEF q
  <2>2. \A i \in DOMAIN s.commands : i \in DOMAIN q.commands /\ q.commands[i] = s.commands[i]
    BY <1>2, <1>5, <2>1, SentLonger
  <2> QED
    BY <1>5, <2>1, <2>2 DEF Extends
<1> HIDE DEF q
<1>7. Extends(h, q)
  BY <1>1, <1>4, <1>5, <1>6, ExtendsTrans
<1>8. Extends(h, f) /\ f \in Host /\ ~f.scan_paused
  BY <1>1, <1>6, <1>7 DEF Extends
<1> HIDE DEF f
<1> DEFINE g == Post(f, AckResume("scanner"))
<1>9. Extends(f, g) /\ Holds(g.tasks, AckResume("scanner")) /\ ~g.scan_paused
  BY <1>8, PostExtends, ResumeTasks DEF Client
<1>10. Extends(h, g)
  BY <1>8, <1>9, ExtendsTrans
<1> QED
  BY <1>3, <1>9, <1>10

LEMMA resume_client_Resumes ==
  ASSUME NEW h \in Host, NEW c \in Client
  PROVE  /\ resume_client(h, c) \in Host
         /\ Stopping(h) => Stopping(resume_client(h, c))
         /\ \A x : Holds(h.tasks, x) => Holds(resume_client(h, c).tasks, x)
         /\ resume_client(h, c).registered_clients[c] \in {Absent, "WAITING_FOR_RESUME"}
         /\ resume_client(h, c).registered_clients[c] # Absent
              => Holds(resume_client(h, c).tasks, AckResume(c))
         /\ \A d \in Client \ {c} :
              resume_client(h, c).registered_clients[d] = h.registered_clients[d]
         /\ IF c = "scanner" /\ c \in Registered(h) THEN ~resume_client(h, c).scan_paused
            ELSE /\ resume_client(h, c).scan_registered = h.scan_registered
                 /\ resume_client(h, c).scan_paused = h.scan_paused
<1>1. CASE c \notin Registered(h)
  BY <1>1 DEF resume_client, Registered
<1>2. CASE c \in Registered(h)
  <2> DEFINE w == "WAITING_FOR_RESUME"
             p == SetState(h, c, w)
             g == OnResume(p, c)
  <2>1. g = resume_client(h, c)
    BY <1>2 DEF resume_client
  <2>2. w \in ClientStates \cup {Absent}
    BY DEF ClientStates
  <2>3. /\ p \in Host /\ p.tasks = h.tasks /\ p.commands = h.commands
        /\ p.registered_clients[c] = w
        /\ \A d \in Client \ {c} : p.registered_clients[d] = h.registered_clients[d]
        /\ p.scan_registered = h.scan_registered /\ p.scan_paused = h.scan_paused
        /\ p.connectability_state = h.connectability_state
    BY <2>2, SetStateFields
  <2> HIDE DEF p
  <2>4. /\ Extends(p, g) /\ Holds(g.tasks, AckResume(c))
        /\ IF c = "scanner" THEN ~g.scan_paused
           ELSE g.scan_registered = p.scan_registered /\ g.scan_paused = p.scan_paused
    BY <2>3, le_OnResume_Extends, scanner_OnResume_Extends DEF OnResume, Client
  <2> HIDE DEF g
  <2>5. \A x : Holds(h.tasks, x) => Holds(g.tasks, x)
    BY <2>3, <2>4 DEF Holds, Extends
  <2>6. Stopping(h) => Stopping(g)
    <3>1. Stopping(h) => Stopping(p)
      BY <2>3 DEF Stopping
    <3>2. Stopping(p) => Stopping(g)
      BY <2>4 DEF Stopping, Holds, Extends
    <3> QED
      BY <3>1, <3>2
  <2>7. g \in Host /\ g.registered_clients = p.registered_clients
    BY <2>4 DEF Extends
  <2> QED
    BY <1>2, <2>1, <2>3, <2>4, <2>5, <2>6, <2>7
<1> QED
  BY <1>1, <1>2

LEMMA resume_registered_Goal ==
  ASSUME NEW h \in Host, h.cached_commands = <<>>, Stopping(h), Known(h)
  PROVE  /\ Goal(resume_registered_clients(h)) /\ ~SomePaused(resume_registered_clients(h))
         /\ resume_registered_clients(h) \in Host
<1> DEFINE a == ClientOrder[1]
           b == ClientOrder[2]
           p == resume_client(h, a)
           g == resume_client(p, b)
<1>1. a \in Client /\ b \in Client /\ a # b /\ Client = {a, b} /\ "scanner" \in {a, b}
  BY ClientOrderAssumption DEF Client
<1>2. g = resume_registered_clients(h)
  BY DEF resume_registered_clients
<1> HIDE DEF a, b
<1>3. /\ p \in Host /\ Stopping(p)
      /\ p.registered_clients[a] \in {Absent, "WAITING_FOR_RESUME"}
      /\ p.registered_clients[a] # Absent => Holds(p.tasks, AckResume(a))
      /\ p.registered_clients[b] = h.registered_clients[b]
      /\ IF a = "scanner" /\ a \in Registered(h) THEN ~p.scan_paused
         ELSE p.scan_registered = h.scan_registered /\ p.scan_paused = h.scan_paused
  BY <1>1, resume_client_Resumes
<1> HIDE DEF p
<1>4. /\ g \in Host /\ Stopping(g)
      /\ \A x : Holds(p.tasks, x) => Holds(g.tasks, x)
      /\ g.registered_clients[b] \in {Absent, "WAITING_FOR_RESUME"}
      /\ g.registered_clients[b] # Absent => Holds(g.tasks, AckResume(b))
      /\ g.registered_clients[a] = p.registered_clients[a]
      /\ IF b = "scanner" /\ b \in Registered(p) THEN ~g.scan_paused
         ELSE g.scan_registered = p.scan_registered /\ g.scan_paused = p.scan_paused
  BY <1>1, <1>3, resume_client_Resumes
<1> HIDE DEF g
<1>5. \A c \in Client : /\ g.registered_clients[c] \in {Absent, "WAITING_FOR_RESUME"}
                        /\ g.registered_clients[c] # Absent => Holds(g.tasks, AckResume(c))
  BY <1>1, <1>3, <1>4
<1>6. g.scan_registered => ~g.scan_paused
  <2>1. "scanner" \in Registered(h) <=> h.registered_clients["scanner"] # Absent
    BY <1>1 DEF Registered
  <2>2. b = "scanner" => (b \in Registered(p) <=> "scanner" \in Registered(h))
    BY <1>1, <1>3, <2>1 DEF Registered
  <2>3. h.scan_registered => "scanner" \in Registered(h)
    BY <2>1 DEF Known, ScannerState
  <2> QED
    BY <1>1, <1>3, <1>4, <2>2, <2>3
<1>7. ~SomePaused(g)
  BY <1>5 DEF SomePaused, Absent
<1>8. Waits(g, NoTask)
  BY <1>5 DEF Waits, Comes, Absent
<1>9. Driven(g, NoTask) /\ Behind(g, NoTask) /\ ScanWaits(g, NoTask)
  BY <1>6, <1>7 DEF Driven, Behind, ScanWaits, AcksBehind, Ordered, NoTask, Unregister, AckResume
<1> QED
  BY <1>2, <1>4, <1>7, <1>8, <1>9 DEF Goal, Triggered

LEMMA AllPausedSame ==
  ASSUME NEW h
  PROVE  AllPaused(h) <=> \A c \in Client : h.registered_clients[c] \in {"PAUSED", Absent}
BY DEF AllPaused, Registered

(* check_cached_commands brings the next step, whatever the state was. *)
LEMMA check_cached_Goal ==
  ASSUME NEW h, Ready(h, NoTask), Known(h)
  PROVE  Goal(check_cached_commands(h))
<1>1. h \in Host /\ Behind(h, NoTask) /\ Stopping(h)
  BY DEF Ready
<1>2. CASE ~AllPaused(h) /\ h.cached_commands # <<>>
  <2>1. check_cached_commands(h) = pause_registered_clients(h)
    BY <1>2 DEF check_cached_commands
  <2> QED
    BY <1>2, <2>1, pause_registered_Triggered DEF Goal
<1>3. CASE h.cached_commands = <<>>
  <2>1. check_cached_commands(h) = resume_registered_clients(h)
    BY <1>3 DEF check_cached_commands
  <2> QED
    BY <1>1, <1>3, <2>1, resume_registered_Goal
<1>4. CASE AllPaused(h) /\ h.cached_commands # <<>>
  <2>1. check_cached_commands(h) = handle_next_command(h)
    BY <1>4 DEF check_cached_commands
  <2> QED
    BY <1>1, <1>4, <2>1, handle_next_Goal
<1> QED
  BY <1>2, <1>3, <1>4

(* What ack_pause does, c being paused now: the next step if every client  *)
(* is, and otherwise another one will acknowledge.                         *)
LEMMA AfterPauseGoal ==
  ASSUME NEW g, Ready(g, NoTask), Known(g)
  PROVE  Goal(AfterPause(g))
<1>1. g \in Host /\ Stopping(g)
  BY DEF Ready
<1>2. CASE AllPaused(g)
  BY <1>2, check_cached_Goal DEF AfterPause
<1>3. CASE ~AllPaused(g)
  <2> DEFINE first == IF g.registered_clients[ClientOrder[1]] \in {Absent, "PAUSED"}
                      THEN ClientOrder[2] ELSE ClientOrder[1]
             f == IF g.registered_clients[first] = "WAITING_FOR_PAUSE" THEN g
                  ELSE OnPause(g, first)
  <2>1. AfterPause(g) = f
    BY <1>3 DEF AfterPause
  <2>2. first \in Client /\ g.registered_clients[first] \notin {Absent, "PAUSED"}
    <3>1. PICK c \in Client : g.registered_clients[c] \notin {Absent, "PAUSED"}
      BY <1>3, AllPausedSame
    <3> QED
      BY <3>1, ClientOrderAssumption DEF Client
  <2>3. first \in Registered(g)
    BY <2>2 DEF Registered
  <2> HIDE DEF first
  <2>4. CASE g.registered_clients[first] = "WAITING_FOR_PAUSE"
    <3>1. Acks(g, NoTask, first)
      BY <2>2, <2>4 DEF Ready, Waits
    <3>2. Driven(g, NoTask)
      BY <2>3, <3>1 DEF Driven
    <3> QED
      BY <1>1, <2>1, <2>4, <3>2, ReadyTriggered DEF Goal
  <2>5. CASE g.registered_clients[first] # "WAITING_FOR_PAUSE"
    <3> DEFINE p == OnPause(g, first)
    <3>1. /\ Grows(g, p) /\ Acks(p, NoTask, first) /\ Behind(p, NoTask) /\ ScanWaits(p, NoTask)
      BY <1>1, <2>2, OnPauseAcks DEF Ready
    <3> HIDE DEF p
    <3>2. Stopping(p) /\ Registered(p) = Registered(g)
      BY <1>1, <3>1, GrowsStopping, GrowsComes
    <3>3. Driven(p, NoTask)
      BY <2>3, <3>1, <3>2 DEF Driven
    <3>4. Waits(p, NoTask)
      BY <3>1, GrowsComes DEF Ready, Waits, Grows
    <3> QED
      BY <2>1, <2>5, <3>1, <3>2, <3>3, <3>4 DEF Goal, Triggered, p
  <2> QED
    BY <2>4, <2>5
<1> QED
  BY <1>2, <1>3

(***************************************************************************)
(* Acknowledgements.                                                       *)
(***************************************************************************)

(* What is expected of every client but c. *)
WaitsBut(h, c) ==
  \A d \in Client \ {c} :
    /\ h.registered_clients[d] = "WAITING_FOR_PAUSE" => Acks(h, NoTask, d)
    /\ h.registered_clients[d] = "WAITING_FOR_RESUME" => Comes(h, NoTask, AckResume(d))
ReadyBut(h, c) ==
  /\ h \in Host /\ WaitsBut(h, c) /\ Behind(h, NoTask) /\ Stopping(h)
  /\ c # "scanner" => ScanWaits(h, NoTask)

LEMMA Apart ==
  ASSUME NEW c \in Client, NEW d \in Client
  PROVE  /\ AckPause(c) = AckPause(d) <=> c = d
         /\ AckResume(c) = AckResume(d) <=> c = d
         /\ AckPause(c) # AckResume(d) /\ AckPause(c) # Unregister(d)
         /\ AckResume(c) # Unregister(d)
         /\ Unregister(c) = Unregister(d) <=> c = d
         /\ AckPause(c) \notin CancelEnds \cup {CancelFails, <<"OnCommandComplete", NoAddress>>,
                                <<"check_cached_commands", "le">>}
         /\ AckResume(c) \notin CancelEnds \cup {CancelFails, <<"OnCommandComplete", NoAddress>>,
                                 <<"check_cached_commands", "le">>}
         /\ Unregister(c) \notin CancelEnds \cup {CancelFails, <<"OnCommandComplete", NoAddress>>,
                                  <<"check_cached_commands", "le">>}
BY DEF AckPause, AckResume, Unregister, CancelEnds, CancelFails

LEMMA AcksElse ==
  ASSUME NEW h, NEW t, NEW c \in Client,
         t \in {AckPause(c), AckResume(c), Unregister(c)}
  PROVE  /\ \A d \in Client \ {c} : Acks(h, t, d) => Acks(h, NoTask, d)
         /\ \A d \in Client \ {c} : Comes(h, t, AckPause(d)) => Comes(h, NoTask, AckPause(d))
         /\ \A d \in Client \ {c} : Comes(h, t, AckResume(d)) => Comes(h, NoTask, AckResume(d))
         /\ Drives(h, t) => Drives(h, NoTask)
         /\ t # AckPause(c) => \A d \in Client : /\ Acks(h, t, d) => Acks(h, NoTask, d)
                                                 /\ Comes(h, t, AckPause(d)) => Comes(h, NoTask, AckPause(d))
<1>1. /\ t \notin CancelEnds \cup {CancelFails, <<"OnCommandComplete", NoAddress>>,
                   <<"check_cached_commands", "le">>}
      /\ \A d \in Client \ {c} : t # AckPause(d) /\ t # AckResume(d)
      /\ t # AckPause(c) => \A d \in Client : t # AckPause(d)
  BY Apart
<1> QED
  BY <1>1 DEF Acks, Drives, Comes

LEMMA PausedGoal ==
  ASSUME NEW h, NEW c \in Client, ReadyBut(h, c), Known(h), c \in Registered(h)
  PROVE  /\ Ready(SetState(h, c, "PAUSED"), NoTask) /\ Known(SetState(h, c, "PAUSED"))
         /\ Goal(AfterPause(SetState(h, c, "PAUSED")))
<1> DEFINE p == "PAUSED"
           g == SetState(h, c, p)
<1>1. p \in ClientStates \cup {Absent} /\ h \in Host
  BY DEF ClientStates, ReadyBut
<1>2. /\ g \in Host /\ g.tasks = h.tasks /\ g.commands = h.commands
      /\ g.registered_clients[c] = p
      /\ \A d \in Client \ {c} : g.registered_clients[d] = h.registered_clients[d]
      /\ g.scan_registered = h.scan_registered /\ g.scan_paused = h.scan_paused
      /\ g.connectability_state = h.connectability_state
  BY <1>1, SetStateFields
<1>3. g.pause_connection = h.pause_connection
  BY <1>1 DEF SetState, Host
<1> HIDE DEF g
<1>4. \A d \in Client : Acks(h, NoTask, d) => Acks(g, NoTask, d)
  BY <1>2, <1>3 DEF Acks, Comes
<1>5. Waits(g, NoTask)
  BY <1>2, <1>4 DEF ReadyBut, WaitsBut, Waits, Comes
<1>6. Behind(g, NoTask) /\ Stopping(g)
  BY <1>2 DEF ReadyBut, Behind, AcksBehind, Stopping
<1>7. ScanWaits(g, NoTask)
  BY <1>2 DEF ReadyBut, ScanWaits, ScannerState, Comes, Client
<1>8. Known(g)
  BY <1>2 DEF Known, ScannerState, Absent, Client
<1>9. Ready(g, NoTask)
  BY <1>2, <1>5, <1>6, <1>7 DEF Ready
<1> QED
  BY <1>8, <1>9, AfterPauseGoal DEF g

LEMMA ack_pause_Goal ==
  ASSUME NEW h \in Host, NEW c \in Client, Triggered(h, AckPause(c)), Stopping(h), Known(h)
  PROVE  Goal(ack_pause(h, c))
<1> DEFINE t == AckPause(c)
<1>1. /\ \A d \in Client \ {c} : Acks(h, t, d) => Acks(h, NoTask, d)
      /\ \A d \in Client \ {c} : Comes(h, t, AckPause(d)) => Comes(h, NoTask, AckPause(d))
      /\ \A d \in Client \ {c} : Comes(h, t, AckResume(d)) => Comes(h, NoTask, AckResume(d))
      /\ Drives(h, t) => Drives(h, NoTask)
  BY AcksElse
<1>2. t \notin Ordered /\ NoTask \notin Ordered
  BY DEF Ordered, AckPause, AckResume, Unregister, NoTask
<1> HIDE DEF t
<1>3. Triggered(h, t)
  BY DEF t
<1>4. Behind(h, NoTask) /\ WaitsBut(h, c)
  BY <1>1, <1>2, <1>3 DEF Triggered, Behind, Waits, WaitsBut
<1>5. c # "scanner" => ScanWaits(h, NoTask)
  BY <1>1, <1>3 DEF Triggered, ScanWaits, Client
<1>6. CASE c \in Registered(h)
  BY <1>4, <1>5, <1>6, PausedGoal, ack_pause_AfterPause DEF ReadyBut
<1>7. CASE c \notin Registered(h)
  <2>1. h.registered_clients[c] = Absent
    BY <1>7 DEF Registered
  <2>2. Waits(h, NoTask)
    BY <1>4, <2>1 DEF WaitsBut, Waits, Absent
  <2>3. Driven(h, NoTask)
    BY <1>1, <1>3, <1>7 DEF Triggered, Driven, Registered
  <2>4. ScanWaits(h, NoTask)
    BY <1>5, <2>1 DEF ScanWaits, Known, ScannerState
  <2> QED
    BY <1>4, <1>7, <2>2, <2>3, <2>4, ack_pause_AfterPause DEF Goal, Triggered
<1> QED
  BY <1>6, <1>7

(* A client changes its state, and the queues do not. *)
LEMMA SetStateKeeps ==
  ASSUME NEW h \in Host, NEW c \in Client, NEW state \in ClientStates \cup {Absent}
  PROVE  /\ SetState(h, c, state) \in Host
         /\ \A t : Behind(h, t) => Behind(SetState(h, c, state), t)
         /\ Stopping(h) => Stopping(SetState(h, c, state))
         /\ \A t, d : Acks(h, t, d) => Acks(SetState(h, c, state), t, d)
         /\ \A t, x : Comes(h, t, x) => Comes(SetState(h, c, state), t, x)
         /\ \A t : Drives(h, t) => Drives(SetState(h, c, state), t)
         /\ SetState(h, c, state).scan_registered = h.scan_registered
         /\ SetState(h, c, state).scan_paused = h.scan_paused
         /\ SetState(h, c, state).registered_clients[c] = state
         /\ \A d \in Client \ {c} :
              SetState(h, c, state).registered_clients[d] = h.registered_clients[d]
<1> DEFINE g == SetState(h, c, state)
<1>1. /\ g \in Host /\ g.tasks = h.tasks /\ g.commands = h.commands
      /\ g.registered_clients[c] = state
      /\ \A d \in Client \ {c} : g.registered_clients[d] = h.registered_clients[d]
      /\ g.scan_registered = h.scan_registered /\ g.scan_paused = h.scan_paused
      /\ g.connectability_state = h.connectability_state
  BY SetStateFields
<1>2. g.pause_connection = h.pause_connection
  BY DEF SetState, Host
<1> HIDE DEF g
<1>3. Stopping(h) => Stopping(g)
  BY <1>1 DEF Stopping
<1>4. \A t : Behind(h, t) => Behind(g, t)
  BY <1>1 DEF Behind, AcksBehind
<1>5. \A t, x : Comes(h, t, x) => Comes(g, t, x)
  BY <1>1 DEF Comes
<1>6. \A t, d : Acks(h, t, d) => Acks(g, t, d)
  BY <1>1, <1>2, <1>5 DEF Acks
<1>7. \A t : Drives(h, t) => Drives(g, t)
  BY <1>1, <1>5 DEF Drives
<1> QED
  BY <1>1, <1>3, <1>4, <1>5, <1>6, <1>7 DEF g

LEMMA ack_resume_Goal ==
  ASSUME NEW h \in Host, NEW c \in Client, Triggered(h, AckResume(c)), Stopping(h)
  PROVE  Goal(ack_resume(h, c))
<1> DEFINE t == AckResume(c)
           r == "RESUMED"
           g == SetState(h, c, r)
<1>1. /\ \A d \in Client \ {c} : Comes(h, t, AckResume(d)) => Comes(h, NoTask, AckResume(d))
      /\ Drives(h, t) => Drives(h, NoTask)
      /\ \A d \in Client : Acks(h, t, d) => Acks(h, NoTask, d)
      /\ \A d \in Client : Comes(h, t, AckPause(d)) => Comes(h, NoTask, AckPause(d))
  BY AcksElse, Apart
<1>2. NoTask \notin Ordered /\ (c = "scanner" => t \in Ordered)
  BY DEF Ordered, AckPause, AckResume, Unregister, NoTask
<1> HIDE DEF t
<1>3. Triggered(h, t)
  BY DEF t
<1>4. Behind(h, NoTask) /\ WaitsBut(h, c) /\ Driven(h, NoTask) /\ ScanWaits(h, NoTask)
  <2>1. Behind(h, NoTask) /\ WaitsBut(h, c)
    BY <1>1, <1>2, <1>3 DEF Triggered, Behind, Waits, WaitsBut
  <2>2. Driven(h, NoTask)
    BY <1>1, <1>3 DEF Triggered, Driven, Registered
  <2>3. ScanWaits(h, NoTask)
    BY <1>1, <1>3 DEF Triggered, ScanWaits, Client
  <2> QED
    BY <2>1, <2>2, <2>3
<1>5. CASE c \notin Registered(h)
  <2>1. h.registered_clients[c] = Absent
    BY <1>5 DEF Registered
  <2>2. Waits(h, NoTask)
    BY <1>4, <2>1 DEF WaitsBut, Waits, Absent
  <2> QED
    BY <1>4, <1>5, <2>2 DEF Goal, Triggered, ack_resume
<1>6. CASE c \in Registered(h)
  <2>1. r \in ClientStates \cup {Absent}
    BY DEF ClientStates
  <2>2. /\ Behind(g, NoTask) /\ Stopping(g)
        /\ \A d : Acks(h, NoTask, d) => Acks(g, NoTask, d)
        /\ \A x : Comes(h, NoTask, x) => Comes(g, NoTask, x)
        /\ Drives(h, NoTask) => Drives(g, NoTask)
        /\ g.scan_registered = h.scan_registered /\ g.scan_paused = h.scan_paused
        /\ g.registered_clients[c] = r
        /\ \A d \in Client \ {c} : g.registered_clients[d] = h.registered_clients[d]
    BY <1>4, <2>1, SetStateKeeps
  <2> HIDE DEF g
  <2>3. Waits(g, NoTask)
    BY <1>4, <2>2 DEF WaitsBut, Waits
  <2>4. Registered(g) = Registered(h)
    BY <1>6, <2>2 DEF Registered, Absent
  <2>5. Driven(g, NoTask)
    BY <1>4, <2>2, <2>4 DEF Driven, SomePaused
  <2>6. c = "scanner" /\ h.scan_registered /\ h.scan_paused => Comes(h, NoTask, AckPause("scanner"))
    BY <1>2, <1>3 DEF Triggered, Behind, AcksBehind, Comes, Holds
  <2>7. ScanWaits(g, NoTask)
    BY <1>4, <2>2, <2>6 DEF ScanWaits, ScannerState, Client
  <2> QED
    BY <1>6, <2>2, <2>3, <2>5, <2>7 DEF Goal, Triggered, ack_resume, g
<1> QED
  BY <1>5, <1>6

(***************************************************************************)
(* Clients register and unregister.                                        *)
(***************************************************************************)
LEMMA AddsGoal ==
  ASSUME NEW h, NEW g, Adds(h, g), Goal(h)
  PROVE  Goal(g)
BY AddsTriggered, GrowsStopping DEF Goal, Adds

LEMMA RotationGoal ==
  ASSUME NEW h \in Host, NEW b \in BOOLEAN, Goal(h)
  PROVE  Goal([h EXCEPT !.rotation_alarm = b])
<1> DEFINE g == [h EXCEPT !.rotation_alarm = b]
<1>1. /\ Still(h, g) /\ g.pause_connection = h.pause_connection
      /\ g.connectability_state = h.connectability_state
  BY DEF Still, Host
<1> HIDE DEF g
<1>2. Adds(h, g)
  BY <1>1, StillAdds
<1> QED
  BY <1>2, AddsGoal DEF g

LEMMA register_client_Goal ==
  ASSUME NEW h \in Host, NEW c \in Client, Goal(h)
  PROVE  Goal(register_client(h, c))
<1> DEFINE r == "RESUMED"
           k == SetState(h, c, r)
           g == IF c \in Registered(h) THEN h ELSE k
<1>1. r \in ClientStates \cup {Absent}
  BY DEF ClientStates
<1>2. Goal(g) /\ g \in Host
  <2>1. CASE c \in Registered(h)
    BY <2>1
  <2>2. CASE c \notin Registered(h)
    <3>1. h.registered_clients[c] = Absent
      BY <2>2 DEF Registered
    <3>2. Triggered(h, NoTask) /\ Stopping(h)
      BY DEF Goal
    <3>3. /\ k \in Host /\ Behind(k, NoTask) /\ Stopping(k)
          /\ \A d : Acks(h, NoTask, d) => Acks(k, NoTask, d)
          /\ \A x : Comes(h, NoTask, x) => Comes(k, NoTask, x)
          /\ Drives(h, NoTask) => Drives(k, NoTask)
          /\ k.scan_registered = h.scan_registered /\ k.scan_paused = h.scan_paused
          /\ k.registered_clients[c] = r
          /\ \A d \in Client \ {c} : k.registered_clients[d] = h.registered_clients[d]
      BY <1>1, <3>2, SetStateKeeps DEF Triggered
    <3> HIDE DEF k
    <3>4. Waits(k, NoTask)
      BY <3>2, <3>3 DEF Waits, Triggered
    <3>5. Registered(h) \subseteq Registered(k)
      BY <2>2, <3>3 DEF Registered
    <3>6. Driven(k, NoTask)
      BY <3>2, <3>3, <3>5 DEF Driven, SomePaused, Triggered
    <3>7. ScanWaits(k, NoTask)
      BY <3>1, <3>2, <3>3 DEF ScanWaits, ScannerState, Triggered, Client, Absent
    <3> QED
      BY <2>2, <3>3, <3>4, <3>6, <3>7 DEF Goal, Triggered
  <2> QED
    BY <2>1, <2>2
<1>3. register_client(h, c) \in {g, [g EXCEPT !.rotation_alarm = TRUE]}
  BY DEF register_client
<1> HIDE DEF g
<1> QED
  BY <1>2, <1>3, RotationGoal

LEMMA unregister_Erased ==
  ASSUME NEW h, NEW c \in Client, Unregistering(h, c) \in Host,
         Goal(SetState(Unregistering(h, c), c, Absent))
  PROVE  Goal(unregister_client(h, c))
<1> DEFINE k == Unregistering(h, c)
           g == SetState(k, c, Absent)
<1>1. unregister_client(h, c) \in {g, [g EXCEPT !.rotation_alarm = FALSE]}
  BY DEF unregister_client, Unregistering
<1>2. g \in Host
  BY SetStateFields
<1> HIDE DEF g
<1> QED
  BY <1>1, <1>2, RotationGoal DEF g

(* Erasing a client is safe if no one else is left paused, or what will    *)
(* wake the other one comes from elsewhere.                                *)
LEMMA ErasedGoal ==
  ASSUME NEW h \in Host, NEW c \in Client, WaitsBut(h, c), Behind(h, NoTask), Stopping(h),
         h.scan_registered => c # "scanner" /\ ScanWaits(h, NoTask),
         (\E d \in Client \ {c} : h.registered_clients[d] = "PAUSED") =>
           Drives(h, NoTask) \/ \E d \in Registered(h) \ {c} : Acks(h, NoTask, d)
  PROVE  Goal(SetState(h, c, Absent))
<1> DEFINE k == SetState(h, c, Absent)
<1>1. /\ k \in Host /\ Behind(k, NoTask) /\ Stopping(k)
      /\ \A d : Acks(h, NoTask, d) => Acks(k, NoTask, d)
      /\ \A x : Comes(h, NoTask, x) => Comes(k, NoTask, x)
      /\ Drives(h, NoTask) => Drives(k, NoTask)
      /\ k.scan_registered = h.scan_registered /\ k.scan_paused = h.scan_paused
      /\ k.registered_clients[c] = Absent
      /\ \A d \in Client \ {c} : k.registered_clients[d] = h.registered_clients[d]
  BY SetStateKeeps
<1> HIDE DEF k
<1>2. Waits(k, NoTask)
  BY <1>1 DEF Waits, WaitsBut, Absent
<1>3. Registered(h) \ {c} \subseteq Registered(k)
  BY <1>1 DEF Registered
<1>4. Driven(k, NoTask)
  BY <1>1, <1>3 DEF Driven, SomePaused, Absent
<1>5. ScanWaits(k, NoTask)
  BY <1>1 DEF ScanWaits, ScannerState, Client
<1> QED
  BY <1>1, <1>2, <1>4, <1>5 DEF Goal, Triggered, k

LEMMA check_cached_Wakes ==
  ASSUME NEW h, Ready(h, NoTask), Known(h), AllPaused(h)
  PROVE  /\ check_cached_commands(h) \in Host
         /\ SomePaused(check_cached_commands(h)) => Drives(check_cached_commands(h), NoTask)
         /\ h.cached_commands # <<>> =>
              /\ check_cached_commands(h).registered_clients = h.registered_clients
              /\ check_cached_commands(h).scan_registered = h.scan_registered
<1>1. h \in Host /\ Behind(h, NoTask) /\ Stopping(h)
  BY DEF Ready
<1>2. CASE h.cached_commands = <<>>
  <2>1. check_cached_commands(h) = resume_registered_clients(h)
    BY <1>2 DEF check_cached_commands
  <2> QED
    BY <1>1, <1>2, <2>1, resume_registered_Goal
<1>3. CASE h.cached_commands # <<>>
  <2>1. check_cached_commands(h) = handle_next_command(h)
    BY <1>3 DEF check_cached_commands
  <2>2. /\ Drives(handle_next_command(h), NoTask) /\ Grows(h, handle_next_command(h))
        /\ handle_next_command(h).registered_clients = h.registered_clients
    BY <1>1, <1>3, handle_next_Goal
  <2> QED
    BY <1>1, <1>3, <2>1, <2>2 DEF Grows
<1> QED
  BY <1>2, <1>3

(* If some client is not paused yet, ack_pause may call its OnPause, and   *)
(* leaves the registrations.                                               *)
LEMMA AfterPauseSame ==
  ASSUME NEW g, Ready(g, NoTask), ~AllPaused(g)
  PROVE  /\ AfterPause(g) \in Host /\ AfterPause(g).registered_clients = g.registered_clients
         /\ AfterPause(g).scan_registered = g.scan_registered
<1> DEFINE first == IF g.registered_clients[ClientOrder[1]] \in {Absent, "PAUSED"}
                    THEN ClientOrder[2] ELSE ClientOrder[1]
<1>1. g \in Host /\ Stopping(g)
  BY DEF Ready
<1>2. first \in Client
  BY ClientOrderAssumption DEF Client
<1> HIDE DEF first
<1>3. AfterPause(g) \in {g, OnPause(g, first)}
  BY DEF AfterPause, first
<1>4. Grows(g, OnPause(g, first))
  BY <1>1, <1>2, OnPauseAcks
<1> QED
  BY <1>1, <1>3, <1>4 DEF Grows

(* le_impl unregisters. *)
LEMMA unregister_le_Goal ==
  ASSUME NEW h \in Host, Triggered(h, Unregister("le")), Stopping(h), Synced(h)
  PROVE  Goal(unregister_client(h, "le"))
<1> DEFINE c == "le"
           t == Unregister(c)
           s == h.registered_clients[c]
           k == Unregistering(h, c)
<1>1. c \in Client /\ "scanner" \in Client /\ \A d \in Client \ {c} : d = "scanner"
  BY DEF Client
<1>2. /\ \A d \in Client \ {c} : Comes(h, t, AckResume(d)) => Comes(h, NoTask, AckResume(d))
      /\ Drives(h, t) => Drives(h, NoTask)
      /\ \A d \in Client : Acks(h, t, d) => Acks(h, NoTask, d)
      /\ \A d \in Client : Comes(h, t, AckPause(d)) => Comes(h, NoTask, AckPause(d))
  BY <1>1, AcksElse, Apart
<1>3. NoTask \notin Ordered /\ t \in Ordered
  BY DEF Ordered, AckPause, AckResume, Unregister, NoTask
<1> HIDE DEF t
<1>4. Triggered(h, t) /\ Known(h)
  BY DEF t, Synced, Known
<1>5. Behind(h, NoTask) /\ WaitsBut(h, c) /\ ScanWaits(h, NoTask)
  <2>1. Behind(h, NoTask) /\ WaitsBut(h, c)
    BY <1>2, <1>3, <1>4 DEF Triggered, Behind, Waits, WaitsBut
  <2>2. ScanWaits(h, NoTask)
    BY <1>1, <1>2, <1>4 DEF Triggered, ScanWaits
  <2> QED
    BY <2>1, <2>2
<1>6. CASE s = "WAITING_FOR_PAUSE"
  <2> DEFINE g == SetState(h, c, "PAUSED")
  <2>1. c \in Registered(h)
    BY <1>1, <1>6 DEF Registered, Absent
  <2>2. k = AfterPause(g)
    BY <1>6, <2>1, ack_pause_AfterPause DEF Unregistering
  <2>3. Ready(g, NoTask) /\ Known(g) /\ Goal(AfterPause(g))
    BY <1>1, <1>4, <1>5, <2>1, PausedGoal DEF ReadyBut
  <2>4. g.registered_clients[c] = "PAUSED"
    BY <1>1, SetStateFields DEF ClientStates
  <2> HIDE DEF g, k
  <2>5. k \in Host /\ (k.registered_clients["scanner"] = "PAUSED" => Drives(k, NoTask))
    <3>1. CASE AllPaused(g)
      <4>1. k = check_cached_commands(g)
        BY <2>2, <3>1 DEF AfterPause
      <4> QED
        BY <1>1, <2>3, <3>1, <4>1, check_cached_Wakes DEF SomePaused
    <3>2. CASE ~AllPaused(g)
      <4>1. /\ k \in Host /\ k.registered_clients = g.registered_clients
        BY <2>2, <2>3, <3>2, AfterPauseSame
      <4>2. g.registered_clients["scanner"] # "PAUSED"
        BY <1>1, <2>4, <3>2, AllPausedSame
      <4> QED
        BY <4>1, <4>2
    <3> QED
      BY <3>1, <3>2
  <2>6. WaitsBut(k, c) /\ Behind(k, NoTask) /\ ScanWaits(k, NoTask) /\ Stopping(k)
    BY <2>2, <2>3 DEF Goal, Triggered, Waits, WaitsBut
  <2>7. Goal(SetState(k, c, Absent))
    BY <1>1, <2>5, <2>6, ErasedGoal
  <2> QED
    BY <1>1, <2>5, <2>7, unregister_Erased DEF k
<1>7. CASE s # "WAITING_FOR_PAUSE"
  <2> DEFINE r == "RESUMED"
             g == SetState(h, c, r)
  <2>1. r \in ClientStates \cup {Absent}
    BY DEF ClientStates
  <2>2. k \in {h, g}
    BY <1>7 DEF Unregistering, ack_resume
  <2>3. /\ g \in Host /\ Behind(g, NoTask) /\ Stopping(g)
        /\ \A d : Acks(h, NoTask, d) => Acks(g, NoTask, d)
        /\ \A x : Comes(h, NoTask, x) => Comes(g, NoTask, x)
        /\ g.scan_registered = h.scan_registered /\ g.scan_paused = h.scan_paused
        /\ \A d \in Client \ {c} : g.registered_clients[d] = h.registered_clients[d]
    BY <1>1, <1>5, <2>1, SetStateKeeps
  <2> HIDE DEF g, k
  <2>4. /\ k \in Host /\ Behind(k, NoTask) /\ Stopping(k)
        /\ \A d : Acks(h, NoTask, d) => Acks(k, NoTask, d)
        /\ \A x : Comes(h, NoTask, x) => Comes(k, NoTask, x)
        /\ k.scan_registered = h.scan_registered /\ k.scan_paused = h.scan_paused
        /\ \A d \in Client \ {c} : k.registered_clients[d] = h.registered_clients[d]
    BY <1>5, <2>2, <2>3
  <2>5. WaitsBut(k, c) /\ ScanWaits(k, NoTask)
    BY <1>1, <1>5, <2>4 DEF WaitsBut, ScanWaits, ScannerState
  <2>6. k.registered_clients["scanner"] = "PAUSED" =>
          "scanner" \in Registered(k) /\ Acks(k, NoTask, "scanner")
    <3> SUFFICES ASSUME k.registered_clients["scanner"] = "PAUSED"
                 PROVE  "scanner" \in Registered(k) /\ Acks(k, NoTask, "scanner")
      OBVIOUS
    <3>1. ScannerState(h) = "PAUSED"
      BY <1>1, <2>4 DEF ScannerState
    <3>2. h.scan_registered /\ h.scan_paused
      BY <3>1 DEF Synced, Absent
    <3>3. Comes(h, NoTask, AckPause("scanner"))
      BY <1>3, <1>4, <3>2 DEF Triggered, Behind, AcksBehind, Comes, Holds
    <3> QED
      BY <1>1, <2>4, <3>3 DEF Acks, Registered, Absent
  <2>7. Goal(SetState(k, c, Absent))
    BY <1>1, <2>4, <2>5, <2>6, ErasedGoal
  <2> QED
    BY <1>1, <2>4, <2>7, unregister_Erased DEF k
<1> QED
  BY <1>6, <1>7

(* The scanner unregisters, while no one is paused. *)
LEMMA unregister_scanner_Goal ==
  ASSUME NEW h \in Host, Goal(h), Leaving(h), ~SomePaused(h)
  PROVE  Goal(unregister_client(h, "scanner"))
<1> DEFINE c == "scanner"
           s == h.registered_clients[c]
           k == Unregistering(h, c)
<1>1. c \in Client /\ "le" \in Client /\ \A d \in Client \ {c} : d = "le"
  BY DEF Client
<1>2. /\ ~h.scan_registered /\ Known(h)
      /\ s = "WAITING_FOR_PAUSE" => h.cached_commands # <<>>
  BY DEF Leaving, Known, ScannerState
<1>3. Triggered(h, NoTask) /\ Stopping(h)
  BY DEF Goal
<1>4. Behind(h, NoTask) /\ WaitsBut(h, c)
  BY <1>3 DEF Triggered, Waits, WaitsBut
<1>5. CASE s = "WAITING_FOR_PAUSE"
  <2> DEFINE g == SetState(h, c, "PAUSED")
  <2>1. c \in Registered(h)
    BY <1>1, <1>5 DEF Registered, Absent
  <2>2. k = AfterPause(g)
    BY <1>5, <2>1, ack_pause_AfterPause DEF Unregistering
  <2>3. Ready(g, NoTask) /\ Known(g) /\ Goal(AfterPause(g))
    BY <1>1, <1>2, <1>3, <1>4, <2>1, PausedGoal DEF ReadyBut
  <2>4. /\ \A d \in Client \ {c} : g.registered_clients[d] = h.registered_clients[d]
        /\ g.scan_registered = h.scan_registered /\ g.cached_commands = h.cached_commands
    BY <1>1, SetStateFields DEF ClientStates
  <2> HIDE DEF g, k
  <2>5. /\ k \in Host /\ k.registered_clients = g.registered_clients
        /\ k.scan_registered = g.scan_registered
    <3>1. CASE AllPaused(g)
      <4>1. k = check_cached_commands(g)
        BY <2>2, <3>1 DEF AfterPause
      <4> QED
        BY <1>2, <1>5, <2>3, <2>4, <3>1, <4>1, check_cached_Wakes
    <3>2. CASE ~AllPaused(g)
      BY <2>2, <2>3, <3>2, AfterPauseSame
    <3> QED
      BY <3>1, <3>2
  <2>6. WaitsBut(k, c) /\ Behind(k, NoTask) /\ Stopping(k)
    BY <2>2, <2>3 DEF Goal, Triggered, Waits, WaitsBut
  <2>7. \A d \in Client \ {c} : k.registered_clients[d] # "PAUSED"
    BY <2>4, <2>5 DEF SomePaused
  <2>8. Goal(SetState(k, c, Absent))
    BY <1>1, <1>2, <2>4, <2>5, <2>6, <2>7, ErasedGoal
  <2> QED
    BY <1>1, <2>5, <2>8, unregister_Erased DEF k
<1>6. CASE s # "WAITING_FOR_PAUSE"
  <2> DEFINE r == "RESUMED"
             g == SetState(h, c, r)
  <2>1. r \in ClientStates \cup {Absent}
    BY DEF ClientStates
  <2>2. k \in {h, g}
    BY <1>6 DEF Unregistering, ack_resume
  <2>3. /\ g \in Host /\ Behind(g, NoTask) /\ Stopping(g)
        /\ \A d : Acks(h, NoTask, d) => Acks(g, NoTask, d)
        /\ \A x : Comes(h, NoTask, x) => Comes(g, NoTask, x)
        /\ g.scan_registered = h.scan_registered
        /\ \A d \in Client \ {c} : g.registered_clients[d] = h.registered_clients[d]
    BY <1>1, <1>3, <1>4, <2>1, SetStateKeeps
  <2> HIDE DEF g, k
  <2>4. /\ k \in Host /\ Behind(k, NoTask) /\ Stopping(k)
        /\ \A d : Acks(h, NoTask, d) => Acks(k, NoTask, d)
        /\ \A x : Comes(h, NoTask, x) => Comes(k, NoTask, x)
        /\ k.scan_registered = h.scan_registered
        /\ \A d \in Client \ {c} : k.registered_clients[d] = h.registered_clients[d]
    BY <1>3, <1>4, <2>2, <2>3
  <2>5. WaitsBut(k, c) /\ \A d \in Client \ {c} : k.registered_clients[d] # "PAUSED"
    BY <1>4, <2>4 DEF WaitsBut, SomePaused
  <2>6. Goal(SetState(k, c, Absent))
    BY <1>1, <1>2, <2>4, <2>5, ErasedGoal
  <2> QED
    BY <1>1, <2>4, <2>6, unregister_Erased DEF k
<1> QED
  BY <1>5, <1>6

(***************************************************************************)
(* Closures of the address manager that pause, resume and handle commands. *)
(***************************************************************************)
LEMMA GoalReady ==
  ASSUME NEW h \in Host, Goal(h)
  PROVE  Ready(h, NoTask) /\ Driven(h, NoTask) /\ Behind(h, NoTask) /\ Stopping(h)
BY DEF Goal, Triggered, Ready

LEMMA pause_Goal ==
  ASSUME NEW h \in Host, Goal(h)
  PROVE  Goal(pause_registered_clients(h)) /\ pause_registered_clients(h) \in Host
<1>1. Ready(h, NoTask) /\ Driven(h, NoTask)
  BY GoalReady
<1> QED
  BY <1>1, pause_registered_Triggered, pause_registered_Ready DEF Goal, Ready

(* Only cached_commands_ and the alarm change. *)
LEMMA CachedStill ==
  ASSUME NEW h \in Host, NEW c \in CachedCommand, NEW b \in BOOLEAN
  PROVE  /\ Adds(h, [h EXCEPT !.cached_commands = Append(@, c)])
         /\ Adds(h, [h EXCEPT !.cached_commands = Append(@, c), !.rotation_alarm = b])
         /\ [h EXCEPT !.cached_commands = Append(@, c)].cached_commands # <<>>
<1> DEFINE s == Append(h.cached_commands, c)
           p == [h EXCEPT !.cached_commands = s]
           q == [h EXCEPT !.cached_commands = s, !.rotation_alarm = b]
<1>1. s \in Seq(CachedCommand) /\ s # <<>>
  <2>1. h.cached_commands \in Seq(CachedCommand)
    BY DEF Host
  <2>2. s \in Seq(CachedCommand) /\ Len(s) = Len(h.cached_commands) + 1 /\ Len(h.cached_commands) \in Nat
    BY <2>1
  <2> HIDE DEF s
  <2> QED
    BY <2>2
<1> HIDE DEF s
<1>2. Still(h, p) /\ p.pause_connection = h.pause_connection
      /\ p.connectability_state = h.connectability_state /\ p.cached_commands = s
  BY <1>1 DEF Still, Host
<1>3. Still(h, q) /\ q.pause_connection = h.pause_connection
      /\ q.connectability_state = h.connectability_state
  BY <1>1 DEF Still, Host
<1> HIDE DEF p, q
<1>4. Adds(h, p) /\ Adds(h, q)
  BY <1>2, <1>3, StillAdds
<1> QED
  BY <1>1, <1>2, <1>4 DEF p, q, s

LEMMA push_command_Goal ==
  ASSUME NEW h \in Host, Goal(h), NEW c \in ListCommand
  PROVE  Goal(push_command(h, c))
<1> DEFINE k == pause_registered_clients(h)
           g == [k EXCEPT !.cached_commands = Append(@, c)]
<1>1. Goal(k) /\ k \in Host
  BY pause_Goal
<1>2. c \in CachedCommand
  BY DEF CachedCommand
<1> HIDE DEF k
<1>3. Adds(k, g)
  BY <1>1, <1>2, CachedStill
<1> HIDE DEF g
<1>4. Goal(g)
  BY <1>1, <1>3, AddsGoal
<1> QED
  BY <1>4 DEF push_command, g, k

LEMMA prepare_to_rotate_Goal ==
  ASSUME NEW h \in Host, Goal(h)
  PROVE  Goal(prepare_to_rotate(h))
<1> DEFINE c == <<"rotate", NoAddress>>
           g == [h EXCEPT !.cached_commands = Append(@, c), !.rotation_alarm = FALSE]
<1>1. c \in CachedCommand
  BY DEF CachedCommand
<1>2. prepare_to_rotate(h) = pause_registered_clients(g)
  BY DEF prepare_to_rotate
<1> HIDE DEF c
<1>3. Adds(h, g)
  BY <1>1, CachedStill
<1> HIDE DEF g
<1>4. Goal(g) /\ g \in Host
  BY <1>3, AddsGoal DEF Adds, Grows
<1> QED
  BY <1>2, <1>4, pause_Goal

LEMMA AddsKnown ==
  ASSUME NEW h, NEW g, Adds(h, g), Known(h)
  PROVE  Known(g)
BY DEF Adds, Grows, Known, ScannerState

LEMMA prepare_to_update_irk_Goal ==
  ASSUME NEW h \in Host, Goal(h), Known(h)
  PROVE  Goal(prepare_to_update_irk(h))
<1> DEFINE c == <<"update_irk", NoAddress>>
           g == [h EXCEPT !.cached_commands = Append(@, c)]
<1>1. c \in CachedCommand
  BY DEF CachedCommand
<1>2. prepare_to_update_irk(h) = IF Registered(g) = {} THEN handle_next_command(g)
                                 ELSE pause_registered_clients(g)
  BY DEF prepare_to_update_irk
<1> HIDE DEF c
<1>3. Adds(h, g) /\ g.cached_commands # <<>>
  BY <1>1, CachedStill
<1> HIDE DEF g
<1>4. Goal(g) /\ g \in Host /\ Known(g)
  BY <1>3, AddsGoal, AddsKnown DEF Adds, Grows
<1>5. Registered(g) = {} => AllPaused(g)
  BY DEF AllPaused
<1>6. Registered(g) = {} => Goal(handle_next_command(g))
  BY <1>3, <1>4, <1>5, GoalReady, handle_next_Goal
<1> QED
  BY <1>2, <1>4, <1>6, pause_Goal

LEMMA handle_next_command_Goal ==
  ASSUME NEW h \in Host, Goal(h), Known(h), ~NothingToHandle(h)
  PROVE  Goal(handle_next_command(h))
<1>1. CASE ~AllPaused(h)
  BY <1>1 DEF handle_next_command
<1>2. CASE AllPaused(h)
  <2>1. h.cached_commands # <<>>
    BY <1>2 DEF NothingToHandle
  <2> QED
    BY <1>2, <2>1, GoalReady, handle_next_Goal
<1> QED
  BY <1>1, <1>2

LEMMA resume_Goal ==
  ASSUME NEW h \in Host, Goal(h), Known(h)
  PROVE  Goal(resume_registered_clients(h))
<1>1. CASE h.cached_commands # <<>>
  BY <1>1, handle_next_command_Goal DEF resume_registered_clients, NothingToHandle
<1>2. CASE h.cached_commands = <<>>
  BY <1>2, GoalReady, resume_registered_Goal
<1> QED
  BY <1>1, <1>2

(***************************************************************************)
(* A closure is taken off the queue and runs.                              *)
(***************************************************************************)
LEMMA PoppedTriggered ==
  ASSUME NEW h \in Host, h.tasks # <<>>, Triggered(h, NoTask)
  PROVE  Triggered(Popped(h), h.tasks[1])
<1> DEFINE g == Popped(h)
           t == h.tasks[1]
<1>1. /\ g \in Host /\ g.tasks = Tail(h.tasks) /\ g.commands = h.commands
      /\ g.registered_clients = h.registered_clients
      /\ g.scan_registered = h.scan_registered /\ g.scan_paused = h.scan_paused
      /\ h.tasks \in Seq(Task)
  BY PoppedFields DEF Host
<1>2. g.pause_connection = h.pause_connection
  BY DEF Popped, Host
<1> HIDE DEF g
<1>3. /\ DOMAIN g.tasks = 1 .. (Len(h.tasks) - 1) /\ DOMAIN h.tasks = 1 .. Len(h.tasks)
      /\ Len(h.tasks) \in Nat \ {0}
      /\ \A i \in DOMAIN g.tasks : g.tasks[i] = h.tasks[i + 1]
  BY <1>1
<1>4. ASSUME NEW x, x # NoTask, Comes(h, NoTask, x)
      PROVE  Comes(g, t, x)
  <2>1. PICK i \in DOMAIN h.tasks : h.tasks[i] = x
    BY <1>4 DEF Comes, Holds
  <2>2. CASE i = 1
    BY <2>1, <2>2 DEF Comes
  <2>3. CASE i # 1
    <3>1. i - 1 \in DOMAIN g.tasks /\ (i - 1) + 1 = i
      BY <1>3, <2>3
    <3> QED
      BY <1>3, <2>1, <3>1 DEF Comes, Holds
  <2> QED
    BY <2>2, <2>3
<1> HIDE DEF t
<1>5. /\ \A c \in Client : NoTask # AckPause(c) /\ NoTask # AckResume(c)
      /\ NoTask \notin CancelEnds /\ NoTask # CancelFails /\ NoTask # <<"OnCommandComplete", NoAddress>>
      /\ NoTask # <<"check_cached_commands", "le">> /\ "scanner" \in Client
  BY DEF NoTask, AckPause, AckResume, CancelEnds, CancelFails, Client
<1>6. \A c \in Client : Acks(h, NoTask, c) => Acks(g, t, c)
  BY <1>1, <1>2, <1>4, <1>5 DEF Acks
<1>7. Drives(h, NoTask) => Drives(g, t)
  BY <1>1, <1>4, <1>5 DEF Drives
<1>8. Waits(g, t)
  BY <1>1, <1>4, <1>5, <1>6 DEF Waits, Triggered
<1>9. Registered(g) = Registered(h) /\ Registered(h) \subseteq Client
  BY <1>1 DEF Registered
<1>10. Driven(g, t)
  BY <1>1, <1>6, <1>7, <1>9 DEF Driven, Triggered, SomePaused
<1>11. ASSUME NEW k \in Nat, AcksBehind(h, k + 1)
       PROVE  AcksBehind(g, k)
  <2> SUFFICES ASSUME g.scan_registered /\ g.scan_paused
               PROVE  \E j \in DOMAIN g.tasks : j > k /\ g.tasks[j] = AckPause("scanner")
    BY DEF AcksBehind
  <2>1. PICK j \in DOMAIN h.tasks : j > k + 1 /\ h.tasks[j] = AckPause("scanner")
    BY <1>1, <1>11 DEF AcksBehind
  <2>2. j - 1 \in DOMAIN g.tasks /\ j - 1 > k /\ (j - 1) + 1 = j
    BY <1>3, <2>1
  <2> QED
    BY <1>3, <2>1, <2>2
<1>12. Behind(g, t)
  <2>1. ASSUME NEW k \in DOMAIN g.tasks, g.tasks[k] \in Ordered
        PROVE  AcksBehind(g, k)
    <3>1. k \in Nat /\ k + 1 \in DOMAIN h.tasks
      BY <1>3
    <3>2. AcksBehind(h, k + 1)
      BY <1>3, <2>1, <3>1 DEF Triggered, Behind
    <3> QED
      BY <1>11, <3>1, <3>2
  <2>2. t \in Ordered => AcksBehind(g, 0)
    <3>1. 1 \in DOMAIN h.tasks /\ 0 \in Nat /\ 0 + 1 = 1
      BY <1>3
    <3>2. t \in Ordered => AcksBehind(h, 0 + 1)
      BY <3>1 DEF Triggered, Behind, t
    <3> QED
      BY <1>11, <3>1, <3>2
  <2> QED
    BY <2>1, <2>2 DEF Behind
<1>13. ScanWaits(g, t)
  BY <1>1, <1>4, <1>5 DEF ScanWaits, ScannerState, Triggered
<1> QED
  BY <1>8, <1>10, <1>12, <1>13 DEF Triggered, g, t

LEMMA PoppedStopping ==
  ASSUME NEW h \in Host, h.tasks # <<>>, Stopping(h), h.tasks[1][1] # "central"
  PROVE  Stopping(Popped(h))
<1> DEFINE g == Popped(h)
<1>1. /\ g \in Host /\ g.tasks = Tail(h.tasks) /\ g.commands = h.commands
      /\ g.connectability_state = h.connectability_state /\ h.tasks \in Seq(Task)
  BY PoppedFields DEF Host
<1> HIDE DEF g
<1>2. /\ DOMAIN g.tasks = 1 .. (Len(h.tasks) - 1) /\ DOMAIN h.tasks = 1 .. Len(h.tasks)
      /\ Len(h.tasks) \in Nat \ {0}
      /\ \A i \in DOMAIN g.tasks : g.tasks[i] = h.tasks[i + 1]
  BY <1>1
<1>3. ASSUME NEW i \in DOMAIN h.tasks, i # 1
      PROVE  i - 1 \in DOMAIN g.tasks /\ g.tasks[i - 1] = h.tasks[i]
  <2>1. i - 1 \in DOMAIN g.tasks /\ (i - 1) + 1 = i
    BY <1>2, <1>3
  <2> QED
    BY <1>2, <2>1
<1> SUFFICES ASSUME g.connectability_state = "DISARMING"
             PROVE  \/ Holds(g.commands, Cancel) \/ (\E end \in CancelEnds : Holds(g.tasks, end))
                    \/ \E i, j \in DOMAIN g.tasks :
                         i < j /\ g.tasks[i][1] = "central" /\ g.tasks[j] = CancelFails
  BY DEF Stopping, g
<1>4. CASE Holds(h.commands, Cancel)
  BY <1>1, <1>4
<1>5. CASE (\E end \in CancelEnds : Holds(h.tasks, end))
  <2>1. PICK i \in DOMAIN h.tasks : h.tasks[i] \in CancelEnds
    BY <1>5 DEF Holds
  <2>2. i # 1
    BY <2>1 DEF CancelEnds
  <2> QED
    BY <1>3, <2>1, <2>2 DEF Holds
<1>6. CASE \E i, j \in DOMAIN h.tasks :
             i < j /\ h.tasks[i][1] = "central" /\ h.tasks[j] = CancelFails
  <2>1. PICK i, j \in DOMAIN h.tasks :
             i < j /\ h.tasks[i][1] = "central" /\ h.tasks[j] = CancelFails
    BY <1>6
  <2>2. i # 1 /\ j # 1
    BY <1>2, <2>1
  <2>3. /\ i - 1 \in DOMAIN g.tasks /\ g.tasks[i - 1] = h.tasks[i]
        /\ j - 1 \in DOMAIN g.tasks /\ g.tasks[j - 1] = h.tasks[j]
    BY <1>3, <2>2
  <2>4. i - 1 < j - 1
    BY <1>2, <2>1
  <2> QED
    BY <2>1, <2>3, <2>4
<1> QED
  BY <1>1, <1>4, <1>5, <1>6 DEF Stopping

(* A closure ends that is a trigger, and leaves what takes its place. *)
LEMMA PassedOn ==
  ASSUME NEW h, NEW g, NEW t, Adds(h, g), Triggered(h, t), t \notin Ordered,
         \A c \in Client : t # AckPause(c) /\ t # AckResume(c),
         \A c \in Client : Acks(h, t, c) => Acks(g, NoTask, c),
         Drives(h, t) => Drives(g, NoTask)
  PROVE  Triggered(g, NoTask)
<1>1. Triggered(g, t)
  BY AddsTriggered
<1>2. \A c \in Client : /\ Comes(g, t, AckPause(c)) => Comes(g, NoTask, AckPause(c))
                        /\ Comes(g, t, AckResume(c)) => Comes(g, NoTask, AckResume(c))
  BY DEF Comes
<1>3. g.registered_clients = h.registered_clients /\ Registered(g) = Registered(h)
  BY DEF Adds, Grows, Registered
<1>4. Waits(g, NoTask)
  BY <1>1, <1>2, <1>3 DEF Triggered, Waits
<1>5. Driven(g, NoTask)
  BY <1>3 DEF Triggered, Driven, SomePaused, Registered
<1>6. Behind(g, NoTask)
  BY <1>1 DEF Triggered, Behind, Ordered, NoTask, Unregister, AckResume
<1>7. ScanWaits(g, NoTask)
  BY <1>1, <1>2 DEF Triggered, ScanWaits, Client
<1> QED
  BY <1>4, <1>5, <1>6, <1>7 DEF Triggered

LEMMA NotTriggers ==
  ASSUME NEW do, NEW arg,
         \/ do \notin {"central", "on_cancel_complete", "OnCommandComplete",
                       "check_cached_commands", "ack_pause", "ack_resume", "unregister_client"}
         \/ <<do, arg>> = Unregister("scanner")
         \/ <<do, arg>> = <<"on_cancel_complete", "success">>
  PROVE  <<do, arg>> \notin Triggers
BY DEF Triggers, Ordered, AckPause, AckResume, Unregister, CancelEnds, CancelFails

(* What is known when closure t has been taken off the queue. *)
AboutToRun(h, t) ==
  /\ h \in Host /\ Triggered(h, t) /\ Form(h, While(t))
  /\ t[1] # "central" => Stopping(h)
  /\ ~(t[1] = "handle_next_command" /\ NothingToHandle(h))
  /\ t = Unregister("scanner") => ~SomePaused(h)

LEMMA ClientTaskGoal ==
  ASSUME NEW h, NEW do \in ClientTask, NEW c \in Client, AboutToRun(h, <<do, c>>)
  PROVE  Goal(Execute(h, do, c))
<1> DEFINE t == <<do, c>>
<1>1. t[1] = do /\ do # "central"
  BY DEF ClientTask
<1>2. /\ h \in Host /\ Triggered(h, t) /\ Form(h, While(t)) /\ Stopping(h)
      /\ t = Unregister("scanner") => ~SomePaused(h)
  BY <1>1 DEF AboutToRun
<1>3. CASE do = "register_client"
  <2>1. t \notin Triggers
    BY <1>3, NotTriggers
  <2> HIDE DEF t
  <2>2. Goal(h)
    BY <1>2, <2>1, NoTrigger DEF Goal
  <2> QED
    BY <1>2, <1>3, <2>2, register_client_Goal, ExecuteClientTask
<1>4. CASE do = "ack_pause"
  <2>1. t = AckPause(c)
    BY <1>4 DEF AckPause
  <2>2. Synced(h)
    BY <1>2, <1>4 DEF Form, While
  <2>3. Known(h)
    BY <2>2 DEF Synced, Known
  <2> QED
    BY <1>2, <1>4, <2>1, <2>3, ack_pause_Goal, ExecuteClientTask
<1>5. CASE do = "ack_resume"
  <2>1. t = AckResume(c)
    BY <1>5 DEF AckResume
  <2> QED
    BY <1>2, <1>5, <2>1, ack_resume_Goal, ExecuteClientTask
<1>6. CASE do = "unregister_client" /\ c = "le"
  <2>1. t = Unregister("le")
    BY <1>6 DEF Unregister
  <2>2. Synced(h)
    BY <1>2, <1>6 DEF Form, While
  <2> QED
    BY <1>2, <1>6, <2>1, <2>2, unregister_le_Goal, ExecuteClientTask
<1>7. CASE do = "unregister_client" /\ c = "scanner"
  <2>1. t = Unregister("scanner")
    BY <1>7 DEF Unregister
  <2>2. Leaving(h)
    BY <1>2, <1>7 DEF Form, While
  <2>3. t \notin Triggers
    BY <2>1, NotTriggers
  <2> HIDE DEF t
  <2>4. Goal(h)
    BY <1>2, <2>3, NoTrigger DEF Goal
  <2> QED
    BY <1>2, <1>7, <2>1, <2>2, <2>4, unregister_scanner_Goal, ExecuteClientTask
<1> QED
  BY <1>3, <1>4, <1>5, <1>6, <1>7 DEF ClientTask, Client

LEMMA OtherTask ==
  ASSUME NEW h, NEW do, NEW arg, AboutToRun(h, <<do, arg>>), do \notin ClientTask
  PROVE  /\ h \in Host /\ Triggered(h, <<do, arg>>) /\ Known(h)
         /\ do # "central" => Stopping(h)
         /\ ~(do = "handle_next_command" /\ NothingToHandle(h))
         /\ <<do, arg>> \notin Ordered
         /\ \A c \in Client : <<do, arg>> # AckPause(c) /\ <<do, arg>> # AckResume(c)
         /\ \/ do \notin {"central", "on_cancel_complete", "OnCommandComplete",
                          "check_cached_commands"}
            \/ <<do, arg>> = <<"on_cancel_complete", "success">>
            => Goal(h)
<1> DEFINE t == <<do, arg>>
<1>1. t[1] = do /\ While(t) = "synced"
  BY DEF While, ClientTask
<1>2. /\ h \in Host /\ Triggered(h, t) /\ Form(h, "synced") /\ (do # "central" => Stopping(h))
      /\ ~(do = "handle_next_command" /\ NothingToHandle(h))
  BY <1>1 DEF AboutToRun
<1>3. Known(h)
  BY <1>2 DEF Form, Synced, Known
<1>4. t \notin Ordered /\ \A c \in Client : t # AckPause(c) /\ t # AckResume(c)
  BY DEF Ordered, Unregister, AckPause, AckResume, ClientTask
<1>5. ASSUME \/ do \notin {"central", "on_cancel_complete", "OnCommandComplete",
                           "check_cached_commands"}
             \/ t = <<"on_cancel_complete", "success">>
      PROVE  Goal(h)
  <2>1. t \notin Triggers
    BY <1>5, NotTriggers DEF ClientTask
  <2>2. do # "central"
    BY <1>5
  <2> HIDE DEF t
  <2> QED
    BY <1>2, <2>1, <2>2, NoTrigger DEF Goal
<1> QED
  BY <1>2, <1>3, <1>4, <1>5

(* The closures of le_impl that end an attempt, or a command. *)
LEMMA AnswerGoal ==
  ASSUME NEW h, NEW t, NEW g, h \in Host, Triggered(h, t), Adds(h, g), t \notin Ordered,
         \A c \in Client : t # AckPause(c) /\ t # AckResume(c),
         t \in CancelEnds \cup {CancelFails} /\ h.pause_connection => Holds(g.tasks, AckPause("le")),
         t \in {<<"OnCommandComplete", NoAddress>>, <<"check_cached_commands", "le">>} =>
           Drives(g, NoTask)
  PROVE  Triggered(g, NoTask)
<1>1. Grows(h, g)
  BY DEF Adds
<1>2. \A c \in Client : Acks(h, t, c) => Acks(g, NoTask, c)
  <2> SUFFICES ASSUME NEW c \in Client, Acks(h, t, c) PROVE Acks(g, NoTask, c)
    OBVIOUS
  <2>1. CASE Acks(h, NoTask, c)
    BY <1>1, <2>1, GrowsComes
  <2>2. CASE ~Acks(h, NoTask, c)
    <3>1. c = "le" /\ h.pause_connection /\ t \in CancelEnds \cup {CancelFails}
      BY <2>2 DEF Acks, Comes
    <3> QED
      BY <3>1 DEF Acks, Comes
  <2> QED
    BY <2>1, <2>2
<1>3. Drives(h, t) => Drives(g, NoTask)
  <2> SUFFICES ASSUME Drives(h, t) PROVE Drives(g, NoTask)
    OBVIOUS
  <2>1. CASE Drives(h, NoTask)
    BY <1>1, <2>1, GrowsComes
  <2>2. CASE ~Drives(h, NoTask)
    BY <2>2 DEF Drives, Comes
  <2> QED
    BY <2>1, <2>2
<1> QED
  BY <1>2, <1>3, PassedOn

(* clear_connect_list takes no address. *)
LEMMA ClearAdds ==
  ASSUME NEW h \in Host
  PROVE  Adds(h, clear_connect_list(h))
<1> DEFINE r == [h EXCEPT !.connect_list = {}]
           c == <<"clear", NoAddress>>
<1>1. Still(h, r) /\ r.pause_connection = h.pause_connection
      /\ r.connectability_state = h.connectability_state
  BY DEF Still, Host
<1>2. c \in ListCommand
  BY DEF ListCommand
<1> HIDE DEF r, c
<1>3. Adds(h, Post(register_with_address_manager(r), <<"push_command", c>>)) /\ Adds(h, h)
  BY <1>1, <1>2, ListChange_Adds, GrowsSelf
<1> QED
  BY <1>3 DEF clear_connect_list, r, c

LEMMA PlainTaskGoal ==
  ASSUME NEW h, NEW do \in PlainTask, NEW arg \in {"le", NoAddress}, AboutToRun(h, <<do, arg>>)
  PROVE  Goal(Execute(h, do, arg))
<1>1. do \notin ClientTask \cup {"central", "on_cancel_complete"}
  BY DEF PlainTask, ClientTask
<1> DEFINE t == <<do, arg>>
<1>2. /\ h \in Host /\ Triggered(h, t) /\ Known(h) /\ Stopping(h)
      /\ ~(do = "handle_next_command" /\ NothingToHandle(h)) /\ t \notin Ordered
      /\ \A c \in Client : t # AckPause(c) /\ t # AckResume(c)
      /\ do \notin {"OnCommandComplete", "check_cached_commands"} => Goal(h)
  BY <1>1, OtherTask
<1>3. t \notin CancelEnds \cup {CancelFails}
  BY <1>1 DEF CancelEnds, CancelFails
<1> HIDE DEF t
<1>4. CASE do \in {"pause_registered_clients", "resume_registered_clients", "handle_next_command",
                   "prepare_to_update_irk"}
  <2>1. Goal(h)
    BY <1>2, <1>4
  <2>2. /\ Goal(pause_registered_clients(h)) /\ Goal(resume_registered_clients(h))
        /\ Goal(prepare_to_update_irk(h))
        /\ do = "handle_next_command" => Goal(handle_next_command(h))
    BY <1>2, <2>1, pause_Goal, resume_Goal, prepare_to_update_irk_Goal, handle_next_command_Goal
  <2> QED
    BY <1>4, <2>2, ExecutePlainTask
<1>5. CASE do \in {"set_privacy_policy", "arm_connectability", "clear_connect_list",
                   "change_resolving_list", "clear_resolving_list"}
  <2>1. Goal(h)
    BY <1>2, <1>5
  <2>2. /\ Adds(h, Post(h, <<"prepare_to_update_irk", "le">>))
        /\ Adds(h, arm_connectability(h)) /\ Adds(h, clear_connect_list(h))
        /\ Adds(h, ChangeResolvingList(register_with_address_manager(h)))
        /\ Adds(h, ClearResolvingList(h))
    BY <1>2, resolving_Adds, connectability_Adds, ClearAdds
  <2>3. /\ Goal(Post(h, <<"prepare_to_update_irk", "le">>))
        /\ Goal(arm_connectability(h)) /\ Goal(clear_connect_list(h))
        /\ Goal(ChangeResolvingList(register_with_address_manager(h)))
        /\ Goal(ClearResolvingList(h))
    BY <2>1, <2>2, AddsGoal
  <2> QED
    BY <1>5, <2>3, ExecutePlainTask
<1>6. CASE do = "OnCommandComplete"
  <2> DEFINE g == OnCommandComplete(h)
             c == <<"check_cached_commands", "le">>
  <2>1. Adds(h, g)
    BY <1>2, resolving_Adds
  <2>2. Holds(g.tasks, c)
    <3>1. c \in Task /\ c \notin Ordered \cup {Unregister("scanner")}
      BY PostedTasks DEF PlainTask, Ordered, Unregister, AckResume
    <3>2. g = Post(h, c)
      BY DEF OnCommandComplete
    <3> HIDE DEF c, g
    <3> QED
      BY <1>2, <3>1, <3>2, PostAdds
  <2>3. Drives(g, NoTask)
    BY <2>2 DEF Drives, Comes
  <2> HIDE DEF g
  <2>4. Triggered(g, NoTask)
    BY <1>2, <1>3, <2>1, <2>3, AnswerGoal
  <2>5. Stopping(g)
    BY <1>2, <2>1, GrowsStopping DEF Adds
  <2> QED
    BY <1>6, <2>4, <2>5, ExecutePlainTask DEF Goal, g
<1>7. CASE do = "check_cached_commands"
  <2>1. \A c \in Client : Acks(h, t, c) => Acks(h, NoTask, c)
    BY <1>2, <1>3 DEF Acks, Comes
  <2>2. \A c \in Client : /\ Comes(h, t, AckResume(c)) => Comes(h, NoTask, AckResume(c))
                          /\ Comes(h, t, AckPause(c)) => Comes(h, NoTask, AckPause(c))
    BY <1>2 DEF Comes
  <2>3. Waits(h, NoTask)
    BY <1>2, <2>1, <2>2 DEF Triggered, Waits
  <2>4. Behind(h, NoTask)
    BY <1>2 DEF Triggered, Behind, Ordered, NoTask, Unregister, AckResume
  <2>5. ScanWaits(h, NoTask)
    BY <1>2, <2>2 DEF Triggered, ScanWaits, Client
  <2>6. Ready(h, NoTask)
    BY <1>2, <2>3, <2>4, <2>5 DEF Ready
  <2> QED
    BY <1>2, <1>7, <2>6, check_cached_Goal, ExecutePlainTask
<1> QED
  BY <1>4, <1>5, <1>6, <1>7 DEF PlainTask

LEMMA AddressTaskGoal ==
  ASSUME NEW h, NEW do \in AddressTask, NEW a \in Address, AboutToRun(h, <<do, a>>)
  PROVE  Goal(Execute(h, do, a))
<1>1. do \notin ClientTask \cup {"central", "on_cancel_complete", "OnCommandComplete",
                                 "check_cached_commands"}
  BY DEF AddressTask, ClientTask
<1>2. h \in Host /\ Goal(h)
  BY <1>1, OtherTask
<1>3. /\ Adds(h, cancel_connect([h EXCEPT !.background_connections = @ \ {a}], a))
      /\ Adds(h, [h EXCEPT !.background_connections = @ \cup {a}])
      /\ Adds(h, [h EXCEPT !.background_connections = @ \ {a}])
      /\ Adds(h, remove_device_from_connect_list(h, a))
      /\ \A status : Adds(h, on_peripheral_connection_complete(h, status, a))
      /\ Adds(h, on_le_disconnect(h, a))
  BY <1>2, background_Adds, connect_list_Adds, events_Adds
<1>4. Adds(h, Execute(h, do, a))
  <2>1. CASE do = "cancel_and_remove"
    BY <1>3, <2>1, ExecuteAddressTask
  <2>2. CASE do = "add_to_background"
    BY <1>3, <2>2, ExecuteAddressTask
  <2>3. CASE do = "remove_from_background"
    BY <1>3, <2>3, ExecuteAddressTask
  <2>4. CASE do \in {"remove_device_from_connect_list", "peripheral", "peripheral_invalid", "disconnect"}
    BY <1>3, <2>4, ExecuteAddressTask
  <2> QED
    BY <2>1, <2>2, <2>3, <2>4 DEF AddressTask
<1> QED
  BY <1>2, <1>4, AddsGoal

LEMMA CentralGoal ==
  ASSUME NEW h, NEW arg \in CentralArgument, AboutToRun(h, <<"central", arg>>)
  PROVE  Goal(Execute(h, "central", arg))
<1> DEFINE t == <<"central", arg>>
           g == on_central_connection_complete(h, arg[1], arg[2])
           k == [h EXCEPT !.connectability_state = "DISARMED"]
<1>1. /\ h \in Host /\ Triggered(h, t) /\ t \notin Ordered
      /\ \A c \in Client : t # AckPause(c) /\ t # AckResume(c)
  BY OtherTask DEF ClientTask
<1>2. /\ Adds(h, g) /\ Adds(k, g)
      /\ arg[1] = "unknown_connection" /\ h.pause_connection =>
              Holds(g.tasks, AckPause("le"))
  BY <1>1, central_Adds
<1>3. /\ t \in CancelEnds \cup {CancelFails} => arg[1] = "unknown_connection"
      /\ t \notin {<<"OnCommandComplete", NoAddress>>, <<"check_cached_commands", "le">>}
  BY DEF CancelEnds, CancelFails
<1>4. Stopping(k)
  BY <1>1 DEF Stopping, Host
<1> HIDE DEF t, g, k
<1>5. Triggered(g, NoTask)
  BY <1>1, <1>2, <1>3, AnswerGoal
<1>6. Stopping(g)
  BY <1>2, <1>4, GrowsStopping DEF Adds
<1> QED
  BY <1>5, <1>6, ExecuteOther DEF Goal, g

LEMMA AnswerTaskGoal ==
  ASSUME NEW h, NEW do \in AnswerTask, NEW status \in {"success", "disallowed"},
         AboutToRun(h, <<do, status>>)
  PROVE  Goal(Execute(h, do, status))
<1> DEFINE t == <<do, status>>
           g == Execute(h, do, status)
<1>1. do \notin ClientTask \cup {"central", "OnCommandComplete", "check_cached_commands"}
  BY DEF AnswerTask, ClientTask
<1>2. /\ h \in Host /\ Triggered(h, t) /\ t \notin Ordered /\ Stopping(h)
      /\ \A c \in Client : t # AckPause(c) /\ t # AckResume(c)
  BY <1>1, OtherTask
<1>3. Adds(h, g)
  BY <1>2, answers_Adds, ExecuteOther DEF AnswerTask
<1>4. t \in CancelEnds \cup {CancelFails} /\ h.pause_connection => Holds(g.tasks, AckPause("le"))
  <2>1. t \in CancelEnds \cup {CancelFails} => do = "on_cancel_complete" /\ status = "disallowed"
    BY <1>1 DEF CancelEnds, CancelFails
  <2> QED
    BY <1>2, <2>1, answers_Adds, ExecuteOther
<1>5. t \notin {<<"OnCommandComplete", NoAddress>>, <<"check_cached_commands", "le">>}
  BY <1>1
<1> HIDE DEF t, g
<1>6. Triggered(g, NoTask)
  BY <1>2, <1>3, <1>4, <1>5, AnswerGoal
<1>7. Stopping(g)
  BY <1>2, <1>3, GrowsStopping DEF Adds
<1> QED
  BY <1>6, <1>7 DEF Goal, g

LEMMA TaskGoal ==
  ASSUME NEW h, NEW t \in Task, AboutToRun(h, t)
  PROVE  Goal(Execute(h, t[1], t[2]))
<1>1. CASE t \in ClientTask \X Client
  <2>1. PICK do \in ClientTask, c \in Client : t = <<do, c>>
    BY <1>1
  <2> QED
    BY <2>1, ClientTaskGoal
<1>2. CASE t \in PlainTask \X {"le", NoAddress}
  <2>1. PICK do \in PlainTask, arg \in {"le", NoAddress} : t = <<do, arg>>
    BY <1>2
  <2> QED
    BY <2>1, PlainTaskGoal
<1>3. CASE t \in AddressTask \X Address
  <2>1. PICK do \in AddressTask, a \in Address : t = <<do, a>>
    BY <1>3
  <2> QED
    BY <2>1, AddressTaskGoal
<1>4. CASE t \in AnswerTask \X {"success", "disallowed"}
  <2>1. PICK do \in AnswerTask, status \in {"success", "disallowed"} : t = <<do, status>>
    BY <1>4
  <2> QED
    BY <2>1, AnswerTaskGoal
<1>5. CASE t \in {"push_command"} \X ListCommand
  <2>1. PICK c \in ListCommand : t = <<"push_command", c>>
    BY <1>5
  <2>2. h \in Host /\ Goal(h)
    BY <2>1, OtherTask DEF ClientTask
  <2> QED
    BY <2>1, <2>2, push_command_Goal, ExecuteOther
<1>6. CASE t \in {"create_le_connection"} \X CreateArgument
  <2>1. PICK arg \in CreateArgument : t = <<"create_le_connection", arg>>
    BY <1>6
  <2>2. h \in Host /\ Goal(h)
    BY <2>1, OtherTask DEF ClientTask
  <2>3. Adds(h, Execute(h, "create_le_connection", arg))
    BY <2>2, create_Adds, ExecuteOther
  <2>4. Goal(Execute(h, "create_le_connection", arg))
    BY <2>2, <2>3, AddsGoal
  <2> QED
    BY <2>1, <2>4
<1>7. CASE t \in {"central"} \X CentralArgument
  <2>1. PICK arg \in CentralArgument : t = <<"central", arg>>
    BY <1>7
  <2> QED
    BY <2>1, CentralGoal
<1> QED
  BY <1>1, <1>2, <1>3, <1>4, <1>5, <1>6, <1>7 DEF Task

LEMMA RunTaskResume ==
  ASSUME Inv, ResumeInv, RunTask
  PROVE  ResumeInv'
<1> DEFINE t == host.tasks[1]
           h == Popped(host)
<1>1. PICK mode \in {"synced", "pending"} : "scanner" \notin raced => Form(host, mode)
  BY InvParts
<1>2. host \in Host /\ host.tasks # <<>>
  BY InvParts DEF RunTask
<1>3. t \in Task /\ Head(host.tasks) = t /\ h \in Host
  BY <1>2, PoppedFields
<1>4. /\ ~(t[1] = "handle_next_command" /\ NothingToHandle(h))
      /\ host' = Execute(h, t[1], t[2])
  BY <1>3 DEF RunTask, Popped
<1>5. raced \subseteq raced' /\ All(host', Knowing(raced', Timed', <<>>, "synced"))
  BY RunTaskAll
<1> SUFFICES ASSUME raced' = {}
             PROVE  Triggered(host', NoTask) /\ Stopping(host') /\ Fresh(host')
  BY DEF ResumeInv
<1>6. raced = {} /\ Triggered(host, NoTask) /\ Stopping(host) /\ Fresh(host)
  BY <1>5 DEF ResumeInv
<1>7. Form(h, While(t))
  BY <1>1, <1>2, <1>6, PoppedForm
<1>8. Triggered(h, t) /\ (t[1] # "central" => Stopping(h))
  BY <1>2, <1>6, PoppedTriggered, PoppedStopping
<1>9. t = Unregister("scanner") => ~SomePaused(h)
  <2>1. 1 \in DOMAIN host.tasks
    <3>1. host.tasks \in Seq(Task)
      BY <1>2 DEF Host
    <3> QED
      BY <1>2, <3>1
  <2>2. h.registered_clients = host.registered_clients
    BY <1>2, PoppedFields
  <2> QED
    BY <1>6, <2>1, <2>2 DEF Fresh, Holds, SomePaused
<1>10. AboutToRun(h, t)
  BY <1>3, <1>4, <1>7, <1>8, <1>9 DEF AboutToRun
<1> HIDE DEF t, h
<1>11. Goal(host')
  BY <1>3, <1>4, <1>10, TaskGoal
<1>12. Fresh(host')
  <2>1. NotListed(host', 0) /\ host' \in Host
    BY <1>5 DEF All, Form, Synced, Knowing
  <2>2. \A i \in DOMAIN host'.tasks : i > 0
    <3>1. host'.tasks \in Seq(Task)
      BY <2>1 DEF Host
    <3> QED
      BY <3>1
  <2> QED
    BY <2>1, <2>2 DEF NotListed, Fresh, Holds, Unregister
<1> QED
  BY <1>11, <1>12 DEF Goal

(***************************************************************************)
(* Steps that only add to the queues.                                      *)
(***************************************************************************)
LEMMA GrowsFresh ==
  ASSUME NEW h, NEW g, Grows(h, g), Fresh(h)
  PROVE  Fresh(g)
<1>1. Holds(g.tasks, Unregister("scanner")) => Holds(h.tasks, Unregister("scanner"))
  BY DEF Grows, Holds
<1> QED
  BY <1>1 DEF Fresh, SomePaused, Grows

LEMMA AddsResume ==
  ASSUME ResumeInv, Adds(host, host'), raced' = raced
  PROVE  ResumeInv'
<1> SUFFICES ASSUME raced = {}
             PROVE  Triggered(host', NoTask) /\ Stopping(host') /\ Fresh(host')
  BY DEF ResumeInv
<1>1. Triggered(host, NoTask) /\ Stopping(host) /\ Fresh(host) /\ Grows(host, host')
  BY DEF ResumeInv, Adds
<1> QED
  BY <1>1, AddsTriggered, GrowsStopping, GrowsFresh

LEMMA PostedAdds ==
  ASSUME NEW h \in Host, NEW do, NEW arg, <<do, arg>> \in Task,
         do \notin {"unregister_client", "ack_resume"}
  PROVE  Adds(h, Post(h, <<do, arg>>))
BY GrowsSelf, PostCommon

LEMMA CallAdds ==
  ASSUME host \in Host, NEW do, NEW arg, <<do, arg>> \in Task,
         do \notin {"unregister_client", "ack_resume"}, Call(<<<<do, arg>>>>)
  PROVE  Adds(host, host') /\ raced' = raced
<1> DEFINE t == <<do, arg>>
<1>1. Adds(host, Post(host, t))
  BY PostedAdds
<1>2. t \in Task /\ Call(<<t>>)
  OBVIOUS
<1> HIDE DEF t
<1>3. host.tasks \o <<t>> = Append(host.tasks, t)
  BY <1>2, AppendIsConcat DEF Host
<1>4. host' = Post(host, t)
  BY <1>2, <1>3 DEF Call, Post, Host
<1> QED
  BY <1>1, <1>2, <1>4 DEF Call

LEMMA AclManagerAdds ==
  ASSUME host \in Host, AclManager
  PROVE  Adds(host, host') /\ raced' = raced
<1>1. ASSUME NEW a \in Address, NEW is_direct \in BOOLEAN, CreateLeConnection(a, is_direct)
      PROVE  Adds(host, host') /\ raced' = raced
  <2> DEFINE arg == <<a, TRUE, is_direct>>
             s == <<"add_to_background", a>>
             t == <<"create_le_connection", arg>>
             p == Post(host, s)
  <2>1. arg \in CreateArgument
    BY DEF CreateArgument
  <2>2. Call((IF is_direct THEN <<>> ELSE <<s>>) \o <<t>>)
    BY <1>1 DEF CreateLeConnection
  <2> HIDE DEF arg
  <2>3. t \in Task /\ s \in Task
    BY <2>1, CallTasks DEF AddressTask
  <2>4. CASE is_direct
    <3>1. <<>> \o <<t>> = <<t>>
      OBVIOUS
    <3>2. Call(<<t>>)
      BY <2>2, <2>4, <3>1
    <3> QED
      BY <2>3, <3>2, CallAdds
  <2>5. CASE ~is_direct
    <3>1. Adds(host, p)
      BY <2>3, PostedAdds
    <3> HIDE DEF p
    <3>2. Adds(host, Post(p, t))
      BY <2>3, <3>1, PostCommon
    <3> HIDE DEF s, t
    <3>3. host.tasks \in Seq(Task)
      BY DEF Host
    <3>4. host.tasks \o (<<s>> \o <<t>>) = Append(Append(host.tasks, s), t)
      BY <2>3, <3>3
    <3>5. host' = [host EXCEPT !.tasks = @ \o (<<s>> \o <<t>>)] /\ raced' = raced
      BY <2>2, <2>5 DEF Call
    <3>6. host' = Post(p, t)
      BY <3>4, <3>5 DEF Post, Host, p
    <3> QED
      BY <3>2, <3>5, <3>6
  <2> QED
    BY <2>4, <2>5
<1>2. ASSUME NEW do \in AddressTask, NEW a \in Address, Call(<<<<do, a>>>>)
      PROVE  Adds(host, host') /\ raced' = raced
  BY <1>2, CallTasks, CallAdds DEF AddressTask
<1>3. ASSUME NEW do \in PlainTask, Call(<<<<do, NoAddress>>>>)
      PROVE  Adds(host, host') /\ raced' = raced
  BY <1>3, CallTasks, CallAdds DEF PlainTask
<1>4. ASSUME NEW a \in Address,
             \/ CancelLeConnectAndRemoveFromBackgroundList(a)
             \/ RemoveFromBackgroundList(a) \/ RemoveDeviceFromFilterAcceptList(a)
      PROVE  Adds(host, host') /\ raced' = raced
  BY <1>2, <1>4 DEF CancelLeConnectAndRemoveFromBackgroundList, RemoveFromBackgroundList,
                    RemoveDeviceFromFilterAcceptList, AddressTask
<1>5. ASSUME \/ ClearFilterAcceptList \/ ChangeAclResolvingList \/ ClearAclResolvingList
             \/ SetPrivacyPolicyForInitiatorAddress
      PROVE  Adds(host, host') /\ raced' = raced
  BY <1>3, <1>5 DEF ClearFilterAcceptList, ChangeAclResolvingList, ClearAclResolvingList,
                    SetPrivacyPolicyForInitiatorAddress, PlainTask
<1> QED
  BY <1>1, <1>4, <1>5 DEF AclManager

LEMMA PeersAdd ==
  ASSUME host \in Host, NEW a \in Address, NEW status \in {"success", "failed", "invalid_parameters"},
         NEW event \in {"peripheral", "peripheral_invalid"},
         \/ CreateConnectionTimeout(a) \/ PeerConnects(a, event) \/ PeerDisconnects(a)
         \/ ConnectionComplete(a, status)
  PROVE  Adds(host, host') /\ raced' = raced
<1>1. CASE CreateConnectionTimeout(a)
  BY <1>1, cancel_connect_Adds DEF CreateConnectionTimeout
<1>2. <<event, a>> \in Task /\ <<"disconnect", a>> \in Task
  BY PostedTasks DEF AddressTask
<1>3. CASE PeerConnects(a, event)
  BY <1>2, <1>3, PostedAdds DEF PeerConnects
<1>4. CASE PeerDisconnects(a)
  BY <1>2, <1>4, PostedAdds DEF PeerDisconnects
<1>5. CASE ConnectionComplete(a, status)
  <2> DEFINE arg == <<status, a>>
  <2>1. arg \in CentralArgument
    BY DEF CentralArgument
  <2>2. host' = Post(host, <<"central", arg>>) /\ raced' = raced
    BY <1>5 DEF ConnectionComplete
  <2> HIDE DEF arg
  <2>3. <<"central", arg>> \in Task
    BY <2>1 DEF Task
  <2> QED
    BY <2>2, <2>3, PostedAdds
<1> QED
  BY <1>1, <1>3, <1>4, <1>5

(***************************************************************************)
(* The address is to be rotated.                                           *)
(***************************************************************************)
LEMMA pause_client_Unlisted ==
  ASSUME NEW h \in Host, Stopping(h), NEW c \in Client
  PROVE  Holds(pause_client(h, c).tasks, Unregister("scanner"))
           => Holds(h.tasks, Unregister("scanner"))
<1> DEFINE w == "WAITING_FOR_PAUSE"
           p == SetState(h, c, w)
<1>1. w \in ClientStates \cup {Absent}
  BY DEF ClientStates
<1>2. p \in Host /\ p.tasks = h.tasks /\ Stopping(p)
  BY <1>1, SetStateFields, SetStateKeeps
<1>3. pause_client(h, c) \in {h, OnPause(p, c)}
  BY DEF pause_client
<1> HIDE DEF p
<1>4. Grows(p, OnPause(p, c))
  BY <1>2, OnPauseAcks
<1>5. Holds(OnPause(p, c).tasks, Unregister("scanner")) => Holds(p.tasks, Unregister("scanner"))
  BY <1>4 DEF Grows, Holds
<1> QED
  BY <1>2, <1>3, <1>5

LEMMA RotationTimeoutResume ==
  ASSUME Inv, ResumeInv, RotationTimeout
  PROVE  ResumeInv'
<1> DEFINE c == <<"rotate", NoAddress>>
           g == [host EXCEPT !.cached_commands = Append(@, c), !.rotation_alarm = FALSE]
           a == ClientOrder[1]
           b == ClientOrder[2]
           p == pause_client(g, a)
<1>1. host \in Host
  BY InvParts
<1>2. raced' = raced /\ host' = prepare_to_rotate(host)
  BY DEF RotationTimeout
<1> SUFFICES ASSUME raced = {}
             PROVE  Triggered(host', NoTask) /\ Stopping(host') /\ Fresh(host')
  BY <1>2 DEF ResumeInv
<1>3. Goal(host) /\ Fresh(host)
  BY DEF ResumeInv, Goal
<1>4. Goal(host')
  BY <1>1, <1>2, <1>3, prepare_to_rotate_Goal
<1>5. c \in CachedCommand
  BY DEF CachedCommand
<1>6. host' = pause_registered_clients(g)
  BY <1>2 DEF prepare_to_rotate
<1> HIDE DEF c
<1>7. Adds(host, g)
  BY <1>1, <1>5, CachedStill
<1> HIDE DEF g
<1>8. Goal(g) /\ g \in Host /\ Fresh(g)
  BY <1>3, <1>7, AddsGoal, GrowsFresh DEF Adds, Grows
<1>9. Ready(g, NoTask) /\ Stopping(g) /\ a \in Client /\ b \in Client
  BY <1>8, GoalReady, ClientOrderAssumption DEF Client
<1>10. Ready(p, NoTask) /\ host' = pause_client(p, b)
  BY <1>6, <1>9, pause_client_Ready DEF pause_registered_clients
<1>11. Holds(host'.tasks, Unregister("scanner")) => Holds(g.tasks, Unregister("scanner"))
  <2> HIDE DEF p, a, b
  <2>1. Holds(p.tasks, Unregister("scanner")) => Holds(g.tasks, Unregister("scanner"))
    BY <1>8, <1>9, pause_client_Unlisted DEF p
  <2>2. Holds(host'.tasks, Unregister("scanner")) => Holds(p.tasks, Unregister("scanner"))
    BY <1>9, <1>10, pause_client_Unlisted DEF Ready
  <2> QED
    BY <2>1, <2>2
<1>12. SomePaused(host') => SomePaused(g)
  BY <1>6, <1>9, pause_registered_Ready DEF SomePaused
<1> QED
  BY <1>4, <1>8, <1>11, <1>12 DEF Goal, Fresh

(***************************************************************************)
(* The scanning manager scans.                                             *)
(***************************************************************************)
LEMMA scan_Adds ==
  ASSUME NEW h \in Host, NEW start \in BOOLEAN,
         scan(h, start).scan_registered = h.scan_registered
  PROVE  Adds(h, scan(h, start))
<1> DEFINE k == stop_scan(h)
<1>1. Adds(h, k) /\ k \in Host
  BY stop_scan_Adds DEF Adds, Grows
<1>2. k.scan_registered = h.scan_registered /\ k.scan_paused = h.scan_paused
  BY StopScanFields
<1>3. CASE ~start
  <2>1. ~h.scan_registered
    BY <1>3, ScanRegisters
  <2> QED
    BY <1>1, <1>3, <2>1, scan_Cases
<1>4. CASE start
  <2>1. scan(h, start) = start_scan(k)
    BY <1>4, scan_Cases
  <2>2. k.scan_paused \/ k.scan_registered
    BY <1>2, <1>4, ScanRegisters
  <2> HIDE DEF k
  <2>3. CASE k.scan_paused
    <3> DEFINE p == [k EXCEPT !.scan_on_resume = TRUE]
    <3>1. Still(k, p) /\ p.pause_connection = k.pause_connection
          /\ p.connectability_state = k.connectability_state
      BY <1>1 DEF Still, Host
    <3> HIDE DEF p
    <3>2. Adds(h, p)
      BY <1>1, <3>1, StillAdds, GrowsTrans
    <3> QED
      BY <2>1, <2>3, <3>2 DEF start_scan, p
  <2>4. CASE ~k.scan_paused
    <3> DEFINE p == [k EXCEPT !.is_scanning = TRUE, !.scan_registered = TRUE]
               c == <<"scan_on", NoAddress>>
    <3>1. Still(k, p) /\ p.pause_connection = k.pause_connection
          /\ p.connectability_state = k.connectability_state
      BY <1>1, <2>2, <2>4 DEF Still, Host
    <3>2. c \in SentCommand
      BY DEF SentCommand, UseName
    <3>3. start_scan(k) = enqueue_command(p, c)
      BY <2>2, <2>4 DEF start_scan
    <3> HIDE DEF p, c
    <3>4. Adds(k, enqueue_command(p, c))
      BY <1>1, <3>1, <3>2, SendAdds
    <3> QED
      BY <1>1, <2>1, <3>3, <3>4, GrowsTrans
  <2> QED
    BY <2>3, <2>4
<1> QED
  BY <1>3, <1>4

LEMMA scan_Registers ==
  ASSUME NEW h \in Host, NEW start \in BOOLEAN,
         scan(h, start).scan_registered # h.scan_registered
  PROVE  /\ scan(h, start).registered_clients = h.registered_clients
         /\ scan(h, start).connectability_state = h.connectability_state
         /\ scan(h, start).scan_registered => ~scan(h, start).scan_paused
<1> DEFINE k == stop_scan(h)
<1>1. /\ k \in Host /\ k.scan_registered = h.scan_registered /\ k.scan_paused = h.scan_paused
      /\ k.registered_clients = h.registered_clients
  BY StopScanFields
<1>2. k.connectability_state = h.connectability_state
  BY DEF stop_scan, enqueue_command, Host
<1>3. CASE ~start
  <2> DEFINE g == Post(Listing(k, FALSE, FALSE), <<"unregister_client", "scanner">>)
  <2>1. h.scan_registered /\ ~scan(h, start).scan_registered
    BY <1>3, ScanRegisters DEF Host
  <2>2. scan(h, start) = g
    BY <1>3, <2>1, scan_Cases
  <2> HIDE DEF k
  <2>3. /\ g.registered_clients = k.registered_clients
        /\ g.connectability_state = k.connectability_state
    BY <1>1 DEF Post, Listing, Host
  <2> QED
    BY <1>1, <1>2, <2>1, <2>2, <2>3
<1>4. CASE start
  <2>1. scan(h, start) = start_scan(k)
    BY <1>4, scan_Cases
  <2>2. ~h.scan_registered /\ ~h.scan_paused
    BY <1>4, ScanRegisters DEF Host
  <2> HIDE DEF k
  <2> DEFINE g == start_scan(k)
  <2>3. /\ g.registered_clients = k.registered_clients
        /\ g.connectability_state = k.connectability_state /\ g.scan_paused = k.scan_paused
    BY <1>1, <2>2 DEF start_scan, Post, enqueue_command, Host
  <2> QED
    BY <1>1, <1>2, <2>1, <2>2, <2>3
<1> QED
  BY <1>3, <1>4

(* With nothing on its way no client waits. *)
LEMMA QuietResumed ==
  ASSUME NEW h, Goal(h), h.tasks = <<>>, h.commands = <<>>
  PROVE  /\ h.connectability_state # "DISARMING"
         /\ \A c \in Client : h.registered_clients[c]
                                \notin {"WAITING_FOR_PAUSE", "PAUSED", "WAITING_FOR_RESUME"}
         /\ h.scan_registered => ~h.scan_paused
<1>1. \A x : ~Holds(h.tasks, x) /\ ~Holds(h.commands, x)
  BY DEF Holds
<1>2. \A c \in Client : ~Acks(h, NoTask, c) /\ ~Comes(h, NoTask, AckResume(c))
  BY <1>1 DEF Acks, Comes, NoTask, AckPause, AckResume, CancelEnds, CancelFails
<1>3. ~Drives(h, NoTask)
  BY <1>1 DEF Drives, Comes, NoTask
<1>4. ~SomePaused(h)
  BY <1>2, <1>3 DEF Goal, Triggered, Driven, Registered
<1>5. \A c \in Client : h.registered_clients[c]
                          \notin {"WAITING_FOR_PAUSE", "PAUSED", "WAITING_FOR_RESUME"}
  BY <1>2, <1>4 DEF Goal, Triggered, Waits, SomePaused
<1>6. h.connectability_state # "DISARMING"
  BY <1>1 DEF Goal, Stopping
<1>7. h.scan_registered => ~h.scan_paused
  <2>1. "scanner" \in Client
    BY DEF Client
  <2>2. ~Comes(h, NoTask, AckPause("scanner"))
    BY <1>2, <2>1 DEF Acks
  <2> QED
    BY <1>5, <2>1, <2>2 DEF Goal, Triggered, ScanWaits, ScannerState
<1> QED
  BY <1>5, <1>6, <1>7

LEMMA NobodyWaits ==
  ASSUME NEW g, g.connectability_state # "DISARMING",
         \A c \in Client : g.registered_clients[c]
                             \notin {"WAITING_FOR_PAUSE", "PAUSED", "WAITING_FOR_RESUME"},
         g.scan_registered => ~g.scan_paused
  PROVE  Goal(g) /\ Fresh(g)
<1>1. ~SomePaused(g) /\ Waits(g, NoTask)
  BY DEF SomePaused, Waits
<1>2. Behind(g, NoTask) /\ ScanWaits(g, NoTask)
  BY DEF Behind, ScanWaits, AcksBehind
<1> QED
  BY <1>1, <1>2 DEF Goal, Triggered, Driven, Stopping, Fresh

LEMMA ScanResume ==
  ASSUME Inv, ResumeInv, NEW start \in BOOLEAN, Scan(start)
  PROVE  ResumeInv'
<1>1. host \in Host /\ host' = scan(host, start) /\ raced \in SUBSET Client
  BY InvParts DEF Scan
<1>2. CASE host'.scan_registered = host.scan_registered
  <2>1. raced' = raced
    BY <1>2 DEF Scan
  <2> QED
    BY <1>1, <1>2, <2>1, scan_Adds, AddsResume
<1>3. CASE host'.scan_registered # host.scan_registered
  <2> SUFFICES ASSUME raced' = {}
               PROVE  Triggered(host', NoTask) /\ Stopping(host') /\ Fresh(host')
    BY DEF ResumeInv
  <2>1. Quiet /\ raced = {}
    BY <1>3 DEF Scan
  <2>2. Goal(host) /\ host.tasks = <<>> /\ host.commands = <<>>
    BY <2>1 DEF ResumeInv, Goal, Quiet
  <2>3. /\ host'.registered_clients = host.registered_clients
        /\ host'.connectability_state = host.connectability_state
        /\ host'.scan_registered => ~host'.scan_paused
    BY <1>1, <1>3, scan_Registers
  <2>4. /\ host'.connectability_state # "DISARMING"
        /\ \A c \in Client : host'.registered_clients[c]
                               \notin {"WAITING_FOR_PAUSE", "PAUSED", "WAITING_FOR_RESUME"}
    BY <2>2, <2>3, QuietResumed
  <2> QED
    BY <2>3, <2>4, NobodyWaits DEF Goal
<1> QED
  BY <1>2, <1>3

(***************************************************************************)
(* The controller executes a command.                                      *)
(***************************************************************************)
LEMMA SendingKeeps ==
  ASSUME NEW h \in Host, h.commands # <<>>
  PROVE  /\ Sending(h) \in Host /\ Sending(h).tasks = h.tasks
         /\ Sending(h).registered_clients = h.registered_clients
         /\ Sending(h).scan_registered = h.scan_registered
         /\ Sending(h).scan_paused = h.scan_paused
         /\ Sending(h).pause_connection = h.pause_connection
         /\ Sending(h).connectability_state = h.connectability_state
         /\ \A i \in DOMAIN h.commands : i # 1 => Holds(Sending(h).commands, h.commands[i])
         /\ h.commands[1] \in SentCommand /\ Head(h.commands) = h.commands[1]
<1> DEFINE p == Sending(h)
<1>1. /\ p \in Host /\ p.tasks = h.tasks /\ p.registered_clients = h.registered_clients
      /\ p.scan_registered = h.scan_registered /\ p.scan_paused = h.scan_paused
      /\ p.connectability_state = h.connectability_state /\ p.commands = Tail(h.commands)
  BY SendingFields
<1>2. p.pause_connection = h.pause_connection
  BY DEF Sending, Host
<1> HIDE DEF p
<1>3. h.commands \in Seq(SentCommand)
  BY DEF Host
<1>4. /\ DOMAIN p.commands = 1 .. (Len(h.commands) - 1) /\ DOMAIN h.commands = 1 .. Len(h.commands)
      /\ Len(h.commands) \in Nat \ {0}
      /\ \A i \in DOMAIN p.commands : p.commands[i] = h.commands[i + 1]
      /\ h.commands[1] \in SentCommand /\ Head(h.commands) = h.commands[1]
  BY <1>1, <1>3
<1>5. ASSUME NEW i \in DOMAIN h.commands, i # 1
      PROVE  Holds(p.commands, h.commands[i])
  <2>1. i - 1 \in DOMAIN p.commands /\ (i - 1) + 1 = i
    BY <1>4, <1>5
  <2> QED
    BY <1>4, <2>1 DEF Holds
<1> QED
  BY <1>1, <1>2, <1>4, <1>5 DEF p

LEMMA ExecutedTriggered ==
  ASSUME NEW h \in Host, h.commands # <<>>, NEW g, Adds(Sending(h), g), Triggered(h, NoTask),
         h.commands[1] = Cancel => (\E end \in CancelEnds : Holds(g.tasks, end)) \/ Holds(g.tasks, CancelFails),
         Changing(h.commands[1]) => Holds(g.tasks, <<"OnCommandComplete", NoAddress>>)
  PROVE  Triggered(g, NoTask)
<1> DEFINE p == Sending(h)
           e == <<"OnCommandComplete", NoAddress>>
<1>1. /\ p \in Host /\ p.tasks = h.tasks /\ p.registered_clients = h.registered_clients
      /\ p.scan_registered = h.scan_registered /\ p.scan_paused = h.scan_paused
      /\ p.pause_connection = h.pause_connection
      /\ \A i \in DOMAIN h.commands : i # 1 => Holds(p.commands, h.commands[i])
  BY SendingKeeps
<1>2. Grows(p, g) /\ g.scan_paused = p.scan_paused
  BY DEF Adds
<1> HIDE DEF p
<1>3. \A x : Comes(h, NoTask, x) => Comes(g, NoTask, x)
  BY <1>1, <1>2 DEF Grows, Comes, Holds
<1>4. \A i \in DOMAIN h.commands : i = 1 \/ Holds(g.commands, h.commands[i])
  BY <1>1, <1>2, GrowsComes
<1>5. Holds(h.commands, Cancel) =>
        \/ Holds(g.commands, Cancel) \/ (\E end \in CancelEnds : Comes(g, NoTask, end)) \/ Comes(g, NoTask, CancelFails)
  BY <1>4 DEF Holds, Comes
<1>6. h.pause_connection => g.pause_connection
  BY <1>1, <1>2 DEF Grows
<1>7. \A c \in Client : Acks(h, NoTask, c) => Acks(g, NoTask, c)
  BY <1>3, <1>5, <1>6 DEF Acks
<1>8. Drives(h, NoTask) => Drives(g, NoTask)
  <2>1. ASSUME NEW i \in DOMAIN h.commands, Changing(h.commands[i])
        PROVE  Drives(g, NoTask)
    <3>1. CASE i = 1
      BY <2>1, <3>1 DEF Drives, Comes
    <3>2. CASE i # 1
      <4>1. Holds(g.commands, h.commands[i])
        BY <1>4, <3>2
      <4> QED
        BY <2>1, <4>1 DEF Drives, Holds
    <3> QED
      BY <3>1, <3>2
  <2> QED
    BY <1>3, <2>1 DEF Drives
<1>9. g.registered_clients = h.registered_clients /\ g.scan_registered = h.scan_registered
  BY <1>1, <1>2 DEF Grows
<1>10. Registered(g) = Registered(h) /\ Registered(h) \subseteq Client
  BY <1>9 DEF Registered
<1>11. Waits(g, NoTask)
  BY <1>3, <1>7, <1>9 DEF Triggered, Waits
<1>12. Driven(g, NoTask)
  BY <1>7, <1>8, <1>9, <1>10 DEF Triggered, Driven, SomePaused
<1>13. Behind(g, NoTask)
  <2>1. \A k : AcksBehind(h, k) => AcksBehind(g, k)
    BY <1>1, <1>2 DEF AcksBehind, Grows
  <2> QED
    BY <1>1, <1>2, <2>1 DEF Triggered, Behind, Grows
<1>14. ScanWaits(g, NoTask)
  BY <1>1, <1>2, <1>3, <1>9 DEF Triggered, ScanWaits, ScannerState
<1> QED
  BY <1>11, <1>12, <1>13, <1>14 DEF Triggered

LEMMA ExecutedFresh ==
  ASSUME NEW h \in Host, h.commands # <<>>, NEW g, Adds(Sending(h), g), Fresh(h)
  PROVE  Fresh(g)
<1>1. /\ Sending(h).tasks = h.tasks /\ Sending(h).registered_clients = h.registered_clients
  BY SendingKeeps
<1>2. Fresh(Sending(h))
  BY <1>1 DEF Fresh, SomePaused
<1> QED
  BY <1>2, GrowsFresh DEF Adds

LEMMA ExecutedStopping ==
  ASSUME NEW h \in Host, h.commands # <<>>, NEW g, Adds(Sending(h), g), Stopping(h),
         h.commands[1][1] # "cancel"
  PROVE  Stopping(g)
<1> DEFINE p == Sending(h)
<1>1. /\ p.tasks = h.tasks /\ p.connectability_state = h.connectability_state
      /\ \A i \in DOMAIN h.commands : i # 1 => Holds(p.commands, h.commands[i])
  BY SendingKeeps
<1> HIDE DEF p
<1>2. Holds(h.commands, Cancel) => Holds(p.commands, Cancel)
  <2> SUFFICES ASSUME NEW i \in DOMAIN h.commands, h.commands[i] = Cancel
               PROVE  Holds(p.commands, Cancel)
    BY DEF Holds
  <2>1. i # 1
    BY DEF Cancel
  <2> QED
    BY <1>1, <2>1
<1>3. Stopping(p)
  BY <1>1, <1>2 DEF Stopping
<1> QED
  BY <1>3, GrowsStopping DEF Adds, p

LEMMA SentCancel ==
  ASSUME NEW c \in SentCommand
  PROVE  /\ c[1] = "cancel" <=> c = Cancel
         /\ Changing(c) <=> c[1] \notin {"create", "cancel", "scan_on", "scan_off"}
BY DEF SentCommand, ListCommand, ResolvingName, UseName, Changing, Cancel

LEMMA ExecutedResume ==
  ASSUME Inv, ResumeInv, host.commands # <<>>, Adds(Sending(host), host'), raced' = raced,
         host.commands[1] = Cancel =>
           ((\E end \in CancelEnds : Holds(host'.tasks, end)) \/ Holds(host'.tasks, CancelFails)) /\ Stopping(host'),
         Changing(host.commands[1]) => Holds(host'.tasks, <<"OnCommandComplete", NoAddress>>)
  PROVE  ResumeInv'
<1>1. host \in Host
  BY InvParts
<1>2. host.commands[1] \in SentCommand
  BY <1>1, SendingKeeps
<1> SUFFICES ASSUME raced = {}
             PROVE  Triggered(host', NoTask) /\ Stopping(host') /\ Fresh(host')
  BY DEF ResumeInv
<1>3. Triggered(host, NoTask) /\ Stopping(host) /\ Fresh(host)
  BY DEF ResumeInv
<1>4. Triggered(host', NoTask)
  BY <1>1, <1>3, ExecutedTriggered
<1>5. Fresh(host')
  BY <1>1, <1>3, ExecutedFresh
<1>6. Stopping(host')
  BY <1>1, <1>2, <1>3, SentCancel, ExecutedStopping
<1> QED
  BY <1>4, <1>5, <1>6

(* The command that is executed, and the events that answer it. *)
LEMMA ExecutedEvents ==
  ASSUME Inv, host.commands # <<>>, NEW s, NEW arg, <<s, arg>> \in Task,
         s \notin {"unregister_client", "ack_resume"}
  PROVE  /\ WithEvents(<<>>) = Sending(host) /\ Adds(Sending(host), WithEvents(<<>>))
         /\ Adds(Sending(host), WithEvents(<<<<s, arg>>>>))
         /\ Holds(WithEvents(<<<<s, arg>>>>).tasks, <<s, arg>>)
         /\ host \in Host /\ command = host.commands[1] /\ host.commands[1] \in SentCommand
<1> DEFINE t == <<s, arg>>
<1>1. host \in Host
  BY InvParts
<1>2. Sending(host) \in Host /\ host.commands[1] \in SentCommand /\ Head(host.commands) = host.commands[1]
  BY <1>1, SendingKeeps
<1>3. Adds(Sending(host), Sending(host))
  BY <1>2, GrowsSelf
<1>4. Adds(Sending(host), Post(Sending(host), t)) /\ Holds(Post(Sending(host), t).tasks, t)
  BY <1>3, PostCommon
<1> HIDE DEF t
<1>5. WithEvents(<<>>) = Sending(host) /\ WithEvents(<<t>>) = Post(Sending(host), t)
  BY <1>1, EventsPosted DEF WithEvents, t
<1> QED
  BY <1>1, <1>2, <1>3, <1>4, <1>5 DEF t, command

LEMMA ExecuteCreateResume ==
  ASSUME Inv, ResumeInv, ExecuteCreate
  PROVE  ResumeInv'
<1>1. PICK status \in {"success", "disallowed"} :
        host' = WithEvents(<<<<"on_create_connection", status>>>>)
  BY DEF ExecuteCreate
<1>2. host.commands # <<>> /\ command[1] = "create" /\ raced' = raced
  BY DEF ExecuteCreate, Unbusy
<1>3. <<"on_create_connection", status>> \in Task
  BY DEF Task, AnswerTask
<1>4. /\ Adds(Sending(host), host') /\ command = host.commands[1]
      /\ host.commands[1] \in SentCommand
  BY <1>1, <1>2, <1>3, ExecutedEvents
<1>5. host.commands[1] # Cancel /\ ~Changing(host.commands[1])
  BY <1>2, <1>4, SentCancel DEF Cancel
<1> QED
  BY <1>2, <1>4, <1>5, ExecutedResume

LEMMA ExecuteScanResume ==
  ASSUME Inv, ResumeInv, ExecuteScan
  PROVE  ResumeInv'
<1>1. /\ host' = WithEvents(<<>>) /\ host.commands # <<>> /\ raced' = raced
      /\ command[1] \in {"scan_on", "scan_off"}
  BY DEF ExecuteScan, Unbusy
<1>2. <<"OnCommandComplete", NoAddress>> \in Task
  BY PostedTasks DEF PlainTask
<1>3. /\ Adds(Sending(host), host') /\ command = host.commands[1]
      /\ host.commands[1] \in SentCommand
  BY <1>1, <1>2, ExecutedEvents
<1>4. host.commands[1] # Cancel /\ ~Changing(host.commands[1])
  BY <1>1, <1>3, SentCancel DEF Cancel
<1> QED
  BY <1>1, <1>3, <1>4, ExecutedResume

LEMMA ExecuteListResume ==
  ASSUME Inv, ResumeInv, ExecuteList
  PROVE  ResumeInv'
<1>1. /\ host' = WithEvents(<<<<"OnCommandComplete", NoAddress>>>>)
      /\ host.commands # <<>> /\ raced' = raced /\ command[1] # "cancel"
  BY DEF ExecuteList, Unbusy
<1>2. <<"OnCommandComplete", NoAddress>> \in Task
  BY PostedTasks DEF PlainTask
<1>3. /\ Adds(Sending(host), host') /\ command = host.commands[1]
      /\ Holds(host'.tasks, <<"OnCommandComplete", NoAddress>>)
  BY <1>1, <1>2, ExecutedEvents
<1>4. host.commands[1] # Cancel
  BY <1>1, <1>3 DEF Cancel
<1> QED
  BY <1>1, <1>3, <1>4, ExecutedResume

LEMMA TwoEvents ==
  ASSUME host \in Host, host.commands # <<>>, NEW s \in Task, NEW t \in Task
  PROVE  WithEvents(<<s, t>>) = Post(Post(Sending(host), s), t)
<1>1. host.tasks \in Seq(Task)
  BY DEF Host
<1>2. host.tasks \o <<s, t>> = Append(Append(host.tasks, s), t)
  BY <1>1, AppendIsConcat
<1> QED
  BY <1>2 DEF WithEvents, Sending, Post, Host

(* An attempt that cannot be cancelled has ended, and the event that says  *)
(* so came first; or the command to create it is still before its cancel   *)
(* command.                                                                *)
LEMMA ExecuteCancelResume ==
  ASSUME Inv, ResumeInv, NEW a \in accept_list \cup {NoAddress}, ExecuteCancel(a)
  PROVE  ResumeInv'
<1>1. host.commands # <<>> /\ command[1] = "cancel" /\ raced' = raced
  BY DEF ExecuteCancel, Unbusy
<1>2. CASE initiating
  <2> DEFINE u == <<"on_cancel_complete", "success">>
             p == Sending(host)
             q == Post(p, u)
             e == <<"central", <<"unknown_connection", a>>>>
             g == Post(q, e)
  <2>1. host \in Host /\ u \in Task /\ e \in Task /\ e \in CancelEnds
    BY InvParts DEF Task, AnswerTask, CentralArgument, CancelEnds, Inv
  <2>2. host' = g
    <3>1. host' = WithEvents(<<u, e>>)
      BY <1>2 DEF ExecuteCancel
    <3>2. WithEvents(<<u, e>>) = Post(Post(Sending(host), u), e)
      <4> HIDE DEF u, e
      <4> QED
        BY <1>1, <2>1, TwoEvents
    <3> QED
      BY <3>1, <3>2
  <2>3. p \in Host /\ Adds(p, p)
    BY <1>1, <2>1, SendingKeeps, GrowsSelf
  <2>4. Adds(p, q)
    BY <2>1, <2>3, PostCommon
  <2> HIDE DEF q
  <2>5. Adds(p, g) /\ Holds(g.tasks, e)
    BY <2>1, <2>4, PostCommon
  <2>6. Stopping(g)
    BY <2>1, <2>5 DEF Stopping
  <2>7. ~Changing(host.commands[1])
    BY <1>1 DEF Changing, UseName, command
  <2> HIDE DEF g, p, e
  <2> QED
    BY <1>1, <2>1, <2>2, <2>5, <2>6, <2>7, ExecutedResume DEF p
<1>3. CASE ~initiating
  <2>1. CancelFails \in Task
    BY DEF Task, AnswerTask, CancelFails
  <2>2. host' = WithEvents(<<CancelFails>>)
    BY <1>3 DEF ExecuteCancel, CancelFails
  <2>3. /\ Adds(Sending(host), host') /\ command = host.commands[1] /\ host \in Host
        /\ Holds(host'.tasks, CancelFails) /\ host.commands[1] \in SentCommand
    BY <1>1, <2>1, <2>2, ExecutedEvents DEF CancelFails
  <2>4. ~Changing(host.commands[1])
    BY <1>1, <2>3 DEF Changing, UseName
  <2>5. Stopping(host')
    <3>1. /\ Attempt(host) /\ host.commands \in Seq(SentCommand) /\ host.tasks \in Seq(Task)
      BY <2>3, InvParts DEF Host
    <3>2. host' = Post(Sending(host), CancelFails)
      BY <1>1, <2>1, <2>2, <2>3, EventsPosted DEF WithEvents
    <3>3. /\ Sending(host) \in Host /\ Sending(host).tasks = host.tasks
          /\ Sending(host).connectability_state = host.connectability_state
          /\ Sending(host).commands = Tail(host.commands)
          /\ \A i \in DOMAIN host.commands : i # 1 => Holds(Sending(host).commands, host.commands[i])
      BY <1>1, <2>3, SendingKeeps, SendingFields
    <3>4. /\ host'.tasks = Append(host.tasks, CancelFails)
          /\ host'.connectability_state = host.connectability_state
          /\ host'.commands = Sending(host).commands
      BY <2>1, <3>2, <3>3, PostFields
    <3> SUFFICES ASSUME host'.connectability_state = "DISARMING"
                 PROVE  \/ Holds(host'.commands, Cancel)
                        \/ \E i, j \in DOMAIN host'.tasks : /\ i < j /\ host'.tasks[i][1] = "central"
                                                            /\ host'.tasks[j] = CancelFails
      BY DEF Stopping
    <3>5. /\ At(host.commands, "create") # {} \/ At(host.tasks, "central") # {}
          /\ Cancelled(host)
      BY <1>3, <3>1, <3>4 DEF Attempt, StateFits, Attempting
    <3>6. CASE At(host.tasks, "central") # {}
      <4>1. PICK i \in DOMAIN host.tasks : host.tasks[i][1] = "central"
        BY <3>6 DEF At
      <4> DEFINE j == Len(host.tasks) + 1
      <4>2. /\ i \in DOMAIN host'.tasks /\ j \in DOMAIN host'.tasks /\ i < j
            /\ host'.tasks[i] = host.tasks[i] /\ host'.tasks[j] = CancelFails
        BY <2>1, <3>1, <3>4
      <4> QED
        BY <4>1, <4>2
    <3>7. CASE At(host.commands, "create") # {}
      <4>1. PICK i \in At(host.commands, "create") : TRUE
        BY <3>7
      <4>2. i \in DOMAIN host.commands /\ i < Len(host.commands) + 1
        BY <3>1, <4>1 DEF At
      <4>3. PICK j \in At(host.commands, "cancel") : i < j
        BY <3>5, <4>1, <4>2 DEF Cancelled, CancelledBefore, Off
      <4>4. j \in DOMAIN host.commands /\ j # 1 /\ host.commands[j] \in SentCommand
            /\ host.commands[j][1] = "cancel"
        BY <3>1, <4>2, <4>3 DEF At
      <4>5. host.commands[j] = Cancel
        BY <4>4, SentCancel
      <4> QED
        BY <3>3, <3>4, <4>4, <4>5
    <3> QED
      BY <3>5, <3>6, <3>7
  <2> QED
    BY <1>1, <2>3, <2>4, <2>5, ExecutedResume
<1> QED
  BY <1>2, <1>3

(***************************************************************************)
(* The invariant, and what it says when the handler is idle.               *)
(***************************************************************************)
LEMMA ResumeInit == Init => ResumeInv
<1> SUFFICES ASSUME Init PROVE ResumeInv
  OBVIOUS
<1>1. /\ host.connectability_state = "DISARMED" /\ host.scan_registered = FALSE
      /\ host.registered_clients = [c \in Client |-> Absent]
  BY DEF Init
<1>2. \A c \in Client : host.registered_clients[c]
                          \notin {"WAITING_FOR_PAUSE", "PAUSED", "WAITING_FOR_RESUME"}
  BY <1>1 DEF Absent
<1> QED
  BY <1>1, <1>2, NobodyWaits DEF ResumeInv, Goal

LEMMA ResumeStep == Inv /\ ResumeInv /\ [Next]_vars => ResumeInv'
<1> SUFFICES ASSUME Inv, ResumeInv, [Next]_vars PROVE ResumeInv'
  OBVIOUS
<1>1. host \in Host
  BY InvParts
<1>2. CASE \E start \in BOOLEAN : Scan(start)
  BY <1>2, ScanResume
<1>3. CASE RunTask
  BY <1>3, RunTaskResume
<1>4. CASE Controller
  BY <1>4, ExecuteCreateResume, ExecuteCancelResume, ExecuteScanResume, ExecuteListResume
     DEF Controller
<1>5. CASE AclManager
  BY <1>1, <1>5, AclManagerAdds, AddsResume
<1>6. CASE RotationTimeout
  BY <1>6, RotationTimeoutResume
<1>7. CASE \E a \in Address, status \in {"success", "failed", "invalid_parameters"},
               event \in {"peripheral", "peripheral_invalid"} :
             \/ CreateConnectionTimeout(a) \/ PeerConnects(a, event) \/ PeerDisconnects(a)
             \/ ConnectionComplete(a, status)
  BY <1>1, <1>7, PeersAdd, AddsResume
<1>8. CASE UNCHANGED vars
  <2>1. host' = host /\ raced' = raced
    BY <1>8 DEF vars
  <2> QED
    BY <2>1 DEF ResumeInv
<1> QED
  BY <1>2, <1>3, <1>4, <1>5, <1>6, <1>7, <1>8 DEF Next

(* Whenever the handler is idle no client is left paused or waiting, and   *)
(* the scanner's is_paused is reset: an acknowledgement, an answer or a    *)
(* closure that brings the next step is always on its way                  *)
(* (le_address_manager.cc: pause_registered_clients, ack_pause,            *)
(* resume_registered_clients, check_cached_commands).                      *)
THEOREM ClientsAreResumed == Spec => []ClientsResumed
<1>1. Inv /\ ResumeInv => ClientsResumed
  <2> SUFFICES ASSUME Inv, ResumeInv, AtRest
               PROVE  /\ \A c \in Registered(host) : host.registered_clients[c] = "RESUMED"
                      /\ host.scan_registered => ~host.scan_paused
    BY DEF ClientsResumed
  <2>1. Goal(host) /\ host.tasks = <<>> /\ host.commands = <<>> /\ host \in Host
    BY InvParts DEF AtRest, Quiet, ResumeInv, Goal
  <2>2. /\ \A c \in Client : host.registered_clients[c]
                               \notin {"WAITING_FOR_PAUSE", "PAUSED", "WAITING_FOR_RESUME"}
        /\ host.scan_registered => ~host.scan_paused
    BY <2>1, QuietResumed
  <2>3. \A c \in Client : host.registered_clients[c] \in ClientStates \cup {Absent}
    BY <2>1 DEF Host
  <2> QED
    BY <2>2, <2>3 DEF Registered, ClientStates
<1> QED
  BY <1>1, InvInit, InvStep, ResumeInit, ResumeStep, PTL DEF Spec
=============================================================================
