--------------------------- MODULE HciLayerProofs ---------------------------
(***************************************************************************)
(* Proofs about the command path of the HCI layer, for any set of commands,*)
(* any opcodes and any bound on the tasks and on the credits.              *)
(***************************************************************************)
EXTENDS HciLayer, TLAPS

(***************************************************************************)
(* Sequences.                                                              *)
(***************************************************************************)

(* What Head and Tail of a queue are. *)
LEMMA HeadTail ==
  ASSUME NEW S, NEW s \in Seq(S), s # <<>>
  PROVE  /\ Len(s) \in Nat \ {0}
         /\ DOMAIN s = 1..Len(s)
         /\ Head(s) = s[1]
         /\ Head(s) \in S
         /\ Tail(s) \in Seq(S)
         /\ DOMAIN Tail(s) = 1..(Len(s) - 1)
         /\ \A i \in DOMAIN Tail(s) : i + 1 \in DOMAIN s /\ Tail(s)[i] = s[i + 1]
  OBVIOUS

(* What appending to a queue does. *)
LEMMA AppendLast ==
  ASSUME NEW S, NEW s \in Seq(S), NEW e \in S
  PROVE  /\ Append(s, e) \in Seq(S)
         /\ Append(s, e) # <<>>
         /\ DOMAIN s = 1..Len(s)
         /\ Len(s) \in Nat
         /\ DOMAIN Append(s, e) = 1..(Len(s) + 1)
         /\ \A i \in DOMAIN s : Append(s, e)[i] = s[i]
         /\ Append(s, e)[Len(s) + 1] = e
         /\ Head(Append(s, e)) = IF s = <<>> THEN e ELSE Head(s)
  OBVIOUS

(***************************************************************************)
(* Type correctness.                                                       *)
(***************************************************************************)

(* Every constructor of a task yields a task. *)
LEMMA TaskTypes ==
  /\ \A c \in Packets \ {DebugInfo} : [run |-> "enqueue_command", cmd |-> c] \in Task
  /\ \A e \in Event : [run |-> "on_hci_event", event |-> e] \in Task
  /\ \A e \in Event : [run |-> "handle_command_response", event |-> e] \in Task
  /\ \A b \in BOOLEAN :
       [run |-> "fail_if_reset_complete_not_success", success |-> b] \in Task
  BY DEF Task

(* What a task's fields are, by the function it runs. *)
LEMMA TaskFields ==
  ASSUME NEW t \in Task
  PROVE  /\ t.run = "enqueue_command" => t.cmd \in Packets \ {DebugInfo}
         /\ t.run \in {"on_hci_event", "handle_command_response"}
              => /\ t.event \in Event
                 /\ t.event.op \in Op \cup {NONE}
                 /\ t.event.num \in 0..MaxNum
                 /\ t.event.code = "ROOT_INFLAMMATION"
                      => t.event.op = NONE /\ t.event.num = 0
  <1>1. /\ t.run = "enqueue_command" => t.cmd \in Packets \ {DebugInfo}
        /\ t.run \in {"on_hci_event", "handle_command_response"}
             => t.event \in Event
    BY DEF Task
  <1>2. \A e \in Event : /\ e.op \in Op \cup {NONE}
                         /\ e.num \in 0..MaxNum
                         /\ e.code = "ROOT_INFLAMMATION"
                              => e.op = NONE /\ e.num = 0
    BY BoundAssumption DEF Event
  <1> QED
    BY <1>1, <1>2

(* The opcode of a packet is an opcode, and not NONE. *)
LEMMA OpTypes == \A c \in Packets : OpOf[c] \in Op /\ OpOf[c] # NONE
  BY PacketAssumption DEF Op

(* send_next_command keeps the types of the variables it assigns. *)
LEMMA SendTypes ==
  ASSUME TypeOK, NEW queue \in Seq(Packets), NEW credits \in 0..MaxNum,
         NEW waiting \in Op \cup {NONE}, NEW alarm \in {"null", "idle", "armed"},
         send_next_command(queue, credits, waiting, alarm)
  PROVE  /\ waiting_command' \in Op \cup {NONE}
         /\ command_credits' \in 0..MaxNum
         /\ hci_timeout_alarm' \in {"null", "idle", "armed"}
         /\ ctl' \subseteq Packets
         /\ room' \in 0..MaxNum
  <1>1. queue # <<>> => Head(queue) \in Packets
    BY HeadTail
  <1>2. MaxNum \in Nat
    BY BoundAssumption
  <1> QED
    BY <1>1, <1>2, OpTypes DEF send_next_command, TypeOK

(* Each step keeps the types. *)
LEMMA TypeStep == TypeOK /\ [Next]_vars => TypeOK'
  <1> SUFFICES ASSUME TypeOK, [Next]_vars PROVE TypeOK'
    OBVIOUS
  <1> USE DEF TypeOK
  <1>a. tasks # <<>> => Head(tasks) \in Task /\ Tail(tasks) \in Seq(Task)
    BY HeadTail
  <1>b. command_queue # <<>> => /\ Head(command_queue) \in Packets
                                /\ Tail(command_queue) \in Seq(Packets)
    BY HeadTail
  <1>c. 0 \in 0..MaxNum /\ 1 \in 0..MaxNum /\ MaxNum \in Nat
    BY BoundAssumption
  <1>d. Reset \in Packets \ {DebugInfo} /\ DebugInfo \in Packets
    BY PacketAssumption DEF Packets
  <1>1. CASE Start
    BY <1>1, <1>d, TaskTypes, AppendLast DEF Start, Post, host
  <1>2. ASSUME NEW c \in Cmd, EnqueueCommand(c) PROVE TypeOK'
    <2>1. c \in Packets \ {DebugInfo}
      BY PacketAssumption DEF Packets
    <2> QED
      BY <1>2, <2>1, TaskTypes, AppendLast DEF EnqueueCommand, Post, host
  <1>3. CASE Stop
    BY <1>3 DEF Stop
  <1>4. CASE enqueue_command
    <2>1. Head(tasks).cmd \in Packets \ {DebugInfo}
      BY <1>4, <1>a, TaskFields DEF enqueue_command, Run
    <2>2. command_queue' \in Seq(Packets)
      BY <1>4, <2>1, AppendLast DEF enqueue_command
    <2>3. tasks' \in Seq(Task)
      BY <1>4, <1>a DEF enqueue_command, Run
    <2> QED
      BY <1>4, <2>2, <2>3, SendTypes DEF enqueue_command
  <1>5. CASE on_hci_event
    <2>1. /\ Head(tasks) \in Task /\ Head(tasks).event \in Event
          /\ Tail(tasks) \in Seq(Task)
      BY <1>5, <1>a, TaskFields DEF on_hci_event, Run
    <2>2. Append(Tail(tasks), [run |-> "handle_command_response",
                               event |-> Head(tasks).event]) \in Seq(Task)
      BY <2>1, TaskTypes, AppendLast
    <2> QED
      BY <1>5, <2>1, <2>2
      DEF on_hci_event, Abort, Aborts, handle_root_inflammation, host
  <1>6. CASE handle_command_response
    <2> DEFINE event == Head(tasks).event
    <2>1. /\ event \in Event /\ event.num \in 0..MaxNum
          /\ event.op \in Op \cup {NONE}
          /\ Tail(tasks) \in Seq(Task)
      BY <1>6, <1>a, TaskFields DEF handle_command_response, Run
    <2> HIDE DEF event
    <2>2. CASE /\ event.op = NONE
               /\ tasks' = Tail(tasks)
               /\ send_next_command(command_queue, event.num, waiting_command,
                                    hci_timeout_alarm)
               /\ UNCHANGED <<state, to_enqueue, command_queue, hci_abort_alarm,
                              replies>>
      BY <2>1, <2>2, SendTypes
    <2>3. CASE Abort("unexpected_response")
      BY <2>3 DEF Abort, Aborts, host
    <2>4. CASE /\ tasks' = Tail(tasks)
               /\ command_credits' = event.num
               /\ UNCHANGED <<state, to_enqueue, command_queue, waiting_command,
                              hci_timeout_alarm, hci_abort_alarm, replies, ctl,
                              room>>
      BY <2>1, <2>4
    <2>5. CASE /\ command_queue # <<>>
               /\ invoke_front(event)
               /\ command_queue' = Tail(command_queue)
               /\ \/ /\ hci_timeout_alarm = "null"
                     /\ waiting_command' = NONE
                     /\ command_credits' = event.num
                     /\ UNCHANGED <<hci_timeout_alarm, ctl, room>>
                  \/ /\ hci_timeout_alarm # "null"
                     /\ send_next_command(Tail(command_queue), event.num, NONE,
                                          "idle")
               /\ UNCHANGED <<state, to_enqueue, hci_abort_alarm>>
      <3> DEFINE entry == Head(command_queue)
                 good == /\ entry = Reset
                         /\ event.code = "COMMAND_COMPLETE"
                         /\ event.success
                 check == [run |-> "fail_if_reset_complete_not_success",
                           success |-> good]
      <3>1. entry \in Packets /\ Tail(command_queue) \in Seq(Packets)
        BY <2>5, <1>b
      <3>2. check \in Task
        BY TaskTypes
      <3>3. Append(Tail(tasks), check) \in Seq(Task)
        BY <2>1, <3>2, AppendLast
      <3>4. tasks' \in Seq(Task)
        BY <2>5, <2>1, <3>3 DEF invoke_front, InvokeCallbackOf
      <3>5. replies' \in Seq(Packets \ {DebugInfo})
        <4>1. entry # DebugInfo => Append(replies, entry) \in Seq(Packets \ {DebugInfo})
          BY <3>1, AppendLast
        <4> QED
          BY <2>5, <4>1 DEF invoke_front, InvokeCallbackOf
      <3>6. /\ waiting_command' \in Op \cup {NONE}
            /\ command_credits' \in 0..MaxNum
            /\ hci_timeout_alarm' \in {"null", "idle", "armed"}
            /\ ctl' \subseteq Packets
            /\ room' \in 0..MaxNum
        <4>1. CASE hci_timeout_alarm = "null"
          BY <2>1, <2>5, <4>1
        <4>2. CASE hci_timeout_alarm # "null"
          <5>1. send_next_command(Tail(command_queue), event.num, NONE, "idle")
            BY <2>5, <4>2
          <5> QED
            BY <2>1, <3>1, <5>1, SendTypes
        <4> QED
          BY <4>1, <4>2
      <3> QED
        BY <2>5, <3>1, <3>4, <3>5, <3>6
    <2> QED
      BY <1>6, <2>2, <2>3, <2>4, <2>5 DEF handle_command_response, event, credits_from, pop_and_send_next
  <1>7. CASE fail_if_reset_complete_not_success
    BY <1>7, <1>a
    DEF fail_if_reset_complete_not_success, Run, Abort, Aborts, host
  <1>8. CASE on_hci_timeout
    <2>1. <<DebugInfo>> \in Seq(Packets)
      BY <1>d
    <2> QED
      BY <1>8, <1>c, <1>d, <2>1, OpTypes DEF on_hci_timeout
  <1>9. CASE abort_alarm_fires
    BY <1>9 DEF abort_alarm_fires, Abort, Aborts, host
  <1>10. CASE ControllerAnswersSome
    <2>1. PICK c \in ctl, code \in {"COMMAND_COMPLETE", "COMMAND_STATUS"},
               num \in 0..MaxNum, success \in BOOLEAN :
                 ControllerAnswers(c, code, num, success)
      BY <1>10 DEF ControllerAnswersSome
    <2> DEFINE e == [code |-> code, op |-> OpOf[c], num |-> num,
                     success |-> success]
    <2>2. e \in Event
      BY OpTypes DEF Event
    <2>3. Append(tasks, [run |-> "on_hci_event", event |-> e]) \in Seq(Task)
      BY <2>2, TaskTypes, AppendLast
    <2> QED
      BY <2>1, <2>3 DEF ControllerAnswers, ControllerEvent, Post, host
  <1>11. ASSUME NEW num \in 0..MaxNum, ControllerFlowControl(num)
         PROVE  TypeOK'
    <2> DEFINE e == [code |-> "COMMAND_COMPLETE", op |-> NONE, num |-> num,
                     success |-> TRUE]
    <2>2. e \in Event
      BY DEF Event
    <2>3. Append(tasks, [run |-> "on_hci_event", event |-> e]) \in Seq(Task)
      BY <2>2, TaskTypes, AppendLast
    <2> QED
      BY <1>11, <2>3 DEF ControllerFlowControl, ControllerEvent, Post, host
  <1>12. CASE ControllerRootInflammation
    <2> DEFINE e == [code |-> "ROOT_INFLAMMATION", op |-> NONE, num |-> 0,
                     success |-> FALSE]
    <2>2. e \in Event
      BY DEF Event
    <2>3. Append(tasks, [run |-> "on_hci_event", event |-> e]) \in Seq(Task)
      BY <2>2, TaskTypes, AppendLast
    <2> QED
      BY <1>12, <2>3 DEF ControllerRootInflammation, ControllerEvent, Post, host
  <1>13. CASE UNCHANGED vars
    BY <1>13 DEF vars, host
  <1> QED
    BY <1>1, <1>2, <1>3, <1>4, <1>5, <1>6, <1>7, <1>8, <1>9, <1>10, <1>11,
       <1>12, <1>13 DEF Next

(* TypeOK holds of every reachable state: in particular command_credits_,  *)
(* an 8-bit counter, stays within what one event can grant.                *)
THEOREM TypeCorrect == Spec => []TypeOK
  <1>1. Init => TypeOK
    BY PacketAssumption, BoundAssumption DEF Init, TypeOK, Packets, Aborts
  <1> QED
    BY <1>1, TypeStep, PTL DEF Spec

(***************************************************************************)
(* The inductive invariant.  Until a timeout the wait of the host and the  *)
(* one answer under way determine each other (OneOutstanding), and a       *)
(* controller without room has no grant under way that could outlive that  *)
(* answer (NoStaleCredit).                                                 *)
(***************************************************************************)

(* Posting a task that carries no answer leaves the answers where they are. *)
LEMMA PostOther ==
  ASSUME TypeOK, NEW t \in Task, tasks' = Append(tasks, t),
         t.run \in {"on_hci_event", "handle_command_response"}
           => t.event.op = NONE
  PROVE  /\ Responses' = Responses
         /\ \A i \in DOMAIN tasks : i \in DOMAIN tasks' /\ tasks'[i] = tasks[i]
         /\ DOMAIN tasks = 1..Len(tasks) /\ Len(tasks) \in Nat
         /\ DOMAIN tasks' = 1..(Len(tasks) + 1)
         /\ tasks'[Len(tasks) + 1] = t
  BY AppendLast DEF TypeOK, Responses, CarriesResponse

(* Running a task that carries no answer moves the answers up by one. *)
LEMMA RunOther ==
  ASSUME TypeOK, tasks # <<>>, tasks' = Tail(tasks), 1 \notin Responses
  PROVE  /\ DOMAIN tasks = 1..Len(tasks) /\ Len(tasks) \in Nat \ {0}
         /\ DOMAIN tasks' = 1..(Len(tasks) - 1)
         /\ \A i \in DOMAIN tasks' : i + 1 \in DOMAIN tasks /\ tasks'[i] = tasks[i + 1]
         /\ \A i \in Responses' : i + 1 \in Responses /\ tasks'[i] = tasks[i + 1]
         /\ \A i \in Responses : i - 1 \in Responses' /\ tasks'[i - 1] = tasks[i]
  BY HeadTail DEF TypeOK, Responses, CarriesResponse


(* The parts of the invariant that speak of a live process. *)
Rest == OneOutstanding /\ AlarmsAgree /\ DebugInfoAfterTimeout /\ NoStaleCredit

(* Once the process stops or aborts nothing is left to show. *)
LEMMA DownStep == ASSUME ~Up' PROVE Rest'
  BY DEF Rest, OneOutstanding, AlarmsAgree, DebugInfoAfterTimeout, NoStaleCredit

(* What a caller of send_next_command leaves behind: the answers now under *)
(* way are those the host waits for, and no credit is stale.               *)
ReadyToSend(queue, credits, waiting, alarm) ==
  /\ \A i \in DOMAIN queue : queue[i] # DebugInfo
  /\ waiting = NONE <=> ctl = {} /\ Responses' = {}
  /\ ctl = {} \/ Responses' = {}
  /\ \A c, d \in ctl : c = d
  /\ \A i, j \in Responses' : i = j
  /\ \A c \in ctl : waiting = OpOf[c]
  /\ \A i \in Responses' : waiting = tasks'[i].event.op
  /\ waiting # NONE => queue # <<>> /\ OpOf[Head(queue)] = waiting
  /\ alarm = "null" <=> hci_abort_alarm' # "null"
  /\ alarm = "idle" => waiting = NONE
  /\ room = 0 =>
       /\ waiting = NONE =>
            /\ credits = 0
            /\ \A j \in DOMAIN tasks' : ~CarriesGrant(j)'
       /\ \A i \in Responses' :
            /\ tasks'[i].event.num = 0
            /\ \A j \in DOMAIN tasks' : LeftLater(i, j)' => ~CarriesGrant(j)'

(* send_next_command then keeps the invariant. *)
LEMMA SendStep ==
  ASSUME TypeOK, TypeOK', Up, ~TimedOut, ~TimedOut',
         NEW queue \in Seq(Packets), NEW credits \in 0..MaxNum,
         NEW waiting, NEW alarm,
         command_queue' = queue,
         send_next_command(queue, credits, waiting, alarm),
         ReadyToSend(queue, credits, waiting, alarm)
  PROVE  Rest' /\ (ctl' \ ctl # {} => room > 0)
  <1> USE DEF ReadyToSend
  <1>1. CASE credits = 0 \/ waiting # NONE \/ queue = <<>>
    <2>1. /\ waiting_command' = waiting /\ command_credits' = credits
          /\ hci_timeout_alarm' = alarm /\ ctl' = ctl /\ room' = room
      BY <1>1 DEF send_next_command
    <2>2. OneOutstanding'
      BY <2>1 DEF OneOutstanding
    <2>3. AlarmsAgree'
      BY <2>1 DEF AlarmsAgree
    <2>4. DebugInfoAfterTimeout'
      BY DEF DebugInfoAfterTimeout
    <2>5. NoStaleCredit'
      BY <2>1 DEF NoStaleCredit
    <2> QED
      BY <2>1, <2>2, <2>3, <2>4, <2>5 DEF Rest
  <1>2. CASE ~(credits = 0 \/ waiting # NONE \/ queue = <<>>)
    <2>0. Head(queue) \in Packets
      BY <1>2, HeadTail
    <2>1. /\ waiting_command' = OpOf[Head(queue)] /\ command_credits' = 0
          /\ hci_timeout_alarm' = (IF alarm = "null" THEN "null" ELSE "armed")
          /\ ctl' = {Head(queue)}
          /\ Responses' = {}
      BY <1>2 DEF send_next_command
    <2>2. OneOutstanding'
      BY <1>2, <2>0, <2>1, OpTypes DEF OneOutstanding
    <2>3. AlarmsAgree'
      BY <2>1 DEF AlarmsAgree
    <2>4. DebugInfoAfterTimeout'
      BY DEF DebugInfoAfterTimeout
    <2>5. NoStaleCredit'
      BY <2>0, <2>1, OpTypes DEF NoStaleCredit
    <2>6. room > 0
      BY <1>2, BoundAssumption DEF TypeOK
    <2> QED
      BY <2>2, <2>3, <2>4, <2>5, <2>6 DEF Rest
  <1> QED
    BY <1>1, <1>2


(* The alarms agree after every step, timed out or not. *)
LEMMA AlarmsStep == TypeOK /\ AlarmsAgree /\ [Next]_vars => AlarmsAgree'
  <1> SUFFICES ASSUME TypeOK, AlarmsAgree, Up', [Next]_vars PROVE AlarmsAgree'
    BY DEF AlarmsAgree
  <1> USE DEF AlarmsAgree, Up, host
  <1>1. CASE Start
    BY <1>1 DEF Start
  <1>2. ASSUME NEW c \in Cmd, EnqueueCommand(c) PROVE AlarmsAgree'
    BY <1>2 DEF EnqueueCommand
  <1>3. CASE Stop
    BY <1>3 DEF Stop
  <1>4. CASE enqueue_command
    BY <1>4 DEF enqueue_command, send_next_command, Run, TypeOK
  <1>5. CASE on_hci_event
    BY <1>5 DEF on_hci_event, handle_root_inflammation, Abort, Run, TypeOK
  <1>6. CASE handle_command_response
    BY <1>6
    DEF handle_command_response, send_next_command, Abort, Run, TypeOK,
        credits_from, pop_and_send_next
  <1>7. CASE fail_if_reset_complete_not_success
    BY <1>7 DEF fail_if_reset_complete_not_success, Abort, Run
  <1>8. CASE on_hci_timeout
    BY <1>8 DEF on_hci_timeout
  <1>9. CASE abort_alarm_fires
    BY <1>9 DEF abort_alarm_fires, Abort
  <1>10. CASE ControllerAnswersSome
    BY <1>10 DEF ControllerAnswersSome, ControllerAnswers
  <1>11. ASSUME NEW num \in 0..MaxNum, ControllerFlowControl(num)
         PROVE  AlarmsAgree'
    BY <1>11 DEF ControllerFlowControl
  <1>12. CASE ControllerRootInflammation
    BY <1>12 DEF ControllerRootInflammation
  <1>13. CASE UNCHANGED vars
    BY <1>13 DEF vars
  <1> QED
    BY <1>1, <1>2, <1>3, <1>4, <1>5, <1>6, <1>7, <1>8, <1>9, <1>10, <1>11,
       <1>12, <1>13 DEF Next

(* Of a process that timed out only the alarms are left to show. *)
LEMMA TimedOutStep == ASSUME TimedOut', AlarmsAgree' PROVE Rest'
  BY DEF Rest, OneOutstanding, DebugInfoAfterTimeout, NoStaleCredit

(* A step that touches neither the tasks nor the command path. *)
LEMMA QuietStep ==
  ASSUME IInv, AlarmsAgree',
         UNCHANGED <<tasks, command_queue, waiting_command, command_credits,
                     hci_abort_alarm, ctl, room>>,
         Up
  PROVE  Rest'
  BY DEF IInv, Rest, OneOutstanding, DebugInfoAfterTimeout, NoStaleCredit,
         Responses, CarriesResponse, CarriesGrant, LeftLater, TimedOut

(* A task is posted that carries neither an answer nor a grant. *)
LEMMA PostStep ==
  ASSUME IInv, Up, AlarmsAgree', NEW t \in Task, tasks' = Append(tasks, t),
         t.run \in {"on_hci_event", "handle_command_response"}
           => t.event.op = NONE /\ (t.event.num > 0 => room' > 0),
         room' = 0 => room = 0 \/ ctl # {},
         UNCHANGED <<command_queue, waiting_command, command_credits,
                     hci_abort_alarm, ctl>>
  PROVE  Rest'
  <1> USE DEF IInv
  <1> SUFFICES ASSUME Up', ~TimedOut' PROVE Rest'
    BY DownStep, TimedOutStep
  <1>0. ~TimedOut
    BY DEF TimedOut
  <1>1. /\ Responses' = Responses
        /\ \A i \in DOMAIN tasks : i \in DOMAIN tasks' /\ tasks'[i] = tasks[i]
        /\ DOMAIN tasks = 1..Len(tasks) /\ Len(tasks) \in Nat
        /\ DOMAIN tasks' = 1..(Len(tasks) + 1)
        /\ tasks'[Len(tasks) + 1] = t
    BY PostOther
  <1>2. OneOutstanding'
    BY <1>0, <1>1 DEF OneOutstanding, Responses
  <1>3. DebugInfoAfterTimeout'
    BY <1>0 DEF DebugInfoAfterTimeout
  <1>4. NoStaleCredit'
    <2> SUFFICES ASSUME room' = 0 PROVE NoStaleCredit'
      BY DEF NoStaleCredit
    <2>1. \A j \in DOMAIN tasks' : j \notin DOMAIN tasks => ~CarriesGrant(j)'
      <3>1. \A j \in DOMAIN tasks' : j \notin DOMAIN tasks => tasks'[j] = t
        BY <1>1
      <3> QED
        BY <3>1 DEF CarriesGrant
    <2>2. \A j \in DOMAIN tasks : CarriesGrant(j)' <=> CarriesGrant(j)
      BY <1>1 DEF CarriesGrant
    <2>3. \A i, j \in DOMAIN tasks : LeftLater(i, j)' <=> LeftLater(i, j)
      BY <1>1 DEF LeftLater
    <2>4. ctl # {} => waiting_command # NONE /\ Responses = {}
      BY <1>0 DEF OneOutstanding
    <2>5. CASE ctl # {}
      BY <1>1, <2>4, <2>5 DEF NoStaleCredit
    <2>6. CASE room = 0
      BY <1>0, <1>1, <2>1, <2>2, <2>3, <2>6 DEF NoStaleCredit, Responses
    <2> QED
      BY <2>5, <2>6
  <1> QED
    BY <1>2, <1>3, <1>4 DEF Rest


(* enqueue_command: the new entry goes to the back, and to the controller  *)
(* when nothing is outstanding.                                            *)
LEMMA EnqueueStep ==
  ASSUME IInv, TypeOK', AlarmsAgree', enqueue_command
  PROVE  Rest' /\ (ctl' \ ctl # {} /\ ~TimedOut' => room > 0)
  <1> USE DEF IInv
  <1> SUFFICES ASSUME ~TimedOut'
               PROVE  Rest' /\ (ctl' \ ctl # {} => room > 0)
    BY TimedOutStep
  <1>0. Up /\ Up' /\ ~TimedOut /\ tasks # <<>> /\ 1 \notin Responses
    BY HeadTail DEF enqueue_command, Run, Up, TimedOut, Responses, CarriesResponse,
       TypeOK
  <1>1. /\ DOMAIN tasks = 1..Len(tasks) /\ Len(tasks) \in Nat \ {0}
        /\ DOMAIN tasks' = 1..(Len(tasks) - 1)
        /\ \A i \in DOMAIN tasks' : i + 1 \in DOMAIN tasks /\ tasks'[i] = tasks[i + 1]
        /\ \A i \in Responses' : i + 1 \in Responses /\ tasks'[i] = tasks[i + 1]
        /\ \A i \in Responses : i - 1 \in Responses' /\ tasks'[i - 1] = tasks[i]
    BY <1>0, RunOther DEF enqueue_command
  <1> DEFINE c == Head(tasks).cmd
             queue == Append(command_queue, c)
  <1>2. c \in Packets \ {DebugInfo}
    BY <1>0, HeadTail, TaskFields DEF enqueue_command, Run, TypeOK
  <1>3. /\ queue \in Seq(Packets)
        /\ Head(queue) = IF command_queue = <<>> THEN c ELSE Head(command_queue)
        /\ queue # <<>>
        /\ \A i \in DOMAIN queue :
             queue[i] = c \/ (i \in DOMAIN command_queue /\ queue[i] = command_queue[i])
    <2>1. command_queue \in Seq(Packets) /\ c \in Packets
      BY <1>2 DEF TypeOK
    <2> HIDE DEF c
    <2>2. /\ queue \in Seq(Packets)
          /\ queue # <<>>
          /\ DOMAIN command_queue = 1..Len(command_queue)
          /\ Len(command_queue) \in Nat
          /\ DOMAIN queue = 1..(Len(command_queue) + 1)
          /\ \A i \in DOMAIN command_queue : queue[i] = command_queue[i]
          /\ queue[Len(command_queue) + 1] = c
          /\ Head(queue) = IF command_queue = <<>> THEN c ELSE Head(command_queue)
      BY <2>1, AppendLast
    <2> QED
      BY <2>2
  <1>4. \A i \in DOMAIN queue : queue[i] # DebugInfo
    BY <1>0, <1>2, <1>3 DEF DebugInfoAfterTimeout
  <1>5. /\ command_queue' = queue
        /\ send_next_command(queue, command_credits, waiting_command,
                             hci_timeout_alarm)
        /\ hci_abort_alarm' = hci_abort_alarm
    BY DEF enqueue_command
  <1> HIDE DEF queue, c
  <1>6. /\ \A i \in Responses' : i \in DOMAIN tasks' /\ i \in Nat
        /\ \A i \in Responses : i \in Nat
    BY <1>1 DEF Responses
  <1>7. /\ waiting_command = NONE <=> ctl = {} /\ Responses' = {}
        /\ ctl = {} \/ Responses' = {}
        /\ \A d, e \in ctl : d = e
        /\ \A i, j \in Responses' : i = j
        /\ \A d \in ctl : waiting_command = OpOf[d]
        /\ \A i \in Responses' : waiting_command = tasks'[i].event.op
        /\ waiting_command # NONE => OpOf[Head(queue)] = waiting_command
    <2>1. Responses' = {} <=> Responses = {}
      BY <1>1
    <2>2. \A i, j \in Responses' : i = j
      BY <1>0, <1>1, <1>6 DEF OneOutstanding
    <2> QED
      BY <1>0, <1>1, <1>3, <2>1, <2>2 DEF OneOutstanding
  <1>8. /\ hci_timeout_alarm = "null" <=> hci_abort_alarm' # "null"
        /\ hci_timeout_alarm = "idle" => waiting_command = NONE
    BY <1>0, <1>5 DEF AlarmsAgree
  <1>9. room = 0 =>
           /\ waiting_command = NONE =>
                /\ command_credits = 0
                /\ \A j \in DOMAIN tasks' : ~CarriesGrant(j)'
           /\ \A i \in Responses' :
                /\ tasks'[i].event.num = 0
                /\ \A j \in DOMAIN tasks' : LeftLater(i, j)' => ~CarriesGrant(j)'
    <2>1. \A j \in DOMAIN tasks' : CarriesGrant(j)' => CarriesGrant(j + 1)
      BY <1>1 DEF CarriesGrant
    <2>2. \A i, j \in DOMAIN tasks' : LeftLater(i, j)' => LeftLater(i + 1, j + 1)
      BY <1>1 DEF LeftLater
    <2> QED
      BY <1>0, <1>1, <1>6, <2>1, <2>2 DEF NoStaleCredit
  <1>10. ReadyToSend(queue, command_credits, waiting_command, hci_timeout_alarm)
    BY <1>3, <1>4, <1>7, <1>8, <1>9 DEF ReadyToSend
  <1>11. command_credits \in 0..MaxNum
    BY DEF TypeOK
  <1> QED
    BY <1>0, <1>3, <1>5, <1>10, <1>11, SendStep


(* A task runs that carries no answer and touches nothing but the alarms. *)
LEMMA RunStep ==
  ASSUME IInv, Up, AlarmsAgree', tasks # <<>>, tasks' = Tail(tasks),
         1 \notin Responses, TimedOut => TimedOut',
         UNCHANGED <<command_queue, waiting_command, command_credits, ctl, room>>
  PROVE  Rest'
  <1> USE DEF IInv
  <1> SUFFICES ASSUME Up', ~TimedOut' PROVE Rest'
    BY DownStep, TimedOutStep
  <1>1. /\ DOMAIN tasks = 1..Len(tasks) /\ Len(tasks) \in Nat \ {0}
        /\ DOMAIN tasks' = 1..(Len(tasks) - 1)
        /\ \A i \in DOMAIN tasks' : i + 1 \in DOMAIN tasks /\ tasks'[i] = tasks[i + 1]
        /\ \A i \in Responses' : i + 1 \in Responses /\ tasks'[i] = tasks[i + 1]
        /\ \A i \in Responses : i - 1 \in Responses' /\ tasks'[i - 1] = tasks[i]
    BY RunOther
  <1>2. /\ \A i \in Responses' : i \in DOMAIN tasks' /\ i \in Nat
        /\ \A i \in Responses : i \in Nat
    BY <1>1 DEF Responses
  <1>3. OneOutstanding'
    <2>1. Responses' = {} <=> Responses = {}
      BY <1>1
    <2>2. \A i, j \in Responses' : i = j
      BY <1>1, <1>2 DEF OneOutstanding
    <2>3. \A i \in Responses' : waiting_command = tasks'[i].event.op
      <3>1. \A i \in Responses : waiting_command = tasks[i].event.op
        BY DEF OneOutstanding
      <3>2. \A i \in Responses' : i + 1 \in Responses /\ tasks'[i] = tasks[i + 1]
        BY <1>1
      <3> QED
        BY <3>1, <3>2
    <2> QED
      BY <2>1, <2>2, <2>3 DEF OneOutstanding
  <1>4. DebugInfoAfterTimeout'
    BY DEF DebugInfoAfterTimeout
  <1>5. NoStaleCredit'
    <2>1. \A j \in DOMAIN tasks' : CarriesGrant(j)' => CarriesGrant(j + 1)
      BY <1>1 DEF CarriesGrant
    <2>2. \A i, j \in DOMAIN tasks' : LeftLater(i, j)' => LeftLater(i + 1, j + 1)
      BY <1>1 DEF LeftLater
    <2> QED
      BY <1>1, <1>2, <2>1, <2>2 DEF NoStaleCredit
  <1> QED
    BY <1>3, <1>4, <1>5 DEF Rest

(* on_hci_event posts an answer or a grant once more, behind every task    *)
(* already there: the events keep the order in which they left the         *)
(* controller.                                                             *)
LEMMA HopStep ==
  ASSUME IInv, Up, TypeOK', AlarmsAgree', tasks # <<>>,
         Head(tasks).run = "on_hci_event",
         tasks' = Append(Tail(tasks), [run |-> "handle_command_response",
                                       event |-> Head(tasks).event]),
         UNCHANGED <<host, ctl, room>>
  PROVE  Rest'
  <1> USE DEF IInv
  <1> SUFFICES ASSUME Up', ~TimedOut' PROVE Rest'
    BY DownStep, TimedOutStep
  <1>0. ~TimedOut
    BY DEF TimedOut, host
  <1> DEFINE n == Len(tasks)
             hop == [run |-> "handle_command_response",
                     event |-> Head(tasks).event]
             old(i) == IF i = n THEN 1 ELSE i + 1
  <1>1. /\ n \in Nat \ {0}
        /\ DOMAIN tasks = 1..n
        /\ DOMAIN tasks' = 1..n
        /\ \A i \in 1..(n - 1) : tasks'[i] = tasks[i + 1]
        /\ tasks'[n] = hop
        /\ tasks[1].run = "on_hci_event"
        /\ hop.event = tasks[1].event /\ hop.run = "handle_command_response"
    <2>1. /\ n \in Nat \ {0} /\ DOMAIN tasks = 1..n
          /\ Head(tasks) = tasks[1] /\ Head(tasks) \in Task
          /\ Tail(tasks) \in Seq(Task) /\ DOMAIN Tail(tasks) = 1..(n - 1)
          /\ \A i \in DOMAIN Tail(tasks) : Tail(tasks)[i] = tasks[i + 1]
      BY HeadTail DEF TypeOK
    <2>2. hop \in Task
      BY <2>1, TaskFields, TaskTypes
    <2>3. Len(Tail(tasks)) = n - 1
      BY <2>1
    <2> HIDE DEF hop
    <2>4. /\ DOMAIN Append(Tail(tasks), hop) = 1..n
          /\ \A i \in DOMAIN Tail(tasks) :
               Append(Tail(tasks), hop)[i] = Tail(tasks)[i]
          /\ Append(Tail(tasks), hop)[n] = hop
      BY <2>1, <2>2, <2>3, AppendLast
    <2>5. hop.event = tasks[1].event /\ hop.run = "handle_command_response"
      BY <2>1 DEF hop
    <2>6. tasks' = Append(Tail(tasks), hop)
      BY DEF hop
    <2> QED
      BY <2>1, <2>4, <2>5, <2>6
  <1> HIDE DEF n, hop
  <1>2. \A i \in DOMAIN tasks' : old(i) \in DOMAIN tasks
    BY <1>1
  <1>3. \A i \in DOMAIN tasks' : CarriesResponse(i)' <=> CarriesResponse(old(i))
    BY <1>1 DEF CarriesResponse
  <1>4. \A i \in DOMAIN tasks' : CarriesGrant(i)' <=> CarriesGrant(old(i))
    BY <1>1 DEF CarriesGrant
  <1>5. \A i, j \in DOMAIN tasks' : i # j => old(i) # old(j)
    BY <1>1
  <1>6. \A i, j \in DOMAIN tasks' : i # j /\ LeftLater(i, j)' => LeftLater(old(i), old(j))
    BY <1>1 DEF LeftLater
  <1>7. \A i \in DOMAIN tasks' : CarriesResponse(i)' => tasks'[i].event = tasks[old(i)].event
    BY <1>1
  <1>8. \A i \in DOMAIN tasks : \E j \in DOMAIN tasks' : old(j) = i
    <2> TAKE i \in DOMAIN tasks
    <2>1. CASE i = 1
      BY <1>1, <2>1
    <2>2. CASE i # 1
      <3>1. i - 1 \in DOMAIN tasks' /\ old(i - 1) = i
        BY <1>1, <2>2
      <3> QED
        BY <3>1
    <2> QED
      BY <2>1, <2>2
  <1> HIDE DEF old
  <1>9. /\ \A i \in Responses' : old(i) \in Responses
        /\ Responses' = {} => Responses = {}
    BY <1>2, <1>3, <1>8 DEF Responses
  <1>10. OneOutstanding'
    <2>1. \A i, j \in Responses' : i = j
      BY <1>0, <1>5, <1>9 DEF OneOutstanding, Responses
    <2>2. \A i \in Responses' : tasks'[i].event = tasks[old(i)].event
      BY <1>7 DEF Responses
    <2> QED
      BY <1>0, <1>9, <2>1, <2>2 DEF OneOutstanding, host
  <1>11. DebugInfoAfterTimeout'
    BY <1>0 DEF DebugInfoAfterTimeout, host
  <1>12. NoStaleCredit'
    <2>1. \A i \in Responses' : ~CarriesGrant(i)'
      BY DEF CarriesGrant, CarriesResponse, Responses
    <2>2. \A i \in Responses' : i \in DOMAIN tasks'
      BY DEF Responses
    <2>3. \A i \in Responses' : tasks'[i].event = tasks[old(i)].event
      BY <1>7 DEF Responses
    <2> QED
      BY <1>0, <1>2, <1>4, <1>6, <1>9, <2>1, <2>2, <2>3 DEF NoStaleCredit, host
  <1> QED
    BY <1>10, <1>11, <1>12 DEF Rest


(* handle_command_response on a flow-control event: the credits are        *)
(* overwritten, and a command may go out.                                  *)
LEMMA GrantStep ==
  ASSUME IInv, Up, TypeOK', AlarmsAgree', tasks # <<>>,
         Head(tasks).run = "handle_command_response",
         Head(tasks).event.op = NONE,
         tasks' = Tail(tasks),
         send_next_command(command_queue, Head(tasks).event.num,
                           waiting_command, hci_timeout_alarm),
         UNCHANGED <<command_queue, hci_abort_alarm>>
  PROVE  Rest' /\ (ctl' \ ctl # {} /\ ~TimedOut' => room > 0)
  <1> USE DEF IInv
  <1> SUFFICES ASSUME ~TimedOut'
               PROVE  Rest' /\ (ctl' \ ctl # {} => room > 0)
    BY TimedOutStep
  <1>0. ~TimedOut /\ Head(tasks) = tasks[1] /\ 1 \in DOMAIN tasks
        /\ 1 \notin Responses
    BY HeadTail DEF TimedOut, TypeOK, Responses, CarriesResponse
  <1>1. /\ DOMAIN tasks = 1..Len(tasks) /\ Len(tasks) \in Nat \ {0}
        /\ DOMAIN tasks' = 1..(Len(tasks) - 1)
        /\ \A i \in DOMAIN tasks' : i + 1 \in DOMAIN tasks /\ tasks'[i] = tasks[i + 1]
        /\ \A i \in Responses' : i + 1 \in Responses /\ tasks'[i] = tasks[i + 1]
        /\ \A i \in Responses : i - 1 \in Responses' /\ tasks'[i - 1] = tasks[i]
    BY <1>0, RunOther
  <1> DEFINE credits == Head(tasks).event.num
  <1>2. credits \in 0..MaxNum
    BY HeadTail, TaskFields DEF TypeOK
  <1>3. credits = 0 \/ CarriesGrant(1)
    BY <1>0, <1>2, BoundAssumption DEF CarriesGrant
  <1> HIDE DEF credits
  <1>4. /\ \A i \in Responses' : i \in DOMAIN tasks' /\ i \in Nat
        /\ \A i \in Responses : i \in Nat
    BY <1>1 DEF Responses
  <1>5. /\ waiting_command = NONE <=> ctl = {} /\ Responses' = {}
        /\ ctl = {} \/ Responses' = {}
        /\ \A d, e \in ctl : d = e
        /\ \A i, j \in Responses' : i = j
        /\ \A d \in ctl : waiting_command = OpOf[d]
        /\ \A i \in Responses' : waiting_command = tasks'[i].event.op
        /\ waiting_command # NONE =>
             command_queue # <<>> /\ OpOf[Head(command_queue)] = waiting_command
    <2>1. Responses' = {} <=> Responses = {}
      BY <1>1
    <2>2. \A i, j \in Responses' : i = j
      BY <1>0, <1>1, <1>4 DEF OneOutstanding
    <2>3. \A i \in Responses : waiting_command = tasks[i].event.op
      BY <1>0 DEF OneOutstanding
    <2>4. \A i \in Responses' : waiting_command = tasks'[i].event.op
      <3>1. \A i \in Responses' : i + 1 \in Responses /\ tasks'[i] = tasks[i + 1]
        BY <1>1
      <3> QED
        BY <2>3, <3>1
    <2> QED
      BY <1>0, <2>1, <2>2, <2>4 DEF OneOutstanding
  <1>6. /\ hci_timeout_alarm = "null" <=> hci_abort_alarm' # "null"
        /\ hci_timeout_alarm = "idle" => waiting_command = NONE
    BY DEF AlarmsAgree
  <1>7. room = 0 =>
           /\ waiting_command = NONE =>
                /\ credits = 0
                /\ \A j \in DOMAIN tasks' : ~CarriesGrant(j)'
           /\ \A i \in Responses' :
                /\ tasks'[i].event.num = 0
                /\ \A j \in DOMAIN tasks' : LeftLater(i, j)' => ~CarriesGrant(j)'
    <2>1. \A j \in DOMAIN tasks' : CarriesGrant(j)' => CarriesGrant(j + 1)
      BY <1>1 DEF CarriesGrant
    <2>2. \A i, j \in DOMAIN tasks' : LeftLater(i, j)' => LeftLater(i + 1, j + 1)
      BY <1>1 DEF LeftLater
    <2> QED
      BY <1>0, <1>1, <1>3, <1>4, <2>1, <2>2 DEF NoStaleCredit
  <1>8. \A i \in DOMAIN command_queue : command_queue[i] # DebugInfo
    BY <1>0 DEF DebugInfoAfterTimeout
  <1>9. ReadyToSend(command_queue, credits, waiting_command, hci_timeout_alarm)
    BY <1>5, <1>6, <1>7, <1>8 DEF ReadyToSend
  <1>10. /\ send_next_command(command_queue, credits, waiting_command,
                              hci_timeout_alarm)
         /\ command_queue' = command_queue
         /\ command_queue \in Seq(Packets)
    BY DEF credits, TypeOK
  <1> QED
    BY <1>0, <1>2, <1>9, <1>10, SendStep

(* handle_command_response on the awaited answer: no answer and no stale   *)
(* grant is left, and the next command may go out.                         *)
LEMMA AnswerStep ==
  ASSUME IInv, Up, TypeOK', AlarmsAgree', tasks # <<>>,
         Head(tasks).run = "handle_command_response",
         Head(tasks).event.op # NONE,
         command_queue # <<>>,
         invoke_front(Head(tasks).event),
         command_queue' = Tail(command_queue),
         \/ /\ hci_timeout_alarm = "null"
            /\ waiting_command' = NONE
            /\ command_credits' = Head(tasks).event.num
            /\ UNCHANGED <<hci_timeout_alarm, ctl, room>>
         \/ /\ hci_timeout_alarm # "null"
            /\ send_next_command(Tail(command_queue), Head(tasks).event.num,
                                 NONE, "idle"),
         UNCHANGED hci_abort_alarm
  PROVE  Rest' /\ (ctl' \ ctl # {} /\ ~TimedOut' => room > 0)
  <1> USE DEF IInv
  <1> SUFFICES ASSUME ~TimedOut'
               PROVE  Rest' /\ (ctl' \ ctl # {} => room > 0)
    BY TimedOutStep
  <1> DEFINE n == Len(tasks)
             credits == Head(tasks).event.num
  <1>0. /\ n \in Nat \ {0} /\ DOMAIN tasks = 1..n /\ Head(tasks) = tasks[1]
        /\ Head(tasks) \in Task
        /\ Tail(tasks) \in Seq(Task) /\ DOMAIN Tail(tasks) = 1..(n - 1)
        /\ \A i \in DOMAIN Tail(tasks) : Tail(tasks)[i] = tasks[i + 1]
    BY HeadTail DEF TypeOK
  <1>1. ~TimedOut /\ 1 \in Responses
    BY <1>0 DEF TimedOut, Responses, CarriesResponse
  <1>2. ctl = {} /\ \A i \in Responses : i = 1
    BY <1>1 DEF OneOutstanding
  <1>3. /\ \A j \in DOMAIN tasks' :
             \/ j \in 1..(n - 1) /\ tasks'[j] = tasks[j + 1]
             \/ tasks'[j].run = "fail_if_reset_complete_not_success"
    <2> DEFINE good == /\ Head(command_queue) = Reset
                       /\ Head(tasks).event.code = "COMMAND_COMPLETE"
                       /\ Head(tasks).event.success
               check == [run |-> "fail_if_reset_complete_not_success",
                         success |-> good]
    <2>1. check \in Task /\ check.run = "fail_if_reset_complete_not_success"
      BY TaskTypes
    <2>2. tasks' = Tail(tasks) \/ tasks' = Append(Tail(tasks), check)
      BY DEF invoke_front, InvokeCallbackOf
    <2> HIDE DEF check
    <2>3. Len(Tail(tasks)) = n - 1
      BY <1>0
    <2>4. /\ DOMAIN Append(Tail(tasks), check) = 1..((n - 1) + 1)
          /\ \A i \in DOMAIN Tail(tasks) :
               Append(Tail(tasks), check)[i] = Tail(tasks)[i]
          /\ Append(Tail(tasks), check)[(n - 1) + 1] = check
      BY <1>0, <2>1, <2>3, AppendLast
    <2> HIDE DEF n
    <2>5. CASE tasks' = Tail(tasks)
      BY <1>0, <2>5
    <2>6. CASE tasks' = Append(Tail(tasks), check)
      BY <1>0, <2>1, <2>4, <2>6
    <2> QED
      BY <2>2, <2>5, <2>6
  <1>4. credits \in 0..MaxNum
    BY <1>0, TaskFields
  <1>5. room = 0 => credits = 0
    BY <1>0, <1>1 DEF NoStaleCredit
  <1> HIDE DEF n, credits
  <1>6. Responses' = {}
    <2>1. \A j \in DOMAIN tasks' : ~CarriesResponse(j)'
      <3> SUFFICES ASSUME NEW j \in DOMAIN tasks', CarriesResponse(j)'
                   PROVE FALSE
        OBVIOUS
      <3>1. j \in 1..(n - 1) /\ tasks'[j] = tasks[j + 1]
        BY <1>3 DEF CarriesResponse
      <3>2. j + 1 \in Responses
        BY <1>0, <3>1 DEF CarriesResponse, Responses
      <3> QED
        BY <1>0, <1>2, <3>1, <3>2
    <2> QED
      BY <2>1 DEF Responses
  <1>7. room = 0 => \A j \in DOMAIN tasks' : ~CarriesGrant(j)'
    <2> SUFFICES ASSUME room = 0, NEW j \in DOMAIN tasks', CarriesGrant(j)'
                 PROVE FALSE
      OBVIOUS
    <2>1. j \in 1..(n - 1) /\ tasks'[j] = tasks[j + 1]
      BY <1>3 DEF CarriesGrant
    <2>2. CarriesGrant(j + 1) /\ j + 1 \in DOMAIN tasks
      BY <1>0, <2>1 DEF CarriesGrant
    <2>3. LeftLater(1, j + 1)
      BY <1>0, <2>1, <2>2 DEF CarriesGrant, LeftLater
    <2> QED
      BY <1>1, <2>2, <2>3 DEF NoStaleCredit
  <1>8. /\ Tail(command_queue) \in Seq(Packets)
        /\ \A i \in DOMAIN Tail(command_queue) : Tail(command_queue)[i] # DebugInfo
    BY <1>1, HeadTail DEF DebugInfoAfterTimeout, TypeOK
  <1>9. CASE hci_timeout_alarm = "null"
    <2>1. /\ waiting_command' = NONE /\ command_credits' = credits
          /\ ctl' = {} /\ room' = room
      BY <1>2, <1>9 DEF credits
    <2>2. OneOutstanding'
      BY <1>6, <2>1 DEF OneOutstanding
    <2>3. DebugInfoAfterTimeout'
      BY <1>8 DEF DebugInfoAfterTimeout
    <2>4. NoStaleCredit'
      BY <1>5, <1>6, <1>7, <2>1 DEF NoStaleCredit
    <2> QED
      BY <2>1, <2>2, <2>3, <2>4 DEF Rest
  <1>10. CASE hci_timeout_alarm # "null"
    <2>1. send_next_command(Tail(command_queue), credits, NONE, "idle")
      BY <1>10 DEF credits
    <2>2. hci_abort_alarm' = "null"
      BY <1>10 DEF AlarmsAgree
    <2>3. ReadyToSend(Tail(command_queue), credits, NONE, "idle")
      BY <1>2, <1>5, <1>6, <1>7, <1>8, <2>2 DEF ReadyToSend
    <2> QED
      BY <1>1, <1>4, <1>8, <2>1, <2>3, SendStep
  <1> QED
    BY <1>9, <1>10


(* The controller answers the command it holds. *)
LEMMA ControllerAnswerStep ==
  ASSUME IInv, TypeOK', AlarmsAgree', ControllerAnswersSome
  PROVE  Rest' /\ ctl' \subseteq ctl
  <1> USE DEF IInv
  <1>1. PICK c \in ctl, code \in {"COMMAND_COMPLETE", "COMMAND_STATUS"},
             num \in 0..MaxNum, success \in BOOLEAN :
               ControllerAnswers(c, code, num, success)
    BY DEF ControllerAnswersSome
  <1> DEFINE n == Len(tasks)
             e == [code |-> code, op |-> OpOf[c], num |-> num, success |-> success]
             t == [run |-> "on_hci_event", event |-> e]
  <1>2. /\ Up /\ Up' /\ ctl' = ctl \ {c} /\ room' = num
        /\ tasks' = Append(tasks, t)
        /\ UNCHANGED host
    BY <1>1 DEF ControllerAnswers, ControllerEvent, Post, Up
  <1> SUFFICES ASSUME ~TimedOut' PROVE Rest'
    BY <1>2, TimedOutStep
  <1>3. ~TimedOut
    BY <1>2 DEF host, TimedOut
  <1>4. e \in Event /\ OpOf[c] # NONE
    BY OpTypes DEF Event, TypeOK
  <1>5. /\ DOMAIN tasks = 1..n /\ n \in Nat /\ DOMAIN tasks' = 1..(n + 1)
        /\ \A i \in DOMAIN tasks : tasks'[i] = tasks[i]
        /\ tasks'[n + 1] = t
    BY <1>2, <1>4, TaskTypes, AppendLast DEF TypeOK
  <1>6. /\ t.run = "on_hci_event" /\ t.event.op = OpOf[c] /\ t.event.num = num
    OBVIOUS
  <1>7. /\ ctl = {c} /\ Responses = {} /\ waiting_command = OpOf[c]
    BY <1>2, <1>3 DEF OneOutstanding
  <1> HIDE DEF t, n
  <1>8. Responses' = {n + 1}
    <2>1. \A i \in DOMAIN tasks : ~CarriesResponse(i)'
      BY <1>5, <1>7 DEF Responses, CarriesResponse
    <2>2. \A i \in DOMAIN tasks' : i = n + 1 => CarriesResponse(i)'
      BY <1>4, <1>5, <1>6 DEF CarriesResponse
    <2> QED
      BY <1>5, <2>1, <2>2 DEF Responses
  <1>9. OneOutstanding'
    BY <1>2, <1>3, <1>4, <1>5, <1>6, <1>7, <1>8 DEF OneOutstanding, host
  <1>10. DebugInfoAfterTimeout'
    BY <1>2, <1>3 DEF DebugInfoAfterTimeout, host
  <1>11. NoStaleCredit'
    <2>2. \A i \in Responses' : \A j \in DOMAIN tasks' : ~LeftLater(i, j)'
      BY <1>5, <1>6, <1>8 DEF LeftLater
    <2>3. waiting_command' # NONE
      BY <1>2, <1>4, <1>7 DEF host
    <2>4. room' = 0 => \A i \in Responses' : tasks'[i].event.num = 0
      BY <1>2, <1>5, <1>6, <1>8
    <2> QED
      BY <2>2, <2>3, <2>4 DEF NoStaleCredit
  <1> QED
    BY <1>9, <1>10, <1>11 DEF Rest

(* Every step keeps the inductive invariant, and sends only with room. *)
LEMMA InvariantStep ==
  ASSUME IInv, [Next]_vars
  PROVE  IInv' /\ (ctl' \ ctl # {} /\ ~TimedOut' => room > 0)
  <1> DEFINE Goal == /\ Rest'
                     /\ ResponsesExpected'
                     /\ ctl' \ ctl # {} /\ ~TimedOut' => room > 0
  <1>a. TypeOK' /\ AlarmsAgree'
    BY TypeStep, AlarmsStep DEF IInv
  <1> SUFFICES Goal
    BY <1>a DEF IInv, Rest
  <1>b. ASSUME Up' PROVE ResponsesExpected'
    BY <1>b DEF ResponsesExpected, Up
  <1>c. tasks # <<>> => Head(tasks) = tasks[1] /\ 1 \in DOMAIN tasks
                        /\ Head(tasks) \in Task
    BY HeadTail DEF IInv, TypeOK
  <1>1. CASE Start
    <2> DEFINE t == [run |-> "enqueue_command", cmd |-> Reset]
    <2>1. t \in Task /\ t.run = "enqueue_command"
      BY TaskTypes, PacketAssumption DEF Packets
    <2>2. Up /\ Up' /\ tasks' = Append(tasks, t)
      BY <1>1 DEF Start, Post, Up
    <2> HIDE DEF t
    <2>3. Rest'
      BY <1>1, <1>a, <2>1, <2>2, PostStep DEF Start, host
    <2> QED
      BY <1>1, <1>b, <2>2, <2>3 DEF Start
  <1>2. ASSUME NEW c \in Cmd, EnqueueCommand(c) PROVE Goal
    <2> DEFINE t == [run |-> "enqueue_command", cmd |-> c]
    <2>1. t \in Task /\ t.run = "enqueue_command"
      BY TaskTypes, PacketAssumption DEF Packets
    <2>2. Up /\ Up' /\ tasks' = Append(tasks, t)
      BY <1>2 DEF EnqueueCommand, Post, Up
    <2> HIDE DEF t
    <2>3. Rest'
      BY <1>2, <1>a, <2>1, <2>2, PostStep DEF EnqueueCommand, host
    <2> QED
      BY <1>2, <1>b, <2>2, <2>3 DEF EnqueueCommand
  <1>3. CASE Stop
    BY <1>3, DownStep DEF Stop, Up, ResponsesExpected
  <1>4. CASE enqueue_command
    <2>1. Up'
      BY <1>4 DEF enqueue_command, Run, Up
    <2> QED
      BY <1>4, <1>a, <1>b, <2>1, EnqueueStep
  <1>5. CASE on_hci_event
    <2> DEFINE event == Head(tasks).event
    <2>0. Up /\ tasks # <<>> /\ Head(tasks).run = "on_hci_event"
      BY <1>5 DEF on_hci_event, Run
    <2>1. CASE /\ command_queue = <<>>
               /\ event.op # NONE
               /\ Abort("unexpected_response")
      <3>1. 1 \in Responses
        BY <1>c, <2>0, <2>1 DEF Responses, CarriesResponse
      <3>2. TimedOut
        BY <2>0, <2>1, <3>1 DEF IInv, OneOutstanding
      <3>3. ~Up' /\ ResponsesExpected' /\ ctl' = ctl
        BY <2>1, <3>2 DEF Abort, Up, ResponsesExpected, TimedOut, host
      <3> QED
        BY <3>3, DownStep
    <2>2. CASE /\ event.code = "ROOT_INFLAMMATION"
               /\ tasks' = Tail(tasks)
               /\ handle_root_inflammation
               /\ UNCHANGED <<state, to_enqueue, ctl, room>>
      <3>1. event.op = NONE
        BY <1>c, <2>0, <2>2, TaskFields
      <3>2. 1 \notin Responses
        BY <1>c, <2>0, <3>1 DEF Responses, CarriesResponse
      <3>3. /\ TimedOut => TimedOut'
            /\ Up'
            /\ UNCHANGED <<command_queue, waiting_command, command_credits, ctl,
                           room>>
        BY <2>0, <2>2 DEF handle_root_inflammation, TimedOut, Up
      <3> QED
        BY <1>a, <1>b, <2>0, <2>2, <3>2, <3>3, RunStep
    <2>3. CASE /\ tasks' = Append(Tail(tasks), [run |-> "handle_command_response",
                                                event |-> event])
               /\ UNCHANGED <<state, to_enqueue, host, ctl, room>>
      <3>1. Up'
        BY <2>0, <2>3 DEF Up
      <3>2. Rest'
        BY <1>a, <2>0, <2>3, HopStep
      <3> QED
        BY <1>b, <2>3, <3>1, <3>2
    <2> QED
      BY <1>5, <2>1, <2>2, <2>3 DEF on_hci_event, unexpected
  <1>6. CASE handle_command_response
    <2> DEFINE event == Head(tasks).event
               late == /\ waiting_command = OpOf[DebugInfo]
                       /\ event.op # OpOf[DebugInfo]
    <2>0. Up /\ tasks # <<>> /\ Head(tasks).run = "handle_command_response"
      BY <1>6 DEF handle_command_response, Run
    <2>1. event.op # NONE => 1 \in Responses
      BY <1>c, <2>0 DEF Responses, CarriesResponse
    <2>2. CASE /\ event.op = NONE
               /\ tasks' = Tail(tasks)
               /\ send_next_command(command_queue, event.num, waiting_command,
                                    hci_timeout_alarm)
               /\ UNCHANGED <<state, to_enqueue, command_queue, hci_abort_alarm,
                              replies>>
      <3>1. Up'
        BY <2>0, <2>2 DEF Up
      <3> QED
        BY <1>a, <1>b, <2>0, <2>2, <3>1, GrantStep
    <2>3. CASE /\ event.op # NONE
               /\ command_queue = <<>> \/ (~late /\ waiting_command # event.op)
               /\ Abort("unexpected_response")
      <3>1. TimedOut
        BY <1>c, <2>0, <2>1, <2>3 DEF IInv, OneOutstanding
      <3>2. ~Up' /\ ResponsesExpected' /\ ctl' = ctl
        BY <2>3, <3>1 DEF Abort, Up, ResponsesExpected, TimedOut, host
      <3> QED
        BY <3>2, DownStep
    <2>4. CASE /\ event.op # NONE /\ command_queue # <<>> /\ late
               /\ tasks' = Tail(tasks)
               /\ command_credits' = event.num
               /\ UNCHANGED <<state, to_enqueue, command_queue, waiting_command,
                              hci_timeout_alarm, hci_abort_alarm, replies, ctl,
                              room>>
      <3>1. Head(command_queue) = command_queue[1] /\ 1 \in DOMAIN command_queue
            /\ Head(command_queue) \in Packets
        BY <2>4, HeadTail DEF IInv, TypeOK
      <3>2. Head(command_queue) # DebugInfo
              => OpOf[Head(command_queue)] # OpOf[DebugInfo]
        BY <3>1, PacketAssumption DEF Packets
      <3>3. OpOf[DebugInfo] # NONE
        BY OpTypes DEF Packets
      <3>4. TimedOut
        BY <2>0, <2>4, <3>1, <3>2, <3>3
        DEF IInv, OneOutstanding, DebugInfoAfterTimeout
      <3>5. TimedOut' /\ Up'
        BY <2>0, <2>4, <3>4 DEF TimedOut, Up
      <3> QED
        BY <1>a, <1>b, <2>4, <3>5, TimedOutStep
    <2>5. CASE /\ event.op # NONE /\ command_queue # <<>>
               /\ invoke_front(event)
               /\ command_queue' = Tail(command_queue)
               /\ \/ /\ hci_timeout_alarm = "null"
                     /\ waiting_command' = NONE
                     /\ command_credits' = event.num
                     /\ UNCHANGED <<hci_timeout_alarm, ctl, room>>
                  \/ /\ hci_timeout_alarm # "null"
                     /\ send_next_command(Tail(command_queue), event.num, NONE,
                                          "idle")
               /\ UNCHANGED <<state, to_enqueue, hci_abort_alarm>>
      <3>1. Up'
        BY <2>0, <2>5 DEF Up
      <3>2. Rest' /\ (ctl' \ ctl # {} /\ ~TimedOut' => room > 0)
        BY <1>a, <2>0, <2>5, AnswerStep
      <3> QED
        BY <1>b, <3>1, <3>2
    <2> QED
      BY <1>6, <2>2, <2>3, <2>4, <2>5
      DEF handle_command_response, credits_from, pop_and_send_next
  <1>7. CASE fail_if_reset_complete_not_success
    <2>1. CASE Abort("reset_failed")
      BY <2>1, DownStep DEF Abort, Up, ResponsesExpected
    <2>2. CASE /\ tasks' = Tail(tasks)
               /\ UNCHANGED <<state, to_enqueue, host, ctl, room>>
      <3>1. /\ Up /\ Up' /\ tasks # <<>> /\ 1 \notin Responses
            /\ TimedOut => TimedOut'
        BY <1>7, <1>c, <2>2
        DEF fail_if_reset_complete_not_success, Run, Up, Responses,
            CarriesResponse, TimedOut, host
      <3>2. Rest'
        BY <1>a, <2>2, <3>1, RunStep DEF host
      <3> QED
        BY <1>b, <2>2, <3>1, <3>2
    <2> QED
      BY <1>7, <2>1, <2>2 DEF fail_if_reset_complete_not_success
  <1>8. CASE on_hci_timeout
    <2>1. TimedOut' /\ Up'
      BY <1>8 DEF on_hci_timeout, TimedOut, Up, IInv, AlarmsAgree
    <2> QED
      BY <1>a, <1>b, <2>1, TimedOutStep
  <1>9. CASE abort_alarm_fires
    BY <1>9, DownStep DEF abort_alarm_fires, Abort, Up, ResponsesExpected
  <1>10. CASE ControllerAnswersSome
    <2>1. Up'
      BY <1>10 DEF ControllerAnswersSome, ControllerAnswers, Up
    <2> QED
      BY <1>10, <1>a, <1>b, <2>1, ControllerAnswerStep
  <1>11. ASSUME NEW num \in 0..MaxNum, ControllerFlowControl(num) PROVE Goal
    <2> DEFINE e == [code |-> "COMMAND_COMPLETE", op |-> NONE, num |-> num,
                     success |-> TRUE]
               t == [run |-> "on_hci_event", event |-> e]
    <2>1. t \in Task /\ t.event.op = NONE /\ t.event.num = num
      BY TaskTypes DEF Event
    <2>2. Up /\ Up' /\ tasks' = Append(tasks, t)
      BY <1>11 DEF ControllerFlowControl, ControllerEvent, Post, Up
    <2> HIDE DEF t
    <2>3. Rest'
      BY <1>11, <1>a, <2>1, <2>2, PostStep DEF ControllerFlowControl, host
    <2> QED
      BY <1>11, <1>b, <2>2, <2>3 DEF ControllerFlowControl
  <1>12. CASE ControllerRootInflammation
    <2> DEFINE e == [code |-> "ROOT_INFLAMMATION", op |-> NONE, num |-> 0,
                     success |-> FALSE]
               t == [run |-> "on_hci_event", event |-> e]
    <2>1. t \in Task /\ t.event.op = NONE /\ t.event.num = 0
      BY TaskTypes DEF Event
    <2>2. Up /\ Up' /\ tasks' = Append(tasks, t)
      BY <1>12 DEF ControllerRootInflammation, ControllerEvent, Post, Up
    <2> HIDE DEF t
    <2>3. Rest'
      BY <1>12, <1>a, <2>1, <2>2, PostStep DEF ControllerRootInflammation, host
    <2> QED
      BY <1>12, <1>b, <2>2, <2>3 DEF ControllerRootInflammation
  <1>13. CASE UNCHANGED vars
    BY <1>13 DEF vars, host, IInv, Rest, OneOutstanding, AlarmsAgree, Up, TimedOut,
       DebugInfoAfterTimeout, NoStaleCredit, Responses, CarriesResponse,
       CarriesGrant, LeftLater, ResponsesExpected
  <1> QED
    BY <1>1, <1>2, <1>3, <1>4, <1>5, <1>6, <1>7, <1>8, <1>9, <1>10, <1>11,
       <1>12, <1>13 DEF Next


(* The inductive invariant holds of every reachable state. *)
THEOREM InvariantHolds == Spec => []IInv
  <1>1. Init => IInv
    <2> SUFFICES ASSUME Init PROVE IInv
      OBVIOUS
    <2>1. TypeOK
      BY PacketAssumption, BoundAssumption DEF Init, TypeOK, Packets, Aborts
    <2>2. DOMAIN tasks = {} /\ DOMAIN command_queue = {}
      BY DEF Init
    <2> QED
      BY <2>1, <2>2
      DEF Init, IInv, OneOutstanding, ResponsesExpected, AlarmsAgree, Responses,
          DebugInfoAfterTimeout, NoStaleCredit
  <1>2. IInv /\ [Next]_vars => IInv'
    BY InvariantStep
  <1> QED
    BY <1>1, <1>2, PTL DEF Spec

(* Until a timeout at most one command is outstanding, and it is the one   *)
(* at the front of command_queue_ that waiting_command_ names.             *)
THEOREM AtMostOneOutstanding == Spec => []OneOutstanding
  <1>1. IInv => OneOutstanding
    BY DEF IInv
  <1> QED
    BY <1>1, InvariantHolds, PTL

(* The assertions on command responses fail only after a timeout. *)
THEOREM NoUnexpectedResponse == Spec => []ResponsesExpected
  <1>1. IInv => ResponsesExpected
    BY DEF IInv
  <1> QED
    BY <1>1, InvariantHolds, PTL

(* While a command is outstanding the timeout or the abort alarm is armed. *)
THEOREM EveryWaitIsTimed == Spec => []WaitIsTimed
  <1>1. IInv => WaitIsTimed
    BY DEF IInv, TypeOK, AlarmsAgree, WaitIsTimed
  <1> QED
    BY <1>1, InvariantHolds, PTL

(* The invariants of the command path together, as the run checks them. *)
THEOREM CommandPathIsSafe == Spec => []CommandSafety
  <1>1. OneOutstanding /\ ResponsesExpected /\ WaitIsTimed => CommandSafety
    BY DEF CommandSafety
  <1> QED
    BY <1>1, AtMostOneOutstanding, NoUnexpectedResponse, EveryWaitIsTimed, PTL

(* Until a timeout no command is sent to a controller without room. *)
THEOREM NeverSendsWithoutRoom == Spec => SendsOnlyWithRoom
  <1>1. IInv /\ [Next]_vars => [ctl' \ ctl # {} /\ ~TimedOut' => room > 0]_vars
    BY InvariantStep
  <1> QED
    BY <1>1, InvariantHolds, PTL DEF Spec, SendsOnlyWithRoom

(***************************************************************************)
(* The refinement: HciLayer implements CommandChannel.                     *)
(***************************************************************************)

(* The debug information command is never behind another entry. *)
LEMMA FrontStep ==
  ASSUME IInv, DebugInfoInFront, [Next]_vars
  PROVE  DebugInfoInFront'
  <1> USE DEF DebugInfoInFront
  <1>1. CASE UNCHANGED command_queue
    BY <1>1
  <1>2. CASE enqueue_command
    <2>1. Head(tasks).cmd \in Packets \ {DebugInfo}
      BY <1>2, HeadTail, TaskFields DEF enqueue_command, Run, IInv, TypeOK
    <2> DEFINE c == Head(tasks).cmd
    <2>2. /\ command_queue \in Seq(Packets) /\ c \in Packets /\ c # DebugInfo
          /\ command_queue' = Append(command_queue, c)
      BY <1>2, <2>1 DEF enqueue_command, IInv, TypeOK
    <2> HIDE DEF c
    <2> QED
      BY <2>2, AppendLast
  <1>3. CASE command_queue # <<>> /\ command_queue' = Tail(command_queue)
    <2>1. command_queue \in Seq(Packets)
      BY DEF IInv, TypeOK
    <2> QED
      BY <1>3, <2>1, HeadTail
  <1>4. CASE command_queue' = <<>> \/ command_queue' = <<DebugInfo>>
    BY <1>4
  <1>5. CASE on_hci_event
    BY <1>1, <1>5 DEF on_hci_event, Abort, handle_root_inflammation, host
  <1>6. CASE handle_command_response
    BY <1>1, <1>3, <1>6
    DEF handle_command_response, Abort, host, pop_and_send_next
  <1> QED
    BY <1>1, <1>2, <1>4, <1>3, <1>5, <1>6
    DEF Next, Start, EnqueueCommand, Stop, fail_if_reset_complete_not_success,
        Abort, on_hci_timeout, abort_alarm_fires, ControllerAnswersSome,
        ControllerAnswers, ControllerFlowControl, ControllerRootInflammation,
        host, vars

(* Every step of HciLayer is a step of the channel or leaves it unchanged. *)
LEMMA ChannelStep ==
  ASSUME IInv, DebugInfoInFront, DebugInfoInFront', [Next]_vars
  PROVE  [Channel!Next]_<<ClientEntries, replies, TimedOut \/ ~Up>>
  <1>a. command_queue \in Seq(Packets)
    BY DEF IInv, TypeOK
  <1>1. CASE UNCHANGED <<command_queue, replies, hci_abort_alarm>> /\ (Up <=> Up')
    BY <1>1 DEF ClientEntries, TimedOut
  <1>2. CASE enqueue_command
    <2> DEFINE c == Head(tasks).cmd
    <2>1. c \in Packets \ {DebugInfo}
      BY <1>2, HeadTail, TaskFields DEF enqueue_command, Run, IInv, TypeOK
    <2>2. /\ command_queue' = Append(command_queue, c)
          /\ UNCHANGED <<replies, hci_abort_alarm, state>>
      BY <1>2 DEF enqueue_command
    <2> HIDE DEF c
    <2>3. ClientEntries' = Append(ClientEntries, c)
      <3>1. CASE command_queue = <<>>
        BY <1>a, <2>1, <2>2, <3>1 DEF ClientEntries
      <3>2. CASE command_queue # <<>>
        <4>1. Head(Append(command_queue, c)) = Head(command_queue)
              /\ Append(command_queue, c) # <<>>
          BY <1>a, <2>1, <3>2, AppendLast
        <4>2. Tail(Append(command_queue, c)) = Append(Tail(command_queue), c)
          BY <1>a, <2>1, <3>2
        <4> QED
          BY <2>2, <3>2, <4>1, <4>2 DEF ClientEntries
      <3> QED
        BY <3>1, <3>2
    <2>4. Channel!Accept(c)
      BY <2>2, <2>3 DEF Channel!Accept, TimedOut, Up
    <2> QED
      BY <2>1, <2>4 DEF Channel!Next
  <1>3. CASE /\ command_queue # <<>>
             /\ invoke_front(Head(tasks).event)
             /\ command_queue' = Tail(command_queue)
             /\ UNCHANGED <<state, hci_abort_alarm>>
    <2>1. Tail(command_queue) # <<>> => Head(Tail(command_queue)) # DebugInfo
      <3>1. Tail(command_queue) # <<>> =>
              /\ Head(Tail(command_queue)) = command_queue[2]
              /\ 2 \in DOMAIN command_queue
        BY <1>3, <1>a
      <3> QED
        BY <3>1 DEF DebugInfoInFront
    <2>2. ClientEntries' = Tail(command_queue)
      BY <1>3, <2>1 DEF ClientEntries
    <2>3. CASE Head(command_queue) = DebugInfo
      <3>1. replies' = replies
        BY <1>3, <2>3 DEF invoke_front, InvokeCallbackOf
      <3>2. ClientEntries = Tail(command_queue)
        BY <1>3, <2>3 DEF ClientEntries
      <3> QED
        BY <1>3, <2>2, <3>1, <3>2 DEF TimedOut, Up
    <2>4. CASE Head(command_queue) # DebugInfo
      <3>1. replies' = Append(replies, Head(command_queue))
        BY <1>3, <2>4 DEF invoke_front, InvokeCallbackOf
      <3>2. ClientEntries = command_queue
        BY <1>3, <2>4 DEF ClientEntries
      <3>3. Channel!Answer
        BY <1>3, <2>2, <3>1, <3>2 DEF Channel!Answer, TimedOut, Up
      <3> QED
        BY <3>3 DEF Channel!Next
    <2> QED
      BY <2>3, <2>4
  <1>4. CASE /\ TimedOut' \/ ~Up'
             /\ UNCHANGED replies
             /\ \/ UNCHANGED command_queue
                \/ command_queue' = <<>>
                \/ command_queue' = <<DebugInfo>>
    <2>1. ClientEntries' = ClientEntries \/ ClientEntries' = <<>>
      <3>1. /\ <<DebugInfo>> # <<>> /\ Head(<<DebugInfo>>) = DebugInfo
            /\ Tail(<<DebugInfo>>) = <<>>
        OBVIOUS
      <3>2. CASE UNCHANGED command_queue
        BY <3>2 DEF ClientEntries
      <3>3. CASE command_queue' = <<>>
        BY <3>3 DEF ClientEntries
      <3>4. CASE command_queue' = <<DebugInfo>>
        BY <3>1, <3>4 DEF ClientEntries
      <3> QED
        BY <1>4, <3>2, <3>3, <3>4
    <2>2. (TimedOut \/ ~Up)' = TRUE
      BY <1>4
    <2>3. Channel!Fail
      BY <1>4, <2>1, <2>2 DEF Channel!Fail
    <2> QED
      BY <2>3 DEF Channel!Next
  <1>5. CASE on_hci_event
    <2>1. CASE Abort("unexpected_response")
      BY <1>4, <2>1 DEF Abort, host, Up
    <2>2. CASE handle_root_inflammation /\ UNCHANGED state
      <3>1. UNCHANGED <<TimedOut, Up>>
        BY <2>2 DEF handle_root_inflammation, TimedOut, Up
      <3> QED
        BY <2>2, <3>1 DEF handle_root_inflammation, ClientEntries
    <2>3. CASE UNCHANGED <<state, host>>
      BY <1>1, <2>3 DEF host, Up
    <2> QED
      BY <1>5, <2>1, <2>2, <2>3 DEF on_hci_event, unexpected
  <1>6. CASE handle_command_response
    <2>1. CASE Abort("unexpected_response")
      BY <1>4, <2>1 DEF Abort, host, Up
    <2>2. CASE UNCHANGED <<state, command_queue, hci_abort_alarm, replies>>
      BY <1>1, <2>2 DEF Up
    <2> QED
      BY <1>3, <1>6, <2>1, <2>2 DEF handle_command_response, pop_and_send_next
  <1>7. CASE Stop \/ abort_alarm_fires \/ fail_if_reset_complete_not_success
    <2>1. CASE Stop
      BY <1>4, <2>1 DEF Stop, Up
    <2>2. CASE abort_alarm_fires
      BY <1>4, <2>2 DEF abort_alarm_fires, Abort, host, Up
    <2>3. CASE fail_if_reset_complete_not_success
      BY <1>1, <1>4, <2>3
      DEF fail_if_reset_complete_not_success, Abort, host, Up
    <2> QED
      BY <1>7, <2>1, <2>2, <2>3
  <1>8. CASE on_hci_timeout
    <2>1. TimedOut'
      BY <1>8 DEF on_hci_timeout, TimedOut, Up, IInv, AlarmsAgree
    <2> QED
      BY <1>4, <1>8, <2>1 DEF on_hci_timeout
  <1>9. CASE Start \/ (\E c \in Cmd : EnqueueCommand(c)) \/ ControllerAnswersSome
             \/ (\E num \in 0..MaxNum : ControllerFlowControl(num))
             \/ ControllerRootInflammation \/ UNCHANGED vars
    BY <1>1, <1>9
    DEF Start, EnqueueCommand, ControllerAnswersSome, ControllerAnswers,
        ControllerFlowControl, ControllerRootInflammation, host, vars, Up
  <1> QED
    BY <1>2, <1>5, <1>6, <1>7, <1>8, <1>9 DEF Next

(* Clients see a channel that answers their commands in the order enqueued,*)
(* each at most once, and drops none except when the process goes down.    *)
THEOREM Refinement == Spec => ImplementsChannel
  <1>1. Init => Channel!Init
    BY DEF Init, Channel!Init, ClientEntries, TimedOut, Up
  <1>2. Init => DebugInfoInFront
    BY DEF Init, DebugInfoInFront
  <1>3. IInv /\ DebugInfoInFront /\ [Next]_vars => DebugInfoInFront'
    BY FrontStep
  <1>4. IInv /\ DebugInfoInFront /\ DebugInfoInFront' /\ [Next]_vars
          => [Channel!Next]_<<ClientEntries, replies, TimedOut \/ ~Up>>
    BY ChannelStep
  <1> QED
    BY <1>1, <1>2, <1>3, <1>4, InvariantHolds, PTL
    DEF Spec, ImplementsChannel, Channel!Spec
=============================================================================
