------------------------------ MODULE HciLayer ------------------------------
(***************************************************************************)
(* The command path of the HCI layer (system/gd/hci/hci_layer.cc): clients *)
(* on any thread enqueue commands, the HAL thread delivers controller      *)
(* events, and one handler thread runs both, in the order posted, against  *)
(* the command queue, the single outstanding command, the credits of the   *)
(* controller and the two alarms.                                          *)
(*                                                                         *)
(* A command response takes two hops through the handler: on_hci_event     *)
(* looks the event code up and posts the registered handler, which posts   *)
(* the client's callback.  Enqueues, alarms and other events interleave    *)
(* between the hops.                                                       *)
(***************************************************************************)
EXTENDS Naturals, Sequences, FiniteSets

CONSTANTS
  Cmd,         \* the command packets the other modules may enqueue, each once
  OpOf,        \* the opcode of a packet; two packets may share one
  StatusCmd,   \* the packets enqueued with an on_status callback
  Reset,       \* the packet that HciLayer::Start enqueues
  DebugInfo,   \* the packet that on_hci_timeout enqueues
  NONE,        \* OpCode::NONE
  MaxNum,      \* bound on Num_HCI_Command_Packets (255 in an event)
  MaxTasks     \* bound on the handler's tasks when another thread adds one

Packets == Cmd \cup {Reset, DebugInfo}

Op == {OpOf[c] : c \in Packets}

ASSUME PacketAssumption ==
  /\ Reset \notin Cmd
  /\ DebugInfo \notin Cmd \cup {Reset}
  /\ StatusCmd \subseteq Cmd
  /\ DOMAIN OpOf = Packets
  /\ NONE \notin Op
  /\ \A c \in Cmd \cup {Reset} : OpOf[c] # OpOf[DebugInfo]

ASSUME BoundAssumption == MaxNum \in Nat \ {0} /\ MaxTasks \in Nat

VARIABLES
  state,             \* "starting", "running", "stopped" or the abort reached
  tasks,             \* the handler's task queue
  to_enqueue,        \* packets that no client has enqueued yet
  command_queue,     \* command_queue_
  waiting_command,   \* waiting_command_
  command_credits,   \* command_credits_
  hci_timeout_alarm, \* "null", "idle" or "armed"
  hci_abort_alarm,   \* "null" or the function its task runs
  replies,           \* packets whose callback was invoked, in order
  ctl,               \* packets the controller holds unanswered
  room               \* how many more commands the controller last agreed to

host == <<command_queue, waiting_command, command_credits, hci_timeout_alarm,
          hci_abort_alarm, replies>>
vars == <<state, tasks, to_enqueue, host, ctl, room>>

Up == state \in {"starting", "running"}

Aborts == {"unexpected_response", "reset_failed", "timeout", "root_inflammation"}

(***************************************************************************)
(* Controller events and handler tasks.                                    *)
(***************************************************************************)
Event == [code : {"COMMAND_COMPLETE", "COMMAND_STATUS"},
          op : Op \cup {NONE}, num : 0..MaxNum, success : BOOLEAN]
         \cup [code : {"ROOT_INFLAMMATION"},
               op : {NONE}, num : {0}, success : BOOLEAN]

Task == [run : {"enqueue_command"}, cmd : Packets \ {DebugInfo}]
        \cup [run : {"on_hci_event", "handle_command_response"}, event : Event]
        \cup [run : {"fail_if_reset_complete_not_success"}, success : BOOLEAN]

TypeOK ==
  /\ state \in {"starting", "running", "stopped"} \cup Aborts
  /\ tasks \in Seq(Task)
  /\ to_enqueue \subseteq Cmd
  /\ command_queue \in Seq(Packets)
  /\ waiting_command \in Op \cup {NONE}
  /\ command_credits \in 0..MaxNum
  /\ hci_timeout_alarm \in {"null", "idle", "armed"}
  /\ hci_abort_alarm \in {"null", "abort_after_time_out",
                          "abort_after_root_inflammation"}
  /\ replies \in Seq(Packets \ {DebugInfo})
  /\ ctl \subseteq Packets
  /\ room \in 0..MaxNum

(* A HCI command has timed out: on_hci_timeout is what arms this abort. *)
TimedOut == hci_abort_alarm = "abort_after_time_out"

Init ==
  /\ state = "starting"
  /\ tasks = <<>>
  /\ to_enqueue = Cmd
  /\ command_queue = <<>>
  /\ waiting_command = NONE
  /\ command_credits = 1
  /\ hci_timeout_alarm = "idle"
  /\ hci_abort_alarm = "null"
  /\ replies = <<>>
  /\ ctl = {}
  /\ room = 1

(***************************************************************************)
(* Calls from other threads.                                               *)
(***************************************************************************)
Post(t) == tasks' = Append(tasks, t)

(* The last statement of Start; the HAL callbacks are already registered. *)
Start ==
  /\ state = "starting"
  /\ state' = "running"
  /\ Post([run |-> "enqueue_command", cmd |-> Reset])
  /\ UNCHANGED <<to_enqueue, host, ctl, room>>

EnqueueCommand(c) ==
  /\ state = "running"
  /\ c \in to_enqueue /\ Len(tasks) < MaxTasks
  /\ to_enqueue' = to_enqueue \ {c}
  /\ Post([run |-> "enqueue_command", cmd |-> c])
  /\ UNCHANGED <<state, host, ctl, room>>

(* ModuleRegistry clears the handler, then Stop deletes impl: its queue and *)
(* both of its alarms go with it.                                           *)
Stop ==
  /\ state = "running"
  /\ state' = "stopped"
  /\ tasks' = <<>>
  /\ command_queue' = <<>>
  /\ hci_timeout_alarm' = "null"
  /\ hci_abort_alarm' = "null"
  /\ UNCHANGED <<to_enqueue, waiting_command, command_credits, replies, ctl,
                 room>>

(***************************************************************************)
(* send_next_command, from the values its caller has assigned so far.      *)
(***************************************************************************)
send_next_two_outstanding(queue, credits, waiting, alarm) ==
  IF credits = 0 \/ queue = <<>>
  THEN /\ waiting_command' = waiting
       /\ command_credits' = credits
       /\ hci_timeout_alarm' = alarm
       /\ UNCHANGED <<ctl, room>>
  ELSE /\ ctl' = ctl \cup {Head(queue)}
       /\ room' = IF room > 0 THEN room - 1 ELSE 0
       /\ waiting_command' = OpOf[Head(queue)]
       /\ command_credits' = 0
       /\ hci_timeout_alarm' = IF alarm = "null" THEN "null" ELSE "armed"

send_next_command(queue, credits, waiting, alarm) ==
  IF credits = 0 \/ waiting # NONE \/ queue = <<>>
  THEN /\ waiting_command' = waiting
       /\ command_credits' = credits
       /\ hci_timeout_alarm' = alarm
       /\ UNCHANGED <<ctl, room>>
  ELSE /\ ctl' = ctl \cup {Head(queue)}
       /\ room' = IF room > 0 THEN room - 1 ELSE 0
       /\ waiting_command' = OpOf[Head(queue)]
       /\ command_credits' = 0
       /\ hci_timeout_alarm' = IF alarm = "null" THEN "null" ELSE "armed"

(***************************************************************************)
(* The handler thread runs the task at the head of its queue.              *)
(***************************************************************************)
Run(f) == Up /\ tasks # <<>> /\ Head(tasks).run = f

Abort(reason) ==
  /\ state' = reason
  /\ UNCHANGED <<tasks, to_enqueue, host, ctl, room>>

enqueue_command ==
  /\ Run("enqueue_command")
  /\ tasks' = Tail(tasks)
  /\ command_queue' = Append(command_queue, Head(tasks).cmd)
  /\ send_next_command(command_queue', command_credits, waiting_command,
                       hci_timeout_alarm)
  /\ UNCHANGED <<state, to_enqueue, hci_abort_alarm, replies>>

handle_root_inflammation ==
  /\ hci_timeout_alarm' = "null"
  /\ hci_abort_alarm' = IF hci_abort_alarm = "null"
                        THEN "abort_after_root_inflammation"
                        ELSE hci_abort_alarm
  /\ UNCHANGED <<command_queue, waiting_command, command_credits, replies>>

(* With an empty queue only opcode NONE, flow control, is expected. *)
unexpected(event) ==
  /\ command_queue = <<>>
  /\ event.code # "ROOT_INFLAMMATION"
  /\ event.op # NONE

on_hci_event ==
  /\ Run("on_hci_event")
  /\ LET event == Head(tasks).event
     IN \/ unexpected(event) /\ Abort("unexpected_response")
        \/ /\ event.code = "ROOT_INFLAMMATION"
           /\ tasks' = Tail(tasks)
           /\ handle_root_inflammation
           /\ UNCHANGED <<state, to_enqueue, ctl, room>>
        \/ /\ event.code # "ROOT_INFLAMMATION" /\ ~unexpected(event)
           /\ tasks' = Append(Tail(tasks), [run |-> "handle_command_response",
                                            event |-> event])
           /\ UNCHANGED <<state, to_enqueue, host, ctl, room>>

(* The callback of the entry at the front of the queue is posted: to its   *)
(* client, or for the two packets of HciLayer itself to this handler, with *)
(* a view that is a successful Reset complete or is not.                   *)
InvokeCallbackOf(entry, event) ==
  /\ replies' = IF entry = DebugInfo THEN replies ELSE Append(replies, entry)
  /\ tasks' = IF entry \in {Reset, DebugInfo}
              THEN Append(Tail(tasks),
                          [run |-> "fail_if_reset_complete_not_success",
                           success |-> /\ entry = Reset
                                       /\ event.code = "COMMAND_COMPLETE"
                                       /\ event.success])
              ELSE Tail(tasks)

invoke_back(event) ==
  InvokeCallbackOf(command_queue[Len(command_queue)], event)

invoke_front(event) == InvokeCallbackOf(Head(command_queue), event)

(* command_credits_ after an event: overwritten, not added to. *)
credits_added(event) ==
  IF command_credits + event.num > MaxNum THEN MaxNum
  ELSE command_credits + event.num

credits_from(event) == event.num

(* The answered entry leaves the queue and the next command may go out.    *)
(* Without a timeout alarm the process is going down: nothing is sent.     *)
pop_without_sending(credits) ==
  /\ command_queue' = Tail(command_queue)
  /\ waiting_command' = NONE
  /\ command_credits' = credits
  /\ hci_timeout_alarm' = IF hci_timeout_alarm = "null" THEN "null" ELSE "idle"
  /\ UNCHANGED <<hci_abort_alarm, ctl, room>>

pop_and_cancel_abort(credits) ==
  /\ command_queue' = Tail(command_queue)
  /\ hci_abort_alarm' = "null"
  /\ send_next_command(Tail(command_queue), credits, NONE, "idle")

pop_and_send_next(credits) ==
  /\ command_queue' = Tail(command_queue)
  /\ \/ /\ hci_timeout_alarm = "null"
        /\ waiting_command' = NONE
        /\ command_credits' = credits
        /\ UNCHANGED <<hci_timeout_alarm, ctl, room>>
     \/ /\ hci_timeout_alarm # "null"
        /\ send_next_command(Tail(command_queue), credits, NONE, "idle")
  /\ UNCHANGED hci_abort_alarm

handle_command_response ==
  /\ Run("handle_command_response")
  /\ LET event == Head(tasks).event
         credits == credits_from(event)
         late == /\ waiting_command = OpOf[DebugInfo]
                 /\ event.op # OpOf[DebugInfo]
     IN \/ /\ event.op = NONE
           /\ tasks' = Tail(tasks)
           /\ send_next_command(command_queue, credits, waiting_command,
                                hci_timeout_alarm)
           /\ UNCHANGED <<state, to_enqueue, command_queue, hci_abort_alarm,
                          replies>>
        \/ /\ event.op # NONE
           /\ command_queue = <<>> \/ (~late /\ waiting_command # event.op)
           /\ Abort("unexpected_response")
        \/ /\ event.op # NONE /\ command_queue # <<>> /\ late
           /\ tasks' = Tail(tasks)
           /\ command_credits' = credits
           /\ UNCHANGED <<state, to_enqueue, command_queue, waiting_command,
                          hci_timeout_alarm, hci_abort_alarm, replies, ctl,
                          room>>
        \/ /\ event.op # NONE /\ command_queue # <<>>
           /\ waiting_command = event.op
           /\ invoke_front(event)
           /\ pop_and_send_next(credits)
           /\ UNCHANGED <<state, to_enqueue>>

fail_if_reset_complete_not_success ==
  /\ Run("fail_if_reset_complete_not_success")
  /\ \/ ~Head(tasks).success /\ Abort("reset_failed")
     \/ /\ Head(tasks).success
        /\ tasks' = Tail(tasks)
        /\ UNCHANGED <<state, to_enqueue, host, ctl, room>>

RunTask == \/ enqueue_command
           \/ on_hci_event
           \/ handle_command_response
           \/ fail_if_reset_complete_not_success

(***************************************************************************)
(* The alarms fire on the handler's thread, between two tasks.             *)
(***************************************************************************)
on_hci_timeout ==
  /\ Up /\ hci_timeout_alarm = "armed"
  /\ command_queue' = <<DebugInfo>>
  /\ waiting_command' = OpOf[DebugInfo]
  /\ command_credits' = 0
  /\ ctl' = ctl \cup {DebugInfo}
  /\ room' = IF room > 0 THEN room - 1 ELSE 0
  /\ hci_timeout_alarm' = "null"
  /\ hci_abort_alarm' = IF hci_abort_alarm = "null" THEN "abort_after_time_out"
                        ELSE hci_abort_alarm
  /\ UNCHANGED <<state, tasks, to_enqueue, replies>>

abort_alarm_fires ==
  /\ Up
  /\ \/ hci_abort_alarm = "abort_after_time_out" /\ Abort("timeout")
     \/ /\ hci_abort_alarm = "abort_after_root_inflammation"
        /\ Abort("root_inflammation")

(***************************************************************************)
(* The controller (external), seen through hciEventReceived, which posts   *)
(* on_hci_event from the HAL thread.  It answers each command once and     *)
(* withdraws the room it granted only together with a command it holds.    *)
(***************************************************************************)
ControllerEvent(code, op, num, success) ==
  Post([run |-> "on_hci_event",
        event |-> [code |-> code, op |-> op, num |-> num, success |-> success]])

ControllerAnswers(c, code, num, success) ==
  /\ Up /\ c \in ctl
  /\ code \in {"COMMAND_COMPLETE", "COMMAND_STATUS"}
  /\ c \in StatusCmd => code = "COMMAND_STATUS"
  /\ c # Reset => success  \* no other status is looked at
  /\ ctl' = ctl \ {c}
  /\ room' = num
  /\ ControllerEvent(code, OpOf[c], num, success)
  /\ UNCHANGED <<state, to_enqueue, host>>

ControllerFlowControl(num) ==
  /\ Up /\ Len(tasks) < MaxTasks
  /\ num = 0 => ctl # {}
  /\ room' = num
  /\ ControllerEvent("COMMAND_COMPLETE", NONE, num, TRUE)
  /\ UNCHANGED <<state, to_enqueue, host, ctl>>

ControllerRootInflammation ==
  /\ Up /\ Len(tasks) < MaxTasks /\ hci_abort_alarm = "null"
  /\ ControllerEvent("ROOT_INFLAMMATION", NONE, 0, FALSE)
  /\ UNCHANGED <<state, to_enqueue, host, ctl, room>>

ControllerAnswersSome ==
  \E c \in ctl, code \in {"COMMAND_COMPLETE", "COMMAND_STATUS"},
     num \in 0..MaxNum, success \in BOOLEAN :
       ControllerAnswers(c, code, num, success)

ControllerGrants == \E num \in 1..MaxNum : ControllerFlowControl(num)

Next ==
  \/ Start
  \/ \E c \in Cmd : EnqueueCommand(c)
  \/ Stop
  \/ enqueue_command
  \/ on_hci_event
  \/ handle_command_response
  \/ fail_if_reset_complete_not_success
  \/ on_hci_timeout
  \/ abort_alarm_fires
  \/ ControllerAnswersSome
  \/ \E num \in 0..MaxNum : ControllerFlowControl(num)
  \/ ControllerRootInflammation

Spec == Init /\ [][Next]_vars

(***************************************************************************)
(* Fairness.  The handler thread serves its queue and its timers; a live   *)
(* controller answers what it holds and, having withdrawn its room, grants *)
(* some again.                                                             *)
(***************************************************************************)
HostFairness ==
  /\ WF_vars(Start)
  /\ WF_vars(RunTask)
  /\ WF_vars(on_hci_timeout)
  /\ WF_vars(abort_alarm_fires)

ControllerFairness ==
  /\ WF_vars(ControllerAnswersSome)
  /\ WF_vars(room = 0 /\ ControllerGrants)

HostSpec == Spec /\ HostFairness

(***************************************************************************)
(* Properties.                                                             *)
(***************************************************************************)

(* Task i carries the answer to a command. *)
CarriesResponse(i) ==
  /\ tasks[i].run \in {"on_hci_event", "handle_command_response"}
  /\ tasks[i].event.op # NONE

Responses == {i \in DOMAIN tasks : CarriesResponse(i)}

(* "Only allow one outstanding command" (send_next_command): until a       *)
(* command times out, waiting_command_ is set exactly while one command is *)
(* either at the controller or on its way back through the two hops, and   *)
(* it is the opcode of the entry at the front of command_queue_.           *)
OneOutstanding ==
  Up /\ ~TimedOut =>
    /\ waiting_command = NONE <=> ctl = {} /\ Responses = {}
    /\ ctl = {} \/ Responses = {}
    /\ \A c, d \in ctl : c = d
    /\ \A i, j \in Responses : i = j
    /\ \A c \in ctl : waiting_command = OpOf[c]
    /\ \A i \in Responses : waiting_command = tasks[i].event.op
    /\ waiting_command # NONE =>
         /\ command_queue # <<>>
         /\ OpOf[Head(command_queue)] = waiting_command

(* Against a controller that answers each command once, the assertions of  *)
(* on_hci_event and handle_command_response ("without a waiting command",  *)
(* "Waiting for ..., got ...") fail only once a command has timed out.     *)
ResponsesExpected == state = "unexpected_response" => TimedOut

(* Until a timeout, a command is sent only while the controller has room   *)
(* for it: the stale credit of a flow-control event handled while a        *)
(* command was outstanding never outlives that command's own answer.       *)
SendsOnlyWithRoom ==
  [][ctl' \ ctl # {} /\ ~TimedOut' => room > 0]_vars

(* While the host waits for an answer an alarm is armed, unless it stopped *)
(* or aborted: the wait cannot last for ever.                              *)
WaitIsTimed ==
  Up /\ waiting_command # NONE =>
    \/ hci_timeout_alarm = "armed"
    \/ hci_abort_alarm # "null"

(* The three invariants of the command path: one command outstanding, no   *)
(* failing response assertion, an alarm behind every wait of the host.     *)
CommandSafety == OneOutstanding /\ ResponsesExpected /\ WaitIsTimed

(* A timeout or a root inflammation is never forgotten: no later answer    *)
(* disarms the abort it scheduled ("there is an abort coming anyway").     *)
FailureIsFatal ==
  hci_abort_alarm # "null" ~> ~Up

(* With a controller that may die at any moment, every outstanding command *)
(* is answered, or the process stops or aborts.                            *)
NoSilentHang == waiting_command # NONE ~> (waiting_command = NONE \/ ~Up)

(* The host never waits in silence, though answers, timeouts and the root  *)
(* inflammation share one abort alarm: the wait ends, and so does the      *)
(* process once an abort is scheduled (on_hci_timeout).                    *)
NeverHangs == FailureIsFatal /\ NoSilentHang

(* With a live controller every command a client enqueued is answered, or  *)
(* the process stops or aborts.                                            *)
EveryCommandAnswered ==
  ControllerFairness => \A c \in Cmd :
    c \notin to_enqueue ~> (~Up \/ \E i \in DOMAIN replies : replies[i] = c)

(***************************************************************************)
(* The rest of the inductive invariant that the proofs rest on.            *)
(***************************************************************************)

(* The timeout alarm is deleted exactly when an abort is scheduled, and it *)
(* is armed while a command is outstanding.                                *)
AlarmsAgree ==
  Up => /\ hci_timeout_alarm = "null" <=> hci_abort_alarm # "null"
        /\ hci_timeout_alarm = "idle" => waiting_command = NONE

(* The debug information command enters the queue with the timeout. *)
DebugInfoAfterTimeout ==
  Up /\ ~TimedOut =>
    \A i \in DOMAIN command_queue : command_queue[i] # DebugInfo

(* ... and stays at the front of the queue that the timeout cleared. *)
DebugInfoInFront ==
  \A i \in DOMAIN command_queue : i > 1 => command_queue[i] # DebugInfo

(* Task i grants credits without answering a command. *)
CarriesGrant(i) ==
  /\ tasks[i].run \in {"on_hci_event", "handle_command_response"}
  /\ tasks[i].event.op = NONE
  /\ tasks[i].event.num > 0

(* Tasks i and j carry events; the one of j left the controller later. *)
LeftLater(i, j) ==
  \/ tasks[i].run = "handle_command_response" /\ tasks[j].run = "on_hci_event"
  \/ tasks[i].run = tasks[j].run /\ i < j

(* While the controller has no room the host has no credit, and no event   *)
(* that would still count after the outstanding answer grants one.         *)
NoStaleCredit ==
  Up /\ ~TimedOut /\ room = 0 =>
    /\ waiting_command = NONE =>
         /\ command_credits = 0
         /\ \A j \in DOMAIN tasks : ~CarriesGrant(j)
    /\ \A i \in Responses :
         /\ tasks[i].event.num = 0
         /\ \A j \in DOMAIN tasks : LeftLater(i, j) => ~CarriesGrant(j)

IInv ==
  /\ TypeOK
  /\ OneOutstanding
  /\ ResponsesExpected
  /\ AlarmsAgree
  /\ DebugInfoAfterTimeout
  /\ NoStaleCredit

(***************************************************************************)
(* What the command channel promises: CommandChannel.                      *)
(***************************************************************************)
ClientEntries ==
  IF command_queue # <<>> /\ Head(command_queue) = DebugInfo
  THEN Tail(command_queue) ELSE command_queue

Channel == INSTANCE CommandChannel
             WITH Command <- Packets \ {DebugInfo},
                  pending <- ClientEntries,
                  answered <- replies,
                  flushed <- TimedOut \/ ~Up

ImplementsChannel == Channel!Spec
=============================================================================
