------------------------------- MODULE Alarm -------------------------------
(***************************************************************************)
(* Alarms and repeating alarms (system/gd/os/linux_generic/alarm.cc,       *)
(* repeating_alarm.cc): a timerfd registered with the loop of a thread.    *)
(* Tasks of the loop's thread, and other threads, schedule and cancel an   *)
(* alarm while its expiry may already be in the batch that the loop works  *)
(* through.  The descriptor is blocking: it is created with flags 0, and   *)
(* timerfd_settime takes back an expiry that nobody has read.              *)
(*                                                                         *)
(* The loop is the one of module Reactor, reduced to what an alarm sees of *)
(* it: a batch of ready descriptors, minus those unregistered since.  A    *)
(* critical section is one step, except on_fire's, which reads the         *)
(* descriptor with mutex_ held.  Every scheduled closure has a number.     *)
(***************************************************************************)
EXTENDS Naturals

CONSTANTS
  SingleShot,   \* Alarm objects
  Repeating,    \* RepeatingAlarm objects
  MaxTasks,     \* bound on the calls of Schedule
  MaxTicks      \* bound on the expiries of a repeating timer not yet read

ASSUME ConstantsAssumption ==
  /\ SingleShot \cap Repeating = {}
  /\ MaxTasks \in Nat /\ MaxTicks \in Nat \ {0}

AnAlarm == SingleShot \cup Repeating
Thread == {"loop", "client"}
None == "none"
ASSUME NamesAssumption == AnAlarm \cap {None, "handler"} = {}

Empty == 0        \* a closure that was moved from, or never set

VARIABLES
  alive,     \* constructed and not destroyed
  armed,     \* timers that run
  ticks,     \* expiries of each timer that were not read
  task,      \* task_
  pc,        \* where the loop's thread is
  batch,     \* descriptors of this epoll_wait still to be dispatched
  cur,       \* whose callback runs
  taken,     \* on_fire's local task
  scheduled, \* number of closures made so far
  last,      \* history: the closure of the latest Schedule
  waits,     \* history: closures whose timer runs or expired unread
  due,       \* history: closures whose timer expired, not cancelled since
  reset,     \* history: alarms set or cancelled since the last epoll_wait
  orphaned   \* history: destroyed by the other thread in mid-on_fire

timers == <<alive, armed, ticks, task>>
loop == <<pc, batch, cur, taken>>
history == <<last, waits, due, reset, orphaned>>
vars == <<timers, loop, scheduled, history>>

TypeOK ==
  /\ alive \subseteq AnAlarm /\ armed \subseteq alive
  /\ ticks \in [AnAlarm -> 0..MaxTicks] /\ task \in [AnAlarm -> 0..MaxTasks]
  /\ pc \in {"poll", "batch", "locking", "reading", "unlocked", "task"}
  /\ batch \subseteq alive \cup {"handler"}
  /\ cur \in AnAlarm \cup {"handler", None}
  /\ taken \in 0..MaxTasks /\ scheduled \in 0..MaxTasks
  /\ last \in [AnAlarm -> 0..MaxTasks]
  /\ waits \subseteq 1..MaxTasks /\ due \subseteq 1..MaxTasks
  /\ reset \subseteq AnAlarm /\ orphaned \subseteq AnAlarm

Init ==
  /\ alive = {} /\ armed = {}
  /\ ticks = [a \in AnAlarm |-> 0] /\ task = [a \in AnAlarm |-> Empty]
  /\ pc = "poll" /\ batch = {} /\ cur = None /\ taken = Empty
  /\ scheduled = 0 /\ last = [a \in AnAlarm |-> 0]
  /\ waits = {} /\ due = {} /\ reset = {} /\ orphaned = {}

(* The loop's thread calls from a task, the other thread at any time. *)
MayCall(t) == t = "loop" => pc = "task"
InOnFire(a) == cur = a /\ pc \in {"locking", "reading"}
MutexFree(a) == ~(cur = a /\ pc = "reading")

(***************************************************************************)
(* The kernel's timer.                                                     *)
(***************************************************************************)
expire(a) ==
  /\ a \in armed /\ ticks[a] < (IF a \in Repeating THEN MaxTicks ELSE 1)
  /\ ticks' = [ticks EXCEPT ![a] = @ + 1]
  /\ armed' = IF a \in Repeating THEN armed ELSE armed \ {a}
  /\ due' = due \cup {last[a]}
  /\ UNCHANGED <<alive, task, loop, scheduled, last, waits, reset, orphaned>>

(* What a cancelled or replaced closure loses.  It is too late once        *)
(* on_fire has read the expiry.                                            *)
withdraw(a) ==
  /\ due' = IF cur = a /\ pc = "unlocked" THEN due ELSE due \ {last[a]}
  /\ reset' = reset \cup {a}

(***************************************************************************)
(* Alarm's operations.                                                     *)
(***************************************************************************)
Construct(t, a) ==
  /\ MayCall(t) /\ a \notin alive /\ cur # a /\ a \notin orphaned
  /\ alive' = alive \cup {a}
  /\ ticks' = [ticks EXCEPT ![a] = 0] /\ task' = [task EXCEPT ![a] = Empty]
  /\ UNCHANGED <<armed, loop, scheduled, history>>

(* The destructor: Unregister keeps the loop from dispatching the alarm,   *)
(* but does not wait for an on_fire that has begun.                        *)
Destroy(t, a) ==
  /\ MayCall(t) /\ a \in alive
  /\ alive' = alive \ {a} /\ armed' = armed \ {a}
  /\ batch' = batch \ {a}
  /\ waits' = waits \ {last[a]}
  /\ orphaned' = IF InOnFire(a) THEN orphaned \cup {a} ELSE orphaned
  /\ withdraw(a)
  /\ UNCHANGED <<ticks, task, pc, cur, taken, scheduled, last>>

schedule_whole_seconds(t, a, delay) ==
  /\ MayCall(t) /\ a \in alive /\ MutexFree(a) /\ scheduled < MaxTasks
  /\ armed' = armed \ {a}
  /\ ticks' = [ticks EXCEPT ![a] = 0]
  /\ task' = [task EXCEPT ![a] = scheduled + 1]
  /\ scheduled' = scheduled + 1
  /\ last' = [last EXCEPT ![a] = scheduled + 1]
  /\ waits' = (waits \ {last[a]}) \cup (IF delay > 0 THEN {scheduled + 1} ELSE {})
  /\ withdraw(a)
  /\ UNCHANGED <<alive, loop, orphaned>>

(* A delay of zero disarms the timer: its task never runs. *)
Schedule(t, a, delay) ==
  /\ MayCall(t) /\ a \in alive /\ MutexFree(a) /\ scheduled < MaxTasks
  /\ armed' = IF delay = 0 THEN armed \ {a} ELSE armed \cup {a}
  /\ ticks' = [ticks EXCEPT ![a] = 0]
  /\ task' = [task EXCEPT ![a] = scheduled + 1]
  /\ scheduled' = scheduled + 1
  /\ last' = [last EXCEPT ![a] = scheduled + 1]
  /\ waits' = (waits \ {last[a]}) \cup (IF delay > 0 THEN {scheduled + 1} ELSE {})
  /\ withdraw(a)
  /\ UNCHANGED <<alive, loop, orphaned>>

(* Cancel disarms the timer; task_ stays. *)
Cancel(t, a) ==
  /\ MayCall(t) /\ a \in alive /\ MutexFree(a)
  /\ armed' = armed \ {a}
  /\ ticks' = [ticks EXCEPT ![a] = 0]
  /\ waits' = waits \ {last[a]}
  /\ withdraw(a)
  /\ UNCHANGED <<alive, task, loop, scheduled, last, orphaned>>

(***************************************************************************)
(* The loop, and on_fire: take the task, read the descriptor, unlock, run. *)
(***************************************************************************)
poll_for_writing ==
  /\ pc = "poll"
  /\ \E posted \in SUBSET {"handler"} : batch' = alive \cup posted
  /\ batch' # {}
  /\ pc' = "batch" /\ reset' = {}
  /\ UNCHANGED <<timers, cur, taken, scheduled, last, waits, due, orphaned>>

epoll_wait ==
  /\ pc = "poll"
  /\ \E posted \in SUBSET {"handler"} :
       batch' = {a \in alive : ticks[a] > 0} \cup posted
  /\ batch' # {}
  /\ pc' = "batch" /\ reset' = {}
  /\ UNCHANGED <<timers, cur, taken, scheduled, last, waits, due, orphaned>>

dispatch(r) ==
  /\ pc = "batch" /\ r \in batch
  /\ batch' = batch \ {r} /\ cur' = r
  /\ pc' = IF r = "handler" THEN "task" ELSE "locking"
  /\ UNCHANGED <<timers, taken, scheduled, history>>

end_of_batch ==
  /\ pc = "batch" /\ batch = {}
  /\ pc' = "poll"
  /\ UNCHANGED <<timers, batch, cur, taken, scheduled, history>>

on_fire_lock ==
  /\ pc = "locking" /\ cur \in alive
  /\ pc' = "reading"
  /\ taken' = task[cur]
  /\ task' = IF cur \in Repeating THEN task ELSE [task EXCEPT ![cur] = Empty]
  /\ UNCHANGED <<alive, armed, ticks, batch, cur, scheduled, history>>

read_nonblocking ==
  /\ pc = "reading" /\ cur \in alive
  /\ ticks' = [ticks EXCEPT ![cur] = 0]
  /\ pc' = "unlocked"
  /\ UNCHANGED <<alive, armed, task, batch, cur, taken, scheduled, history>>

(* The read blocks, with mutex_ held, until the timer has expired. *)
on_fire_read ==
  /\ pc = "reading" /\ cur \in alive /\ ticks[cur] > 0
  /\ ticks' = [ticks EXCEPT ![cur] = 0]
  /\ pc' = "unlocked"
  /\ UNCHANGED <<alive, armed, task, batch, cur, taken, scheduled, history>>

on_fire_run ==
  /\ pc = "unlocked"
  /\ pc' = "task"
  /\ waits' = waits \ {taken}
  /\ UNCHANGED <<timers, batch, cur, taken, scheduled, last, due, reset, orphaned>>

task_returns ==
  /\ pc = "task"
  /\ pc' = "batch" /\ cur' = None /\ taken' = Empty
  /\ UNCHANGED <<timers, batch, scheduled, history>>

Loop ==
  \/ epoll_wait \/ end_of_batch
  \/ \E r \in AnAlarm \cup {"handler"} : dispatch(r)
  \/ on_fire_lock \/ on_fire_read \/ on_fire_run \/ task_returns

Next ==
  \/ Loop
  \/ \E a \in AnAlarm : expire(a)
  \/ \E t \in Thread, a \in AnAlarm :
       \/ Construct(t, a) \/ Destroy(t, a) \/ Cancel(t, a)
       \/ \E delay \in 0..1 : Schedule(t, a, delay)

(* The loop's thread runs, its tasks return, and timers expire. *)
Spec ==
  /\ Init /\ [][Next]_vars
  /\ WF_vars(Loop) /\ \A a \in AnAlarm : WF_vars(expire(a))

(***************************************************************************)
(* Properties.                                                             *)
(***************************************************************************)

(* The task that on_fire is about to run is there, its own timer has       *)
(* expired, and no Cancel, Schedule or destructor took it back before the  *)
(* expiry was read: a stale entry of the batch never runs a cancelled task *)
(* and never runs a rescheduled one early.                                 *)
OnlyDueTasksRun == pc = "unlocked" => taken \in due

(* on_fire never uses an alarm that does not exist, unless another thread  *)
(* destroyed it in the middle of on_fire.                                  *)
OnFireIsAlive ==
  pc \in {"locking", "reading"} => cur \in alive \/ cur \in orphaned

(* The loop's thread sleeps inside on_fire only over an alarm that was     *)
(* cancelled or scheduled anew after the poll that reported it.            *)
SleepsOnlyAfterReset ==
  pc = "reading" /\ cur \in alive /\ ticks[cur] = 0 => cur \in reset

(* on_fire works on an alarm that exists, and sleeps only when it was      *)
(* reset after the poll.                                                   *)
OnFireIsSafe == TypeOK /\ OnFireIsAlive /\ SleepsOnlyAfterReset

(* The loop waits for a timer that will never expire, or in an object that *)
(* is gone.                                                                *)
Stuck ==
  \/ pc = "reading" /\ cur \notin armed /\ ticks[cur] = 0
  \/ pc \in {"locking", "reading"} /\ cur \notin alive

(* A task scheduled with a delay that is not zero runs, or is cancelled,   *)
(* replaced or destroyed with its alarm, unless the loop is stuck.         *)
EveryTaskRuns == \A k \in 1..MaxTasks : k \in waits ~> k \notin waits \/ Stuck

(* "Cancel the alarm. No-op if it's not armed." (alarm.h): a call on an    *)
(* alarm that has expired does not stop the thread the alarm is on.        *)
CancelIsHarmless == pc = "reading" /\ cur \in alive => cur \in armed \/ ticks[cur] > 0

(* Not so for every destruction: ~Alarm unregisters and closes without     *)
(* waiting for an on_fire that has begun in the loop's thread.             *)
DestructionIsSafe == pc \in {"locking", "reading"} => cur \in alive
=============================================================================
