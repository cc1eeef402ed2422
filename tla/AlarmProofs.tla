---------------------------- MODULE AlarmProofs ----------------------------
(***************************************************************************)
(* on_fire runs only tasks that are due, on alarms that exist, and sleeps  *)
(* only over an alarm that was reset: for any number of alarms of both     *)
(* kinds and of calls.                                                     *)
(***************************************************************************)
EXTENDS Alarm, TLAPS

(* The alarm whose callback runs is not in the batch any more, and one     *)
(* that is has an expiry to be read, unless it was reset after the poll.   *)
LoopInv ==
  /\ pc \in {"poll", "batch"} => cur = None
  /\ pc \in {"locking", "reading", "unlocked"} => cur \in AnAlarm
  /\ cur \notin batch
  /\ \A a \in batch \cap AnAlarm : ticks[a] > 0 \/ a \in reset
  /\ pc \in {"locking", "reading"} /\ cur \in alive => ticks[cur] > 0 \/ cur \in reset
  /\ OnFireIsAlive

(* Closures are numbered in the order of Schedule: no two alarms have the  *)
(* same one, and the one that is about to run is nobody else's.            *)
NumberInv ==
  /\ \A a \in AnAlarm : last[a] <= scheduled
  /\ taken <= scheduled
  /\ \A a, b \in AnAlarm : last[a] = last[b] /\ a # b => last[a] = 0
  /\ pc = "unlocked" => \A b \in AnAlarm : b # cur => last[b] # taken

(* on_fire has yet to come for this alarm, or will when its timer expires. *)
Pending(a) ==
  a \in armed \/ ticks[a] > 0 \/ a \in batch \/ (cur = a /\ pc \in {"locking", "reading"})

(* What on_fire will find: the closure of the latest Schedule, in task_ or *)
(* already taken out of it, and due once the timer has expired.            *)
ClosureInv ==
  /\ \A a \in armed \cap SingleShot : ticks[a] = 0
  /\ \A a \in alive :
       /\ Pending(a) => last[a] > 0
       /\ Pending(a) /\ ~(cur = a /\ pc = "reading" /\ a \in SingleShot) => task[a] = last[a]
       /\ ticks[a] > 0 => last[a] \in due
  /\ pc = "reading" /\ cur \in alive => taken = last[cur]
  /\ OnlyDueTasksRun

IInv == TypeOK /\ LoopInv /\ NumberInv /\ ClosureInv

(* An expiry makes the closure of the latest Schedule due. *)
LEMMA ExpireStep ==
  ASSUME IInv, NEW a \in AnAlarm, expire(a)
  PROVE  IInv'
  <1> USE ConstantsAssumption, NamesAssumption
  <1> USE DEF IInv, expire, timers, loop, history, Empty, None
  <1>1. TypeOK'
    <2>1. ticks' \in [AnAlarm -> 0..MaxTicks]
      BY DEF TypeOK
    <2>2. a \in alive /\ last[a] \in 1..MaxTasks
      BY DEF TypeOK, ClosureInv, Pending
    <2>3. due' \subseteq 1..MaxTasks /\ armed' \subseteq alive'
      BY <2>2 DEF TypeOK
    <2> QED
      BY <2>1, <2>3 DEF TypeOK
  <1>2. LoopInv'
    BY DEF TypeOK, LoopInv, OnFireIsAlive, AnAlarm
  <1>3. NumberInv'
    BY DEF TypeOK, LoopInv, NumberInv, ClosureInv, Pending, AnAlarm
  <1>4. ClosureInv'
    BY DEF TypeOK, LoopInv, NumberInv, ClosureInv, Pending, OnlyDueTasksRun, AnAlarm
  <1> QED
    BY <1>1, <1>2, <1>3, <1>4

(* A new alarm has no timer running and is in no batch. *)
LEMMA ConstructStep ==
  ASSUME IInv, NEW t \in Thread, NEW a \in AnAlarm, Construct(t, a)
  PROVE  IInv'
  <1> USE ConstantsAssumption, NamesAssumption
  <1> USE DEF IInv, Construct, timers, loop, history, Empty, None
  <1>1. TypeOK'
    BY DEF TypeOK, ClosureInv, Pending, AnAlarm
  <1>2. LoopInv'
    BY DEF TypeOK, LoopInv, OnFireIsAlive, AnAlarm
  <1>3. NumberInv'
    BY DEF TypeOK, LoopInv, NumberInv, ClosureInv, Pending, AnAlarm
  <1>4. ClosureInv'
    BY DEF TypeOK, LoopInv, NumberInv, ClosureInv, Pending, OnlyDueTasksRun, AnAlarm
  <1> QED
    BY <1>1, <1>2, <1>3, <1>4

(* A destroyed alarm is in no batch; if on_fire is using it, it is orphaned. *)
LEMMA DestroyStep ==
  ASSUME IInv, NEW t \in Thread, NEW a \in AnAlarm, Destroy(t, a)
  PROVE  IInv'
  <1> USE ConstantsAssumption, NamesAssumption
  <1> USE DEF IInv, Destroy, withdraw, InOnFire, timers, loop, history, Empty, None
  <1>1. TypeOK'
    BY DEF TypeOK, ClosureInv, Pending, AnAlarm
  <1>2. LoopInv'
    BY DEF TypeOK, LoopInv, OnFireIsAlive, AnAlarm
  <1>3. NumberInv'
    BY DEF TypeOK, LoopInv, NumberInv, ClosureInv, Pending, AnAlarm
  <1>4. ClosureInv'
    BY DEF TypeOK, LoopInv, NumberInv, ClosureInv, Pending, OnlyDueTasksRun, AnAlarm
  <1> QED
    BY <1>1, <1>2, <1>3, <1>4

(* Schedule takes back the expiry and the closure of the call before. *)
LEMMA ScheduleStep ==
  ASSUME IInv, NEW t \in Thread, NEW a \in AnAlarm, NEW delay \in 0..1, Schedule(t, a, delay)
  PROVE  IInv'
  <1> USE ConstantsAssumption, NamesAssumption
  <1> USE DEF IInv, Schedule, withdraw, MutexFree, timers, loop, history, Empty, None
  <1>1. TypeOK'
    <2>1. ticks' \in [AnAlarm -> 0..MaxTicks]
      BY DEF TypeOK
    <2>2. /\ scheduled' \in 0..MaxTasks
          /\ task' \in [AnAlarm -> 0..MaxTasks] /\ last' \in [AnAlarm -> 0..MaxTasks]
      BY DEF TypeOK
    <2>3. waits' \subseteq 1..MaxTasks /\ due' \subseteq 1..MaxTasks
      <3>1. scheduled + 1 \in 1..MaxTasks
        BY DEF TypeOK
      <3>2. waits' \subseteq waits \cup {scheduled + 1} /\ due' \subseteq due
        OBVIOUS
      <3> QED
        BY <3>1, <3>2 DEF TypeOK
    <2>4. armed' \subseteq alive' /\ reset' \subseteq AnAlarm
      BY DEF TypeOK
    <2> QED
      BY <2>1, <2>2, <2>3, <2>4 DEF TypeOK
  <1>2. LoopInv'
    BY DEF TypeOK, LoopInv, OnFireIsAlive, AnAlarm
  <1>3. NumberInv'
    BY DEF TypeOK, LoopInv, NumberInv, ClosureInv, Pending, AnAlarm
  <1>4. ClosureInv'
    BY DEF TypeOK, LoopInv, NumberInv, ClosureInv, Pending, OnlyDueTasksRun, AnAlarm
  <1> QED
    BY <1>1, <1>2, <1>3, <1>4

(* Cancel takes back the expiry. *)
LEMMA CancelStep ==
  ASSUME IInv, NEW t \in Thread, NEW a \in AnAlarm, Cancel(t, a)
  PROVE  IInv'
  <1> USE ConstantsAssumption, NamesAssumption
  <1> USE DEF IInv, Cancel, withdraw, MutexFree, timers, loop, history, Empty, None
  <1>1. TypeOK'
    <2>1. ticks' \in [AnAlarm -> 0..MaxTicks]
      BY DEF TypeOK
    <2>2. armed' \subseteq alive' /\ reset' \subseteq AnAlarm
      BY DEF TypeOK
    <2>3. waits' \subseteq 1..MaxTasks /\ due' \subseteq 1..MaxTasks
      BY DEF TypeOK
    <2> QED
      BY <2>1, <2>2, <2>3 DEF TypeOK
  <1>2. LoopInv'
    BY DEF TypeOK, LoopInv, OnFireIsAlive, AnAlarm
  <1>3. NumberInv'
    BY DEF TypeOK, LoopInv, NumberInv, ClosureInv, Pending, AnAlarm
  <1>4. ClosureInv'
    BY DEF TypeOK, LoopInv, NumberInv, ClosureInv, Pending, OnlyDueTasksRun, AnAlarm
  <1> QED
    BY <1>1, <1>2, <1>3, <1>4

(* The kernel reports alarms whose expiry is unread. *)
LEMMA EpollWaitStep ==
  ASSUME IInv, epoll_wait
  PROVE  IInv'
  <1> USE ConstantsAssumption, NamesAssumption
  <1> USE DEF IInv, epoll_wait, timers, loop, history, Empty, None
  <1>1. TypeOK'
    BY DEF TypeOK, ClosureInv, Pending, AnAlarm
  <1>2. LoopInv'
    BY DEF TypeOK, LoopInv, OnFireIsAlive, AnAlarm
  <1>3. NumberInv'
    BY DEF TypeOK, LoopInv, NumberInv, ClosureInv, Pending, AnAlarm
  <1>4. ClosureInv'
    BY DEF TypeOK, LoopInv, NumberInv, ClosureInv, Pending, OnlyDueTasksRun, AnAlarm
  <1> QED
    BY <1>1, <1>2, <1>3, <1>4

(* The alarm whose callback runs leaves the batch. *)
LEMMA DispatchStep ==
  ASSUME IInv, NEW r \in AnAlarm \cup {"handler"}, dispatch(r)
  PROVE  IInv'
  <1> USE ConstantsAssumption, NamesAssumption
  <1> USE DEF IInv, dispatch, timers, loop, history, Empty, None
  <1>1. TypeOK'
    BY DEF TypeOK, ClosureInv, Pending, AnAlarm
  <1>2. LoopInv'
    BY DEF TypeOK, LoopInv, OnFireIsAlive, AnAlarm
  <1>3. NumberInv'
    BY DEF TypeOK, LoopInv, NumberInv, ClosureInv, Pending, AnAlarm
  <1>4. ClosureInv'
    BY DEF TypeOK, LoopInv, NumberInv, ClosureInv, Pending, OnlyDueTasksRun, AnAlarm
  <1> QED
    BY <1>1, <1>2, <1>3, <1>4

(* The loop polls again. *)
LEMMA EndOfBatchStep ==
  ASSUME IInv, end_of_batch
  PROVE  IInv'
  <1> USE ConstantsAssumption, NamesAssumption
  <1> USE DEF IInv, end_of_batch, timers, loop, history, Empty, None
  <1>1. TypeOK'
    BY DEF TypeOK, ClosureInv, Pending, AnAlarm
  <1>2. LoopInv'
    BY DEF TypeOK, LoopInv, OnFireIsAlive, AnAlarm
  <1>3. NumberInv'
    BY DEF TypeOK, LoopInv, NumberInv, ClosureInv, Pending, AnAlarm
  <1>4. ClosureInv'
    BY DEF TypeOK, LoopInv, NumberInv, ClosureInv, Pending, OnlyDueTasksRun, AnAlarm
  <1> QED
    BY <1>1, <1>2, <1>3, <1>4

(* on_fire takes the closure of the latest Schedule. *)
LEMMA OnFireLockStep ==
  ASSUME IInv, on_fire_lock
  PROVE  IInv'
  <1> USE ConstantsAssumption, NamesAssumption
  <1> USE DEF IInv, on_fire_lock, timers, loop, history, Empty, None
  <1>1. TypeOK'
    BY DEF TypeOK, ClosureInv, Pending, AnAlarm
  <1>2. LoopInv'
    BY DEF TypeOK, LoopInv, OnFireIsAlive, AnAlarm
  <1>3. NumberInv'
    BY DEF TypeOK, LoopInv, NumberInv, ClosureInv, Pending, AnAlarm
  <1>4. ClosureInv'
    BY DEF TypeOK, LoopInv, NumberInv, ClosureInv, Pending, OnlyDueTasksRun, AnAlarm
  <1> QED
    BY <1>1, <1>2, <1>3, <1>4

(* The read returns only for an expiry that was not taken back. *)
LEMMA OnFireReadStep ==
  ASSUME IInv, on_fire_read
  PROVE  IInv'
  <1> USE ConstantsAssumption, NamesAssumption
  <1> USE DEF IInv, on_fire_read, timers, loop, history, Empty, None
  <1>1. TypeOK'
    BY DEF TypeOK, ClosureInv, Pending, AnAlarm
  <1>2. LoopInv'
    BY DEF TypeOK, LoopInv, OnFireIsAlive, AnAlarm
  <1>3. NumberInv'
    BY DEF TypeOK, LoopInv, NumberInv, ClosureInv, Pending, AnAlarm
  <1>4. ClosureInv'
    BY DEF TypeOK, LoopInv, NumberInv, ClosureInv, Pending, OnlyDueTasksRun, AnAlarm
  <1> QED
    BY <1>1, <1>2, <1>3, <1>4

(* Running the task concerns no other alarm. *)
LEMMA OnFireRunStep ==
  ASSUME IInv, on_fire_run
  PROVE  IInv'
  <1> USE ConstantsAssumption, NamesAssumption
  <1> USE DEF IInv, on_fire_run, timers, loop, history, Empty, None
  <1>1. TypeOK'
    BY DEF TypeOK, ClosureInv, Pending, AnAlarm
  <1>2. LoopInv'
    BY DEF TypeOK, LoopInv, OnFireIsAlive, AnAlarm
  <1>3. NumberInv'
    BY DEF TypeOK, LoopInv, NumberInv, ClosureInv, Pending, AnAlarm
  <1>4. ClosureInv'
    BY DEF TypeOK, LoopInv, NumberInv, ClosureInv, Pending, OnlyDueTasksRun, AnAlarm
  <1> QED
    BY <1>1, <1>2, <1>3, <1>4

(* The callback is over. *)
LEMMA TaskReturnsStep ==
  ASSUME IInv, task_returns
  PROVE  IInv'
  <1> USE ConstantsAssumption, NamesAssumption
  <1> USE DEF IInv, task_returns, timers, loop, history, Empty, None
  <1>1. TypeOK'
    BY DEF TypeOK, ClosureInv, Pending, AnAlarm
  <1>2. LoopInv'
    BY DEF TypeOK, LoopInv, OnFireIsAlive, AnAlarm
  <1>3. NumberInv'
    BY DEF TypeOK, LoopInv, NumberInv, ClosureInv, Pending, AnAlarm
  <1>4. ClosureInv'
    BY DEF TypeOK, LoopInv, NumberInv, ClosureInv, Pending, OnlyDueTasksRun, AnAlarm
  <1> QED
    BY <1>1, <1>2, <1>3, <1>4

(* Every step keeps the invariant. *)
LEMMA InvariantStep == IInv /\ [Next]_vars => IInv'
  <1> SUFFICES ASSUME IInv, [Next]_vars PROVE IInv'
    OBVIOUS
  <1>1. CASE UNCHANGED vars
    BY <1>1 DEF IInv, TypeOK, LoopInv, NumberInv, ClosureInv, Pending, OnFireIsAlive,
                OnlyDueTasksRun, vars, timers, loop, history
  <1> QED
    BY <1>1, ExpireStep, ConstructStep, DestroyStep, ScheduleStep, CancelStep, EpollWaitStep,
       DispatchStep, EndOfBatchStep, OnFireLockStep, OnFireReadStep, OnFireRunStep,
       TaskReturnsStep
    DEF Next, Loop

(* The inductive invariant holds in every reachable state. *)
THEOREM InvariantHolds == Spec => []IInv
  <1>1. Init => IInv
    <2> SUFFICES ASSUME Init PROVE IInv
      OBVIOUS
    <2> USE ConstantsAssumption, NamesAssumption DEF Init, Empty, None
    <2>1. TypeOK
      BY DEF TypeOK
    <2>2. LoopInv
      BY DEF LoopInv, OnFireIsAlive
    <2>3. NumberInv /\ ClosureInv
      BY DEF NumberInv, ClosureInv, Pending, OnlyDueTasksRun
    <2> QED
      BY <2>1, <2>2, <2>3 DEF IInv
  <1> QED
    BY <1>1, InvariantStep, PTL DEF Spec

(* on_fire works on an alarm that exists, unless another thread destroyed  *)
(* it meanwhile, and sleeps only over an alarm reset after the poll.       *)
THEOREM OnFireSafe == Spec => []OnFireIsSafe
  <1>1. IInv => OnFireIsSafe
    BY DEF IInv, TypeOK, LoopInv, OnFireIsSafe, SleepsOnlyAfterReset
  <1> QED
    BY <1>1, InvariantHolds, PTL

(* A task that on_fire is about to run has an expired timer that no        *)
(* Cancel, Schedule or destructor took back before it was read.            *)
THEOREM RunsOnlyDueTasks == Spec => []OnlyDueTasksRun
  <1>1. IInv => OnlyDueTasksRun
    BY DEF IInv, ClosureInv
  <1> QED
    BY <1>1, InvariantHolds, PTL
=============================================================================
