--------------------------- MODULE ReactorProofs ---------------------------
(***************************************************************************)
(* The event loop never calls back on a deleted or recycled reactable,     *)
(* deletes every reactable once, and tells the truth about callbacks that  *)
(* have finished: for any number of reactables, threads and calls.         *)
(***************************************************************************)
EXTENDS Reactor, TLAPS

InUnregister(t) == op[t] \in {"locking", "pushed"}

(* The callback that runs is the one marked as executing; objects in the   *)
(* epoll set exist; what a thread unregisters is its own and still there.  *)
ObjectInv ==
  /\ executing = IF pc = "callback" THEN {running} ELSE {}
  /\ removed \subseteq executing /\ removed \subseteq live
  /\ held \subseteq polled /\ polled \subseteq live
  /\ \A r \in removed : r \notin polled
  /\ \A r \in live : r \in polled \/ r \in removed
  /\ \A t \in Thread : InUnregister(t) => arg[t] \in polled \ held
  /\ \A r \in polled \ held : \E t \in Thread : InUnregister(t) /\ arg[t] = r
  /\ \A t \in Thread : op[t] \in {"unregistered", "waiting", "stopped"}
                         => arg[t] \notin live \ removed
  /\ \A t, u \in Thread : InUnregister(t) /\ InUnregister(u) /\ arg[t] = arg[u] => t = u

(* A stale pointer in the batch is on the invalidation list. *)
BatchInv ==
  /\ pc \in {"top", "poll", "fulfilled"} => batch = {}
  /\ pc = "callback" => running \notin batch
  /\ ~straddled =>
       /\ \A t \in Thread : op[t] = "pushed" => arg[t] \in invalidation
       /\ \A r \in batch \cap Reactable :
            r \in invalidation \/ (r \in live /\ r \notin recent)
       /\ CallbackIsLive

(* What a thread has unregistered is gone or waits for its callback, whose *)
(* promise is the one that executing_reactable_finished_ holds.            *)
WaitInv ==
  ~straddled =>
    \A c \in Thread :
      /\ op[c] \in {"unregistered", "waiting"} /\ arg[c] \in executing
           => finished = arg[c]
      /\ op[c] = "stopped" => arg[c] \notin executing

IInv == TypeOK /\ ObjectInv /\ BatchInv /\ WaitInv

(* The list is cleared while the batch is empty, so no stale pointer needs it. *)
LEMMA ClearInvalidationListStep ==
  ASSUME IInv, clear_invalidation_list
  PROVE  IInv'
  <1> USE ConstantsAssumption, NoneAssumption
  <1> USE DEF IInv, clear_invalidation_list, MutexFree, objects, loop, threads, stopping, history
  <1>1. TypeOK'
    BY DEF TypeOK, Thread, Calls
  <1>2. ObjectInv'
    BY DEF TypeOK, ObjectInv, InUnregister, Thread
  <1>3. BatchInv'
    BY DEF TypeOK, ObjectInv, BatchInv, CallbackIsLive, InUnregister, Thread
  <1>4. WaitInv'
    BY DEF TypeOK, ObjectInv, BatchInv, WaitInv, CallbackIsLive, InUnregister, Thread
  <1> QED
    BY <1>1, <1>2, <1>3, <1>4

(* The kernel reports descriptors in the epoll set, whose objects exist. *)
LEMMA EpollWaitStep ==
  ASSUME IInv, epoll_wait
  PROVE  IInv'
  <1> USE ConstantsAssumption, NoneAssumption
  <1> USE DEF IInv, epoll_wait, objects, loop, threads, stopping, history
  <1>1. TypeOK'
    BY DEF TypeOK, Thread, Calls
  <1>2. ObjectInv'
    BY DEF TypeOK, ObjectInv, InUnregister, Thread
  <1>3. BatchInv'
    BY DEF TypeOK, ObjectInv, BatchInv, CallbackIsLive, InUnregister, Thread
  <1>4. WaitInv'
    BY DEF TypeOK, ObjectInv, BatchInv, WaitInv, CallbackIsLive, InUnregister, Thread
  <1> QED
    BY <1>1, <1>2, <1>3, <1>4

(* A loop that became idle touches no reactable. *)
LEMMA EpollWaitTimeoutStep ==
  ASSUME IInv, epoll_wait_timeout
  PROVE  IInv'
  <1> USE ConstantsAssumption, NoneAssumption
  <1> USE DEF IInv, epoll_wait_timeout, objects, loop, threads, stopping, history, None
  <1>1. TypeOK'
    BY DEF TypeOK, Thread, Calls
  <1>2. ObjectInv'
    BY DEF TypeOK, ObjectInv, InUnregister, Thread
  <1>3. BatchInv'
    BY DEF TypeOK, ObjectInv, BatchInv, CallbackIsLive, InUnregister, Thread
  <1>4. WaitInv'
    BY DEF TypeOK, ObjectInv, BatchInv, WaitInv, CallbackIsLive, InUnregister, Thread
  <1> QED
    BY <1>1, <1>2, <1>3, <1>4

(* Dropping the promise touches no reactable. *)
LEMMA DropIdlePromiseStep ==
  ASSUME IInv, drop_idle_promise
  PROVE  IInv'
  <1> USE ConstantsAssumption, NoneAssumption
  <1> USE DEF IInv, drop_idle_promise, objects, loop, threads, stopping, history, None
  <1>1. TypeOK'
    BY DEF TypeOK, Thread, Calls
  <1>2. ObjectInv'
    BY DEF TypeOK, ObjectInv, InUnregister, Thread
  <1>3. BatchInv'
    BY DEF TypeOK, ObjectInv, BatchInv, CallbackIsLive, InUnregister, Thread
  <1>4. WaitInv'
    BY DEF TypeOK, ObjectInv, BatchInv, WaitInv, CallbackIsLive, InUnregister, Thread
  <1> QED
    BY <1>1, <1>2, <1>3, <1>4

(* The loop goes round once the batch is empty. *)
LEMMA EndOfBatchStep ==
  ASSUME IInv, end_of_batch
  PROVE  IInv'
  <1> USE ConstantsAssumption, NoneAssumption
  <1> USE DEF IInv, end_of_batch, objects, loop, threads, stopping, history
  <1>1. TypeOK'
    BY DEF TypeOK, Thread, Calls
  <1>2. ObjectInv'
    BY DEF TypeOK, ObjectInv, InUnregister, Thread
  <1>3. BatchInv'
    BY DEF TypeOK, ObjectInv, BatchInv, CallbackIsLive, InUnregister, Thread
  <1>4. WaitInv'
    BY DEF TypeOK, ObjectInv, BatchInv, WaitInv, CallbackIsLive, InUnregister, Thread
  <1> QED
    BY <1>1, <1>2, <1>3, <1>4

(* A control event touches no reactable. *)
LEMMA HandleControlStep ==
  ASSUME IInv, handle_control
  PROVE  IInv'
  <1> USE ConstantsAssumption, NoneAssumption
  <1> USE DEF IInv, handle_control, StopBit, objects, loop, threads, stopping, history
  <1>1. TypeOK'
    BY DEF TypeOK, Thread, Calls
  <1>2. ObjectInv'
    BY DEF TypeOK, ObjectInv, InUnregister, Thread
  <1>3. BatchInv'
    BY DEF TypeOK, ObjectInv, BatchInv, CallbackIsLive, InUnregister, Thread
  <1>4. WaitInv'
    BY DEF TypeOK, ObjectInv, BatchInv, WaitInv, CallbackIsLive, InUnregister, Thread
  <1> QED
    BY <1>1, <1>2, <1>3, <1>4

(* What is not on the list when it is dispatched exists and is current. *)
LEMMA DispatchStep ==
  ASSUME IInv, NEW r \in Reactable, dispatch(r)
  PROVE  IInv'
  <1> USE ConstantsAssumption, NoneAssumption
  <1> USE DEF IInv, dispatch, objects, loop, threads, stopping, history
  <1>1. TypeOK'
    BY DEF TypeOK, Thread, Calls
  <1>2. ObjectInv'
    BY DEF TypeOK, ObjectInv, InUnregister, Thread
  <1>3. BatchInv'
    BY DEF TypeOK, ObjectInv, BatchInv, CallbackIsLive, InUnregister, Thread
  <1>4. WaitInv'
    BY DEF TypeOK, ObjectInv, BatchInv, WaitInv, CallbackIsLive, InUnregister, Thread
  <1> QED
    BY <1>1, <1>2, <1>3, <1>4

(* A callback that returns deletes its reactable if it was removed. *)
LEMMA CallbackReturnsStep ==
  ASSUME IInv, callback_returns
  PROVE  IInv'
  <1> USE ConstantsAssumption, NoneAssumption
  <1> USE DEF IInv, callback_returns, delete_if_removed, objects, loop, threads, stopping, history
  <1>1. TypeOK'
    BY DEF TypeOK, Thread, Calls
  <1>2. ObjectInv'
    BY DEF TypeOK, ObjectInv, InUnregister, Thread
  <1>3. BatchInv'
    BY DEF TypeOK, ObjectInv, BatchInv, CallbackIsLive, InUnregister, Thread
  <1>4. WaitInv'
    BY DEF TypeOK, ObjectInv, BatchInv, WaitInv, CallbackIsLive, InUnregister, Thread
  <1> QED
    BY <1>1, <1>2, <1>3, <1>4

(* A new object takes an address that nobody uses. *)
LEMMA RegisterStep ==
  ASSUME IInv, NEW t \in Thread, NEW r \in Reactable, Register(t, r)
  PROVE  IInv'
  <1> USE ConstantsAssumption, NoneAssumption
  <1> USE DEF IInv, Register, MayCall, objects, loop, threads, stopping, history, None
  <1>1. TypeOK'
    BY DEF TypeOK, Thread, Calls
  <1>2. ObjectInv'
    <2>1. /\ r \notin live /\ live' = live \cup {r} /\ polled' = polled \cup {r}
          /\ held' = held \cup {r} /\ UNCHANGED <<executing, removed, pc, running, op, arg>>
          /\ \A u \in Thread : arg[u] # r
      OBVIOUS
    <2>2. /\ executing' = IF pc' = "callback" THEN {running'} ELSE {}
          /\ removed' \subseteq executing' /\ removed' \subseteq live'
          /\ held' \subseteq polled' /\ polled' \subseteq live'
          /\ \A x \in live' : x \in polled' \/ x \in removed'
      BY <2>1 DEF ObjectInv
    <2>3. \A x \in removed' : x \notin polled'
      BY <2>1 DEF ObjectInv, TypeOK
    <2>4. \A u \in Thread : InUnregister(u)' => arg'[u] \in polled' \ held'
      BY <2>1 DEF ObjectInv, InUnregister
    <2>5. \A x \in polled' \ held' : \E u \in Thread : InUnregister(u)' /\ arg'[u] = x
      BY <2>1 DEF ObjectInv, InUnregister
    <2>6. /\ \A u \in Thread : op'[u] \in {"unregistered", "waiting", "stopped"}
                                => arg'[u] \notin live' \ removed'
          /\ \A u, v \in Thread :
               InUnregister(u)' /\ InUnregister(v)' /\ arg'[u] = arg'[v] => u = v
      BY <2>1 DEF ObjectInv, InUnregister
    <2> QED
      BY <2>2, <2>3, <2>4, <2>5, <2>6 DEF ObjectInv
  <1>3. BatchInv'
    BY DEF TypeOK, ObjectInv, BatchInv, CallbackIsLive, InUnregister, Thread
  <1>4. WaitInv'
    BY DEF TypeOK, ObjectInv, BatchInv, WaitInv, CallbackIsLive, InUnregister, Thread
  <1> QED
    BY <1>1, <1>2, <1>3, <1>4

(* The caller of Unregister is the one that held the registration. *)
LEMMA UnregisterCalledStep ==
  ASSUME IInv, NEW t \in Thread, NEW r \in Reactable, UnregisterCalled(t, r)
  PROVE  IInv'
  <1> USE ConstantsAssumption, NoneAssumption
  <1> USE DEF IInv, UnregisterCalled, MayCall, objects, loop, threads, stopping, history, None
  <1>1. TypeOK'
    BY DEF TypeOK, Thread, Calls
  <1>2. ObjectInv'
    BY DEF TypeOK, ObjectInv, InUnregister, Thread
  <1>3. BatchInv'
    BY DEF TypeOK, ObjectInv, BatchInv, CallbackIsLive, InUnregister, Thread
  <1>4. WaitInv'
    BY DEF TypeOK, ObjectInv, BatchInv, WaitInv, CallbackIsLive, InUnregister, Thread
  <1> QED
    BY <1>1, <1>2, <1>3, <1>4

(* The first critical section puts the reactable on the list. *)
LEMMA UnregisterInvalidatesStep ==
  ASSUME IInv, NEW t \in Thread, UnregisterInvalidates(t)
  PROVE  IInv'
  <1> USE ConstantsAssumption, NoneAssumption
  <1> USE DEF IInv, UnregisterInvalidates, objects, loop, threads, stopping, history
  <1>1. TypeOK'
    BY DEF TypeOK, ObjectInv, InUnregister, Thread, Calls
  <1>2. ObjectInv'
    BY DEF TypeOK, ObjectInv, InUnregister, Thread
  <1>3. BatchInv'
    BY DEF TypeOK, ObjectInv, BatchInv, CallbackIsLive, InUnregister, Thread
  <1>4. WaitInv'
    BY DEF TypeOK, ObjectInv, BatchInv, WaitInv, CallbackIsLive, InUnregister, Thread
  <1> QED
    BY <1>1, <1>2, <1>3, <1>4

(* The second deletes the reactable or leaves it to the loop. *)
LEMMA UnregisterDeletesStep ==
  ASSUME IInv, NEW t \in Thread, UnregisterDeletes(t)
  PROVE  IInv'
  <1> USE ConstantsAssumption, NoneAssumption
  <1> USE DEF IInv, UnregisterDeletes, delete_or_delay, objects, loop, threads, stopping, history
  <1>1. TypeOK'
    BY DEF TypeOK, Thread, Calls
  <1>2. ObjectInv'
    BY DEF TypeOK, ObjectInv, InUnregister, Thread
  <1>3. BatchInv'
    BY DEF TypeOK, ObjectInv, BatchInv, CallbackIsLive, InUnregister, Thread
  <1>4. WaitInv'
    BY DEF TypeOK, ObjectInv, BatchInv, WaitInv, CallbackIsLive, InUnregister, Thread
  <1> QED
    BY <1>1, <1>2, <1>3, <1>4

(* A caller that goes on forgets the reactable. *)
LEMMA UnregisterReturnsStep ==
  ASSUME IInv, NEW t \in Thread, UnregisterReturns(t)
  PROVE  IInv'
  <1> USE ConstantsAssumption, NoneAssumption
  <1> USE DEF IInv, UnregisterReturns, objects, loop, threads, stopping, history, None
  <1>1. TypeOK'
    BY DEF TypeOK, Thread, Calls
  <1>2. ObjectInv'
    BY DEF TypeOK, ObjectInv, InUnregister, Thread
  <1>3. BatchInv'
    BY DEF TypeOK, ObjectInv, BatchInv, CallbackIsLive, InUnregister, Thread
  <1>4. WaitInv'
    BY DEF TypeOK, ObjectInv, BatchInv, WaitInv, CallbackIsLive, InUnregister, Thread
  <1> QED
    BY <1>1, <1>2, <1>3, <1>4

(* A wait without a future has nothing to wait for. *)
LEMMA WaitForUnregisteredReactableStep ==
  ASSUME IInv, NEW c \in Client, WaitForUnregisteredReactable(c)
  PROVE  IInv'
  <1> USE ConstantsAssumption, NoneAssumption
  <1> USE DEF IInv, WaitForUnregisteredReactable, objects, loop, threads, stopping, history
  <1>1. TypeOK'
    BY DEF TypeOK, Thread, Calls
  <1>2. ObjectInv'
    BY DEF TypeOK, ObjectInv, InUnregister, Thread
  <1>3. BatchInv'
    BY DEF TypeOK, ObjectInv, BatchInv, CallbackIsLive, InUnregister, Thread
  <1>4. WaitInv'
    BY DEF TypeOK, ObjectInv, BatchInv, WaitInv, CallbackIsLive, InUnregister, Thread
  <1> QED
    BY <1>1, <1>2, <1>3, <1>4

(* A wait that succeeds saw the promise of its own reactable. *)
LEMMA WaitForReadyStep ==
  ASSUME IInv, NEW c \in Client, wait_for_ready(c)
  PROVE  IInv'
  <1> USE ConstantsAssumption, NoneAssumption
  <1> USE DEF IInv, wait_for_ready, Unfinished, objects, loop, threads, stopping, history
  <1>1. TypeOK'
    BY DEF TypeOK, Thread, Calls
  <1>2. ObjectInv'
    BY DEF TypeOK, ObjectInv, InUnregister, Thread
  <1>3. BatchInv'
    BY DEF TypeOK, ObjectInv, BatchInv, CallbackIsLive, InUnregister, Thread
  <1>4. WaitInv'
    BY DEF TypeOK, ObjectInv, BatchInv, WaitInv, CallbackIsLive, InUnregister, Thread
  <1> QED
    BY <1>1, <1>2, <1>3, <1>4

(* A wait that times out tells nothing. *)
LEMMA WaitForTimeoutStep ==
  ASSUME IInv, NEW c \in Client, wait_for_timeout(c)
  PROVE  IInv'
  <1> USE ConstantsAssumption, NoneAssumption
  <1> USE DEF IInv, wait_for_timeout, objects, loop, threads, stopping, history, None
  <1>1. TypeOK'
    BY DEF TypeOK, Thread, Calls
  <1>2. ObjectInv'
    BY DEF TypeOK, ObjectInv, InUnregister, Thread
  <1>3. BatchInv'
    BY DEF TypeOK, ObjectInv, BatchInv, CallbackIsLive, InUnregister, Thread
  <1>4. WaitInv'
    BY DEF TypeOK, ObjectInv, BatchInv, WaitInv, CallbackIsLive, InUnregister, Thread
  <1> QED
    BY <1>1, <1>2, <1>3, <1>4

(* Stop only writes to the control descriptor. *)
LEMMA StopStep ==
  ASSUME IInv, NEW c \in Client, Stop(c)
  PROVE  IInv'
  <1> USE ConstantsAssumption, NoneAssumption
  <1> USE DEF IInv, Stop, objects, loop, threads, stopping, history
  <1>1. TypeOK'
    BY DEF TypeOK, Thread, Calls
  <1>2. ObjectInv'
    BY DEF TypeOK, ObjectInv, InUnregister, Thread
  <1>3. BatchInv'
    BY DEF TypeOK, ObjectInv, BatchInv, CallbackIsLive, InUnregister, Thread
  <1>4. WaitInv'
    BY DEF TypeOK, ObjectInv, BatchInv, WaitInv, CallbackIsLive, InUnregister, Thread
  <1> QED
    BY <1>1, <1>2, <1>3, <1>4

(* WaitForIdle only replaces the promise. *)
LEMMA WaitForIdleStep ==
  ASSUME IInv, NEW c \in Client, WaitForIdle(c)
  PROVE  IInv'
  <1> USE ConstantsAssumption, NoneAssumption
  <1> USE DEF IInv, WaitForIdle, objects, loop, threads, stopping, history, None
  <1>1. TypeOK'
    BY DEF TypeOK, Thread, Calls
  <1>2. ObjectInv'
    BY DEF TypeOK, ObjectInv, InUnregister, Thread
  <1>3. BatchInv'
    BY DEF TypeOK, ObjectInv, BatchInv, CallbackIsLive, InUnregister, Thread
  <1>4. WaitInv'
    BY DEF TypeOK, ObjectInv, BatchInv, WaitInv, CallbackIsLive, InUnregister, Thread
  <1> QED
    BY <1>1, <1>2, <1>3, <1>4

(* Its write only reaches the control descriptor. *)
LEMMA WaitForIdleWritesStep ==
  ASSUME IInv, NEW c \in Client, WaitForIdleWrites(c)
  PROVE  IInv'
  <1> USE ConstantsAssumption, NoneAssumption
  <1> USE DEF IInv, WaitForIdleWrites, objects, loop, threads, stopping, history
  <1>1. TypeOK'
    BY DEF TypeOK, Thread, Calls
  <1>2. ObjectInv'
    BY DEF TypeOK, ObjectInv, InUnregister, Thread
  <1>3. BatchInv'
    BY DEF TypeOK, ObjectInv, BatchInv, CallbackIsLive, InUnregister, Thread
  <1>4. WaitInv'
    BY DEF TypeOK, ObjectInv, BatchInv, WaitInv, CallbackIsLive, InUnregister, Thread
  <1> QED
    BY <1>1, <1>2, <1>3, <1>4

(* Giving up waiting for idle changes nothing else. *)
LEMMA IdleTimeoutStep ==
  ASSUME IInv, NEW c \in Client, idle_timeout(c)
  PROVE  IInv'
  <1> USE ConstantsAssumption, NoneAssumption
  <1> USE DEF IInv, idle_timeout, objects, loop, threads, stopping, history, None
  <1>1. TypeOK'
    BY DEF TypeOK, Thread, Calls
  <1>2. ObjectInv'
    BY DEF TypeOK, ObjectInv, InUnregister, Thread
  <1>3. BatchInv'
    BY DEF TypeOK, ObjectInv, BatchInv, CallbackIsLive, InUnregister, Thread
  <1>4. WaitInv'
    BY DEF TypeOK, ObjectInv, BatchInv, WaitInv, CallbackIsLive, InUnregister, Thread
  <1> QED
    BY <1>1, <1>2, <1>3, <1>4

(* Every step keeps the invariant. *)
LEMMA InvariantStep == IInv /\ [Next]_vars => IInv'
  <1> SUFFICES ASSUME IInv, [Next]_vars PROVE IInv'
    OBVIOUS
  <1>1. CASE UNCHANGED vars
    BY <1>1
    DEF IInv, TypeOK, ObjectInv, BatchInv, WaitInv, CallbackIsLive, InUnregister,
        vars, objects, loop, threads, stopping, history
  <1> QED
    BY <1>1, ClearInvalidationListStep, EpollWaitStep, EpollWaitTimeoutStep,
       DropIdlePromiseStep,
       EndOfBatchStep, HandleControlStep, DispatchStep, CallbackReturnsStep,
       RegisterStep, UnregisterCalledStep, UnregisterInvalidatesStep,
       UnregisterDeletesStep, UnregisterReturnsStep, WaitForUnregisteredReactableStep,
       WaitForReadyStep, WaitForTimeoutStep, StopStep, WaitForIdleStep,
       WaitForIdleWritesStep, IdleTimeoutStep
    DEF Next, Run, Unregister

(* The invariant holds of every reachable state of the loop. *)
THEOREM InvariantHolds == Spec => []IInv
  <1>1. Init => IInv
    <2> SUFFICES ASSUME Init PROVE IInv
      OBVIOUS
    <2> USE DEF Init, None
    <2>1. /\ \A t \in Thread : op[t] = "none" /\ pc = "top"
          /\ executing = {} /\ live = {} /\ held = {} /\ polled = {} /\ removed = {}
      OBVIOUS
    <2>2. TypeOK
      <3>1. op \in [Thread -> Calls] /\ arg \in [Thread -> Reactable \cup {None}]
        BY DEF Calls
      <3>2. stops \in 0..MaxStops /\ idles \in 0..MaxIdles /\ control \in Nat
        BY ConstantsAssumption
      <3>3. waiting_for_idle \in BOOLEAN /\ straddled \in BOOLEAN /\ overlapped \in BOOLEAN
        OBVIOUS
      <3> QED
        BY <3>1, <3>2, <3>3 DEF TypeOK
    <2>3. ObjectInv
      BY <2>1 DEF ObjectInv, InUnregister
    <2>4. BatchInv /\ WaitInv
      BY <2>1 DEF BatchInv, WaitInv, CallbackIsLive
    <2> QED
      BY <2>2, <2>3, <2>4 DEF IInv
  <1> QED
    BY <1>1, InvariantStep, PTL DEF Spec

(* Every reachable state is well typed. *)
THEOREM TypeCorrect == Spec => []TypeOK
  <1>1. IInv => TypeOK
    BY DEF IInv
  <1> QED
    BY <1>1, InvariantHolds, PTL

(* Callbacks run on live reactables of the reported registration, unless   *)
(* an Unregister in another thread straddles the clearing of the list.     *)
THEOREM CallbacksAreLive == Spec => []OnlyStraddlingIsUnsafe
  <1>1. IInv => OnlyStraddlingIsUnsafe
    BY DEF IInv, BatchInv, OnlyStraddlingIsUnsafe
  <1> QED
    BY <1>1, InvariantHolds, PTL

(* Unregistered reactables are deleted, and only once. *)
THEOREM NoLeakNoDoubleDelete == Spec => []DeletedExactlyOnce
  <1>1. IInv => DeletedExactlyOnce
    BY DEF IInv, ObjectInv, InUnregister, DeletedExactlyOnce
  <1> QED
    BY <1>1, InvariantHolds, PTL

(* A wait that returns true is not followed by the callback it waited for. *)
THEOREM WaitIsTruthful == Spec => []TrueMeansFinished
  <1>1. IInv => TrueMeansFinished
    BY DEF IInv, WaitInv, TrueMeansFinished, Thread
  <1> QED
    BY <1>1, InvariantHolds, PTL

(* Callbacks run on live reactables, and each is deleted once. *)
THEOREM SharingIsSafe == Spec => []ReactablesAreSafe
  <1>1. OnlyStraddlingIsUnsafe /\ DeletedExactlyOnce => ReactablesAreSafe
    BY DEF ReactablesAreSafe
  <1> QED
    BY <1>1, CallbacksAreLive, NoLeakNoDoubleDelete, PTL

(* A request to wait for idle that the loop has not answered is in one     *)
(* place only: about to be written, in the control counter, read by the    *)
(* loop, or just fulfilled; and it has its promise.                        *)
IdleInv ==
  ~overlapped /\ stops <= 1 =>
    /\ pc # "crashed"
    /\ control \in 0..3 /\ (stops = 0 => control \in {0, 2})
    /\ idle = None => /\ \A t \in Thread : op[t] # "asking"
                      /\ control < 2 /\ ~waiting_for_idle /\ pc # "fulfilled"
    /\ \A t, u \in Thread : op[t] = "asking" /\ op[u] = "asking" => t = u
    /\ \A t \in Thread :
         op[t] = "asking" => control < 2 /\ ~waiting_for_idle /\ pc # "fulfilled"
    /\ control >= 2 => ~waiting_for_idle /\ pc # "fulfilled"
    /\ waiting_for_idle => pc # "fulfilled"

(* What the loop reads from a counter that holds at most one request each. *)
LEMMA ControlBits ==
  ASSUME control \in 0..3
  PROVE  /\ StopBit <=> control \in {1, 3}
         /\ IdleBit <=> control \in {2, 3}
  <1>1. CASE control = 0
    BY <1>1 DEF StopBit, IdleBit
  <1>2. CASE control = 1
    BY <1>2 DEF StopBit, IdleBit
  <1>3. CASE control = 2
    BY <1>3 DEF StopBit, IdleBit
  <1>4. CASE control = 3
    BY <1>4 DEF StopBit, IdleBit
  <1> QED
    BY <1>1, <1>2, <1>3, <1>4

(* Every step keeps the request in one place, with its promise. *)
LEMMA IdleStep == TypeOK /\ IdleInv /\ [Next]_vars => IdleInv'
  <1> SUFFICES ASSUME TypeOK, IdleInv, [Next]_vars PROVE IdleInv'
    OBVIOUS
  <1> USE ConstantsAssumption, NoneAssumption
  <1> USE DEF IdleInv, TypeOK, None, Calls
  <1> USE DEF objects, loop, threads, stopping, history
  <1>1. CASE clear_invalidation_list
    BY <1>1 DEF clear_invalidation_list
  <1>2. CASE epoll_wait
    BY <1>2 DEF epoll_wait
  <1>3. CASE epoll_wait_timeout
    BY <1>3 DEF epoll_wait_timeout
  <1>4. CASE drop_idle_promise
    BY <1>4 DEF drop_idle_promise
  <1>5. CASE end_of_batch
    BY <1>5 DEF end_of_batch
  <1>6. CASE handle_control
    BY <1>6, ControlBits DEF handle_control
  <1>7. CASE \E r \in Reactable : dispatch(r)
    BY <1>7 DEF dispatch
  <1>8. CASE callback_returns
    BY <1>8 DEF callback_returns
  <1>9. CASE \E t \in Thread, r \in Reactable : Register(t, r) \/ UnregisterCalled(t, r)
    BY <1>9 DEF Register, UnregisterCalled
  <1>10. CASE \E t \in Thread : Unregister(t)
    BY <1>10 DEF Unregister, UnregisterInvalidates, UnregisterDeletes, UnregisterReturns
  <1>11. CASE \E c \in Client : WaitForUnregisteredReactable(c) \/ wait_for_ready(c)
                                \/ wait_for_timeout(c)
    BY <1>11 DEF WaitForUnregisteredReactable, wait_for_ready, wait_for_timeout, Thread
  <1>12. CASE \E c \in Client : Stop(c)
    BY <1>12 DEF Stop
  <1>13. CASE \E c \in Client : WaitForIdle(c)
    <2>1. PICK c \in Client : WaitForIdle(c)
      BY <1>13
    <2>2. /\ c \in Thread /\ idle' # None
          /\ overlapped' = (overlapped \/ idle # None)
          /\ op' = [op EXCEPT ![c] = "asking"]
          /\ UNCHANGED <<pc, control, waiting_for_idle, stops>>
      BY <2>1 DEF WaitForIdle, Thread
    <2> QED
      BY <2>2
  <1>14. CASE \E c \in Client : WaitForIdleWrites(c)
    BY <1>14 DEF WaitForIdleWrites, Thread
  <1>15. CASE \E c \in Client : idle_timeout(c)
    BY <1>15 DEF idle_timeout, Thread
  <1>16. CASE UNCHANGED vars
    BY <1>16 DEF vars
  <1> QED
    BY <1>1, <1>2, <1>3, <1>4, <1>5, <1>6, <1>7, <1>8, <1>9, <1>10, <1>11, <1>12,
       <1>13, <1>14, <1>15, <1>16 DEF Next, Run

(* The loop never misses the promise that it is to fulfil, for any number  *)
(* of clients and calls, as long as calls of WaitForIdle do not overlap    *)
(* and Stop is called once.                                                *)
THEOREM PromiseIsThere == Spec => []IdlePromiseIsThere
  <1>1. Init => IdleInv
    BY DEF Init, IdleInv, None
  <1>2. TypeOK /\ IdleInv => IdlePromiseIsThere
    BY ConstantsAssumption DEF TypeOK, IdleInv, IdlePromiseIsThere
  <1> QED
    BY <1>1, <1>2, IdleStep, TypeCorrect, PTL DEF Spec
=============================================================================
