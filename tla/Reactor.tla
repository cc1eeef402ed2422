------------------------------ MODULE Reactor ------------------------------
(***************************************************************************)
(* The event loop under every module of the stack                          *)
(* (system/gd/os/linux_generic/reactor.cc).  One thread, Loop, runs the    *)
(* loop: it polls the registered descriptors and calls the callback of     *)
(* each one that is ready.  Callbacks, and other threads, register and     *)
(* unregister reactables meanwhile; the pointers the kernel returned may   *)
(* then be stale, and an object may be in use when it should be deleted.   *)
(*                                                                         *)
(* A Reactable stands for the address of a heap object: it is used again   *)
(* for a new registration after it has been deleted.  A critical section   *)
(* is one step; mutex_ is explicit only where it is held while waiting.    *)
(* The read and the write callback of a reactable are one callback.        *)
(***************************************************************************)
EXTENDS Naturals, FiniteSets

CONSTANTS
  Reactable,   \* addresses of Reactor::Reactable objects
  Client,      \* threads other than the one that runs the loop
  Loop,        \* the thread that runs the loop
  Foreign,     \* clients unregister while the loop runs
  MaxStops,    \* bound on the calls of Stop
  MaxIdles     \* bound on the calls of WaitForIdle

ASSUME ConstantsAssumption ==
  /\ Loop \notin Client
  /\ Foreign \in BOOLEAN
  /\ MaxStops \in Nat
  /\ MaxIdles \in Nat

Thread == Client \cup {Loop}

None == "none"
ASSUME NoneAssumption == None \notin Reactable \cup Client /\ "control" \notin Reactable

VARIABLES
  live,          \* addresses that hold an object
  polled,        \* reactables whose descriptor is in the epoll set
  held,          \* reactables whose owner has not unregistered them
  executing,     \* reactables with is_executing_
  removed,       \* reactables with removed_
  invalidation,  \* invalidation_list_
  finished,      \* executing_reactable_finished_: None, or the reactable
                 \* whose promise it waits for
  pc,            \* where the loop is
  batch,         \* events of the current epoll_wait still to be handled
  running,       \* the reactable whose callback runs
  op,            \* the reactor call each thread is in
  arg,           \* its argument
  control,       \* the counter behind control_fd_
  idle,          \* idle_promise_: None, or the client that waits for it
  waiting_for_idle,
  stops, idles,  \* calls of Stop and of WaitForIdle so far
  recent,        \* history: registered since the last epoll_wait
  straddled,     \* history: the list was cleared in mid-Unregister
  overlapped     \* history: WaitForIdle called while a promise was there

objects == <<live, polled, held, executing, removed>>
loop == <<pc, batch, running>>
threads == <<op, arg>>
stopping == <<control, idle, waiting_for_idle, stops, idles, overlapped>>
history == <<recent, straddled>>
vars == <<objects, invalidation, finished, loop, threads, stopping, history>>

(* A thread is in no call, waits for mutex_ in Unregister, is past its     *)
(* first critical section, is done, waits for the callback to finish,      *)
(* knows that it finished, asks for idle, or waits for it.                 *)
Calls == {None, "locking", "pushed", "unregistered", "waiting", "stopped",
          "asking", "idling"}

TypeOK ==
  /\ live \subseteq Reactable /\ polled \subseteq Reactable
  /\ held \subseteq Reactable /\ executing \subseteq Reactable
  /\ removed \subseteq Reactable /\ invalidation \subseteq Reactable
  /\ finished \in Reactable \cup {None}
  /\ pc \in {"top", "poll", "batch", "callback", "fulfilled", "stopped", "crashed"}
  /\ batch \subseteq Reactable \cup {"control"}
  /\ running \in Reactable \cup {None}
  /\ op \in [Thread -> Calls] /\ arg \in [Thread -> Reactable \cup {None}]
  /\ control \in Nat /\ stops \in 0..MaxStops /\ idles \in 0..MaxIdles
  /\ idle \in Client \cup {None} /\ waiting_for_idle \in BOOLEAN
  /\ recent \subseteq Reactable /\ straddled \in BOOLEAN /\ overlapped \in BOOLEAN

Init ==
  /\ live = {} /\ polled = {} /\ held = {} /\ executing = {} /\ removed = {}
  /\ invalidation = {} /\ finished = None
  /\ pc = "top" /\ batch = {} /\ running = None
  /\ op = [t \in Thread |-> None] /\ arg = [t \in Thread |-> None]
  /\ control = 0 /\ idle = None /\ waiting_for_idle = FALSE
  /\ stops = 0 /\ idles = 0
  /\ recent = {} /\ straddled = FALSE /\ overlapped = FALSE

(* WaitForUnregisteredReactable keeps mutex_ while it waits. *)
MutexFree == \A t \in Thread : op[t] # "waiting"

(* A client calls at any time, the loop's thread from a callback. *)
MayCall(t) == op[t] = None /\ (t = Loop => pc = "callback")

(***************************************************************************)
(* Run.                                                                    *)
(***************************************************************************)
clear_invalidation_list ==
  /\ pc = "top" /\ MutexFree
  /\ invalidation' = {}
  /\ pc' = "poll"
  /\ straddled' = (straddled \/ \E t \in Thread : op[t] = "pushed")
  /\ UNCHANGED <<objects, finished, batch, running, threads, stopping, recent>>

(* Any of the descriptors in the set may be ready; control_fd_ is while    *)
(* its counter is not zero.                                                *)
epoll_wait ==
  /\ pc = "poll"
  /\ \E ready \in SUBSET polled :
       batch' = ready \cup (IF control > 0 THEN {"control"} ELSE {})
  /\ batch' # {}
  /\ pc' = "batch"
  /\ recent' = {}
  /\ UNCHANGED <<objects, invalidation, finished, running, threads, stopping,
                 straddled>>

keep_waiting_for_idle ==
  /\ pc = "poll" /\ waiting_for_idle /\ control = 0
  /\ op' = [t \in Thread |-> IF t = idle /\ op[t] = "idling" THEN None ELSE op[t]]
  /\ pc' = IF idle = None THEN "crashed" ELSE "fulfilled"
  /\ recent' = {}
  /\ UNCHANGED <<objects, invalidation, finished, batch, running, arg, stopping, straddled>>

(* A loop that waits for idle times out and fulfils the promise, which     *)
(* must be there; its client may have given up waiting.                    *)
epoll_wait_timeout ==
  /\ pc = "poll" /\ waiting_for_idle /\ control = 0
  /\ waiting_for_idle' = FALSE
  /\ op' = [t \in Thread |-> IF t = idle /\ op[t] = "idling" THEN None ELSE op[t]]
  /\ pc' = IF idle = None THEN "crashed" ELSE "fulfilled"
  /\ recent' = {}
  /\ UNCHANGED <<objects, invalidation, finished, batch, running, arg, control, idle,
                 stops, idles, overlapped, straddled>>

(* idle_promise_ is dropped, without mutex_, when its client may have      *)
(* returned already.                                                       *)
drop_idle_promise ==
  /\ pc = "fulfilled"
  /\ idle' = None
  /\ pc' = "top"
  /\ UNCHANGED <<objects, invalidation, finished, batch, running, threads, control,
                 waiting_for_idle, stops, idles, overlapped, history>>

end_of_batch ==
  /\ pc = "batch" /\ batch = {}
  /\ pc' = "top"
  /\ UNCHANGED <<objects, invalidation, finished, batch, running, threads,
                 stopping, history>>

StopBit == control % 2 = 1
IdleBit == (control \div 2) % 2 = 1

handle_idle_first ==
  /\ pc = "batch" /\ "control" \in batch
  /\ control' = 0
  /\ \/ /\ StopBit /\ ~IdleBit
        /\ pc' = "stopped" /\ batch' = {}
        /\ UNCHANGED waiting_for_idle
     \/ /\ ~StopBit \/ IdleBit
        /\ waiting_for_idle' = (waiting_for_idle \/ IdleBit)
        /\ batch' = batch \ {"control"}
        /\ UNCHANGED pc
  /\ UNCHANGED <<objects, invalidation, finished, running, threads, idle, stops,
                 idles, overlapped, history>>

handle_control ==
  /\ pc = "batch" /\ "control" \in batch
  /\ control' = 0
  /\ \/ /\ StopBit
        /\ pc' = "stopped" /\ batch' = {}
        /\ UNCHANGED waiting_for_idle
     \/ /\ ~StopBit
        /\ waiting_for_idle' = (waiting_for_idle \/ IdleBit)
        /\ batch' = batch \ {"control"}
        /\ UNCHANGED pc
  /\ UNCHANGED <<objects, invalidation, finished, running, threads, idle, stops,
                 idles, overlapped, history>>

dispatch_unchecked(r) ==
  /\ pc = "batch" /\ r \in batch /\ MutexFree
  /\ finished' = None
  /\ batch' = batch \ {r}
  /\ pc' = "callback" /\ running' = r /\ executing' = executing \cup {r}
  /\ UNCHANGED <<live, polled, held, removed, invalidation, threads, stopping, history>>

(* A reactable removed in the meantime is skipped. *)
dispatch(r) ==
  /\ pc = "batch" /\ r \in batch /\ MutexFree
  /\ finished' = None
  /\ batch' = batch \ {r}
  /\ \/ /\ r \in invalidation
        /\ UNCHANGED <<pc, running, executing>>
     \/ /\ r \notin invalidation
        /\ pc' = "callback" /\ running' = r /\ executing' = executing \cup {r}
  /\ UNCHANGED <<live, polled, held, removed, invalidation, threads, stopping, history>>

keep_removed(r) == live

delete_if_removed(r) == IF r \in removed THEN live \ {r} ELSE live

callback_returns ==
  /\ pc = "callback" /\ op[Loop] = None
  /\ pc' = "batch" /\ running' = None
  /\ executing' = executing \ {running}
  /\ live' = delete_if_removed(running)
  /\ removed' = removed \ {running}
  /\ UNCHANGED <<polled, held, invalidation, finished, batch, threads, stopping,
                 history>>

(***************************************************************************)
(* Register and Unregister, called from any thread.                        *)
(***************************************************************************)
(* A new object gets any free address; not one that a caller of Unregister *)
(* still has in hand, so that arg tells old registrations from new ones.   *)
Register(t, r) ==
  /\ MayCall(t)
  /\ r \notin live /\ \A c \in Thread : arg[c] # r
  /\ live' = live \cup {r} /\ polled' = polled \cup {r} /\ held' = held \cup {r}
  /\ recent' = recent \cup {r}
  /\ UNCHANGED <<executing, removed, invalidation, finished, loop, threads,
                 stopping, straddled>>

(* Every registration is unregistered once. *)
UnregisterCalled(t, r) ==
  /\ MayCall(t) /\ (t \in Client => Foreign \/ pc = "stopped")
  /\ r \in held
  /\ held' = held \ {r}
  /\ op' = [op EXCEPT ![t] = "locking"] /\ arg' = [arg EXCEPT ![t] = r]
  /\ UNCHANGED <<live, polled, executing, removed, invalidation, finished, loop,
                 stopping, history>>

UnregisterInvalidates(t) ==
  /\ op[t] = "locking" /\ MutexFree
  /\ invalidation' = invalidation \cup {arg[t]}
  /\ op' = [op EXCEPT ![t] = "pushed"]
  /\ UNCHANGED <<objects, finished, loop, arg, stopping, history>>

delay_without_future(r) ==
  \/ /\ r \in executing
     /\ removed' = removed \cup {r}
     /\ UNCHANGED <<live, finished>>
  \/ /\ r \notin executing
     /\ live' = live \ {r}
     /\ UNCHANGED <<removed, finished>>

delete_or_delay(r) ==
  \/ /\ r \in executing
     /\ removed' = removed \cup {r} /\ finished' = r
     /\ UNCHANGED live
  \/ /\ r \notin executing
     /\ live' = live \ {r}
     /\ UNCHANGED <<removed, finished>>

UnregisterDeletes(t) ==
  /\ op[t] = "pushed"
  /\ polled' = polled \ {arg[t]}
  /\ delete_or_delay(arg[t])
  /\ op' = [op EXCEPT ![t] = "unregistered"]
  /\ UNCHANGED <<held, executing, invalidation, loop, arg, stopping, history>>

(* The caller goes on without waiting, or with what the wait told it. *)
UnregisterReturns(t) ==
  /\ op[t] \in {"unregistered", "stopped"}
  /\ op' = [op EXCEPT ![t] = None] /\ arg' = [arg EXCEPT ![t] = None]
  /\ UNCHANGED <<objects, invalidation, finished, loop, stopping, history>>

(***************************************************************************)
(* WaitForUnregisteredReactable: nothing to wait for, or wait with mutex_. *)
(* The promise of a reactable is kept when its callback has returned.      *)
(***************************************************************************)
Unfinished == finished # None /\ finished \in executing

WaitForUnregisteredReactable(c) ==
  /\ op[c] = "unregistered" /\ MutexFree
  /\ op' = [op EXCEPT ![c] = IF finished = None THEN "stopped" ELSE "waiting"]
  /\ UNCHANGED <<objects, invalidation, finished, loop, arg, stopping, history>>

wait_for_ready(c) ==
  /\ op[c] = "waiting" /\ ~Unfinished
  /\ op' = [op EXCEPT ![c] = "stopped"]
  /\ UNCHANGED <<objects, invalidation, finished, loop, arg, stopping, history>>

wait_for_timeout(c) ==
  /\ op[c] = "waiting"
  /\ op' = [op EXCEPT ![c] = None] /\ arg' = [arg EXCEPT ![c] = None]
  /\ UNCHANGED <<objects, invalidation, finished, loop, stopping, history>>

(***************************************************************************)
(* Stop and WaitForIdle write to control_fd_, whose counter adds up.       *)
(***************************************************************************)
Stop(c) ==
  /\ op[c] = None /\ stops < MaxStops
  /\ stops' = stops + 1
  /\ control' = control + 1
  /\ UNCHANGED <<objects, invalidation, finished, loop, threads, idle,
                 waiting_for_idle, idles, overlapped, history>>

WaitForIdle(c) ==
  /\ op[c] = None /\ idles < MaxIdles /\ MutexFree
  /\ idles' = idles + 1
  /\ idle' = c
  /\ overlapped' = (overlapped \/ idle # None)
  /\ op' = [op EXCEPT ![c] = "asking"]
  /\ UNCHANGED <<objects, invalidation, finished, loop, arg, control,
                 waiting_for_idle, stops, history>>

WaitForIdleWrites(c) ==
  /\ op[c] = "asking"
  /\ control' = control + 2
  /\ op' = [op EXCEPT ![c] = "idling"]
  /\ UNCHANGED <<objects, invalidation, finished, loop, arg, idle,
                 waiting_for_idle, stops, idles, overlapped, history>>

idle_timeout(c) ==
  /\ op[c] = "idling"
  /\ op' = [op EXCEPT ![c] = None]
  /\ UNCHANGED <<objects, invalidation, finished, loop, arg, stopping, history>>

Run ==
  \/ clear_invalidation_list \/ epoll_wait \/ epoll_wait_timeout
  \/ drop_idle_promise \/ end_of_batch \/ handle_control
  \/ \E r \in Reactable : dispatch(r)

Unregister(t) ==
  UnregisterInvalidates(t) \/ UnregisterDeletes(t) \/ UnregisterReturns(t)

Next ==
  \/ Run
  \/ callback_returns
  \/ \E t \in Thread, r \in Reactable : Register(t, r) \/ UnregisterCalled(t, r)
  \/ \E t \in Thread : Unregister(t)
  \/ \E c \in Client : WaitForUnregisteredReactable(c) \/ wait_for_ready(c)
                        \/ wait_for_timeout(c)
  \/ \E c \in Client : Stop(c) \/ WaitForIdle(c) \/ WaitForIdleWrites(c)
                        \/ idle_timeout(c)

Spec == Init /\ [][Next]_vars

(* The loop's thread runs and is not starved of mutex_, callbacks return,  *)
(* and threads finish the calls they have begun.  The batches need no      *)
(* fairness of their own: epoll is level-triggered, so a written control   *)
(* descriptor is in every batch until it is read.                          *)
Progress ==
  /\ SF_vars(Run) /\ SF_vars(callback_returns)
  /\ \A t \in Thread : SF_vars(Unregister(t))
  /\ \A c \in Client : WF_vars(wait_for_ready(c)) /\ WF_vars(WaitForIdleWrites(c))

(* Callbacks that return without the help of a timeout. *)
PromptSpec == Spec /\ Progress

(* A wait ends at its timeout. *)
LiveSpec == Spec /\ Progress /\ \A c \in Client : WF_vars(wait_for_timeout(c))

(***************************************************************************)
(* Properties.                                                             *)
(***************************************************************************)

(* Whatever callbacks and threads unregister, the callback that runs is    *)
(* that of an object which exists, and of the registration the kernel      *)
(* reported, never of a later one at the same address; the only exception  *)
(* is an Unregister in another thread that straddles the clearing of       *)
(* invalidation_list_.                                                     *)
CallbackIsLive ==
  pc = "callback" => running \in live /\ running \notin recent

OnlyStraddlingIsUnsafe == ~straddled => CallbackIsLive

(* A reactable that was unregistered is deleted, by Unregister or by the   *)
(* loop when its callback returns, and it is not deleted twice.            *)
DeletedExactlyOnce ==
  /\ \A t \in Thread : op[t] \in {"locking", "pushed"} => arg[t] \in live \ removed
  /\ \A r \in live \ held :
       \/ \E t \in Thread : op[t] \in {"locking", "pushed"} /\ arg[t] = r
       \/ r \in removed /\ pc = "callback" /\ running = r

(* The loop and Unregister share the reactables safely: callbacks run on   *)
(* those that exist, and each one removed is deleted once.                 *)
ReactablesAreSafe == OnlyStraddlingIsUnsafe /\ DeletedExactlyOnce

(* When WaitForUnregisteredReactable returns true, the callback of the     *)
(* reactable that its caller unregistered is not running.                  *)
TrueMeansFinished ==
  ~straddled => \A c \in Client : op[c] = "stopped" => arg[c] \notin executing

(* A reactable removed in its own callback is deleted in the end, although *)
(* other threads wait for the callback and hold mutex_ meanwhile.          *)
EveryRemovalCompletes ==
  \A r \in Reactable : r \in removed ~> r \notin live

(* The promise that a loop waiting for idle fulfils is there, although its *)
(* client may have given up or the loop is stopped meanwhile; unless       *)
(* WaitForIdle was called before the promise of an earlier call had been   *)
(* dropped, or two requests to stop add up to one to wait for idle.        *)
IdlePromiseIsThere == pc = "crashed" => overlapped \/ stops > 1

(* One call of Stop stops the loop, whatever else is written to the        *)
(* control descriptor and however busy the loop is, unless the loop misses *)
(* an idle promise first.                                                  *)
StopStops == (stops = 1) ~> (pc \in {"stopped", "crashed"} \/ stops > 1)

(* "If the reactor is not running, it will be stopped once it's started"   *)
(* (reactor.h): a stop request that the loop has read has stopped it.      *)
StopIsObeyed == stops > 0 /\ control = 0 => pc = "stopped"

(* "reactable->is_executing_ is protected by reactable->mutex_, so it's    *)
(* thread safe" (Unregister): also for a thread other than the loop's.     *)
UnregisterIsThreadSafe == CallbackIsLive

(* "Wait for up to timeout milliseconds, and return true if the reactable  *)
(* finished executing" (reactor.h): a callback that does return by itself  *)
(* ends the wait.                                                          *)
WaitEndsWithCallback == \A c \in Client : op[c] = "waiting" ~> op[c] # "waiting"

(* Not so for overlapping calls: WaitForIdle replaces a promise that the   *)
(* loop has fulfilled and is about to drop, and drops it with the old one. *)
PromiseIsNeverMissed == pc = "crashed" => stops > 1
=============================================================================
