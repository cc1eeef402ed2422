--------------------------- MODULE ModuleRegistry ---------------------------
(***************************************************************************)
(* Bringing the stack up and down (system/gd/module.cc).  The management   *)
(* thread starts modules after their dependencies and stops them in the    *)
(* reverse order, while the stack thread runs their tasks and the threads  *)
(* of some modules (a HAL's receive thread) post to the modules above.     *)
(* A module gets callbacks from those it depends on between its Start(),   *)
(* where it registers them, and its Stop(), where it takes them back.      *)
(***************************************************************************)
EXTENDS Handler

CONSTANTS
  Roots,        \* the modules StackManager asks for
  Deps,         \* ListDependencies of each module
  StackThread,  \* the thread that runs the tasks
  Management    \* the thread that starts and stops the modules; every other
                \* Poster is the own thread of the module of that name

Module == Handle

ASSUME RegistryAssumption ==
  /\ Roots \subseteq Module /\ Deps \in [Module -> SUBSET Module]
  /\ \E rank \in [Module -> 1..Cardinality(Module)] :
       \A m \in Module : \A d \in Deps[m] : rank[d] < rank[m]
  /\ {StackThread, Management} \subseteq Poster \ Module
  /\ StackThread # Management
  /\ Poster \subseteq Module \cup {StackThread, Management}

VARIABLES
  starting,   \* the recursion of Start: modules constructed, not started
  order,      \* start_order_
  state,      \* of each module
  stopping,   \* position in start_order_ that StopAll has come down to
  phase       \* what the management thread does

rvars == <<starting, order, state, stopping, phase>>
vars == <<hvars, rvars>>

TypeOK ==
  /\ HandlerTypeOK
  /\ starting \in Seq(Module) /\ order \in Seq(Module)
  /\ state \in [Module -> {"none", "constructed", "started", "stopped", "deleted"}]
  /\ stopping \in 0..Len(order)
  /\ phase \in {"starting", "up", "stopping", "down"}

Init ==
  /\ HandlerInit
  /\ starting = <<>> /\ order = <<>>
  /\ state = [m \in Module |-> "none"]
  /\ stopping = 0 /\ phase = "starting"

(* The management thread is between two calls. *)
AtRest == notifying[Management] = Nobody

(***************************************************************************)
(* Start: construct, start the dependencies, Start(), record the order.    *)
(***************************************************************************)
Wanted == IF starting = <<>> THEN Roots ELSE Deps[Head(starting)]

Missing == {m \in Wanted : state[m] # "started"}

StartConstructs(m) ==
  /\ phase = "starting" /\ m \in Missing
  /\ starting' = <<m>> \o starting
  /\ state' = [state EXCEPT ![m] = "constructed"]
  /\ Construct(m)
  /\ UNCHANGED <<order, stopping, phase>>

InStart == phase = "starting" /\ starting # <<>> /\ Missing = {}

StartFinishes ==
  /\ InStart /\ AtRest
  /\ state' = [state EXCEPT ![Head(starting)] = "started"]
  /\ order' = Append(order, Head(starting))
  /\ starting' = Tail(starting)
  /\ UNCHANGED <<hvars, stopping, phase>>

StartReturns ==
  /\ phase = "starting" /\ starting = <<>> /\ Missing = {}
  /\ phase' = "up"
  /\ UNCHANGED <<hvars, starting, order, state, stopping>>

(***************************************************************************)
(* StopAll: clear, wait and stop, in reverse order; then delete.           *)
(***************************************************************************)
StopAllBegins ==
  /\ phase = "up"
  /\ phase' = "stopping" /\ stopping' = Len(order)
  /\ UNCHANGED <<hvars, starting, order, state>>

in_start_order == order[Len(order) + 1 - stopping]

Stopping == order[stopping]

StopClears ==
  /\ phase = "stopping" /\ stopping > 0
  /\ ClearSwaps(Stopping) \/ ClearDrains(Stopping) \/ ClearUnregisters(Stopping)
  /\ UNCHANGED rvars

stop_once_drained(m) == Quiet(m) /\ event[m] = 0

(* WaitUntilStopped. *)
may_stop(m) == Quiet(m)

InStop == phase = "stopping" /\ stopping > 0 /\ may_stop(Stopping)

delete_at_once(m) == [state EXCEPT ![m] = "deleted"]

after_stop(m) == [state EXCEPT ![m] = "stopped"]

(* A module's Stop() also ends its own thread. *)
StopFinishes ==
  /\ InStop /\ AtRest
  /\ Stopping \in Poster => notifying[Stopping] = Nobody
  /\ state' = after_stop(Stopping)
  /\ stopping' = stopping - 1
  /\ UNCHANGED <<hvars, starting, order, phase>>

DeleteAll ==
  /\ phase = "stopping" /\ stopping = 0
  /\ phase' = "down"
  /\ state' = [m \in Module |-> IF state[m] = "none" THEN "none" ELSE "deleted"]
  /\ order' = <<>>
  /\ UNCHANGED <<hvars, starting, stopping>>

(***************************************************************************)
(* The stack thread, and the modules' own threads (external).              *)
(***************************************************************************)

(* Whom code of m may post to: itself, what it depends on, and the modules *)
(* above that have registered with it.                                     *)
Reaches(m) == {m} \cup Deps[m] \cup {a \in Module : m \in Deps[a] /\ state[a] = "started"}

TaskPosts ==
  /\ running # Nobody
  /\ \E h \in Reaches(running) : Post(StackThread, h)
  /\ UNCHANGED rvars

OwnThreadPosts(m) ==
  /\ m \in Poster /\ state[m] = "started"
  /\ \E h \in Reaches(m) : Post(m, h)
  /\ UNCHANGED rvars

StartPosts ==
  /\ InStart
  /\ \E h \in Reaches(Head(starting)) : Post(Management, h)
  /\ UNCHANGED rvars

StopPosts ==
  /\ InStop
  /\ \E h \in Reaches(Stopping) : Post(Management, h)
  /\ UNCHANGED rvars

(* The stack thread serves its handlers, and posts are completed. *)
ThreadRuns ==
  /\ \/ \E p \in Poster : Notify(p)
     \/ \E h \in Handle : callback_begins(h)
     \/ handle_next_event
     \/ closure_returns(StackThread)
  /\ UNCHANGED rvars

Next ==
  \/ \E m \in Module : StartConstructs(m)
  \/ StartFinishes \/ StartReturns
  \/ StopAllBegins \/ StopClears \/ StopFinishes \/ DeleteAll
  \/ TaskPosts \/ StartPosts \/ StopPosts
  \/ \E m \in Module : OwnThreadPosts(m)
  \/ ThreadRuns

Spec == Init /\ [][Next]_vars

Shutdown == StopClears \/ StopFinishes \/ DeleteAll

(* The stack thread and the management thread are scheduled, and closures  *)
(* return.                                                                 *)
LiveSpec == Spec /\ WF_vars(ThreadRuns) /\ WF_vars(Shutdown)

(***************************************************************************)
(* Properties.                                                             *)
(***************************************************************************)

(* "Clear the handler before stopping the module to allow it to shut down  *)
(* gracefully" (StopAll): no task of a module runs, or is about to, once   *)
(* its Stop() has begun, so Stop() may free what the tasks use.            *)
NothingRunsAfterStop ==
  \A m \in Module :
    /\ state[m] \in {"stopped", "deleted"} => running # m /\ entered # m
    /\ InStop /\ m = Stopping => running # m /\ entered # m

(* "Since modules were brought up in dependency order, it is safe to tear  *)
(* down by going in reverse order" (StopAll): whenever a module is up, or  *)
(* a task of it runs, everything it depends on is up, so GetDependency     *)
(* never fails its assertion.                                              *)
DependenciesOutlive ==
  \A m \in Module :
    state[m] = "started" \/ running = m \/ (InStart /\ m = Head(starting))
      => \A d \in Deps[m] : state[d] = "started"

(* StopAll takes modules down in a safe order: nothing of a module runs    *)
(* once its Stop() has begun, and what runs finds its dependencies.        *)
LifetimesHold == NothingRunsAfterStop /\ DependenciesOutlive

(* A Post that was overtaken by Clear, WaitUntilStopped and Stop() still   *)
(* finds the handler whose event it writes: handlers are deleted only      *)
(* after every module, and with it every thread that posts, has stopped.   *)
NotifyFindsHandler ==
  \A p \in Poster : notifying[p] # Nobody => state[notifying[p]] # "deleted"

(* A posted closure is run unless its handler is cleared. *)
EveryTaskRuns ==
  \A h \in Handle, n \in 1..MaxPosts :
    (n \in {tasks[h][i] : i \in DOMAIN tasks[h]}) ~> (n \in ran \/ h \in cleared)

(* StopAll ends, however tasks post to each other meanwhile. *)
ShutdownEnds == (phase = "stopping") ~> (phase = "down")
=============================================================================
