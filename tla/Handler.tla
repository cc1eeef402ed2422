------------------------------ MODULE Handler ------------------------------
(***************************************************************************)
(* The task queues of the stack thread (system/gd/os/handler.cc).  Post    *)
(* pushes a closure under the handler's mutex and writes the event         *)
(* afterwards; the reactor calls handle_next_event while the event can be  *)
(* read; Clear takes the queue away, drains the event and unregisters.     *)
(* All handlers of one thread share its loop, which runs one task at a     *)
(* time.  The loop is used as Reactor.tla shows it behaves: a callback     *)
(* begins only while its reactable is registered, and one that has begun   *)
(* outlives Unregister.                                                    *)
(***************************************************************************)
EXTENDS Integers, Sequences, FiniteSets

CONSTANTS
  Handle,    \* the handlers, one for each module
  Poster,    \* the threads that post; the loop's own thread is one of them
  MaxPosts   \* bound on the closures posted altogether

Nobody == "nobody"

ASSUME HandlerAssumption ==
  /\ MaxPosts \in Nat
  /\ Nobody \notin Handle \cup Poster
  /\ IsFiniteSet(Handle) /\ IsFiniteSet(Poster)

VARIABLES
  tasks,       \* tasks_ of each handler: the numbers of the posted closures
  cleared,     \* handlers whose tasks_ is null
  event,       \* the semaphore count of event_, by handler
  notifying,   \* the handler whose event each thread is about to write
  registered,  \* handlers whose reactable is registered
  entered,     \* the handler whose callback has begun and not yet locked
  running,     \* the handler whose closure runs
  clearing,    \* how far Clear has come, by handler
  posts,       \* closures posted so far
  ran          \* closures that have begun to run

hvars == <<tasks, cleared, event, notifying, registered, entered, running,
           clearing, posts, ran>>

HandlerTypeOK ==
  /\ tasks \in [Handle -> Seq(1..MaxPosts)]
  /\ cleared \subseteq Handle /\ registered \subseteq Handle
  /\ event \in [Handle -> Nat]
  /\ notifying \in [Poster -> Handle \cup {Nobody}]
  /\ entered \in Handle \cup {Nobody} /\ running \in Handle \cup {Nobody}
  /\ clearing \in [Handle -> {"no", "swapped", "drained", "unregistered"}]
  /\ posts \in 0..MaxPosts /\ ran \subseteq 1..MaxPosts

HandlerInit ==
  /\ tasks = [h \in Handle |-> <<>>] /\ cleared = {}
  /\ event = [h \in Handle |-> 0]
  /\ notifying = [p \in Poster |-> Nobody]
  /\ registered = {} /\ entered = Nobody /\ running = Nobody
  /\ clearing = [h \in Handle |-> "no"]
  /\ posts = 0 /\ ran = {}

Construct(h) ==
  /\ registered' = registered \cup {h}
  /\ UNCHANGED <<tasks, cleared, event, notifying, entered, running, clearing,
                 posts, ran>>

(* A closure posted to a cleared handler is dropped. *)
Post(p, h) ==
  /\ notifying[p] = Nobody /\ posts < MaxPosts
  /\ posts' = posts + 1
  /\ \/ /\ h \in cleared
        /\ UNCHANGED <<tasks, notifying>>
     \/ /\ h \notin cleared
        /\ tasks' = [tasks EXCEPT ![h] = Append(@, posts')]
        /\ notifying' = [notifying EXCEPT ![p] = h]
  /\ UNCHANGED <<cleared, event, registered, entered, running, clearing, ran>>

Notify(p) ==
  /\ notifying[p] # Nobody
  /\ event' = [event EXCEPT ![notifying[p]] = @ + 1]
  /\ notifying' = [notifying EXCEPT ![p] = Nobody]
  /\ UNCHANGED <<tasks, cleared, registered, entered, running, clearing, posts, ran>>

(* The reactor found the event readable and calls back. *)
callback_begins(h) ==
  /\ entered = Nobody /\ running = Nobody
  /\ h \in registered /\ event[h] > 0
  /\ entered' = h
  /\ UNCHANGED <<tasks, cleared, event, notifying, registered, running, clearing,
                 posts, ran>>

consume_nothing(n) == n

consume_all(n) == 0

(* event_ is a semaphore: a read takes one. *)
consume(n) == IF n > 0 THEN n - 1 ELSE 0

handle_next_event ==
  LET h == entered IN
  /\ h # Nobody
  /\ event' = [event EXCEPT ![h] = consume(@)]
  /\ entered' = Nobody
  /\ \/ /\ h \in cleared
        /\ UNCHANGED <<tasks, running, ran>>
     \/ /\ h \notin cleared /\ tasks[h] # <<>>
        /\ running' = h
        /\ ran' = ran \cup {Head(tasks[h])}
        /\ tasks' = [tasks EXCEPT ![h] = Tail(@)]
  /\ UNCHANGED <<cleared, notifying, registered, clearing, posts>>

(* A closure ends once the posts it made are complete. *)
closure_returns(loop_thread) ==
  /\ running # Nobody /\ notifying[loop_thread] = Nobody
  /\ running' = Nobody
  /\ UNCHANGED <<tasks, cleared, event, notifying, registered, entered, clearing,
                 posts, ran>>

ClearSwaps(h) ==
  /\ clearing[h] = "no" /\ h \notin cleared
  /\ clearing' = [clearing EXCEPT ![h] = "swapped"]
  /\ cleared' = cleared \cup {h}
  /\ tasks' = [tasks EXCEPT ![h] = <<>>]
  /\ UNCHANGED <<event, notifying, registered, entered, running, posts, ran>>

ClearDrains(h) ==
  /\ clearing[h] = "swapped"
  /\ clearing' = [clearing EXCEPT ![h] = "drained"]
  /\ event' = [event EXCEPT ![h] = 0]
  /\ UNCHANGED <<tasks, cleared, notifying, registered, entered, running, posts, ran>>

ClearUnregisters(h) ==
  /\ clearing[h] = "drained"
  /\ clearing' = [clearing EXCEPT ![h] = "unregistered"]
  /\ registered' = registered \ {h}
  /\ UNCHANGED <<tasks, cleared, event, notifying, entered, running, posts, ran>>

(* WaitUntilStopped lets the caller go on when this holds. *)
Quiet(h) == clearing[h] = "unregistered" /\ entered # h /\ running # h

(***************************************************************************)
(* Properties.                                                             *)
(***************************************************************************)

(* "Notified for work but no work available" (handle_next_event): while a  *)
(* handler is not cleared its event counts exactly the closures in its     *)
(* queue, but for the posts whose write is still to come, so a callback    *)
(* that begins finds an event to read and a closure to run.                *)
WorkIsThere ==
  \A h \in Handle \ cleared :
    /\ event[h] + Cardinality({p \in Poster : notifying[p] = h}) = Len(tasks[h])
    /\ entered = h => event[h] > 0
=============================================================================
