------------------------------- MODULE Queue -------------------------------
(***************************************************************************)
(* os::Queue and EnqueueBuffer (system/gd/os/queue.h,                      *)
(* linux_generic/queue.tpp, reactive_semaphore.cc): a producer puts items  *)
(* in an EnqueueBuffer; while that is not empty a reactable of the loop    *)
(* moves them into a bounded queue, and a reactable of the consumer takes  *)
(* them out.  Two semaphores tell the loop when either can go on.          *)
(*                                                                         *)
(* The threads are those of the HCI layer: the HAL's thread enqueues, the  *)
(* stack thread runs the loop and its tasks, and the management thread     *)
(* clears the buffer or destroys it when the stack stops.  Queue's mutex_  *)
(* is never held while waiting, so its critical sections are single steps; *)
(* EnqueueBuffer's is, in Clear, so it is explicit there.  Unregister is   *)
(* one step: what happens when it is not is the subject of module Reactor. *)
(***************************************************************************)
EXTENDS Naturals, Sequences

CONSTANTS
  Capacity,    \* of the queue
  MaxItems     \* bound on the items enqueued; an item is its number

ASSUME ConstantsAssumption == Capacity \in Nat \ {0} /\ MaxItems \in Nat

VARIABLES
  buffer,              \* buffer_
  enqueue_registered,  \* enqueue_registered_
  callback_on_empty,   \* callback_on_empty_ is set
  enqueue,             \* the queue's enqueue end has a reactable
  dequeue,             \* the queue's dequeue end has a reactable
  queue,               \* queue_
  enqueue_semaphore, dequeue_semaphore,
  pc,                  \* where the loop's thread is
  batch,               \* events of this epoll_wait still to be handled
  hand,                \* what EnqueueCallbackInternal has in hand
  manager,             \* where the management thread is
  produced,            \* number of items enqueued
  received,            \* history: what the consumer got
  timed_out            \* history: a wait for the callback has timed out

endpoints == <<enqueue, dequeue, queue, enqueue_semaphore, dequeue_semaphore>>
qvars == <<buffer, enqueue_registered, callback_on_empty, endpoints, pc, batch,
          hand, manager, produced, received, timed_out>>

Item == 1..MaxItems

QueueTypeOK ==
  /\ buffer \in Seq(Item) /\ queue \in Seq(Item)
  /\ hand \in Seq(Item) /\ received \in Seq(Item)
  /\ enqueue_registered \in BOOLEAN /\ callback_on_empty \in BOOLEAN
  /\ enqueue \in BOOLEAN /\ dequeue \in BOOLEAN
  /\ enqueue_semaphore \in 0..Capacity /\ dequeue_semaphore \in 0..Capacity
  /\ pc \in {"poll", "batch", "enqueue", "push", "dequeue", "task", "undefined"}
  /\ batch \subseteq {"enqueue", "dequeue", "task"}
  /\ manager \in {"idle", "clearing", "destroying", "destroyed"}
  /\ produced \in 0..MaxItems /\ timed_out \in BOOLEAN

QueueInit ==
  /\ buffer = <<>> /\ enqueue_registered = FALSE /\ callback_on_empty = FALSE
  /\ enqueue = FALSE /\ dequeue = FALSE /\ queue = <<>>
  /\ enqueue_semaphore = Capacity /\ dequeue_semaphore = 0
  /\ pc = "poll" /\ batch = {} /\ hand = <<>> /\ manager = "idle"
  /\ produced = 0 /\ received = <<>> /\ timed_out = FALSE

(* EnqueueBuffer's mutex_ is held by a Clear that waits for the callback. *)
MutexFree == manager # "clearing"
Alive == manager \notin {"destroying", "destroyed"}
CallbackRuns == pc \in {"enqueue", "push"}

(***************************************************************************)
(* EnqueueBuffer.                                                          *)
(***************************************************************************)
enqueue_registers_first ==
  /\ Alive /\ MutexFree /\ produced < MaxItems
  /\ produced' = produced + 1
  /\ buffer' = Append(buffer, produced + 1)
  /\ enqueue_registered' = TRUE
  /\ enqueue' = (enqueue \/ produced = 0)
  /\ UNCHANGED <<callback_on_empty, dequeue, queue, enqueue_semaphore,
                 dequeue_semaphore, pc, batch, hand, manager, received, timed_out>>

Enqueue ==
  /\ Alive /\ MutexFree /\ produced < MaxItems
  /\ produced' = produced + 1
  /\ buffer' = Append(buffer, produced + 1)
  /\ enqueue_registered' = TRUE
  /\ enqueue' = (enqueue \/ ~enqueue_registered)
  /\ UNCHANGED <<callback_on_empty, dequeue, queue, enqueue_semaphore,
                 dequeue_semaphore, pc, batch, hand, manager, received, timed_out>>

NotifyOnEmpty ==
  /\ Alive /\ MutexFree /\ ~callback_on_empty
  /\ callback_on_empty' = TRUE
  /\ UNCHANGED <<buffer, enqueue_registered, endpoints, pc, batch, hand,
                 manager, produced, received, timed_out>>

(* Clear in a task of the loop's thread: nothing to wait for. *)
ClearInTask ==
  /\ pc = "task" /\ Alive /\ MutexFree /\ enqueue_registered
  /\ enqueue_registered' = FALSE /\ enqueue' = FALSE
  /\ batch' = batch \ {"enqueue"}
  /\ buffer' = <<>>
  /\ UNCHANGED <<callback_on_empty, dequeue, queue, enqueue_semaphore,
                 dequeue_semaphore, pc, hand, manager, produced, received, timed_out>>

(* Clear in another thread: UnregisterEnqueue waits for the callback, with *)
(* mutex_ held.                                                            *)
Clear ==
  /\ manager = "idle" /\ enqueue_registered
  /\ enqueue_registered' = FALSE /\ enqueue' = FALSE
  /\ batch' = batch \ {"enqueue"}
  /\ manager' = "clearing"
  /\ UNCHANGED <<buffer, callback_on_empty, dequeue, queue, enqueue_semaphore,
                 dequeue_semaphore, pc, hand, produced, received, timed_out>>

clear_ends ==
  /\ manager = "clearing" /\ ~CallbackRuns
  /\ manager' = "idle"
  /\ buffer' = <<>>
  /\ UNCHANGED <<enqueue_registered, callback_on_empty, endpoints, pc, batch,
                 hand, produced, received, timed_out>>

(* The loop runs: only a callback that waits for mutex_ takes a second. *)
clear_times_out ==
  /\ manager = "clearing" /\ pc = "enqueue"
  /\ manager' = "idle"
  /\ buffer' = <<>> /\ timed_out' = TRUE
  /\ UNCHANGED <<enqueue_registered, callback_on_empty, endpoints, pc, batch,
                 hand, produced, received>>

(* ~EnqueueBuffer, when its users are done, takes no lock. *)
Destroy ==
  /\ manager = "idle"
  /\ enqueue_registered' = FALSE
  /\ enqueue' = (enqueue /\ ~enqueue_registered)
  /\ batch' = IF enqueue_registered THEN batch \ {"enqueue"} ELSE batch
  /\ manager' = IF enqueue_registered THEN "destroying" ELSE "destroyed"
  /\ buffer' = IF enqueue_registered THEN buffer ELSE <<>>
  /\ UNCHANGED <<callback_on_empty, dequeue, queue, enqueue_semaphore,
                 dequeue_semaphore, pc, hand, produced, received, timed_out>>

destroy_ends ==
  /\ manager = "destroying" /\ ~CallbackRuns
  /\ manager' = "destroyed"
  /\ buffer' = <<>>
  /\ UNCHANGED <<enqueue_registered, callback_on_empty, endpoints, pc, batch,
                 hand, produced, received, timed_out>>

latest_first ==
  /\ pc = "enqueue" /\ MutexFree /\ buffer # <<>>
  /\ pc' = "push"
  /\ hand' = <<buffer[Len(buffer)]>> /\ buffer' = SubSeq(buffer, 1, Len(buffer) - 1)
  /\ LET done == buffer' = <<>> /\ enqueue_registered IN
       /\ enqueue_registered' = (enqueue_registered /\ ~done)
       /\ enqueue' = (enqueue /\ ~done)
       /\ callback_on_empty' = (callback_on_empty /\ ~done)
  /\ UNCHANGED <<dequeue, queue, enqueue_semaphore, dequeue_semaphore, manager,
                 batch, produced, received, timed_out>>

(* The buffer's end of EnqueueCallbackInternal: front() of an empty buffer *)
(* is undefined; the callback that takes the last item unregisters itself. *)
enqueue_callback ==
  /\ pc = "enqueue" /\ MutexFree
  /\ \/ /\ buffer = <<>>
        /\ pc' = "undefined"
        /\ UNCHANGED <<buffer, hand, enqueue, batch, enqueue_registered,
                       callback_on_empty>>
     \/ /\ buffer # <<>>
        /\ pc' = "push"
        /\ hand' = <<Head(buffer)>> /\ buffer' = Tail(buffer)
        /\ LET done == buffer' = <<>> /\ enqueue_registered IN
             /\ enqueue_registered' = (enqueue_registered /\ ~done)
             /\ enqueue' = (enqueue /\ ~done)
             /\ callback_on_empty' = (callback_on_empty /\ ~done)
        /\ UNCHANGED batch
  /\ UNCHANGED <<dequeue, queue, enqueue_semaphore, dequeue_semaphore, manager,
                 produced, received, timed_out>>

(***************************************************************************)
(* Queue.                                                                  *)
(***************************************************************************)
EnqueueCallbackInternal ==
  /\ pc = "push"
  /\ enqueue_semaphore' = enqueue_semaphore - 1
  /\ queue' = queue \o hand /\ hand' = <<>>
  /\ dequeue_semaphore' = dequeue_semaphore + 1
  /\ pc' = "batch"
  /\ UNCHANGED <<buffer, enqueue_registered, callback_on_empty, enqueue, dequeue,
                 batch, manager, produced, received, timed_out>>

(* The consumer's callback.  An empty queue would give it nullptr. *)
TryDequeue ==
  /\ pc = "dequeue"
  /\ pc' = "batch"
  /\ LET n == IF queue = <<>> THEN 0 ELSE 1 IN
       /\ dequeue_semaphore' = dequeue_semaphore - n
       /\ received' = received \o SubSeq(queue, 1, n)
       /\ queue' = SubSeq(queue, n + 1, Len(queue))
       /\ enqueue_semaphore' = enqueue_semaphore + n
  /\ UNCHANGED <<buffer, enqueue_registered, callback_on_empty, enqueue, dequeue,
                 batch, hand, manager, produced, timed_out>>

RegisterDequeue ==
  /\ pc = "task" /\ ~dequeue
  /\ dequeue' = TRUE
  /\ UNCHANGED <<buffer, enqueue_registered, callback_on_empty, enqueue, queue,
                 enqueue_semaphore, dequeue_semaphore, pc, batch, hand, manager,
                 produced, received, timed_out>>

UnregisterDequeue ==
  /\ pc = "task" /\ dequeue
  /\ dequeue' = FALSE /\ batch' = batch \ {"dequeue"}
  /\ UNCHANGED <<buffer, enqueue_registered, callback_on_empty, enqueue, queue,
                 enqueue_semaphore, dequeue_semaphore, pc, hand, manager,
                 produced, received, timed_out>>

(***************************************************************************)
(* The loop.                                                               *)
(***************************************************************************)
Ready ==
  {e \in {"enqueue", "dequeue"} :
     \/ e = "enqueue" /\ enqueue /\ enqueue_semaphore > 0
     \/ e = "dequeue" /\ dequeue /\ dequeue_semaphore > 0}

epoll_wait ==
  /\ pc = "poll"
  /\ \E posted \in SUBSET {"task"} : batch' = Ready \cup posted
  /\ batch' # {}
  /\ pc' = "batch"
  /\ UNCHANGED <<buffer, enqueue_registered, callback_on_empty, endpoints, hand,
                 manager, produced, received, timed_out>>

dispatch(e) ==
  /\ pc = "batch" /\ e \in batch
  /\ batch' = batch \ {e} /\ pc' = e
  /\ UNCHANGED <<buffer, enqueue_registered, callback_on_empty, endpoints, hand,
                 manager, produced, received, timed_out>>

returns ==
  /\ pc = "task" \/ (pc = "batch" /\ batch = {})
  /\ pc' = IF pc = "task" THEN "batch" ELSE "poll"
  /\ UNCHANGED <<buffer, enqueue_registered, callback_on_empty, endpoints, batch,
                 hand, manager, produced, received, timed_out>>

Loop ==
  \/ epoll_wait \/ returns \/ enqueue_callback \/ EnqueueCallbackInternal \/ TryDequeue
  \/ \E e \in {"enqueue", "dequeue", "task"} : dispatch(e)

QueueNext ==
  \/ Loop
  \/ Enqueue \/ NotifyOnEmpty
  \/ ClearInTask \/ RegisterDequeue \/ UnregisterDequeue
  \/ Clear \/ clear_ends \/ clear_times_out \/ Destroy \/ destroy_ends

(* The loop's thread runs and gets the mutex a running thread gives back;  *)
(* a wait ends.                                                            *)
QueueSpec ==
  /\ QueueInit /\ [][QueueNext]_qvars
  /\ SF_qvars(Loop)
  /\ WF_qvars(clear_ends \/ clear_times_out) /\ WF_qvars(destroy_ends)

(***************************************************************************)
(* Properties.                                                             *)
(***************************************************************************)
InTransit == queue \o hand \o buffer

(* Whatever is registered, unregistered and cleared by three threads, an   *)
(* item put in the EnqueueBuffer comes out of the queue once and in order, *)
(* except those that Clear takes back, which are the latest.               *)
Channel == INSTANCE FifoChannel WITH Message <- Item, in_transit <- InTransit,
             received <- received
ImplementsChannel == Channel!Spec

(* A buffer with an item in it has its callback registered with the loop,  *)
(* and an empty one has not: no item is forgotten, and no callback finds   *)
(* the buffer empty, unless a Clear has timed out.                         *)
NothingForgotten ==
  /\ MutexFree /\ Alive =>
       (buffer # <<>>) = enqueue_registered /\ enqueue = enqueue_registered
  /\ pc = "enqueue" => buffer # <<>> \/ timed_out

(* A callback that runs can go on: there is room for the item in hand, and *)
(* there is an item for the consumer, which does not look for nullptr; the *)
(* semaphores' assertions do not fail.                                     *)
EndsAgree ==
  /\ CallbackRuns => enqueue_semaphore > 0
  /\ pc = "dequeue" => queue # <<>> /\ dequeue_semaphore > 0
  /\ Len(queue) <= Capacity

(* The buffer, the queue, their semaphores and what is registered with the *)
(* loop agree in every state.                                              *)
Consistent == QueueTypeOK /\ NothingForgotten /\ EndsAgree

(* An item is received, or cleared away, while the consumer stays          *)
(* registered.                                                             *)
EveryItemMoves ==
  \A i \in Item :
    (\E k \in DOMAIN InTransit : InTransit[k] = i)
      ~> \/ \A k \in DOMAIN InTransit : InTransit[k] # i
         \/ ~dequeue \/ pc = "undefined"

(* "Enqueue end should make sure buffer isn't empty and UnregisterEnqueue  *)
(* when buffer become empty" (queue.h): the enqueue callback never takes   *)
(* the front of an empty buffer.                                           *)
BufferIsNotEmpty == pc # "undefined"
=============================================================================
