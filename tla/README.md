# A TLA+ verification of the Bluetooth stack's core

This project models the parts of the Android Bluetooth stack (`system/gd`,
"Gabeldorsche") on which everything else rests: the event loop with its task
queues, alarms and bounded queues, the start and stop of modules, the command
path of the HCI layer, the ACL manager (scheduler of outgoing packets,
reassembly of incoming ones, classic and LE connections with the address
manager), and the enhanced retransmission mode of L2CAP. The models are checked
by TLC on small instances. The safety properties, but for those of the
retransmission mode and a part of one of the LE connections', are also proved with
TLAPS for every value of the constants; section 6 says how, and under which
hypotheses.

Paths below are relative to the repository's `system/gd/` unless they begin
with `system/`, `android/`, `framework/` or `service/`.

## 1. Inventory

### The system

    Java services and framework          android/app, framework, service
            |  JNI
    BTIF / BTA / legacy stack            system/btif, system/bta, system/stack
            |  shim
    L2CAP, security, neighbour, storage  l2cap, security, neighbor, storage
            |
    ACL manager, LE managers             hci/acl_manager, hci/le_*_manager
            |
    HCI layer                            hci/hci_layer.cc
            |
    HAL                                  hal                 --- controller

Every gd component is a `Module` with a `Handler` (a task queue). All handlers of
the stack run on one thread, whose `Reactor` polls descriptors; queues, alarms
and handlers are all reactables of it. Components interact by posting closures
to each other's handlers, by bounded queues with two ends, and by callbacks
registered with a handler. Other threads that call in are the HAL's receive
thread, the management thread that starts and stops the stack, the legacy
stack's main thread, and JNI threads.

### Components, their state and what is hard about them

| component | state | operations | hard behaviour | what makes it correct |
|---|---|---|---|---|
| Reactor `os/linux_generic/reactor.cc` | epoll set, invalidation list, executing/removed flags, control eventfd, idle promise | Run, Register, Unregister, WaitForUnregisteredReactable, Stop, WaitForIdle | callbacks and other threads remove what the current batch points to; a mutex held while waiting | no callback on a deleted or recycled object; each removed object deleted once; Stop and waits end |
| Handler `os/handler.cc` | task queue, event counter | Post, Clear, WaitUntilStopped, handle_next_event | Post writes its event after its critical section; Clear from another thread | one event per task; every task runs unless cleared; nothing runs after Clear and wait |
| Module registry `module.cc`, `stack_manager.cc` | started modules, start order | Start, StopAll | tasks and receive threads run while modules stop one by one | dependencies outlive users; no post to a deleted handler; shutdown ends |
| HCI layer, commands `hci/hci_layer.cc` | command queue, waiting command, credits, two alarms | EnqueueCommand, responses, timeout, abort | two hops per response; stale credits; late answers after a timeout | one outstanding command, FIFO answers, every wait timed, failures fatal |
| HCI layer, events and queues | handler registries; ACL, SCO, ISO queues | RegisterEventHandler, on_hci_event, Disconnect fan-out | registration racing with delivery | events reach the registered handler only |
| ACL scheduler `hci/acl_manager/round_robin_scheduler.cc` | links, credits by type, fragments, registrations | Register, Unregister, buffer_packet, handle_enqueue_next_fragment, incoming_acl_credits | two credit pools, lost links with packets in three places, restart conditions | no send without credit; credits conserved; all that waits is taken |
| ACL manager `hci/acl_manager/{classic,le}_impl.h` | pending connections, accept list, connections | create, cancel, accept, disconnect | cancel racing with completion; pausing for address changes | at most one outgoing attempt; every attempt answered |
| Assembler and fragmenter `hci/acl_manager/assembler.h` | partial packet | on_incoming_packet | missing or extra fragments | only whole packets go up |
| LE address manager `hci/le_address_manager.cc` | clients, queued commands, state | Register, Ack pause/resume | clients that register or leave while pausing | the address changes only while all clients are paused |
| Controller `hci/controller.cc` | capabilities | start-up commands, credits | credits for unknown handles | every credit reaches its scheduler |
| L2CAP data controllers `l2cap/internal` | sequence numbers, windows, credits, reassembly | OnPdu, OnSdu, timers | loss, wrap-around, timer races | in order, exactly once |
| L2CAP links, channels, signalling `l2cap/{classic,le}/internal` | pending commands, channel table, idle timers | connect, configure, disconnect | crossing requests, timeouts | identifiers unique, no channel without link |
| Alarm, Queue, EnqueueBuffer `os` | timer, semaphores, buffers | Schedule, Cancel, on_fire; RegisterEnqueue, ... | cancel against an expiry already in the batch; Clear against the callback | a cancelled task does not run; nothing lost |
| Security `security` | pairing handlers, records | pairing | blocking exchange | keys only after authentication |
| Storage `storage` | configuration cache | Save | delayed write | nothing lost on shutdown |
| Legacy stack, BTA, BTIF, OSI, audio | many state machines | | | not covered |
| Java services, framework | adapter and profile state machines | | | not covered |

`PROJECT.json` lists every component with the reason when it is not modelled,
and the hazards at their lines.

## 2. Plan

Done, in this order:

1. `HciLayer`, `CommandChannel`: the command path and what it promises.
2. `RoundRobinScheduler`: outgoing ACL data.
3. `Reactor`: the event loop.
4. `Handler`, `ModuleRegistry`: task queues and module life cycle.
5. `Alarm`, and `Queue` with `FifoChannel`, what a data path promises.
6. `LeAddressManager`, and `LeConnections` composed with it.
7. `Ertm`: two endpoints over a lossy link, implementing `FifoChannel`.
8. `ClassicConnections`: attempts, requests and the table of connections.
9. `Assembler`: recombination of fragments.

Next:

10. `LeCreditChannel`: LE credit-based flow control, implementing `FifoChannel`.
    `OnCredit` of its data controller sets `pending_frames_count_` to zero before
    subtracting it from `credits_`, which the model has to follow.
11. L2CAP signalling and dynamic channels of two peers. The LE signalling manager
    does not send the next pending command after a successful
    `OnConnectionResponse` nor after `OnConnectionParameterUpdateResponse`.
12. The HCI event registries and the disconnection fan-out, composed with both
    kinds of connections; role changes of classic connections.
13. Adapter enabling and disabling (`android/app`, `service`).

Theorems to add: `ConnectionResumed` and `WantedIsSought` of `LeConnections`, the
two parts of its `Settled` that are not proved; `SequencesAgree` of `Ertm`, within
one lap of the sequence numbers.

## 3. The modules and the code

| module | models | properties in |
|---|---|---|
| `HciLayer` | `hci/hci_layer.cc`, command path | `HciLayer` |
| `CommandChannel` | abstract: a FIFO of commands that a failure may flush | |
| `RoundRobinScheduler` | `hci/acl_manager/round_robin_scheduler.cc`, `common/multi_priority_queue.h` | `RoundRobinScheduler` |
| `Reactor` | `os/linux_generic/reactor.cc` | `Reactor` |
| `Handler` | `os/handler.cc`, the event of `reactor.cc` | `Handler` |
| `ModuleRegistry` | `module.cc`, `stack_manager.cc`; extends `Handler` | `ModuleRegistry` |
| `Alarm` | `os/linux_generic/alarm.cc`, `repeating_alarm.cc` | `Alarm` |
| `Queue` | `os/queue.h`, `os/linux_generic/queue.tpp`, `reactive_semaphore.cc` | `Queue` |
| `FifoChannel` | abstract: what is sent is received once and in order | |
| `LeAddressManager` | `hci/le_address_manager.cc` and the calls it makes | |
| `LeConnections` | `hci/acl_manager/le_impl.h`; extends `LeAddressManager` | `LeConnections` |
| `Ertm` | `l2cap/internal/enhanced_retransmission_mode_channel_data_controller.cc` | `Ertm` |
| `ClassicConnections` | `hci/acl_manager/classic_impl.h` | `ClassicConnections` |
| `Assembler` | `hci/acl_manager/assembler.h`, routing of `hci/acl_manager.cc` | `Assembler` |
| `MC...` | constants of the instances | |
| `...Proofs` | theorems and proofs; `OsProofs` those of `ModuleRegistry` and `Queue` | |

Operators named like the bug they plant (`send_next_two_outstanding`,
`keep_removed`, `consume_all`, ...) stand before the definition they vary. No
specification uses them: each shows that a property fails when the code is
changed in that way.

### HciLayer

A task of the handler is a record in `tasks`; one task runs per step, from the
front. `EnqueueCommand` (any thread) and `ControllerEvent` (HAL thread) append.
A response is handled twice: `on_hci_event` looks the event code up and posts
`handle_command_response`, which checks the opcode, takes the credits, calls the
client back, pops the queue and sends the next command. `send_next_command` is
the part of those actions that needs a credit, no waiting command and a
non-empty queue. `on_hci_timeout` flushes the queue, sends the debug-information
command and arms the abort; `handle_root_inflammation` arms it as well.
`replies` records the clients' callbacks in the order they are invoked.

The controller is external: it answers each command once, with complete or
status as the command was enqueued for, or never; it grants or withdraws room
with any event; it may report a root inflammation once. A controller that
answers with the other kind of event would make the code run an empty callback;
that is outside the model. A zero grant without a command outstanding is
excluded, since the controller would then have to grant again on its own.
The alarm's expiry is atomic with its task: the race of `Cancel` with an expiry
that is already in the reactor's batch is the subject of `Alarm`.

### RoundRobinScheduler

State and actions are those of the class. `fragments` has one sequence of
handles for each priority of the `MultiPriorityQueue`. `start_round_robin` is an
operator over the credits and links its caller leaves behind, because the code
calls it in the middle of `Register` and `incoming_acl_credits`; the posted one is
an action. A link's packet is the number of its fragments. `starting_point_` is
state, and so is `ahead`: for each watched link, the links that were readable before
it, because they were registered earlier or got a packet earlier, and which the
reactor serves first. The code moves `starting_point_` on at every start, also when
there is no credit to register a link with. `reclaimed` is a history: `Unregister` has
given credits back to an empty pool, and `start_round_robin` has not run since.
`Prioritized` are the links that may have high priority; `Endless` says that links
always have another packet.
`LateTraffic` says whether a link may be lost with packets still queued or
buffered. External: the links, the HCI layer's bounded queue, the controller's
buffers and its completed-packet events, which may be late.

### Reactor

A `Reactable` is the address of an object, and is used again after deletion, so
that a stale pointer can meet a new object. Each critical section is one step;
`Unregister` has two (the invalidation list; then the epoll set and the deletion
or its delay), and the reactor's mutex appears as a guard only where
`WaitForUnregisteredReactable` keeps it while waiting. The history variables
`recent` (registered since the last poll), `straddled` (the list was cleared
between the two critical sections of another thread) and `overlapped`
(`WaitForIdle` was called while the promise of an earlier call was still there)
serve the properties only. `drop_idle_promise` is a step of its own: the code
resets `idle_promise_` after `set_value`, without the mutex, when the client that
waited may have returned and called again.
`control` is the counter of the eventfd, so that writes add up as they do in the
kernel. Read and write callbacks are one; `ModifyRegistration` and a second `Run`
are left out.

### Handler and ModuleRegistry

`Post` is two steps, as in the code: push under the mutex, then write the event
(`Notify`). `Clear` is three: swap the queue, drain the event, unregister. The
reactor is used as `Reactor` describes it: a callback begins only while its
reactable is registered, and one that has begun outlives `Unregister`. `Quiet` is
the condition under which `WaitUntilStopped` returns. `starting` is the recursion
stack of `ModuleRegistry::Start`. Modules' own code is external: between a
module's `Start()` and `Stop()`, its tasks and its own thread post to itself, to
its dependencies and to the started modules above it, and `Start()` and `Stop()`
may post. The 2 s, 3 s and 5 s timeouts, whose expiry aborts the process, are
left out; so are threads outside gd that post through the shim.

### Alarm

The loop is that of `Reactor`, reduced to a batch of ready descriptors minus those
unregistered since the poll. `on_fire` is split where it blocks: it takes the
mutex, reads the timer, takes the closure, runs it. The descriptor is created with
flags 0, so a read waits for an expiry, and `timerfd_settime` takes back one that
nobody has read. Every closure has a number, so that an old expiry running a new
closure can be told. Delays are abstracted to zero, which disarms a timerfd, and
not zero.

### Queue

The threads are those of the HCI layer: the HAL's thread enqueues into an
`EnqueueBuffer`, the loop moves items into the queue and out of it, the management
thread clears or destroys. `EnqueueBuffer`'s mutex is explicit where `Clear` keeps
it while it waits for the loop. The refinement to `FifoChannel` has the buffer,
the item in hand and the queue as what is in transit.

### LeAddressManager and LeConnections

Both objects run on the ACL manager's handler, so a closure is a function from the
state of the two to the next; what it posts and sends is in `tasks` and
`commands`. Clients are `le_impl` and the scanning manager, of which only its
registration and its answers to pauses are modelled. A controller rejects what it
may not do while initiating or scanning (`rejected`). `raced` records the orders
in which a client is not held by a pause on which the address manager counts:

- a posted `arm_connectability` runs after the pause has begun;
- an acknowledgement is taken for that of the latest pause, although the client
  gave it for an earlier one and is connecting or scanning again;
- `le_impl` unregisters while it connects, or what its unregistering sets off lets
  it connect;
- the scanner registers or unregisters while closures, commands on their way or
  cached commands are under way.

The properties are stated for clients that have not raced, and those about an idle
handler for behaviours in which none has. The second and the third order came out
of the proof of `NeverRejected`: no behaviour of three inputs shows that they
matter, but without them the property could not be proved. `handle_next_command` asserts that a
command is there; a failing assertion ends the program. `Settled` has four parts:
the clients are resumed (`ClientsResumed`), `le_impl` is not left paused
(`ConnectionResumed`), its state says what the controller does (`StateAgrees`), and
wanted devices are sought (`WantedIsSought`).

A connection complete event of an attempt carries success, success with parameters
that `check_connection_parameters` refuses, a failure, or `UNKNOWN_CONNECTION` after a
cancel command, with the address of a device of the accept list or with none. The
code cancels the device's alarm before it looks at the parameters, and also for an
`UNKNOWN_CONNECTION` that names it; in these two cases nobody is called back. `asked`
is the history of direct requests not answered yet, `forgotten` those of them whose
alarm was taken in this way; `EveryRequestTimed` says that all others have theirs.
Not modelled: the values of the parameters, the fan-out of events of established
connections, IRK contents.

### Ertm

An end is a record and every operation of `ErtmController::impl` a function on it;
`out` collects the frames of a step. `kMaxTxWin`, 64 in the code, is a parameter.
The frame check sequence is part of what the link loses. `recv_srej` is left out,
since no such end sends SREJ; closing ends the behaviour.

Sequence numbers are compared by `sequence_less_than`, which is wrong while the
frames that wait for an acknowledgement lie across the point where the numbers come
round (`AcrossTheWrap`). `FaultOnlyAcrossTheWrap` says what this may lead to: an end
closes the channel for a wrong sequence number only then, and only for a frame that
crosses its poll, as long as the SDUs that arrived are the next ones (`Intact`).

### ClassicConnections

Three handlers are three queues of tasks: the HCI layer's, the ACL manager's and
the client's (the shim's). Connection events pass the first in one task; answers
to commands and disconnections in two, as `hci_layer.cc` registers them on its own
handler, and may be overtaken. The controller pages one device, lets requests
expire, and connects or fails. `should_accept_connection_` always says yes, as the
constructor sets it. `mistaken` records that the end of a peer's own attempt was
taken for the end of ours; section 5 says what follows. Left out: role changes
(`delayed_role_change_`, which of one device suppresses the report of another's
role), events of established connections, SCO requests, unset callbacks.

### Assembler

A byte is a PDU and an offset, the header the first bytes, so that what goes up
can be compared with what was sent. The peer may give up a PDU after any fragment
and may send more bytes than the header says; a starting fragment holds the header
or, `headed` then says no, a part of it. `GetL2capPduSize` takes the length of such a
start for 0 and the code goes on: `Claimed` is the length the assembler takes a PDU
for, what the header says or the header alone, and `PdusArriveWhole` is about PDUs
that came as long as that. Fragments of a handle without a connection are dropped, before the
connection is added and after it is removed. The length still expected is computed
modulo a stand-in for the range of `size_t`, larger than any PDU (a length of 16
bits, its header and the surplus byte), as the constants' assumption says.

## 4. The runs

| run | instance | states | shows |
|---|---|---|---|
| `hci` | 2 commands, one answered by a status; the controller may die | 0.5 M | one outstanding command, no failing response assertion before a timeout, an alarm behind every wait, no send without room, FIFO channel refinement; an abort is never forgotten, no silent hang, and with a live controller every command is answered |
| `acl_late_links` | a classic and an LE link lost at any moment | 0.9 M | the enqueue callback always finds a fragment and a credit, one packet at a time, watched links have credit |
| `acl` | two classic links and one LE link | 0.3 M | credits and outstanding fragments add up to the controller's buffers; every packet queued is taken, unless its link goes or a reclaim leaves the scheduler standing |
| `reactor` | 2 addresses, 1 other thread, 1 Stop, 1 WaitForIdle | | liveness of callbacks, exact deletion, truthful waits, Stop works, removals complete, the idle promise exists |
| `modules` | HAL with a thread, storage, HCI, controller module; 3 posts | | events match tasks, nothing runs after Stop, dependencies outlive, late posts are safe, tasks run, shutdown ends |
| `alarm` | one alarm, one repeating alarm, 3 closures, 2 expiries | 75 k | only due closures run, no dispatch into a destroyed alarm, the loop sleeps only over an alarm reset since the poll, closures with a delay run |
| `queue` | 4 items, 2 places | 16 k | a FIFO; a buffer with items is registered; semaphores agree with the queue; every item moves on |
| `le` | 2 peers, 3 inputs | 8.0 M | the controller is never asked for what it must reject; the accept list is what `connect_list` says; at rest clients are resumed, the state agrees with the controller, wanted devices are sought; requests are timed but for those whose own completion took the alarm |
| `ertm` | A sends 4 frames in 2 SDUs, B one; 4 sequence numbers, window 2, 2 frames in flight | 1.8 M | a FIFO over a lossy link; sequence numbers agree; the channel closes only after its retries or for a frame that crosses a poll across the wrap; at rest nothing is stranded |
| `ertm_overtakes` | violation | | see findings |
| `classic` | 2 peers, 2 handles, 4 inputs | 7.9 M | one attempt at a time, no failing assertion, nothing stuck at rest, the table and the scheduler agree with the controller |
| `assembler` | 3 PDUs of up to 2 bytes, queues of 1 and 1 | 0.35 M | PDUs in order and as long as the assembler takes them for, nothing lost that arrived like that and had room, the callback finds a packet, queued PDUs reach the client |

Invariants that belong together are checked as one, their conjunction; the parts
keep their names and comments in the modules: `CommandSafety`, `NeverHangs`
(`HciLayer`), `SendsWithCredit` (`RoundRobinScheduler`), `ReactablesAreSafe`
(`Reactor`), `LifetimesHold` (`ModuleRegistry`), `OnFireIsSafe` (`Alarm`),
`ListsAgree`, `Settled` (`LeConnections`), `PdusArriveWhole` (`Assembler`),
`Settled` (`ClassicConnections`), and `Consistent`, the type invariant with the main
structural one, in `Queue`, `Ertm`, `ClassicConnections` and `Assembler`. The type
invariants of `HciLayer`, `Reactor`, `ModuleRegistry` and `Alarm` are proved as
part of their inductive invariants.

Further instances show the departures of section 5 and are not part of the regular
runs. Each is run with the `MC` module of its name, and every claim it lists is
refuted when checked by itself:

| instance | refuted claims |
|---|---|
| `RoundRobinScheduler_reclaim.cfg` | `ReclaimsOnlyOutstanding` |
| `RoundRobinScheduler_stall.cfg` | `WaitsOnlyForCredits` |
| `RoundRobinScheduler_starves.cfg` | `NoLinkStarves` |
| `Reactor_control.cfg` | `StopIsObeyed`, `PromiseIsNeverMissed` |
| `Reactor_threads.cfg` | `UnregisterIsThreadSafe`, `WaitEndsWithCallback` |
| `Alarm_departures.cfg` | `CancelIsHarmless`, `DestructionIsSafe` |
| `Queue_clear.cfg` | `BufferIsNotEmpty` |
| `LeConnections_departures.cfg` | `NoneForgotten`, `TriggeredAgain`, `PauseHolds` |
| `Ertm_wrap.cfg` | `ClosesOnlyAfterRetries`, `DeliveredAsSent` |
| `Ertm_busy.cfg` | `BusyStrandsNothing` |
| `ClassicConnections_blocked.cfg` | `FailureUnblocks` |
| `ClassicConnections_reuse.cfg` | `NoAssertionFails` |
| `Assembler_empty.cfg` | `WholePdusInOrder` |
| `Assembler_short.cfg` | `AlwaysWhole` |

### Bounds, and why they are enough

- `hci`: one credit (`MaxNum = 1`) is the tight case, since the host never has two
  commands outstanding; `MaxTasks` limits what other threads add to the handler:
  two, so that a grant and a response, or two responses, are in flight together.
- `acl*`: two classic buffers and one LE buffer, with packets of up to two or three
  fragments: a packet may exhaust its pool, fit exactly, or leave one credit. A
  queue of one fragment towards the HCI layer makes it fill up. Three packets, on
  any of the links, let the rotation pass a waiting link more than once. Priorities
  are in `acl_late_links`.
- `reactor`: one `WaitForIdle` against one `Stop`; two waits in a row, of which the
  first may have timed out, were checked as well, and `PromiseIsThere` covers any
  number of them. Two addresses give one callback that removes another and recycles
  its address within one batch; one foreign thread is enough to straddle the
  clearing of the list. The safety properties are proved for any number of each.
- `modules`: a chain of three levels and a module with two dependencies; three
  posts allow a late `Notify`, a running task and a waiting one.
- `alarm`: two alarms in one batch, so that the task of one resets the other; a
  third closure reschedules what was cancelled.
- `queue`: two places and four items fill the queue and the buffer behind it.
- `le`: three inputs are a call, what crosses it, and a rotation or a
  disconnection; two peers tell the accept list from one device. One peer with the
  clients in the other order was checked as well.
- `ertm`: four frames through a window of two, so that the window closes and
  reopens; a buffer of two SDUs makes the receiver
  busy. Four sequence numbers, twice the window, are the fewest for which windows do
  not overlap, and A's window lies across the wrap after two frames. One
  end sends one frame only: beyond that the code departs from `FifoChannel`, see
  section 5. So it does in the second lap of the sequence numbers: with four of them
  the first five frames are in order, and the sixth may be followed by an old one.
  `FaultOnlyAcrossTheWrap` was checked for eight frames as well, which are two laps.
  Simulation of five SDUs each way with 32 sequence numbers found no
  violation of `TypeOK`, `SequencesAgree` and `NothingStranded`.
- `classic`: four inputs are two crossing calls, a cancellation and a
  disconnection; two handles and `ReusesHandles = FALSE`, for the reason in
  section 5. Peers, and handles, are interchangeable.
- `assembler`: one PDU in `incoming_queue_`, whose limit is passed by one before PDUs
  are dropped, one in the connection's queue, and a third that finds no room; a PDU
  comes in up to four fragments, and a header of two bytes may be split.

Deadlock is checked in `assembler` and `alarm`, where something can always happen,
and not elsewhere: the other systems may stop, be idle, or
go down, and the bounds on posts, packets and calls end every behaviour. Progress
is stated by the liveness properties and, in `le`, `ertm` and `classic`, by
invariants about the states in which nothing is under way.

### Fairness

- HCI: the handler's thread runs its tasks and its alarms expire (WF). The
  controller's fairness is the hypothesis of `EveryCommandAnswered`, not part of
  the specification, so the other two properties hold with a dead controller.
- ACL: weak fairness of the handler's steps, of the HCI layer's sending and of the
  controller's completions; weak fairness of `buffer_packet` for some link, not for
  each: which of the watched links the reactor serves is in `ahead`, and the
  rotation promises no link its turn (section 5).
- Reactor: the loop's steps, the return of callbacks and `Unregister` are strongly
  fair, since they need a mutex that others take and release in between; a wait
  ends at its timeout. Polls need no fairness of their own: epoll is
  level-triggered, so a written control descriptor is in every batch until read.
- Modules: the stack thread and the management thread are scheduled, and tasks
  return (WF).
- Alarm: the loop's thread is scheduled and a running timer expires (WF).
- Queue: the loop's steps are strongly fair, since they need the buffer's mutex; a
  `Clear` that waits for a callback ends with it or by its timeout (WF).
- Assembler: the loop runs the reactables of both ends of the queue (WF).
- LE, ERTM, classic: none is assumed.

## 5. Findings

`ertm_overtakes` shows that the code departs from what the repository's tests say
of it: `data_request` sends a segment at once in the state XMIT when the window is
not full, though earlier ones are in `pending_frames_`. One that is handed over while
a poll is outstanding waits there. In the counterexample the poll is answered by an
I-frame with the final bit that is out of sequence, because the frame before it was
lost; `pass_to_tx` (line 203, or 197 for a duplicate) then ends the poll without
`send_pending_i_frames`, and the next SDU is sent, and arrives, first.

The other instances listed in section 4 show, with a counterexample for each claim:

- `ReclaimsOnlyOutstanding`: `Unregister` gives back all of
  `number_of_sent_packets_`, which counts buffered fragments that were never sent;
  a link lost with fragments buffered leaves the host with more credits than the
  controller has buffers.
- `WaitsOnlyForCredits`: `Unregister` restores credits without restarting the
  round robin, and `incoming_acl_credits` restarts only when credits were zero. If
  a link dies while it holds all credits, the other links of its type stay
  unwatched until another link registers, whether their packets were queued before
  or come later. `EveryPacketTaken` excludes this.
- `NoLinkStarves`: a start that follows the last fragment moves
  `starting_point_` though there are no credits of the type, and so does the one that the next
  credits bring; of two links the same one may be first every time there is a
  credit, and as long as it has packets the other has no turn.
- `StopIsObeyed`: `Stop` and `WaitForIdle` are bits written to a counter that
  adds; two `Stop`s (as in the test `stop_multi_times`) read as `WaitForIdle`.
- `PromiseIsNeverMissed`: a `WaitForIdle` that begins before the promise of an earlier one was
  reset replaces it, the reset then drops the new one, and the loop finds no promise
  to fulfil (the proof of `IdlePromiseIsThere` showed the case).
- `UnregisterIsThreadSafe`: the two critical sections of `Unregister` let another thread
  delete a reactable whose callback the loop is about to run.
- `WaitEndsWithCallback`: the reactor's mutex is held while waiting for a callback, and a
  callback that unregisters anything needs it; the wait lasts until its timeout.
- `CancelIsHarmless`: an alarm cancelled after the poll that reported it leaves the
  loop in a read that does not return, with the mutex held, although `os/alarm.h`
  calls `Cancel` a no-op when the alarm is not armed.
- `DestructionIsSafe`: the destructor does not wait for an `on_fire` that has begun in the
  loop's thread, which goes on in an object that is gone.
- `BufferIsNotEmpty`: a callback that waits for the buffer's mutex while `Clear` empties
  the buffer takes the front of an empty queue once `Clear` has timed out.
- `TriggeredAgain`: the first `AddDeviceToResolvingList` caches commands
  for which nobody pauses the client.
- `PauseHolds`: an `arm_connectability` posted before a pause runs after it;
  the state was disarmed, so the pause is acknowledged at once, and the address
  changes while the controller initiates.
- `NoneForgotten`: `on_le_connection_complete` cancels the alarm of a direct
  request first. With parameters that `check_connection_parameters` refuses
  (`le_impl.h:360`, also `:483`) it then returns without a connection and without a
  callback, and so it does for an `UNKNOWN_CONNECTION` that names the device
  (`le_impl.h:303`, as a test of the ACL manager sends it): the client is never
  answered.
- `ClosesOnlyAfterRetries`: while a poll is outstanding, `with_invalid_req_seq` is asked
  about frames without the final bit, and it is not the negation of
  `with_valid_req_seq`: once `next_tx_seq_` has come round, a correct late
  acknowledgement closes the channel.
- `DeliveredAsSent`, in `Ertm_wrap`: the loop of `process_req_seq` does not run when the acknowledged
  frames lie across the wrap, so they stay in `unacked_list_`; one lap later a
  retransmission sends them as new frames, and old SDUs are delivered again.
  `Consistent` and `ImplementsChannel` fail with it.
- `BusyStrandsNothing`: `local_busy_clear` polls but stays in XMIT, where the expiry of the
  monitor timer does nothing. If that one RR is lost, the peer takes this end for
  busy and its frames wait forever. `NothingStranded` is stated for ends that have
  not been busy.
- `FailureUnblocks`: `on_connection_complete` tells attempts apart by
  the address only. When a peer calls while it is being called, the end of its
  attempt is taken for the end of ours: its address stays in
  `incoming_connecting_address_set_` and blocks every outgoing attempt until that
  peer connects again; a second page, a connection nobody is told of and the
  failing assertion on `UNKNOWN_CONNECTION` may follow too. The comment in
  `on_create_connection_status` says "unblock queue and report to caller".
- `NoAssertionFails`: a connection complete event that reuses a handle
  overtakes the disconnection, which takes two tasks, and the assertion "Make sure
  the connection is unique" fails.
- `WholePdusInOrder`, with empty fragments: a continuing fragment without bytes meets a remaining length
  of zero and hands over an empty packet, or a PDU that was given up.
- `AlwaysWhole`: `GetL2capPduSize` returns 0 for a starting fragment shorter than
  the header, and the bytes missing of the header become the remaining length: a
  fragment that brings the rest of the PDU is dropped as too long, and one that brings
  the rest of the header sends the bare header up. The legacy stack's
  `system/hci/src/packet_fragmenter.cc` (421-487) reassembles such starts.

Seen while modelling, and followed by the models where they reach: `local_busy_clear`
is ignored while a poll is outstanding; `recv_rnr` while a REJ is out swaps
the answers to P and F; a `max_transmit` of zero closes at once;
`cancel_connect` has its condition the wrong way round, so that the attempt under
way is never cancelled; a command pushed between `OnResume` and the posted
`unregister` of the last LE client stays cached.

## 6. The proofs

All theorems hold for every value of the constants that satisfies the named
assumptions: distinct special packets and a well-typed opcode function
(`PacketAssumption`, `BoundAssumption`); finitely many links, well typed, and
non-zero buffers (`ConstantsAssumption` of the scheduler); distinct threads and a
`None` that is not an address (`ConstantsAssumption`, `NoneAssumption` of the
reactor); finitely many handlers and threads (`HandlerAssumption`); dependencies
that some numbering of the modules descends, that is, without a cycle
(`RegistryAssumption`); alarms of two disjoint kinds with names of their own
(`ConstantsAssumption`, `NamesAssumption` of `Alarm`); a queue with at least one
place (`ConstantsAssumption` of `Queue`); a range of `size_t` beyond the longest
PDU (`AssemblerAssumption`); an empty address and a missing handle that are none of
the addresses and handles (`ClassicAssumption`); the two LE clients in either order
and an absent address that is no peer's (`ClientOrderAssumption`,
`LeConnectionsAssumption`). The bounds (`MaxTasks`,
`MaxInputs`, ...) are any natural numbers.

Three theorems have a hypothesis about the environment, which a counterexample of
section 5 shows to be needed:

| theorems | hypothesis | without it |
|---|---|---|
| `NoCreditLost` | `~LateTraffic`: a link that still has packets to send is not lost | `RoundRobinScheduler_reclaim` |
| `AllAndOnlyWholePdus` | `~EmptyFragments`: continuing fragments have bytes | `Assembler_empty` |
| `NoAssertion`, `EverythingSettles` | `~ReusesHandles`: the controller reuses a handle only when the host has forgotten it | `ClassicConnections_reuse` |

The runs check these properties under the same hypotheses.

**HciLayerProofs.** `InvariantHolds` proves `IInv`:

- `TypeOK`;
- `OneOutstanding`: `waiting_command` is set exactly while one command is at the
  controller or its answer is in one of the two hops. It is not inductive alone:
  an answer handled with no alarm state known could send again;
- `AlarmsAgree`: the timeout alarm is deleted exactly when an abort is scheduled,
  and armed while a command is outstanding, which yields `WaitIsTimed`;
- `DebugInfoAfterTimeout`: the debug-information command enters with the timeout,
  so before it the queue's front is the waiting command;
- `NoStaleCredit`: while the controller has no room, no event that would still
  count after the outstanding answer grants any; it needs the order in which the
  events in the two hops left the controller (`LeftLater`), and yields
  `SendsOnlyWithRoom`;
- `ResponsesExpected` follows from the first two.

`Refinement` shows that each step is a step of `CommandChannel` or stutters, with
the queue without the debug-information command as the pending commands, and
`DebugInfoInFront` as the extra invariant that makes the mapping work.

**RoundRobinSchedulerProofs.** `SafeInv` is the typing of the scheduler's own
variables with `EnqueueIsSafe`, `OnePacketAtATime` and `WatchedHasCredit`, which
are inductive together: that no link is watched while fragments wait is what keeps
the fragments of one link, and that credits of the front fragment's type are
positive while the callback is registered depends on both. `StartStep` is the
lemma about `start_round_robin` that its three callers share. `TypeCorrect` adds the
typing of the links and the controller.

`NoCreditLost` proves `CreditsConserved` with `CreditInv`: the sum itself
(`CreditSum`) and, for each link, `LinkInv`. A link that is not both registered and
connected has nothing queued or buffered; a connected one holds exactly as many
credits as it has fragments on their way (in the HCI queue, in the controller, or
in a completed event not yet handled), and a lost one that is still registered at
least as many. The sum over the links of a type is a recursive function on finite
sets. That it takes up a change at one link is proved by induction over a set, in
the form the provers can use: were there a counterexample there would be a
smallest (`WFMin`), and the set without one element would be a smaller one.

**ReactorProofs.** `IInv` is `TypeOK`, `ObjectInv` (which objects exist, and who
will delete them), `BatchInv` (every pointer in the batch is live or on the
invalidation list, unless an `Unregister` straddled) and `WaitInv` (what the
promise of a waiting thread stands for). One lemma per action; `CallbacksAreLive`,
`NoLeakNoDoubleDelete` and `WaitIsTruthful` follow. `PromiseIsThere` adds
`IdleInv`: while calls do not overlap and there was at most one `Stop`, a request
to wait for idle that the loop has not answered is in one place, with its promise,
and without a promise there is none. The first attempt at this proof failed for
overlapping calls of `WaitForIdle`; the property now says what it excludes.

**OsProofs, the module registry.** `IInv` is `TypeOK` with

- `HandlerInv`: a handler is cleared from the first step of `Clear` on, its queue
  is then empty, and at the end it is unregistered;
- `PhaseInv`: which states the modules have while the stack starts, is up, stops
  and is down; in particular a stopped module is `Quiet`, and one that was never
  constructed has no task. This yields `NothingRunsAfterStop`;
- `StartInv`: the recursion stack of `Start` strictly descends a numbering of the
  dependencies (`Rank`, which exists because they have no cycle), so a module is
  never constructed a second time; and `start_order_` has every started module
  once, after its dependencies, which is what makes the reverse order safe;
- `PosterInv`: a thread in the middle of a `Post` belongs to something that has not
  stopped. It yields `NotifyFindsHandler`, since the state "down" is reached only
  when nobody posts;
- `DepsInv`: `DependenciesOutlive`, also for modules that have tasks waiting, since
  these may run later.

`CallbacksFindWork` proves `WorkIsThere` on top of it, by counting the threads that
are about to write an event (`Writers`): a `Post` adds one task and one writer, a
`Notify` turns a writer into an event, a callback takes one event and one task.

**AlarmProofs.** `IInv` is `TypeOK` with

- `LoopInv`: what the batch holds, and that a descriptor in it, or one whose
  `on_fire` is on its way to the read, has an expiry to read or was reset since the
  poll. This yields `OnFireSafe`;
- `NumberInv`: closures are numbered apart, so that no two alarms have the same;
- `ClosureInv`: a timer that runs, has expired, or is being read has the closure of
  its latest `Schedule`, which is due once the timer has expired. This yields
  `RunsOnlyDueTasks`: nothing runs that was cancelled or rescheduled.

**OsProofs, the queue.** `QueueInv` is `QueueTypeOK` with `SemaphoreInv` (the semaphores count the
items and the free places, and an item is in hand only between the callback's two
steps), `BatchInv` (an event in the batch, and a callback that runs, found its
semaphore positive, and nothing has lowered it since: each end has one user) and
`BufferInv` (`EnqueueBuffer` is registered exactly while it holds an item and nobody
clears it). `EverythingAgrees` follows, and `Refinement` shows step by step that the
queue with its buffer implements `FifoChannel`.

**AssemblerProofs.** `IInv` is the typing, with the remaining length in the range of `size_t`,
with `FrontInv`: the callback is registered exactly while `incoming_queue_` has a
packet. `AllAndOnlyWholePdus` adds `PduInv`: an unfinished PDU is the last one sent,
the stage is a prefix of it as long as what was sent, and that length and the
remaining one add up to what the assembler takes the PDU for (`StageInv`); a PDU that was not missed so far is in
the stage (`LostInv`). Without these `WholePdusInOrder` says nothing about the
fragment that comes next.

**ClassicConnectionsProofs.** Everything is stated of the events on their way to
`classic_impl` in the order of arrival, `host.tasks \o hci`; a disconnection or an
answer falls back once in it.

- `AttemptInv`: an attempt of ours is in exactly one place, and
  `outgoing_connecting_address_` is its address: the command is on its way, the
  controller pages, or the end is on its way back. This yields `OneAttemptAtATime`,
  without any hypothesis;
- `RequestInv`: `incoming_connecting_address_set_` is what the controller's requests
  were before the events on their way: starting from it, a request that arrives
  puts in an address that is not there, an end takes out one that is, and the
  result is the controller's set;
- `HandleInv`: the events of a handle are at most a beginning and then an end, and
  the table, the scheduler and the controller agree when there is none;
- `Waiting`: requests wait only for an attempt, and what is unanswered waits.

The first two make up `AttemptsHold` and are inductive together, since an event of
ours and one of the peer's are told apart by both; the last two (`TableHolds`) need
them and that handles are not reused. All are stated for behaviours in which the
end of a peer's attempt has not been taken for ours (`mistaken`). `NoAssertion` and
`EverythingSettles` follow.

**LeConnectionsProofs.** Every operation is a function on the record of the two
objects, so the invariant is a predicate `All(h, x)` of such a record and each
operation has a lemma: it keeps `All`. The context `x` holds what is known in the
middle of a closure: who has raced, which requests have alarms, which changes of
the accept list are in no queue yet, and how far the registration of the scanner is
(as the scanner wants it; the closure that makes it so is next; that closure runs,
either way; or the acknowledgement that runs is taken for the pause). `Inv` says that
`All` holds of the host between two steps. Its parts are:

- `Attempt`: there is at most one attempt to connect, and it is in one place: its
  command is on its way, the controller initiates, or the event that ends it is
  posted. `connectability_state_` tells whether there is one, and the answer to
  its command comes before the event that ends it. This yields `IdleStateAgrees`;
- `Held`: while the address manager takes `le_impl` for paused, or does not know of
  it, its attempt is cancelled by a command that is ahead of every change; `ScanHeld`
  and `Form` say the same of the scanner. They yield `RejectedOnlyAfterRace`;
- `Stream`: the accept list, after the commands on their way, the cached commands,
  those being pushed and those posted, is `connect_list`. It yields
  `NothingIsLost`, and needs `Held`, since a rejected command changes nothing;
- `Timed`: the requests that were asked for, are not answered and were not forgotten
  have their alarms, also in the middle of a closure; it yields `RequestsAreTimed`.

`ClientsAreResumed` is about an idle handler, and its invariant `ResumeInv` says that
something is always on its way that brings the next step: a client that is waited
for will acknowledge, because its acknowledgement is posted, or its cancel command
or the answer to it is on its way (`Waits`); while a client is paused, a command, its
completion, a look at the cached commands or an acknowledgement is still to come
(`Driven`); a paused scanner has its acknowledgement behind every closure that
could take its pause away (`Behind`) or is known to be paused (`ScanWaits`). Two
facts are needed besides: an attempt that is being cancelled has its cancel command
or the event that ends it on its way, or it ended before, and then that event is
ahead of the answer that refuses the cancel command (`Stopping`); and nobody is
paused when the scanner unregisters (`Fresh`). TLC checked `ResumeInv` with three
inputs and both orders of the clients before it was proved.

The properties that the runs check as conjunctions have theorems of their own
(`CommandPathIsSafe`, `CreditForEverySend`, `SharingIsSafe`, `StopOrderIsSafe`,
`OnFireSafe`, `EverythingAgrees`, ...), which combine those of their parts.

**Only model-checked.**

- Liveness, which TLAPS does not handle.
- `Settled` of `LeConnections` as a whole. `ClientsResumed` and `StateAgrees` are
  proved. `ConnectionResumed` and `WantedIsSought` are about what `le_impl` itself
  believes: `pause_connection_` and `arm_on_resume_` may be set while the address
  manager has not registered `le_impl`, or has its unregistering still posted. Their
  invariant would have to say that after the closure that registers it there is
  always one that pauses it, or that ends a series of commands and resumes it; this
  order of closures has not been worked out. Random behaviours of up to 14 inputs
  without a race violate neither.
- `Consistent`, `FaultOnlyAcrossTheWrap` and `NothingStranded` of `Ertm`, and that it
  implements `FifoChannel`. But for the second they do not hold for every value of the
  constants, since `process_req_seq` does not wrap and the code departs from them in
  the second lap of the sequence numbers (section 5), and within a lap an invariant has to relate both
  ends with every frame in flight, lost or repeated. Sending a window of frames is a
  fold over them, about which a proof would need induction over data.

## 7. What is left out

The contents of packets, logging and metrics; the kernel's epoll and eventfd beyond
the semantics stated above; memory exhaustion; the high-priority queue's effect on
order (only one packet is ever buffered, so it has none, which `OnePacketAtATime`
shows); and the components listed as not modelled in `PROJECT.json`.
