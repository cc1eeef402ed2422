------------------------ MODULE ClassicConnections ------------------------
(***************************************************************************)
(* Classic connections (system/gd/hci/acl_manager/classic_impl.h) between  *)
(* the HCI layer below, which delivers events and answers, and a client    *)
(* above, the shim of the legacy stack.  Three handlers are involved, each *)
(* with its own queue of tasks: the HCI layer's, the ACL manager's and the *)
(* client's.  An event of the controller is a task of the HCI layer; the   *)
(* events of connections are passed to the ACL manager by that task, but   *)
(* answers to commands and the end of a connection only by a second task   *)
(* that it posts, so that an event can be overtaken by a later one.        *)
(*                                                                         *)
(* client_callbacks_ is set throughout; requests are for ACL links.  Role  *)
(* changes and the events of established connections are left out.         *)
(***************************************************************************)
EXTENDS FiniteSetsExt, Naturals, Sequences

CONSTANTS
  Address,        \* peers
  Handle,         \* connection handles
  ReusesHandles,  \* whether the controller gives a handle to a new connection
                  \* while the host still deals with the end of the old one
  MaxInputs       \* bound on the calls of AclManager, and on the requests and
                  \* disconnections of the peers

kEmpty == "kEmpty"
NoHandle == "NoHandle"

ASSUME ClassicAssumption ==
  /\ kEmpty \notin Address /\ NoHandle \notin Handle
  /\ ReusesHandles \in BOOLEAN
  /\ MaxInputs \in Nat

VARIABLES
  host,      \* the state of classic_impl, the tasks of its handler and of its
             \* client's, and the commands on their way to the controller
  hci,       \* the tasks of the HCI layer's handler
  paging,    \* peers the controller is connecting to
  requests,  \* what has become of a peer's request
  link,      \* the controller's connections
  inputs     \* how many there have been

controller == <<paging, requests, link>>
vars == <<host, hci, controller, inputs>>

Linked(a) == \E h \in Handle : link[h] = a

TypeOK ==
  /\ host.outgoing_connecting_address \in Address \cup {kEmpty}
  /\ host.incoming_connecting_address_set \subseteq Address
  /\ host.pending_outgoing_connections \in Seq(Address)
  /\ host.connections \in [Handle -> Address \cup {kEmpty}]
  /\ host.scheduled \subseteq Handle
  /\ host.aborted \in BOOLEAN /\ host.mistaken \in BOOLEAN
  /\ host.unanswered \subseteq Address
  /\ paging \subseteq Address
  /\ requests \in [Address -> {"none", "asked", "accepted"}]
  /\ link \in [Handle -> Address \cup {kEmpty}]

Init ==
  /\ host = [outgoing_connecting_address |-> kEmpty,
             incoming_connecting_address_set |-> {},
             pending_outgoing_connections |-> <<>>,
             connections |-> [h \in Handle |-> kEmpty],
             scheduled |-> {},      \* handles registered with the round robin
             aborted |-> FALSE,     \* an assertion has failed
             tasks |-> <<>>, client |-> <<>>, commands |-> <<>>,
             unanswered |-> {},     \* history: CreateConnection without an answer
             mistaken |-> FALSE]    \* history: see Mistakes
  /\ hci = <<>>
  /\ paging = {} /\ requests = [a \in Address |-> "none"]
  /\ link = [h \in Handle |-> kEmpty]
  /\ inputs = 0

Input == inputs < MaxInputs /\ inputs' = inputs + 1

(***************************************************************************)
(* classic_impl.                                                           *)
(***************************************************************************)
EnqueueCommand(h, op, a) == [h EXCEPT !.commands = Append(@, <<op, a>>)]

is_classic_link_already_connected(h, a) == \E n \in Handle : h.connections[n] = a

dequeue_while_connecting(h) ==
  LET pending == h.pending_outgoing_connections
  IN IF h.incoming_connecting_address_set # {} \/ pending = <<>> THEN h
     ELSE EnqueueCommand([h EXCEPT !.pending_outgoing_connections = Tail(@),
                                   !.outgoing_connecting_address = Head(pending)],
                         "create", Head(pending))

(* Requests for devices that are connected by now are skipped. *)
dequeue_next_connection(h) ==
  LET pending == h.pending_outgoing_connections
      Skipped == {i \in DOMAIN pending : is_classic_link_already_connected(h, pending[i])}
      fresh == DOMAIN pending \ Skipped
      next == Min(fresh)
  IN IF h.incoming_connecting_address_set # {} \/ h.outgoing_connecting_address # kEmpty
     THEN h
     ELSE LET g == [h EXCEPT !.unanswered = @ \ {pending[i] : i \in Skipped}]
          IN IF fresh = {} THEN [g EXCEPT !.pending_outgoing_connections = <<>>]
             ELSE EnqueueCommand(
                    [g EXCEPT !.pending_outgoing_connections = SubSeq(@, next + 1, Len(@)),
                              !.outgoing_connecting_address = pending[next]],
                    "create", pending[next])

create_connection(h, a) ==
  dequeue_next_connection(
    [h EXCEPT !.pending_outgoing_connections = Append(@, a), !.unanswered = @ \cup {a}])

OnConnectFail(h, a) == [h EXCEPT !.unanswered = @ \ {a}]

forget_when_pending(h, status) ==
  dequeue_next_connection([h EXCEPT !.outgoing_connecting_address = kEmpty])

on_create_connection_status(h, status) ==
  IF status = "success" THEN h
  ELSE dequeue_next_connection(
         [OnConnectFail(h, h.outgoing_connecting_address)
            EXCEPT !.outgoing_connecting_address = kEmpty])

on_incoming_connection(h, a) ==
  EnqueueCommand([h EXCEPT !.incoming_connecting_address_set = @ \cup {a}],
                 IF is_classic_link_already_connected(h, a) THEN "reject" ELSE "accept", a)

(* Register with the round robin keeps an entry that is there already.     *)
create_and_announce_connection(h, status, a, handle) ==
  IF status # "success" THEN OnConnectFail(h, a)
  ELSE IF h.connections[handle] # kEmpty
       THEN [h EXCEPT !.scheduled = @ \cup {handle}, !.aborted = TRUE]
       ELSE [h EXCEPT !.scheduled = @ \cup {handle}, !.connections[handle] = a,
                      !.unanswered = @ \ {a}]

complete_without_dequeue(h, status, a, handle) ==
  IF h.outgoing_connecting_address = a
  THEN create_and_announce_connection(
         [h EXCEPT !.outgoing_connecting_address = kEmpty], status, a, handle)
  ELSE create_and_announce_connection(
         [h EXCEPT !.incoming_connecting_address_set = @ \ {a}], status, a, handle)

on_connection_complete(h, status, a, handle) ==
  IF h.outgoing_connecting_address = a
  THEN dequeue_next_connection(create_and_announce_connection(
         [h EXCEPT !.outgoing_connecting_address = kEmpty], status, a, handle))
  ELSE IF a \in h.incoming_connecting_address_set
  THEN dequeue_next_connection(create_and_announce_connection(
         [h EXCEPT !.incoming_connecting_address_set = @ \ {a}], status, a, handle))
  ELSE [h EXCEPT !.aborted = @ \/ status = "unknown_connection"]

cancel_connect(h, a) ==
  IF h.outgoing_connecting_address = a THEN h ELSE EnqueueCommand(h, "cancel", a)

on_accept_connection_status(h, a, status) ==
  IF status = "success" THEN h ELSE cancel_connect(h, a)

(* Unregister of the round robin asserts that the handle is known there.   *)
on_classic_disconnect(h, handle) ==
  IF h.connections[handle] = kEmpty THEN h
  ELSE [h EXCEPT !.aborted = @ \/ handle \notin h.scheduled,
                 !.scheduled = @ \ {handle},
                 !.client = Append(@, handle),
                 !.connections[handle] = kEmpty]

invalidate(h, handle) == [h EXCEPT !.connections[handle] = kEmpty]

(***************************************************************************)
(* The handlers run the tasks at the heads of their queues.                *)
(***************************************************************************)
Execute(h, task) ==
  CASE task.do = "create_connection" -> create_connection(h, task.a)
    [] task.do = "cancel_connect" -> cancel_connect(h, task.a)
    [] task.do = "create_status" -> on_create_connection_status(h, task.status)
    [] task.do = "accept_status" -> on_accept_connection_status(h, task.a, task.status)
    [] task.do = "request" -> on_incoming_connection(h, task.a)
    [] task.do = "complete" -> on_connection_complete(h, task.status, task.a, task.handle)
    [] task.do = "disconnect" -> on_classic_disconnect(h, task.handle)

(* The end of the peer's own attempt is taken for the end of ours. *)
Mistakes(h, task) ==
  /\ task.do = "complete" /\ h.outgoing_connecting_address = task.a
  /\ task.a \in h.incoming_connecting_address_set /\ task.of = "request"

RunTask ==
  /\ ~host.aborted /\ host.tasks # <<>>
  /\ LET task == Head(host.tasks)
         h == [host EXCEPT !.tasks = Tail(@), !.mistaken = @ \/ Mistakes(host, task)]
     IN host' = Execute(h, task)
  /\ UNCHANGED <<hci, controller, inputs>>

(* on_hci_event, or the second task of an answer or a disconnection.       *)
(* Answers that are only logged go no further.                             *)
RunHci ==
  /\ ~host.aborted /\ hci # <<>>
  /\ LET event == Head(hci)
     IN IF event.do \in {"create_status", "accept_status", "logged", "disconnect"}
             /\ event.hop = 1
        THEN hci' = Append(Tail(hci), [event EXCEPT !.hop = 2]) /\ UNCHANGED host
        ELSE /\ hci' = Tail(hci)
             /\ host' = IF event.do = "logged" THEN host
                        ELSE [host EXCEPT !.tasks = Append(@, event)]
  /\ UNCHANGED <<controller, inputs>>

(* The shim deletes its connection when it is told of the disconnection,   *)
(* and the connection's destructor invalidates its handle.                 *)
RunClient ==
  /\ ~host.aborted /\ host.client # <<>>
  /\ host' = invalidate([host EXCEPT !.client = Tail(@)], Head(host.client))
  /\ UNCHANGED <<hci, controller, inputs>>

(***************************************************************************)
(* AclManager.                                                             *)
(***************************************************************************)
Event(do, a, handle, status, of) ==
  [do |-> do, a |-> a, handle |-> handle, status |-> status, of |-> of, hop |-> 1]

Call(do, a) ==
  /\ ~host.aborted /\ Input
  /\ host' = [host EXCEPT !.tasks = Append(@, Event(do, a, NoHandle, "", ""))]
  /\ UNCHANGED <<hci, controller>>

CreateConnection(a) == Call("create_connection", a)
CancelConnect(a) == Call("cancel_connect", a)

(***************************************************************************)
(* The controller.                                                         *)
(***************************************************************************)
command == Head(host.commands)

(* One command at a time: the next is sent when the answer to the last has *)
(* been handled by the HCI layer.                                          *)
CanExecute(op) ==
  /\ ~host.aborted /\ host.commands # <<>> /\ command[1] = op
  /\ ~\E i \in DOMAIN hci : hci[i].do \in {"create_status", "accept_status", "logged"}
  /\ host' = [host EXCEPT !.commands = Tail(@)]
  /\ UNCHANGED inputs

Complete(a, handle, status, of) == Event("complete", a, handle, status, of)

ExecuteCreate(ok) ==
  /\ CanExecute("create")
  /\ ok => paging = {} /\ ~Linked(command[2])
  /\ hci' = Append(hci, Event("create_status", command[2], NoHandle,
                              IF ok THEN "success" ELSE "failed", ""))
  /\ paging' = IF ok THEN paging \cup {command[2]} ELSE paging
  /\ UNCHANGED <<requests, link>>

ExecuteAccept ==
  /\ CanExecute("accept")
  /\ LET a == command[2]
         ok == requests[a] = "asked"
     IN /\ hci' = Append(hci, Event("accept_status", a, NoHandle,
                                    IF ok THEN "success" ELSE "failed", ""))
        /\ requests' = IF ok THEN [requests EXCEPT ![a] = "accepted"] ELSE requests
  /\ UNCHANGED <<paging, link>>

(* A rejected request, like one that succeeds or fails, ends with an event. *)
ExecuteReject ==
  /\ CanExecute("reject")
  /\ LET a == command[2]
         logged == Append(hci, Event("logged", a, NoHandle, "", ""))
     IN IF requests[a] = "asked"
        THEN /\ hci' = Append(logged, Complete(a, NoHandle, "failed", "request"))
             /\ requests' = [requests EXCEPT ![a] = "none"]
        ELSE hci' = logged /\ UNCHANGED requests
  /\ UNCHANGED <<paging, link>>

ExecuteCancel ==
  /\ CanExecute("cancel")
  /\ LET a == command[2]
         logged == Append(hci, Event("logged", a, NoHandle, "", ""))
     IN hci' = IF a \in paging
               THEN Append(logged, Complete(a, NoHandle, "unknown_connection", "page"))
               ELSE logged
  /\ paging' = paging \ {command[2]}
  /\ UNCHANGED <<requests, link>>

(* The host has forgotten a handle. *)
Forgotten(h) ==
  /\ host.connections[h] = kEmpty
  /\ \A s \in {hci, host.tasks} : \A i \in DOMAIN s : s[i].handle # h
  /\ \A i \in DOMAIN host.client : host.client[i] # h

FreeHandles == {h \in Handle : link[h] = kEmpty /\ (ReusesHandles \/ Forgotten(h))}

(* An attempt ends: with a connection, or without. *)
Ends(a, of) ==
  /\ ~host.aborted
  /\ \/ /\ ~Linked(a)
        /\ \E h \in FreeHandles :
             /\ link' = [link EXCEPT ![h] = a]
             /\ hci' = Append(hci, Complete(a, h, "success", of))
     \/ hci' = Append(hci, Complete(a, NoHandle, "failed", of)) /\ UNCHANGED link
  /\ UNCHANGED <<host, inputs>>

PageEnds(a) ==
  a \in paging /\ Ends(a, "page") /\ paging' = paging \ {a} /\ UNCHANGED requests

AcceptEnds(a) ==
  /\ requests[a] = "accepted" /\ Ends(a, "request")
  /\ requests' = [requests EXCEPT ![a] = "none"] /\ UNCHANGED paging

PeerRequests(a) ==
  /\ ~host.aborted /\ requests[a] = "none" /\ ~Linked(a) /\ Input
  /\ requests' = [requests EXCEPT ![a] = "asked"]
  /\ hci' = Append(hci, Event("request", a, NoHandle, "", ""))
  /\ UNCHANGED <<host, paging, link>>

RequestExpires(a) ==
  /\ ~host.aborted /\ requests[a] = "asked"
  /\ requests' = [requests EXCEPT ![a] = "none"]
  /\ hci' = Append(hci, Complete(a, NoHandle, "failed", "request"))
  /\ UNCHANGED <<host, paging, link, inputs>>

(* Either side disconnects, or the link is lost. *)
LinkEnds(h) ==
  /\ ~host.aborted /\ link[h] # kEmpty /\ Input
  /\ link' = [link EXCEPT ![h] = kEmpty]
  /\ hci' = Append(hci, Event("disconnect", kEmpty, h, "", ""))
  /\ UNCHANGED <<host, paging, requests>>

Next ==
  \/ RunTask \/ RunHci \/ RunClient
  \/ \E ok \in BOOLEAN : ExecuteCreate(ok)
  \/ ExecuteAccept \/ ExecuteReject \/ ExecuteCancel
  \/ \E a \in Address :
       \/ CreateConnection(a) \/ CancelConnect(a)
       \/ PageEnds(a) \/ AcceptEnds(a) \/ PeerRequests(a) \/ RequestExpires(a)
  \/ \E h \in Handle : LinkEnds(h)

Spec == Init /\ [][Next]_vars

(***************************************************************************)
(* Properties.  on_connection_complete tells attempts apart by the address *)
(* only: when a peer calls while it is being called, the end of its own    *)
(* attempt is taken for the end of ours.  What may follow from that is     *)
(* excluded by mistaken: an outgoing queue that stays blocked, a second    *)
(* page, a connection nobody is told of, and the failing assertion.        *)
(***************************************************************************)
Delivered == hci = <<>> /\ host.tasks = <<>> /\ host.client = <<>> /\ host.commands = <<>>
AtRest == Delivered /\ paging = {} /\ \A a \in Address : requests[a] = "none"

(* connections.add finds its handle free, Unregister finds the handle in   *)
(* the scheduler, and no cancelled attempt ends without a matching entry,  *)
(* though disconnections and answers are overtaken by other events; as     *)
(* long as the controller leaves a handle alone until it is forgotten.     *)
NoAssertionFails == host.aborted => host.mistaken

(* Addresses and handles are real ones, and the assertions hold.           *)
Consistent == TypeOK /\ NoAssertionFails

(* dequeue_next_connection sends a create connection command only when the *)
(* controller has finished with the one before, however its answer and its *)
(* completion are ordered with requests, cancellations and other answers.  *)
OneAttempt ==
  host.mistaken \/ paging = {} \/ \A i \in DOMAIN host.commands : host.commands[i][1] # "create"

(* When every event and callback has been delivered, the table of          *)
(* connections and the handles registered with the round robin are the     *)
(* controller's connections: late invalidations by the client's            *)
(* destructors and overtaken disconnections have removed nothing else.     *)
TableAgrees ==
  Delivered /\ ~host.mistaken =>
    /\ host.connections = link
    /\ host.scheduled = {h \in Handle : link[h] # kEmpty}

(* When the controller has nothing under way either, no request waits: the *)
(* address being connected and the set of incoming ones have been reset on *)
(* every path, and each CreateConnection has been answered by a success, a *)
(* failure, or a connection that was there already.                        *)
NothingStuck ==
  AtRest /\ ~host.mistaken =>
    /\ host.outgoing_connecting_address = kEmpty
    /\ host.incoming_connecting_address_set = {}
    /\ host.pending_outgoing_connections = <<>>
    /\ host.unanswered = {}

(* Whatever crossed, in the end the table is right and no request waits.   *)
Settled == TableAgrees /\ NothingStuck

(* on_create_connection_status says of a failure: "something went wrong,   *)
(* but unblock queue and report to caller".  So when nothing is under way  *)
(* any more, nothing keeps dequeue_next_connection from sending.           *)
FailureUnblocks ==
  AtRest => /\ host.outgoing_connecting_address = kEmpty
            /\ host.incoming_connecting_address_set = {}
=============================================================================
