--------------------------- MODULE LeConnections ---------------------------
(***************************************************************************)
(* LE connections (system/gd/hci/acl_manager/le_impl.h) over the address   *)
(* manager of module LeAddressManager, the entry points of AclManager, and *)
(* a controller.  To change its filter accept list, its resolving list or  *)
(* its address, the controller must not be initiating a connection: the    *)
(* address manager pauses le_impl, which cancels its create connection     *)
(* command, and resumes it when the cached commands are done.              *)
(*                                                                         *)
(* An HCI command is executed, and its answer posted, in one step: the     *)
(* HCI layer keeps the order of both, and a step of the controller may be  *)
(* taken as late as its event is delivered.  Every connection is with a    *)
(* different peer; le_client_callbacks_ is set throughout.                 *)
(***************************************************************************)
EXTENDS LeAddressManager

CONSTANTS
  Address,       \* peers
  MaxInputs      \* bound on the calls of AclManager and of the scanning manager's
                 \* Scan, the expiries of address_rotation_alarm_, and the
                 \* connections and disconnections by the peers

ASSUME LeConnectionsAssumption ==
  /\ NoAddress \notin Address
  /\ MaxInputs \in Nat

VARIABLES
  host,         \* the state of le_impl and of the address manager
  initiating,   \* the controller looks for a peer to connect to
  accept_list,  \* its filter accept list
  connected,    \* peers with a connection
  scanning,     \* the controller scans
  inputs,       \* how many there have been
  rejected,     \* history: clients in whose way a command came
  raced,        \* history: clients that were not held by a pause
  asked,        \* history: direct requests not answered yet
  forgotten     \* history: those of them whose alarm was cancelled all the same

controller == <<initiating, accept_list, connected, scanning, rejected>>
requests == <<asked, forgotten>>
vars == <<host, controller, inputs, raced, requests>>

ConnectabilityState == {"DISARMED", "ARMING", "ARMED", "DISARMING"}

Quiet == host.tasks = <<>> /\ host.commands = <<>>

TypeOK ==
  /\ host.registered_clients \in [Client -> ClientStates \cup {Absent}]
  /\ host.connectability_state \in ConnectabilityState
  /\ host.pause_connection \in BOOLEAN /\ host.arm_on_resume \in BOOLEAN
  /\ host.address_manager_registered \in BOOLEAN
  /\ host.ready_to_unregister \in BOOLEAN /\ host.rotation_alarm \in BOOLEAN
  /\ host.connecting_le \subseteq Address /\ host.direct_connections \subseteq Address
  /\ host.background_connections \subseteq Address
  /\ host.connect_list \subseteq Address /\ host.connections \subseteq Address
  /\ host.timeout_alarms \subseteq Address
  /\ initiating \in BOOLEAN /\ accept_list \subseteq Address
  /\ connected \subseteq Address /\ scanning \in BOOLEAN
  /\ rejected \subseteq Client /\ raced \subseteq Client
  /\ asked \subseteq Address /\ forgotten \subseteq asked

(* The privacy policy has been set, before any client registered.          *)
(* arm_on_resume_ has no initial value.                                    *)
Init ==
  /\ \E arm \in BOOLEAN, policy \in {"USE_PUBLIC_ADDRESS", "USE_RESOLVABLE_ADDRESS"} :
       host = [registered_clients |-> [c \in Client |-> Absent],
               address_policy |-> policy,
               cached_commands |-> <<>>, rotation_alarm |-> FALSE,
               scan_registered |-> FALSE, scan_paused |-> FALSE,
               is_scanning |-> FALSE, scan_on_resume |-> FALSE,
               connectability_state |-> "DISARMED", pause_connection |-> FALSE,
               arm_on_resume |-> arm, address_manager_registered |-> FALSE,
               ready_to_unregister |-> FALSE, connecting_le |-> {},
               direct_connections |-> {}, background_connections |-> {},
               connect_list |-> {}, connections |-> {}, timeout_alarms |-> {},
               tasks |-> IF policy = "USE_PUBLIC_ADDRESS"
                         THEN <<<<"resume_registered_clients", "le">>>> ELSE <<>>,
               commands |-> IF policy = "USE_PUBLIC_ADDRESS" THEN <<>>
                            ELSE <<<<"set_random_address", NoAddress>>>>]
  /\ initiating = FALSE /\ accept_list = {} /\ connected = {} /\ scanning = FALSE
  /\ inputs = 0 /\ rejected = {} /\ raced = {} /\ asked = {} /\ forgotten = {}

(* Something comes from outside. *)
Input == inputs < MaxInputs /\ inputs' = inputs + 1

(***************************************************************************)
(* le_impl.                                                                *)
(***************************************************************************)
register_with_address_manager(h) ==
  IF h.address_manager_registered THEN h
  ELSE Post([h EXCEPT !.address_manager_registered = TRUE, !.pause_connection = TRUE],
            <<"register_client", "le">>)

add_device_to_connect_list(h, a) ==
  IF a \in h.connections \cup h.connect_list THEN h
  ELSE Post(register_with_address_manager([h EXCEPT !.connect_list = @ \cup {a}]),
            <<"push_command", <<"add", a>>>>)

forget_to_remove(h, a) ==
  [h EXCEPT !.connect_list = @ \ {a}, !.connecting_le = @ \ {a},
            !.direct_connections = @ \ {a}]

remove_device_from_connect_list(h, a) ==
  IF a \notin h.connect_list THEN h
  ELSE Post(register_with_address_manager(
              [h EXCEPT !.connect_list = @ \ {a}, !.connecting_le = @ \ {a},
                        !.direct_connections = @ \ {a}]),
            <<"push_command", <<"remove", a>>>>)

clear_connect_list(h) ==
  Post(register_with_address_manager([h EXCEPT !.connect_list = {}]),
       <<"push_command", <<"clear", NoAddress>>>>)

(* Register, when it is create_le_connection that calls it. *)
register_and_pause(h) ==
  IF h.address_manager_registered THEN h
  ELSE Post([h EXCEPT !.address_manager_registered = TRUE,
                      !.pause_connection = @ \/ Rotating(h)],
            <<"register_client", "le">>)

create_without_alarm(h, a, add_to_connect_list, is_direct) ==
  IF a \in h.connections THEN h
  ELSE
    LET g == register_and_pause(
               IF add_to_connect_list THEN add_device_to_connect_list(h, a) ELSE h)
    IN IF add_to_connect_list \/ g.pause_connection THEN [g EXCEPT !.arm_on_resume = TRUE]
       ELSE Post(g, <<"arm_connectability", "le">>)

create_le_connection(h, a, add_to_connect_list, is_direct) ==
  IF a \in h.connections THEN h
  ELSE
    LET listed == IF add_to_connect_list THEN add_device_to_connect_list(h, a) ELSE h
        timed == IF add_to_connect_list /\ is_direct
                 THEN [listed EXCEPT !.direct_connections = @ \cup {a},
                                     !.timeout_alarms = @ \cup {a}]
                 ELSE listed
        g == register_and_pause(timed)
    IN IF g.pause_connection THEN [g EXCEPT !.arm_on_resume = TRUE]
       ELSE IF g.connectability_state \in {"ARMED", "ARMING"} THEN g
       ELSE IF add_to_connect_list THEN [g EXCEPT !.arm_on_resume = TRUE]
       ELSE Post(g, <<"arm_connectability", "le">>)

cancel_connect(h, a) ==
  remove_device_from_connect_list([h EXCEPT !.timeout_alarms = @ \ {a}], a)

on_create_connection_timeout(h, a) ==
  LET g == [h EXCEPT !.timeout_alarms = @ \ {a}]
  IN IF a \in g.background_connections
     THEN disarm_connectability([g EXCEPT !.direct_connections = @ \ {a}])
     ELSE cancel_connect(g, a)

on_create_connection(h, status) ==
  [h EXCEPT !.connectability_state = IF status = "success" THEN "ARMED" ELSE "DISARMED"]

on_create_connection_cancel_complete(h, status) ==
  IF status # "success" /\ h.pause_connection
  THEN Post(h, <<"ack_pause", "le">>) ELSE h

on_le_connection_canceled_on_pause(h) ==
  Post([h EXCEPT !.arm_on_resume = TRUE], <<"ack_pause", "le">>)

(* The end of on_le_connection_complete: the connection is there, unless   *)
(* check_connection_parameters finds fault with it.                        *)
add_connection(h, status, a) ==
  IF status = "invalid_parameters" THEN h ELSE [h EXCEPT !.connections = @ \cup {a}]

(* on_le_connection_complete and on_le_enhanced_connection_complete in the *)
(* central role.                                                           *)
on_central_connection_complete(h, status, a) ==
  LET g == [h EXCEPT !.connectability_state = "DISARMED"]
      common == [g EXCEPT !.connecting_le = {}, !.timeout_alarms = @ \ {a}]
      removed == remove_device_from_connect_list(
                   [common EXCEPT !.arm_on_resume = FALSE, !.ready_to_unregister = TRUE], a)
      again == IF removed.connect_list = {} THEN removed
               ELSE Post(removed, <<"create_le_connection", <<NoAddress, FALSE, FALSE>>>>)
  IN IF status = "unknown_connection" /\ g.pause_connection
     THEN on_le_connection_canceled_on_pause(g)
     ELSE IF status = "unknown_connection" THEN create_le_connection(common, a, FALSE, FALSE)
     ELSE IF status = "failed" THEN again ELSE add_connection(again, status, a)

(* The same in the peripheral role, where only successes do anything. *)
on_peripheral_connection_complete(h, status, a) ==
  LET g == IF a \in h.connect_list
           THEN remove_device_from_connect_list([h EXCEPT !.timeout_alarms = @ \ {a}], a)
           ELSE h
  IN add_connection(g, status, a)

(* A connection that was not added has no address. *)
on_le_disconnect(h, a) ==
  LET g == [h EXCEPT !.connections = @ \ {a}]
  IN IF a \in h.connections \cap h.background_connections
     THEN add_device_to_connect_list([g EXCEPT !.arm_on_resume = TRUE], a) ELSE g

(***************************************************************************)
(* The handler runs the closure at the head of its queue.                  *)
(***************************************************************************)
Execute(h, do, arg) ==
  CASE do = "register_client" -> register_client(h, arg)
    [] do = "unregister_client" -> unregister_client(h, arg)
    [] do = "ack_pause" -> ack_pause(h, arg)
    [] do = "ack_resume" -> ack_resume(h, arg)
    [] do = "push_command" -> push_command(h, arg)
    [] do = "pause_registered_clients" -> pause_registered_clients(h)
    [] do = "resume_registered_clients" -> resume_registered_clients(h)
    [] do = "handle_next_command" -> handle_next_command(h)
    [] do = "check_cached_commands" -> check_cached_commands(h)
    [] do = "set_privacy_policy" -> Post(h, <<"prepare_to_update_irk", "le">>)
    [] do = "prepare_to_update_irk" -> prepare_to_update_irk(h)
    [] do = "arm_connectability" -> arm_connectability(h)
    [] do = "create_le_connection" -> create_le_connection(h, arg[1], arg[2], arg[3])
    [] do = "cancel_and_remove" ->
         cancel_connect([h EXCEPT !.background_connections = @ \ {arg}], arg)
    [] do = "add_to_background" -> [h EXCEPT !.background_connections = @ \cup {arg}]
    [] do = "remove_from_background" -> [h EXCEPT !.background_connections = @ \ {arg}]
    [] do = "remove_device_from_connect_list" -> remove_device_from_connect_list(h, arg)
    [] do = "clear_connect_list" -> clear_connect_list(h)
    [] do = "change_resolving_list" -> ChangeResolvingList(register_with_address_manager(h))
    [] do = "clear_resolving_list" -> ClearResolvingList(h)
    [] do = "OnCommandComplete" -> OnCommandComplete(h)
    [] do = "on_create_connection" -> on_create_connection(h, arg)
    [] do = "on_cancel_complete" -> on_create_connection_cancel_complete(h, arg)
    [] do = "central" -> on_central_connection_complete(h, arg[1], arg[2])
    [] do = "peripheral" -> on_peripheral_connection_complete(h, "success", arg)
    [] do = "peripheral_invalid" ->
         on_peripheral_connection_complete(h, "invalid_parameters", arg)
    [] do = "disconnect" -> on_le_disconnect(h, arg)

(* Direct requests that a closure answers, with OnLeConnectSuccess or      *)
(* OnLeConnectFail, or withdraws.                                          *)
Answered(do, arg) ==
  CASE do = "central" /\ arg[1] \in {"success", "failed"} -> {arg[2]}
    [] do \in {"peripheral", "cancel_and_remove"} -> {arg}
    [] OTHER -> {}

Asks(h, do, arg) ==
  {a \in Address : /\ do = "create_le_connection" /\ arg = <<a, TRUE, TRUE>>
                   /\ a \notin h.connections}

(* Requests whose alarm a closure cancels without an answer: the event of  *)
(* a cancelled attempt names the device, or the parameters of its          *)
(* connection are invalid.                                                 *)
Forgets(h, do, arg) ==
  {a \in Address :
     \/ /\ do = "central" /\ arg[2] = a
        /\ \/ arg[1] = "invalid_parameters"
           \/ arg[1] = "unknown_connection" /\ ~h.pause_connection
     \/ do = "peripheral_invalid" /\ arg = a /\ a \in h.connect_list}

(* Clients that a closure lets go on although the address manager counts   *)
(* on their pause: arm_connectability runs while le_impl is held; an       *)
(* acknowledgement of an earlier pause is taken for the latest; le_impl    *)
(* unregisters while it connects.                                          *)
Armed(h) == h.connectability_state \in {"ARMING", "ARMED"}
Races(h, do, arg) ==
  {c \in Client :
     \/ /\ do = "arm_connectability" /\ c = "le"
        /\ \/ h.pause_connection
           \/ h.registered_clients[c] \notin {"RESUMED", "WAITING_FOR_RESUME"}
     \/ /\ do = "ack_pause" /\ c = arg /\ c \in Registered(h)
        /\ IF c = "le" THEN Armed(h) ELSE ~h.scan_paused
     \/ /\ do = "unregister_client" /\ c = arg /\ c = "le"
        /\ Armed(h) \/ Armed(unregister_client(h, c))}

(* A closure whose assertion fails ends the program. *)
RunTask ==
  /\ host.tasks # <<>>
  /\ LET task == Head(host.tasks)
         h == [host EXCEPT !.tasks = Tail(@)]
     IN /\ ~(task[1] = "handle_next_command" /\ NothingToHandle(h))
        /\ host' = Execute(h, task[1], task[2])
        /\ asked' = (asked \cup Asks(h, task[1], task[2])) \ Answered(task[1], task[2])
        /\ forgotten' = ((forgotten \ Asks(h, task[1], task[2]))
                           \cup Forgets(h, task[1], task[2])) \cap asked'
        /\ raced' = raced \cup Races(h, task[1], task[2])
  /\ UNCHANGED <<controller, inputs>>

(***************************************************************************)
(* Alarms, whose tasks run in the same thread.                             *)
(***************************************************************************)
CreateConnectionTimeout(a) ==
  /\ a \in host.timeout_alarms
  /\ host' = on_create_connection_timeout(host, a)
  /\ asked' = asked \ {a} /\ forgotten' = forgotten \ {a}
  /\ UNCHANGED <<controller, inputs, raced>>

RotationTimeout ==
  /\ host.rotation_alarm /\ Input
  /\ host' = prepare_to_rotate(host)
  /\ UNCHANGED <<controller, raced, requests>>

(***************************************************************************)
(* AclManager: what each entry point posts.                                *)
(***************************************************************************)
Call(tasks) ==
  /\ Input
  /\ host' = [host EXCEPT !.tasks = @ \o tasks]
  /\ UNCHANGED <<controller, raced, requests>>

CreateLeConnection(a, is_direct) ==
  Call((IF is_direct THEN <<>> ELSE <<<<"add_to_background", a>>>>)
         \o <<<<"create_le_connection", <<a, TRUE, is_direct>>>>>>)

CancelLeConnectAndRemoveFromBackgroundList(a) ==
  Call(<<<<"cancel_and_remove", a>>>>)
RemoveFromBackgroundList(a) == Call(<<<<"remove_from_background", a>>>>)
RemoveDeviceFromFilterAcceptList(a) == Call(<<<<"remove_device_from_connect_list", a>>>>)
ClearFilterAcceptList == Call(<<<<"clear_connect_list", NoAddress>>>>)
ChangeAclResolvingList == Call(<<<<"change_resolving_list", NoAddress>>>>)
ClearAclResolvingList == Call(<<<<"clear_resolving_list", NoAddress>>>>)
SetPrivacyPolicyForInitiatorAddress ==
  Rotating(host) /\ Call(<<<<"set_privacy_policy", NoAddress>>>>)

AclManager ==
  \/ \E a \in Address :
       \/ \E is_direct \in BOOLEAN : CreateLeConnection(a, is_direct)
       \/ CancelLeConnectAndRemoveFromBackgroundList(a) \/ RemoveFromBackgroundList(a)
       \/ RemoveDeviceFromFilterAcceptList(a)
  \/ ClearFilterAcceptList \/ ChangeAclResolvingList \/ ClearAclResolvingList
  \/ SetPrivacyPolicyForInitiatorAddress

(* LeScanningManager::Scan, in the handler of that module. *)
Scan(start) ==
  /\ Input
  /\ host' = scan(host, start)
  /\ raced' = IF /\ host'.scan_registered # host.scan_registered
                 /\ ~(Quiet /\ host.cached_commands = <<>>)
              THEN raced \cup {"scanner"} ELSE raced
  /\ UNCHANGED <<controller, requests>>

(***************************************************************************)
(* The controller.                                                         *)
(***************************************************************************)
command == Head(host.commands)
WithEvents(tasks) == [host EXCEPT !.commands = Tail(@), !.tasks = @ \o tasks]
Unbusy == UNCHANGED <<inputs, raced, requests>>

ExecuteCreate ==
  /\ host.commands # <<>> /\ command[1] = "create"
  /\ host' = WithEvents(<<<<"on_create_connection",
                            IF initiating THEN "disallowed" ELSE "success">>>>)
  /\ initiating' = TRUE
  /\ rejected' = IF initiating THEN rejected \cup {"le"} ELSE rejected
  /\ UNCHANGED <<accept_list, connected, scanning>> /\ Unbusy

(* Cancelling ends with a connection complete event of its own, in which   *)
(* some controllers name a device they were looking for.                   *)
ExecuteCancel(a) ==
  /\ host.commands # <<>> /\ command[1] = "cancel"
  /\ host' = WithEvents(
       IF initiating
       THEN <<<<"on_cancel_complete", "success">>,
              <<"central", <<"unknown_connection", a>>>>>>
       ELSE <<<<"on_cancel_complete", "disallowed">>>>)
  /\ initiating' = FALSE
  /\ UNCHANGED <<accept_list, connected, scanning, rejected>> /\ Unbusy

ExecuteScan ==
  /\ host.commands # <<>> /\ command[1] \in {"scan_on", "scan_off"}
  /\ host' = WithEvents(<<>>)
  /\ scanning' = (command[1] = "scan_on")
  /\ UNCHANGED <<initiating, accept_list, connected, rejected>> /\ Unbusy

(* Lists and addresses change only when the controller is not using them. *)
ExecuteList ==
  /\ host.commands # <<>>
  /\ command[1] \notin {"create", "cancel", "scan_on", "scan_off"}
  /\ host' = WithEvents(<<<<"OnCommandComplete", NoAddress>>>>)
  /\ LET busy == initiating \/ (scanning /\ command[1] \notin {"add", "remove", "clear"})
     IN
       /\ rejected' = rejected \cup {c \in Client : busy /\ (c = "le") = initiating}
       /\ accept_list' = CASE busy -> accept_list
                           [] command[1] = "add" -> accept_list \cup {command[2]}
                           [] command[1] = "remove" -> accept_list \ {command[2]}
                           [] command[1] = "clear" -> {}
                           [] OTHER -> accept_list
  /\ UNCHANGED <<initiating, connected, scanning>> /\ Unbusy

(* A peer on the accept list answers; the connection may then fail, and    *)
(* its parameters may be invalid.                                          *)
ConnectionComplete(a, status) ==
  /\ initiating /\ a \in accept_list \ connected /\ Input
  /\ initiating' = FALSE
  /\ connected' = IF status = "failed" THEN connected ELSE connected \cup {a}
  /\ host' = Post(host, <<"central", <<status, a>>>>)
  /\ UNCHANGED <<accept_list, scanning, rejected, raced, requests>>

PeerConnects(a, event) ==
  /\ a \notin connected /\ Input
  /\ connected' = connected \cup {a}
  /\ host' = Post(host, <<event, a>>)
  /\ UNCHANGED <<initiating, accept_list, scanning, rejected, raced, requests>>

PeerDisconnects(a) ==
  /\ a \in connected /\ Input
  /\ connected' = connected \ {a}
  /\ host' = Post(host, <<"disconnect", a>>)
  /\ UNCHANGED <<initiating, accept_list, scanning, rejected, raced, requests>>

Controller ==
  \/ ExecuteCreate \/ ExecuteScan \/ ExecuteList
  \/ \E a \in accept_list \cup {NoAddress} : ExecuteCancel(a)

Next ==
  \/ \E start \in BOOLEAN : Scan(start)
  \/ RunTask \/ Controller \/ AclManager \/ RotationTimeout
  \/ \E a \in Address : CreateConnectionTimeout(a) \/ PeerDisconnects(a)
  \/ \E a \in Address, event \in {"peripheral", "peripheral_invalid"} : PeerConnects(a, event)
  \/ \E a \in Address, status \in {"success", "failed", "invalid_parameters"} :
       ConnectionComplete(a, status)

Spec == Init /\ [][Next]_vars

(***************************************************************************)
(* Properties.  What escapes the address manager is recorded in raced:     *)
(* arm_connectability is posted, and does not look again whether the       *)
(* connection is paused when it runs; an acknowledgement does not say      *)
(* which pause it is for; le_impl unregisters by a posted closure while it *)
(* may connect again; and so does the scanner while others are pausing or  *)
(* paused.                                                                 *)
(***************************************************************************)

(* le_impl::OnPause and the scanner's OnPause acknowledge only when the    *)
(* controller has stopped, and arm_connectability looks at the state: no   *)
(* command that changes a list or the address, and no second create        *)
(* connection command, reaches the controller while it initiates, and no   *)
(* command that changes the address while it scans.                        *)
NeverRejected == rejected \subseteq raced

(* A list after commands: the last one about a decides. *)
Changes(c, a) == c[1] = "clear" \/ (c[1] \in {"add", "remove"} /\ c[2] = a)
Apply(list, commands) ==
  {a \in Address :
     \/ a \in list /\ \A i \in DOMAIN commands : ~Changes(commands[i], a)
     \/ \E i \in DOMAIN commands :
          commands[i] = <<"add", a>> /\ \A j \in DOMAIN commands : Changes(commands[j], a) => j <= i}
Pushed ==
  [i \in DOMAIN host.tasks |->
     IF host.tasks[i][1] = "push_command" THEN host.tasks[i][2] ELSE <<"none", NoAddress>>]

(* connect_list, which le_impl keeps, is what the filter accept list of    *)
(* the controller will be once the commands on their way, those cached and *)
(* those posted have been executed in that order, whatever comes between.  *)
NothingLost ==
  "le" \notin rejected =>
    Apply(accept_list, host.commands \o host.cached_commands \o Pushed) = host.connect_list

(* The state is well formed and le_impl's list is the controller's to be.  *)
ListsAgree == TypeOK /\ NothingLost

AtRest == Quiet /\ raced = {}

(* Every client that pause_registered_clients or ack_pause pauses is       *)
(* resumed by resume_registered_clients before the handler is idle, and    *)
(* the scanner's is_paused is reset with it: no acknowledgement, and no    *)
(* command that would bring the next step, is lost on the way.             *)
ClientsResumed ==
  AtRest =>
    /\ \A c \in Registered(host) : host.registered_clients[c] = "RESUMED"
    /\ host.scan_registered => ~host.scan_paused

(* So is le_impl's pause_connection, unless commands are cached with no    *)
(* one to pause for them.                                                  *)
ConnectionResumed ==
  AtRest /\ host.cached_commands = <<>> /\ host.address_manager_registered
    => ~host.pause_connection

(* When the handler is idle connectability_state_ says what the controller *)
(* does, though cancel, create and connection complete cross each other.   *)
StateAgrees ==
  AtRest => host.connectability_state = IF initiating THEN "ARMED" ELSE "DISARMED"

(* A device that is asked for, directly or in the background, and is on    *)
(* the list, is being connected to whenever the handler is idle: no order  *)
(* of pauses, cancellations and failures leaves arm_on_resume_ unset.      *)
WantedIsSought ==
  AtRest /\ host.cached_commands = <<>>
         /\ (asked \cup host.background_connections) \cap host.connect_list # {}
    => initiating

(* Whenever the handler is idle the pauses, the state machine and what was *)
(* asked for are settled.                                                  *)
Settled == ClientsResumed /\ ConnectionResumed /\ StateAgrees /\ WantedIsSought

(* handle_next_command of the address manager says: "make sure all client  *)
(* paused, if not, this function will be trigger again by ack_pause".  So  *)
(* when nothing is under way no command waits for a client to pause.       *)
TriggeredAgain == Quiet /\ ~AllPaused(host) => host.cached_commands = <<>>

(* A direct connection that create_le_connection accepts and that is not   *)
(* answered or cancelled has its alarm, which will report a failure: the   *)
(* alarm outlives lists cleared, pauses and attempts cancelled for others. *)
(* Only the event of its own attempt takes the alarm without an answer,    *)
(* when it names the device of a cancelled attempt or when the parameters  *)
(* of the connection are invalid.                                          *)
EveryRequestTimed == asked \subseteq host.timeout_alarms \cup forgotten

(* Not so for every request: on_le_connection_complete cancels the alarm   *)
(* and then returns, without a callback, when the parameters are invalid,  *)
(* or when a cancelled attempt names the device.                           *)
NoneForgotten == asked \subseteq host.timeout_alarms

(* Not so in every order: an arm_connectability posted before the pause    *)
(* runs after it, and the address changes while the controller initiates.  *)
PauseHolds == "le" \notin rejected
=============================================================================
