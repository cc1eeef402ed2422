-------------------------- MODULE LeAddressManager --------------------------
(***************************************************************************)
(* LE connections and the address manager they depend on                   *)
(* (system/gd/hci/acl_manager/le_impl.h, hci/le_address_manager.cc, with   *)
(* the entry points of hci/acl_manager.cc): the part both share.           *)
(*                                                                         *)
(* Both run on the handler of the ACL manager, so that a closure runs      *)
(* without interruption, and every operation is a function from the state  *)
(* of the two objects, a record h, to their next state.  h holds also what *)
(* they leave behind: closures posted to the handler (h.tasks) and HCI     *)
(* commands on their way to the controller (h.commands).                   *)
(*                                                                         *)
(* This module has the operations of the address manager; those of its     *)
(* clients that it calls, OnPause and OnResume, and the parts of le_impl   *)
(* they use.  Module LeConnections has the rest and the specification.     *)
(***************************************************************************)
EXTENDS Naturals, Sequences

CONSTANT
  ClientOrder  \* registered_clients_ is ordered by the addresses of the clients

Client == {"le", "scanner"}
ASSUME ClientOrderAssumption == ClientOrder \in {<<"le", "scanner">>, <<"scanner", "le">>}

ClientStates == {"WAITING_FOR_PAUSE", "PAUSED", "WAITING_FOR_RESUME", "RESUMED"}
Absent == "absent"

(* The address of a connection complete event that has none. *)
NoAddress == "no address"

(* address_policy_ has been set: the address is public, or is resolvable   *)
(* and is changed from time to time.                                       *)
Rotating(h) == h.address_policy = "USE_RESOLVABLE_ADDRESS"

Post(h, task) == [h EXCEPT !.tasks = Append(@, task)]
enqueue_command(h, command) == [h EXCEPT !.commands = Append(@, command)]

Registered(h) == {c \in Client : h.registered_clients[c] # Absent}
SetState(h, c, state) == [h EXCEPT !.registered_clients[c] = state]

(***************************************************************************)
(* What le_impl does when the address manager calls it.                    *)
(***************************************************************************)
arm_in_any_state(h) ==
  IF h.connect_list = {} THEN h
  ELSE enqueue_command([h EXCEPT !.connectability_state = "ARMING",
                                 !.connecting_le = h.connect_list],
                       <<"create", NoAddress>>)

arm_connectability(h) ==
  IF h.connectability_state # "DISARMED" \/ h.connect_list = {} THEN h
  ELSE enqueue_command([h EXCEPT !.connectability_state = "ARMING",
                                 !.connecting_le = h.connect_list],
                       <<"create", NoAddress>>)

disarm_connectability(h) ==
  IF h.connectability_state \notin {"ARMED", "ARMING"} THEN h
  ELSE enqueue_command([h EXCEPT !.connectability_state = "DISARMING"],
                       <<"cancel", NoAddress>>)

check_for_unregister(h) ==
  IF /\ h.connections = {} /\ h.connecting_le = {}
     /\ h.address_manager_registered /\ h.ready_to_unregister
  THEN Post([h EXCEPT !.address_manager_registered = FALSE,
                      !.pause_connection = FALSE,
                      !.ready_to_unregister = FALSE],
            <<"unregister_client", "le">>)
  ELSE h

le_OnPause(h) ==
  LET p == [h EXCEPT !.pause_connection = TRUE] IN
    IF p.connectability_state = "DISARMED"
    THEN Post(p, <<"ack_pause", "le">>)
    ELSE disarm_connectability([p EXCEPT !.arm_on_resume = p.connecting_le # {}])

resume_after_clearing(h) ==
  LET p == [h EXCEPT !.pause_connection = FALSE, !.arm_on_resume = FALSE]
  IN check_for_unregister(Post(IF p.arm_on_resume THEN arm_connectability(p) ELSE p,
                               <<"ack_resume", "le">>))

le_OnResume(h) ==
  LET p == [h EXCEPT !.pause_connection = FALSE]
      armed == IF p.arm_on_resume THEN arm_connectability(p) ELSE p
  IN check_for_unregister(Post([armed EXCEPT !.arm_on_resume = FALSE],
                               <<"ack_resume", "le">>))

(***************************************************************************)
(* What the scanning manager does (hci/le_scanning_manager.cc).            *)
(***************************************************************************)
stop_scan(h) ==
  IF ~h.is_scanning THEN h
  ELSE enqueue_command([h EXCEPT !.is_scanning = FALSE], <<"scan_off", NoAddress>>)

start_scan(h) ==
  IF h.scan_paused THEN [h EXCEPT !.scan_on_resume = TRUE]
  ELSE LET g == IF h.scan_registered THEN h ELSE Post(h, <<"register_client", "scanner">>)
       IN enqueue_command([g EXCEPT !.is_scanning = TRUE, !.scan_registered = TRUE],
                          <<"scan_on", NoAddress>>)

(* configure_scan stops a scan first; the parameters are left out. *)
scan(h, start) ==
  IF start THEN start_scan(stop_scan(h))
  ELSE LET g == IF h.scan_registered
                THEN Post([h EXCEPT !.scan_registered = FALSE, !.scan_paused = FALSE],
                          <<"unregister_client", "scanner">>)
                ELSE h
       IN stop_scan(g)

scanner_OnPause(h) ==
  Post(stop_scan([h EXCEPT !.scan_paused = TRUE, !.scan_on_resume = h.is_scanning]),
       <<"ack_pause", "scanner">>)

scanner_OnResume(h) ==
  LET p == [h EXCEPT !.scan_paused = FALSE]
  IN Post(IF p.scan_on_resume THEN start_scan(p) ELSE p, <<"ack_resume", "scanner">>)

OnPause(h, c) == IF c = "le" THEN le_OnPause(h) ELSE scanner_OnPause(h)
OnResume(h, c) == IF c = "le" THEN le_OnResume(h) ELSE scanner_OnResume(h)

(***************************************************************************)
(* The address manager.                                                    *)
(***************************************************************************)
pause_client(h, c) ==
  IF h.registered_clients[c] \in {Absent, "PAUSED", "WAITING_FOR_PAUSE"} THEN h
  ELSE OnPause(SetState(h, c, "WAITING_FOR_PAUSE"), c)
pause_registered_clients(h) == pause_client(pause_client(h, ClientOrder[1]), ClientOrder[2])

set_random_address(h) == enqueue_command(h, <<"set_random_address", NoAddress>>)

AllPaused(h) == \A c \in Registered(h) : h.registered_clients[c] = "PAUSED"

(* handle_next_command asserts that there is a command. *)
NothingToHandle(h) == AllPaused(h) /\ h.cached_commands = <<>>

handle_next_command(h) ==
  IF ~AllPaused(h) THEN h
  ELSE LET command == Head(h.cached_commands)
           g == [h EXCEPT !.cached_commands = Tail(@)]
       IN CASE command[1] = "rotate" -> set_random_address([g EXCEPT !.rotation_alarm = TRUE])
            [] command[1] = "update_irk" -> set_random_address(g)
            [] OTHER -> enqueue_command(g, command)

resume_client(h, c) ==
  IF c \notin Registered(h) THEN h ELSE OnResume(SetState(h, c, "WAITING_FOR_RESUME"), c)
resume_registered_clients(h) ==
  IF h.cached_commands # <<>> THEN handle_next_command(h)
  ELSE resume_client(resume_client(h, ClientOrder[1]), ClientOrder[2])

check_cached_commands(h) ==
  IF ~AllPaused(h) /\ h.cached_commands # <<>> THEN pause_registered_clients(h)
  ELSE IF h.cached_commands = <<>> THEN resume_registered_clients(h)
  ELSE handle_next_command(h)

(* The loop of ack_pause is over copies of the entries: it calls OnPause   *)
(* of a client that does not pause yet, but does not note that it did.     *)
ack_pause(h, c) ==
  IF c \notin Registered(h) THEN h
  ELSE LET g == SetState(h, c, "PAUSED")
           first == IF g.registered_clients[ClientOrder[1]] \in {Absent, "PAUSED"}
                    THEN ClientOrder[2] ELSE ClientOrder[1]
       IN IF AllPaused(g) THEN check_cached_commands(g)
          ELSE IF g.registered_clients[first] = "WAITING_FOR_PAUSE" THEN g
          ELSE OnPause(g, first)

ack_resume(h, c) ==
  IF c \notin Registered(h) THEN h ELSE SetState(h, c, "RESUMED")

(* The first client starts the rotation of the address. *)
register_client(h, c) ==
  LET g == IF c \in Registered(h) THEN h ELSE SetState(h, c, "RESUMED")
  IN IF Rotating(h) /\ Registered(g) = {c} THEN [g EXCEPT !.rotation_alarm = TRUE] ELSE g

unregister_client(h, c) ==
  LET acked == CASE h.registered_clients[c] = "WAITING_FOR_PAUSE" -> ack_pause(h, c)
                 [] h.registered_clients[c] = "WAITING_FOR_RESUME" -> ack_resume(h, c)
                 [] OTHER -> h
      g == SetState(acked, c, Absent)
  IN IF Registered(g) = {} THEN [g EXCEPT !.rotation_alarm = FALSE] ELSE g

push_command(h, command) ==
  [pause_registered_clients(h) EXCEPT !.cached_commands = Append(@, command)]

(* The expiry of address_rotation_alarm_. *)
prepare_to_rotate(h) ==
  pause_registered_clients([h EXCEPT !.cached_commands = Append(@, <<"rotate", NoAddress>>),
                                     !.rotation_alarm = FALSE])

prepare_to_update_irk(h) ==
  LET g == [h EXCEPT !.cached_commands = Append(@, <<"update_irk", NoAddress>>)]
  IN IF Registered(g) = {} THEN handle_next_command(g) ELSE pause_registered_clients(g)

(* Address resolution is off while the resolving list changes. *)
ResolvingCommands ==
  <<<<"resolution_off", NoAddress>>, <<"resolving_list", NoAddress>>,
    <<"resolution_on", NoAddress>>>>

(* AddDeviceToResolvingList and RemoveDeviceFromResolvingList. *)
ChangeResolvingList(h) ==
  Post([h EXCEPT !.cached_commands = @ \o ResolvingCommands],
       <<IF Registered(h) = {} THEN "handle_next_command" ELSE "pause_registered_clients",
         "le">>)

ClearResolvingList(h) ==
  Post([h EXCEPT !.cached_commands = @ \o ResolvingCommands],
       <<"pause_registered_clients", "le">>)

(* Whatever the status of a command is, the next one follows. *)
OnCommandComplete(h) == Post(h, <<"check_cached_commands", "le">>)
=============================================================================
