-------------------------------- MODULE Ertm --------------------------------
(***************************************************************************)
(* L2CAP enhanced retransmission mode (system/gd/l2cap/internal/           *)
(* enhanced_retransmission_mode_channel_data_controller.cc): two           *)
(* ErtmControllers over a link that keeps the order of frames but may lose *)
(* them, each with its retransmission and monitor timers.                  *)
(*                                                                         *)
(* A controller is a record d, and every operation a function from it to   *)
(* its next value; d.out holds the frames of this step.  kMaxTxWin is 64   *)
(* in the code and a parameter here; uint8_t has four times as many        *)
(* values.  An SDU is the sequence of its segments' payloads and its size  *)
(* is their number.  Neither end sends SREJ (kSendSrej), so that recv_srej *)
(* is left out.  CloseChannel ends the behaviour: the disconnection that   *)
(* it requests is the signalling manager's.                                *)
(***************************************************************************)
EXTENDS Integers, Sequences, SequencesExt

CONSTANTS
  kMaxTxWin,          \* sequence numbers are modulo this
  local_tx_window,    \* 10 in the code
  remote_tx_window,   \* what the peer's configuration says
  max_transmit,       \* local_max_transmit_
  BusyThreshold,      \* kEnqueueBufferBusyThreshold
  MaxSegments,        \* MaxSegments[e]: bound on the segments of an SDU of e
  MaxSdus,            \* MaxSdus[e]: bound on the SDUs that e sends
  MaxInFlight         \* frames on the link in one direction; more are lost

End == {"A", "B"}
Peer(e) == IF e = "A" THEN "B" ELSE "A"

ASSUME ErtmAssumption ==
  /\ kMaxTxWin \in Nat \ {0} /\ local_tx_window \in 1..kMaxTxWin
  /\ remote_tx_window \in 1..(kMaxTxWin - 1) /\ max_transmit \in Nat
  /\ BusyThreshold \in Nat \ {0} /\ MaxSegments \in [End -> Nat \ {0}]
  /\ MaxSdus \in [End -> Nat] /\ MaxInFlight \in Nat \ {0}

VARIABLES
  ertm,       \* the two controllers
  link,       \* link[e]: frames on their way to e
  sent,       \* history: the SDUs that each end was given
  delivered,  \* history: the SDUs that each end has handed over
  been_busy   \* history: the ends that have been locally busy

vars == <<ertm, link, sent, delivered, been_busy>>

Seqs == 0..(kMaxTxWin - 1)
Sar == {"UNSEGMENTED", "START", "CONTINUATION", "END"}

(* What of a frame matters to a receiver. *)
SFrame(s, p, f, req_seq) == [kind |-> s, p |-> p, f |-> f, req_seq |-> req_seq]
IFrame(f, tx_seq, req_seq, segment) ==
  [kind |-> "I", f |-> f, tx_seq |-> tx_seq, req_seq |-> req_seq, segment |-> segment]

Controller ==
  [tx_state |-> "XMIT", rx_state |-> "RECV",
   next_tx_seq |-> 0, expected_ack_seq |-> 0, expected_tx_seq |-> 0, buffer_seq |-> 0,
   remote_busy |-> FALSE, local_busy |-> FALSE, unacked_frames |-> 0,
   unacked_list |-> <<>>, pending_frames |-> <<>>,
   retry_count |-> 0, retry_i_frames |-> [i \in Seqs |-> 0],
   rnr_sent |-> FALSE, rej_actioned |-> FALSE,
   retrans_timer |-> FALSE, monitor_timer |-> FALSE,
   sar_state |-> "END", reassembly |-> <<>>, remaining |-> 0,
   enqueue_buffer |-> <<>>, on_empty |-> FALSE,
   out |-> <<>>, closed |-> "no"]

Init ==
  /\ ertm = [e \in End |-> Controller] /\ link = [e \in End |-> <<>>]
  /\ sent = [e \in End |-> <<>>] /\ delivered = [e \in End |-> <<>>]
  /\ been_busy = {}

CloseChannel(d, why) == IF d.closed = "no" THEN [d EXCEPT !.closed = why] ELSE d
send_pdu(d, frame) == [d EXCEPT !.out = Append(@, frame)]

(***************************************************************************)
(* Conditions.                                                             *)
(***************************************************************************)
uint8(x) == x % (4 * kMaxTxWin)

sequence_less_than(x, y) == x < y \/ kMaxTxWin - (x - y) < local_tx_window
sequence_less_than_or_equal(x, y) == x <= y \/ kMaxTxWin - (x - y) <= local_tx_window

with_valid_req_seq(d, req_seq) ==
  /\ sequence_less_than_or_equal(d.expected_ack_seq, req_seq)
  /\ sequence_less_than_or_equal(req_seq, d.next_tx_seq)
(* Mutant: the next frame to send cannot be asked for. *)
invalid_unless_sent(d, req_seq) ==
  \/ sequence_less_than(req_seq, d.expected_ack_seq)
  \/ sequence_less_than_or_equal(d.next_tx_seq, req_seq)

with_invalid_req_seq(d, req_seq) ==
  sequence_less_than(req_seq, d.expected_ack_seq) \/ sequence_less_than(d.next_tx_seq, req_seq)

(* Set exactly when it is waited for. *)
with_valid_f_bit(d, f) == f = (d.tx_state = "WAIT_F")

with_unexpected_tx_seq(d, tx_seq) ==
  /\ sequence_less_than(d.expected_tx_seq, tx_seq)
  /\ sequence_less_than_or_equal(tx_seq, uint8(d.expected_tx_seq + local_tx_window))
with_duplicate_tx_seq(d, tx_seq) ==
  /\ sequence_less_than(tx_seq, d.expected_tx_seq)
  /\ sequence_less_than_or_equal(uint8(d.expected_tx_seq - local_tx_window), tx_seq)
with_invalid_tx_seq(d, tx_seq) ==
  \/ sequence_less_than(tx_seq, uint8(d.expected_tx_seq - local_tx_window))
  \/ sequence_less_than(uint8(d.expected_tx_seq + local_tx_window), tx_seq)

rem_window_not_full(d) == d.unacked_frames < remote_tx_window

(***************************************************************************)
(* Actions of the transmitter.                                             *)
(***************************************************************************)

(* unacked_list_ keeps the entry it has for a sequence number, and the     *)
(* payload of the frame is the one in the list.                            *)
send_data(d, segment, f) ==
  LET i == d.next_tx_seq
      list == IF i \in DOMAIN d.unacked_list THEN d.unacked_list
              ELSE [k \in DOMAIN d.unacked_list \cup {i} |->
                      IF k = i THEN segment ELSE d.unacked_list[k]]
      frame == IFrame(f, i, d.buffer_seq, [segment EXCEPT !.payload = list[i].payload])
  IN [send_pdu(d, frame) EXCEPT
        !.unacked_list = list, !.unacked_frames = @ + 1, !.retry_i_frames[i] = 1,
        !.next_tx_seq = (@ + 1) % kMaxTxWin, !.retrans_timer = TRUE]

send_pending_i_frames(d, f) ==
  IF d.tx_state = "WAIT_F" THEN d
  ELSE LET room == remote_tx_window - d.unacked_frames
           n == IF room < Len(d.pending_frames) THEN room ELSE Len(d.pending_frames)
       IN FoldLeft(LAMBDA g, k : [send_data(g, Head(g.pending_frames), f /\ k = 1)
                                    EXCEPT !.pending_frames = Tail(@)],
                   d, [k \in 1..n |-> k])

data_request(d, segment) ==
  IF d.tx_state = "XMIT" /\ ~d.remote_busy /\ rem_window_not_full(d)
  THEN send_data(d, segment, FALSE)
  ELSE [d EXCEPT !.pending_frames = Append(@, segment)]

(* Mutant: an acknowledgement counts for one frame. *)
process_one_frame(d, req_seq) ==
  LET gone == d.expected_ack_seq..(req_seq - 1)
      n == IF gone = {} THEN 0 ELSE 1
  IN [d EXCEPT !.unacked_list = [k \in DOMAIN @ \ gone |-> @[k]],
               !.unacked_frames = @ - n, !.expected_ack_seq = req_seq,
               !.retrans_timer = @ /\ d.unacked_frames # n]

(* The loop goes up from expected_ack_seq_ and does not wrap. *)
process_req_seq(d, req_seq) ==
  LET gone == d.expected_ack_seq..(req_seq - 1)
      g == [d EXCEPT
              !.unacked_list = [k \in DOMAIN @ \ gone |-> @[k]],
              !.retry_i_frames = [k \in Seqs |-> IF k \in gone THEN 0 ELSE @[k]],
              !.unacked_frames = @ - ((req_seq - d.expected_ack_seq) % kMaxTxWin),
              !.expected_ack_seq = req_seq]
  IN [g EXCEPT !.retrans_timer = @ /\ g.unacked_frames # 0]

pass_to_tx(d, req_seq, f) ==
  LET g == process_req_seq(d, req_seq)
  IN IF d.tx_state = "WAIT_F" /\ f
     THEN [g EXCEPT !.monitor_timer = FALSE, !.tx_state = "XMIT",
                    !.retrans_timer = @ \/ g.unacked_frames > 0]
     ELSE g

(* From req_seq on, as far as the list goes without a gap and not past the *)
(* largest sequence number, until a frame that was sent too often.         *)
retransmit_i_frames(d, req_seq, f) ==
  LET run == {i \in DOMAIN d.unacked_list :
                i >= req_seq /\ req_seq..i \subseteq DOMAIN d.unacked_list}
      spent == {i \in run : d.retry_i_frames[i] = max_transmit}
      again == {i \in run : \A k \in spent : i < k}
      g == FoldLeft(LAMBDA h, i :
                      [send_pdu(h, IFrame(f /\ i = req_seq, i, h.buffer_seq, h.unacked_list[i]))
                         EXCEPT !.retry_i_frames[i] = @ + 1],
                    d, SetToSortSeq(again, LAMBDA x, y : x < y))
  IN IF spent # {} THEN CloseChannel(g, "max_transmit")
     ELSE [g EXCEPT !.retrans_timer = @ \/ run # {}]

(***************************************************************************)
(* Actions of the receiver.                                                *)
(***************************************************************************)
send_rr(d, p, f) == send_pdu(d, SFrame("RR", p, f, d.expected_tx_seq))
send_rnr(d, f) == [send_pdu(d, SFrame("RNR", FALSE, f, d.expected_tx_seq)) EXCEPT !.rnr_sent = TRUE]
send_rej(d) == send_pdu(d, SFrame("REJ", FALSE, FALSE, d.expected_tx_seq))
send_rr_or_rnr(d, p, f) ==
  send_pdu(d, SFrame(IF d.local_busy THEN "RNR" ELSE "RR", p, f, d.buffer_seq))

start_timer_if_busy(d) ==
  [d EXCEPT !.retrans_timer = @ \/ (d.remote_busy /\ d.unacked_frames > 0),
            !.remote_busy = FALSE]

send_i_or_rr_or_rnr(d) ==
  LET g == send_pending_i_frames(
             start_timer_if_busy(IF d.local_busy THEN send_rnr(d, TRUE) ELSE d), TRUE)
  IN IF g.local_busy THEN g ELSE send_rr(g, FALSE, TRUE)

send_ack(d) ==
  IF d.local_busy THEN send_rnr(d, FALSE)
  ELSE IF ~d.remote_busy /\ d.pending_frames # <<>> /\ rem_window_not_full(d)
  THEN send_pending_i_frames(d, FALSE)
  ELSE send_rr(d, FALSE, FALSE)

Enqueue(d, sdu) ==
  LET g == [d EXCEPT !.enqueue_buffer = Append(@, sdu)]
  IN IF Len(g.enqueue_buffer) # BusyThreshold THEN g
     ELSE [g EXCEPT !.local_busy = TRUE, !.on_empty = TRUE,
                    !.closed = IF d.on_empty THEN "assertion" ELSE @]

(* Mutant: a START frame does not empty the stage. *)
keep_staged(d, segment) ==
  LET whole == d.reassembly \o segment.payload
  IN CASE segment.sar = "UNSEGMENTED" -> Enqueue(d, segment.payload)
       [] segment.sar \in {"START", "CONTINUATION"} ->
            [d EXCEPT !.sar_state = "START", !.reassembly = whole]
       [] segment.sar = "END" -> Enqueue([d EXCEPT !.sar_state = "END", !.reassembly = whole], whole)

stage_for_reassembly(d, segment) ==
  LET first == segment.sar \in {"UNSEGMENTED", "START"}
      left == d.remaining - 1
      whole == d.reassembly \o segment.payload
  IN IF first # (d.sar_state = "END") THEN CloseChannel(d, "SAR")
     ELSE CASE segment.sar = "UNSEGMENTED" -> Enqueue(d, segment.payload)
            [] segment.sar = "START" ->
                 [d EXCEPT !.sar_state = "START", !.reassembly = segment.payload,
                           !.remaining = segment.sdu_size - 1]
            [] segment.sar = "CONTINUATION" ->
                 [d EXCEPT !.reassembly = whole, !.remaining = left]
            [] segment.sar = "END" /\ left # 0 ->
                 CloseChannel([d EXCEPT !.sar_state = "END", !.remaining = 0,
                                        !.reassembly = <<>>], "SAR")
            [] segment.sar = "END" /\ left = 0 ->
                 Enqueue([d EXCEPT !.sar_state = "END", !.reassembly = whole,
                                   !.remaining = 0], whole)

data_indication(d, segment) ==
  [stage_for_reassembly(d, segment) EXCEPT !.buffer_seq = (@ + 1) % kMaxTxWin]

(***************************************************************************)
(* Events of the receiver.                                                 *)
(***************************************************************************)

(* An answer to a poll: retransmit, unless a REJ has seen to it. *)
retransmit_unless_actioned(d, req_seq, f) ==
  IF d.rej_actioned THEN [d EXCEPT !.rej_actioned = FALSE]
  ELSE retransmit_i_frames(d, req_seq, f)

accept(d, frame) ==
  LET g == data_indication(
             pass_to_tx([d EXCEPT !.expected_tx_seq = (@ + 1) % kMaxTxWin],
                        frame.req_seq, frame.f), frame.segment)
      answered == IF ~frame.f THEN g
                  ELSE IF g.rej_actioned THEN [g EXCEPT !.rej_actioned = FALSE]
                  ELSE send_pending_i_frames(retransmit_i_frames(g, frame.req_seq, FALSE), FALSE)
  IN [send_ack(answered) EXCEPT !.rx_state = "RECV"]

recv_i_frame(d, frame) ==
  LET ok == with_valid_req_seq(d, frame.req_seq) /\ with_valid_f_bit(d, frame.f)
      expected == frame.tx_seq = d.expected_tx_seq
      passed == pass_to_tx(d, frame.req_seq, frame.f)
  IN IF d.rx_state = "RECV"
     THEN CASE ok /\ expected /\ ~d.local_busy -> accept(d, frame)
            [] ok /\ ~expected /\ ~d.local_busy
                  /\ with_duplicate_tx_seq(d, frame.tx_seq) -> passed
            [] ok /\ ~expected /\ ~d.local_busy
                  /\ ~with_duplicate_tx_seq(d, frame.tx_seq)
                  /\ with_unexpected_tx_seq(d, frame.tx_seq) ->
                 [send_rej(passed) EXCEPT !.rx_state = "REJ_SENT"]
            [] ok /\ d.local_busy /\ (expected \/ ~with_invalid_tx_seq(d, frame.tx_seq)) -> passed
            [] OTHER ->
                 IF \/ with_invalid_tx_seq(d, frame.tx_seq) /\ local_tx_window > kMaxTxWin \div 2
                    \/ with_invalid_req_seq(d, frame.req_seq)
                 THEN CloseChannel(d, "sequence") ELSE d
     ELSE IF ok /\ expected THEN accept(d, frame)
     ELSE IF ok /\ with_unexpected_tx_seq(d, frame.tx_seq) THEN passed ELSE d

(* In REJ_SENT a poll is answered, and an acknowledgement acknowledged,    *)
(* without sending pending frames.                                         *)
recv_rr(d, frame) ==
  LET ok == with_valid_req_seq(d, frame.req_seq) /\ with_valid_f_bit(d, frame.f)
      passed == pass_to_tx(d, frame.req_seq, frame.f)
      recv == d.rx_state = "RECV"
  IN CASE ok /\ frame.f ->
            send_pending_i_frames(
              retransmit_unless_actioned(
                pass_to_tx([d EXCEPT !.remote_busy = FALSE], frame.req_seq, TRUE),
                frame.req_seq, frame.p), FALSE)
       [] ok /\ ~frame.f /\ ~frame.p ->
            IF recv THEN send_pending_i_frames(start_timer_if_busy(passed), FALSE)
            ELSE send_ack(start_timer_if_busy(passed))
       [] ok /\ ~frame.f /\ frame.p ->
            IF recv THEN send_i_or_rr_or_rnr(passed)
            ELSE send_rr(start_timer_if_busy(passed), FALSE, TRUE)
       [] OTHER -> IF with_invalid_req_seq(d, frame.req_seq) THEN CloseChannel(d, "sequence") ELSE d

recv_rej(d, frame) ==
  LET valid == with_valid_req_seq(d, frame.req_seq)
      allowed == d.retry_i_frames[frame.req_seq] < max_transmit
      passed == pass_to_tx([d EXCEPT !.remote_busy = FALSE], frame.req_seq, frame.f)
      again == IF frame.f THEN retransmit_unless_actioned(passed, frame.req_seq, frame.p)
               ELSE retransmit_i_frames(passed, frame.req_seq, frame.p)
      pending == send_pending_i_frames(again, FALSE)
  IN CASE valid /\ allowed /\ with_valid_f_bit(d, frame.f) ->
            IF ~frame.f /\ pending.tx_state = "WAIT_F"
            THEN [pending EXCEPT !.rej_actioned = TRUE] ELSE pending
       [] valid /\ ~allowed -> CloseChannel(d, "max_transmit")
       [] OTHER -> IF with_invalid_req_seq(d, frame.req_seq) THEN CloseChannel(d, "sequence") ELSE d

recv_rnr(d, frame) ==
  LET ok == with_valid_req_seq(d, frame.req_seq) /\ with_valid_f_bit(d, frame.f)
      passed == pass_to_tx([d EXCEPT !.remote_busy = TRUE], frame.req_seq, frame.f)
      stopped == [passed EXCEPT !.retrans_timer = FALSE]
  IN CASE ok /\ d.rx_state = "RECV" ->
            IF frame.p THEN send_rr_or_rnr(stopped, FALSE, TRUE) ELSE stopped
       [] ok /\ d.rx_state # "RECV" -> send_rr(passed, FALSE, ~frame.p)
       [] OTHER -> IF with_invalid_req_seq(d, frame.req_seq) THEN CloseChannel(d, "sequence") ELSE d

OnPdu(d, frame) ==
  CASE frame.kind = "I" -> recv_i_frame(d, frame)
    [] frame.kind = "RR" -> recv_rr(d, frame)
    [] frame.kind = "REJ" -> recv_rej(d, frame)
    [] frame.kind = "RNR" -> recv_rnr(d, frame)

local_busy_clear(d) ==
  IF d.tx_state # "XMIT" THEN d
  ELSE LET g == [d EXCEPT !.local_busy = FALSE, !.rnr_sent = FALSE]
       IN IF d.rnr_sent
          THEN [send_rr(g, TRUE, FALSE) EXCEPT !.retry_count = 1, !.retrans_timer = FALSE,
                                              !.monitor_timer = TRUE]
          ELSE g

(* Mutant: the monitor timer is forgotten. *)
poll_without_monitor(d) ==
  IF d.tx_state # "XMIT" THEN d
  ELSE [send_rr_or_rnr(d, TRUE, FALSE) EXCEPT !.retry_count = 1, !.tx_state = "WAIT_F"]

retrans_timer_expires(d) ==
  IF d.tx_state # "XMIT" THEN d
  ELSE [send_rr_or_rnr(d, TRUE, FALSE) EXCEPT !.retry_count = 1, !.monitor_timer = TRUE,
                                              !.tx_state = "WAIT_F"]

monitor_timer_expires(d) ==
  CASE d.tx_state # "WAIT_F" -> d
    [] d.tx_state = "WAIT_F" /\ d.retry_count < max_transmit ->
         send_rr_or_rnr([d EXCEPT !.retry_count = @ + 1, !.monitor_timer = TRUE], TRUE, FALSE)
    [] OTHER -> CloseChannel(d, "max_transmit")

(***************************************************************************)
(* The specification.                                                      *)
(***************************************************************************)
Open == \A e \in End : ertm[e].closed = "no"

(* e is now d, whose frames go onto the link as far as there is room. *)
Step(e, d, links) ==
  /\ ertm' = [ertm EXCEPT ![e] = [d EXCEPT !.out = <<>>]]
  /\ been_busy' = been_busy \cup {x \in {e} : d.local_busy}
  /\ link' = LET all == links[Peer(e)] \o d.out
                 n == IF Len(all) < MaxInFlight THEN Len(all) ELSE MaxInFlight
             IN [links EXCEPT ![Peer(e)] = SubSeq(all, 1, n)]

(* The segments of the next SDU of e, if it has n. *)
SduOf(e, n) == [k \in 1..n |-> <<Len(sent[e]) + 1, k>>]
SegmentsOf(sdu) ==
  [k \in DOMAIN sdu |->
     [sar |-> CASE Len(sdu) = 1 -> "UNSEGMENTED"
                [] Len(sdu) > 1 /\ k = 1 -> "START"
                [] Len(sdu) > 1 /\ k = Len(sdu) -> "END"
                [] OTHER -> "CONTINUATION",
      sdu_size |-> IF Len(sdu) > 1 /\ k = 1 THEN Len(sdu) ELSE 0,
      payload |-> <<sdu[k]>>]]

OnSdu(e, n) ==
  /\ Open /\ Len(sent[e]) < MaxSdus[e]
  /\ sent' = [sent EXCEPT ![e] = Append(@, SduOf(e, n))]
  /\ Step(e, FoldLeft(data_request, ertm[e], SegmentsOf(SduOf(e, n))), link)
  /\ UNCHANGED delivered

Receive(e) ==
  /\ Open /\ link[e] # <<>>
  /\ Step(e, OnPdu(ertm[e], Head(link[e])), [link EXCEPT ![e] = Tail(@)])
  /\ UNCHANGED <<sent, delivered>>

Lose(e) ==
  /\ Open /\ link[e] # <<>>
  /\ link' = [link EXCEPT ![e] = Tail(@)]
  /\ UNCHANGED <<ertm, sent, delivered, been_busy>>

RetransTimeout(e) ==
  /\ Open /\ ertm[e].retrans_timer
  /\ Step(e, retrans_timer_expires([ertm[e] EXCEPT !.retrans_timer = FALSE]), link)
  /\ UNCHANGED <<sent, delivered>>

MonitorTimeout(e) ==
  /\ Open /\ ertm[e].monitor_timer
  /\ Step(e, monitor_timer_expires([ertm[e] EXCEPT !.monitor_timer = FALSE]), link)
  /\ UNCHANGED <<sent, delivered>>

(* The channel's user takes an SDU; an empty buffer ends local busy. *)
Dequeue(e) ==
  /\ Open /\ ertm[e].enqueue_buffer # <<>>
  /\ delivered' = [delivered EXCEPT ![e] = Append(@, Head(ertm[e].enqueue_buffer))]
  /\ LET d == [ertm[e] EXCEPT !.enqueue_buffer = Tail(@)]
     IN Step(e, IF d.enqueue_buffer = <<>> /\ d.on_empty
                THEN local_busy_clear([d EXCEPT !.on_empty = FALSE]) ELSE d, link)
  /\ UNCHANGED sent

Next ==
  \E e \in End :
    \/ \E n \in 1..MaxSegments[e] : OnSdu(e, n)
    \/ Receive(e) \/ Lose(e) \/ RetransTimeout(e) \/ MonitorTimeout(e) \/ Dequeue(e)

Spec == Init /\ [][Next]_vars

-----------------------------------------------------------------------------
(***************************************************************************)
(* Properties.                                                             *)
(***************************************************************************)
MaxSduSize == Max({MaxSegments[e] : e \in End})
Segment == [sar : Sar, sdu_size : 0..MaxSduSize, payload : Seq(Nat \X Nat)]
Frame ==
  [kind : {"RR", "RNR", "REJ"}, p : BOOLEAN, f : BOOLEAN, req_seq : Seqs]
    \cup [kind : {"I"}, f : BOOLEAN, tx_seq : Seqs, req_seq : Seqs, segment : Segment]

(* Every variable has its type, the signed counters and sequence numbers   *)
(* of the code stay in their ranges, and the window is never exceeded.     *)
TypeOK ==
  /\ \A e \in End :
       LET d == ertm[e]
       IN /\ d.tx_state \in {"XMIT", "WAIT_F"} /\ d.rx_state \in {"RECV", "REJ_SENT"}
          /\ {d.next_tx_seq, d.expected_ack_seq, d.expected_tx_seq, d.buffer_seq} \subseteq Seqs
          /\ d.unacked_frames \in 0..remote_tx_window
          /\ DOMAIN d.unacked_list \subseteq Seqs
          /\ \A i \in DOMAIN d.unacked_list : d.unacked_list[i] \in Segment
          /\ d.pending_frames \in Seq(Segment)
          /\ d.retry_count \in 0..max_transmit /\ d.retry_i_frames \in [Seqs -> 0..max_transmit]
          /\ {d.remote_busy, d.local_busy, d.rnr_sent, d.rej_actioned, d.retrans_timer,
              d.monitor_timer, d.on_empty} \subseteq BOOLEAN
          /\ d.sar_state \in Sar /\ d.remaining \in 0..MaxSduSize
          /\ Len(d.enqueue_buffer) <= BusyThreshold /\ d.out = <<>>
          /\ link[e] \in Seq(Frame) /\ Len(link[e]) <= MaxInFlight

(* The SDUs of each end come out of the other one whole, once and in order,*)
(* whatever the link loses and however timers and acknowledgements cross.  *)
AtoB == INSTANCE FifoChannel WITH
          Message <- {[k \in 1..n |-> <<i, k>>] : i \in 1..MaxSdus["A"], n \in 1..MaxSegments["A"]},
          in_transit <- SubSeq(sent["A"], Len(delivered["B"]) + 1, Len(sent["A"])),
          received <- delivered["B"]
BtoA == INSTANCE FifoChannel WITH
          Message <- {[k \in 1..n |-> <<i, k>>] : i \in 1..MaxSdus["B"], n \in 1..MaxSegments["B"]},
          in_transit <- SubSeq(sent["B"], Len(delivered["A"]) + 1, Len(sent["B"])),
          received <- delivered["A"]
ImplementsChannel == AtoB!Spec /\ BtoA!Spec

(* The two ends agree on where they are: what a receiver expects next lies *)
(* among the frames that its sender counts as unacknowledged, or follows   *)
(* them, so that every acknowledgement is taken for what it is.            *)
SequencesAgree ==
  \A e \in End :
    /\ (ertm[e].next_tx_seq - ertm[e].expected_ack_seq) % kMaxTxWin = ertm[e].unacked_frames
    /\ (ertm[Peer(e)].expected_tx_seq - ertm[e].expected_ack_seq) % kMaxTxWin
          <= ertm[e].unacked_frames

(* Both ends are in their ranges, and agree with each other.               *)
Consistent == TypeOK /\ SequencesAgree

(* Two such ends close the channel after max_transmit attempts; and they   *)
(* find fault with each other only where sequence_less_than is wrong, when *)
(* the frames that wait for an acknowledgement lie across the point at     *)
(* which the sequence numbers come round, and a frame comes that has the   *)
(* final bit without a poll, or not while a poll is outstanding.  This     *)
(* lasts until an SDU has arrived that is not the next one, as it may one  *)
(* lap later: process_req_seq keeps the frames acknowledged across the     *)
(* wrap, and a retransmission sends them again as new ones.                *)
AcrossTheWrap(d) == d.next_tx_seq < d.expected_ack_seq
Intact ==
  \A e \in End :
    IsPrefix(delivered[Peer(e)] \o ertm[Peer(e)].enqueue_buffer, sent[e])
FaultOnlyAcrossTheWrap ==
  [][\A e \in End :
       Intact /\ ertm'[e].closed \notin {ertm[e].closed, "max_transmit"} =>
         /\ ertm'[e].closed = "sequence" /\ AcrossTheWrap(ertm[e])
         /\ link[e] # <<>> /\ ~with_valid_f_bit(ertm[e], Head(link[e]).f)]_vars

(* The stronger claim, that only max_transmit attempts close the channel,  *)
(* fails once the numbers come round: a correct late acknowledgement that  *)
(* crosses a poll closes the channel.                                      *)
ClosesOnlyAfterRetries == \A e \in End : ertm[e].closed \in {"no", "max_transmit"}

(* When no frame is on its way and no timer runs, nothing that was sent is *)
(* left behind: whatever is lost, some timer or answer brings it back, as  *)
(* long as no end has been busy.                                           *)
Quiet ==
  /\ Open
  /\ \A e \in End : /\ link[e] = <<>> /\ ertm[e].enqueue_buffer = <<>>
                     /\ ~ertm[e].retrans_timer /\ ~ertm[e].monitor_timer
NothingStranded ==
  Quiet /\ been_busy = {} => \A e \in End : delivered[Peer(e)] = sent[e]

(* Not so for an end that has been busy: local_busy_clear polls without    *)
(* entering WAIT_F, so that the expiry of its monitor timer does nothing,  *)
(* and if that one RR is lost the peer takes the end for busy forever.     *)
BusyStrandsNothing == Quiet => \A e \in End : delivered[Peer(e)] = sent[e]

(* The SDUs that are delivered are the SDUs that were sent, however often  *)
(* the sequence numbers have come round.                                   *)
DeliveredAsSent == \A e \in End : IsPrefix(delivered[Peer(e)], sent[e])
=============================================================================
