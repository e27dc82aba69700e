---------------------------- MODULE FrameIntake ----------------------------
(***************************************************************************)
(* From a video packet to the frames it is worth pacing                    *)
(* (irl-source/src/video/decode.rs and intake.rs, irl-core video_time.rs), *)
(* as operators on DecodeState and the flags next to it.  VideoHandover    *)
(* and VideoPacing take a packet to come to a frame or to none.            *)
(*                                                                         *)
(* The decoder is external: what it answers comes with the packet.  A      *)
(* packet is [at, key, sent, drained, frames, broke]: when it is decoded,  *)
(* whether it is marked as a key packet, what send_packet returns at the   *)
(* first and the second call, the frames then received and whether receive *)
(* ends in an error; `drained' are the frames a full decoder gives first.  *)
(* A frame is [pts, key, corrupt, size], pts None where it has none.       *)
(***************************************************************************)
EXTENDS Integers, Sequences, SequencesExt

CONSTANTS
  None,
  GateTimeout,     (* VIDEO_PKT_GATE_TIMEOUT_US                            *)
  Burst,           (* DECODER_ERROR_BURST                                  *)
  WarnEvery,       (* DECODER_WARNING_INTERVAL_US                          *)
  IntervalMin, IntervalMax

(* DecodeState, the keyframe and damage flags of VideoFlags and what the   *)
(* connection counts; `reanchors' counts when video_ts_init was cleared,   *)
(* `shown' is what was handed on to the pacing queue, `fed' the packets    *)
(* the decoder saw and `warned' when a burst was logged.                   *)
NewState == [pkt_gate_open |-> FALSE, pkt_gate_start |-> None, decode_errors |-> 0,
             warned |-> <<>>, prev_pts |-> 0, size |-> None,
             first_keyframe |-> FALSE, corrupted |-> FALSE,
             interval |-> 0, reanchors |-> 0, held |-> 0, shown |-> <<>>, fed |-> {}]

(* timing::throttle.                                                       *)
throttle(warned, now) ==
  IF warned # <<>> /\ now - Last(warned) < WarnEvery THEN warned ELSE Append(warned, now)

note_decode_error(d, now) ==
  LET bad == [d EXCEPT !.corrupted = TRUE] IN
  IF d.decode_errors + 1 < Burst THEN [bad EXCEPT !.decode_errors = @ + 1]
  ELSE [bad EXCEPT !.decode_errors = 0, !.warned = throttle(d.warned, now)]

(* The packet-level keyframe gate, with its timeout.                       *)
gate_open(d, wait_for_keyframe, packet) ==
  LET start == IF d.pkt_gate_start = None THEN packet.at ELSE d.pkt_gate_start IN
  IF ~wait_for_keyframe \/ d.first_keyframe \/ d.pkt_gate_open
    THEN [state |-> d, open |-> TRUE]
  ELSE IF packet.key \/ packet.at - start >= GateTimeout
    THEN [state |-> [d EXCEPT !.pkt_gate_open = TRUE,
                              !.pkt_gate_start = IF packet.key THEN @ ELSE start], open |-> TRUE]
  ELSE [state |-> [d EXCEPT !.pkt_gate_start = start], open |-> FALSE]

interval_ema(prev, delta) ==
  IF delta \notin IntervalMin..IntervalMax THEN prev
  ELSE IF prev = 0 THEN delta
  ELSE IF delta >= prev THEN prev + (delta - prev) \div 8 ELSE prev - (prev - delta) \div 8

(* handle_frame: without a PTS, before the first key frame where the       *)
(* setting says so, or, of HEVC, predicted from what was lost, a frame is  *)
(* not shown.                                                              *)
handle_frame(d, wait_for_keyframe, hevc, frame) ==
  LET seen == [d EXCEPT !.first_keyframe = @ \/ frame.key, !.corrupted = @ /\ ~frame.key] IN
  IF frame.pts = None \/ (~d.first_keyframe /\ ~frame.key /\ wait_for_keyframe) THEN d
  ELSE IF frame.corrupt /\ hevc THEN [seen EXCEPT !.held = @ + 1]
  ELSE [seen EXCEPT
         !.reanchors = IF d.size \in {None, frame.size} THEN @ ELSE @ + 1,
         !.size = frame.size,
         !.interval = IF d.prev_pts = 0 THEN @ ELSE interval_ema(@, frame.pts - d.prev_pts),
         !.prev_pts = frame.pts,
         !.shown = Append(@, frame)]

drain(d, wait_for_keyframe, hevc, frames, broke, now) ==
  LET Receive(s, frame) == handle_frame([s EXCEPT !.decode_errors = 0], wait_for_keyframe, hevc, frame)
      received == FoldLeft(Receive, d, frames)
  IN  IF broke THEN note_decode_error(received, now) ELSE received

(* A decoder that is full is drained and asked once more.                  *)
decode_packet(d, wait_for_keyframe, hevc, packet) ==
  LET gate == gate_open(d, wait_for_keyframe, packet)
      fed == [gate.state EXCEPT !.fed = @ \cup {packet}]
      room == IF packet.sent[1] = "again"
                THEN drain(fed, wait_for_keyframe, hevc, packet.drained, FALSE, packet.at) ELSE fed
      result == IF packet.sent[1] = "again" THEN packet.sent[2] ELSE packet.sent[1]
      sent == IF result = "error" THEN note_decode_error(room, packet.at)
              ELSE [room EXCEPT !.decode_errors = 0]
  IN  IF ~gate.open THEN gate.state
      ELSE drain(sent, wait_for_keyframe, hevc, packet.frames, packet.broke, packet.at)

-----------------------------------------------------------------------------
(* What it promises of a connection: packets in the order they came, each  *)
(* with the setting at that moment, <<wait_for_keyframe, packet>>.         *)

Connection(packets, hevc) ==
  LET after[k \in 0..Len(packets)] ==
        IF k = 0 THEN NewState ELSE decode_packet(after[k - 1], packets[k][1], hevc, packets[k][2])
  IN  after

(* With the setting on nothing is shown before a key frame, although the   *)
(* gate of the packets gives up; and it does give up, so a sender that     *)
(* marks no packet is decoded after the timeout at the latest.             *)
KeyframeComesFirst(packets, hevc) ==
  LET n == Len(packets)
      after == Connection(packets, hevc)
      Since(packet) == packet.at - packets[1][2].at
  IN
  (\A k \in 1..n : packets[k][1]) =>
    /\ \A k \in 1..n : after[k].shown # <<>> => after[k].first_keyframe
    /\ \A k \in 1..n : Since(packets[k][2]) >= GateTimeout => packets[k][2] \in after[n].fed
    /\ \A packet \in after[n].fed :
         \/ Since(packet) >= GateTimeout
         \/ \E k \in 1..n : packets[k][2].at <= packet.at /\ packets[k][2].key

(* No HEVC frame predicted from a lost one is shown, and no other frame    *)
(* with a PTS is ever lost once a key frame has come, however many are     *)
(* held or fail.                                                           *)
OnlyDamageIsHeld(packets, hevc) ==
  LET after == Connection(packets, hevc)
      Received(k) == LET p == packets[k][2]
                     IN  (IF p.sent[1] = "again" THEN p.drained ELSE <<>>) \o p.frames
      Good(frame) == frame.pts # None /\ ~(hevc /\ frame.corrupt)
  IN
  /\ \A j \in DOMAIN after[Len(packets)].shown : Good(after[Len(packets)].shown[j])
  /\ \A k \in 1..Len(packets) : after[k - 1].first_keyframe =>
       after[k].shown = after[k - 1].shown \o SelectSeq(Received(k), Good)

(* The estimated interval is one of a usable frame rate or none at all,    *)
(* whatever the timestamps do.                                             *)
IntervalIsUsable(packets) ==
  Connection(packets, FALSE)[Len(packets)].interval \in {0} \cup IntervalMin..IntervalMax

(* A burst of packets the decoder refuses is logged, or was lately, and    *)
(* never twice within the interval.                                        *)
BurstsAreLogged(packets) ==
  LET warned == Connection(packets, FALSE)[Len(packets)].warned
      Refused(k) == packets[k][2].sent[1] = "error"
  IN
  /\ \A j \in 2..Len(warned) : warned[j] - warned[j - 1] >= WarnEvery
  /\ \A k \in Burst..Len(packets) :
       (\A j \in (k - Burst + 1)..k : Refused(j)) =>
         \E w \in ToSet(warned) : packets[k - Burst + 1][2].at - w < WarnEvery
=============================================================================
