---------------------------- MODULE VideoPacing ----------------------------
(***************************************************************************)
(* When a decoded frame goes to OBS: the video thread's cycle              *)
(* (irl-source/src/video/thread.rs), its pacing queue (irl-core/pacing.rs),*)
(* the schedule of a frame (video/output.rs) and the floor under it        *)
(* (VideoDelay), next to the three parties it races: the receiver, which   *)
(* pushes packets, reconnects and resets the timeline; the audio pump,     *)
(* which publishes and withdraws the playout mapping; and libobs, whose    *)
(* play head moves at every render tick.                                   *)
(*                                                                         *)
(* Times are relative to now, so Pass lowers them all by one.  A packet    *)
(* is its PTS and how long after it it arrived; a frame also carries its   *)
(* offset, which is its undelayed due time less its PTS.  A cycle takes no *)
(* time, but the others run between any two of its steps.                  *)
(***************************************************************************)
EXTENDS VideoDelay

CONSTANTS
  Interval,   (* between two frames of the stream                         *)
  MaxNeed,    (* BOUND: how late after its PTS a packet may arrive        *)
  Scenarios,  (* what a behaviour starts with: audio, the relax window, and
                 how many changes of audio and connection follow (BOUND) *)
  Outage,     (* BOUND: how soon a new connection sends its first frame  *)
  Offsets,    (* BOUND: playout offsets the pump publishes                *)
  ChanMax,    (* BOUND: packets waiting for the decoder                   *)
  DecodeLead, (* VIDEO_DECODE_LEAD_MS                                     *)
  MaxFrames,  (* VIDEO_PACING_MAX_FRAMES, or what MAX_BYTES come to       *)
  Slack,      (* VIDEO_PACING_SLACK_NS                                    *)
  LeadTicks,  (* VIDEO_PACING_LEAD_TICKS                                  *)
  MaxWait,    (* VIDEO_PACING_MAX_WAIT_MS                                 *)
  Expected,   (* when audio is overdue: awaiting_audio_mapping            *)
  OffsetHold, (* VIDEO_OFFSET_HOLD_NS                                     *)
  AudioLead,  (* warm-up and Target Buffer, on the fallback               *)
  TsClamp, TsCap, (* VIDEO_TS_CLAMP_NS, VIDEO_TS_CAP_NS                   *)
  Slews,      (* BOUND: how far a slew gets between two cycles            *)
  Patience,   (* how long video in hand may go unshown: Expected, the sleeps
                 around it, the largest offset and delay                 *)
  MaxAsync,   (* libobs: MAX_ASYNC_FRAMES                                 *)
  WakeLag     (* how late the thread may wake; less than a canvas tick    *)

ASSUME PacingAssumption ==
  /\ Interval \in Nat \ {0} /\ MaxNeed \in Nat /\ Offsets \subseteq Int
  /\ {ChanMax, DecodeLead, MaxFrames, LeadTicks, MaxWait, Expected, OffsetHold,
      AudioLead, TsClamp, TsCap, Outage, Patience, Slack, MaxAsync} \subseteq Nat
  /\ Scenarios \subseteq [audio : BOOLEAN, relax : Nat, changes : Nat]
  /\ Slews \subseteq Nat /\ WakeLag \in 0..(Tick - 1) /\ MaxNeed >= Interval
  /\ Slack <= Tick /\ LeadTicks >= 2 /\ ChanMax >= 1

VARIABLES
  phase,         (* how long ago the last render tick was                 *)
  next,          (* the PTS of the sender's next frame                    *)
  chan,          (* VideoChannel: packets, and decoders                   *)
  clear_pending, (* VideoChannel::clear_pending                           *)
  timeline_reset, audio_present, (* VideoFlags, RunFlags                  *)
  playout,       (* the offset of PlayoutMapping, or None                 *)
  fallback,      (* sys_base - pts_base, or None when video_ts_init says
                    the next frame takes a new one                        *)
  stage,         (* where the cycle is                                    *)
  slack,         (* emit_slack_ns of this cycle                           *)
  sleep,         (* until the thread wakes                                *)
  anchor_pending, anchor_wait, waited, pacing, last_frame, handed_until,
  held,          (* playout_offset_ns and its age, or None                *)
  delay, offset_ns,
  queue, head,   (* libobs: async frames and the play head                *)
  unshown,       (* history: how long video has been in hand and nothing
                    was shown since the last change                      *)
  changes        (* of the audio and the connection that may still happen *)

obs == <<phase, queue, head, changes, unshown>>
source == <<next, chan, clear_pending, timeline_reset, audio_present>>
schedule == <<playout, fallback>>
cycle == <<stage, slack, sleep>>
anchor == <<anchor_pending, anchor_wait, waited, last_frame, handed_until>>
floor == <<held, delay, offset_ns>>
pacing_vars == <<obs, source, schedule, cycle, anchor, pacing, floor>>

Decoder == [decoder |-> TRUE]
Lead == LeadTicks * Tick
LongAgo == -(MaxNeed + OffsetHold + MaxWait + Lead) \* older than anything compared with it

(* A frame of the pacing queue is due at its PTS plus its offset, or at    *)
(* the floor.                                                              *)
Due(frame) == due_ns(delay, frame.pts + frame.offset, frame.offset)
span_ns == IF pacing = <<>> THEN 0 ELSE pacing[Len(pacing)].pts - pacing[1].pts
at_hard_ceiling == Len(pacing) >= MaxFrames
has_room == span_ns < DecodeLead /\ ~at_hard_ceiling
Intakes == chan # <<>> /\ (chan[1] = Decoder \/ has_room)
has_work == clear_pending \/ Intakes
NextTick == Tick - phase

(* The thread that has slept enough runs before time does.                 *)
InTime == stage = "asleep" /\ sleep > -WakeLag

PacingInit ==
  /\ phase = 0 /\ queue = <<>> /\ head = None /\ unshown = 0
  /\ next = 0 /\ chan = <<Decoder>> /\ clear_pending = FALSE /\ timeline_reset = FALSE
  /\ playout = None /\ fallback = None
  /\ stage = "asleep" /\ slack = 0 /\ sleep = 0
  /\ anchor_pending = TRUE /\ anchor_wait = "idle" /\ waited = 0 /\ last_frame = FALSE /\ handed_until = LongAgo
  /\ pacing = <<>>
  /\ held = None /\ offset_ns = None
  /\ \E s \in Scenarios :
       audio_present = s.audio /\ changes = s.changes /\ delay = NewDelay(s.relax)

-----------------------------------------------------------------------------
(* The receiver and the pump.                                              *)

(* A wake-up ends the sleep; the thread still takes its time to run.       *)
Woken(s, work) == IF stage = "asleep" /\ work THEN Lower(s, 0) ELSE s

Change == changes > 0 /\ changes' = changes - 1 /\ unshown' = 0

(* push_packet.                                                            *)
Push ==
  /\ stage = "asleep" /\ next <= 0 /\ Len(chan) < ChanMax
  /\ chan' = Append(chan, [pts |-> next, need |-> -next])
  /\ next' = next + Interval
  /\ UNCHANGED <<obs, schedule, stage, slack, anchor, pacing, floor,
                 clear_pending, timeline_reset, audio_present>>
  /\ sleep' = Woken(sleep, has_work')

(* The pump hands OBS a chunk of another latency, or its first.            *)
PublishOffset(offset) ==
  /\ audio_present /\ offset # playout /\ Change
  /\ playout' = offset
  /\ sleep' = Woken(sleep, playout = None)
  /\ UNCHANGED <<phase, queue, head, source, fallback, stage, slack, anchor, pacing, floor>>

(* A PTS reset of the audio: the mapping goes, and the video thread is     *)
(* told (AudioIntake, reset_stream_timing_state).                          *)
ResetTimeline ==
  /\ stage = "asleep" /\ audio_present /\ Change
  /\ playout' = None /\ fallback' = None /\ timeline_reset' = TRUE
  /\ UNCHANGED <<phase, queue, head, next, chan, clear_pending, audio_present, cycle, anchor, pacing, floor>>

(* A reconnect, with or without the blank (handle_stream_read_error,       *)
(* prepare_new_connection, install_decoder).                               *)
Reconnect(blank, audio) ==
  /\ stage = "asleep" /\ Change
  /\ chan' = IF blank THEN <<Decoder>>
             ELSE IF Len(chan) < ChanMax THEN Append(chan, Decoder) ELSE Append(Tail(chan), Decoder)
  /\ clear_pending' = (clear_pending \/ blank)
  /\ playout' = None /\ fallback' = None
  /\ audio_present' = audio
  /\ next' = Outage
  /\ UNCHANGED <<phase, queue, head, timeline_reset, stage, slack, anchor, pacing, floor>>
  /\ sleep' = Woken(sleep, has_work')

-----------------------------------------------------------------------------
(* libobs (external).  cache_video: a full queue is thrown away, and the   *)
(* play head with it.                                                      *)
Cached(timestamp) ==
  IF Len(queue) >= MaxAsync THEN queue' = <<>> /\ head' = None
  ELSE queue' = Append(queue, timestamp) /\ UNCHANGED head

(* A render tick takes the newest frame the play head has passed, and      *)
(* moves the play head only when it finds one queued.  The first frame     *)
(* after a clear is taken whatever its timestamp, and sets the play head;  *)
(* so does one older than the frame before it, by unsigned arithmetic.     *)
RenderTick ==
  LET moved == head + Tick
      Back == {i \in 2..Len(queue) : queue[i] < queue[i - 1]}
      passed == {i \in DOMAIN queue : queue[i] < moved}
      newest == CHOOSE i \in passed : \A j \in passed : j <= i
  IN /\ phase = Tick /\ InTime
     /\ phase' = 0
     /\ IF queue = <<>> THEN UNCHANGED <<queue, head>>
        ELSE IF head = None THEN queue' = Tail(queue) /\ head' = queue[1]
        ELSE IF Back # {} /\ moved > queue[1]
        THEN LET b == CHOOSE i \in Back : \A j \in Back : i <= j
             IN queue' = SubSeq(queue, b, Len(queue)) /\ head' = queue[b]
        ELSE /\ head' = moved
             /\ queue' = IF passed = {} THEN queue ELSE SubSeq(queue, newest + 1, Len(queue))
     /\ UNCHANGED <<changes, unshown, source, schedule, cycle, anchor, pacing, floor>>

(* A unit of time.                                                         *)
Pass ==
  /\ phase < Tick /\ InTime
  /\ phase' = phase + 1
  /\ LET Older(s) == [i \in DOMAIN s |-> IF s[i] = Decoder THEN Decoder
                                          ELSE [s[i] EXCEPT !.pts = @ - 1]]
     IN chan' = Older(chan) /\ pacing' = Older(pacing)
  /\ queue' = [i \in DOMAIN queue |-> queue[i] - 1]
  /\ head' = IF head = None THEN None ELSE head - 1
  \* a frame that takes longer to come than this is lost
  /\ next' = IF next - 1 < -MaxNeed THEN next - 1 + Interval ELSE next - 1
  /\ sleep' = sleep - 1
  /\ waited' = IF anchor_wait = "waiting" THEN Lower(waited + 1, Expected) ELSE waited
  /\ unshown' = IF anchor_pending /\ pacing # <<>> THEN Lower(unshown + 1, Patience + 1) ELSE 0
  /\ handed_until' = Higher(handed_until - 1, LongAgo)
  /\ held' = IF held = None \/ held.age > OffsetHold THEN None ELSE [held EXCEPT !.age = @ + 1]
  /\ delay' = Aged(delay)
  /\ UNCHANGED <<changes, clear_pending, timeline_reset, audio_present, schedule, stage, slack,
                 anchor_pending, anchor_wait, last_frame, offset_ns>>

-----------------------------------------------------------------------------
(* The video thread.                                                       *)

emit_slack_ns == IF anchor_pending THEN Slack ELSE Lead + Slack

(* A clear: what was paced goes too, and the next frame anchors.           *)
take_clear ==
  /\ stage = "asleep" /\ sleep <= 0 /\ clear_pending
  /\ clear_pending' = FALSE
  /\ pacing' = <<>>
  /\ held' = None
  /\ anchor_pending' = TRUE /\ anchor_wait' = "idle" /\ waited' = 0 /\ last_frame' = FALSE
  /\ handed_until' = LongAgo
  /\ delay' = reset(delay) /\ offset_ns' = None
  /\ queue' = <<>> /\ head' = None
  /\ UNCHANGED <<phase, changes, unshown, next, chan, timeline_reset, audio_present, schedule, cycle>>

BeginCycle ==
  /\ stage = "asleep" /\ sleep <= 0 /\ ~clear_pending
  /\ slack' = emit_slack_ns
  /\ timeline_reset' = FALSE
  /\ IF timeline_reset THEN delay' = reset(delay) /\ offset_ns' = None
                       ELSE UNCHANGED <<delay, offset_ns>>
  /\ stage' = "intake"
  /\ UNCHANGED <<obs, next, chan, clear_pending, audio_present, schedule, sleep, anchor,
                 pacing, held>>

(* A decoder that waits when the intake begins is taken whatever room      *)
(* there is; one behind a packet takes its turn.                           *)
Taking == stage \in {"intake", "decode"}
Takes == chan # <<>> /\ (has_room \/ (stage = "intake" /\ chan[1] = Decoder))

adopt_decoder ==
  /\ Taking /\ Takes /\ chan[1] = Decoder
  /\ chan' = Tail(chan)
  /\ delay' = reset(delay) /\ offset_ns' = None
  /\ UNCHANGED <<obs, next, clear_pending, timeline_reset, audio_present, schedule, cycle,
                 anchor, pacing, held>>

(* fallback_anchor: the frame's own clock, shown now when it is far late   *)
(* and not held for long when it is far early.                             *)
fallback_anchor(pts, base) ==
  IF pts + base < -TsClamp THEN 0 ELSE IF pts + base > TsClamp THEN TsCap ELSE pts + base

(* base_due, as an offset from the PTS.                                    *)
base_due(pts, base) ==
  IF playout # None THEN playout
  ELSE fallback_anchor(pts, base) - pts + (IF audio_present THEN AudioLead ELSE 0)

(* A packet is decoded into the queue while that has room; a packet may    *)
(* come to no frame (gate, damage).                                        *)
pace_decoded ==
  /\ Taking /\ Takes /\ chan[1] # Decoder
  /\ stage' = "decode"
  /\ LET packet == chan[1]
         base == IF fallback = None THEN -packet.pts ELSE fallback
         offset == base_due(packet.pts, base)
     IN \/ /\ pacing' = Append(pacing, [pts |-> packet.pts, need |-> packet.need, offset |-> offset])
           /\ fallback' = IF playout = None THEN base ELSE fallback
           /\ delay' = note_packet(delay)
           /\ offset_ns' = offset
        \/ UNCHANGED <<pacing, fallback, delay, offset_ns>>
  /\ chan' = Tail(chan)
  /\ UNCHANGED <<obs, next, clear_pending, timeline_reset, audio_present, playout, slack, sleep,
                 anchor, held>>

(* playout_offset: the mapping, held for a while after it has gone.        *)
playout_offset ==
  IF playout # None THEN playout
  ELSE IF held = None \/ held.age > OffsetHold THEN None ELSE held.offset

(* pacing_reschedule; the queue is what is left of it at the call.         *)
Reschedule(frames) ==
  /\ pacing' = IF playout_offset = None THEN frames
               ELSE [i \in DOMAIN frames |-> [frames[i] EXCEPT !.offset = playout_offset]]
  /\ held' = IF playout # None THEN [offset |-> playout, age |-> 0] ELSE held
  /\ offset_ns' = IF playout_offset # None THEN playout_offset ELSE offset_ns

(* Each cycle once, and then tend_floor when the play head is anchored.    *)
pacing_reschedule ==
  /\ Taking /\ ~Takes
  /\ Reschedule(pacing)
  /\ IF anchor_pending \/ offset_ns' = None THEN UNCHANGED delay
     ELSE \E step \in Slews : delay' = expire(ramp(delay, step, offset_ns'), offset_ns')
  /\ stage' = IF anchor_pending THEN "await" ELSE "emit"
  /\ UNCHANGED <<obs, source, schedule, slack, sleep, anchor>>

(* Mutant: audio that never primes is waited for for ever.                 *)
AwaitForEver ==
  audio_present /\ playout = None /\ anchor_wait # "gave_up"

(* awaiting_audio_mapping: nothing goes out until audio has said where     *)
(* video belongs, or is overdue.                                           *)
awaiting_audio_mapping ==
  /\ audio_present /\ playout = None /\ anchor_wait # "gave_up"
  /\ anchor_wait = "waiting" => waited < Expected

KeepWaiting ==
  /\ stage = "await" /\ awaiting_audio_mapping
  /\ anchor_wait' = "waiting" /\ waited' = IF anchor_wait = "waiting" THEN waited ELSE 0
  /\ stage' = "asleep" /\ slack' = 0 /\ sleep' = IF has_work THEN 0 ELSE MaxWait
  /\ UNCHANGED <<obs, source, schedule, anchor_pending, last_frame, handed_until,
                 pacing, floor>>

WaitIsOver ==
  /\ stage = "await" /\ ~awaiting_audio_mapping
  /\ anchor_wait' = IF ~audio_present THEN anchor_wait
                    ELSE IF playout # None THEN "idle" ELSE "gave_up"
  /\ waited' = IF audio_present THEN 0 ELSE waited
  /\ stage' = "settle"
  /\ UNCHANGED <<obs, source, schedule, slack, sleep, anchor_pending, last_frame, handed_until,
                 pacing, floor>>

(* settle_anchor_candidate: the newest frame in hand, of live video, lifts *)
(* the floor until it is on time; heads past due are dropped, but for the  *)
(* newest when the delay is at its ceiling.                                *)
NewestInHand == Len(pacing) = 1 /\ \A i \in DOMAIN chan : chan[i] = Decoder
Measured(measurable) ==
  IF measurable THEN before_anchor(delay, pacing[1].need, pacing[1].offset) ELSE delay
OnTime == -Due(pacing[1]) <= Tick

settle_anchor_candidate ==
  /\ stage = "settle"
  /\ IF pacing = <<>> THEN stage' = "emit" /\ UNCHANGED <<pacing, delay, held, offset_ns>>
     ELSE \E is_live \in live(delay) :
       LET measurable == NewestInHand /\ (audio_present => is_live)
           measured == Measured(measurable)
           raised == measured.floor # delay.floor
       IN /\ delay' = measured
          /\ \/ /\ raised
                /\ Reschedule(pacing)
                /\ UNCHANGED stage
             \/ /\ ~raised
                /\ UNCHANGED <<held, offset_ns>>
                /\ IF ~audio_present \/ OnTime \/ (NewestInHand /\ at_ceiling(delay, pacing[1].offset))
                   THEN stage' = "emit" /\ UNCHANGED pacing
                   ELSE pacing' = Tail(pacing) /\ UNCHANGED stage
  /\ UNCHANGED <<obs, source, schedule, slack, sleep, anchor>>

(* due_now: the head is due within the slack, or the queue is at its hard  *)
(* ceiling and no exact frame is needed.                                   *)
EmitEarly == at_hard_ceiling /\ ~anchor_pending
Emits == pacing # <<>> /\ (EmitEarly \/ Due(pacing[1]) <= slack)

(* The frame that anchors carries the time of the tick that will take it.  *)
anchor_timestamp == NextTick

(* No timestamp older than what libobs holds.                              *)
Stamp(due) == Higher(due, handed_until)

(* A frame handed over after the anchor tells the floor how late it was    *)
(* and when it arrived.                                                    *)
Noted(frame) ==
  note_arrival(note(delay, -frame.pts, frame.offset), frame.need, frame.offset)

(* Of frames already due only the newest is handed over.                   *)
Superseded(d, rest) ==
  rest # <<>> /\ due_ns(d, rest[1].pts + rest[1].offset, rest[1].offset) <= 0

HandOver(timestamp) ==
  /\ Cached(timestamp)
  /\ handed_until' = timestamp
  /\ last_frame' = TRUE

pacing_emit_due ==
  /\ stage = "emit" /\ Emits
  /\ delay' = IF anchor_pending THEN delay ELSE Noted(pacing[1])
  /\ IF delay'.floor = delay.floor
     THEN pacing' = Tail(pacing) /\ UNCHANGED <<held, offset_ns>>
     ELSE Reschedule(Tail(pacing))
  /\ IF ~anchor_pending /\ Superseded(delay', pacing')
     THEN UNCHANGED <<queue, head, handed_until, last_frame, anchor_pending>>
     ELSE /\ HandOver(Stamp(IF anchor_pending THEN anchor_timestamp ELSE Due(pacing[1])))
          /\ anchor_pending' = FALSE
  /\ UNCHANGED <<phase, changes, unshown, source, schedule, cycle, anchor_wait, waited>>

(* keep_play_head_running: the last frame again, when libobs would find    *)
(* nothing queued at its next tick.                                        *)
(* Mutant: no repeat.                                                      *)
NeverRepeat == FALSE

GoesOutBefore == pacing # <<>> /\ Due(pacing[1]) - slack <= NextTick
RepeatNeeded ==
  ~anchor_pending /\ last_frame /\ handed_until + Tick < NextTick /\ ~GoesOutBefore

(* sleep_hint: until the head enters the lead, or past the next tick.      *)
sleep_hint ==
  LET tick == IF anchor_pending \/ ~last_frame THEN MaxWait ELSE Lower(NextTick + Slack, MaxWait)
  IN IF pacing = <<>> THEN tick ELSE Lower(tick, Due(pacing[1]) - slack)

EndCycle ==
  /\ stage = "emit" /\ ~Emits
  /\ IF RepeatNeeded THEN HandOver(NextTick) ELSE UNCHANGED <<queue, head, handed_until, last_frame>>
  /\ stage' = "asleep" /\ slack' = 0
  /\ sleep' = IF has_work THEN 0 ELSE sleep_hint
  /\ UNCHANGED <<phase, changes, unshown, source, schedule, anchor_pending, anchor_wait, waited, pacing, floor>>

Cycle == \/ take_clear \/ BeginCycle \/ adopt_decoder \/ pace_decoded
         \/ pacing_reschedule \/ KeepWaiting \/ WaitIsOver \/ settle_anchor_candidate
         \/ pacing_emit_due \/ EndCycle

PacingNext ==
  \/ Pass \/ RenderTick \/ Cycle \/ Push \/ ResetTimeline
  \/ \E offset \in Offsets : PublishOffset(offset)
  \/ \E blank, audio \in BOOLEAN : Reconnect(blank, audio)

PacingSpec == PacingInit /\ [][PacingNext]_pacing_vars
-----------------------------------------------------------------------------
PacingTypeOK ==
  /\ phase \in 0..Tick /\ next \in -MaxNeed..(Interval + Outage)
  /\ \A i \in DOMAIN chan : chan[i] = Decoder \/ chan[i].need \in 0..MaxNeed
  /\ {clear_pending, timeline_reset, audio_present, anchor_pending, last_frame} \subseteq BOOLEAN
  /\ playout \in Offsets \cup {None}
  /\ stage \in {"asleep", "intake", "decode", "await", "settle", "emit"}
  /\ anchor_wait \in {"idle", "waiting", "gave_up"}
  /\ delay.ramp # None => delay.floor # None
  /\ Len(pacing) <= MaxFrames
  /\ \A i \in DOMAIN pacing : pacing[i].need \in 0..MaxNeed

(* The play head runs on the OBS clock: from the frame that anchors it it  *)
(* is at every moment the time of the last render tick, or of the one      *)
(* before.  No gap in the video, late frame, repeat, step of the audio     *)
(* playout, raise or slew of the floor or reconnect without a clear costs  *)
(* it another tick or makes it jump.                                       *)
PlayHeadOnTheClock == head # None => head \in {-phase, -phase - Tick}

(* Video in hand is shown within a bounded time of the last change,        *)
(* whether audio primes, never does, or has stopped: neither the wait for  *)
(* its mapping nor a lift of the floor before the anchor holds it longer.  *)
ShownInTime == unshown <= Patience

(* A slew of the floor ends a tick above the worst of the frames seen      *)
(* lately, so it never makes a frame late that the floor had on time.      *)
SlewSparesFrames ==
  delay.ramp # None /\ delay.needs # <<>> => delay.ramp >= Highest(delay.needs) + Tick
=============================================================================
