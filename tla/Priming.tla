------------------------------ MODULE Priming ------------------------------
(***************************************************************************)
(* How much audio waits before it plays.  The target of the jitter buffer  *)
(* is the user's Target Buffer plus the hold that the receiver sizes from  *)
(* what it reads; the pump starts playback ("primes") once the buffer      *)
(* holds the target, and the receiver stops reading above a ceiling        *)
(* derived from it.  Three threads change these: the OBS thread edits      *)
(* Target Buffer (irl-source/src/config.rs), the receiver reads packets,   *)
(* makes the ring, moves the hold and waits at the ceiling                 *)
(* (receiver/mod.rs, receiver/audio_in.rs, audio/hold.rs), the pump trims, *)
(* primes and plays (audio/pump.rs).                                       *)
(*                                                                         *)
(* Time is in audio chunks: a frame is one unit.  A step that runs under   *)
(* the audio_state lock is one action, except the edit, whose growing and  *)
(* publishing the receiver can come between.                               *)
(***************************************************************************)
EXTENDS Integers

CONSTANTS
  MinTarget, MaxTarget, DefaultTarget, (* BUFFER_TARGET_MIN_MS, _MAX_MS, DEFAULT_ *)
  Extra,       (* BUFFER_MAX_EXTRA_MS                                     *)
  Multiplier,  (* BUFFER_CAPACITY_MULTIPLIER                              *)
  MaxChunks,   (* AUDIO_PTS_MAX_CHUNKS                                    *)
  BleedPace,   (* BLEED_PACE_FILL_MS                                      *)
  PaceFloor,   (* the 100 ms the ceiling keeps above max_ms               *)
  Lead,        (* output_lead_ns                                          *)
  TrimTrigger, (* AUDIO_TRIM_TRIGGER_MS                                   *)
  LLMaxFill, LLKeep, (* AUDIO_LL_MAX_FILL_MS, and what its trim keeps     *)
  Warmup,      (* STARTUP_AUDIO_WARMUP_MS                                 *)
  Margin, HoldMax, RaiseMin, RelaxMin, (* AUDIO_HOLD_...                  *)
  Modes,       (* Low Latency Audio, on or off                            *)
  Settings,    (* what the user may enter as Target Buffer                *)
  Skews,       (* how far video trails its audio                          *)
  Spans,       (* how long the bursts of audio are                        *)
  Silences,    (* silence inserted before a frame                         *)
  MaxEdits,    (* BOUND: edits of the settings                            *)
  MaxFaults    (* BOUND: disconnects, resets, flushes and format changes  *)

ASSUME TargetAssumption ==
  /\ MinTarget \in Nat \ {0} /\ MaxTarget \in Nat /\ DefaultTarget \in MinTarget..MaxTarget
  /\ Extra \in Nat /\ Multiplier \in Nat \ {0} /\ MaxChunks \in Nat \ {0}
  /\ Settings \subseteq Int /\ Modes \subseteq BOOLEAN
(* The code's numbers: a ring of four times max_ms, and a floor of 100 ms  *)
(* above max_ms, which is 200 ms above the target.                         *)
ASSUME RingAssumption == Multiplier >= 4 /\ PaceFloor <= 3 * Extra
ASSUME HoldAssumption ==
  /\ Margin \in Nat /\ HoldMax \in Nat /\ RaiseMin \in Nat \ {0} /\ RelaxMin \in Nat
  /\ Skews \subseteq Int /\ Spans \subseteq Nat
ASSUME PlayAssumption ==
  /\ BleedPace \in Nat /\ PaceFloor \in Nat /\ Lead \in Nat /\ TrimTrigger \in Nat
  /\ LLMaxFill \in Nat \ {0} /\ LLKeep \in Nat \ {0} /\ Warmup \in Nat /\ Silences \subseteq Nat
  /\ MaxEdits \in Nat /\ MaxFaults \in Nat

VARIABLES
  low_latency, (* Config's low_latency_audio, latched for the run         *)
  config,      (* the Target Buffer in the OBS thread's Config            *)
  target,      (* hot.watermarks, by its target_ms                        *)
  adaptive,    (* hot.adaptive_speed                                      *)
  hold_ms, hold_skew_ms, hold_bursts_ms, (* AudioState: the hold in force,
                  and what each reading asks for                          *)
  hold_wait_done, (* AudioState: the wait for a skew reading is over      *)
  measured,    (* AudioState: a skew reading has been taken               *)
  ring_target, (* the buffer's own target_ms                              *)
  capacity,    (* the length of its ring; 0 while there is none           *)
  fill,        (* audio it holds                                          *)
  gapped,      (* among it may be silence longer than a frame             *)
  primed,      (* the output clock is running                             *)
  heard,       (* latest_audio_stream_pts_ns is set                       *)
  warm,        (* startup_warmup_remaining_ms                             *)
  video,       (* flags.video_present                                     *)
  rx,          (* where the receiver is                                   *)
  pace,        (* the ceiling it waits at                                 *)
  seen,        (* the target it read before it locked audio_state         *)
  edit,        (* the edit of the settings under way                      *)
  stale,       (* history: the ring was made from a target already replaced *)
  edits, faults

settings == <<low_latency, config, target, adaptive>>
holds == <<hold_ms, hold_skew_ms, hold_bursts_ms, hold_wait_done, measured>>
held == <<fill, gapped>>
ring == <<ring_target, capacity, held>>
clock == <<primed, heard, warm>>
receiver == <<video, rx, pace, seen>>
bounds == <<edits, faults>>
vars == <<settings, holds, ring, clock, receiver, edit, stale, bounds>>

Least(a, b) == IF a <= b THEN a ELSE b
Most(a, b) == IF a >= b THEN a ELSE b
Clamp(x, low, high) == Least(Most(x, low), high)

-----------------------------------------------------------------------------
(* Watermarks::derive: target_ms, and max_ms that goes with it. *)
Derive(t) == IF t <= 0 THEN DefaultTarget ELSE Clamp(t, MinTarget, MaxTarget)
MaxOf(t) == t + Extra

RingFor(t) == Multiplier * MaxOf(t)

(* Mutant: the ceiling is as high as the ring is long.                     *)
CeilingHigh(t) == RingFor(t)

(* apply_read_backpressure: above this fill the receiver stops reading. *)
Ceiling(t) == Most(Least(3 * MaxOf(t), BleedPace), MaxOf(t) + PaceFloor)

(* The part of the hold that is in the published target. *)
Folded == IF low_latency THEN 0 ELSE hold_ms
UserTarget == target - Folded

PrimeThreshold == IF low_latency THEN hold_ms ELSE ring_target + Lead

(* What the buffer can hold: the ring in bytes, and its PTS chunks. *)
Room == Least(capacity, MaxChunks)

(* What it holds once x were written: the newest beyond the ring are lost, *)
(* and the oldest chunks beyond MaxChunks.  The silence of a gap is one    *)
(* chunk however long, so with some in the ring more than MaxChunks may    *)
(* stay.                                                                   *)
Kept(x, silences) ==
  IF silences THEN Least(x, Room)..Least(x, capacity) ELSE {Least(x, Room)}

-----------------------------------------------------------------------------
Phases == {"closed", "check", "wait", "read", "format", "frame", "observe"}
NoEdit == [phase |-> "idle", to |-> 0, next |-> 0, adaptive |-> FALSE]
Edit == [phase : {"idle", "grow", "publish", "store"},
         to : Nat, next : Nat, adaptive : BOOLEAN]

TypeOK ==
  /\ config \in MinTarget..MaxTarget /\ target \in MinTarget..MaxTarget
  /\ adaptive \in BOOLEAN /\ low_latency \in BOOLEAN
  /\ hold_ms \in Nat /\ hold_skew_ms \in Nat /\ hold_bursts_ms \in Nat
  /\ hold_wait_done \in BOOLEAN /\ measured \in BOOLEAN
  /\ ring_target \in Nat /\ capacity \in Nat /\ fill \in Nat /\ gapped \in BOOLEAN
  /\ primed \in BOOLEAN /\ heard \in BOOLEAN /\ warm \in Nat
  /\ video \in BOOLEAN /\ rx \in Phases /\ pace \in Nat /\ seen \in Nat
  /\ edit \in Edit /\ stale \in BOOLEAN
  /\ edits \in 0..MaxEdits /\ faults \in 0..MaxFaults

(* audio_state is locked by an edit that has begun to publish; every other *)
(* critical section is a single action.                                    *)
AudioStateFree == edit.phase \notin {"grow", "publish"}

(* Mutant: the target is moved and the ring left as it is.                 *)
GrowRingNot(t) == UNCHANGED capacity /\ ring_target' = IF capacity = 0 THEN 0 ELSE t

(* publish_watermarks: the ring grows, never shrinks, then the target.     *)
GrowRing(t) ==
  IF capacity = 0
  THEN UNCHANGED <<ring_target, capacity>>
  ELSE /\ ring_target' = t
       /\ capacity' = Most(capacity, RingFor(t))

Publish(t) == GrowRing(t) /\ target' = t /\ stale' = FALSE

Init ==
  /\ config \in {Derive(s) : s \in Settings} /\ target = config
  /\ adaptive \in BOOLEAN /\ low_latency \in Modes
  /\ hold_ms = 0 /\ hold_skew_ms = 0 /\ hold_bursts_ms = 0
  /\ hold_wait_done = FALSE /\ measured = FALSE
  /\ ring_target = 0 /\ capacity = 0 /\ fill = 0 /\ gapped = FALSE
  /\ primed = FALSE /\ heard = FALSE /\ warm = 0
  /\ video = FALSE /\ rx = "closed" /\ pace = 0 /\ seen = 0
  /\ edit = NoEdit /\ stale = FALSE
  /\ edits = 0 /\ faults = 0

-----------------------------------------------------------------------------
(* The OBS thread: Config::apply_hot.                                      *)
(*                                                                         *)
(* Under audio_state: the hold is taken off the published target, and the  *)
(* new Target Buffer compared with what is left.                           *)
EditBegin(s, a) ==
  /\ edit.phase = "idle" /\ edits < MaxEdits
  /\ edit' = [phase |-> IF Derive(UserTarget) = Derive(s) THEN "store" ELSE "grow",
              to |-> Derive(s), next |-> Derive(Derive(s) + Folded), adaptive |-> a]
  /\ edits' = edits + 1
  /\ UNCHANGED <<settings, holds, ring, clock, receiver, stale, faults>>

EditGrow ==
  /\ edit.phase = "grow"
  /\ GrowRing(edit.next)
  /\ edit' = [edit EXCEPT !.phase = "publish"]
  /\ UNCHANGED <<settings, holds, held, clock, receiver, stale, bounds>>

(* A deeper Target Buffer can leave less room for the hold. *)
EditPublish ==
  /\ edit.phase = "publish"
  /\ target' = edit.next
  /\ hold_ms' = IF edit.next - edit.to < Folded THEN edit.next - edit.to ELSE hold_ms
  /\ edit' = [edit EXCEPT !.phase = "store"]
  /\ stale' = FALSE
  /\ UNCHANGED <<low_latency, config, adaptive, hold_skew_ms, hold_bursts_ms, hold_wait_done, measured,
                 ring, clock, receiver, bounds>>

(* The lock is dropped; HotConfig::store, and the caller keeps the target. *)
EditStore ==
  /\ edit.phase = "store"
  /\ adaptive' = edit.adaptive /\ config' = edit.to
  /\ edit' = NoEdit
  /\ UNCHANGED <<low_latency, target, holds, ring, clock, receiver, stale, bounds>>

-----------------------------------------------------------------------------
(* The hold.                                                               *)
ForgetReadings == measured' = FALSE

(* AudioHold::sized, before_prime and regulate: the hold a reading asks    *)
(* for, if it moves the one `asked' now.  Which reading the windows yield  *)
(* is left open.                                                           *)
Sized(reading, covered) == Clamp(reading + Margin - covered, 0, HoldMax)

Moves(to, asked) ==
  IF primed
  THEN /\ ~low_latency /\ adaptive
       /\ to >= asked + RaiseMin \/ to + RelaxMin < asked
  ELSE to > asked

(* apply: the larger of the two asked for goes in force, as far as the     *)
(* target has room for it.                                                 *)
Apply(skew, bursts) ==
  LET asked == Most(skew, bursts)
      next  == Derive(UserTarget + asked)
      to    == IF low_latency THEN asked ELSE next - UserTarget
      moves == asked # Most(hold_skew_ms, hold_bursts_ms) /\ (low_latency \/ to # hold_ms)
  IN  /\ hold_skew_ms' = skew /\ hold_bursts_ms' = bursts
      /\ hold_ms' = IF moves THEN to ELSE hold_ms
      /\ IF moves /\ ~low_latency
         THEN Publish(next)
         ELSE UNCHANGED <<ring_target, capacity, target, stale>>

KeepHold == UNCHANGED <<hold_ms, hold_skew_ms, hold_bursts_ms,
                        ring_target, capacity, target, stale>>

(* observe_video_packet *)
VideoPacket ==
  /\ rx = "read" /\ video /\ AudioStateFree
  /\ rx' = "check"
  /\ \/ KeepHold /\ UNCHANGED measured      \* not live, or nothing heard yet
     \/ /\ heard /\ measured' = TRUE
        /\ \E skew \in Skews :
             LET to == Sized(skew, Lead + IF low_latency THEN 0 ELSE UserTarget)
             IN  IF Moves(to, hold_skew_ms) THEN Apply(to, hold_bursts_ms) ELSE KeepHold
  /\ UNCHANGED <<low_latency, config, adaptive, hold_wait_done, held, clock, video, pace, seen, edit, bounds>>

(* The end of handle_frame: observe_audio_frame. *)
ObserveAudio ==
  /\ rx = "observe" /\ AudioStateFree
  /\ rx' = "check" /\ heard' = TRUE
  /\ \/ KeepHold                            \* no burst reading yet
     \/ /\ ~low_latency
        /\ \E span \in Spans :
             LET to == Sized(span, UserTarget)
             IN  IF Moves(to, hold_bursts_ms) THEN Apply(hold_skew_ms, to) ELSE KeepHold
  /\ UNCHANGED <<low_latency, config, adaptive, hold_wait_done, measured, held, primed, warm,
                 video, pace, seen, edit, bounds>>

-----------------------------------------------------------------------------
(* The receiver's loop.                                                    *)
(*                                                                         *)
(* prepare_new_connection, and in it hold::reset_connection, is Open.      *)
(*                                                                         *)
(* Mutant: the hold is forgotten and stays in the published target.        *)
OpenUnpublished(v) ==
  /\ rx = "closed" /\ AudioStateFree
  /\ rx' = "check" /\ video' = v
  /\ warm' = Warmup
  /\ hold_ms' = 0 /\ hold_skew_ms' = 0 /\ hold_bursts_ms' = 0
  /\ hold_wait_done' = FALSE /\ ForgetReadings
  /\ UNCHANGED <<settings, ring, primed, heard, pace, seen, edit, stale, bounds>>

Open(v) ==
  /\ rx = "closed" /\ AudioStateFree
  /\ rx' = "check" /\ video' = v
  /\ warm' = Warmup
  /\ hold_ms' = 0 /\ hold_skew_ms' = 0 /\ hold_bursts_ms' = 0
  /\ hold_wait_done' = FALSE /\ ForgetReadings
  /\ IF hold_ms # 0 /\ ~low_latency
     THEN Publish(Derive(UserTarget))
     ELSE UNCHANGED <<ring_target, capacity, target, stale>>
  /\ UNCHANGED <<low_latency, config, adaptive, held, primed, heard, pace, seen, edit, bounds>>

(* apply_read_backpressure takes the ceiling once, and waits at it. *)
ReadCeiling ==
  /\ rx = "check"
  /\ IF low_latency
     THEN rx' = "read" /\ UNCHANGED pace
     ELSE rx' = "wait" /\ pace' = Ceiling(target)
  /\ UNCHANGED <<settings, holds, ring, clock, video, seen, edit, stale, bounds>>

Resume ==
  /\ rx = "wait" /\ fill <= pace
  /\ rx' = "read"
  /\ UNCHANGED <<settings, holds, ring, clock, video, pace, seen, edit, stale, bounds>>

(* handle_frame finds the ring in the frame's format; ensure_buffer_format *)
(* reads the watermarks when it does not.                                  *)
AudioFrame ==
  /\ rx = "read"
  /\ IF capacity = 0
     THEN rx' = "format" /\ seen' = target
     ELSE rx' = "frame" /\ UNCHANGED seen
  /\ UNCHANGED <<settings, holds, ring, clock, video, pace, edit, stale, bounds>>

FormatChange ==
  /\ rx = "read" /\ capacity # 0 /\ faults < MaxFaults
  /\ rx' = "format" /\ seen' = target
  /\ faults' = faults + 1
  /\ UNCHANGED <<settings, holds, ring, clock, video, pace, edit, stale, edits>>

(* The rest of ensure_buffer_format, with audio_state locked. *)
Configure ==
  /\ rx = "format" /\ AudioStateFree
  /\ IF capacity = 0
     THEN ring_target' = seen /\ capacity' = RingFor(seen) /\ stale' = (seen # target)
     ELSE capacity' = RingFor(ring_target) /\ UNCHANGED <<ring_target, stale>>
  /\ fill' = 0 /\ gapped' = FALSE
  /\ primed' = FALSE /\ heard' = FALSE /\ warm' = Warmup
  /\ rx' = "frame"
  /\ UNCHANGED <<settings, holds, video, pace, seen, edit, bounds>>

(* handle_frame: the warm-up discards the frame. *)
WarmUp ==
  /\ rx = "frame" /\ warm > 0 /\ AudioStateFree
  /\ warm' = warm - 1 /\ rx' = "check"
  /\ UNCHANGED <<settings, holds, ring, primed, heard, video, pace, seen, edit, stale, bounds>>

(* handle_frame: silence for a gap in the timestamps, then the frame. *)
WriteFrame(silence) ==
  /\ rx = "frame" /\ warm = 0
  /\ gapped' = (gapped \/ silence > 1)
  /\ fill' \in Kept(fill + silence + 1, gapped')
  /\ rx' = "observe"
  /\ UNCHANGED <<settings, holds, ring_target, capacity, clock, video, pace, seen, edit, stale, bounds>>

(* handle_frame: PTS repair gives the timeline up; the frame is the first  *)
(* of the new one.                                                         *)
ResetTimeline ==
  /\ rx = "frame" /\ warm = 0 /\ AudioStateFree /\ faults < MaxFaults
  /\ fill' = 1 /\ gapped' = FALSE
  /\ primed' = FALSE /\ heard' = FALSE
  /\ ForgetReadings
  /\ faults' = faults + 1
  /\ rx' = "observe"
  /\ UNCHANGED <<settings, hold_ms, hold_skew_ms, hold_bursts_ms, hold_wait_done,
                 ring_target, capacity, warm, video, pace, seen, edit, stale, edits>>

(* drain_audio_frames: a burst of decoder errors. *)
FlushDecoder ==
  /\ rx = "read" /\ AudioStateFree /\ faults < MaxFaults
  /\ fill' = 0 /\ gapped' = FALSE
  /\ primed' = FALSE /\ heard' = FALSE /\ warm' = 0
  /\ faults' = faults + 1
  /\ rx' = "check"
  /\ UNCHANGED <<settings, holds, ring_target, capacity, video, pace, seen, edit, stale, edits>>

(* handle_stream_read_error: the fade-out, the reset, and the reconnect. *)
Disconnect ==
  /\ rx = "read" /\ AudioStateFree /\ faults < MaxFaults
  /\ fill' = 0 /\ gapped' = FALSE
  /\ primed' = FALSE /\ heard' = FALSE /\ warm' = 0
  /\ ForgetReadings
  /\ video' = FALSE /\ rx' = "closed"
  /\ faults' = faults + 1
  /\ UNCHANGED <<settings, hold_ms, hold_skew_ms, hold_bursts_ms, hold_wait_done,
                 ring_target, capacity, pace, seen, edit, stale, edits>>

-----------------------------------------------------------------------------
(* The pump: pump_once, under audio_state.                                 *)
(*                                                                         *)
(* Mutant: the trim forgets the output lead.                               *)
TrimToTarget == target

(* maybe_trim_hidden_backlog *)
TrimTo == target + 1 + Lead
TrimDue == adaptive /\ ~low_latency /\ ~primed /\ fill > 1 /\ fill > TrimTo + TrimTrigger

PumpTrim ==
  /\ AudioStateFree /\ TrimDue
  /\ fill' = TrimTo /\ UNCHANGED gapped
  /\ UNCHANGED <<settings, holds, ring_target, capacity, clock, receiver, edit, stale, bounds>>

(* What the pump reads: one chunk, after the low-latency trim. *)
AfterRead ==
  IF low_latency /\ fill > LLMaxFill + hold_ms
  THEN Least(fill, LLKeep + hold_ms) - 1
  ELSE fill - 1

(* Priming, and the first chunk.  Without a skew reading the pump may wait *)
(* for one (prime_may_wait), a bounded time: this is the pass that goes    *)
(* ahead, with a reading or past the time.                                 *)
PumpPrime ==
  /\ AudioStateFree /\ ~primed /\ ~TrimDue
  /\ fill > 0 /\ fill >= PrimeThreshold
  /\ hold_wait_done' = (hold_wait_done \/ video)
  /\ primed' = TRUE
  /\ fill' = AfterRead /\ gapped' = (gapped /\ fill' # 0)
  /\ UNCHANGED <<settings, hold_ms, hold_skew_ms, hold_bursts_ms, measured,
                 ring_target, capacity, heard, warm, receiver, edit, stale, bounds>>

(* An empty buffer is concealed with silence, which changes nothing here. *)
PumpPlay ==
  /\ AudioStateFree /\ primed /\ fill > 0
  /\ fill' = AfterRead /\ gapped' = (gapped /\ fill' # 0)
  /\ UNCHANGED <<settings, holds, ring_target, capacity, clock, receiver, edit, stale, bounds>>

(* suspend_low_latency_clock *)
PumpSuspend ==
  /\ AudioStateFree /\ low_latency /\ primed /\ fill = 0
  /\ primed' = FALSE
  /\ UNCHANGED <<settings, holds, ring, heard, warm, receiver, edit, stale, bounds>>

-----------------------------------------------------------------------------
UI == EditGrow \/ EditPublish \/ EditStore
Reading == Resume \/ Configure \/ WarmUp \/ ObserveAudio \/ ReadCeiling
           \/ \E v \in BOOLEAN : Open(v)
           \/ \E silence \in Silences : WriteFrame(silence)
Faulty == FormatChange \/ ResetTimeline \/ FlushDecoder \/ Disconnect
Pump == PumpTrim \/ PumpPrime \/ PumpPlay \/ PumpSuspend

Next ==
  \/ \E s \in Settings, a \in BOOLEAN : EditBegin(s, a)
  \/ UI \/ Reading \/ AudioFrame \/ VideoPacket \/ Faulty \/ Pump

Spec == Init /\ [][Next]_vars

(* The workers' loops go round and an edit runs to its end.  As long as    *)
(* packets are read, audio is among them (SF).  After a trim the pump runs *)
(* again at once, and is not for ever overtaken by more than TrimTrigger   *)
(* of new audio (SF of PumpPrime).                                         *)
Fairness == /\ WF_vars(UI) /\ WF_vars(Reading) /\ SF_vars(AudioFrame)
            /\ WF_vars(Pump) /\ SF_vars(PumpPrime)

FairSpec == Spec /\ Fairness

-----------------------------------------------------------------------------
(* The published target is the Target Buffer the OBS thread has on record  *)
(* plus the hold in force, whatever order edits, readings and connections  *)
(* come in (audio/hold.rs:14, config.rs:94).                               *)
TargetIsUserPlusHold == edit.phase = "idle" => target = config + Folded

(* No more is held than the larger reading asks for (audio/hold.rs:203).   *)
HoldWithinNeed == hold_ms <= Most(hold_skew_ms, hold_bursts_ms)

(* The buffer works to the published target, and has the capacity for it   *)
(* and for the ceiling the receiver waits at, unless an edit published in  *)
(* between the receiver's reading of the target and its making of the ring *)
(* (config.rs:143, audio_in.rs:231).                                       *)
RingFollowsTarget ==
  capacity # 0 /\ ~stale =>
    /\ AudioStateFree => ring_target = target
    /\ capacity >= RingFor(target)

(* A frame that no gap precedes finds room for it, whatever gaps, bursts   *)
(* and edits came before, so that the read loop itself never costs audio   *)
(* and a gap costs no frame but the one after it (receiver/mod.rs:203).    *)
(* Low-latency mode has no ceiling; a ceiling above what the chunks can    *)
(* hold is never reached.                                                  *)
OnlyGapsLoseFrames ==
  rx = "frame" /\ warm = 0 /\ ~low_latency /\ ~stale /\ pace < MaxChunks => fill < Room

(* The comment there says of every frame that the ring never drops it.     *)
NoFrameLost ==
  rx = "frame" /\ warm = 0 /\ ~low_latency /\ ~stale =>
    \A silence \in Silences : fill + silence + 1 <= Room

(* config.rs:143 says that the ceiling never exceeds the ring.             *)
CeilingInRing == capacity # 0 /\ AudioStateFree => Ceiling(target) <= capacity

(* The ring shrinks only when it is empty (audio_buffer.rs:110).           *)
ShrinksOnlyEmpty == [][capacity' < capacity => fill' = 0]_vars

(* Playback waits for more than the buffer can come to hold: the chunks or *)
(* the ring are full before it, or the receiver waits at a ceiling that    *)
(* the target has been raised past meanwhile.                              *)
OutOfReach ==
  \/ capacity # 0 /\ PrimeThreshold > Room
  \/ rx = "wait" /\ pace < PrimeThreshold

(* A connection that carries audio starts to play: readings, edits, gaps   *)
(* and faults in any order leave the buffer waiting for audio, while the   *)
(* receiver waits for the buffer, only where what playback waits for has   *)
(* been put out of its reach, or the ring was made across an edit.         *)
PlaybackStarts == (rx # "closed") ~> (primed \/ rx = "closed" \/ stale \/ OutOfReach)

(* README.md:92 and docs/architecture.md:112 promise it of every Target    *)
(* Buffer and every hold.                                                  *)
AlwaysStarts == (rx # "closed") ~> (primed \/ rx = "closed")

(* The receiver does not wait at its ceiling for good (receiver/mod.rs:219).*)
WaitEnds == (rx = "wait" /\ ~stale) ~> (rx # "wait")

=============================================================================
