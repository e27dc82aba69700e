----------------------------- MODULE AudioPump -----------------------------
(***************************************************************************)
(* The audio pump (irl-source/src/audio/pump.rs): the thread that hands    *)
(* OBS the audio of the jitter buffer on an output clock of its own, with  *)
(* the receiver's side of that clock (receiver/stream.rs, audio_in.rs,     *)
(* decode.rs): the fade at a disconnect, the slow close after it, and the  *)
(* resets of a broken timeline.                                            *)
(*                                                                         *)
(* Every time is kept relative to now, so TimePasses lowers them all by    *)
(* one.  Of the audio only its length is kept.  pump_once and the          *)
(* receiver's sections run under the audio_state lock: each is one action. *)
(***************************************************************************)
EXTENDS Integers

CONSTANTS
  Modes,       (* Low Latency Audio, on or off                            *)
  Chunk,       (* one decoded frame                                       *)
  Target,      (* the buffer's target                                     *)
  OutputLead,  (* AUDIO_OUT_LEAD_MS, or three chunks                      *)
  MaxLag,      (* AUDIO_OUT_MAX_LAG_MS                                    *)
  TrimTrigger, (* AUDIO_TRIM_TRIGGER_MS                                   *)
  LLMaxFill,   (* AUDIO_LL_MAX_FILL_MS                                    *)
  FadeLength,  (* FADE_DURATION_MS                                        *)
  Burst,       (* AUDIO_PUMP_BURST                                        *)
  MinSleep, MaxSleep, (* AUDIO_PUMP_SLEEP_MS, AUDIO_PUMP_MAX_SLEEP_MS     *)
  Stretch,     (* what the speed may add to a chunk or take from it       *)
  Oversleep,   (* how much later than asked for a thread that is not
                  stalled may be done with a burst                        *)
  MaxFill      (* BOUND: what the buffer holds                            *)

(* The last line says how late a thread may be without being taken for     *)
(* stalled: later than the lead makes good at once, or, right after        *)
(* priming, when the clock is no more than a chunk and a sample ahead,     *)
(* later than that, and OBS does run dry.                                  *)
ASSUME PumpAssumption ==
  /\ Modes \subseteq BOOLEAN
  /\ Chunk \in Nat \ {0} /\ Target \in Nat /\ OutputLead \in Nat /\ OutputLead >= 3 * Chunk
  /\ MaxLag \in Nat /\ TrimTrigger \in Nat /\ LLMaxFill \in Nat /\ FadeLength \in Nat \ {0}
  /\ Burst \in Nat \ {0} /\ MinSleep \in Nat \ {0} /\ MaxSleep \in Nat /\ MaxSleep >= MinSleep
  /\ Stretch \in 0..(Chunk - 1) /\ Oversleep \in Nat /\ MaxFill \in Nat
  /\ OutputLead >= Oversleep + MinSleep /\ Oversleep <= Chunk + 1

VARIABLES
  low_latency,
  pc,           (* the audio thread: "asleep", or in a burst              *)
  left,         (* pump_once calls left in the burst                      *)
  idle_sleep,   (* AudioPump::idle_sleep_ms                               *)
  due,          (* when a thread that is not stalled has finished         *)
  stalled,      (* the machine keeps the audio thread from running        *)
  reconnecting, (* RunFlags::reconnecting                                 *)
  rx,           (* what the receiver is doing                             *)
  clock,        (* OutputClock: is it primed, and how far ahead of now is
                   the sample it hands out next                           *)
  mapping,      (* PlayoutMapping: is there one, and when does it end     *)
  fill,         (* what the jitter buffer holds                           *)
  align_read_pending,
  fade_in_pending, fade_in_remaining, conceal_fade_pending,
  out,          (* history: what OBS was handed last, and when it ends    *)
  stale,        (* history: OBS was handed audio too late, or after a fade *)
  edge,         (* history: the next chunk does not continue the last     *)
  clicked,      (* history: a chunk after a dropout that did not fade in  *)
  centred,      (* history: the levels are those the aligned read chose   *)
  shaken        (* history: a stall not caught up yet                     *)

thread  == <<pc, left, idle_sleep, due>>
fades   == <<fade_in_pending, fade_in_remaining, conceal_fade_pending>>
timing  == <<clock, mapping, align_read_pending>>
history == <<out, stale, edge, clicked, centred, shaken>>
vars == <<low_latency, thread, stalled, reconnecting, rx, timing, fill, fades, history>>

Least(a, b) == IF a <= b THEN a ELSE b
Most(a, b)  == IF a >= b THEN a ELSE b

Stopped   == [primed |-> FALSE, ahead |-> 0]
NoMapping == [on |-> FALSE, ends |-> 0]
Nothing   == [what |-> "none", ends |-> 0]
Past      == -(MaxLag + Chunk + 1)  (* BOUND: a time further back counts as this *)

TypeOK ==
  /\ pc \in {"asleep", "burst"} /\ left \in 0..Burst
  /\ idle_sleep \in MinSleep..MaxSleep /\ due \in Nat
  /\ {low_latency, stalled, reconnecting, align_read_pending, fade_in_pending,
      conceal_fade_pending, stale, edge, clicked, centred, shaken} \subseteq BOOLEAN
  /\ rx \in {"opening", "reading", "failed", "closing", "waiting"}
  /\ clock \in [primed : BOOLEAN, ahead : Int]
  /\ mapping \in [on : BOOLEAN, ends : Int]
  /\ out \in [what : {"none", "real", "silence", "fade"}, ends : Int]
  /\ fill \in 0..MaxFill /\ fade_in_remaining \in 0..FadeLength

Init ==
  /\ low_latency \in Modes
  /\ pc = "asleep" /\ left = 0 /\ idle_sleep = MinSleep /\ due = MinSleep + Oversleep
  /\ stalled = FALSE /\ reconnecting = FALSE /\ rx = "opening"
  /\ clock = Stopped /\ mapping = NoMapping /\ fill = 0 /\ align_read_pending = FALSE
  /\ fade_in_pending = FALSE /\ fade_in_remaining = 0 /\ conceal_fade_pending = FALSE
  /\ out = Nothing /\ stale = FALSE /\ edge = FALSE /\ clicked = FALSE
  /\ centred = FALSE /\ shaken = FALSE

-----------------------------------------------------------------------------
(* Time.  A thread that is not stalled has run its burst by the time it is *)
(* due; a stalled one loses any amount of time.                            *)
Older(t) == IF t > Past THEN t - 1 ELSE t

TimePasses ==
  /\ due > 0 \/ stalled
  /\ due' = IF due > 0 THEN due - 1 ELSE due
  /\ clock' = IF clock.primed THEN [clock EXCEPT !.ahead = Older(@)] ELSE clock
  /\ mapping' = IF mapping.on THEN [mapping EXCEPT !.ends = Older(@)] ELSE mapping
  /\ out' = IF out.what = "none" THEN out ELSE [out EXCEPT !.ends = Older(@)]
  /\ UNCHANGED <<low_latency, pc, left, idle_sleep, stalled, reconnecting, rx,
                 align_read_pending, fill, fades, stale, edge, clicked, centred, shaken>>

Stall ==
  /\ ~stalled /\ stalled' = TRUE /\ shaken' = TRUE
  /\ UNCHANGED <<low_latency, thread, reconnecting, rx, timing, fill, fades,
                 out, stale, edge, clicked, centred>>

Recover ==
  /\ stalled /\ stalled' = FALSE
  /\ UNCHANGED <<low_latency, thread, reconnecting, rx, timing, fill, fades, history>>

-----------------------------------------------------------------------------
(* What OBS is handed, from the clock's next sample on (OutputClock::claim). *)
Hand(what, line, length) ==
  /\ out' = [what |-> what, ends |-> line + length]
  /\ stale' = \/ stale
              \/ out.what = "fade"
              \/ line < (IF what = "fade" THEN 0 ELSE -MaxLag)

(* A fade may be followed by another timeline, never by its own.           *)
Unhanded == out' = IF out.what = "fade" THEN Nothing ELSE out

-----------------------------------------------------------------------------
(* The audio thread.                                                       *)

(* audio_thread's loop: nothing while reconnecting, else a burst.          *)
Wake ==
  /\ pc = "asleep" /\ ~stalled /\ due <= Oversleep
  /\ IF reconnecting
     THEN pc' = "asleep" /\ left' = 0 /\ due' = 1 + Oversleep
     ELSE pc' = "burst" /\ left' = Burst /\ due' = due
  /\ UNCHANGED <<low_latency, idle_sleep, stalled, reconnecting, rx, timing,
                 fill, fades, history>>

(* pump_once's answer.  A pass that emitted goes on with the burst, and    *)
(* with the next one; after one that did not the thread sleeps, unless     *)
(* something came before it in this burst.                                 *)
Pumped ==
  /\ left' = IF left = 1 THEN Burst ELSE left - 1
  /\ idle_sleep' = MinSleep
  /\ UNCHANGED <<pc, due>>

Idle(sleep) ==
  /\ idle_sleep' = sleep
  /\ IF left = Burst
     THEN pc' = "asleep" /\ left' = 0 /\ due' = sleep + Oversleep
     ELSE left' = Burst /\ UNCHANGED <<pc, due>>

PumpStep == pc = "burst" /\ ~stalled

(* Mutant: the flag is only looked at before the burst.                    *)
PausedNever == FALSE

(* pump_once: the receiver has paused playback.                            *)
Paused == reconnecting

PumpPaused ==
  /\ PumpStep /\ Paused
  /\ Idle(idle_sleep)
  /\ UNCHANGED <<low_latency, stalled, reconnecting, rx, timing, fill, fades, history>>

(* Mutant: one chunk in either mode.                                       *)
LeadOfAChunk == Chunk

(* output_lead_ns *)
lead_ns == IF low_latency THEN Chunk ELSE OutputLead

(* maybe_trim_hidden_backlog, with Adaptive Speed on: whole chunks go from *)
(* the front, down to what priming needs.                                  *)
TrimTo(keep) == Least(fill, Chunk * Most(1, keep \div Chunk))
HiddenKeep == Target + Chunk + OutputLead
HiddenBacklog ==
  ~low_latency /\ ~clock.primed /\ fill > Chunk /\ fill > HiddenKeep + TrimTrigger

PumpTrim ==
  /\ PumpStep /\ ~Paused /\ HiddenBacklog
  /\ fill' = TrimTo(HiddenKeep)
  /\ Pumped
  /\ UNCHANGED <<low_latency, stalled, reconnecting, rx, timing, fades, history>>

(* Enough is queued: sleep until the lead has run down to the next chunk.  *)
Enough == clock.primed /\ clock.ahead >= lead_ns

SleepToDue == Least(Most(clock.ahead - lead_ns, MinSleep), MaxSleep)

PumpEnough ==
  /\ PumpStep /\ ~Paused /\ Enough
  /\ Idle(SleepToDue)
  /\ shaken' = FALSE
  /\ UNCHANGED <<low_latency, stalled, reconnecting, rx, timing, fill, fades,
                 out, stale, edge, clicked, centred>>

Lagging == clock.primed /\ clock.ahead < -MaxLag

(* Mutant: the clock is stood down and the mapping stays.                  *)
SuspendClock ==
  /\ clock' = Stopped /\ conceal_fade_pending' = TRUE /\ UNCHANGED mapping

(* suspend_low_latency_clock                                               *)
Suspend ==
  /\ clock' = Stopped /\ mapping' = NoMapping
  /\ conceal_fade_pending' = TRUE

PumpSuspend ==
  /\ PumpStep /\ ~Paused /\ low_latency /\ Lagging /\ fill = 0
  /\ Suspend
  /\ Idle(MinSleep)
  /\ edge' = TRUE /\ Unhanded
  /\ UNCHANGED <<low_latency, stalled, reconnecting, rx, align_read_pending, fill,
                 fade_in_pending, fade_in_remaining, stale, clicked, centred, shaken>>

(* The fill that starts playback: the hold is part of the target.  What    *)
(* prime_may_wait adds is a wait, which ends (Priming).                    *)
MayPrime == fill > 0 /\ (low_latency \/ fill >= Target + OutputLead)

(* Where the clock stands once this pass has restarted or primed it.       *)
Line == IF clock.primed /\ ~Lagging THEN clock.ahead ELSE Chunk

(* Nothing to prime with; or an empty buffer, which Low Latency waits out. *)
PumpWaits ==
  /\ PumpStep /\ ~Paused
  /\ \/ ~clock.primed /\ ~HiddenBacklog   (* prime_may_wait may hold it *)
     \/ clock.primed /\ ~Enough /\ ~Lagging /\ low_latency /\ fill = 0
  /\ Idle(MinSleep)
  /\ UNCHANGED <<low_latency, stalled, reconnecting, rx, timing, fill, fades, history>>

(* finalize_audio_output                                                   *)
Publish(line, length) == mapping' = [on |-> TRUE, ends |-> line + length]

(* emit_concealment_silence: a chunk of it on the clock's line.            *)
PumpConceals ==
  /\ PumpStep /\ ~Paused /\ ~low_latency
  /\ clock.primed /\ ~Enough /\ fill = 0
  /\ clock' = [clock EXCEPT !.ahead = Line + Chunk]
  /\ Hand("silence", Line, Chunk)
  /\ Publish(Line, Chunk)
  /\ conceal_fade_pending' = TRUE /\ edge' = TRUE
  /\ Pumped
  /\ UNCHANGED <<low_latency, stalled, reconnecting, rx, fill, align_read_pending,
                 fade_in_pending, fade_in_remaining, clicked, centred, shaken>>

(* The fill the chunk is read from: Low Latency skips a runaway backlog.   *)
Backlog == low_latency /\ fill > LLMaxFill
AfterTrim == IF Backlog THEN TrimTo(2 * Chunk) ELSE fill

(* timing::aligning_read_frames: one read of another size, so that whole   *)
(* chunks from then on leave levels half a chunk either side of the target. *)
AligningRead(level) ==
  LET delta == (level - Target - Chunk \div 2) % Chunk
  IN  IF delta = 0 THEN Chunk
      ELSE IF 2 * delta >= Chunk THEN delta ELSE delta + Chunk

(* Fades: the start of a connection ramps in over several chunks, and      *)
(* only once that is over does a chunk after a dropout get its short one.  *)
Dropout  == conceal_fade_pending \/ Lagging
RampLeft == IF fade_in_pending THEN FadeLength ELSE fade_in_remaining

FadeIn(length) ==
  /\ fade_in_pending' = FALSE
  /\ fade_in_remaining' = Most(RampLeft - length, 0)
  /\ conceal_fade_pending' = (Dropout /\ ~fade_in_pending /\ RampLeft > 0)
FadesFromNothing == RampLeft = FadeLength \/ (RampLeft = 0 /\ Dropout)

(* apply_output_speed: a chunk of got comes out longer or shorter, with    *)
(* Adaptive Speed on and the audio buffered.                               *)
Stretched(got) ==
  IF low_latency THEN {got} ELSE {n \in (got - Stretch)..(got + Stretch) : n > 0}

(* A chunk is read and handed over.  A clock that lags is restarted first, *)
(* one that does not run is primed.                                        *)
PumpPlays ==
  /\ PumpStep /\ ~Paused /\ ~Enough
  /\ IF clock.primed THEN fill > 0 ELSE ~HiddenBacklog /\ MayPrime
  /\ LET aligns == ~low_latency /\ (align_read_pending \/ ~clock.primed)
         asked == IF aligns THEN AligningRead(fill) ELSE Chunk
         got == Least(asked, AfterTrim)
     IN  \E length \in Stretched(got) :
           /\ fill' = AfterTrim - got
           /\ clock' = [primed |-> TRUE, ahead |-> Line + length]
           /\ Hand("real", Line, length)
           /\ Publish(Line, length)
           /\ FadeIn(length)
           /\ align_read_pending' = ((align_read_pending \/ ~clock.primed) /\ low_latency)
           /\ clicked' = (clicked \/ ((edge \/ Lagging) /\ ~FadesFromNothing))
           /\ edge' = FALSE
           /\ centred' = (~low_latency /\ got = asked /\ (centred \/ aligns))
  /\ Pumped
  /\ UNCHANGED <<low_latency, stalled, reconnecting, rx, shaken>>

-----------------------------------------------------------------------------
(* The receiver.                                                           *)

(* The buffer has been emptied, and the clock and what goes with it stand  *)
(* down: reset_audio_timing_state.                                         *)
StandDown ==
  /\ fill' = 0
  /\ clock' = Stopped /\ mapping' = NoMapping
  /\ align_read_pending' = FALSE /\ conceal_fade_pending' = FALSE
  /\ edge' = FALSE /\ centred' = FALSE /\ Unhanded

(* A decoded frame is written.                                             *)
Write ==
  /\ rx = "reading" /\ fill + Chunk <= MaxFill
  /\ fill' = fill + Chunk
  /\ UNCHANGED <<low_latency, thread, stalled, reconnecting, rx, timing, fades, history>>

(* A reset of the repaired timestamps (handle_frame), or of the decoder    *)
(* after a burst of errors (drain_audio_frames).                           *)
TimelineReset ==
  /\ rx = "reading"
  /\ StandDown
  /\ UNCHANGED <<low_latency, thread, stalled, reconnecting, rx, fade_in_pending,
                 fade_in_remaining, stale, clicked, shaken>>

(* ensure_buffer_format: audio of another format.                          *)
FormatChange ==
  /\ rx = "reading"
  /\ fill' = 0
  /\ clock' = Stopped /\ mapping' = NoMapping
  /\ edge' = FALSE /\ centred' = FALSE /\ Unhanded
  /\ UNCHANGED <<low_latency, thread, stalled, reconnecting, rx, align_read_pending,
                 fades, stale, clicked, shaken>>

(* handle_stream_read_error.  First the pump is told to pause ...          *)
ReadError ==
  /\ rx = "reading" /\ rx' = "failed"
  /\ reconnecting' = TRUE
  /\ UNCHANGED <<low_latency, thread, stalled, timing, fill, fades, history>>

(* ... then what is buffered fades out, unless its time has passed ...     *)
FadeCurrent == clock.ahead >= 0

(* (fade_out_buffered_audio)                                               *)
FadeOut ==
  /\ rx = "failed" /\ rx' = "closing"
  /\ LET got == Least(FadeLength, fill)
     IN  IF got > 0 /\ clock.primed
         THEN /\ fill' = fill - got /\ centred' = FALSE
              /\ IF FadeCurrent
                 THEN /\ clock' = [clock EXCEPT !.ahead = @ + got]
                      /\ Hand("fade", clock.ahead, got)
                 ELSE UNCHANGED <<clock, out, stale>>
         ELSE UNCHANGED <<fill, clock, out, stale, centred>>
  /\ UNCHANGED <<low_latency, thread, stalled, reconnecting, mapping,
                 align_read_pending, fades, edge, clicked, shaken>>

(* ... and when the connection is closed, which may take any time, the     *)
(* rest is dropped.                                                        *)
Closed ==
  /\ rx = "closing" /\ rx' = "waiting"
  /\ StandDown
  /\ fade_in_pending' = TRUE
  /\ UNCHANGED <<low_latency, thread, stalled, reconnecting, fade_in_remaining,
                 stale, clicked, shaken>>

(* wait_for_reconnect is over, and the stream is opened.                   *)
WaitOver ==
  /\ rx = "waiting" /\ rx' = "opening"
  /\ reconnecting' = FALSE
  /\ UNCHANGED <<low_latency, thread, stalled, timing, fill, fades, history>>

OpenFails ==
  /\ rx = "opening" /\ rx' = "waiting"
  /\ reconnecting' = TRUE
  /\ UNCHANGED <<low_latency, thread, stalled, timing, fill, fades, history>>

(* prepare_new_connection                                                  *)
Opens ==
  /\ rx = "opening" /\ rx' = "reading"
  /\ fade_in_pending' = TRUE /\ fade_in_remaining' = 0
  /\ UNCHANGED <<low_latency, thread, stalled, reconnecting, timing, fill,
                 conceal_fade_pending, history>>

Pump ==
  \/ Wake \/ PumpPaused \/ PumpTrim \/ PumpEnough \/ PumpSuspend
  \/ PumpWaits \/ PumpConceals \/ PumpPlays

Receiver ==
  \/ Write \/ TimelineReset \/ FormatChange
  \/ ReadError \/ FadeOut \/ Closed \/ WaitOver \/ OpenFails \/ Opens

Next == TimePasses \/ Stall \/ Recover \/ Pump \/ Receiver

Spec == Init /\ [][Next]_vars

-----------------------------------------------------------------------------
(* Nothing reaches OBS too late to be played, for which OBS would grow its *)
(* buffering for good, and nothing is played after a disconnect's fade on  *)
(* the line it ended, whatever the close takes and wherever in a burst the *)
(* pump is (fade_out_buffered_audio, pump_once).                           *)
NoStaleOutput == ~stale

(* A buffered source whose thread is not stalled never lets OBS run out of *)
(* audio between priming and a disconnect: real or concealed, what it has  *)
(* been handed reaches past now (module comment of pump.rs, 3).            *)
NeverRunsDry ==
  ~low_latency /\ clock.primed /\ ~reconnecting /\ ~shaken => clock.ahead >= 0

(* The mapping video is scheduled through is that of the clock line being  *)
(* played: it ends where the line's next sample begins, and no mapping     *)
(* outlives its line (finalize_audio_output, suspend_low_latency_clock).   *)
MappingOfTheLine ==
  mapping.on => clock.primed /\ (mapping.ends = clock.ahead \/ out.what = "fade")

(* The one odd read after priming leaves the level, for as long as chunks  *)
(* are read whole, half a chunk off the target: the two levels it moves    *)
(* between have the target in the middle (aligning_read_frames).           *)
TargetInTheMiddle == centred => (fill - Target) % Chunk = Chunk \div 2

(* The first chunk after a dropout fades in from nothing                   *)
(* (docs/audio-pipeline.md, "the first real chunk after the dropout gets a *)
(* short fade-in").                                                        *)
DropoutFadesIn == ~clicked
=============================================================================
