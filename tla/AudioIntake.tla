---------------------------- MODULE AudioIntake ----------------------------
(***************************************************************************)
(* Decoded audio on its way into the jitter buffer, on the receiver thread *)
(* (irl-source/src/receiver/audio_in.rs, decode.rs): counting the decoder's *)
(* errors, repairing timestamps (PtsRepair), discarding the warm-up, silence *)
(* for a gap, the flush of a broken timeline, and the keyframe gate.       *)
(*                                                                         *)
(* Nothing here depends on where a timeline starts: after every frame all  *)
(* timestamps are shifted so that last_pts is 0, which keeps them small    *)
(* over behaviours of any length.  Of the buffer only the timestamp of the *)
(* last write since it was emptied is kept; what its levels do is in       *)
(* Priming, its bytes in AudioBuffer, the output clock in AudioPump.       *)
(***************************************************************************)
EXTENDS PtsRepair

CONSTANTS
  Gaps,      (* how far a frame may be from where it is expected          *)
  Formats,   (* sample formats: rate and channels                         *)
  Warmup,    (* frames that make STARTUP_AUDIO_WARMUP_MS                  *)
  Burst,     (* DECODER_ERROR_BURST                                       *)
  Gated      (* what Wait For Keyframe may be                             *)

ASSUME IntakeAssumption ==
  /\ Gaps \subseteq Int /\ Formats # {} /\ Gated \subseteq BOOLEAN
  /\ Warmup \in Nat /\ Burst \in Nat \ {0}

NoFormat == "none"
Empty    == [written |-> FALSE, pts |-> 0]

VARIABLES
  phase,          (* "closed", or the receiver's next step with a packet  *)
  repair,         (* AudioIntake::pts                                     *)
  format,         (* the buffer's, NoFormat until there is one           *)
  buffer,         (* the last write since the buffer was emptied          *)
  warmup,         (* startup_warmup_remaining_ms, in frames               *)
  errors,         (* audio_decode_errors                                  *)
  cooled,         (* no decoder flush within the cooldown                 *)
  gate,           (* Wait For Keyframe on, video there, no keyframe yet   *)
  timeline_reset, (* VideoFlags::timeline_reset                           *)
  sent,           (* history: the timestamp judged last                   *)
  steady,         (* history: frames in a row spaced as their duration says *)
  locked,         (* history: the last frame kept its own timestamp       *)
  ran_back        (* history: a write went back by SmallGap or more       *)

decoding == <<errors, cooled>>
history  == <<sent, steady, locked>>
intake_vars == <<phase, repair, format, buffer, warmup, decoding, gate, timeline_reset,
          history, ran_back>>

(* BOUND: steady counts no further.  What goes back by less than SmallGap  *)
(* may take a while to come to where a small gap is seen.                  *)
SteadyBound == RelockCount + SmallGap \div RelockStep + SmallGap \div Duration

IntakeTypeOK ==
  /\ phase \in {"closed", "reading", "draining"}
  /\ repair \in Repairs
  /\ format \in Formats \cup {NoFormat}
  /\ buffer \in [written : BOOLEAN, pts : Int]
  /\ warmup \in 0..Warmup
  /\ errors \in 0..(Burst - 1)
  /\ {cooled, gate, timeline_reset, locked, ran_back} \subseteq BOOLEAN
  /\ sent \in Int /\ steady \in 0..SteadyBound

IntakeInit ==
  /\ phase = "closed" /\ repair = Fresh
  /\ format = NoFormat /\ buffer = Empty /\ warmup = Warmup
  /\ errors = 0 /\ cooled = TRUE
  /\ gate = FALSE /\ timeline_reset = FALSE
  /\ sent = 0 /\ steady = 0 /\ locked = TRUE /\ ran_back = FALSE

-----------------------------------------------------------------------------
(* The connection.                                                         *)

(* open_stream_attempt's init_pts_repair and prepare_new_connection.       *)
Connect ==
  /\ phase = "closed" /\ phase' = "reading"
  /\ repair' = Fresh /\ warmup' = Warmup
  /\ gate' \in Gated
  /\ steady' = 0
  /\ UNCHANGED <<format, buffer, decoding, timeline_reset, sent, locked, ran_back>>

(* handle_stream_read_error: the buffer is flushed and, with the timing    *)
(* state, the warm-up ends; close_ffmpeg resets the repair and the counts. *)
Disconnect ==
  /\ phase = "reading" /\ phase' = "closed"
  /\ buffer' = Empty /\ warmup' = 0
  /\ repair' = Fresh /\ errors' = 0 /\ cooled' = TRUE
  /\ UNCHANGED <<format, gate, timeline_reset, history, ran_back>>

-----------------------------------------------------------------------------
(* The decoder.                                                            *)

(* audio_error_burst: one error more, and at a burst a flush of the        *)
(* decoder, unless one was just made.                                      *)
Flushes == errors + 1 >= Burst /\ cooled
CountError ==
  /\ errors' = (errors + 1) % Burst
  /\ cooled' = (cooled /\ ~Flushes)

(* handle_audio_packet: avcodec_send_packet fails, or takes the packet (at *)
(* the second try, or not at all, when its output had to be drained first). *)
SendFails ==
  /\ phase = "reading" /\ phase' = "draining"
  /\ CountError
  /\ UNCHANGED <<repair, format, buffer, warmup, gate, timeline_reset, history, ran_back>>

Send ==
  /\ phase = "reading" /\ phase' = "draining"
  /\ errors' = 0
  /\ UNCHANGED <<repair, format, buffer, warmup, cooled, gate, timeline_reset, history, ran_back>>

(* drain_audio_frames: nothing more is ready.                              *)
Drained ==
  /\ phase = "draining" /\ phase' = "reading"
  /\ UNCHANGED <<repair, format, buffer, warmup, decoding, gate, timeline_reset, history, ran_back>>

(* avcodec_receive_frame fails: a flush at a burst starts the timeline     *)
(* over, with nothing left in the buffer.                                  *)
ReceiveFails ==
  /\ phase = "draining" /\ phase' = "reading"
  /\ CountError
  /\ IF Flushes
     THEN buffer' = Empty /\ warmup' = 0 /\ repair' = Fresh /\ steady' = 0
     ELSE UNCHANGED <<buffer, warmup, repair, steady>>
  /\ UNCHANGED <<format, gate, timeline_reset, sent, locked, ran_back>>

(* The cooldown of the flush passes.                                       *)
Cool ==
  /\ ~cooled /\ cooled' = TRUE
  /\ UNCHANGED <<phase, repair, format, buffer, warmup, errors, gate, timeline_reset,
                 history, ran_back>>

-----------------------------------------------------------------------------
(* handle_frame.                                                           *)

(* ensure_buffer_format: a frame of another format empties the buffer and  *)
(* begins a warm-up.                                                       *)
ReadyBuffer(f) == IF f = format THEN buffer ELSE Empty
ReadyWarmup(f) == IF f = format THEN warmup ELSE Warmup

(* write_pts, in the time of the frame judged.                             *)
Write(b, pts) == [written |-> TRUE, pts |-> pts]
Backwards(b, pts) == b.written /\ pts <= b.pts - SmallGap

(* Mutant: a reset timeline goes on behind the old one.                    *)
NotEmptied(v, f) == ReadyBuffer(f)

Emptied(v, f) == IF v.action = "Reset" THEN Empty ELSE ReadyBuffer(f)

(* Timestamps from here on count from base.  A write older than a frame is *)
(* kept as a frame old: nothing written later can go back behind it.       *)
Shifted(b, base) ==
  IF b.written THEN [b EXCEPT !.pts = IF @ - base < -Duration THEN -Duration ELSE @ - base]
  ELSE Empty

(* The timestamp of the frame is judged, and everything is counted from    *)
(* the timeline's new last_pts.                                            *)
Judge(v, pts) ==
  /\ repair' = [v.repair EXCEPT !.last_pts = 0]
  /\ sent' = pts - v.repair.last_pts
  /\ steady' = IF repair.initialised /\ pts = sent + Duration
               THEN IF steady < SteadyBound THEN steady + 1 ELSE steady
               ELSE 0
  /\ locked' = (v.corrected = pts)

(* What a frame says of its start: anything, or what a sender that goes on *)
(* as before would say.                                                    *)
Timestamps == {Expected(repair) + gap : gap \in Gaps} \cup {sent + Duration}

(* The frame falls into the warm-up: its verdict is not acted on.          *)
WarmupFrame(f, pts) ==
  LET v == Evaluate(repair, pts)
  IN  /\ ReadyWarmup(f) > 0
      /\ warmup' = ReadyWarmup(f) - 1
      /\ buffer' = Shifted(ReadyBuffer(f), v.repair.last_pts)
      /\ Judge(v, pts)
      /\ cooled' = cooled
      /\ UNCHANGED <<timeline_reset, ran_back>>

(* The verdict is acted on.  A gap is filled with silence that ends where  *)
(* the frame begins; a broken timeline empties the buffer, is passed on to *)
(* video, and forgets what the decoder did.  The frame itself is written   *)
(* unless it cannot be resampled or the keyframe gate is closed.           *)
DispatchedFrame(f, pts, resampled) ==
  LET v == Evaluate(repair, pts)
      emptied == Emptied(v, f)
      filled  == IF v.action = "Silence" THEN Write(emptied, Expected(repair)) ELSE emptied
      kept    == resampled /\ ~gate
      written == IF kept THEN Write(filled, v.corrected) ELSE filled
  IN  /\ ReadyWarmup(f) = 0
      /\ warmup' = 0
      /\ buffer' = Shifted(written, v.repair.last_pts)
      /\ Judge(v, pts)
      /\ timeline_reset' = (timeline_reset \/ v.action = "Reset")
      /\ cooled' = (cooled \/ v.action = "Reset")
      /\ ran_back' = \/ ran_back
                     \/ v.action = "Silence" /\ Backwards(emptied, Expected(repair))
                     \/ kept /\ Backwards(filled, v.corrected)

(* One decoded frame.  One without a timestamp is taken to start where it  *)
(* is expected, and before the first that has one it is dropped.           *)
HandleFrame ==
  /\ phase = "draining"
  /\ \E f \in Formats, resampled \in BOOLEAN, pts \in Timestamps :
       /\ WarmupFrame(f, pts) \/ DispatchedFrame(f, pts, resampled)
       /\ format' = f
  /\ errors' = 0
  /\ UNCHANGED <<phase, gate>>

FrameWithoutTimestamp ==
  /\ phase = "draining" /\ ~repair.initialised
  /\ \E f \in Formats :
       /\ format' = f
       /\ buffer' = ReadyBuffer(f) /\ warmup' = ReadyWarmup(f)
  /\ errors' = 0
  /\ UNCHANGED <<phase, repair, cooled, gate, timeline_reset, history, ran_back>>

-----------------------------------------------------------------------------
(* The video thread: it decodes a key packet; it takes the request.        *)
KeyframeSeen ==
  /\ gate /\ gate' = FALSE
  /\ UNCHANGED <<phase, repair, format, buffer, warmup, decoding, timeline_reset,
                 history, ran_back>>

VideoTakesReset ==
  /\ timeline_reset /\ timeline_reset' = FALSE
  /\ UNCHANGED <<phase, repair, format, buffer, warmup, decoding, gate, history, ran_back>>

IntakeNext ==
  \/ Connect \/ Disconnect
  \/ SendFails \/ Send \/ Drained \/ ReceiveFails \/ Cool
  \/ HandleFrame \/ FrameWithoutTimestamp
  \/ KeyframeSeen \/ VideoTakesReset

IntakeSpec == IntakeInit /\ [][IntakeNext]_intake_vars

-----------------------------------------------------------------------------
(* Whatever the sender's timestamps do, and whatever verdict the warm-up   *)
(* swallows, no write into the buffer starts SmallGap or more before the   *)
(* write ahead of it: a timeline that goes back further is emptied first   *)
(* (handle_frame, write_pts).                                              *)
QueueRunsForward == ~ran_back

(* A sender that keeps its frames apart by their duration gets its own     *)
(* timestamps back, whatever small gaps or wobble had moved the repaired   *)
(* timeline off them: no lip-sync error stands (evaluate's relock).        *)
SteadyStreamRelocks == steady = SteadyBound => locked
=============================================================================
