------------------------------ MODULE Samples ------------------------------
(***************************************************************************)
(* Arithmetic on frames, time stamps and gains (irl-core rescale.rs,       *)
(* timing.rs, dsp.rs, and the conversions of pts_repair.rs), where the     *)
(* other modules count in one unit and have no rounding.  A gain is a      *)
(* fraction <<n, d>>; one chunk is a number of frames, and the channels    *)
(* are faded alike.                                                        *)
(***************************************************************************)
EXTENDS Integers, Sequences, SequencesExt

CONSTANTS
  Second,          (* nanoseconds in a second                              *)
  MaxI64,          (* the largest i64                                      *)
  MaxI32,          (* the largest i32                                      *)
  SoftMax,         (* AUDIO_SOFT_COMPENSATION_MAX_SAMPLES                  *)
  FadeMs           (* AUDIO_CONCEAL_FADE_MS                                *)

Clamp(v, max) == IF v > max THEN max ELSE IF v < -max - 1 THEN -max - 1 ELSE v

Abs(a) == IF a < 0 THEN -a ELSE a
Sign(a) == IF a < 0 THEN -1 ELSE 1

(* a * b / c; halves away from zero.                                       *)
rescale_near(a, b, c) ==
  IF c <= 0 \/ b < 0 THEN -MaxI64 - 1
  ELSE Clamp(Sign(a) * ((Abs(a) * b + c \div 2) \div c), MaxI64)

(* a * b / c; up, but towards zero below it.                               *)
rescale_up(a, b, c) ==
  IF c <= 0 \/ b < 0 THEN -MaxI64 - 1
  ELSE IF a < 0 THEN -Clamp((-a * b) \div c, MaxI64)
  ELSE Clamp((a * b + (c - 1)) \div c, MaxI64)

(* A time base is <<num, den>>.                                            *)
rescale_q_near(a, from, to) ==
  rescale_near(a, Clamp(from[1] * to[2], MaxI64), Clamp(to[1] * from[2], MaxI64))

rescale_q_up(a, from, to) ==
  rescale_up(a, Clamp(from[1] * to[2], MaxI64), Clamp(to[1] * from[2], MaxI64))

output_next_ts(anchor, samples, rate) ==
  IF rate = 0 THEN anchor ELSE anchor + rescale_near(samples, Second, rate)

expected_samples(duration, tb, rate, fallback) ==
  LET expected == rescale_q_near(duration, tb, <<1, rate>>) IN
  IF duration <= 0 \/ rate <= 0 \/ tb[2] <= 0 \/ expected \notin 1..MaxI32 THEN fallback
  ELSE expected

soft_compensation_samples(expected, actual) ==
  IF expected - actual \in -SoftMax..SoftMax THEN expected - actual ELSE 0

ts_to_ms(ts, tb) ==
  IF tb[1] <= 0 \/ tb[2] <= 0 THEN 0
  ELSE Clamp(rescale_q_near(ts, tb, <<1, 1000>>), MaxI32)

ms_to_ts_ceil(ms, tb) ==
  IF tb[1] <= 0 \/ tb[2] <= 0 \/ ms <= 0 THEN 1
  ELSE LET ts == rescale_q_up(ms, <<1, 1000>>, tb) IN IF ts > 0 THEN ts ELSE 1

conceal_fade_frames(rate, frames) ==
  IF rate <= 0 \/ frames = 0 THEN 0
  ELSE LET faded == (rate * FadeMs) \div 1000
           fade == IF faded <= 0 THEN 1 ELSE faded
       IN  IF fade < frames THEN fade ELSE frames

(* The gains of the frames of a chunk.                                     *)
apply_fade_in(frames, rate) ==
  LET fade == conceal_fade_frames(rate, frames)
  IN  [f \in 1..frames |-> IF f <= fade THEN <<f, fade>> ELSE <<1, 1>>]

(* Of the last sample; last.valid holds it, for last.channels channels.    *)
shape_silence_from_last(frames, channels, rate, last) ==
  LET fade == conceal_fade_frames(rate, frames)
  IN  [f \in 1..frames |->
         IF last.valid /\ last.channels = channels /\ f <= fade THEN <<fade - f, fade>> ELSE <<0, 1>>]

(* The gains, and what is left of the ramp for the next chunk.             *)
apply_fade_in_ramp(frames, remaining, total) ==
  LET ramped == IF total <= 0 \/ remaining <= 0 THEN 0
                ELSE IF frames < remaining THEN frames ELSE remaining
  IN  [gains |-> [f \in 1..frames |-> IF f <= ramped THEN <<total - remaining + f - 1, total>>
                                      ELSE <<1, 1>>],
       remaining |-> remaining - ramped]

-----------------------------------------------------------------------------
(* What it promises.                                                       *)

Leq(g, h) == g[1] * h[2] <= h[1] * g[2]
Rising(gains) == \A f \in 1..(Len(gains) - 1) : Leq(gains[f], gains[f + 1])

(* The counter clock is exact: a time stamp is within half a unit of       *)
(* anchor plus samples over rate.                                          *)
ClockIsExact(anchor, samples, rate) ==
  LET off == output_next_ts(anchor, samples, rate) - anchor
  IN  2 * Abs(off * rate - samples * Second) <= rate

(* So it never drifts, however many chunks, and of whatever sizes, led     *)
(* there.                                                                  *)
ClockNeverDrifts(chunks, rate) ==
  LET Claim(samples, frames) == samples + frames
  IN  ClockIsExact(7, FoldLeft(Claim, 0, chunks), rate)

(* A relock step moves the timeline, by at least the milliseconds asked    *)
(* for and by less than a tick more, for every usable time base; and read  *)
(* back it is no less, where a tick is no longer than a millisecond.       *)
StepIsATick(ms, tb) ==
  LET ts == ms_to_ts_ceil(ms, tb) IN
  /\ ts >= 1
  /\ ts * tb[1] * 1000 >= ms * tb[2]
  /\ (ts - 1) * tb[1] * 1000 < ms * tb[2]
  /\ 1000 * tb[1] <= tb[2] => ts_to_ms(ts, tb) \in {ms, ms + 1}

(* A compensated packet has the samples its duration stands for, or is     *)
(* left alone; it never gains or loses more than a few.                    *)
CompensationIsExact(duration, tb, rate, actual) ==
  LET expected == expected_samples(duration, tb, rate, actual)
      change == soft_compensation_samples(expected, actual)
  IN  /\ change \in -SoftMax..SoftMax
      /\ actual + change \in {actual, expected}
      /\ Abs(expected - actual) <= SoftMax => actual + change = expected

(* The splice after a concealment does not click: silence falls from the   *)
(* last sample to nothing within its chunk, the next chunk rises to its    *)
(* full level within its own, neither goes back on the way, and silence    *)
(* after a change of channels is silence.                                  *)
SplicesAreSmooth(frames, channels, rate, last) ==
  LET silence == shape_silence_from_last(frames, channels, rate, last)
      fade == apply_fade_in(frames, rate)
  IN  /\ Rising(Reverse(silence)) /\ silence[frames][1] = 0
      /\ Rising(fade) /\ fade[frames][1] = fade[frames][2]
      /\ last.channels # channels => \A f \in 1..frames : silence[f][1] = 0

(* A ramp over several chunks is the ramp over their sum.                  *)
RampSpansChunks(chunks, total) ==
  LET Next(ramp, frames) == LET r == apply_fade_in_ramp(frames, ramp.remaining, total)
                            IN  [gains |-> ramp.gains \o r.gains, remaining |-> r.remaining]
      Sum(a, b) == a + b
      pieces == FoldLeft(Next, [gains |-> <<>>, remaining |-> total], chunks)
  IN  /\ pieces = apply_fade_in_ramp(FoldLeft(Sum, 0, chunks), total, total)
      /\ Rising(pieces.gains)
=============================================================================
