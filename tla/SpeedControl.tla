---------------------------- MODULE SpeedControl ----------------------------
(***************************************************************************)
(* The playback speed (irl-core/src/speed.rs, config.rs): the ramp over    *)
(* the watermarks, the trim under it, the carried fraction of a frame and  *)
(* the watch for a drain that gets nowhere, as operators.  AudioPump takes *)
(* the speed to be anything in its range.  Speeds are in millionths and    *)
(* levels in thousandths of a millisecond, rounded down where the code's   *)
(* floats barely round.                                                    *)
(***************************************************************************)
EXTENDS Integers, Sequences

CONSTANTS
  DrainStuck,     (* AUDIO_DRAIN_STUCK_US                                 *)
  DrainProgress   (* AUDIO_DRAIN_STUCK_PROGRESS_MS                        *)

One == 1000000
AUDIO_SPEED_MIN == 980000
AUDIO_SPEED_DEADBAND_MS == 20
AUDIO_SPEED_DEADBAND_SLOPE == 2000
AUDIO_SPEED_SMOOTHING == 50          (* thousandths, as the next        *)
AUDIO_SPEED_LEVEL_SMOOTHING == 8
AUDIO_SPEED_TRIM_GAIN == 400000      (* microseconds for a millionth of speed per millisecond off *)
AUDIO_SPEED_TRIM_MAX == 10000
AUDIO_SPEED_TRIM_ERR_WINDOW_MS == 3 * AUDIO_SPEED_DEADBAND_MS
AUDIO_SPEED_TRIM_MAX_DT_US == 1000000
Slack == 500      (* this close to a limit counts as at it *)

Smaller(a, b) == IF a < b THEN a ELSE b
Greater(a, b) == IF a > b THEN a ELSE b
Smoothed(from, to, factor) == from + ((to - from) * factor) \div 1000
Within(x, low, high) == Greater(low, Smaller(x, high))

catchup_speed_max(percent) == One + Within(percent, 2, 15) * (One \div 100)

(* Watermarks::derive: a target that makes no sense is the default, any    *)
(* other is brought into the slider's range.                               *)
derive(target) ==
  LET usable == IF target <= 0 THEN 120 ELSE Within(target, 20, 8000)
  IN  [min |-> Greater(usable \div 2, 20), target |-> usable, max |-> usable + 200]

-----------------------------------------------------------------------------
(* SpeedController::ramp, over the watermarks [min, target, max].          *)
Share(part, span, whole) == IF span > 0 THEN (whole * Smaller(part, span)) \div span ELSE whole

ramp(fill, wm, max_speed) ==
  LET low == wm.target - AUDIO_SPEED_DEADBAND_MS
      high == wm.target + AUDIO_SPEED_DEADBAND_MS
      slowest == One - AUDIO_SPEED_DEADBAND_SLOPE
      fastest == One + AUDIO_SPEED_DEADBAND_SLOPE
  IN
  IF fill < low
    THEN slowest - Share(low - fill, low - wm.min, slowest - AUDIO_SPEED_MIN)
  ELSE IF fill > high
    THEN fastest + Share(fill - high, wm.max - high, max_speed - fastest)
  ELSE One + (AUDIO_SPEED_DEADBAND_SLOPE * (fill - wm.target)) \div AUDIO_SPEED_DEADBAND_MS

(* SpeedTrim::update: t is [value, last], `last' in microseconds.          *)
trim_update(t, fill, target, command, max_speed, recovering, now) ==
  LET elapsed == now - t.last
      err == fill - target
      step == (err * elapsed) \div AUDIO_SPEED_TRIM_GAIN
      seen == [t EXCEPT !.last = now]
  IN
  IF \/ t.last = 0 \/ now <= t.last \/ elapsed > AUDIO_SPEED_TRIM_MAX_DT_US
     \/ recovering
     \/ err > AUDIO_SPEED_TRIM_ERR_WINDOW_MS \/ -err > AUDIO_SPEED_TRIM_ERR_WINDOW_MS
     \/ command >= max_speed - Slack /\ step > 0
     \/ command <= AUDIO_SPEED_MIN + Slack /\ step < 0
  THEN seen
  ELSE [seen EXCEPT !.value = Within(t.value + step, -AUDIO_SPEED_TRIM_MAX, AUDIO_SPEED_TRIM_MAX)]

NewTrim == [value |-> 0, last |-> 0]
NewController == [current |-> One, level |-> -1]

(* SpeedController::update.  The settings are [adaptive, low_latency, wm,  *)
(* max_speed, recovering]; the result pairs the controller and the trim.   *)
update(c, t, fill, settings, now) ==
  LET seed == IF c.level < 0 THEN fill * 1000 ELSE c.level
      level == Smoothed(seed, fill * 1000, AUDIO_SPEED_LEVEL_SMOOTHING)
      smoothed == (level + 500) \div 1000
      proportional == ramp(smoothed, settings.wm, settings.max_speed)
      trim == trim_update(t, smoothed, settings.wm.target, proportional + t.value,
                          settings.max_speed, settings.recovering, now)
      moved == Smoothed(c.current, proportional + trim.value, AUDIO_SPEED_SMOOTHING)
  IN
  IF ~settings.adaptive \/ settings.low_latency
  THEN [controller |-> [c EXCEPT !.current = One], trim |-> NewTrim]
  ELSE [controller |-> [current |-> Within(moved, AUDIO_SPEED_MIN, settings.max_speed), level |-> level],
        trim |-> trim]

-----------------------------------------------------------------------------
(* SpeedCarry::output_frames, in thousandths of a frame and a speed in     *)
(* thousandths: the frames to ask for, and the fraction carried on.        *)
Exact(in_frames, speed) == (in_frames * 1000000) \div speed

output_frames(frac, in_frames, speed) ==
  LET want == Exact(in_frames, speed) + frac
      desired == Greater(1, (want + 500) \div 1000)
  IN  [frames |-> desired, frac |-> Within(want - desired * 1000, -1000, 1000)]

-----------------------------------------------------------------------------
(* DrainWatch::observe; `report' says whether this cycle is reported.  A   *)
(* release build's u64 difference wraps when the wall clock was set back,  *)
(* and no wrapped one is short.                                            *)
NoDrain == [since |-> 0, fill |-> 0, warned |-> 0, report |-> FALSE]

at_full_authority(fill, speed, target, max_speed) ==
  speed >= max_speed - Slack /\ fill > target + AUDIO_SPEED_DEADBAND_MS

Recent(when, now) == when <= now /\ now - when < DrainStuck

drain_observe(d, fill, full, now) ==
  LET quiet == [d EXCEPT !.report = FALSE] IN
  IF ~full THEN [quiet EXCEPT !.since = 0]
  ELSE IF d.since = 0 \/ fill <= d.fill - DrainProgress
       THEN [quiet EXCEPT !.since = now, !.fill = fill]
  ELSE IF Recent(d.since, now) \/ (d.warned # 0 /\ Recent(d.warned, now))
       THEN quiet
  ELSE [d EXCEPT !.warned = now, !.report = TRUE]

-----------------------------------------------------------------------------
(* What they promise.                                                      *)

(* More audio never plays slower; the ramp is 1.0 at the target and ends   *)
(* at the limits, also where a small target leaves the slow side no span.  *)
RampIsMonotone(wm, max_speed, fills) ==
  /\ \A a, b \in fills : a <= b => ramp(a, wm, max_speed) <= ramp(b, wm, max_speed)
  /\ \A a \in fills : ramp(a, wm, max_speed) \in AUDIO_SPEED_MIN..max_speed
  /\ ramp(wm.target, wm, max_speed) = One
  /\ wm.max > wm.target + AUDIO_SPEED_DEADBAND_MS => ramp(wm.max, wm, max_speed) = max_speed

(* The trim of a loop that cannot correct any further is not wound up, and *)
(* one wound up before may unwind.  A run is cycles <<fill, recovering>>,  *)
(* `gap' apart, from any trim: the speed keeps within its limits too.      *)
Cycles(run, start, settings, gap) ==
  LET after[k \in 0..Len(run)] ==
        IF k = 0 THEN [controller |-> NewController, trim |-> start]
        ELSE update(after[k - 1].controller, after[k - 1].trim, run[k][1],
                    [settings EXCEPT !.recovering = run[k][2]], start.last + k * gap)
  IN  after

TrimNeverWindsUp(run, start, settings, gap) ==
  LET after == Cycles(run, start, settings, gap)
      Value(k) == after[k].trim.value
      Level(k) == (after[k].controller.level + 500) \div 1000
      Command(k) == ramp(Level(k), settings.wm, settings.max_speed) + Value(k - 1)
  IN
  \A k \in 1..Len(run) :
    /\ after[k].controller.current \in AUDIO_SPEED_MIN..settings.max_speed
    /\ Value(k) > Value(k - 1) => /\ Command(k) < settings.max_speed - Slack
                                  /\ Level(k) > settings.wm.target /\ ~run[k][2]
    /\ Value(k) < Value(k - 1) => /\ Command(k) > AUDIO_SPEED_MIN + Slack
                                  /\ Level(k) < settings.wm.target /\ ~run[k][2]

(* Rounding loses nothing in the long run: after any chunks, of two frames *)
(* or more, at any speeds, the frames asked for are within half a frame of *)
(* what the speeds make.  Chunks are <<in_frames, speed>>.                 *)
Asked(sum, chunk) ==
  LET out == output_frames(sum.frac, chunk[1], chunk[2])
  IN  [asked |-> sum.asked + 1000 * out.frames,
       exact |-> sum.exact + Exact(chunk[1], chunk[2]),
       frac |-> out.frac]

Carried(chunks) ==
  LET after[k \in 0..Len(chunks)] ==
        IF k = 0 THEN [asked |-> 0, exact |-> 0, frac |-> 0]
        ELSE Asked(after[k - 1], chunks[k])
  IN  after

CarryIsExact(chunks) ==
  LET end == Carried(chunks)[Len(chunks)]
  IN  /\ end.asked + end.frac = end.exact
      /\ end.frac \in -500..500

(* A drain is reported only after it has run at full authority for         *)
(* DrainStuck and got nowhere, and not twice in that time; one that does   *)
(* not come down at all for that long is reported.  Cycles, on a clock     *)
(* that runs forward, are <<when, <<full, fill>>>>.                        *)
Watched(cycles) ==
  LET after[k \in 0..Len(cycles)] ==
        IF k = 0 THEN NoDrain
        ELSE drain_observe(after[k - 1], cycles[k][2][2], cycles[k][2][1], cycles[k][1])
  IN  after

StuckIsReported(cycles) ==
  LET after == Watched(cycles)
      Full(k) == cycles[k][2][1]
      Fill(k) == cycles[k][2][2]
      Reported(k) == after[k].report
      Since(k, j) == cycles[k][1] - cycles[j][1]
  IN
  \A k \in 1..Len(cycles) :
    /\ Reported(k) =>
         /\ \A j \in 1..(k - 1) : Reported(j) => Since(k, j) >= DrainStuck
         /\ \E j \in 1..k : /\ Since(k, j) >= DrainStuck
                            /\ \A i \in j..k : Full(i) /\ Fill(i) > Fill(j) - DrainProgress
    /\ (\E j \in 1..k : /\ Since(k, j) >= DrainStuck
                        /\ \A i \in j..k : Full(i) /\ \A h \in j..i : Fill(i) >= Fill(h))
         => \E j \in 1..k : Reported(j) /\ Since(k, j) < DrainStuck
=============================================================================
