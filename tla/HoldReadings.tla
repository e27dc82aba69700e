---------------------------- MODULE HoldReadings ----------------------------
(***************************************************************************)
(* How the audio hold is read off the stream (irl-core/src/audio_hold.rs,  *)
(* window.rs and arrival.rs, and the callers in irl-source/src/audio/hold.rs), *)
(* as operators on the records the code keeps.  Priming takes a reading to *)
(* be any of a few values; here a reading is computed from the arrivals.   *)
(* Time and timestamps share a unit.                                       *)
(***************************************************************************)
EXTENDS Integers, Sequences

CONSTANTS
  None,
  RaiseWindow,  (* AUDIO_HOLD_RAISE_WINDOW_MS *)
  RelaxWindow,  (* AUDIO_HOLD_RELAX_WINDOW_MS *)
  RaiseMin,     (* AUDIO_HOLD_RAISE_MIN_MS    *)
  RelaxMin,     (* AUDIO_HOLD_RELAX_MIN_MS    *)
  Margin,       (* AUDIO_HOLD_MARGIN_MS       *)
  MaxHold,      (* AUDIO_HOLD_MAX_MS          *)
  PrimeWait,    (* AUDIO_HOLD_PRIME_WAIT_MS   *)
  BurstWindow,  (* AUDIO_BURST_WINDOW_MS      *)
  Lookback,     (* VIDEO_LIVE_LOOKBACK_MS     *)
  Tolerance,    (* VIDEO_LIVE_TOLERANCE_MS    *)
  MaxWait       (* VIDEO_LIVE_MAX_WAIT_MS     *)

Least(a, b) == IF a < b THEN a ELSE b
Most(a, b) == IF a > b THEN a ELSE b

-----------------------------------------------------------------------------
(* WindowExtreme: <<when, value>>, oldest first.  A push takes what it     *)
(* beats from the back, and what is past the horizon from the front.       *)

beaten(extreme, last, value) == IF extreme = "Lowest" THEN last >= value ELSE last <= value

Unbeaten(extreme, entries, value) ==
  SubSeq(entries, 1, CHOOSE k \in 0..Len(entries) :
                       /\ k > 0 => ~beaten(extreme, entries[k][2], value)
                       /\ \A i \in (k + 1)..Len(entries) : beaten(extreme, entries[i][2], value))

Recent(entries, horizon) ==
  SubSeq(entries, CHOOSE k \in DOMAIN entries :
                    /\ entries[k][1] >= horizon
                    /\ \A i \in 1..(k - 1) : entries[i][1] < horizon, Len(entries))

push(extreme, window, entries, now, value) ==
  Recent(Append(Unbeaten(extreme, entries, value), <<now, value>>), Most(0, now - window))

Value(entries) == Head(entries)[2]

-----------------------------------------------------------------------------
(* AudioHold: the readings of one connection.                              *)

NoReadings == [first |-> None, lowest |-> <<>>, highest |-> <<>>]

measured(h) == h.first # None

observe(h, now, skew) ==
  [first |-> IF h.first = None THEN now ELSE h.first,
   lowest |-> push("Lowest", RaiseWindow, h.lowest, now, skew),
   highest |-> push("Highest", RelaxWindow, h.highest, now, skew)]

hold_ms(skew, covered) == Most(0, Least(skew + Margin - covered, MaxHold))

(* The hold before_prime asks for; `current' when it asks for none.        *)
before_prime(h, current, covered) ==
  IF h.highest = <<>> THEN current ELSE Most(current, hold_ms(Value(h.highest), covered))

(* The hold regulate asks for: a raise is looked for first.                *)
regulate(h, now, current, covered) ==
  LET raised == hold_ms(Value(h.lowest), covered)
      released == hold_ms(Value(h.highest), covered)
  IN
  IF h.first = None THEN current
  ELSE IF now - h.first >= RaiseWindow /\ raised # current /\ raised >= current + RaiseMin
       THEN raised
  ELSE IF now - h.first >= RelaxWindow /\ released + RelaxMin < current
       THEN released
  ELSE current

-----------------------------------------------------------------------------
(* AudioBursts: the spread of arrival less timestamp across a window.      *)

NoBursts == [since |-> None, last |-> 0, lowest |-> <<>>, highest |-> <<>>,
             readings |-> NoReadings]

observe_burst(bursts, received, pts) ==
  LET b == IF bursts.since # None /\ received - bursts.last > BurstWindow THEN NoBursts ELSE bursts
      since == IF b.since = None THEN received ELSE b.since
      lowest == push("Lowest", BurstWindow, b.lowest, received, received - pts)
      highest == push("Highest", BurstWindow, b.highest, received, received - pts)
  IN
  [since |-> since, last |-> received, lowest |-> lowest, highest |-> highest,
   readings |-> IF received - since < BurstWindow THEN b.readings
                ELSE observe(b.readings, received, Value(highest) - Value(lowest))]

-----------------------------------------------------------------------------
(* ArrivalFloor: <<arrival, floor then>>, one of them at or before the     *)
(* lookback's horizon.                                                     *)

NoArrivals == [first |-> None, floor |-> None, history |-> <<>>]

Horizon(received) == Most(0, received - Lookback)

Trimmed(history, horizon) ==
  LET Superseded(k) == k < Len(history) /\ history[k + 1][1] <= horizon
      oldest == CHOOSE k \in 1..Len(history) : ~Superseded(k) /\ \A j \in 1..(k - 1) : Superseded(j)
  IN  SubSeq(history, oldest, Len(history))

note(f, received, pts) ==
  LET floor == IF f.floor = None THEN received - pts ELSE Least(f.floor, received - pts) IN
  [first |-> IF f.first = None THEN received ELSE f.first, floor |-> floor,
   history |-> Trimmed(Append(f.history, <<received, floor>>), Horizon(received))]

live(f, now) ==
  /\ f.first # None
  /\ \/ now - f.first >= MaxWait
     \/ /\ f.history # <<>>
        /\ f.history[Len(f.history)][1] - f.history[1][1] >= Lookback
        /\ f.history[1][2] - f.floor <= Tolerance

-----------------------------------------------------------------------------
(* The callers.  A video packet is measured against the newest audio       *)
(* decoded before it (0: none), once video is live.                        *)

observe_video_packet(s, received, dts, audio_pts) ==
  LET noted == [s EXCEPT !.hold_live = note(s.hold_live, received, dts)] IN
  IF audio_pts = 0 \/ ~live(noted.hold_live, received) THEN noted
  ELSE [noted EXCEPT !.hold = observe(s.hold, received, audio_pts - dts)]

(* Audio that is ready asks at `now' whether to wait; `waits' is the answer. *)
NotAsked == [done |-> FALSE, since |-> None, waits |-> FALSE]

prime_may_wait(w, is_measured, video_present, now) ==
  IF w.done \/ ~video_present THEN [w EXCEPT !.waits = FALSE]
  ELSE IF is_measured THEN [w EXCEPT !.done = TRUE, !.waits = FALSE]
  ELSE IF w.since = None THEN [w EXCEPT !.since = now, !.waits = TRUE]
  ELSE IF now - w.since < PrimeWait THEN [w EXCEPT !.waits = TRUE]
  ELSE [w EXCEPT !.done = TRUE, !.waits = FALSE]

-----------------------------------------------------------------------------
(* What the queues and windows must come to, said of the whole history of  *)
(* arrivals: <<when, what>>, oldest first.                                 *)

Now(history) == history[Len(history)][1]
Lately(history, window) ==
  {history[k][2] : k \in {j \in 1..Len(history) : history[j][1] >= Now(history) - window}}
LongerThan(history, window) == history[1][1] <= Now(history) - window
Lowest(S) == CHOOSE x \in S : \A y \in S : x <= y
Highest(S) == CHOOSE x \in S : \A y \in S : x >= y

Observed(history) ==
  LET after[k \in 0..Len(history)] ==
        IF k = 0 THEN NoReadings ELSE observe(after[k - 1], history[k][1], history[k][2])
  IN  after

(* Once audio plays, the hold grows only to what every reading of the      *)
(* raise window asks for, so a burst of late video never moves it, and     *)
(* does grow when all of them ask for enough more; it shrinks only to what *)
(* no reading of the relax window exceeds.                                 *)
HoldFollowsTheWindow(history, current, covered) ==
  LET to == regulate(Observed(history)[Len(history)], Now(history), current, covered)
      Asked(window) == {hold_ms(x, covered) : x \in Lately(history, window)}
  IN
  /\ to > current => /\ LongerThan(history, RaiseWindow)
                     /\ to = Lowest(Asked(RaiseWindow))
  /\ LongerThan(history, RaiseWindow) /\ current + RaiseMin <= Lowest(Asked(RaiseWindow))
       => to > current \/ RaiseMin = 0
  /\ to < current => /\ LongerThan(history, RelaxWindow)
                     /\ to = Highest(Asked(RelaxWindow))

Bursts(history) ==
  LET after[k \in 0..Len(history)] ==
        IF k = 0 THEN NoBursts ELSE observe_burst(after[k - 1], history[k][1], history[k][2])
  IN  after

Late(history, k) == history[k][1] - history[k][2]
AfterGap(history, k) == k = 1 \/ history[k][1] - history[k - 1][1] > BurstWindow

(* How far apart the latest and the least late of the window that ends     *)
(* with a frame are, of those since the start.                             *)
Spread(history, start, k) ==
  LET near == {Late(history, j) : j \in {i \in start..k : history[i][1] >= history[k][1] - BurstWindow}}
  IN  Highest(near) - Lowest(near)

(* The burst readings: how far apart the latest and the least late frame   *)
(* of a window are, from a window after the last outage on.  Nothing from  *)
(* before an outage, or from the backlog that ends it, is ever read.       *)
BurstsSkipOutages(history) ==
  LET n == Len(history)
      start == Highest({k \in 1..n : AfterGap(history, k)})
      full == {k \in start..n : history[k][1] - history[start][1] >= BurstWindow}
      readings == Bursts(history)[n].readings
      Spreads(window) == {Spread(history, start, k) :
                            k \in {i \in full : history[i][1] >= Now(history) - window}}
  IN
  /\ measured(readings) <=> full # {}
  /\ full # {} => /\ Value(readings.highest) = Highest(Spreads(RelaxWindow))
                  /\ Value(readings.lowest) = Lowest(Spreads(RaiseWindow))
                  /\ readings.first = history[Lowest(full)][1]

Arrivals(history) ==
  LET after[k \in 0..Len(history)] ==
        IF k = 0 THEN NoArrivals ELSE note(after[k - 1], history[k][1], history[k][2])
  IN  after

(* Video is live when a lookback ago its floor was no more than the        *)
(* tolerance above today's, whatever was trimmed in between.               *)
LiveIsSteady(history) ==
  LET now == Now(history)
      Floors(S) == Lowest({Late(history, k) : k \in S})
      before == {k \in 1..Len(history) : history[k][1] <= now - Lookback}
  IN
  live(Arrivals(history)[Len(history)], now) <=>
    \/ now - history[1][1] >= MaxWait
    \/ before # {} /\ Floors(before) - Floors(1..Len(history)) <= Tolerance

(* A question is <<when, measured, video_present>>.                        *)
Answers(questions) ==
  LET after[k \in 0..Len(questions)] ==
        IF k = 0 THEN NotAsked
        ELSE prime_may_wait(after[k - 1], questions[k][2], questions[k][3], questions[k][1])
  IN  after

(* Audio waits for a reading for PrimeWait at the most, and never after    *)
(* one was taken.                                                          *)
WaitIsBounded(questions) ==
  LET answers == Answers(questions) IN
  \A k \in 1..Len(questions) :
    answers[k].waits =>
      /\ ~questions[k][2]
      /\ \A j \in 1..k : answers[j].waits => questions[k][1] - questions[j][1] < PrimeWait
=============================================================================
