----------------------------- MODULE VideoDelay -----------------------------
(***************************************************************************)
(* The floor under the video schedule (irl-core/src/video_delay.rs), as    *)
(* operators on the record VideoDelay keeps:                               *)
(*   floor   the least offset from its PTS a frame is due at, or None      *)
(*   window  late frames since the anchor that await a verdict, or None    *)
(*   needs   the floors frames needed lately: the monotonic queue of       *)
(*           irl-core/src/window.rs, oldest first                          *)
(*   since   for how long frames have arrived without a gap, or None       *)
(*   last    how long ago one was handed over                              *)
(*   ramp    where the slew in progress ends, or None                      *)
(*   first   how long ago the first packet was noted, or None              *)
(*   relax   relax_window_ns; zero turns relaxing off                      *)
(* Times are ages, so Aged is what the passing of a unit of time does.     *)
(***************************************************************************)
EXTENDS Integers, Sequences

CONSTANTS
  None,
  Tick,        (* the canvas tick                                         *)
  MaxDelay,    (* VIDEO_DELAY_MAX_MS                                      *)
  Window,      (* VIDEO_DELAY_WINDOW_MS                                   *)
  MinFrames,   (* VIDEO_DELAY_MIN_FRAMES                                  *)
  RelaxMin,    (* VIDEO_DELAY_RELAX_MIN_MS                                *)
  LiveMaxWait  (* VIDEO_LIVE_MAX_WAIT_MS                                  *)

ASSUME DelayAssumption ==
  /\ None \notin Int
  /\ Tick \in Nat \ {0} /\ MaxDelay \in Nat /\ MaxDelay % Tick = 0
  /\ {Window, MinFrames, RelaxMin, LiveMaxWait} \subseteq Nat

Lower(a, b) == IF a < b THEN a ELSE b
Higher(a, b) == IF a > b THEN a ELSE b

(* Up to a whole number of canvas ticks.                                   *)
round_up_to_tick(n) == ((n + Tick - 1) \div Tick) * Tick

ForgetNeeds(d) == [d EXCEPT !.needs = <<>>, !.since = None, !.ramp = None]

(* `last' survives a reset, capped where it no longer matters.             *)
reset(d) == [ForgetNeeds(d) EXCEPT !.floor = None, !.window = None, !.first = None]

NewDelay(relax) ==
  [floor |-> None, window |-> None, needs |-> <<>>, since |-> None,
   last |-> Window + 1, ramp |-> None, first |-> None, relax |-> relax]

delay_ns(d, offset) ==
  IF d.floor = None THEN 0 ELSE Higher(0, Lower(d.floor - offset, MaxDelay))

due_ns(d, base, offset) == base + delay_ns(d, offset)

at_ceiling(d, offset) == delay_ns(d, offset) >= MaxDelay

(* Whether video has stopped catching up with live is a reading of the     *)
(* arrivals of a lookback (irl-core/src/arrival.rs): after the first       *)
(* packet either answer is possible, until the wait for it is over.        *)
note_packet(d) == IF d.first = None THEN [d EXCEPT !.first = 0] ELSE d

live(d) == IF d.first = None THEN {FALSE}
           ELSE IF d.first >= LiveMaxWait THEN {TRUE} ELSE BOOLEAN

Wanted(need, offset) == Lower(round_up_to_tick(need - offset), MaxDelay)

Raises(d, need, offset) == need > offset /\ Wanted(need, offset) > delay_ns(d, offset)

raise_to(d, need, offset) ==
  IF Raises(d, need, offset)
  THEN [ForgetNeeds(d) EXCEPT !.floor = offset + Wanted(need, offset)] ELSE d

(* A frame that may anchor the play head: `need' is how long after its PTS *)
(* its packet arrived.                                                     *)
before_anchor(d, need, offset) == raise_to([d EXCEPT !.window = None], need + Tick, offset)

(* A window that has run its course is judged: the floor rises when late   *)
(* frames recurred across it.                                              *)
expire(d, offset) ==
  LET w == d.window IN
  IF w = None \/ w.age < Window THEN d
  ELSE LET closed == [d EXCEPT !.window = None] IN
       IF w.frames >= MinFrames /\ w.spread >= Window \div 2
       THEN raise_to(closed, w.worst, offset) ELSE closed

(* A frame handed over after the anchor, `late' past its PTS.              *)
note(d, late, offset) ==
  LET e == expire(d, offset) IN
  IF late <= offset + delay_ns(e, offset) THEN e
  ELSE [e EXCEPT !.window =
         IF e.window = None THEN [age |-> 0, spread |-> 0, frames |-> 1, worst |-> late]
         ELSE [age |-> e.window.age, spread |-> e.window.age,
               frames |-> Lower(e.window.frames + 1, MinFrames),
               worst |-> Higher(e.window.worst, late)]]

(* WindowExtreme::push: entries that the new one beats go from the back,   *)
(* and those past the horizon from the front; value.                       *)
Unbeaten(needs, need) ==
  SubSeq(needs, 1, CHOOSE k \in 0..Len(needs) :
                     /\ k > 0 => needs[k].need > need
                     /\ \A i \in (k + 1)..Len(needs) : needs[i].need <= need)

Within(needs, horizon) ==
  SubSeq(needs, CHOOSE k \in DOMAIN needs :
                  /\ needs[k].age <= horizon
                  /\ \A i \in 1..(k - 1) : needs[i].age > horizon, Len(needs))

Pushed(needs, need, horizon) ==
  Within(Append(Unbeaten(needs, need), [age |-> 0, need |-> need]), horizon)

Highest(needs) == Head(needs).need

(* Mutant: frames that need more no longer end a slew or hold it back.     *)
NoteArrivalUnheld(d, arrived, offset) ==
  LET need == arrived + Tick
      kept == IF d.last > Window THEN [d EXCEPT !.needs = <<>>, !.since = None] ELSE d
      noted == [kept EXCEPT !.last = 0, !.needs = Pushed(kept.needs, need, d.relax),
                            !.since = IF kept.since = None THEN 0 ELSE kept.since]
      target == Highest(noted.needs) + Tick
  IN IF d.relax = 0 THEN d
     ELSE IF noted.since >= d.relax /\ noted.ramp = None /\ noted.floor # None
     THEN [noted EXCEPT !.ramp = IF noted.floor > target + RelaxMin THEN target ELSE None]
     ELSE noted

(* The same frame's arrival: it holds a slew back from what it needs, and  *)
(* starts one when every frame of a whole window needed less.              *)
note_arrival(d, arrived, offset) ==
  LET need == arrived + Tick
      keep == need + Tick
      held == IF d.ramp = None \/ d.floor = None THEN d
              ELSE [d EXCEPT !.ramp = IF keep >= d.floor THEN None ELSE Higher(keep, d.ramp)]
      kept == IF d.last > Window THEN [held EXCEPT !.needs = <<>>, !.since = None] ELSE held
      noted == [kept EXCEPT !.last = 0, !.needs = Pushed(kept.needs, need, d.relax),
                            !.since = IF kept.since = None THEN 0 ELSE kept.since]
      target == Highest(noted.needs) + Tick
  IN IF d.relax = 0 THEN d
     ELSE IF noted.since >= d.relax /\ noted.ramp = None /\ noted.floor # None
     THEN [noted EXCEPT !.ramp = IF noted.floor > target + RelaxMin THEN target ELSE None]
     ELSE noted

(* One step of the slew, of `step'.  Only the floor between the offset and *)
(* the ceiling above it is on screen; the rest goes at once.               *)
ramp(d, step, offset) ==
  IF d.ramp = None \/ d.floor = None THEN [d EXCEPT !.ramp = None]
  ELSE LET start == Lower(d.floor, offset + MaxDelay)
           slewed == IF d.ramp >= start THEN d.ramp ELSE Higher(start - step, d.ramp)
           next == IF slewed <= offset THEN d.ramp ELSE slewed
       IN [d EXCEPT !.floor = next, !.ramp = IF next <= d.ramp THEN None ELSE d.ramp]

OlderTo(age, cap) == IF age = None THEN None ELSE Lower(age + 1, cap)

OlderWindow(w) == IF w = None THEN None ELSE [w EXCEPT !.age = Lower(@ + 1, Window)]

OlderNeeds(needs, cap) ==
  [i \in DOMAIN needs |-> [age |-> Lower(needs[i].age + 1, cap), need |-> needs[i].need]]

Aged(d) ==
  [d EXCEPT !.window = OlderWindow(@), !.needs = OlderNeeds(@, d.relax + 1),
            !.since = OlderTo(@, d.relax),
            !.last = Lower(@ + 1, Window + 1),
            !.first = OlderTo(@, LiveMaxWait)]
=============================================================================
