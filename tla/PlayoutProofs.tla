--------------------------- MODULE PlayoutProofs ---------------------------
(***************************************************************************)
(* Proofs about what goes out to OBS and when.                             *)
(* AudioPump: its types, that nothing reaches OBS too late or behind a     *)
(* fade, that the published mapping is the clock's, and that a buffered    *)
(* source whose audio thread is not stalled never runs dry.                *)
(* VideoPacing, with the floor of VideoDelay under it: its types, that a   *)
(* slew of the floor makes no frame late, and that libobs' play head stays *)
(* on the OBS clock.                                                       *)
(* SpeedControl: what it promises, for all settings, levels and runs.      *)
(***************************************************************************)
EXTENDS AudioPump, VideoPacing, SequenceTheorems, WellFoundedInduction, TLAPS

-----------------------------------------------------------------------------
(* The audio pump.                                                         *)

(* The types, in the parts the steps disturb together.                     *)
Flags ==
  {low_latency, stalled, reconnecting, align_read_pending, fade_in_pending,
   conceal_fade_pending, stale, edge, clicked, centred, shaken}
FlagsOK == Flags \subseteq BOOLEAN
ThreadOK ==
  /\ pc \in {"asleep", "burst"} /\ left \in 0..Burst
  /\ idle_sleep \in MinSleep..MaxSleep /\ due \in Nat
  /\ rx \in {"opening", "reading", "failed", "closing", "waiting"}
TimesOK ==
  /\ clock \in [primed : BOOLEAN, ahead : Int]
  /\ mapping \in [on : BOOLEAN, ends : Int]
  /\ out \in [what : {"none", "real", "silence", "fade"}, ends : Int]
  /\ fill \in 0..MaxFill /\ fade_in_remaining \in 0..FadeLength

(* Playback is paused for as long as there is no connection to read, and a *)
(* fade is the last OBS was handed only until that connection is closed.   *)
PauseInv ==
  /\ rx \in {"failed", "closing", "waiting"} => reconnecting
  /\ out.what = "fade" => rx = "closing"

(* With no connection there is nothing to prime a clock with.              *)
IdleInv == rx \in {"opening", "waiting"} => fill = 0 /\ ~clock.primed

(* A thread in its burst has calls left and is at most Oversleep from      *)
(* being late, and no stall is caught up before it is over.                *)
BurstInv ==
  /\ pc = "burst" => left >= 1 /\ due <= Oversleep
  /\ ~shaken => ~stalled

(* What OBS has been handed reaches as far as the thread may still be away. *)
LeadInv ==
  ~low_latency /\ clock.primed /\ ~reconnecting /\ ~shaken => clock.ahead >= due

IInv ==
  /\ FlagsOK /\ ThreadOK /\ TimesOK
  /\ PauseInv /\ IdleInv /\ BurstInv /\ LeadInv
  /\ NoStaleOutput /\ MappingOfTheLine

-----------------------------------------------------------------------------
(* Lengths.                                                                *)
LEMMA Least1 == \A a, b \in Int : Least(a, b) \in {a, b} /\ Least(a, b) <= a /\ Least(a, b) <= b
  BY DEF Least

LEMMA Most1 == \A a, b \in Int : Most(a, b) \in {a, b} /\ Most(a, b) >= a /\ Most(a, b) >= b
  BY DEF Most

(* A trim never adds, and never takes the last chunk.                      *)
LEMMA TrimSpares ==
  ASSUME TimesOK, NEW keep \in Int
  PROVE  TrimTo(keep) \in 0..fill /\ (fill > 0 => TrimTo(keep) > 0)
<1>1. keep \div Chunk \in Int
  BY PumpAssumption
<1> DEFINE k == Most(1, keep \div Chunk)
<1>2. k \in Nat \ {0}
  BY <1>1, Most1
<1>3. Chunk * k \in Nat \ {0}
  <2> HIDE DEF k
  <2> QED BY <1>2, PumpAssumption
<1>4. TrimTo(keep) = Least(fill, Chunk * k) /\ fill \in Nat
  BY PumpAssumption DEF TrimTo, TimesOK
<1> QED
  <2> HIDE DEF k
  <2> QED BY <1>3, <1>4 DEF Least

(* Every read asks for something.                                          *)
LEMMA AligningReadsSomething ==
  ASSUME NEW level \in Int
  PROVE  AligningRead(level) \in Nat \ {0}
<1>1. Chunk \div 2 \in Int
  BY PumpAssumption
<1> DEFINE d == (level - Target - Chunk \div 2) % Chunk
<1>2. d \in 0..(Chunk - 1)
  BY <1>1, PumpAssumption
<1> QED
  <2> HIDE DEF d
  <2>1. AligningRead(level) = IF d = 0 THEN Chunk ELSE IF 2 * d >= Chunk THEN d ELSE d + Chunk
    BY DEF AligningRead, d
  <2> QED BY <1>2, <2>1, PumpAssumption

(* What is left of the buffer when a chunk is read, and the chunk's length *)
(* when it has been sped up or slowed down.                                *)
LEMMA ReadsSomething ==
  ASSUME TimesOK, fill > 0
  PROVE  /\ AfterTrim \in 1..fill
         /\ \A asked \in Nat \ {0} :
              LET got == Least(asked, AfterTrim)
              IN  got \in 1..AfterTrim /\ Stretched(got) \subseteq Nat \ {0}
<1>1. 2 * Chunk \in Int /\ fill \in Nat
  BY PumpAssumption DEF TimesOK
<1>2. AfterTrim \in 1..fill
  BY <1>1, TrimSpares DEF AfterTrim
<1>3. ASSUME NEW asked \in Nat \ {0}
      PROVE  Least(asked, AfterTrim) \in 1..AfterTrim
  BY <1>1, <1>2 DEF Least
<1>4. ASSUME NEW got \in Nat \ {0} PROVE Stretched(got) \subseteq Nat \ {0}
  BY PumpAssumption DEF Stretched
<1>5. ASSUME NEW asked \in Nat \ {0}
      PROVE  Stretched(Least(asked, AfterTrim)) \subseteq Nat \ {0}
  <2>1. Least(asked, AfterTrim) \in Nat \ {0}
    BY <1>1, <1>2, <1>3
  <2> QED BY <1>4, <2>1
<1> QED
  BY <1>2, <1>3, <1>5

(* The clock's line, and the sleep asked for when enough is queued.        *)
LEMMA LineIsInTime ==
  ASSUME TimesOK
  PROVE  Line \in Int /\ Line >= -MaxLag
  BY PumpAssumption DEF Line, Lagging, TimesOK

LEMMA SleepIsASleep ==
  ASSUME TimesOK
  PROVE  /\ SleepToDue \in MinSleep..MaxSleep
         /\ ~low_latency /\ Enough => clock.ahead >= SleepToDue + Oversleep
<1>1. clock.ahead \in Int /\ lead_ns \in Int
  BY PumpAssumption DEF TimesOK, lead_ns
<1>2. SleepToDue \in MinSleep..MaxSleep
  BY <1>1, PumpAssumption DEF SleepToDue, Least, Most
<1>3. ASSUME ~low_latency, Enough PROVE clock.ahead >= SleepToDue + Oversleep
  BY <1>1, <1>3, PumpAssumption DEF SleepToDue, Least, Most, Enough, lead_ns
<1> QED
  BY <1>2, <1>3

-----------------------------------------------------------------------------
LEMMA TypeInParts == TypeOK <=> FlagsOK /\ ThreadOK /\ TimesOK
  BY DEF TypeOK, FlagsOK, Flags, ThreadOK, TimesOK

LEMMA InitHolds == Init => IInv
<1> SUFFICES ASSUME Init PROVE IInv
  OBVIOUS
<1>1. FlagsOK
  BY PumpAssumption DEF Init, FlagsOK, Flags
<1>2. ThreadOK
  BY PumpAssumption DEF Init, ThreadOK
<1>3. TimesOK
  BY PumpAssumption DEF Init, TimesOK, Stopped, NoMapping, Nothing
<1> QED
  BY <1>1, <1>2, <1>3 DEF IInv, Init, PauseInv, IdleInv, BurstInv, LeadInv, NoStaleOutput, MappingOfTheLine,
     Stopped, NoMapping, Nothing

(* Time passes.                                                            *)
LEMMA TickKeeps == IInv /\ TimePasses => IInv'
<1> SUFFICES ASSUME IInv, TimePasses PROVE IInv'
  OBVIOUS
<1> USE DEF IInv
<1>1. FlagsOK'
  BY DEF TimePasses, FlagsOK, Flags, fades
<1>2. ThreadOK'
  BY DEF TimePasses, ThreadOK
<1>3. TimesOK'
  BY PumpAssumption DEF TimePasses, TimesOK, fades, Older, Past
<1>4. /\ clock'.primed = clock.primed /\ (clock.primed => clock'.ahead = Older(clock.ahead))
      /\ mapping'.on = mapping.on /\ (mapping.on => mapping'.ends = Older(mapping.ends))
      /\ out'.what = out.what
  BY DEF TimePasses, TimesOK
<1>5. PauseInv' /\ IdleInv' /\ BurstInv'
  BY <1>4, PumpAssumption DEF TimePasses, ThreadOK, PauseInv, IdleInv, BurstInv
<1>6. LeadInv'
  <2> SUFFICES ASSUME ~low_latency', clock'.primed, ~reconnecting', ~shaken'
               PROVE  clock'.ahead >= due'
    BY DEF LeadInv
  <2>1. due > 0 /\ due' = due - 1 /\ clock.ahead >= due
    BY <1>4 DEF TimePasses, BurstInv, LeadInv
  <2> QED
    BY <1>4, <2>1, PumpAssumption DEF Older, Past, ThreadOK, TimesOK, TimePasses
<1>7. NoStaleOutput' /\ MappingOfTheLine'
  BY <1>4 DEF TimePasses, NoStaleOutput, MappingOfTheLine
<1> QED
  BY <1>1, <1>2, <1>3, <1>5, <1>6, <1>7

(* What leaves the clock, the mapping and the buffer alone.                *)
LEMMA StandingStillKeeps ==
  ASSUME IInv, UNCHANGED <<low_latency, timing, fill, out, stale, fade_in_remaining>>,
         FlagsOK', ThreadOK', PauseInv', IdleInv', BurstInv', LeadInv'
  PROVE  IInv'
<1>1. TimesOK' /\ NoStaleOutput' /\ MappingOfTheLine'
  BY DEF IInv, timing, TimesOK, NoStaleOutput, MappingOfTheLine
<1> QED
  BY <1>1 DEF IInv

LEMMA StallsKeep == IInv /\ (Stall \/ Recover) => IInv'
<1> SUFFICES ASSUME IInv, Stall \/ Recover PROVE IInv'
  OBVIOUS
<1> USE DEF IInv, thread, timing, fades, history
<1>1. CASE Stall
  <2>1. FlagsOK' /\ ThreadOK'
    BY <1>1 DEF Stall, FlagsOK, Flags, ThreadOK
  <2>2. PauseInv' /\ IdleInv' /\ BurstInv' /\ LeadInv'
    BY <1>1 DEF Stall, PauseInv, IdleInv, BurstInv, LeadInv
  <2> QED BY <1>1, <2>1, <2>2, StandingStillKeeps DEF Stall
<1>2. CASE Recover
  <2>1. FlagsOK' /\ ThreadOK'
    BY <1>2 DEF Recover, FlagsOK, Flags, ThreadOK
  <2>2. PauseInv' /\ IdleInv' /\ BurstInv' /\ LeadInv'
    BY <1>2 DEF Recover, PauseInv, IdleInv, BurstInv, LeadInv
  <2> QED BY <1>2, <2>1, <2>2, StandingStillKeeps DEF Recover
<1> QED
  BY <1>1, <1>2

-----------------------------------------------------------------------------
(* The thread after a pass that emitted nothing, and after one that did.   *)
LEMMA IdleThread ==
  ASSUME IInv, PumpStep, NEW nap \in MinSleep..MaxSleep, Idle(nap), rx' = rx
  PROVE  /\ ThreadOK'
         /\ pc' = "burst" => left' >= 1 /\ due' <= Oversleep
         /\ due' \in {due, nap + Oversleep} /\ (due' = due => due <= Oversleep \/ due' = nap + Oversleep)
<1> QED
  BY PumpAssumption DEF IInv, PumpStep, Idle, ThreadOK, BurstInv

LEMMA PumpedThread ==
  ASSUME IInv, PumpStep, Pumped, rx' = rx
  PROVE  /\ ThreadOK'
         /\ pc' = "burst" /\ left' >= 1 /\ due' = due /\ due <= Oversleep
<1> QED
  BY PumpAssumption DEF IInv, PumpStep, Pumped, ThreadOK, BurstInv

LEMMA WaitingPassesKeep == IInv /\ (Wake \/ PumpPaused \/ PumpWaits \/ PumpEnough) => IInv'
<1> SUFFICES ASSUME IInv, Wake \/ PumpPaused \/ PumpWaits \/ PumpEnough PROVE IInv'
  OBVIOUS
<1> USE DEF IInv, thread, timing, fades, history
<1>1. CASE Wake
  <2>1. FlagsOK' /\ ThreadOK'
    BY <1>1, PumpAssumption DEF Wake, FlagsOK, Flags, ThreadOK
  <2>2. PauseInv' /\ IdleInv' /\ BurstInv' /\ LeadInv'
    BY <1>1, PumpAssumption DEF Wake, PauseInv, IdleInv, BurstInv, LeadInv
  <2> QED BY <1>1, <2>1, <2>2, StandingStillKeeps DEF Wake
<1>2. CASE PumpPaused
  <2>1. idle_sleep \in MinSleep..MaxSleep
    BY DEF ThreadOK
  <2>2. ThreadOK' /\ (pc' = "burst" => left' >= 1 /\ due' <= Oversleep)
    BY <1>2, <2>1, IdleThread DEF PumpPaused, FlagsOK, Flags
  <2>3. FlagsOK' /\ PauseInv' /\ IdleInv' /\ BurstInv' /\ LeadInv'
    BY <1>2, <2>2 DEF PumpPaused, Paused, FlagsOK, Flags, PauseInv, IdleInv, BurstInv, LeadInv
  <2> QED BY <1>2, <2>2, <2>3, StandingStillKeeps DEF PumpPaused
<1>3. CASE PumpWaits
  <2>1. MinSleep \in MinSleep..MaxSleep
    BY PumpAssumption
  <2>2. ThreadOK' /\ (pc' = "burst" => left' >= 1 /\ due' <= Oversleep)
    BY <1>3, <2>1, IdleThread DEF PumpWaits, FlagsOK, Flags
  <2>3. FlagsOK' /\ PauseInv' /\ IdleInv' /\ BurstInv' /\ LeadInv'
    BY <1>3, <2>2 DEF PumpWaits, FlagsOK, Flags, PauseInv, IdleInv, BurstInv, LeadInv
  <2> QED BY <1>3, <2>2, <2>3, StandingStillKeeps DEF PumpWaits
<1>4. CASE PumpEnough
  <2> DEFINE nap == SleepToDue
  <2>1. nap \in MinSleep..MaxSleep /\ (~low_latency => clock.ahead >= nap + Oversleep)
    BY <1>4, SleepIsASleep DEF PumpEnough
  <2> HIDE DEF nap
  <2>2. /\ ThreadOK' /\ (pc' = "burst" => left' >= 1 /\ due' <= Oversleep)
        /\ due' \in {due, nap + Oversleep}
        /\ due' = due => due <= Oversleep \/ due' = nap + Oversleep
    BY <1>4, <2>1, IdleThread DEF PumpEnough, FlagsOK, Flags, nap
  <2>3. FlagsOK' /\ PauseInv' /\ IdleInv'
    BY <1>4 DEF PumpEnough, FlagsOK, Flags, PauseInv, IdleInv
  <2>4. BurstInv'
    BY <1>4, <2>2 DEF PumpEnough, PumpStep, BurstInv
  <2>5. LeadInv'
    <3>1. ~low_latency => clock.ahead >= due'
      BY <2>1, <2>2, PumpAssumption DEF ThreadOK, TimesOK
    <3> QED BY <1>4, <3>1 DEF PumpEnough, LeadInv
  <2> QED BY <1>4, <2>2, <2>3, <2>4, <2>5, StandingStillKeeps DEF PumpEnough
<1> QED
  BY <1>1, <1>2, <1>3, <1>4

-----------------------------------------------------------------------------
(* A trim, and the end of Low Latency's line.                              *)
LEMMA TrimKeeps == IInv /\ PumpTrim => IInv'
<1> SUFFICES ASSUME IInv, PumpTrim PROVE IInv'
  OBVIOUS
<1> USE DEF IInv, fades, timing, history
<1>1. ThreadOK' /\ pc' = "burst" /\ left' >= 1 /\ due' = due /\ due <= Oversleep
  BY PumpedThread DEF PumpTrim
<1>2. TimesOK'
  <2>1. HiddenKeep \in Int
    BY PumpAssumption DEF HiddenKeep
  <2>2. fill' \in 0..fill
    BY <2>1, TrimSpares DEF PumpTrim
  <2> QED BY <2>2, PumpAssumption DEF PumpTrim, TimesOK
<1>3. FlagsOK' /\ PauseInv' /\ BurstInv' /\ LeadInv' /\ NoStaleOutput' /\ MappingOfTheLine'
  BY <1>1 DEF PumpTrim, FlagsOK, Flags, PauseInv, BurstInv, LeadInv, NoStaleOutput, MappingOfTheLine
<1>4. IdleInv'
  BY PumpAssumption DEF PumpTrim, HiddenBacklog, IdleInv, TimesOK
<1> QED
  BY <1>1, <1>2, <1>3, <1>4

LEMMA SuspendKeeps == IInv /\ PumpSuspend => IInv'
<1> SUFFICES ASSUME IInv, PumpSuspend PROVE IInv'
  OBVIOUS
<1> USE DEF IInv
<1>1. ThreadOK' /\ (pc' = "burst" => left' >= 1 /\ due' <= Oversleep)
  BY IdleThread, PumpAssumption DEF PumpSuspend, FlagsOK, Flags
<1>2. FlagsOK'
  BY DEF PumpSuspend, Suspend, FlagsOK, Flags
<1>3. TimesOK'
  BY DEF PumpSuspend, Suspend, Unhanded, TimesOK, Stopped, NoMapping, Nothing
<1>4. PauseInv' /\ IdleInv' /\ BurstInv' /\ LeadInv' /\ NoStaleOutput' /\ MappingOfTheLine'
  BY <1>1 DEF PumpSuspend, Suspend, Unhanded, Stopped, NoMapping, Nothing, TimesOK,
     PauseInv, IdleInv, BurstInv, LeadInv, NoStaleOutput, MappingOfTheLine
<1> QED
  BY <1>1, <1>2, <1>3, <1>4

-----------------------------------------------------------------------------
(* What is handed over.                                                    *)

(* Silence or audio on the clock's line: it is not late, and follows no    *)
(* fade, which is over with the connection it ended.                       *)
LEMMA HandedOnTheLine ==
  ASSUME IInv, ~Paused, NEW what \in {"real", "silence"}, NEW length \in Nat \ {0},
         Hand(what, Line, length), Publish(Line, length),
         clock' = [primed |-> TRUE, ahead |-> Line + length]
  PROVE  /\ clock' \in [primed : BOOLEAN, ahead : Int]
         /\ mapping' \in [on : BOOLEAN, ends : Int]
         /\ out' \in [what : {"none", "real", "silence", "fade"}, ends : Int]
         /\ out'.what # "fade" /\ stale' = FALSE /\ MappingOfTheLine'
         /\ clock'.primed /\ clock'.ahead = Line + length
<1>1. Line \in Int /\ Line >= -MaxLag
  BY LineIsInTime DEF IInv
<1>2. out.what # "fade" /\ stale = FALSE
  BY DEF IInv, PauseInv, Paused, NoStaleOutput, FlagsOK, Flags
<1>3. ~(Line < -MaxLag)
  BY <1>1, PumpAssumption
<1>4. stale' = FALSE
  BY <1>2, <1>3 DEF Hand
<1> QED
  BY <1>1, <1>4 DEF Hand, Publish, MappingOfTheLine

LEMMA ConcealKeeps == IInv /\ PumpConceals => IInv'
<1> SUFFICES ASSUME IInv, PumpConceals PROVE IInv'
  OBVIOUS
<1> USE DEF IInv
<1>1. ThreadOK' /\ pc' = "burst" /\ left' >= 1 /\ due' = due /\ due <= Oversleep
  BY PumpedThread DEF PumpConceals
<1>2. clock' = [primed |-> TRUE, ahead |-> Line + Chunk] /\ Chunk \in Nat \ {0} /\ ~Paused
  BY PumpAssumption DEF PumpConceals, TimesOK
<1>3. /\ clock' \in [primed : BOOLEAN, ahead : Int]
      /\ mapping' \in [on : BOOLEAN, ends : Int]
      /\ out' \in [what : {"none", "real", "silence", "fade"}, ends : Int]
      /\ out'.what # "fade" /\ stale' = FALSE /\ MappingOfTheLine'
      /\ clock'.primed /\ clock'.ahead = Line + Chunk
  BY <1>2, HandedOnTheLine DEF PumpConceals
<1>4. FlagsOK' /\ TimesOK' /\ NoStaleOutput'
  BY <1>3 DEF PumpConceals, FlagsOK, Flags, TimesOK, NoStaleOutput
<1>5. PauseInv' /\ IdleInv' /\ BurstInv'
  BY <1>1, <1>3 DEF PumpConceals, PauseInv, IdleInv, BurstInv
<1>6. LeadInv'
  <2>1. ~low_latency /\ ~reconnecting /\ ~shaken => clock.ahead >= due
    BY DEF PumpConceals, LeadInv
  <2>2. clock.ahead >= due => Line = clock.ahead
    BY PumpAssumption DEF PumpConceals, Line, Lagging, ThreadOK, TimesOK
  <2>3. clock.ahead \in Int /\ due \in Int
    BY DEF ThreadOK, TimesOK
  <2> QED
    BY <1>1, <1>2, <1>3, <2>1, <2>2, <2>3 DEF PumpConceals, LeadInv
<1> QED
  BY <1>1, <1>3, <1>4, <1>5, <1>6

(* A chunk goes on from the clock's line, or starts a line a chunk ahead.  *)
LEMMA PlayKeeps == IInv /\ PumpPlays => IInv'
<1> SUFFICES ASSUME IInv, PumpPlays PROVE IInv'
  OBVIOUS
<1> USE DEF IInv
<1>1. ThreadOK' /\ pc' = "burst" /\ left' >= 1 /\ due' = due /\ due <= Oversleep
  BY PumpedThread DEF PumpPlays
<1>2. fill > 0 /\ ~Paused
  BY DEF PumpPlays, MayPrime
<1> DEFINE aligns == ~low_latency /\ (align_read_pending \/ ~clock.primed)
           asked == IF aligns THEN AligningRead(fill) ELSE Chunk
           got == Least(asked, AfterTrim)
<1>3. asked \in Nat \ {0}
  BY AligningReadsSomething, PumpAssumption DEF TimesOK
<1>4. /\ AfterTrim \in 1..fill /\ got \in 1..AfterTrim
      /\ Stretched(got) \subseteq Nat \ {0}
  <2> HIDE DEF asked
  <2> QED BY <1>2, <1>3, ReadsSomething
<1>5. PICK length \in Stretched(got) :
        /\ fill' = AfterTrim - got
        /\ clock' = [primed |-> TRUE, ahead |-> Line + length]
        /\ Hand("real", Line, length)
        /\ Publish(Line, length)
        /\ FadeIn(length)
        /\ align_read_pending' = ((align_read_pending \/ ~clock.primed) /\ low_latency)
        /\ clicked' = (clicked \/ ((edge \/ Lagging) /\ ~FadesFromNothing))
        /\ edge' = FALSE
        /\ centred' = (~low_latency /\ got = asked /\ (centred \/ aligns))
  BY DEF PumpPlays
<1>6. length \in Nat \ {0}
  BY <1>4, <1>5
<1>7. /\ clock' \in [primed : BOOLEAN, ahead : Int]
      /\ mapping' \in [on : BOOLEAN, ends : Int]
      /\ out' \in [what : {"none", "real", "silence", "fade"}, ends : Int]
      /\ out'.what # "fade" /\ stale' = FALSE /\ MappingOfTheLine'
      /\ clock'.primed /\ clock'.ahead = Line + length
  BY <1>2, <1>5, <1>6, HandedOnTheLine
<1>8. FlagsOK'
  <2>1. centred' \in BOOLEAN /\ edge' \in BOOLEAN /\ clicked' \in BOOLEAN /\ align_read_pending' \in BOOLEAN
    BY <1>5 DEF FlagsOK, Flags
  <2>2. fade_in_pending' \in BOOLEAN /\ conceal_fade_pending' \in BOOLEAN
    BY <1>5 DEF FadeIn
  <2> QED BY <1>7, <2>1, <2>2 DEF PumpPlays, FlagsOK, Flags
<1>9. TimesOK'
  <2>1. fill' \in 0..MaxFill
    <3> HIDE DEF got
    <3> QED BY <1>4, <1>5, PumpAssumption DEF TimesOK
  <2>2. fade_in_remaining' \in 0..FadeLength
    BY <1>5, <1>6, PumpAssumption DEF FadeIn, RampLeft, Most, TimesOK
  <2> QED BY <1>7, <2>1, <2>2 DEF TimesOK
<1>10. NoStaleOutput' /\ PauseInv' /\ BurstInv'
  BY <1>1, <1>7 DEF PumpPlays, NoStaleOutput, PauseInv, BurstInv
<1>11. IdleInv'
  BY <1>2, PumpAssumption DEF PumpPlays, IdleInv, TimesOK
<1>12. LeadInv'
  <2>1. clock.ahead \in Int /\ due \in Int
    BY DEF ThreadOK, TimesOK
  <2>2. CASE clock.primed
    <3>1. ~low_latency /\ ~reconnecting /\ ~shaken => clock.ahead >= due
      BY <2>2 DEF LeadInv
    <3>2. clock.ahead >= due => Line = clock.ahead
      BY <2>2, PumpAssumption DEF Line, Lagging, ThreadOK, TimesOK
    <3> QED BY <1>1, <1>6, <1>7, <2>1, <3>1, <3>2 DEF PumpPlays, LeadInv
  <2>3. CASE ~clock.primed
    <3>1. Line = Chunk
      BY <2>3 DEF Line
    <3>2. Line + length >= due
      BY <1>1, <1>6, <2>1, <3>1, PumpAssumption
    <3> QED BY <1>1, <1>7, <3>2 DEF LeadInv
  <2> QED BY <2>2, <2>3
<1> QED
  BY <1>1, <1>7, <1>8, <1>9, <1>10, <1>11, <1>12

LEMMA PumpKeeps == IInv /\ Pump => IInv'
  BY WaitingPassesKeep, TrimKeeps, SuspendKeeps, ConcealKeeps, PlayKeeps DEF Pump

-----------------------------------------------------------------------------
(* The receiver.                                                           *)

(* With the clock stood down no line is there to be late on.               *)
LEMMA StoodDownKeeps ==
  ASSUME IInv, fill' = 0, clock' = Stopped, mapping' = NoMapping, Unhanded,
         UNCHANGED <<thread, stale>>,
         FlagsOK', rx' \in {"opening", "reading", "failed", "closing", "waiting"},
         rx' \in {"failed", "closing", "waiting"} => reconnecting',
         ~shaken' => ~stalled', fade_in_remaining' \in 0..FadeLength
  PROVE  IInv'
<1>1. ThreadOK'
  BY DEF IInv, ThreadOK, thread
<1>2. TimesOK'
  BY PumpAssumption DEF IInv, TimesOK, Stopped, NoMapping, Unhanded, Nothing
<1>3. /\ PauseInv' /\ IdleInv' /\ BurstInv' /\ LeadInv'
      /\ NoStaleOutput' /\ MappingOfTheLine'
  BY DEF IInv, TimesOK, PauseInv, IdleInv, BurstInv, LeadInv, NoStaleOutput, MappingOfTheLine,
     thread, Stopped, NoMapping, Unhanded, Nothing
<1> QED
  BY <1>1, <1>2, <1>3 DEF IInv

LEMMA ReceiverKeeps == IInv /\ Receiver => IInv'
<1> SUFFICES ASSUME IInv, Receiver PROVE IInv'
  OBVIOUS
<1> USE DEF IInv
<1>1. CASE Write
  <2> USE <1>1 DEF Write, thread, timing, fades, history
  <2>1. FlagsOK' /\ ThreadOK'
    BY DEF FlagsOK, Flags, ThreadOK
  <2>2. TimesOK'
    BY PumpAssumption DEF TimesOK
  <2>3. /\ PauseInv' /\ IdleInv' /\ BurstInv' /\ LeadInv'
        /\ NoStaleOutput' /\ MappingOfTheLine'
    BY DEF PauseInv, IdleInv, BurstInv, LeadInv, NoStaleOutput, MappingOfTheLine
  <2> QED BY <2>1, <2>2, <2>3
<1>2. CASE TimelineReset
  <2>1. FlagsOK'
    BY <1>2 DEF TimelineReset, StandDown, FlagsOK, Flags
  <2> QED
    BY <1>2, <2>1, StoodDownKeeps
       DEF TimelineReset, StandDown, thread, ThreadOK, TimesOK, PauseInv, BurstInv
<1>3. CASE FormatChange
  <2>1. FlagsOK'
    BY <1>3 DEF FormatChange, fades, FlagsOK, Flags
  <2> QED
    BY <1>3, <2>1, StoodDownKeeps
       DEF FormatChange, fades, thread, ThreadOK, TimesOK, PauseInv, BurstInv
<1>4. CASE Closed
  <2>1. FlagsOK'
    BY <1>4 DEF Closed, StandDown, FlagsOK, Flags
  <2> QED
    BY <1>4, <2>1, StoodDownKeeps
       DEF Closed, StandDown, thread, ThreadOK, TimesOK, PauseInv, BurstInv
<1>5. CASE ReadError \/ WaitOver \/ OpenFails
  <2> USE <1>5 DEF ReadError, WaitOver, OpenFails, thread, timing, fades, history
  <2>1. FlagsOK' /\ ThreadOK'
    BY DEF FlagsOK, Flags, ThreadOK
  <2>2. PauseInv' /\ IdleInv' /\ BurstInv' /\ LeadInv'
    BY DEF PauseInv, IdleInv, BurstInv, LeadInv
  <2> QED BY <2>1, <2>2, StandingStillKeeps
<1>6. CASE Opens
  <2> USE <1>6 DEF Opens, thread, timing, history
  <2>1. FlagsOK' /\ ThreadOK'
    BY DEF FlagsOK, Flags, ThreadOK
  <2>2. TimesOK'
    BY PumpAssumption DEF TimesOK
  <2>3. /\ PauseInv' /\ IdleInv' /\ BurstInv' /\ LeadInv'
        /\ NoStaleOutput' /\ MappingOfTheLine'
    BY DEF PauseInv, IdleInv, BurstInv, LeadInv, NoStaleOutput, MappingOfTheLine
  <2> QED BY <2>1, <2>2, <2>3
<1>7. CASE FadeOut
  <2> DEFINE got == Least(FadeLength, fill)
  <2>1. got \in 0..fill
    BY PumpAssumption DEF Least, TimesOK
  <2>2. out.what # "fade" /\ reconnecting /\ reconnecting'
    BY <1>7 DEF FadeOut, PauseInv
  <2> HIDE DEF got
  <2>3. ThreadOK'
    BY <1>7 DEF FadeOut, thread, ThreadOK
  <2>4. fill' \in 0..MaxFill /\ fade_in_remaining' \in 0..FadeLength /\ mapping' = mapping
    <3>1. fill' \in {fill, fill - got} /\ UNCHANGED <<fade_in_remaining, mapping>>
      BY <1>7 DEF FadeOut, fades, got
    <3> QED BY <2>1, <3>1, PumpAssumption DEF TimesOK
  <2>5. CASE clock.primed /\ got > 0 /\ FadeCurrent
    <3>1. /\ clock' = [clock EXCEPT !.ahead = clock.ahead + got]
          /\ Hand("fade", clock.ahead, got) /\ centred' = FALSE
      BY <1>7, <2>5 DEF FadeOut, got
    <3>2. stale = FALSE /\ ~(clock.ahead < 0)
      BY <2>5, PumpAssumption DEF FadeCurrent, TimesOK, NoStaleOutput, FlagsOK, Flags
    <3>3. stale' = FALSE /\ out' = [what |-> "fade", ends |-> clock.ahead + got]
      BY <2>2, <3>1, <3>2 DEF Hand
    <3>4. FlagsOK'
      BY <1>7, <3>1, <3>3 DEF FadeOut, fades, FlagsOK, Flags
    <3>5. TimesOK'
      BY <2>1, <2>4, <3>1, <3>3 DEF TimesOK
    <3>6. /\ PauseInv' /\ IdleInv' /\ BurstInv' /\ LeadInv'
          /\ NoStaleOutput' /\ MappingOfTheLine'
      BY <1>7, <2>2, <2>5, <3>1, <3>3 DEF FadeOut, thread, TimesOK,
         PauseInv, IdleInv, BurstInv, LeadInv, NoStaleOutput, MappingOfTheLine
    <3> QED BY <2>3, <3>4, <3>5, <3>6
  <2>6. CASE ~(clock.primed /\ got > 0 /\ FadeCurrent)
    <3>1. /\ UNCHANGED <<clock, out, stale>> /\ centred' \in {FALSE, centred}
      BY <1>7, <2>6 DEF FadeOut, got
    <3>2. FlagsOK'
      BY <1>7, <3>1 DEF FadeOut, fades, FlagsOK, Flags
    <3>3. TimesOK'
      BY <2>4, <3>1 DEF TimesOK
    <3>4. /\ PauseInv' /\ IdleInv' /\ BurstInv' /\ LeadInv'
          /\ NoStaleOutput' /\ MappingOfTheLine'
      BY <1>7, <2>2, <3>1 DEF FadeOut, thread,
         PauseInv, IdleInv, BurstInv, LeadInv, NoStaleOutput, MappingOfTheLine
    <3> QED BY <2>3, <3>2, <3>3, <3>4
  <2> QED BY <2>5, <2>6
<1> QED
  BY <1>1, <1>2, <1>3, <1>4, <1>5, <1>6, <1>7 DEF Receiver

-----------------------------------------------------------------------------
LEMMA StepKeeps == IInv /\ [Next]_vars => IInv'
<1> SUFFICES ASSUME IInv, [Next]_vars PROVE IInv'
  OBVIOUS
<1>1. CASE UNCHANGED vars
  <2> USE <1>1 DEF vars, thread, timing, fades, history, IInv
  <2>1. FlagsOK' /\ ThreadOK'
    BY DEF FlagsOK, Flags, ThreadOK
  <2>2. PauseInv' /\ IdleInv' /\ BurstInv' /\ LeadInv'
    BY DEF PauseInv, IdleInv, BurstInv, LeadInv
  <2> QED BY <2>1, <2>2, StandingStillKeeps
<1> QED
  BY <1>1, TickKeeps, StallsKeep, PumpKeeps, ReceiverKeeps DEF Next

LEMMA InvariantHolds == Spec => []IInv
  BY InitHolds, StepKeeps, PTL DEF Spec

-----------------------------------------------------------------------------
(* Every variable of the pump and of the output clock keeps its type.      *)
THEOREM TypeCorrect == Spec => []TypeOK
<1>1. IInv => TypeOK
  BY TypeInParts DEF IInv
<1> QED
  BY <1>1, InvariantHolds, PTL

(* OBS is handed nothing too late to be played and nothing behind a fade   *)
(* on the line it ended, wherever in its burst the pump is when the        *)
(* connection is lost and however long the close takes (pump_once,         *)
(* fade_out_buffered_audio).                                               *)
THEOREM NothingStaleIsHanded == Spec => []NoStaleOutput
<1>1. IInv => NoStaleOutput
  BY DEF IInv
<1> QED
  BY <1>1, InvariantHolds, PTL

(* What OBS has been handed by a buffered source reaches past now, as long *)
(* as the audio thread wakes and finishes its burst no more than Oversleep *)
(* later than it asked to (module comment of pump.rs).                     *)
THEOREM BufferedNeverRunsDry == Spec => []NeverRunsDry
<1>1. IInv => NeverRunsDry
  <2> SUFFICES ASSUME IInv, clock.ahead >= due PROVE clock.ahead >= 0
    BY DEF IInv, LeadInv, NeverRunsDry
  <2> QED BY DEF IInv, ThreadOK, TimesOK
<1> QED
  BY <1>1, InvariantHolds, PTL

(* The mapping video is scheduled through ends where the clock's next      *)
(* sample begins (finalize_audio_output).                                  *)
THEOREM MappingFollowsTheClock == Spec => []MappingOfTheLine
<1>1. IInv => MappingOfTheLine
  BY DEF IInv
<1> QED
  BY <1>1, InvariantHolds, PTL

-----------------------------------------------------------------------------
(* The video pacing.                                                       *)

(* What VideoDelay keeps.                                                  *)
Needs == [age : Nat, need : Int]
Windows == [age : Nat, spread : Nat, frames : Nat, worst : Int]
Delays ==
  [floor : Int \cup {None}, window : Windows \cup {None}, needs : Seq(Needs),
   since : Nat \cup {None}, last : Nat, ramp : Int \cup {None}, first : Nat \cup {None},
   relax : Nat]

(* What frames needed falls from the oldest to the newest, and a slew ends *)
(* a tick above what any of them needed.                                   *)
Falling(needs) == \A i, j \in 1..Len(needs) : i < j => needs[i].need > needs[j].need
Clears(end, needs) == end # None => \A i \in 1..Len(needs) : end >= needs[i].need + Tick

SoundDelay(d) ==
  /\ d \in Delays
  /\ d.ramp # None => d.floor # None
  /\ Falling(d.needs)
  /\ Clears(d.ramp, d.needs)

-----------------------------------------------------------------------------
(* The first and the last of some positions.                               *)
LEMMA LeastOf ==
  ASSUME NEW S \in SUBSET Nat, S # {}
  PROVE  \E q \in S : \A r \in S : q <= r
<1> DEFINE Below == {p \in Nat \X Nat : p[1] < p[2]}
<1>1. IsWellFoundedOn(Below, Nat)
  BY NatLessThanWellFounded, Zenon DEF OpToRel
<1> HIDE DEF Below
<1>2. PICK q \in S : \A r \in S : <<r, q>> \notin Below
  BY <1>1, WFMin
<1>3. \A r \in S : ~ (r < q)
  BY <1>2 DEF Below
<1> QED
  BY <1>3

LEMMA GreatestOf ==
  ASSUME NEW n \in Nat, NEW S \in SUBSET (0..n), S # {}
  PROVE  \E q \in S : \A r \in S : r <= q
<1> DEFINE T == {m \in 0..n : n - m \in S}
<1>1. T \subseteq Nat /\ T # {}
  <2>1. PICK s \in S : TRUE
    OBVIOUS
  <2>2. n - s \in 0..n /\ n - (n - s) = s
    OBVIOUS
  <2>3. n - s \in T
    BY <2>2
  <2> QED BY <2>3
<1>2. PICK t \in T : \A u \in T : t <= u
  BY <1>1, LeastOf
<1>3. n - t \in S
  OBVIOUS
<1>4. ASSUME NEW r \in S PROVE r <= n - t
  <2>1. n - r \in 0..n /\ n - (n - r) = r
    OBVIOUS
  <2>2. n - r \in T
    BY <2>1
  <2>3. t <= n - r
    BY <1>2, <2>2
  <2> QED BY <2>3
<1> QED
  BY <1>3, <1>4

(* The queue of needs: a push leaves a front part of it without the        *)
(* entries it beats, then a back part without those past the horizon.      *)
LEMMA UnbeatenIsPart ==
  ASSUME NEW needs \in Seq(Needs), NEW need \in Int
  PROVE  /\ Unbeaten(needs, need) \in Seq(Needs)
         /\ Len(Unbeaten(needs, need)) <= Len(needs)
         /\ \A i \in 1..Len(Unbeaten(needs, need)) : Unbeaten(needs, need)[i] = needs[i]
         /\ LET kept == Unbeaten(needs, need)
            IN  kept # <<>> => kept[Len(kept)].need > need
<1> DEFINE Ends(k) == /\ k > 0 => needs[k].need > need
                      /\ \A i \in (k + 1)..Len(needs) : needs[i].need <= need
           k == CHOOSE n \in 0..Len(needs) : Ends(n)
<1>1. Len(needs) \in Nat /\ \A i \in 1..Len(needs) : needs[i] \in Needs
  OBVIOUS
<1>2. \E n \in 0..Len(needs) : Ends(n)
  <2> DEFINE S == {0} \cup {i \in 1..Len(needs) : needs[i].need > need}
  <2>1. PICK n \in S : \A r \in S : r <= n
    BY <1>1, GreatestOf, S \in SUBSET (0..Len(needs))
  <2>2. \A i \in (n + 1)..Len(needs) : i \in 1..Len(needs) /\ i \notin S
    BY <1>1, <2>1
  <2>3. \A i \in (n + 1)..Len(needs) : needs[i].need <= need
    <3>1. TAKE i \in (n + 1)..Len(needs)
    <3>2. i \in 1..Len(needs) /\ ~(needs[i].need > need)
      BY <2>2
    <3>3. needs[i] \in Needs
      BY <1>1, <3>2
    <3> QED BY <3>2, <3>3 DEF Needs
  <2>4. n \in 0..Len(needs) /\ (n > 0 => needs[n].need > need)
    BY <1>1, <2>1
  <2> QED BY <2>3, <2>4
<1>3. k \in 0..Len(needs) /\ Ends(k)
  BY <1>2
<1>4. Unbeaten(needs, need) = SubSeq(needs, 1, k)
  BY DEF Unbeaten
<1> HIDE DEF k
<1>5. /\ SubSeq(needs, 1, k) \in Seq(Needs) /\ Len(SubSeq(needs, 1, k)) = k
      /\ \A i \in 1..k : SubSeq(needs, 1, k)[i] = needs[i]
  BY <1>1, <1>3, SubSeqProperties
<1> QED
  BY <1>1, <1>3, <1>4, <1>5

LEMMA WithinIsPart ==
  ASSUME NEW needs \in Seq(Needs), NEW horizon \in Nat,
         \E i \in 1..Len(needs) : needs[i].age <= horizon
  PROVE  /\ Within(needs, horizon) \in Seq(Needs) /\ Within(needs, horizon) # <<>>
         /\ \E from \in Nat :
              /\ Len(Within(needs, horizon)) = Len(needs) - from
              /\ \A i \in 1..Len(Within(needs, horizon)) :
                   i + from \in 1..Len(needs) /\ Within(needs, horizon)[i] = needs[i + from]
<1> DEFINE Starts(k) == /\ needs[k].age <= horizon
                        /\ \A i \in 1..(k - 1) : needs[i].age > horizon
           k == CHOOSE n \in DOMAIN needs : Starts(n)
<1>1. /\ Len(needs) \in Nat /\ DOMAIN needs = 1..Len(needs)
      /\ \A i \in 1..Len(needs) : needs[i] \in Needs
  OBVIOUS
<1>2. \E n \in DOMAIN needs : Starts(n)
  <2> DEFINE S == {i \in 1..Len(needs) : needs[i].age <= horizon}
  <2>1. PICK n \in S : \A r \in S : n <= r
    BY <1>1, LeastOf, S \in SUBSET Nat
  <2>2. \A i \in 1..(n - 1) : i \in 1..Len(needs) /\ i \notin S
    BY <1>1, <2>1
  <2>3. Starts(n)
    BY <1>1, <2>1, <2>2 DEF Needs
  <2> QED BY <1>1, <2>1, <2>3
<1>3. k \in 1..Len(needs)
  BY <1>1, <1>2
<1>4. Within(needs, horizon) = SubSeq(needs, k, Len(needs))
  BY DEF Within
<1> HIDE DEF k
<1>5. /\ SubSeq(needs, k, Len(needs)) \in Seq(Needs)
      /\ Len(SubSeq(needs, k, Len(needs))) = Len(needs) - k + 1
      /\ \A i \in 1..(Len(needs) - k + 1) : SubSeq(needs, k, Len(needs))[i] = needs[k + i - 1]
  BY <1>1, <1>3, SubSeqProperties
<1> DEFINE w == SubSeq(needs, k, Len(needs))
<1>6. k - 1 \in Nat /\ Len(w) = Len(needs) - (k - 1) /\ w # <<>>
  <2>1. Len(w) = Len(needs) - (k - 1) /\ Len(w) > 0
    BY <1>1, <1>3, <1>5
  <2>2. w # <<>>
    <3> HIDE DEF w
    <3> QED BY <2>1, <1>5, EmptySeq DEF w
  <2> QED BY <1>3, <2>1, <2>2
<1>7. \A i \in 1..Len(w) : i + (k - 1) \in 1..Len(needs) /\ w[i] = needs[i + (k - 1)]
  BY <1>1, <1>3, <1>5
<1> QED
  BY <1>4, <1>5, <1>6, <1>7

(* What a push leaves of the queue is falling, as the queue promises       *)
(* (WindowExtreme's entries are strictly less extreme from front to back), *)
(* its first entry is the highest, and every entry is the new need or one  *)
(* that was there.                                                         *)
THEOREM PushedIsFalling ==
  ASSUME NEW needs \in Seq(Needs), Falling(needs), NEW need \in Int, NEW horizon \in Nat
  PROVE  LET pushed == Pushed(needs, need, horizon)
         IN  /\ pushed \in Seq(Needs) /\ pushed # <<>> /\ Falling(pushed)
             /\ \A i \in 1..Len(pushed) :
                  /\ pushed[i].need <= Highest(pushed)
                  /\ \/ pushed[i].need = need
                     \/ \E j \in 1..Len(needs) : pushed[i].need = needs[j].need
<1> DEFINE kept == Unbeaten(needs, need)
           entry == [age |-> 0, need |-> need]
           longer == Append(kept, entry)
           pushed == Within(longer, horizon)
<1>1. /\ kept \in Seq(Needs) /\ Len(kept) <= Len(needs) /\ Len(kept) \in Nat
      /\ \A i \in 1..Len(kept) : kept[i] = needs[i]
      /\ kept # <<>> => kept[Len(kept)].need > need
  BY UnbeatenIsPart, LenProperties
<1>0. Len(needs) \in Nat /\ \A i \in 1..Len(needs) : needs[i] \in Needs
  OBVIOUS
<1>2. entry \in Needs /\ entry.need = need /\ entry.age = 0
  BY DEF Needs
<1>3. /\ longer \in Seq(Needs) /\ Len(longer) = Len(kept) + 1
      /\ \A i \in 1..Len(kept) : longer[i] = kept[i]
      /\ longer[Len(kept) + 1] = entry
  <2> HIDE DEF kept, entry
  <2> QED BY <1>1, <1>2, AppendProperties
<1>4. pushed = Pushed(needs, need, horizon)
  BY DEF Pushed
<1> HIDE DEF kept, entry, longer
<1>5. \A i \in 1..Len(kept) : kept[i].need > need
  <2>1. TAKE i \in 1..Len(kept)
  <2>2. kept # <<>> /\ Len(kept) \in 1..Len(needs) /\ i \in 1..Len(needs)
    BY <1>0, <1>1
  <2>3. CASE i = Len(kept)
    BY <1>1, <2>2, <2>3
  <2>4. CASE i < Len(kept)
    <3>1. needs[i].need > needs[Len(kept)].need
      BY <1>0, <1>1, <2>2, <2>4 DEF Falling
    <3>2. needs[i].need \in Int /\ needs[Len(kept)].need \in Int
      BY <1>0, <2>2 DEF Needs
    <3> QED BY <1>0, <1>1, <2>2, <3>1, <3>2
  <2> QED BY <1>1, <2>3, <2>4
<1>6. Falling(longer)
  <2> SUFFICES ASSUME NEW i \in 1..Len(longer), NEW j \in 1..Len(longer), i < j
               PROVE longer[i].need > longer[j].need
    BY DEF Falling
  <2>1. i \in 1..Len(kept) /\ longer[i] = kept[i]
    BY <1>1, <1>3
  <2>2. CASE j = Len(kept) + 1
    BY <1>2, <1>3, <1>5, <2>1, <2>2
  <2>3. CASE j \in 1..Len(kept)
    <3>1. longer[i] = needs[i] /\ longer[j] = needs[j] /\ i \in 1..Len(needs) /\ j \in 1..Len(needs)
      BY <1>0, <1>1, <1>3, <2>1, <2>3
    <3> QED BY <3>1 DEF Falling
  <2> QED BY <1>1, <1>3, <2>2, <2>3
<1>7. \A i \in 1..Len(longer) :
        longer[i].need = need \/ \E j \in 1..Len(needs) : longer[i].need = needs[j].need
  <2>1. TAKE i \in 1..Len(longer)
  <2>2. CASE i = Len(kept) + 1
    BY <1>2, <1>3, <2>2
  <2>3. CASE i \in 1..Len(kept)
    BY <1>0, <1>1, <1>3, <2>3
  <2> QED BY <1>1, <1>3, <2>2, <2>3
<1>8. \E i \in 1..Len(longer) : longer[i].age <= horizon
  BY <1>1, <1>2, <1>3
<1>9. /\ pushed \in Seq(Needs) /\ pushed # <<>>
      /\ \E from \in Nat :
           /\ Len(pushed) = Len(longer) - from
           /\ \A i \in 1..Len(pushed) : i + from \in 1..Len(longer) /\ pushed[i] = longer[i + from]
  BY <1>3, <1>8, WithinIsPart
<1> HIDE DEF pushed
<1>10. PICK from \in Nat :
         /\ Len(pushed) = Len(longer) - from
         /\ \A i \in 1..Len(pushed) : i + from \in 1..Len(longer) /\ pushed[i] = longer[i + from]
  BY <1>9
<1>11. Len(pushed) \in Nat \ {0} /\ \A i \in 1..Len(pushed) : pushed[i] \in Needs
  BY <1>9, EmptySeq
<1>12. Falling(pushed)
  <2> SUFFICES ASSUME NEW i \in 1..Len(pushed), NEW j \in 1..Len(pushed), i < j
               PROVE pushed[i].need > pushed[j].need
    BY DEF Falling
  <2>1. i + from \in 1..Len(longer) /\ j + from \in 1..Len(longer) /\ i + from < j + from
    BY <1>10, <1>11
  <2> QED BY <1>6, <1>10, <2>1 DEF Falling
<1>13. \A i \in 1..Len(pushed) : pushed[i].need <= Highest(pushed)
  <2>1. TAKE i \in 1..Len(pushed)
  <2>2. Highest(pushed) = pushed[1].need /\ 1 \in 1..Len(pushed)
    BY <1>9, <1>11 DEF Highest
  <2>3. i = 1 \/ pushed[1].need > pushed[i].need
    BY <1>11, <1>12, <2>2 DEF Falling
  <2>4. pushed[1].need \in Int /\ pushed[i].need \in Int
    <3>1. pushed[1] \in Needs /\ pushed[i] \in Needs
      BY <1>11, <2>2
    <3> QED BY <3>1 DEF Needs
  <2> QED BY <2>2, <2>3, <2>4
<1>14. \A i \in 1..Len(pushed) :
         pushed[i].need = need \/ \E j \in 1..Len(needs) : pushed[i].need = needs[j].need
  BY <1>7, <1>10
<1> QED
  BY <1>4, <1>9, <1>12, <1>13, <1>14
-----------------------------------------------------------------------------
(* Every step of the floor keeps that.                                     *)
LEMMA FloorArithmetic ==
  /\ \A a, b \in Int : Lower(a, b) \in {a, b} /\ Higher(a, b) \in {a, b}
                      /\ Lower(a, b) <= a /\ Lower(a, b) <= b
                      /\ Higher(a, b) >= a /\ Higher(a, b) >= b
  /\ \A n \in Int : round_up_to_tick(n) \in Int
  BY DelayAssumption DEF Lower, Higher, round_up_to_tick

LEMMA DelayTyped ==
  ASSUME NEW d \in Delays, NEW offset \in Int, NEW need \in Int
  PROVE  delay_ns(d, offset) \in Int /\ Wanted(need, offset) \in Int
<1>1. delay_ns(d, offset) \in Int
  <2>1. CASE d.floor = None
    BY <2>1 DEF delay_ns
  <2>2. CASE d.floor # None
    <3>1. d.floor \in Int
      BY <2>2 DEF Delays
    <3>2. Lower(d.floor - offset, MaxDelay) \in Int
      BY <3>1, DelayAssumption, FloorArithmetic
    <3> QED BY <2>2, <3>2, FloorArithmetic DEF delay_ns
  <2> QED BY <2>1, <2>2
<1>2. Wanted(need, offset) \in Int
  <2>1. round_up_to_tick(need - offset) \in Int
    BY FloorArithmetic
  <2> QED BY <2>1, DelayAssumption, FloorArithmetic DEF Wanted
<1> QED
  BY <1>1, <1>2

(* With nothing held against it, no slew and any floor, it is sound.       *)
LEMMA ForgottenIsSound ==
  ASSUME NEW d \in Delays, d.needs = <<>>, d.ramp = None
  PROVE  SoundDelay(d)
<1>1. Len(d.needs) = 0
  BY Len(<<>>) = 0
<1>2. Falling(d.needs) /\ Clears(d.ramp, d.needs)
  BY <1>1 DEF Falling, Clears
<1> QED
  BY <1>2 DEF SoundDelay

(* What does not touch the needs, and lifts the floor or leaves it there.  *)
LEMMA FloorMoved ==
  ASSUME NEW d, SoundDelay(d), NEW e \in Delays, e.needs = d.needs, e.ramp = d.ramp,
         e.floor = d.floor \/ e.floor \in Int
  PROVE  SoundDelay(e)
  BY DelayAssumption DEF SoundDelay

LEMMA ForgetNeedsTyped ==
  ASSUME NEW d \in Delays
  PROVE  LET e == ForgetNeeds(d)
         IN  e \in Delays /\ e.needs = <<>> /\ e.ramp = None
  BY EmptySeq DEF ForgetNeeds, Delays

LEMMA NewDelayIsSound ==
  ASSUME NEW relax \in Nat
  PROVE  SoundDelay(NewDelay(relax))
<1>1. NewDelay(relax) \in Delays /\ NewDelay(relax).needs = <<>> /\ NewDelay(relax).ramp = None
  BY EmptySeq, DelayAssumption DEF NewDelay, Delays
<1> QED
  BY <1>1, ForgottenIsSound

LEMMA ResetIsSound ==
  ASSUME NEW d \in Delays
  PROVE  SoundDelay(reset(d))
<1> DEFINE f == ForgetNeeds(d)
<1>1. f \in Delays /\ f.needs = <<>> /\ f.ramp = None
  BY ForgetNeedsTyped
<1> HIDE DEF f
<1> DEFINE e == [f EXCEPT !.floor = None, !.window = None, !.first = None]
<1>2. e \in Delays /\ e.needs = <<>> /\ e.ramp = None
  <2>1. f \in Delays
    BY <1>1
  <2>2. e \in Delays /\ e.needs = f.needs /\ e.ramp = f.ramp
    BY <2>1 DEF Delays
  <2> QED BY <1>1, <2>2
<1>3. SoundDelay(e)
  BY <1>2, ForgottenIsSound
<1> QED
  BY <1>3 DEF reset, f

LEMMA NotePacketIsSound ==
  ASSUME NEW d, SoundDelay(d)
  PROVE  SoundDelay(note_packet(d))
<1> DEFINE e == [d EXCEPT !.first = 0]
<1>1. e \in Delays /\ e.needs = d.needs /\ e.ramp = d.ramp /\ e.floor = d.floor
  BY DEF SoundDelay, Delays
<1>2. SoundDelay(e)
  BY <1>1, FloorMoved
<1> QED
  BY <1>2 DEF note_packet

LEMMA RaiseIsSound ==
  ASSUME NEW d, SoundDelay(d), NEW need \in Int, NEW offset \in Int
  PROVE  SoundDelay(raise_to(d, need, offset))
<1>1. CASE ~Raises(d, need, offset)
  BY <1>1 DEF raise_to
<1>2. CASE Raises(d, need, offset)
  <2> DEFINE f == ForgetNeeds(d)
             rise == offset + Wanted(need, offset)
  <2>1. f \in Delays /\ f.needs = <<>> /\ f.ramp = None
    BY ForgetNeedsTyped DEF SoundDelay
  <2>2. rise \in Int
    <3>1. d \in Delays
      BY DEF SoundDelay
    <3>2. Wanted(need, offset) \in Int
      BY <3>1, DelayTyped
    <3> QED BY <3>2
  <2> HIDE DEF f, rise
  <2> DEFINE e == [f EXCEPT !.floor = rise]
  <2>3. e \in Delays /\ e.needs = <<>> /\ e.ramp = None
    BY <2>1, <2>2 DEF Delays
  <2>4. SoundDelay(e)
    BY <2>3, ForgottenIsSound
  <2>5. raise_to(d, need, offset) = e
    BY <1>2 DEF raise_to, f, rise
  <2> QED BY <2>4, <2>5
<1> QED
  BY <1>1, <1>2

LEMMA WindowMoved ==
  ASSUME NEW d, SoundDelay(d), NEW w \in Windows \cup {None}
  PROVE  SoundDelay([d EXCEPT !.window = w])
<1> DEFINE e == [d EXCEPT !.window = w]
<1>1. e \in Delays /\ e.needs = d.needs /\ e.ramp = d.ramp /\ e.floor = d.floor
  BY DEF SoundDelay, Delays
<1> HIDE DEF e
<1>2. SoundDelay(e)
  BY <1>1, FloorMoved
<1> QED
  BY <1>2 DEF e

LEMMA BeforeAnchorIsSound ==
  ASSUME NEW d, SoundDelay(d), NEW need \in Int, NEW offset \in Int
  PROVE  SoundDelay(before_anchor(d, need, offset))
<1> DEFINE e == [d EXCEPT !.window = None]
<1>1. SoundDelay(e)
  BY WindowMoved
<1>2. need + Tick \in Int
  BY DelayAssumption
<1> HIDE DEF e
<1>3. SoundDelay(raise_to(e, need + Tick, offset))
  BY <1>1, <1>2, RaiseIsSound
<1> QED
  BY <1>3 DEF before_anchor, e

LEMMA ExpireIsSound ==
  ASSUME NEW d, SoundDelay(d), NEW offset \in Int
  PROVE  SoundDelay(expire(d, offset))
<1> DEFINE closed == [d EXCEPT !.window = None]
<1>1. SoundDelay(closed)
  BY WindowMoved
<1>2. CASE d.window = None
  BY <1>2 DEF expire
<1>3. CASE d.window # None
  <2>1. d.window.worst \in Int
    BY <1>3 DEF SoundDelay, Delays, Windows
  <2> DEFINE worst == d.window.worst
  <2>2. SoundDelay(raise_to(closed, worst, offset))
    <3> HIDE DEF closed, worst
    <3> QED BY <1>1, <2>1, RaiseIsSound DEF worst
  <2>3. expire(d, offset) \in {d, closed, raise_to(closed, worst, offset)}
    BY DEF expire
  <2> QED BY <1>1, <2>2, <2>3
<1> QED
  BY <1>2, <1>3

LEMMA NoteIsSound ==
  ASSUME NEW d, SoundDelay(d), NEW late \in Int, NEW offset \in Int
  PROVE  SoundDelay(note(d, late, offset))
<1> DEFINE e == expire(d, offset)
           w == IF e.window = None THEN [age |-> 0, spread |-> 0, frames |-> 1, worst |-> late]
                ELSE [age |-> e.window.age, spread |-> e.window.age,
                      frames |-> Lower(e.window.frames + 1, MinFrames),
                      worst |-> Higher(e.window.worst, late)]
<1>1. SoundDelay(e)
  BY ExpireIsSound
<1>2. w \in Windows
  <2> HIDE DEF e
  <2>1. CASE e.window = None
    BY <2>1 DEF Windows
  <2>2. CASE e.window # None
    <3>1. e.window \in Windows
      BY <1>1, <2>2 DEF SoundDelay, Delays
    <3>2. Lower(e.window.frames + 1, MinFrames) \in Nat /\ Higher(e.window.worst, late) \in Int
      BY <3>1, DelayAssumption DEF Windows, Lower, Higher
    <3> QED BY <2>2, <3>1, <3>2 DEF Windows
  <2> QED BY <2>1, <2>2
<1>3. note(d, late, offset) \in {e, [e EXCEPT !.window = w]}
  BY DEF note
<1> HIDE DEF e, w
<1> QED
  BY <1>1, <1>2, <1>3, WindowMoved

(* The arrival of a frame: a slew in progress is held back from what the   *)
(* frame needs, the frame joins the needs, and a new slew ends above the   *)
(* highest of them.                                                        *)
LEMMA NoteArrivalIsSound ==
  ASSUME NEW d, SoundDelay(d), NEW arrived \in Int, NEW offset \in Int
  PROVE  SoundDelay(note_arrival(d, arrived, offset))
<1> DEFINE need == arrived + Tick
           keep == need + Tick
           slewing == IF d.ramp = None \/ d.floor = None THEN d
                      ELSE [d EXCEPT !.ramp = IF keep >= d.floor THEN None ELSE Higher(keep, d.ramp)]
           spared == IF d.last > Window THEN [slewing EXCEPT !.needs = <<>>, !.since = None]
                     ELSE slewing
           noted == [spared EXCEPT !.last = 0, !.needs = Pushed(spared.needs, need, d.relax),
                                   !.since = IF spared.since = None THEN 0 ELSE spared.since]
           target == Highest(noted.needs) + Tick
           ended == [noted EXCEPT !.ramp = IF noted.floor > target + RelaxMin THEN target ELSE None]
<1>1. need \in Int /\ keep \in Int /\ keep = need + Tick
  BY DelayAssumption
<1>2. /\ SoundDelay(slewing) /\ slewing.floor = d.floor /\ slewing.needs = d.needs
      /\ slewing.ramp # None => slewing.ramp >= keep
  <2> HIDE DEF need, keep
  <2>1. CASE d.ramp = None \/ d.floor = None
    BY <2>1 DEF SoundDelay
  <2>2. CASE ~(d.ramp = None \/ d.floor = None)
    <3>1. d.ramp \in Int /\ d.floor \in Int
      BY <2>2 DEF SoundDelay, Delays
    <3> DEFINE end == IF keep >= d.floor THEN None ELSE Higher(keep, d.ramp)
    <3>2. end \in Int \cup {None} /\ (end # None => end >= keep /\ end >= d.ramp)
      BY <1>1, <3>1 DEF Higher
    <3> HIDE DEF end
    <3> DEFINE e == [d EXCEPT !.ramp = end]
    <3>3. e \in Delays /\ e.needs = d.needs /\ e.ramp = end /\ e.floor = d.floor
      BY <3>2 DEF SoundDelay, Delays
    <3>4. Clears(end, d.needs)
      <4> SUFFICES ASSUME end # None, NEW i \in 1..Len(d.needs) PROVE end >= d.needs[i].need + Tick
        BY DEF Clears
      <4>1. d.needs \in Seq(Needs)
        BY DEF SoundDelay, Delays
      <4>2. d.needs[i] \in Needs
        BY <4>1
      <4>3. d.needs[i].need \in Int
        BY <4>2 DEF Needs
      <4>4. d.ramp >= d.needs[i].need + Tick
        BY <2>2 DEF SoundDelay, Clears
      <4>5. end \in Int /\ end >= d.ramp
        BY <3>2
      <4>6. Tick \in Nat
        BY DelayAssumption
      <4> HIDE DEF end
      <4> QED BY <3>1, <4>3, <4>4, <4>5, <4>6
    <3>5. SoundDelay(e)
      <4> HIDE DEF e
      <4> QED BY <2>2, <3>3, <3>4 DEF SoundDelay
    <3>6. slewing = e
      BY <2>2 DEF end
    <3> QED BY <3>2, <3>3, <3>5, <3>6
  <2> QED BY <2>1, <2>2
<1> HIDE DEF slewing
<1>3. /\ SoundDelay(spared) /\ spared.floor = d.floor
      /\ spared.ramp # None => spared.ramp >= keep
  <2>1. CASE d.last > Window
    <3> DEFINE e == [slewing EXCEPT !.needs = <<>>, !.since = None]
    <3>1. e \in Delays /\ e.needs = <<>> /\ e.ramp = slewing.ramp /\ e.floor = slewing.floor
      BY <1>2, EmptySeq DEF SoundDelay, Delays
    <3>2. Falling(<<>>) /\ Clears(e.ramp, <<>>)
      BY Len(<<>>) = 0 DEF Falling, Clears
    <3> HIDE DEF e
    <3>3. SoundDelay(e)
      BY <1>2, <3>1, <3>2 DEF SoundDelay
    <3>4. spared = e
      BY <2>1 DEF e
    <3> QED BY <1>2, <3>1, <3>3, <3>4
  <2>2. CASE ~(d.last > Window)
    BY <1>2, <2>2
  <2> QED BY <2>1, <2>2
<1> HIDE DEF spared
<1> DEFINE pushed == Pushed(spared.needs, need, d.relax)
<1>4. /\ pushed \in Seq(Needs) /\ pushed # <<>> /\ Falling(pushed)
      /\ \A i \in 1..Len(pushed) :
           /\ pushed[i].need <= Highest(pushed)
           /\ \/ pushed[i].need = need
              \/ \E j \in 1..Len(spared.needs) : pushed[i].need = spared.needs[j].need
  <2>1. spared.needs \in Seq(Needs) /\ Falling(spared.needs) /\ d.relax \in Nat
    BY <1>3 DEF SoundDelay, Delays
  <2> HIDE DEF need
  <2> QED BY <1>1, <2>1, PushedIsFalling
<1> DEFINE age == IF spared.since = None THEN 0 ELSE spared.since
<1>5. age \in Nat \cup {None}
  BY <1>3 DEF SoundDelay, Delays
<1> HIDE DEF pushed, age, need
<1>6. noted = [spared EXCEPT !.last = 0, !.needs = pushed, !.since = age]
  BY DEF pushed, age
<1> HIDE DEF noted
<1>7. noted \in Delays /\ noted.needs = pushed /\ noted.ramp = spared.ramp /\ noted.floor = spared.floor
  BY <1>3, <1>4, <1>5, <1>6 DEF SoundDelay, Delays
<1>8. SoundDelay(noted)
  <2>1. Clears(spared.ramp, pushed)
    <3> SUFFICES ASSUME spared.ramp # None, NEW i \in 1..Len(pushed)
                 PROVE  spared.ramp >= pushed[i].need + Tick
      BY DEF Clears
    <3>1. CASE pushed[i].need = need
      BY <1>1, <1>3, <3>1 DEF need
    <3>2. CASE \E j \in 1..Len(spared.needs) : pushed[i].need = spared.needs[j].need
      BY <1>3, <3>2 DEF SoundDelay, Clears
    <3> QED BY <1>4, <3>1, <3>2
  <2> QED BY <1>3, <1>4, <1>7, <2>1 DEF SoundDelay
<1>9. target = Highest(pushed) + Tick /\ target \in Int
      /\ \A i \in 1..Len(pushed) : target >= pushed[i].need + Tick
  <2>1. 1 \in 1..Len(pushed) /\ \A i \in 1..Len(pushed) : pushed[i] \in Needs
    BY <1>4, EmptySeq
  <2>2. Highest(pushed) = pushed[1].need /\ pushed[1].need \in Int
    BY <1>4, <2>1 DEF Highest, Needs
  <2>3. \A i \in 1..Len(pushed) : pushed[i].need \in Int
    BY <2>1 DEF Needs
  <2> QED BY <1>4, <1>7, <2>2, <2>3, DelayAssumption
<1> HIDE DEF target
<1>10. ASSUME noted.floor # None PROVE SoundDelay(ended)
  <2> DEFINE end == IF noted.floor > target + RelaxMin THEN target ELSE None
  <2>1. end \in Int \cup {None} /\ (end # None => end = target)
    BY <1>9
  <2> HIDE DEF end
  <2> DEFINE e == [noted EXCEPT !.ramp = end]
  <2>2. e \in Delays /\ e.needs = pushed /\ e.ramp = end /\ e.floor = noted.floor
    BY <1>7, <2>1 DEF Delays
  <2>3. Clears(end, pushed)
    BY <1>9, <2>1 DEF Clears
  <2> HIDE DEF e
  <2>4. SoundDelay(e)
    BY <1>4, <1>10, <2>2, <2>3 DEF SoundDelay
  <2> QED BY <2>4 DEF e, end
<1>11. \/ note_arrival(d, arrived, offset) \in {d, noted}
       \/ noted.floor # None /\ note_arrival(d, arrived, offset) = ended
  BY DEF note_arrival, noted, target, spared, slewing, need
<1> QED
  BY <1>8, <1>10, <1>11

(* A step of a slew goes no further than its end.                          *)
LEMMA RampIsSound ==
  ASSUME NEW d, SoundDelay(d), NEW step \in Int, NEW offset \in Int
  PROVE  SoundDelay(ramp(d, step, offset))
<1>1. CASE d.ramp = None \/ d.floor = None
  <2> DEFINE e == [d EXCEPT !.ramp = None]
  <2>1. e \in Delays /\ e.needs = d.needs /\ e.ramp = None
    BY DEF SoundDelay, Delays
  <2>2. ramp(d, step, offset) = e
    BY <1>1 DEF ramp
  <2> HIDE DEF e
  <2>3. SoundDelay(e)
    BY <2>1 DEF SoundDelay, Clears
  <2> QED BY <2>2, <2>3
<1>2. CASE ~(d.ramp = None \/ d.floor = None)
  <2> DEFINE start == Lower(d.floor, offset + MaxDelay)
             slewed == IF d.ramp >= start THEN d.ramp ELSE Higher(start - step, d.ramp)
             to == IF slewed <= offset THEN d.ramp ELSE slewed
             end == IF to <= d.ramp THEN None ELSE d.ramp
             e == [d EXCEPT !.floor = to, !.ramp = end]
  <2>1. d.ramp \in Int /\ d.floor \in Int
    BY <1>2 DEF SoundDelay, Delays
  <2>2. to \in Int
    BY <2>1, DelayAssumption DEF Lower, Higher
  <2>3. end \in {None, d.ramp}
    OBVIOUS
  <2>4. ramp(d, step, offset) = e
    BY <1>2 DEF ramp
  <2> HIDE DEF to, end
  <2>5. e \in Delays /\ e.needs = d.needs /\ e.ramp = end /\ e.floor = to
    BY <2>1, <2>2, <2>3 DEF SoundDelay, Delays
  <2> HIDE DEF e
  <2>6. SoundDelay(e)
    BY <2>2, <2>3, <2>5, DelayAssumption DEF SoundDelay, Clears
  <2> QED BY <2>4, <2>6
<1> QED
  BY <1>1, <1>2

(* Time changes ages alone.                                                *)
LEMMA AgedIsSound ==
  ASSUME NEW d, SoundDelay(d)
  PROVE  SoundDelay(Aged(d))
<1> DEFINE w == OlderWindow(d.window)
           s == OlderNeeds(d.needs, d.relax + 1)
           since == OlderTo(d.since, d.relax)
           last == Lower(d.last + 1, Window + 1)
           first == OlderTo(d.first, LiveMaxWait)
           e == [d EXCEPT !.window = w, !.needs = s, !.since = since, !.last = last, !.first = first]
<1>1. Aged(d) = e
  BY DEF Aged
<1>2. d \in Delays /\ d.needs \in Seq(Needs) /\ d.relax \in Nat
  BY DEF SoundDelay, Delays
<1>3. w \in Windows \cup {None}
  <2>1. CASE d.window # None
    <3>1. d.window \in Windows
      BY <1>2, <2>1 DEF Delays
    <3> QED BY <2>1, <3>1, DelayAssumption DEF Windows, Lower, OlderWindow
  <2> QED BY <2>1 DEF OlderWindow
<1>4. /\ s \in Seq(Needs) /\ Len(s) = Len(d.needs)
      /\ \A i \in 1..Len(s) : s[i].need = d.needs[i].need
  <2>1. DOMAIN d.needs = 1..Len(d.needs) /\ Len(d.needs) \in Nat
        /\ \A i \in 1..Len(d.needs) : d.needs[i] \in Needs
    BY <1>2
  <2>2. \A i \in 1..Len(d.needs) :
          s[i] = [age |-> Lower(d.needs[i].age + 1, d.relax + 1), need |-> d.needs[i].need]
    BY <2>1 DEF OlderNeeds
  <2>3. s = [i \in 1..Len(d.needs) |-> s[i]]
    BY <2>1 DEF OlderNeeds
  <2> HIDE DEF s
  <2>4. \A i \in 1..Len(d.needs) : s[i] \in Needs /\ s[i].need = d.needs[i].need
    <3>1. TAKE i \in 1..Len(d.needs)
    <3>2. d.needs[i] \in Needs
      BY <2>1
    <3>3. d.needs[i].age \in Nat /\ d.needs[i].need \in Int
      BY <3>2 DEF Needs
    <3>4. Lower(d.needs[i].age + 1, d.relax + 1) \in Nat
      BY <1>2, <3>3 DEF Lower
    <3>5. s[i] = [age |-> Lower(d.needs[i].age + 1, d.relax + 1), need |-> d.needs[i].need]
      BY <2>2
    <3> QED BY <3>3, <3>4, <3>5 DEF Needs
  <2>5. s \in [1..Len(d.needs) -> Needs]
    BY <2>3, <2>4
  <2>6. s \in Seq(Needs) /\ Len(s) = Len(d.needs)
    BY <2>1, <2>5
  <2> QED BY <2>4, <2>6
<1>5. since \in Nat \cup {None} /\ last \in Nat /\ first \in Nat \cup {None}
  <2>1. /\ d.since \in Nat \cup {None} /\ d.last \in Nat /\ d.first \in Nat \cup {None}
        /\ Window \in Nat /\ LiveMaxWait \in Nat /\ d.relax \in Nat /\ None \notin Int
    BY <1>2, DelayAssumption DEF Delays
  <2>2. last \in Nat
    BY <2>1 DEF Lower
  <2>3. since \in Nat \cup {None}
    BY <2>1 DEF Lower, OlderTo
  <2>4. first \in Nat \cup {None}
    BY <2>1 DEF Lower, OlderTo
  <2> QED BY <2>2, <2>3, <2>4
<1> HIDE DEF w, s, since, last, first
<1>6. e \in Delays /\ e.needs = s /\ e.ramp = d.ramp /\ e.floor = d.floor
  BY <1>2, <1>3, <1>4, <1>5 DEF Delays
<1>7. Falling(s) /\ Clears(d.ramp, s)
  BY <1>4 DEF SoundDelay, Falling, Clears
<1> HIDE DEF e
<1> QED
  BY <1>1, <1>6, <1>7 DEF SoundDelay
-----------------------------------------------------------------------------
(* What the world and the thread keep, typed.                              *)
Packets == [pts : Int, need : 0..MaxNeed]
Frames == [pts : Int, need : 0..MaxNeed, offset : Int]
Holdings == [offset : Offsets, age : Nat]

WorldTyped ==
  /\ phase \in 0..Tick /\ next \in -MaxNeed..(Interval + Outage)
  /\ chan \in Seq({Decoder} \cup Packets)
  /\ playout \in Offsets \cup {None} /\ fallback \in Int \cup {None}
  /\ queue \in Seq(Int) /\ head \in Int \cup {None}

FlagsTyped ==
  /\ {clear_pending, timeline_reset, audio_present, anchor_pending, last_frame} \subseteq BOOLEAN
  /\ stage \in {"asleep", "intake", "decode", "await", "settle", "emit"}
  /\ anchor_wait \in {"idle", "waiting", "gave_up"}

ThreadTyped ==
  /\ pacing \in Seq(Frames) /\ Len(pacing) <= MaxFrames
  /\ held \in Holdings \cup {None} /\ offset_ns \in Int \cup {None}
  /\ SoundDelay(delay)
  /\ slack \in Int /\ sleep \in Int /\ waited \in Int
  /\ handed_until \in Int /\ handed_until >= LongAgo

Typed == WorldTyped /\ FlagsTyped /\ ThreadTyped

LEMMA ConstantsTyped ==
  /\ Tick \in Nat \ {0} /\ MaxDelay \in Nat /\ Interval \in Nat \ {0} /\ MaxNeed \in Nat
  /\ Offsets \subseteq Int /\ None \notin Int /\ None \notin Offsets
  /\ DecodeLead \in Nat /\ MaxFrames \in Nat /\ LeadTicks \in Nat /\ MaxWait \in Nat
  /\ Expected \in Nat /\ OffsetHold \in Nat /\ AudioLead \in Nat /\ TsClamp \in Nat
  /\ TsCap \in Nat /\ Outage \in Nat /\ Slack \in Nat /\ Slews \subseteq Nat
  /\ Lead \in Nat /\ LongAgo \in Int /\ LongAgo <= -(2 * Tick) /\ Slack <= Tick
<1>1. /\ Tick \in Nat \ {0} /\ MaxDelay \in Nat /\ None \notin Int
  BY DelayAssumption
<1>2. None \notin Offsets /\ Offsets \subseteq Int
  BY <1>1, PacingAssumption
<1>3. LeadTicks \in Nat /\ LeadTicks >= 2 /\ Slack <= Tick
  BY PacingAssumption
<1>4. Lead \in Nat /\ Lead >= 2 * Tick
  BY <1>1, <1>3 DEF Lead
<1>5. MaxNeed \in Nat /\ OffsetHold \in Nat /\ MaxWait \in Nat
  BY PacingAssumption
<1>6. LongAgo \in Int /\ LongAgo <= -(2 * Tick)
  BY <1>1, <1>4, <1>5 DEF LongAgo
<1> QED
  BY <1>1, <1>2, <1>3, <1>4, <1>5, <1>6, PacingAssumption

LEMMA DueTyped ==
  ASSUME NEW d, SoundDelay(d), NEW frame \in Frames
  PROVE  due_ns(d, frame.pts + frame.offset, frame.offset) \in Int
<1>1. frame.pts \in Int /\ frame.offset \in Int /\ d \in Delays
  BY DEF Frames, SoundDelay
<1>2. delay_ns(d, frame.offset) \in Int
  BY <1>1, DelayTyped
<1> QED
  BY <1>1, <1>2 DEF due_ns

(* What a clear, the floor and a reschedule leave of the queue.            *)
LEMMA RescheduleTyped ==
  ASSUME Typed, NEW frames \in Seq(Frames), Reschedule(frames)
  PROVE  /\ pacing' \in Seq(Frames) /\ Len(pacing') = Len(frames)
         /\ held' \in Holdings \cup {None} /\ offset_ns' \in Int \cup {None}
<1>1. playout_offset \in Int \cup {None}
  <2>1. CASE playout # None
    BY <2>1, ConstantsTyped DEF playout_offset, Typed, WorldTyped
  <2>2. CASE playout = None /\ held # None
    <3>1. held \in Holdings
      BY <2>2 DEF Typed, ThreadTyped
    <3>2. held.offset \in Int
      BY <3>1, ConstantsTyped DEF Holdings
    <3> QED BY <2>2, <3>2 DEF playout_offset
  <2>3. CASE playout = None /\ held = None
    BY <2>3 DEF playout_offset
  <2> QED BY <2>1, <2>2, <2>3
<1>2. offset_ns' \in Int \cup {None}
  BY <1>1 DEF Reschedule, Typed, ThreadTyped
<1>3. held' \in Holdings \cup {None}
  BY DEF Reschedule, Typed, ThreadTyped, WorldTyped, Holdings
<1>4. pacing' \in Seq(Frames) /\ Len(pacing') = Len(frames)
  <2>1. CASE playout_offset = None
    BY <2>1 DEF Reschedule
  <2>2. CASE playout_offset # None
    <3> DEFINE s == [i \in DOMAIN frames |-> [frames[i] EXCEPT !.offset = playout_offset]]
    <3>1. DOMAIN frames = 1..Len(frames) /\ Len(frames) \in Nat
          /\ \A i \in 1..Len(frames) : frames[i] \in Frames
      OBVIOUS
    <3>2. s = [i \in 1..Len(frames) |-> s[i]]
      BY <3>1
    <3>3. \A i \in 1..Len(frames) : s[i] \in Frames
      <4>1. TAKE i \in 1..Len(frames)
      <4> DEFINE f == frames[i]
                 o == playout_offset
      <4>2. f \in Frames /\ s[i] = [f EXCEPT !.offset = o] /\ o \in Int
        BY <1>1, <2>2, <3>1
      <4> HIDE DEF f, s, o
      <4> QED BY <4>2 DEF Frames
    <3>4. pacing' = s
      BY <2>2 DEF Reschedule
    <3> HIDE DEF s
    <3>5. s \in [1..Len(frames) -> Frames]
      BY <3>2, <3>3
    <3> QED BY <3>1, <3>4, <3>5
  <2> QED BY <2>1, <2>2
<1> QED
  BY <1>2, <1>3, <1>4

LEMMA InitTyped == PacingInit => Typed
<1> SUFFICES ASSUME PacingInit PROVE Typed
  OBVIOUS
<1>1. PICK s \in Scenarios :
        audio_present = s.audio /\ changes = s.changes /\ delay = NewDelay(s.relax)
  BY DEF PacingInit
<1>2. s.audio \in BOOLEAN /\ s.relax \in Nat
  BY <1>1, PacingAssumption
<1>3. WorldTyped
  BY ConstantsTyped DEF PacingInit, WorldTyped
<1>4. FlagsTyped
  BY <1>1, <1>2, Zenon DEF PacingInit, FlagsTyped
<1>5. SoundDelay(delay)
  BY <1>1, <1>2, NewDelayIsSound
<1>6. ThreadTyped
  BY <1>5, ConstantsTyped, Len(<<>>) = 0 DEF PacingInit, ThreadTyped
<1> QED
  BY <1>3, <1>4, <1>6 DEF Typed

LEMMA CachedTyped ==
  ASSUME Typed, NEW timestamp \in Int, Cached(timestamp)
  PROVE  queue' \in Seq(Int) /\ head' \in Int \cup {None}
<1>1. queue \in Seq(Int) /\ head \in Int \cup {None}
  BY DEF Typed, WorldTyped
<1>2. <<>> \in Seq(Int) /\ Append(queue, timestamp) \in Seq(Int)
  BY <1>1, EmptySeq, AppendProperties
<1>3. CASE Len(queue) >= MaxAsync
  BY <1>2, <1>3 DEF Cached
<1>4. CASE ~(Len(queue) >= MaxAsync)
  BY <1>1, <1>2, <1>4 DEF Cached
<1> QED
  BY <1>3, <1>4

LEMMA RenderTickTyped == Typed /\ RenderTick => Typed'
<1> SUFFICES ASSUME Typed, RenderTick PROVE Typed'
  OBVIOUS
<1> DEFINE moved == head + Tick
           Back == {i \in 2..Len(queue) : queue[i] < queue[i - 1]}
           passed == {i \in DOMAIN queue : queue[i] < moved}
           newest == CHOOSE i \in passed : \A j \in passed : j <= i
           b == CHOOSE i \in Back : \A j \in Back : i <= j
<1>1. queue \in Seq(Int) /\ Len(queue) \in Nat /\ head \in Int \cup {None}
  BY DEF Typed, WorldTyped
<1>2. Back # {} => b \in 2..Len(queue)
  <2>1. SUFFICES ASSUME Back # {} PROVE b \in 2..Len(queue)
    OBVIOUS
  <2>2. \E i \in Back : \A j \in Back : i <= j
    BY <1>1, <2>1, LeastOf, Back \in SUBSET Nat
  <2> QED BY <2>2
<1>3. passed # {} => newest \in 1..Len(queue)
  <2>1. SUFFICES ASSUME passed # {} PROVE newest \in 1..Len(queue)
    OBVIOUS
  <2>2. \E i \in passed : \A j \in passed : j <= i
    BY <1>1, <2>1, GreatestOf, passed \in SUBSET (0..Len(queue))
  <2> QED BY <1>1, <2>2
<1>4. queue' \in Seq(Int) /\ head' \in Int \cup {None}
  <2>1. CASE queue = <<>>
    BY <1>1, <2>1 DEF RenderTick
  <2>2. CASE queue # <<>> /\ head = None
    BY <1>1, <2>2 DEF RenderTick
  <2>3. CASE queue # <<>> /\ head # None /\ Back # {} /\ moved > queue[1]
    <3>1. queue' = SubSeq(queue, b, Len(queue)) /\ head' = queue[b]
      BY <2>3 DEF RenderTick
    <3>2. b \in 2..Len(queue)
      BY <1>2, <2>3
    <3> HIDE DEF b, Back, moved
    <3>3. SubSeq(queue, b, Len(queue)) \in Seq(Int) /\ queue[b] \in Int
      BY <1>1, <3>2, SubSeqProperties
    <3> QED BY <3>1, <3>3
  <2>4. CASE queue # <<>> /\ head # None /\ ~(Back # {} /\ moved > queue[1])
    <3>1. head' = moved /\ queue' = IF passed = {} THEN queue ELSE SubSeq(queue, newest + 1, Len(queue))
      BY <2>4 DEF RenderTick
    <3>2. moved \in Int
      BY <1>1, <2>4, ConstantsTyped
    <3>3. passed # {} => SubSeq(queue, newest + 1, Len(queue)) \in Seq(Int)
      <4> HIDE DEF newest
      <4> QED BY <1>1, <1>3, SubSeqProperties
    <3> QED BY <1>1, <3>1, <3>2, <3>3
  <2> QED BY <2>1, <2>2, <2>3, <2>4
<1>5. phase' = 0 /\ UNCHANGED <<changes, unshown, source, schedule, cycle, anchor, pacing, floor>>
  BY DEF RenderTick
<1>6. WorldTyped'
  BY <1>4, <1>5, ConstantsTyped DEF Typed, WorldTyped, source, schedule
<1>7. FlagsTyped'
  BY <1>5, Zenon DEF Typed, FlagsTyped, source, anchor, cycle
<1>8. ThreadTyped'
  BY <1>5 DEF Typed, ThreadTyped, cycle, anchor, floor
<1> QED
  BY <1>6, <1>7, <1>8 DEF Typed

(* The passing of time shifts what waits, and keeps what it is.            *)
LEMMA OlderTyped ==
  ASSUME NEW s \in Seq({Decoder} \cup Packets)
  PROVE  [i \in DOMAIN s |-> IF s[i] = Decoder THEN Decoder ELSE [s[i] EXCEPT !.pts = @ - 1]]
           \in Seq({Decoder} \cup Packets)
<1> DEFINE older == [i \in DOMAIN s |-> IF s[i] = Decoder THEN Decoder
                                        ELSE [s[i] EXCEPT !.pts = @ - 1]]
<1>1. DOMAIN s = 1..Len(s) /\ Len(s) \in Nat
      /\ \A i \in 1..Len(s) : s[i] \in {Decoder} \cup Packets
  OBVIOUS
<1>2. older = [i \in 1..Len(s) |-> older[i]]
  BY <1>1
<1>3. \A i \in 1..Len(s) : older[i] \in {Decoder} \cup Packets
  <2>1. TAKE i \in 1..Len(s)
  <2> DEFINE p == s[i]
  <2>2. older[i] = IF p = Decoder THEN Decoder ELSE [p EXCEPT !.pts = @ - 1]
    BY <1>1
  <2>3. p \in {Decoder} \cup Packets
    BY <1>1
  <2> HIDE DEF p, older
  <2>4. CASE p = Decoder
    BY <2>2, <2>4
  <2>5. CASE p # Decoder
    <3>1. p \in Packets
      BY <2>3, <2>5
    <3>2. [p EXCEPT !.pts = @ - 1] \in Packets
      BY <3>1 DEF Packets
    <3> QED BY <2>2, <2>5, <3>2
  <2> QED BY <2>4, <2>5
<1> HIDE DEF older
<1>4. older \in [1..Len(s) -> {Decoder} \cup Packets]
  BY <1>2, <1>3
<1>5. older \in Seq({Decoder} \cup Packets)
  BY <1>1, <1>4
<1> QED
  BY <1>5 DEF older

LEMMA OlderFramesTyped ==
  ASSUME NEW s \in Seq(Frames)
  PROVE  LET older == [i \in DOMAIN s |-> IF s[i] = Decoder THEN Decoder
                                          ELSE [s[i] EXCEPT !.pts = @ - 1]]
         IN  older \in Seq(Frames) /\ Len(older) = Len(s)
<1> DEFINE older == [i \in DOMAIN s |-> IF s[i] = Decoder THEN Decoder
                                        ELSE [s[i] EXCEPT !.pts = @ - 1]]
<1>1. DOMAIN s = 1..Len(s) /\ Len(s) \in Nat /\ \A i \in 1..Len(s) : s[i] \in Frames
  OBVIOUS
<1>2. older = [i \in 1..Len(s) |-> older[i]]
  BY <1>1
<1>3. \A i \in 1..Len(s) : older[i] \in Frames
  <2>1. TAKE i \in 1..Len(s)
  <2> DEFINE f == s[i]
  <2>2. older[i] = IF f = Decoder THEN Decoder ELSE [f EXCEPT !.pts = @ - 1]
    BY <1>1
  <2>3. f \in Frames
    BY <1>1
  <2> HIDE DEF f, older
  <2>4. f # Decoder
    <3>1. DOMAIN f = {"pts", "need", "offset"}
      BY <2>3 DEF Frames
    <3>2. DOMAIN Decoder = {"decoder"}
      BY DEF Decoder
    <3> QED BY <3>1, <3>2
  <2>5. [f EXCEPT !.pts = @ - 1] \in Frames
    <3>1. f.pts - 1 \in Int
      BY <2>3 DEF Frames
    <3> DEFINE p == f.pts - 1
    <3> HIDE DEF p
    <3>2. [f EXCEPT !.pts = p] \in Frames
      BY <2>3, <3>1 DEF Frames, p
    <3> QED BY <3>2 DEF p
  <2> QED BY <2>2, <2>4, <2>5
<1> HIDE DEF older
<1>4. older \in [1..Len(s) -> Frames]
  BY <1>2, <1>3
<1>5. older \in Seq(Frames) /\ Len(older) = Len(s)
  BY <1>1, <1>4
<1> QED
  BY <1>5 DEF older

LEMMA PassTyped == Typed /\ Pass => Typed'
<1> SUFFICES ASSUME Typed, Pass PROVE Typed'
  OBVIOUS
<1>1. WorldTyped /\ FlagsTyped /\ ThreadTyped
  BY DEF Typed
<1>2. phase' \in 0..Tick
  <2>1. phase < Tick /\ phase' = phase + 1
    BY DEF Pass
  <2> QED BY <1>1, <2>1, ConstantsTyped DEF WorldTyped
<1>3. next' \in -MaxNeed..(Interval + Outage)
  <2>1. next' = IF next - 1 < -MaxNeed THEN next - 1 + Interval ELSE next - 1
    BY DEF Pass
  <2>2. next \in -MaxNeed..(Interval + Outage)
    BY <1>1 DEF WorldTyped
  <2> QED BY <2>1, <2>2, ConstantsTyped
<1>4. chan' \in Seq({Decoder} \cup Packets)
  BY <1>1, OlderTyped DEF Pass, WorldTyped
<1>5. pacing' \in Seq(Frames) /\ Len(pacing') = Len(pacing)
  BY <1>1, OlderFramesTyped DEF Pass, ThreadTyped
<1>6. queue' \in Seq(Int)
  <2>1. queue \in Seq(Int) /\ queue' = [i \in DOMAIN queue |-> queue[i] - 1]
    BY <1>1 DEF Pass, WorldTyped
  <2>2. /\ Len(queue) \in Nat /\ DOMAIN queue = 1..Len(queue)
        /\ \A i \in 1..Len(queue) : queue[i] - 1 \in Int
    BY <2>1
  <2>3. queue' \in [1..Len(queue) -> Int]
    BY <2>1, <2>2
  <2> QED BY <2>2, <2>3
<1>7. head' \in Int \cup {None}
  BY <1>1 DEF Pass, WorldTyped
<1>8. WorldTyped'
  BY <1>1, <1>2, <1>3, <1>4, <1>6, <1>7 DEF Pass, WorldTyped, schedule
<1>9. FlagsTyped'
  <2>1. UNCHANGED <<clear_pending, timeline_reset, audio_present, anchor_pending, last_frame,
                    stage, anchor_wait>>
    BY DEF Pass
  <2> QED BY <1>1, <2>1, Zenon DEF FlagsTyped
<1>10. held' \in Holdings \cup {None}
  <2>1. CASE held = None \/ held.age > OffsetHold
    BY <2>1 DEF Pass
  <2>2. CASE ~(held = None \/ held.age > OffsetHold)
    <3>1. held \in Holdings
      BY <1>1, <2>2 DEF ThreadTyped
    <3>2. held' = [held EXCEPT !.age = @ + 1]
      BY <2>2 DEF Pass
    <3> QED BY <3>1, <3>2 DEF Holdings
  <2> QED BY <2>1, <2>2
<1>11. SoundDelay(delay')
  BY <1>1, AgedIsSound DEF Pass, ThreadTyped
<1>12. sleep' \in Int /\ waited' \in Int /\ handed_until' \in Int /\ handed_until' >= LongAgo
  <2>1. /\ sleep' = sleep - 1
        /\ waited' = IF anchor_wait = "waiting" THEN Lower(waited + 1, Expected) ELSE waited
        /\ handed_until' = Higher(handed_until - 1, LongAgo)
    BY DEF Pass
  <2>2. sleep \in Int /\ waited \in Int /\ handed_until \in Int
    BY <1>1 DEF ThreadTyped
  <2>3. Lower(waited + 1, Expected) \in Int
    BY <2>2, ConstantsTyped DEF Lower
  <2>4. handed_until' \in Int /\ handed_until' >= LongAgo
    BY <2>1, <2>2, ConstantsTyped DEF Higher
  <2> QED BY <2>1, <2>2, <2>3, <2>4
<1>13. ThreadTyped'
  BY <1>1, <1>5, <1>10, <1>11, <1>12 DEF Pass, ThreadTyped
<1> QED
  BY <1>8, <1>9, <1>13 DEF Typed

LEMMA WokenTyped ==
  ASSUME NEW s \in Int, NEW work
  PROVE  Woken(s, work) \in Int /\ Woken(s, work) <= s
  BY DEF Woken, Lower

LEMMA PushTyped == Typed /\ Push => Typed'
<1> SUFFICES ASSUME Typed, Push PROVE Typed'
  OBVIOUS
<1>1. WorldTyped /\ FlagsTyped /\ ThreadTyped
  BY DEF Typed
<1>2. next' \in -MaxNeed..(Interval + Outage)
  BY <1>1, ConstantsTyped DEF Push, WorldTyped
<1>3. chan' \in Seq({Decoder} \cup Packets)
  <2>1. next \in Int /\ -next \in 0..MaxNeed
    BY <1>1, ConstantsTyped DEF Push, WorldTyped
  <2>2. [pts |-> next, need |-> -next] \in {Decoder} \cup Packets
    BY <2>1 DEF Packets
  <2>3. chan' = Append(chan, [pts |-> next, need |-> -next])
    BY DEF Push
  <2> QED BY <1>1, <2>2, <2>3, AppendProperties DEF WorldTyped
<1>4. WorldTyped'
  BY <1>1, <1>2, <1>3 DEF Push, WorldTyped, schedule, obs
<1>5. FlagsTyped'
  BY <1>1, Zenon DEF Push, FlagsTyped, anchor
<1>6. sleep' \in Int
  BY <1>1, WokenTyped DEF Push, ThreadTyped
<1>7. ThreadTyped'
  BY <1>1, <1>6 DEF Push, ThreadTyped, anchor, floor
<1> QED
  BY <1>4, <1>5, <1>7 DEF Typed

LEMMA PublishOffsetTyped ==
  ASSUME Typed, NEW offset \in Offsets, PublishOffset(offset)
  PROVE  Typed'
<1>1. WorldTyped /\ FlagsTyped /\ ThreadTyped
  BY DEF Typed
<1>2. WorldTyped'
  BY <1>1 DEF PublishOffset, WorldTyped, source
<1>3. FlagsTyped'
  BY <1>1, Zenon DEF PublishOffset, FlagsTyped, anchor, source
<1>4. sleep' \in Int
  BY <1>1, WokenTyped DEF PublishOffset, ThreadTyped
<1>5. ThreadTyped'
  BY <1>1, <1>4 DEF PublishOffset, ThreadTyped, anchor, floor
<1> QED
  BY <1>2, <1>3, <1>5 DEF Typed

LEMMA ResetTimelineTyped == Typed /\ ResetTimeline => Typed'
<1> SUFFICES ASSUME Typed, ResetTimeline PROVE Typed'
  OBVIOUS
<1>1. WorldTyped /\ FlagsTyped /\ ThreadTyped
  BY DEF Typed
<1>2. WorldTyped'
  BY <1>1 DEF ResetTimeline, WorldTyped
<1>3. FlagsTyped'
  <2>1. timeline_reset' \in BOOLEAN /\ anchor_wait' = anchor_wait /\ stage' = stage
        /\ UNCHANGED <<clear_pending, audio_present, anchor_pending, last_frame>>
    BY DEF ResetTimeline, anchor, cycle
  <2> QED BY <1>1, <2>1, Zenon DEF FlagsTyped
<1>4. ThreadTyped'
  BY <1>1 DEF ResetTimeline, ThreadTyped, anchor, floor, cycle
<1> QED
  BY <1>2, <1>3, <1>4 DEF Typed

LEMMA ReconnectTyped ==
  ASSUME Typed, NEW blank \in BOOLEAN, NEW audio \in BOOLEAN, Reconnect(blank, audio)
  PROVE  Typed'
<1>1. WorldTyped /\ FlagsTyped /\ ThreadTyped
  BY DEF Typed
<1>2. chan' \in Seq({Decoder} \cup Packets)
  <2> DEFINE S == {Decoder} \cup Packets
  <2>1. chan \in Seq(S) /\ Decoder \in S
    BY <1>1 DEF WorldTyped
  <2>2. chan' \in {<<Decoder>>, Append(chan, Decoder), Append(Tail(chan), Decoder)}
    BY DEF Reconnect
  <2> HIDE DEF S
  <2>3. <<Decoder>> \in Seq(S) /\ Append(chan, Decoder) \in Seq(S)
    BY <2>1, AppendProperties
  <2>4. Tail(chan) \in Seq(S)
    <3>1. CASE chan = <<>>
      BY <2>1, <3>1
    <3>2. CASE chan # <<>>
      BY <2>1, <3>2, HeadTailProperties
    <3> QED BY <3>1, <3>2
  <2>5. Append(Tail(chan), Decoder) \in Seq(S)
    BY <2>1, <2>4, AppendProperties
  <2> QED BY <2>2, <2>3, <2>5 DEF S
<1>3. WorldTyped'
  BY <1>1, <1>2, ConstantsTyped DEF Reconnect, WorldTyped
<1>4. FlagsTyped'
  <2>1. clear_pending' \in BOOLEAN /\ audio_present' \in BOOLEAN
        /\ UNCHANGED <<timeline_reset, stage, anchor_pending, last_frame, anchor_wait>>
    BY <1>1, Zenon DEF Reconnect, FlagsTyped, anchor
  <2> QED BY <1>1, <2>1, Zenon DEF FlagsTyped
<1>5. sleep' \in Int
  BY <1>1, WokenTyped DEF Reconnect, ThreadTyped
<1>6. ThreadTyped'
  BY <1>1, <1>5 DEF Reconnect, ThreadTyped, anchor, floor
<1> QED
  BY <1>3, <1>4, <1>6 DEF Typed

LEMMA TakeClearTyped == Typed /\ take_clear => Typed'
<1> SUFFICES ASSUME Typed, take_clear PROVE Typed'
  OBVIOUS
<1>1. WorldTyped /\ FlagsTyped /\ ThreadTyped
  BY DEF Typed
<1>2. WorldTyped'
  BY <1>1, EmptySeq DEF take_clear, WorldTyped, schedule
<1>3. FlagsTyped'
  <2>1. clear_pending' = FALSE /\ anchor_pending' = TRUE /\ last_frame' = FALSE /\ anchor_wait' = "idle"
        /\ UNCHANGED <<timeline_reset, audio_present, stage>>
    BY DEF take_clear, cycle
  <2> QED BY <1>1, <2>1, Zenon DEF FlagsTyped
<1>4. SoundDelay(delay')
  BY <1>1, ResetIsSound DEF take_clear, ThreadTyped, SoundDelay
<1>5. pacing' = <<>> /\ <<>> \in Seq(Frames) /\ Len(<<>>) = 0
  BY DEF take_clear
<1>6. ThreadTyped'
  BY <1>1, <1>4, <1>5, ConstantsTyped DEF take_clear, ThreadTyped, cycle
<1> QED
  BY <1>2, <1>3, <1>6 DEF Typed

LEMMA BeginCycleTyped == Typed /\ BeginCycle => Typed'
<1> SUFFICES ASSUME Typed, BeginCycle PROVE Typed'
  OBVIOUS
<1>1. WorldTyped /\ FlagsTyped /\ ThreadTyped
  BY DEF Typed
<1>2. WorldTyped'
  BY <1>1 DEF BeginCycle, WorldTyped, schedule, obs
<1>3. FlagsTyped'
  <2>1. timeline_reset' = FALSE /\ stage' = "intake"
        /\ UNCHANGED <<clear_pending, audio_present, anchor_pending, last_frame, anchor_wait>>
    BY DEF BeginCycle, anchor
  <2> QED BY <1>1, <2>1, Zenon DEF FlagsTyped
<1>4. SoundDelay(delay') /\ offset_ns' \in Int \cup {None}
  <2>1. SoundDelay(reset(delay)) /\ SoundDelay(delay)
    BY <1>1, ResetIsSound DEF ThreadTyped, SoundDelay
  <2>2. (delay' = reset(delay) /\ offset_ns' = None) \/ UNCHANGED <<delay, offset_ns>>
    BY DEF BeginCycle
  <2> QED BY <1>1, <2>1, <2>2 DEF ThreadTyped
<1>5. slack' \in Int
  BY ConstantsTyped DEF BeginCycle, emit_slack_ns
<1>6. ThreadTyped'
  BY <1>1, <1>4, <1>5 DEF BeginCycle, ThreadTyped, anchor
<1> QED
  BY <1>2, <1>3, <1>6 DEF Typed

(* What the decoder takes leaves the rest.                                 *)
LEMMA TakenTyped ==
  ASSUME Typed, chan # <<>>, chan' = Tail(chan)
  PROVE  chan' \in Seq({Decoder} \cup Packets) /\ (chan[1] # Decoder => chan[1] \in Packets)
<1> DEFINE S == {Decoder} \cup Packets
<1>1. chan \in Seq(S)
  BY DEF Typed, WorldTyped
<1> HIDE DEF S
<1>2. Tail(chan) \in Seq(S) /\ Head(chan) \in S /\ Head(chan) = chan[1]
  BY <1>1, HeadTailProperties
<1> QED
  BY <1>2 DEF S

LEMMA AdoptDecoderTyped == Typed /\ adopt_decoder => Typed'
<1> SUFFICES ASSUME Typed, adopt_decoder PROVE Typed'
  OBVIOUS
<1>1. WorldTyped /\ FlagsTyped /\ ThreadTyped
  BY DEF Typed
<1>2. chan' \in Seq({Decoder} \cup Packets)
  BY TakenTyped DEF adopt_decoder, Takes
<1>3. WorldTyped'
  BY <1>1, <1>2 DEF adopt_decoder, WorldTyped, schedule, obs
<1>4. FlagsTyped'
  BY <1>1, Zenon DEF adopt_decoder, FlagsTyped, anchor, cycle
<1>5. SoundDelay(delay')
  BY <1>1, ResetIsSound DEF adopt_decoder, ThreadTyped, SoundDelay
<1>6. ThreadTyped'
  BY <1>1, <1>5 DEF adopt_decoder, ThreadTyped, anchor, cycle
<1> QED
  BY <1>3, <1>4, <1>6 DEF Typed

LEMMA BaseDueTyped ==
  ASSUME Typed, NEW pts \in Int, NEW base \in Int
  PROVE  base_due(pts, base) \in Int
<1>1. playout \in Offsets \cup {None} /\ Offsets \subseteq Int
  BY ConstantsTyped DEF Typed, WorldTyped
<1>2. fallback_anchor(pts, base) \in Int
  BY ConstantsTyped DEF fallback_anchor
<1> QED
  BY <1>1, <1>2, ConstantsTyped DEF base_due

LEMMA PaceDecodedTyped == Typed /\ pace_decoded => Typed'
<1> SUFFICES ASSUME Typed, pace_decoded PROVE Typed'
  OBVIOUS
<1>1. WorldTyped /\ FlagsTyped /\ ThreadTyped
  BY DEF Typed
<1>2. chan' \in Seq({Decoder} \cup Packets) /\ chan[1] \in Packets
  BY TakenTyped DEF pace_decoded, Takes
<1> DEFINE packet == chan[1]
           base == IF fallback = None THEN -packet.pts ELSE fallback
           offset == base_due(packet.pts, base)
           frame == [pts |-> packet.pts, need |-> packet.need, offset |-> offset]
<1>3. packet.pts \in Int /\ packet.need \in 0..MaxNeed /\ base \in Int
  BY <1>1, <1>2 DEF Packets, WorldTyped
<1>4. offset \in Int
  <2> HIDE DEF base
  <2> QED BY <1>3, BaseDueTyped
<1>5. \/ pacing' = Append(pacing, frame) /\ fallback' \in {base, fallback}
         /\ delay' = note_packet(delay) /\ offset_ns' = offset
      \/ UNCHANGED <<pacing, fallback, delay, offset_ns>>
  BY DEF pace_decoded
<1> HIDE DEF base, offset
<1>6. frame \in Frames
  BY <1>3, <1>4 DEF Frames
<1> HIDE DEF frame, packet
<1>7. WorldTyped'
  BY <1>1, <1>2, <1>3, <1>5 DEF pace_decoded, WorldTyped, obs
<1>8. FlagsTyped'
  <2>1. stage' = "decode"
        /\ UNCHANGED <<clear_pending, timeline_reset, audio_present, anchor_pending, last_frame, anchor_wait>>
    BY DEF pace_decoded, anchor
  <2> QED BY <1>1, <2>1, Zenon DEF FlagsTyped
<1>9. Len(pacing) < MaxFrames
  <2>1. has_room
    BY <1>1 DEF pace_decoded, Takes
  <2> QED BY <1>1, <2>1, ConstantsTyped DEF has_room, at_hard_ceiling, ThreadTyped
<1>10. pacing' \in Seq(Frames) /\ Len(pacing') <= MaxFrames
  <2>1. pacing \in Seq(Frames) /\ Len(pacing) \in Nat
    BY <1>1 DEF ThreadTyped
  <2>2. Append(pacing, frame) \in Seq(Frames) /\ Len(Append(pacing, frame)) = Len(pacing) + 1
    BY <1>6, <2>1, AppendProperties
  <2> QED BY <1>5, <1>9, <2>1, <2>2, ConstantsTyped
<1>11. SoundDelay(delay') /\ offset_ns' \in Int \cup {None}
  BY <1>1, <1>4, <1>5, NotePacketIsSound DEF ThreadTyped
<1>12. ThreadTyped'
  BY <1>1, <1>10, <1>11 DEF pace_decoded, ThreadTyped, anchor
<1> QED
  BY <1>7, <1>8, <1>12 DEF Typed

LEMMA PacingRescheduleTyped == Typed /\ pacing_reschedule => Typed'
<1> SUFFICES ASSUME Typed, pacing_reschedule PROVE Typed'
  OBVIOUS
<1>1. WorldTyped /\ FlagsTyped /\ ThreadTyped
  BY DEF Typed
<1>2. /\ pacing' \in Seq(Frames) /\ Len(pacing') = Len(pacing)
      /\ held' \in Holdings \cup {None} /\ offset_ns' \in Int \cup {None}
  BY <1>1, RescheduleTyped DEF pacing_reschedule, ThreadTyped
<1>3. SoundDelay(delay')
  <2>1. CASE anchor_pending \/ offset_ns' = None
    BY <1>1, <2>1 DEF pacing_reschedule, ThreadTyped
  <2>2. CASE ~(anchor_pending \/ offset_ns' = None)
    <3>1. PICK step \in Slews : delay' = expire(ramp(delay, step, offset_ns'), offset_ns')
      BY <2>2 DEF pacing_reschedule
    <3>2. step \in Int /\ offset_ns' \in Int
      BY <1>2, <2>2, <3>1, ConstantsTyped
    <3>3. SoundDelay(ramp(delay, step, offset_ns'))
      BY <1>1, <3>2, RampIsSound DEF ThreadTyped
    <3>4. SoundDelay(expire(ramp(delay, step, offset_ns'), offset_ns'))
      BY <3>2, <3>3, ExpireIsSound
    <3> QED BY <3>1, <3>4
  <2> QED BY <2>1, <2>2
<1>4. WorldTyped'
  BY <1>1 DEF pacing_reschedule, WorldTyped, schedule, obs, source
<1>5. FlagsTyped'
  <2>1. stage' \in {"await", "emit"}
        /\ UNCHANGED <<clear_pending, timeline_reset, audio_present, anchor_pending, last_frame, anchor_wait>>
    BY DEF pacing_reschedule, anchor, source
  <2> QED BY <1>1, <2>1, Zenon DEF FlagsTyped
<1>6. ThreadTyped'
  BY <1>1, <1>2, <1>3 DEF pacing_reschedule, ThreadTyped, anchor
<1> QED
  BY <1>4, <1>5, <1>6 DEF Typed

LEMMA AwaitTyped == Typed /\ (KeepWaiting \/ WaitIsOver) => Typed'
<1> SUFFICES ASSUME Typed, KeepWaiting \/ WaitIsOver PROVE Typed'
  OBVIOUS
<1>1. WorldTyped /\ FlagsTyped /\ ThreadTyped
  BY DEF Typed
<1>2. WorldTyped'
  BY <1>1 DEF KeepWaiting, WaitIsOver, WorldTyped, schedule, obs, source
<1>3. FlagsTyped'
  <2>1. anchor_wait' \in {"idle", "waiting", "gave_up"} /\ stage' \in {"asleep", "settle"}
        /\ UNCHANGED <<clear_pending, timeline_reset, audio_present, anchor_pending, last_frame>>
    BY <1>1 DEF KeepWaiting, WaitIsOver, source, FlagsTyped
  <2> QED BY <1>1, <2>1, Zenon DEF FlagsTyped
<1>4. slack' \in Int /\ sleep' \in Int /\ waited' \in Int
  BY <1>1, ConstantsTyped DEF KeepWaiting, WaitIsOver, ThreadTyped
<1>5. UNCHANGED <<pacing, held, delay, offset_ns, handed_until>>
  BY DEF KeepWaiting, WaitIsOver, floor
<1>6. ThreadTyped'
  BY <1>1, <1>4, <1>5 DEF ThreadTyped
<1> QED
  BY <1>2, <1>3, <1>6 DEF Typed

LEMMA SettleTyped == Typed /\ settle_anchor_candidate => Typed'
<1> SUFFICES ASSUME Typed, settle_anchor_candidate PROVE Typed'
  OBVIOUS
<1>1. WorldTyped /\ FlagsTyped /\ ThreadTyped
  BY DEF Typed
<1>2. /\ pacing' \in Seq(Frames) /\ Len(pacing') <= MaxFrames
      /\ held' \in Holdings \cup {None} /\ offset_ns' \in Int \cup {None}
      /\ SoundDelay(delay')
  <2>1. CASE pacing = <<>>
    BY <1>1, <2>1 DEF settle_anchor_candidate, ThreadTyped
  <2>2. CASE pacing # <<>>
    <3>1. PICK measurable \in BOOLEAN :
            /\ delay' = Measured(measurable)
            /\ \/ Reschedule(pacing)
               \/ UNCHANGED <<held, offset_ns>> /\ pacing' \in {pacing, Tail(pacing)}
      <4>1. PICK is_live \in live(delay) :
              LET measurable == NewestInHand /\ (audio_present => is_live)
              IN  /\ delay' = Measured(measurable)
                  /\ \/ Reschedule(pacing)
                     \/ UNCHANGED <<held, offset_ns>> /\ pacing' \in {pacing, Tail(pacing)}
        BY <2>2 DEF settle_anchor_candidate
      <4> DEFINE measurable == NewestInHand /\ (audio_present => is_live)
      <4>2. delay' = Measured(measurable)
            /\ \/ Reschedule(pacing)
               \/ UNCHANGED <<held, offset_ns>> /\ pacing' \in {pacing, Tail(pacing)}
        BY <4>1
      <4>3. CASE measurable
        <5>1. Measured(measurable) = Measured(TRUE)
          BY <4>3 DEF Measured
        <5> QED BY <4>2, <5>1
      <4>4. CASE ~measurable
        <5>1. Measured(measurable) = Measured(FALSE)
          BY <4>4 DEF Measured
        <5> QED BY <4>2, <5>1
      <4> QED BY <4>3, <4>4
    <3>2. pacing \in Seq(Frames) /\ Len(pacing) \in Nat /\ pacing[1] \in Frames
      BY <1>1, <2>2, HeadTailProperties DEF ThreadTyped
    <3>3. SoundDelay(Measured(measurable))
      <4>1. pacing[1].need \in Int /\ pacing[1].offset \in Int
        BY <3>2, ConstantsTyped DEF Frames
      <4> QED BY <1>1, <4>1, BeforeAnchorIsSound DEF Measured, ThreadTyped
    <3>4. Tail(pacing) \in Seq(Frames) /\ Len(Tail(pacing)) = Len(pacing) - 1
      BY <2>2, <3>2, HeadTailProperties
    <3>5. CASE Reschedule(pacing)
      <4>1. /\ pacing' \in Seq(Frames) /\ Len(pacing') = Len(pacing)
            /\ held' \in Holdings \cup {None} /\ offset_ns' \in Int \cup {None}
        BY <3>2, <3>5, RescheduleTyped
      <4> QED BY <1>1, <3>1, <3>3, <4>1 DEF ThreadTyped
    <3>6. CASE UNCHANGED <<held, offset_ns>> /\ pacing' \in {pacing, Tail(pacing)}
      BY <1>1, <3>1, <3>2, <3>3, <3>4, <3>6, ConstantsTyped DEF ThreadTyped
    <3> QED BY <3>1, <3>5, <3>6
  <2> QED BY <2>1, <2>2
<1>3. WorldTyped'
  BY <1>1 DEF settle_anchor_candidate, WorldTyped, schedule, obs, source
<1>4. FlagsTyped'
  <2>1. stage' \in {"emit", stage}
        /\ UNCHANGED <<clear_pending, timeline_reset, audio_present, anchor_pending, last_frame, anchor_wait>>
    BY DEF settle_anchor_candidate, anchor, source
  <2> QED BY <1>1, <2>1, Zenon DEF FlagsTyped
<1>5. ThreadTyped'
  BY <1>1, <1>2 DEF settle_anchor_candidate, ThreadTyped, anchor
<1> QED
  BY <1>3, <1>4, <1>5 DEF Typed

(* The frame that goes out: its due time, and what it tells the floor.     *)
LEMMA HeadOfPacing ==
  ASSUME Typed, pacing # <<>>
  PROVE  /\ pacing[1] \in Frames /\ Due(pacing[1]) \in Int
         /\ Tail(pacing) \in Seq(Frames) /\ Len(Tail(pacing)) = Len(pacing) - 1
         /\ SoundDelay(Noted(pacing[1]))
<1> DEFINE frame == pacing[1]
<1>1. pacing \in Seq(Frames) /\ SoundDelay(delay)
  BY DEF Typed, ThreadTyped
<1>2. /\ frame \in Frames
      /\ Tail(pacing) \in Seq(Frames) /\ Len(Tail(pacing)) = Len(pacing) - 1
  BY <1>1, HeadTailProperties
<1>3. frame.pts \in Int /\ frame.offset \in Int /\ frame.need \in Int /\ -frame.pts \in Int
  BY <1>2, ConstantsTyped DEF Frames
<1>4. Due(frame) \in Int
  BY <1>1, <1>2, DueTyped DEF Due
<1>5. SoundDelay(note(delay, -frame.pts, frame.offset))
  BY <1>1, <1>3, NoteIsSound
<1>6. SoundDelay(Noted(frame))
  BY <1>3, <1>5, NoteArrivalIsSound DEF Noted
<1> QED
  BY <1>2, <1>4, <1>6

LEMMA StampTyped ==
  ASSUME Typed, NEW goes \in Int
  PROVE  Stamp(goes) \in Int /\ Stamp(goes) >= handed_until /\ Stamp(goes) >= LongAgo
  BY ConstantsTyped DEF Stamp, Higher, Typed, ThreadTyped

LEMMA EmitTyped == Typed /\ pacing_emit_due => Typed'
<1> SUFFICES ASSUME Typed, pacing_emit_due PROVE Typed'
  OBVIOUS
<1>1. WorldTyped /\ FlagsTyped /\ ThreadTyped
  BY DEF Typed
<1>2. pacing # <<>>
  BY DEF pacing_emit_due, Emits
<1> DEFINE frame == pacing[1]
<1>3. /\ frame \in Frames /\ Due(frame) \in Int
      /\ Tail(pacing) \in Seq(Frames) /\ Len(Tail(pacing)) = Len(pacing) - 1
      /\ SoundDelay(Noted(frame))
  BY <1>2, HeadOfPacing
<1>4. SoundDelay(delay')
  BY <1>1, <1>3 DEF pacing_emit_due, ThreadTyped
<1>5. /\ pacing' \in Seq(Frames) /\ Len(pacing') = Len(pacing) - 1
      /\ held' \in Holdings \cup {None} /\ offset_ns' \in Int \cup {None}
  <2>1. \/ pacing' = Tail(pacing) /\ UNCHANGED <<held, offset_ns>>
        \/ Reschedule(Tail(pacing))
    BY DEF pacing_emit_due
  <2>2. CASE Reschedule(Tail(pacing))
    BY <1>3, <2>2, RescheduleTyped
  <2>3. CASE pacing' = Tail(pacing) /\ UNCHANGED <<held, offset_ns>>
    BY <1>1, <1>3, <2>3 DEF ThreadTyped
  <2> QED BY <2>1, <2>2, <2>3
<1>6. /\ queue' \in Seq(Int) /\ head' \in Int \cup {None}
      /\ handed_until' \in Int /\ handed_until' >= LongAgo
      /\ last_frame' \in {last_frame, TRUE} /\ anchor_pending' \in {anchor_pending, FALSE}
  <2> DEFINE goes == IF anchor_pending THEN anchor_timestamp ELSE Due(frame)
  <2>1. goes \in Int
    BY <1>1, <1>3, ConstantsTyped DEF anchor_timestamp, NextTick, WorldTyped
  <2>2. \/ UNCHANGED <<queue, head, handed_until, last_frame, anchor_pending>>
        \/ HandOver(Stamp(goes)) /\ anchor_pending' = FALSE
    BY DEF pacing_emit_due
  <2> HIDE DEF goes
  <2>3. Stamp(goes) \in Int /\ Stamp(goes) >= LongAgo
    BY <2>1, StampTyped
  <2>4. CASE HandOver(Stamp(goes)) /\ anchor_pending' = FALSE
    <3>1. queue' \in Seq(Int) /\ head' \in Int \cup {None}
      BY <2>3, <2>4, CachedTyped DEF HandOver
    <3> QED BY <2>3, <2>4, <3>1 DEF HandOver
  <2>5. CASE UNCHANGED <<queue, head, handed_until, last_frame, anchor_pending>>
    BY <1>1, <2>5 DEF WorldTyped, ThreadTyped
  <2> QED BY <2>2, <2>4, <2>5
<1>7. WorldTyped'
  BY <1>1, <1>6 DEF pacing_emit_due, WorldTyped, schedule, source
<1>8. FlagsTyped'
  <2>1. UNCHANGED <<clear_pending, timeline_reset, audio_present, stage, anchor_wait>>
    BY DEF pacing_emit_due, source, cycle
  <2>2. last_frame' \in BOOLEAN /\ anchor_pending' \in BOOLEAN
    BY <1>1, <1>6, Zenon DEF FlagsTyped
  <2> QED BY <1>1, <2>1, <2>2, Zenon DEF FlagsTyped
<1>9. ThreadTyped'
  BY <1>1, <1>4, <1>5, <1>6, ConstantsTyped DEF pacing_emit_due, ThreadTyped, cycle
<1> QED
  BY <1>7, <1>8, <1>9 DEF Typed

LEMMA SleepHintTyped ==
  ASSUME Typed
  PROVE  /\ sleep_hint \in Int
         /\ ~anchor_pending /\ last_frame => sleep_hint <= NextTick + Slack
         /\ pacing # <<>> => sleep_hint <= Due(pacing[1]) - slack
<1> DEFINE tick == IF anchor_pending \/ ~last_frame THEN MaxWait ELSE Lower(NextTick + Slack, MaxWait)
<1>1. NextTick \in Int /\ slack \in Int
  BY ConstantsTyped DEF NextTick, Typed, WorldTyped, ThreadTyped
<1>2. tick \in Int /\ (~anchor_pending /\ last_frame => tick <= NextTick + Slack)
  BY <1>1, ConstantsTyped DEF Lower
<1>3. sleep_hint = IF pacing = <<>> THEN tick ELSE Lower(tick, Due(pacing[1]) - slack)
  BY DEF sleep_hint
<1>4. pacing # <<>> => Due(pacing[1]) \in Int
  BY HeadOfPacing
<1> HIDE DEF tick
<1>5. CASE pacing = <<>>
  BY <1>2, <1>3, <1>5
<1>6. CASE pacing # <<>>
  <2>1. Lower(tick, Due(pacing[1]) - slack) \in Int
        /\ Lower(tick, Due(pacing[1]) - slack) <= tick
        /\ Lower(tick, Due(pacing[1]) - slack) <= Due(pacing[1]) - slack
    BY <1>1, <1>2, <1>4, <1>6 DEF Lower
  <2>2. NextTick + Slack \in Int
    BY <1>1, ConstantsTyped
  <2> QED BY <1>2, <1>3, <1>6, <2>1, <2>2
<1> QED
  BY <1>5, <1>6

LEMMA EndCycleTyped == Typed /\ EndCycle => Typed'
<1> SUFFICES ASSUME Typed, EndCycle PROVE Typed'
  OBVIOUS
<1>1. WorldTyped /\ FlagsTyped /\ ThreadTyped
  BY DEF Typed
<1>2. NextTick \in Int /\ NextTick >= LongAgo
  BY <1>1, ConstantsTyped DEF NextTick, WorldTyped
<1>3. /\ queue' \in Seq(Int) /\ head' \in Int \cup {None}
      /\ handed_until' \in Int /\ handed_until' >= LongAgo
      /\ last_frame' \in {last_frame, TRUE}
  <2>1. CASE RepeatNeeded
    <3>1. HandOver(NextTick)
      BY <2>1 DEF EndCycle
    <3>2. queue' \in Seq(Int) /\ head' \in Int \cup {None}
      BY <1>2, <3>1, CachedTyped DEF HandOver
    <3> QED BY <1>2, <3>1, <3>2 DEF HandOver
  <2>2. CASE ~RepeatNeeded
    BY <1>1, <2>2 DEF EndCycle, WorldTyped, ThreadTyped
  <2> QED BY <2>1, <2>2
<1>4. slack' = 0 /\ sleep' \in Int
  BY <1>1, SleepHintTyped DEF EndCycle
<1>5. WorldTyped'
  BY <1>1, <1>3 DEF EndCycle, WorldTyped, schedule, source
<1>6. FlagsTyped'
  <2>1. stage' = "asleep"
        /\ UNCHANGED <<clear_pending, timeline_reset, audio_present, anchor_pending, anchor_wait>>
    BY DEF EndCycle, source
  <2>2. last_frame' \in BOOLEAN
    BY <1>1, <1>3, Zenon DEF FlagsTyped
  <2> QED BY <1>1, <2>1, <2>2, Zenon DEF FlagsTyped
<1>7. ThreadTyped'
  BY <1>1, <1>3, <1>4 DEF EndCycle, ThreadTyped, floor
<1> QED
  BY <1>5, <1>6, <1>7 DEF Typed

(* What the decoder, the receiver and the pacing thread keep stays typed    *)
(* through every operation, and the delay stays sound: the needs it holds  *)
(* fall from front to back (window.rs), and a slew under way ends a tick   *)
(* above each of them (VideoDelay::update).                                *)
THEOREM PacingTyped == PacingSpec => []Typed
<1>1. PacingInit => Typed
  BY InitTyped
<1>2. Typed /\ [PacingNext]_pacing_vars => Typed'
  <2> SUFFICES ASSUME Typed, [PacingNext]_pacing_vars PROVE Typed'
    OBVIOUS
  <2>1. CASE Pass
    BY <2>1, PassTyped
  <2>2. CASE RenderTick
    BY <2>2, RenderTickTyped
  <2>3. CASE Cycle
    BY <2>3, TakeClearTyped, BeginCycleTyped, AdoptDecoderTyped, PaceDecodedTyped,
       PacingRescheduleTyped, AwaitTyped, SettleTyped, EmitTyped, EndCycleTyped DEF Cycle
  <2>4. CASE Push
    BY <2>4, PushTyped
  <2>5. CASE ResetTimeline
    BY <2>5, ResetTimelineTyped
  <2>6. CASE \E offset \in Offsets : PublishOffset(offset)
    BY <2>6, PublishOffsetTyped
  <2>7. CASE \E blank, audio \in BOOLEAN : Reconnect(blank, audio)
    BY <2>7, ReconnectTyped
  <2>8. CASE UNCHANGED pacing_vars
    <3>1. UNCHANGED <<phase, next, chan, playout, fallback, queue, head, clear_pending, timeline_reset,
                      audio_present, anchor_pending, last_frame, stage, anchor_wait, pacing, held,
                      offset_ns, delay, slack, sleep, waited, handed_until>>
      BY <2>8 DEF pacing_vars, obs, source, schedule, cycle, anchor, floor
    <3>2. WorldTyped' /\ ThreadTyped'
      BY <3>1 DEF Typed, WorldTyped, ThreadTyped
    <3>3. FlagsTyped'
      BY <3>1, Zenon DEF Typed, FlagsTyped
    <3> QED BY <3>2, <3>3 DEF Typed
  <2> QED
    BY <2>1, <2>2, <2>3, <2>4, <2>5, <2>6, <2>7, <2>8 DEF PacingNext
<1> QED
  BY <1>1, <1>2, PTL DEF PacingSpec

(* The thread's and libobs' state keeps its type, whatever the arrivals,   *)
(* the audio and the reconnects: no more frames are paced than the ceiling *)
(* allows, and a slew never outlives its floor.                            *)
THEOREM PacingTypeCorrect == PacingSpec => []PacingTypeOK
<1>1. Typed => PacingTypeOK
  <2> SUFFICES ASSUME Typed PROVE PacingTypeOK
    OBVIOUS
  <2>1. \A i \in DOMAIN chan : chan[i] = Decoder \/ chan[i].need \in 0..MaxNeed
    <3>1. TAKE i \in DOMAIN chan
    <3>2. chan[i] \in {Decoder} \cup Packets
      BY ElementOfSeq DEF Typed, WorldTyped
    <3> QED BY <3>2 DEF Packets
  <2>2. \A i \in DOMAIN pacing : pacing[i].need \in 0..MaxNeed
    <3>1. TAKE i \in DOMAIN pacing
    <3>2. pacing[i] \in Frames
      BY ElementOfSeq DEF Typed, ThreadTyped
    <3> QED BY <3>2 DEF Frames
  <2>3. delay.ramp # None => delay.floor # None
    BY DEF Typed, ThreadTyped, SoundDelay
  <2>4. FlagsTyped
    BY DEF Typed
  <2>5. {clear_pending, timeline_reset, audio_present, anchor_pending, last_frame} \subseteq BOOLEAN
    BY <2>4 DEF FlagsTyped
  <2> HIDE DEF FlagsTyped
  <2> QED
    BY <2>1, <2>2, <2>3, <2>4, <2>5 DEF PacingTypeOK, Typed, WorldTyped, ThreadTyped, FlagsTyped
<1> QED
  BY <1>1, PacingTyped, PTL

(* A slew of the floor never makes a frame late that the floor had on      *)
(* time: note_arrival, ramp and the queue of needs, whatever the windows,  *)
(* the ticks and the arrivals.                                             *)
THEOREM SlewSpares == PacingSpec => []SlewSparesFrames
<1>1. Typed => SlewSparesFrames
  <2> SUFFICES ASSUME Typed, delay.ramp # None, delay.needs # <<>>
               PROVE  delay.ramp >= Highest(delay.needs) + Tick
    BY DEF SlewSparesFrames
  <2>1. delay.needs \in Seq(Needs) /\ Clears(delay.ramp, delay.needs)
    BY DEF Typed, ThreadTyped, SoundDelay, Delays
  <2>2. 1 \in 1..Len(delay.needs) /\ Head(delay.needs) = delay.needs[1]
    BY <2>1, EmptySeq
  <2> QED BY <2>1, <2>2 DEF Clears, Highest
<1> QED
  BY <1>1, PacingTyped, PTL
-----------------------------------------------------------------------------
(* The play head.                                                          *)
Sorted(s) == \A i, j \in 1..Len(s) : i < j => s[i] <= s[j]

(* What libobs holds is in order and no newer than the newest frame handed *)
(* over, which is the last of it.                                          *)
QueueInv ==
  /\ Sorted(queue)
  /\ \A i \in 1..Len(queue) : queue[i] <= handed_until
  /\ queue # <<>> => queue[Len(queue)] = handed_until \/ handed_until = LongAgo

(* Before the anchor libobs holds nothing; the frame that anchors is for   *)
(* the next tick.                                                          *)
AnchorInv ==
  /\ anchor_pending => queue = <<>> /\ head = None /\ handed_until = LongAgo
  /\ ~anchor_pending => last_frame /\ (head # None \/ queue # <<>>)
  /\ head = None /\ queue # <<>> => queue[1] = NextTick
  /\ stage \in {"await", "settle"} => anchor_pending

(* A frame the play head has not passed is still queued.                   *)
HeadInv ==
  /\ head # None => head = -phase \/ head = -phase - Tick
  /\ head # None /\ handed_until > head => queue # <<>>

(* The thread sleeps over a tick only with a frame handed over for it, and *)
(* never over two.                                                         *)
SleepInv ==
  ~anchor_pending /\ stage = "asleep" =>
    /\ handed_until >= -phase \/ sleep <= NextTick
    /\ sleep <= NextTick + Slack

PlayInv == QueueInv /\ AnchorInv /\ HeadInv /\ SleepInv

(* A step that leaves libobs, the phase and the anchor alone, and lets the *)
(* thread sleep no longer than it did.                                     *)
LEMMA AsideKeeps ==
  ASSUME Typed, Typed', PlayInv,
         UNCHANGED <<phase, queue, head, handed_until, anchor_pending, last_frame>>,
         stage' \in {"await", "settle"} => anchor_pending,
         stage' = "asleep" => anchor_pending \/ (stage = "asleep" /\ sleep' <= sleep)
  PROVE  PlayInv'
<1>1. QueueInv'
  BY DEF PlayInv, QueueInv
<1>2. AnchorInv' /\ HeadInv'
  BY DEF PlayInv, AnchorInv, HeadInv, NextTick
<1>3. SleepInv'
  <2> SUFFICES ASSUME ~anchor_pending', stage' = "asleep"
               PROVE  /\ handed_until' >= -phase' \/ sleep' <= NextTick'
                      /\ sleep' <= NextTick' + Slack
    BY DEF SleepInv
  <2>1. ~anchor_pending /\ stage = "asleep" /\ sleep' <= sleep
    OBVIOUS
  <2>2. (handed_until >= -phase \/ sleep <= NextTick) /\ sleep <= NextTick + Slack
    BY <2>1 DEF PlayInv, SleepInv
  <2>3. NextTick \in Int /\ NextTick' = NextTick /\ sleep \in Int /\ sleep' \in Int
    BY ConstantsTyped DEF NextTick, Typed, WorldTyped, ThreadTyped
  <2> QED BY <2>1, <2>2, <2>3, ConstantsTyped
<1> QED
  BY <1>1, <1>2, <1>3 DEF PlayInv

LEMMA SourceKeepsPlay ==
  ASSUME Typed, Typed', PlayInv,
         Push \/ ResetTimeline \/ (\E offset \in Offsets : PublishOffset(offset))
         \/ (\E blank, audio \in BOOLEAN : Reconnect(blank, audio))
  PROVE  PlayInv'
<1>1. sleep \in Int
  BY DEF Typed, ThreadTyped
<1>2. CASE Push
  <2>1. sleep' <= sleep /\ stage' = stage /\ stage = "asleep"
    BY <1>1, <1>2, WokenTyped DEF Push
  <2>2. UNCHANGED <<phase, queue, head, handed_until, anchor_pending, last_frame>>
    BY <1>2 DEF Push, obs, anchor
  <2> QED BY <2>1, <2>2, AsideKeeps
<1>3. CASE ResetTimeline
  <2>1. sleep' <= sleep /\ stage' = stage /\ stage = "asleep"
    BY <1>1, <1>3 DEF ResetTimeline, cycle
  <2>2. UNCHANGED <<phase, queue, head, handed_until, anchor_pending, last_frame>>
    BY <1>3 DEF ResetTimeline, anchor
  <2> QED BY <2>1, <2>2, AsideKeeps
<1>4. CASE \E offset \in Offsets : PublishOffset(offset)
  <2>1. PICK offset \in Offsets : PublishOffset(offset)
    BY <1>4
  <2>2. sleep' <= sleep /\ stage' = stage
    BY <1>1, <2>1, WokenTyped DEF PublishOffset
  <2>3. UNCHANGED <<phase, queue, head, handed_until, anchor_pending, last_frame>>
    BY <2>1 DEF PublishOffset, anchor
  <2> QED BY <2>2, <2>3, AsideKeeps DEF PlayInv, AnchorInv
<1>5. CASE \E blank, audio \in BOOLEAN : Reconnect(blank, audio)
  <2>1. PICK blank \in BOOLEAN, audio \in BOOLEAN : Reconnect(blank, audio)
    BY <1>5
  <2>2. sleep' <= sleep /\ stage' = stage /\ stage = "asleep"
    BY <1>1, <2>1, WokenTyped DEF Reconnect
  <2>3. UNCHANGED <<phase, queue, head, handed_until, anchor_pending, last_frame>>
    BY <2>1 DEF Reconnect, anchor
  <2> QED BY <2>2, <2>3, AsideKeeps
<1> QED
  BY <1>2, <1>3, <1>4, <1>5

LEMMA PreparationKeepsPlay ==
  ASSUME Typed, Typed', PlayInv,
         \/ BeginCycle \/ adopt_decoder \/ pace_decoded \/ pacing_reschedule
         \/ KeepWaiting \/ WaitIsOver \/ settle_anchor_candidate
  PROVE  PlayInv'
<1>1. UNCHANGED <<phase, queue, head, handed_until, anchor_pending, last_frame>>
  BY DEF BeginCycle, adopt_decoder, pace_decoded, pacing_reschedule, KeepWaiting, WaitIsOver,
         settle_anchor_candidate, obs, anchor
<1>2. /\ stage' \in {"await", "settle"} => anchor_pending
      /\ stage' = "asleep" => anchor_pending
  BY DEF BeginCycle, adopt_decoder, pace_decoded, pacing_reschedule, KeepWaiting, WaitIsOver,
         settle_anchor_candidate, cycle, Taking, PlayInv, AnchorInv
<1> QED
  BY <1>1, <1>2, AsideKeeps

LEMMA ClearKeepsPlay ==
  ASSUME Typed, Typed', PlayInv, take_clear
  PROVE  PlayInv'
<1>1. queue' = <<>> /\ Len(<<>>) = 0 /\ head' = None /\ handed_until' = LongAgo /\ anchor_pending'
      /\ stage' = "asleep"
  BY DEF take_clear, cycle
<1> QED
  BY <1>1 DEF PlayInv, QueueInv, Sorted, AnchorInv, HeadInv, SleepInv

(* Time takes its part of everything alike.                                *)
LEMMA PassKeepsPlay ==
  ASSUME Typed, Typed', PlayInv, Pass
  PROVE  PlayInv'
<1>1. /\ phase' = phase + 1 /\ sleep' = sleep - 1
      /\ queue' = [i \in DOMAIN queue |-> queue[i] - 1]
      /\ head' = IF head = None THEN None ELSE head - 1
      /\ handed_until' = Higher(handed_until - 1, LongAgo)
      /\ UNCHANGED <<stage, anchor_pending, last_frame>>
  BY DEF Pass
<1>2. /\ phase \in Int /\ phase >= 0 /\ phase <= Tick /\ phase' <= Tick /\ sleep \in Int
      /\ queue \in Seq(Int) /\ Len(queue) \in Nat
      /\ head \in Int \cup {None} /\ handed_until \in Int
      /\ handed_until >= LongAgo
  BY ConstantsTyped DEF Typed, WorldTyped, ThreadTyped
<1>3. /\ handed_until' \in Int /\ handed_until' >= handed_until - 1
      /\ handed_until' = handed_until - 1 \/ handed_until' = LongAgo
      /\ handed_until = LongAgo => handed_until' = LongAgo
  BY <1>1, <1>2, ConstantsTyped DEF Higher
<1>4. Len(queue') = Len(queue) /\ \A i \in 1..Len(queue) : queue'[i] = queue[i] - 1 /\ queue[i] \in Int
  BY <1>1, <1>2
<1>5. (queue' = <<>>) <=> (queue = <<>>)
  BY <1>2, <1>4, EmptySeq DEF Typed, WorldTyped
<1>6. QueueInv'
  <2>1. Sorted(queue)'
    BY <1>4 DEF PlayInv, QueueInv, Sorted
  <2>2. \A i \in 1..Len(queue) : queue'[i] <= handed_until'
    BY <1>2, <1>3, <1>4 DEF PlayInv, QueueInv
  <2>3. queue # <<>> => queue'[Len(queue)] = handed_until' \/ handed_until' = LongAgo
    <3>1. SUFFICES ASSUME queue # <<>> PROVE queue'[Len(queue)] = handed_until' \/ handed_until' = LongAgo
      OBVIOUS
    <3>2. Len(queue) \in 1..Len(queue)
      BY <1>2, <3>1, EmptySeq
    <3> QED BY <1>3, <1>4, <3>1, <3>2 DEF PlayInv, QueueInv
  <2> QED BY <1>4, <1>5, <2>1, <2>2, <2>3 DEF QueueInv
<1>7. NextTick \in Int /\ NextTick' = NextTick - 1
  BY <1>1, <1>2, ConstantsTyped DEF NextTick
<1>8. AnchorInv'
  <2>1. head = None /\ queue # <<>> => queue'[1] = NextTick'
    <3>1. SUFFICES ASSUME head = None, queue # <<>> PROVE queue'[1] = NextTick'
      OBVIOUS
    <3>2. 1 \in 1..Len(queue) /\ queue[1] = NextTick
      BY <1>2, <3>1, EmptySeq DEF PlayInv, AnchorInv
    <3> QED BY <1>4, <1>7, <3>2
  <2>2. head' = None <=> head = None
    BY <1>1, <1>2, ConstantsTyped
  <2> QED BY <1>1, <1>3, <1>5, <2>1, <2>2 DEF PlayInv, AnchorInv
<1>9. HeadInv'
  <2>1. CASE head = None
    BY <1>1, <2>1 DEF HeadInv
  <2>2. CASE head # None
    <3>1. head \in Int /\ head' = head - 1 /\ (head = -phase \/ head = -phase - Tick)
          /\ (handed_until > head => queue # <<>>)
      BY <1>1, <1>2, <2>2 DEF PlayInv, HeadInv
    <3>2. head' = -phase' \/ head' = -phase' - Tick
      BY <1>1, <1>2, <3>1, ConstantsTyped
    <3>3. head' >= LongAgo
      BY <1>2, <1>1, <3>1, <3>2, ConstantsTyped
    <3>4. handed_until' > head' => handed_until > head
      BY <1>2, <1>3, <3>1, <3>3, ConstantsTyped
    <3> QED BY <1>5, <3>1, <3>2, <3>4 DEF HeadInv
  <2> QED BY <2>1, <2>2
<1>10. SleepInv'
  BY <1>1, <1>2, <1>3, <1>7, ConstantsTyped DEF PlayInv, SleepInv
<1> QED
  BY <1>6, <1>8, <1>9, <1>10 DEF PlayInv

(* Of an ordered queue a tick takes a front part, and leaves what the play *)
(* head has not passed.                                                    *)
LEMMA RestIsOrdered ==
  ASSUME NEW s \in Seq(Int), Sorted(s), NEW from \in 1..(Len(s) + 1)
  PROVE  LET rest == SubSeq(s, from, Len(s))
         IN  /\ rest \in Seq(Int) /\ Len(rest) = Len(s) - from + 1 /\ Sorted(rest)
             /\ \A i \in 1..Len(rest) : rest[i] = s[from + i - 1] /\ from + i - 1 \in 1..Len(s)
<1> DEFINE rest == SubSeq(s, from, Len(s))
<1>1. Len(s) \in Nat /\ \A i \in from..Len(s) : s[i] \in Int
  OBVIOUS
<1>2. /\ rest \in Seq(Int) /\ Len(rest) = Len(s) - from + 1
      /\ \A i \in 1..Len(rest) : rest[i] = s[from + i - 1] /\ from + i - 1 \in 1..Len(s)
  <2>1. /\ rest \in Seq(Int)
        /\ Len(rest) = IF from <= Len(s) THEN Len(s) - from + 1 ELSE 0
        /\ \A i \in 1..(Len(s) - from + 1) : rest[i] = s[from + i - 1]
    BY <1>1, SubSeqProperties
  <2> HIDE DEF rest
  <2>2. Len(rest) = Len(s) - from + 1
    BY <1>1, <2>1
  <2> QED BY <1>1, <2>1, <2>2
<1> HIDE DEF rest
<1>3. Sorted(rest)
  <2> SUFFICES ASSUME NEW i \in 1..Len(rest), NEW j \in 1..Len(rest), i < j
               PROVE  rest[i] <= rest[j]
    BY DEF Sorted
  <2>1. from + i - 1 \in 1..Len(s) /\ from + j - 1 \in 1..Len(s) /\ from + i - 1 < from + j - 1
    BY <1>1, <1>2
  <2>2. s[from + i - 1] <= s[from + j - 1]
    BY <2>1 DEF Sorted
  <2> QED BY <1>2, <2>2
<1> QED
  BY <1>2, <1>3 DEF rest

LEMMA RenderTickKeepsPlay ==
  ASSUME WakeLag = 0, Typed, Typed', PlayInv, RenderTick
  PROVE  PlayInv'
<1> DEFINE moved == head + Tick
           Back == {i \in 2..Len(queue) : queue[i] < queue[i - 1]}
           passed == {i \in DOMAIN queue : queue[i] < moved}
           newest == CHOOSE i \in passed : \A j \in passed : j <= i
<1>1. /\ queue \in Seq(Int) /\ Len(queue) \in Nat /\ head \in Int \cup {None}
      /\ handed_until \in Int /\ handed_until >= LongAgo /\ sleep \in Int
      /\ \A i \in 1..Len(queue) : queue[i] \in Int
  <2>1. queue \in Seq(Int)
    BY DEF Typed, WorldTyped
  <2>2. Len(queue) \in Nat /\ \A i \in 1..Len(queue) : queue[i] \in Int
    BY <2>1
  <2> QED BY <2>1, <2>2 DEF Typed, WorldTyped, ThreadTyped
<1>2. /\ phase = Tick /\ phase' = 0 /\ NextTick = 0 /\ NextTick' = Tick
      /\ stage = "asleep" /\ sleep > 0
      /\ UNCHANGED <<stage, sleep, anchor_pending, last_frame, handed_until>>
  BY ConstantsTyped DEF RenderTick, InTime, NextTick, cycle, anchor
\* the thread has handed over a frame for this tick
<1>3. ~anchor_pending => handed_until >= -Tick /\ sleep <= Slack
  BY <1>1, <1>2, ConstantsTyped DEF PlayInv, SleepInv
<1>4. SleepInv'
  BY <1>1, <1>2, <1>3, ConstantsTyped DEF SleepInv
<1>5. QueueInv /\ AnchorInv /\ HeadInv
  BY DEF PlayInv
<1>6. CASE queue = <<>>
  <2>1. queue' = <<>> /\ head' = head
    BY <1>6 DEF RenderTick
  <2>2. QueueInv'
    BY <1>2, <1>5, <1>6, <2>1 DEF QueueInv
  <2>3. AnchorInv'
    BY <1>2, <1>5, <1>6, <2>1 DEF AnchorInv
  <2>4. HeadInv'
    <3>1. CASE head = None
      BY <2>1, <3>1 DEF HeadInv
    <3>2. CASE head # None
      <4>1. ~anchor_pending /\ ~(handed_until > head) /\ (head = -phase \/ head = -phase - Tick)
        BY <1>5, <1>6, <3>2 DEF AnchorInv, HeadInv
      <4>2. head = -Tick
        BY <1>1, <1>2, <1>3, <3>2, <4>1, ConstantsTyped
      <4>3. head' = -phase' - Tick /\ ~(handed_until' > head')
        BY <1>2, <2>1, <4>1, <4>2, ConstantsTyped
      <4> QED BY <4>3 DEF HeadInv
    <3> QED BY <3>1, <3>2
  <2> QED BY <1>4, <2>2, <2>3, <2>4 DEF PlayInv
<1>7. CASE queue # <<>>
  <2>1. Len(queue) \in 1..Len(queue) /\ ~anchor_pending
    BY <1>1, <1>5, <1>7, EmptySeq DEF AnchorInv
  <2>2. PICK from \in 1..(Len(queue) + 1) :
          /\ queue' = SubSeq(queue, from, Len(queue))
          /\ head' = 0 \/ head' = -Tick
          /\ from = Len(queue) + 1 => queue[Len(queue)] <= head'
    <3>1. CASE head = None
      <4>1. queue' = Tail(queue) /\ head' = queue[1] /\ queue[1] = 0
        BY <1>2, <1>5, <1>7, <3>1 DEF RenderTick, AnchorInv
      <4>2. queue' = SubSeq(queue, 2, Len(queue))
        BY <1>1, <1>7, <4>1, TailIsSubSeq
      <4>3. 2 = Len(queue) + 1 => queue[Len(queue)] <= head'
        BY <1>1, <4>1
      <4>4. 2 \in 1..(Len(queue) + 1)
        BY <1>1, <2>1
      <4> QED BY <4>1, <4>2, <4>3, <4>4
    <3>2. CASE head # None
      <4>1. Back = {}
        <5> SUFFICES ASSUME NEW i \in 2..Len(queue), queue[i] < queue[i - 1] PROVE FALSE
          OBVIOUS
        <5>1. i - 1 \in 1..Len(queue) /\ i \in 1..Len(queue) /\ i - 1 < i
          BY <1>1
        <5>2. queue[i - 1] <= queue[i] /\ queue[i] \in Int /\ queue[i - 1] \in Int
          BY <1>1, <1>5, <5>1 DEF QueueInv, Sorted
        <5> QED BY <5>2
      <4>2. head' = moved /\ queue' = IF passed = {} THEN queue ELSE SubSeq(queue, newest + 1, Len(queue))
        BY <1>7, <3>2, <4>1 DEF RenderTick
      <4>3. head' = 0 \/ head' = -Tick
        BY <1>2, <1>5, <3>2, <4>2, ConstantsTyped DEF HeadInv
      <4>4. CASE passed = {}
        <5>1. queue' = SubSeq(queue, 1, Len(queue))
          BY <1>1, <4>2, <4>4
        <5>2. 1 \in 1..(Len(queue) + 1) /\ 1 # Len(queue) + 1
          BY <1>1, <2>1
        <5> QED BY <4>3, <5>1, <5>2
      <4>5. CASE passed # {}
        <5>1. \E i \in passed : \A j \in passed : j <= i
          BY <1>1, <4>5, GreatestOf, passed \in SUBSET (0..Len(queue))
        <5>2. newest \in 1..Len(queue) /\ queue[newest] < moved
          BY <1>1, <5>1
        <5> HIDE DEF newest, passed
        <5>3. newest + 1 \in 1..(Len(queue) + 1)
              /\ (newest + 1 = Len(queue) + 1 => queue[Len(queue)] <= head')
          BY <1>1, <4>2, <5>2, ConstantsTyped
        <5> QED BY <4>2, <4>3, <4>5, <5>3
      <4> QED BY <4>4, <4>5
    <3> QED BY <3>1, <3>2
  <2>3. /\ Len(queue') = Len(queue) - from + 1 /\ Sorted(queue') /\ queue' \in Seq(Int)
        /\ \A i \in 1..Len(queue') : queue'[i] = queue[from + i - 1] /\ from + i - 1 \in 1..Len(queue)
    BY <1>1, <1>5, <2>2, RestIsOrdered DEF QueueInv
  <2>4. QueueInv'
    <3>1. \A i \in 1..Len(queue') : queue'[i] <= handed_until
      BY <1>5, <2>3 DEF QueueInv
    <3>2. queue' # <<>> => queue'[Len(queue')] = handed_until \/ handed_until = LongAgo
      <4> SUFFICES ASSUME queue' # <<>>
                   PROVE  queue'[Len(queue')] = handed_until \/ handed_until = LongAgo
        OBVIOUS
      <4>1. Len(queue') \in 1..Len(queue') /\ from + Len(queue') - 1 = Len(queue)
        BY <1>1, <2>3, EmptySeq
      <4>2. queue'[Len(queue')] = queue[Len(queue)]
        BY <2>3, <4>1
      <4> QED BY <1>5, <1>7, <4>2 DEF QueueInv
    <3> QED BY <1>2, <2>3, <3>1, <3>2 DEF QueueInv
  <2>5. head' \in Int /\ head' # None
    BY <2>2, ConstantsTyped
  <2>6. AnchorInv'
    BY <1>2, <1>5, <2>1, <2>5 DEF AnchorInv
  <2>7. HeadInv'
    <3>1. head' = -phase' \/ head' = -phase' - Tick
      BY <1>2, <2>2, ConstantsTyped
    <3>2. ASSUME handed_until > head' PROVE queue' # <<>>
      <4>0. SUFFICES ASSUME queue' = <<>> PROVE FALSE
        OBVIOUS
      <4>1. from = Len(queue) + 1
        <5>1. Len(queue') = 0
          BY <4>0
        <5> QED BY <1>1, <2>2, <2>3, <5>1
      <4>2. queue[Len(queue)] <= head' /\ queue[Len(queue)] \in Int
        BY <1>1, <2>1, <2>2, <4>1
      <4>3. handed_until # LongAgo
        BY <1>1, <2>2, <3>2, ConstantsTyped
      <4>4. queue[Len(queue)] = handed_until
        BY <1>5, <1>7, <4>3 DEF QueueInv
      <4> QED BY <1>1, <2>5, <3>2, <4>2, <4>4
    <3> QED BY <1>2, <2>5, <3>1, <3>2 DEF HeadInv
  <2> QED BY <1>4, <2>4, <2>6, <2>7 DEF PlayInv
<1> QED
  BY <1>6, <1>7

(* A frame handed over joins the end, unless libobs throws its queue away. *)
LEMMA HandOverOrdered ==
  ASSUME Typed, Typed', QueueInv, Len(queue) < MaxAsync,
         NEW timestamp \in Int, timestamp >= handed_until,
         HandOver(timestamp)
  PROVE  /\ QueueInv' /\ queue' # <<>> /\ head' = head /\ handed_until' = timestamp /\ last_frame'
         /\ queue'[1] = IF queue = <<>> THEN timestamp ELSE queue[1]
<1>1. queue \in Seq(Int) /\ Len(queue) \in Nat /\ handed_until \in Int
  BY DEF Typed, WorldTyped, ThreadTyped
<1>2. /\ queue' = Append(queue, timestamp) /\ head' = head
      /\ handed_until' = timestamp /\ last_frame'
  <2>1. MaxAsync \in Nat
    BY PacingAssumption
  <2>2. ~(Len(queue) >= MaxAsync)
    BY <1>1, <2>1
  <2> QED BY <2>2 DEF HandOver, Cached
<1>3. /\ queue' \in Seq(Int) /\ Len(queue') = Len(queue) + 1
      /\ \A i \in 1..Len(queue) : queue'[i] = queue[i] /\ queue[i] \in Int
      /\ queue'[Len(queue) + 1] = timestamp
  BY <1>1, <1>2, AppendProperties
<1>4. queue' # <<>>
  BY <1>1, <1>3, EmptySeq
<1>5. Sorted(queue')
  <2> SUFFICES ASSUME NEW i \in 1..Len(queue'), NEW j \in 1..Len(queue'), i < j
               PROVE  queue'[i] <= queue'[j]
    BY DEF Sorted
  <2>1. i \in 1..Len(queue)
    BY <1>1, <1>3
  <2>2. CASE j \in 1..Len(queue)
    BY <1>3, <2>1, <2>2 DEF QueueInv, Sorted
  <2>3. CASE j = Len(queue) + 1
    <3>1. queue[i] <= handed_until /\ queue[i] \in Int
      BY <1>3, <2>1 DEF QueueInv
    <3>2. queue'[i] = queue[i] /\ queue'[j] = timestamp
      BY <1>3, <2>1, <2>3
    <3> QED BY <1>1, <3>1, <3>2
  <2>4. Len(queue') = Len(queue) + 1
    BY <1>3
  <2>5. j \in 1..Len(queue) \/ j = Len(queue) + 1
    BY <1>1, <2>4
  <2> QED BY <2>2, <2>3, <2>5
<1>6. \A i \in 1..Len(queue') : queue'[i] <= timestamp
  <2>1. TAKE i \in 1..Len(queue')
  <2>2. CASE i = Len(queue) + 1
    BY <1>3, <2>2
  <2>3. CASE i \in 1..Len(queue)
    <3>1. queue[i] <= handed_until /\ queue[i] \in Int
      BY <1>3, <2>3 DEF QueueInv
    <3> QED BY <1>1, <1>3, <2>3, <3>1
  <2> QED BY <1>1, <1>3, <2>2, <2>3
<1>7. QueueInv'
  BY <1>2, <1>3, <1>5, <1>6 DEF QueueInv
<1>8. queue'[1] = IF queue = <<>> THEN timestamp ELSE queue[1]
  <2>1. CASE queue = <<>>
    BY <1>3, <2>1
  <2>2. CASE queue # <<>>
    <3>1. 1 \in 1..Len(queue)
      BY <1>1, <2>2, EmptySeq
    <3> QED BY <1>3, <2>2, <3>1
  <2> QED BY <2>1, <2>2
<1> QED
  BY <1>2, <1>4, <1>7, <1>8

LEMMA EmitKeepsPlay ==
  ASSUME Typed, Typed', PlayInv, Len(queue) < MaxAsync, pacing_emit_due
  PROVE  PlayInv'
<1>1. QueueInv /\ AnchorInv /\ HeadInv
  BY DEF PlayInv
<1>2. pacing # <<>> /\ stage = "emit" /\ UNCHANGED <<phase, stage>>
  BY DEF pacing_emit_due, Emits, cycle
<1>3. Due(pacing[1]) \in Int /\ NextTick \in Int /\ NextTick' = NextTick /\ NextTick >= 0
      /\ phase \in Int /\ handed_until \in Int /\ head \in Int \cup {None}
  BY <1>2, HeadOfPacing, ConstantsTyped DEF NextTick, Typed, WorldTyped, ThreadTyped
<1>4. SleepInv'
  BY <1>2 DEF SleepInv
<1>5. CASE UNCHANGED <<queue, head, handed_until, last_frame, anchor_pending>>
  <2>1. stage' \in {"await", "settle"} => anchor_pending
    BY <1>2
  <2> QED BY <1>2, <1>5, <2>1, AsideKeeps
<1> DEFINE goes == IF anchor_pending THEN anchor_timestamp ELSE Due(pacing[1])
<1>6. CASE HandOver(Stamp(goes)) /\ anchor_pending' = FALSE
  <2>1. goes \in Int
    BY <1>3 DEF anchor_timestamp
  <2>2. anchor_pending => Stamp(goes) = NextTick
    BY <1>1, <1>3, ConstantsTyped DEF Stamp, anchor_timestamp, Higher, AnchorInv
  <2> HIDE DEF goes
  <2>3. Stamp(goes) \in Int /\ Stamp(goes) >= handed_until
    BY <2>1, StampTyped
  <2>4. /\ QueueInv' /\ queue' # <<>> /\ head' = head /\ handed_until' = Stamp(goes) /\ last_frame'
        /\ queue'[1] = IF queue = <<>> THEN Stamp(goes) ELSE queue[1]
    BY <1>1, <1>6, <2>3, HandOverOrdered
  <2>5. AnchorInv'
    <3>1. head = None => queue'[1] = NextTick'
      <4>1. CASE anchor_pending
        BY <1>1, <1>3, <2>2, <2>4, <4>1 DEF AnchorInv
      <4>2. CASE ~anchor_pending
        BY <1>1, <1>3, <2>4, <4>2 DEF AnchorInv
      <4> QED BY <4>1, <4>2
    <3> QED BY <1>2, <1>6, <2>4, <3>1 DEF AnchorInv
  <2>6. HeadInv'
    BY <1>1, <1>2, <2>4 DEF HeadInv
  <2> QED BY <1>4, <2>4, <2>5, <2>6 DEF PlayInv
<1>7. \/ UNCHANGED <<queue, head, handed_until, last_frame, anchor_pending>>
      \/ HandOver(Stamp(goes)) /\ anchor_pending' = FALSE
  BY DEF pacing_emit_due
<1> QED
  BY <1>5, <1>6, <1>7

(* The cycle ends with a frame handed over for the next tick, or a sleep   *)
(* that ends before it.                                                    *)
LEMMA EndCycleKeepsPlay ==
  ASSUME Typed, Typed', PlayInv, Len(queue) < MaxAsync, EndCycle
  PROVE  PlayInv'
<1>1. QueueInv /\ AnchorInv /\ HeadInv
  BY DEF PlayInv
<1>2. /\ stage' = "asleep" /\ UNCHANGED <<phase, anchor_pending>>
      /\ sleep' = 0 \/ sleep' = sleep_hint
  BY DEF EndCycle
<1>3. NextTick \in Int /\ NextTick' = NextTick /\ NextTick >= 0 /\ NextTick = Tick - phase
      /\ phase \in Int /\ handed_until \in Int /\ handed_until' \in Int /\ sleep' \in Int
      /\ slack \in Int
  BY <1>2, ConstantsTyped DEF NextTick, Typed, WorldTyped, ThreadTyped
<1>4. CASE RepeatNeeded
  <2>1. HandOver(NextTick) /\ ~anchor_pending
    BY <1>4 DEF EndCycle, RepeatNeeded
  <2>2. NextTick >= handed_until
    BY <1>3, <1>4, ConstantsTyped DEF RepeatNeeded
  <2>3. /\ QueueInv' /\ queue' # <<>> /\ head' = head /\ handed_until' = NextTick /\ last_frame'
        /\ queue'[1] = IF queue = <<>> THEN NextTick ELSE queue[1]
    BY <1>1, <1>3, <2>1, <2>2, HandOverOrdered
  <2>4. AnchorInv' /\ HeadInv'
    BY <1>1, <1>2, <1>3, <2>1, <2>3 DEF AnchorInv, HeadInv
  <2>5. SleepInv'
    <3>1. sleep' <= NextTick + Slack
      BY <1>1, <1>2, <1>3, <2>1, SleepHintTyped, ConstantsTyped DEF AnchorInv
    <3>2. handed_until' >= -phase'
      BY <1>2, <1>3, <2>3, ConstantsTyped DEF Typed, WorldTyped
    <3> QED BY <1>3, <3>1, <3>2 DEF SleepInv
  <2> QED BY <2>3, <2>4, <2>5 DEF PlayInv
<1>5. CASE ~RepeatNeeded
  <2>1. UNCHANGED <<queue, head, handed_until, last_frame>>
    BY <1>5 DEF EndCycle
  <2>2. QueueInv' /\ AnchorInv' /\ HeadInv'
    BY <1>1, <1>2, <1>3, <2>1 DEF QueueInv, AnchorInv, HeadInv
  <2>3. SleepInv'
    <3> SUFFICES ASSUME ~anchor_pending
                 PROVE  /\ handed_until >= -phase \/ sleep' <= NextTick
                        /\ sleep' <= NextTick + Slack
      BY <1>2, <1>3, <2>1 DEF SleepInv
    <3>1. last_frame
      BY <1>1 DEF AnchorInv
    <3>2. sleep' <= NextTick + Slack
      BY <1>2, <1>3, <3>1, SleepHintTyped, ConstantsTyped
    <3>3. CASE GoesOutBefore
      <4>1. pacing # <<>> /\ Due(pacing[1]) - slack <= NextTick /\ Due(pacing[1]) \in Int
        BY <3>3, HeadOfPacing DEF GoesOutBefore
      <4>2. sleep_hint <= Due(pacing[1]) - slack /\ sleep_hint \in Int
        BY <4>1, SleepHintTyped
      <4>3. sleep' <= NextTick
        BY <1>2, <1>3, <4>1, <4>2
      <4> QED BY <3>2, <4>3
    <3>4. CASE ~GoesOutBefore
      <4>1. ~(handed_until + Tick < NextTick)
        BY <1>5, <3>1, <3>4 DEF RepeatNeeded
      <4>2. handed_until >= -phase
        BY <1>3, <4>1, ConstantsTyped
      <4> QED BY <3>2, <4>2
    <3> QED BY <3>3, <3>4
  <2> QED BY <2>2, <2>3 DEF PlayInv
<1> QED
  BY <1>4, <1>5

(* The play head of libobs stays on the OBS clock, from the frame that     *)
(* anchors it on: keep_play_head_running, sleep_hint and the timestamps    *)
(* the frames carry see to it that no tick but one finds nothing queued,   *)
(* for every canvas tick, slack and lead and whatever video arrives.  Two  *)
(* things are taken for granted: the thread wakes when its sleep is over,  *)
(* and libobs' queue never fills up, which would throw the play head away. *)
THEOREM PlayHeadKeepsTheClock ==
  ASSUME WakeLag = 0
  PROVE  PacingSpec /\ [](Len(queue) < MaxAsync) => []PlayHeadOnTheClock
<1>1. PacingInit => PlayInv
  BY Len(<<>>) = 0 DEF PacingInit, PlayInv, QueueInv, Sorted, AnchorInv, HeadInv, SleepInv
<1>2. Typed /\ Typed' /\ Len(queue) < MaxAsync /\ PlayInv /\ [PacingNext]_pacing_vars => PlayInv'
  <2> SUFFICES ASSUME Typed, Typed', Len(queue) < MaxAsync, PlayInv, [PacingNext]_pacing_vars
               PROVE  PlayInv'
    OBVIOUS
  <2>1. CASE Pass
    BY <2>1, PassKeepsPlay
  <2>2. CASE RenderTick
    BY <2>2, WakeLag = 0, RenderTickKeepsPlay
  <2>3. CASE Cycle
    BY <2>3, ClearKeepsPlay, PreparationKeepsPlay, EmitKeepsPlay, EndCycleKeepsPlay DEF Cycle
  <2>4. CASE \/ Push \/ ResetTimeline \/ (\E offset \in Offsets : PublishOffset(offset))
             \/ (\E blank, audio \in BOOLEAN : Reconnect(blank, audio))
    BY <2>4, SourceKeepsPlay
  <2>5. CASE UNCHANGED pacing_vars
    <3>1. UNCHANGED <<phase, queue, head, handed_until, anchor_pending, last_frame, stage, sleep>>
      BY <2>5 DEF pacing_vars, obs, cycle, anchor
    <3> QED BY <3>1 DEF PlayInv, QueueInv, AnchorInv, HeadInv, SleepInv, NextTick
  <2> QED
    BY <2>1, <2>2, <2>3, <2>4, <2>5 DEF PacingNext
<1>3. Typed /\ PlayInv => PlayHeadOnTheClock
  BY DEF PlayInv, HeadInv, PlayHeadOnTheClock
<1> QED
  BY <1>1, <1>2, <1>3, PacingTyped, PTL DEF PacingSpec

-----------------------------------------------------------------------------
(* Video in hand is shown in time.                                         *)

(* The thread waits for the audio mapping.                                 *)
Awaits == audio_present /\ playout = None /\ anchor_wait # "gave_up"

(* How long video may go unshown before a frame of it has been settled on: *)
(* the sleep it came in, the wait for audio, and the sleep that ends it;   *)
(* then a wake-up for each place of the channel a decoder may wait in.     *)
Spare(n) == n * WakeLag
WaitBound == 2 * (MaxWait + WakeLag) + Expected
SettleBound == WaitBound + Spare(ChanMax + 1)
ShownBound(reach) == SettleBound + reach + MaxDelay + WakeLag

(* The channel keeps to its size; what is in hand lies in the past, and is *)
(* due `reach' from now at most, but for the floor.                        *)
InHandInv(reach) ==
  /\ Len(chan) <= ChanMax
  /\ \A i \in 1..Len(chan) : chan[i] # Decoder => chan[i].pts <= 0
  /\ \A i \in 1..Len(pacing) : pacing[i].pts <= 0 /\ pacing[i].pts + pacing[i].offset <= reach

(* A clear is taken at once, or as late as the thread wakes, and nothing   *)
(* goes unshown for longer than that before it is.                         *)
WakeInv ==
  /\ stage = "asleep" => sleep \in -WakeLag..MaxWait
  /\ clear_pending => stage = "asleep" /\ sleep <= 0 /\ unshown + sleep <= 0
  /\ stage # "asleep" => ~timeline_reset

(* A cycle that may anchor: past the wait, audio is not waited for, and    *)
(* unless it changed under the cycle every frame lies where it says.       *)
Agrees(frame) == playout_offset # None => frame.offset = playout_offset
CandidateInv ==
  anchor_pending /\ stage # "asleep" =>
  /\ slack = Slack
  /\ stage \in {"settle", "emit"} => ~Awaits
  /\ stage \in {"await", "settle", "emit"} =>
       unshown = 0 \/ \A i \in 1..Len(pacing) : Agrees(pacing[i])

(* Before a frame has been settled on.                                     *)
AwaitInv ==
  Awaits =>
  /\ anchor_wait = "idle" =>
       /\ unshown <= MaxWait + WakeLag
       /\ stage = "asleep" /\ pacing # <<>> => unshown + sleep <= MaxWait
  /\ anchor_wait = "waiting" /\ waited < Expected => unshown <= MaxWait + WakeLag + waited
Fresh ==
  /\ unshown <= WaitBound
  /\ stage = "asleep" /\ pacing # <<>> => unshown + sleep <= WaitBound - WakeLag
  /\ AwaitInv

(* A head that is on time while a decoder still waits, all of them within  *)
(* the first n places: each cycle begins at once and takes from the        *)
(* channel, until the decoders have been adopted.                          *)
Rushed(n) ==
  /\ ~Awaits /\ \A i \in 1..Len(chan) : chan[i] = Decoder => i <= n
  /\ \/ unshown + Spare(n + 1) <= SettleBound /\ (stage = "asleep" => pacing = <<>>)
     \/ stage = "intake" /\ n >= 1 /\ Intakes /\ unshown + Spare(n) <= SettleBound
     \/ stage = "asleep" /\ n >= 1 /\ Intakes /\ unshown + sleep + Spare(n + 1) <= SettleBound
RushedInv == \E n \in 0..ChanMax : Rushed(n)

(* After: the head waits for its due time alone, which nothing moves but a *)
(* change or a lift of the floor, and the thread sleeps no longer than it. *)
HeadDue == Due(pacing[1])
NoDecoderFirst ==
  (\A i \in 1..Len(chan) : chan[i] # Decoder) \/ (chan # <<>> /\ chan[1] # Decoder /\ ~has_room)
Settled(reach) ==
  /\ pacing # <<>> /\ Agrees(pacing[1]) /\ ~Awaits
  /\ ~timeline_reset /\ ~clear_pending /\ NoDecoderFirst
  /\ unshown + pacing[1].pts + pacing[1].offset <= SettleBound + reach
  /\ HeadDue >= Slack - WakeLag /\ (stage = "asleep" => sleep <= HeadDue - Slack)

ShownInv(reach) ==
  /\ InHandInv(reach) /\ WakeInv /\ CandidateInv
  /\ waited >= 0 /\ unshown \in 0..ShownBound(reach)
  /\ anchor_pending => Fresh \/ RushedInv \/ Settled(reach)

-----------------------------------------------------------------------------
(* What the bounds leave room for.                                         *)
LEMMA SpareGrows ==
  ASSUME NEW n \in Nat, NEW m \in Nat, n <= m, WakeLag \in Nat
  PROVE  /\ Spare(n) \in Nat /\ Spare(m) \in Nat /\ Spare(n) <= Spare(m)
         /\ Spare(n + 1) = Spare(n) + WakeLag
<1>1. PICK d \in Nat : m = n + d
  <2>1. m - n \in Nat /\ m = n + (m - n)
    OBVIOUS
  <2> QED BY <2>1
<1>2. d * WakeLag \in Nat /\ n * WakeLag \in Nat
  OBVIOUS
<1>3. m * WakeLag = n * WakeLag + d * WakeLag /\ (n + 1) * WakeLag = n * WakeLag + WakeLag
  BY <1>1
<1> QED
  BY <1>2, <1>3 DEF Spare

LEMMA BoundsTyped ==
  /\ MaxWait \in Nat /\ Expected \in Nat /\ WakeLag \in Nat /\ ChanMax \in Nat \ {0}
  /\ WaitBound = 2 * (MaxWait + WakeLag) + Expected /\ WaitBound \in Nat /\ SettleBound \in Nat
  /\ WaitBound + WakeLag <= SettleBound
  /\ \A n \in 0..ChanMax :
       /\ Spare(n) \in Nat /\ Spare(n + 1) \in Nat /\ Spare(n + 1) = Spare(n) + WakeLag
       /\ WaitBound + Spare(n + 1) <= SettleBound
<1>1. /\ MaxWait \in Nat /\ Expected \in Nat /\ WakeLag \in Nat /\ ChanMax \in Nat \ {0}
  BY PacingAssumption, DelayAssumption
<1>2. WaitBound = 2 * (MaxWait + WakeLag) + Expected /\ WaitBound \in Nat
  BY <1>1 DEF WaitBound
<1>3. SettleBound = WaitBound + Spare(ChanMax + 1)
  BY DEF SettleBound
<1>4. ASSUME NEW n \in 0..ChanMax
      PROVE  /\ Spare(n) \in Nat /\ Spare(n + 1) \in Nat /\ Spare(n + 1) = Spare(n) + WakeLag
             /\ Spare(n + 1) <= Spare(ChanMax + 1) /\ Spare(ChanMax + 1) \in Nat
  <2>1. n \in Nat /\ n + 1 \in Nat /\ ChanMax + 1 \in Nat /\ n + 1 <= ChanMax + 1 /\ n <= n + 1
    BY <1>1
  <2>2. Spare(n) \in Nat /\ Spare(n + 1) \in Nat /\ Spare(n + 1) = Spare(n) + WakeLag
    BY <1>1, <2>1, SpareGrows
  <2>3. Spare(n + 1) <= Spare(ChanMax + 1) /\ Spare(ChanMax + 1) \in Nat
    BY <1>1, <2>1, SpareGrows
  <2> QED BY <2>2, <2>3
<1>5. \A n \in 0..ChanMax : WaitBound + Spare(n + 1) <= SettleBound
  BY <1>2, <1>3, <1>4
<1>6. WaitBound + WakeLag <= SettleBound
  <2>1. 0 \in 0..ChanMax
    BY <1>1
  <2>2. Spare(0 + 1) >= WakeLag
    BY <1>1, <1>4, <2>1
  <2> QED BY <1>1, <1>2, <1>3, <1>4, <2>1, <2>2
<1>7. SettleBound \in Nat
  BY <1>1, <1>2, <1>3, <1>4
<1> QED
  BY <1>1, <1>2, <1>4, <1>5, <1>6, <1>7

LEMMA WokenKeeps ==
  ASSUME NEW s \in -WakeLag..MaxWait, NEW work
  PROVE  Woken(s, work) \in -WakeLag..MaxWait /\ Woken(s, work) <= s
  BY BoundsTyped DEF Woken, Lower

(* The delay the floor gives.                                              *)
LEMMA DelayOfTheFloor ==
  ASSUME NEW d, NEW e, e.floor = d.floor, NEW offset
  PROVE  delay_ns(e, offset) = delay_ns(d, offset)
  BY DEF delay_ns

LEMMA DelayInBounds ==
  ASSUME NEW d \in Delays, NEW offset \in Int
  PROVE  delay_ns(d, offset) \in 0..MaxDelay
<1>1. CASE d.floor = None
  BY <1>1, DelayAssumption DEF delay_ns
<1>2. CASE d.floor # None
  <2>1. d.floor \in Int
    BY <1>2 DEF Delays
  <2> DEFINE gap == d.floor - offset
  <2>2. gap \in Int
    BY <2>1
  <2> HIDE DEF gap
  <2>3. Higher(0, Lower(gap, MaxDelay)) \in 0..MaxDelay
    BY <2>2, DelayAssumption DEF Higher, Lower
  <2> QED BY <1>2, <2>3 DEF delay_ns, gap
<1> QED
  BY <1>1, <1>2

(* A lift of the floor takes no delay back.                                *)
LEMMA CandidateOnlyRaises ==
  ASSUME NEW d, SoundDelay(d), NEW need \in Int, NEW offset \in Int
  PROVE  delay_ns(before_anchor(d, need, offset), offset) >= delay_ns(d, offset)
<1> DEFINE e == [d EXCEPT !.window = None]
           rise == Wanted(need + Tick, offset)
           f == ForgetNeeds(e)
           g == [f EXCEPT !.floor = offset + rise]
<1>1. SoundDelay(e) /\ e.floor = d.floor /\ e \in Delays
  BY WindowMoved DEF SoundDelay, Delays
<1>2. delay_ns(e, offset) = delay_ns(d, offset) /\ delay_ns(d, offset) \in 0..MaxDelay
  <2> HIDE DEF e
  <2> QED BY <1>1, DelayOfTheFloor, DelayInBounds DEF SoundDelay
<1>3. CASE ~Raises(e, need + Tick, offset)
  <2>1. before_anchor(d, need, offset) = e
    BY <1>3 DEF before_anchor, raise_to
  <2> QED BY <1>2, <2>1, DelayAssumption
<1>4. CASE Raises(e, need + Tick, offset)
  <2>1. before_anchor(d, need, offset) = g
    BY <1>4 DEF before_anchor, raise_to
  <2>2. need + Tick \in Int
    BY DelayAssumption
  <2>3. rise \in Int /\ rise <= MaxDelay /\ rise > delay_ns(e, offset)
    <3> DEFINE short == need + Tick - offset
    <3>0. short \in Int
      BY DelayAssumption
    <3> HIDE DEF short
    <3>1. round_up_to_tick(short) \in Int
      BY <3>0, FloorArithmetic
    <3>2. rise \in Int /\ rise <= MaxDelay
      BY <3>1, DelayAssumption, FloorArithmetic DEF Wanted, short
    <3> QED BY <1>4, <3>2 DEF Raises
  <2> HIDE DEF rise
  <2>4. g.floor = offset + rise
    <3> HIDE DEF e
    <3>1. f \in Delays
      BY <1>1, ForgetNeedsTyped
    <3> HIDE DEF f
    <3> QED BY <3>1 DEF Delays
  <2> HIDE DEF e, f, g
  <2>5. Higher(0, Lower(offset + rise - offset, MaxDelay)) = rise
    BY <1>2, <2>3, DelayAssumption DEF Higher, Lower
  <2>6. delay_ns(g, offset) = rise
    BY <2>3, <2>4, <2>5, DelayAssumption DEF delay_ns
  <2> QED BY <1>2, <2>1, <2>3, <2>6, DelayAssumption
<1> QED
  BY <1>3, <1>4

(* The frame that is next.                                                 *)
LEMMA HeadDueTyped ==
  ASSUME Typed, pacing # <<>>
  PROVE  /\ pacing[1] \in Frames /\ 1 \in 1..Len(pacing) /\ Len(pacing) \in Nat
         /\ pacing[1].pts \in Int /\ pacing[1].offset \in Int /\ HeadDue \in Int
         /\ HeadDue = pacing[1].pts + pacing[1].offset + delay_ns(delay, pacing[1].offset)
         /\ HeadDue <= pacing[1].pts + pacing[1].offset + MaxDelay
<1>1. pacing[1] \in Frames /\ HeadDue \in Int
  BY HeadOfPacing DEF HeadDue
<1>2. pacing \in Seq(Frames) /\ SoundDelay(delay)
  BY DEF Typed, ThreadTyped
<1>3. Len(pacing) \in Nat /\ 1 \in 1..Len(pacing)
  BY <1>2, EmptySeq
<1>4. pacing[1].pts \in Int /\ pacing[1].offset \in Int
  BY <1>1 DEF Frames
<1>5. delay_ns(delay, pacing[1].offset) \in 0..MaxDelay
  BY <1>2, <1>4, DelayInBounds DEF SoundDelay
<1>6. HeadDue = pacing[1].pts + pacing[1].offset + delay_ns(delay, pacing[1].offset)
  BY DEF HeadDue, Due, due_ns
<1> QED
  BY <1>1, <1>3, <1>4, <1>5, <1>6, DelayAssumption

(* After a change the count starts anew.                                   *)
LEMMA ChangeIsFresh ==
  ASSUME unshown' \in 0..WakeLag, unshown' = 0 \/ pacing' = <<>>,
         sleep' \in Int, stage' = "asleep" => sleep' <= MaxWait, waited' \in Int, waited' >= 0
  PROVE  Fresh' /\ \A reach \in Nat : unshown' \in 0..ShownBound(reach)
<1>1. PICK u \in Nat : u <= WakeLag /\ unshown' = u /\ (pacing' # <<>> => u = 0)
  BY BoundsTyped
<1>2. PICK s \in Int : sleep' = s /\ (stage' = "asleep" => s <= MaxWait)
  OBVIOUS
<1>3. PICK w \in Nat : waited' = w
  OBVIOUS
<1>4. /\ u <= MaxWait + WakeLag /\ u <= MaxWait + WakeLag + w /\ u <= WaitBound
      /\ u = 0 /\ s <= MaxWait => u + s <= MaxWait /\ u + s <= WaitBound - WakeLag
  BY <1>1, BoundsTyped
<1>5. AwaitInv'
  BY <1>1, <1>2, <1>3, <1>4, Zenon DEF AwaitInv
<1>6. Fresh'
  BY <1>1, <1>2, <1>4, <1>5, Zenon DEF Fresh
<1>7. \A reach \in Nat : unshown' \in 0..ShownBound(reach)
  BY <1>1, <1>4, BoundsTyped, ConstantsTyped DEF ShownBound
<1> QED
  BY <1>6, <1>7

(* The span of the queue is what it was when all of it has aged alike.     *)
LEMMA SpanKept ==
  ASSUME Typed, Typed', NEW shift \in Int, Len(pacing') = Len(pacing),
         \A i \in 1..Len(pacing) : pacing'[i].pts = pacing[i].pts - shift
  PROVE  has_room' <=> has_room
<1>1. /\ pacing \in Seq(Frames) /\ pacing' \in Seq(Frames) /\ Len(pacing) \in Nat
      /\ \A i \in 1..Len(pacing) : pacing[i] \in Frames
  BY DEF Typed, ThreadTyped
<1>2. pacing' = <<>> <=> pacing = <<>>
  BY <1>1, EmptySeq
<1>3. span_ns' = span_ns
  <2>1. CASE pacing = <<>>
    BY <1>2, <2>1 DEF span_ns
  <2>2. CASE pacing # <<>>
    <3> DEFINE n == Len(pacing)
    <3>1. 1 \in 1..n /\ n \in 1..n
      BY <1>1, <2>2, EmptySeq
    <3>2. pacing[1].pts \in Int /\ pacing[n].pts \in Int
      BY <1>1, <3>1 DEF Frames
    <3>3. pacing'[1].pts = pacing[1].pts - shift /\ pacing'[n].pts = pacing[n].pts - shift
      BY <3>1
    <3>4. span_ns = pacing[n].pts - pacing[1].pts /\ span_ns' = pacing'[n].pts - pacing'[1].pts
      BY <1>2, <2>2 DEF span_ns
    <3> HIDE DEF n
    <3> QED BY <3>2, <3>3, <3>4
  <2> QED BY <2>1, <2>2
<1> QED
  BY <1>3 DEF has_room, at_hard_ceiling

(* Where the playout puts video.                                           *)
LEMMA PlayoutOffsetTyped ==
  ASSUME Typed
  PROVE  playout_offset \in Offsets \cup {None}
<1>1. playout \in Offsets \cup {None} /\ held \in Holdings \cup {None}
  BY DEF Typed, WorldTyped, ThreadTyped
<1>2. held # None => held.offset \in Offsets
  BY <1>1 DEF Holdings
<1> QED
  BY <1>1, <1>2 DEF playout_offset

(* A reschedule puts every frame there, and leaves those that were.        *)
LEMMA Rescheduled ==
  ASSUME Typed, NEW frames \in Seq(Frames), Reschedule(frames), playout' = playout
  PROVE  /\ playout_offset' = playout_offset
         /\ Len(pacing') = Len(frames) /\ Len(frames) \in Nat
         /\ \A i \in 1..Len(frames) :
              /\ pacing'[i].pts = frames[i].pts /\ frames[i] \in Frames
              /\ Agrees(pacing[i])'
              /\ Agrees(frames[i]) => pacing'[i] = frames[i]
              /\ pacing'[i].offset \in {frames[i].offset} \cup Offsets
<1>1. playout_offset' = playout_offset
  BY ConstantsTyped DEF Reschedule, playout_offset
<1>2. Len(pacing') = Len(frames)
  BY RescheduleTyped
<1>3. DOMAIN frames = 1..Len(frames) /\ Len(frames) \in Nat
  OBVIOUS
<1>4. ASSUME NEW i \in 1..Len(frames)
      PROVE  /\ pacing'[i].pts = frames[i].pts /\ frames[i] \in Frames
             /\ Agrees(pacing[i])'
             /\ Agrees(frames[i]) => pacing'[i] = frames[i]
             /\ pacing'[i].offset \in {frames[i].offset} \cup Offsets
  <2> DEFINE o == playout_offset
             f == frames[i]
  <2>1. f \in Frames
    BY <1>3
  <2>2. CASE o = None
    <3>1. pacing' = frames
      BY <2>2 DEF Reschedule
    <3> QED BY <1>1, <2>1, <2>2, <3>1 DEF Agrees
  <2>3. CASE o # None
    <3>1. pacing'[i] = [f EXCEPT !.offset = o]
      BY <1>3, <2>3 DEF Reschedule
    <3>2. o \in Offsets
      BY <2>3, PlayoutOffsetTyped
    <3>3. playout_offset' = o
      BY <1>1
    <3> HIDE DEF o, f
    <3>4. pacing'[i].pts = f.pts /\ pacing'[i].offset = o
      BY <2>1, <3>1 DEF Frames
    <3>5. f.offset = o => pacing'[i] = f
      BY <2>1, <3>1 DEF Frames
    <3>6. Agrees(pacing[i])'
      BY <3>3, <3>4 DEF Agrees
    <3>7. Agrees(f) => f.offset = o
      BY <2>3 DEF Agrees, o
    <3> QED BY <2>1, <3>2, <3>4, <3>5, <3>6, <3>7 DEF f
  <2> QED BY <2>2, <2>3
<1> QED
  BY <1>1, <1>2, <1>3, <1>4

LEMMA RescheduledInHand ==
  ASSUME Typed, NEW reach \in Nat, \A offset \in Offsets : offset <= reach,
         NEW frames \in Seq(Frames), Reschedule(frames), playout' = playout,
         \A i \in 1..Len(frames) : frames[i].pts <= 0 /\ frames[i].pts + frames[i].offset <= reach
  PROVE  \A i \in 1..Len(pacing') :
           pacing'[i].pts <= 0 /\ pacing'[i].pts + pacing'[i].offset <= reach
<1> SUFFICES ASSUME NEW i \in 1..Len(pacing')
             PROVE  pacing'[i].pts <= 0 /\ pacing'[i].pts + pacing'[i].offset <= reach
  OBVIOUS
<1>1. /\ i \in 1..Len(frames) /\ frames[i] \in Frames
      /\ pacing'[i].pts = frames[i].pts
      /\ pacing'[i].offset \in {frames[i].offset} \cup Offsets
  BY Rescheduled
<1>2. frames[i].pts \in Int /\ frames[i].pts <= 0 /\ frames[i].pts + frames[i].offset <= reach
  BY <1>1 DEF Frames
<1>3. CASE pacing'[i].offset = frames[i].offset
  BY <1>1, <1>2, <1>3
<1>4. CASE pacing'[i].offset \in Offsets
  <2>1. pacing'[i].offset \in Int /\ pacing'[i].offset <= reach
    BY <1>4, ConstantsTyped
  <2> QED BY <1>1, <1>2, <2>1
<1> QED
  BY <1>1, <1>3, <1>4

(* What does not touch the video in hand, the count and the thread.        *)
LEMMA AsideShown ==
  ASSUME NEW reach \in Nat, ShownInv(reach),
         UNCHANGED <<unshown, source, schedule, cycle, anchor, pacing, floor>>
  PROVE  ShownInv(reach)'
<1>1. /\ UNCHANGED <<unshown, chan, clear_pending, timeline_reset, audio_present, playout>>
      /\ UNCHANGED <<stage, slack, sleep, anchor_pending, anchor_wait, waited, pacing, held, delay>>
  BY DEF source, schedule, cycle, anchor, floor
<1>2. InHandInv(reach)' /\ WakeInv'
  BY <1>1 DEF ShownInv, InHandInv, WakeInv
<1>3. /\ Awaits' = Awaits /\ playout_offset' = playout_offset
      /\ HeadDue' = HeadDue /\ has_room' = has_room
  BY <1>1 DEF Awaits, playout_offset, HeadDue, Due, has_room, span_ns, at_hard_ceiling
<1>4. CandidateInv'
  BY <1>1, <1>3 DEF ShownInv, CandidateInv, Agrees
<1>5. Fresh' <=> Fresh
  BY <1>1, <1>3 DEF Fresh, AwaitInv
<1>6. Settled(reach)' <=> Settled(reach)
  BY <1>1, <1>3 DEF Settled, Agrees, NoDecoderFirst
<1>7. RushedInv' <=> RushedInv
  BY <1>1, <1>3 DEF RushedInv, Rushed, Intakes
<1> QED
  BY <1>1, <1>2, <1>4, <1>5, <1>6, <1>7 DEF ShownInv

(* A packet pushed.                                                        *)
LEMMA AppendedChan ==
  ASSUME NEW S, NEW s \in Seq(S), NEW e \in S
  PROVE  /\ Len(Append(s, e)) = Len(s) + 1 /\ Len(s) \in Nat /\ Append(s, e) # <<>>
         /\ \A i \in 1..Len(s) : Append(s, e)[i] = s[i]
         /\ Append(s, e)[Len(s) + 1] = e
<1>1. /\ Append(s, e) \in Seq(S) /\ Len(Append(s, e)) = Len(s) + 1 /\ Len(s) \in Nat
      /\ \A i \in 1..Len(s) : Append(s, e)[i] = s[i]
      /\ Append(s, e)[Len(s) + 1] = e
  BY AppendProperties, LenProperties
<1> QED
  BY <1>1, EmptySeq

LEMMA PushShown ==
  ASSUME Typed, Typed', NEW reach \in Nat, ShownInv(reach), Push
  PROVE  ShownInv(reach)'
<1> DEFINE packet == [pts |-> next, need |-> -next]
<1>1. /\ UNCHANGED <<unshown, clear_pending, timeline_reset, audio_present, playout>>
      /\ UNCHANGED <<stage, slack, anchor_pending, anchor_wait, waited, pacing, held, delay>>
      /\ stage = "asleep"
  BY DEF Push, obs, schedule, anchor, floor
<1>2. PICK s \in Int : sleep' = s /\ s <= sleep /\ sleep \in Int /\ s \in -WakeLag..MaxWait
  <2>1. sleep \in -WakeLag..MaxWait
    BY <1>1 DEF ShownInv, WakeInv
  <2>2. Woken(sleep, has_work') \in -WakeLag..MaxWait /\ Woken(sleep, has_work') <= sleep
    BY <2>1, WokenKeeps
  <2>3. sleep' = Woken(sleep, has_work') /\ sleep \in Int /\ -WakeLag..MaxWait \subseteq Int
    BY BoundsTyped DEF Push, Typed, ThreadTyped
  <2> QED BY <2>2, <2>3
<1>3. /\ Len(chan') = Len(chan) + 1 /\ Len(chan) \in Nat /\ chan' # <<>>
      /\ \A i \in 1..Len(chan) : chan'[i] = chan[i]
      /\ chan'[Len(chan) + 1] = packet
  <2> DEFINE S == {Decoder} \cup Packets
  <2>1. chan \in Seq(S)
    BY DEF Typed, WorldTyped
  <2>2. next \in Int /\ -next \in 0..MaxNeed
    BY ConstantsTyped DEF Push, Typed, WorldTyped
  <2>3. packet \in S
    BY <2>2 DEF Packets
  <2>4. chan' = Append(chan, packet)
    BY DEF Push
  <2> HIDE DEF S, packet
  <2> QED BY <2>1, <2>3, <2>4, AppendedChan
<1>4. packet.pts <= 0 /\ packet # Decoder
  <2>1. DOMAIN packet = {"pts", "need"} /\ DOMAIN Decoder = {"decoder"}
    BY DEF Decoder
  <2>2. packet # Decoder
    BY <2>1
  <2> QED BY <2>2 DEF Push
<1> HIDE DEF packet
<1>5. InHandInv(reach)'
  <2>1. \A i \in 1..Len(chan') : chan'[i] # Decoder => chan'[i].pts <= 0
    <3> SUFFICES ASSUME NEW i \in 1..Len(chan'), chan'[i] # Decoder PROVE chan'[i].pts <= 0
      OBVIOUS
    <3>1. CASE i \in 1..Len(chan)
      BY <1>3, <3>1 DEF ShownInv, InHandInv
    <3>2. CASE i = Len(chan) + 1
      BY <1>3, <1>4, <3>2
    <3> QED BY <1>3, <3>1, <3>2
  <2>2. Len(chan') <= ChanMax
    BY <1>3, BoundsTyped DEF Push
  <2> QED BY <1>1, <2>1, <2>2 DEF ShownInv, InHandInv
<1>6. WakeInv'
  <2>1. stage = "asleep" /\ (clear_pending => sleep <= 0 /\ unshown + sleep <= 0) /\ unshown \in Int
    BY <1>1 DEF ShownInv, WakeInv
  <2>2. clear_pending => s <= 0 /\ unshown + s <= 0
    BY <1>2, <2>1
  <2> QED BY <1>1, <1>2, <2>1, <2>2 DEF WakeInv
<1>7. CandidateInv'
  BY <1>1 DEF CandidateInv
<1>8. /\ (Awaits' <=> Awaits) /\ playout_offset' = playout_offset
      /\ HeadDue' = HeadDue /\ (has_room' <=> has_room)
  BY <1>1 DEF Awaits, playout_offset, HeadDue, Due, has_room, span_ns, at_hard_ceiling
<1>9. Fresh => Fresh'
  <2> SUFFICES ASSUME Fresh PROVE Fresh'
    OBVIOUS
  <2>1. unshown \in Int
    BY DEF ShownInv
  <2>2. unshown + s <= unshown + sleep
    BY <1>2, <2>1
  <2>3. MaxWait \in Int /\ WaitBound - WakeLag \in Int
    BY BoundsTyped
  <2>4. /\ unshown + sleep <= MaxWait => unshown + s <= MaxWait
        /\ unshown + sleep <= WaitBound - WakeLag => unshown + s <= WaitBound - WakeLag
    BY <1>2, <2>1, <2>2, <2>3
  <2>5. AwaitInv'
    BY <1>1, <1>2, <1>8, <2>4, Zenon DEF Fresh, AwaitInv
  <2> QED BY <1>1, <1>2, <2>4, <2>5, Zenon DEF Fresh
<1>10. Settled(reach) => Settled(reach)'
  <2> SUFFICES ASSUME Settled(reach) PROVE Settled(reach)'
    OBVIOUS
  <2>1. NoDecoderFirst'
    <3>1. CASE \A i \in 1..Len(chan) : chan[i] # Decoder
      <4>1. \A i \in 1..Len(chan') : chan'[i] # Decoder
        BY <1>3, <1>4, <3>1
      <4> QED BY <4>1 DEF NoDecoderFirst
    <3>2. CASE chan # <<>> /\ chan[1] # Decoder /\ ~has_room
      <4>1. 1 \in 1..Len(chan)
        BY <1>3, <3>2, EmptySeq DEF Typed, WorldTyped
      <4> QED BY <1>3, <1>8, <3>2, <4>1 DEF NoDecoderFirst
    <3> QED BY <3>1, <3>2 DEF Settled, NoDecoderFirst
  <2>2. HeadDue \in Int
    BY HeadDueTyped DEF Settled
  <2>3. s <= HeadDue - Slack
    BY <1>1, <1>2, <2>2, ConstantsTyped DEF Settled
  <2> QED BY <1>1, <1>2, <1>8, <2>1, <2>3 DEF Settled, Agrees
<1>11. ASSUME NEW n \in 0..ChanMax, Rushed(n) PROVE Rushed(n)'
  <2>1. \A i \in 1..Len(chan') : chan'[i] = Decoder => i <= n
    <3> SUFFICES ASSUME NEW i \in 1..Len(chan'), chan'[i] = Decoder PROVE i <= n
      OBVIOUS
    <3>1. i \in 1..Len(chan)
      BY <1>3, <1>4
    <3> QED BY <1>3, <1>11, <3>1 DEF Rushed
  <2>2. Intakes => Intakes'
    <3> SUFFICES ASSUME Intakes PROVE Intakes'
      OBVIOUS
    <3>1. chan # <<>>
      BY DEF Intakes
    <3>2. 1 \in 1..Len(chan)
      BY <1>3, <3>1, EmptySeq DEF Typed, WorldTyped
    <3> QED BY <1>3, <1>8, <3>2 DEF Intakes
  <2>3. /\ unshown + sleep + Spare(n + 1) <= SettleBound => unshown + s + Spare(n + 1) <= SettleBound
    <3>1. unshown \in Int /\ Spare(n + 1) \in Int /\ SettleBound \in Int
      BY <1>11, BoundsTyped DEF ShownInv
    <3> QED BY <1>2, <3>1
  <2> QED BY <1>1, <1>2, <1>8, <1>11, <2>1, <2>2, <2>3, Zenon DEF Rushed
<1> QED
  BY <1>1, <1>5, <1>6, <1>7, <1>9, <1>10, <1>11 DEF ShownInv, RushedInv

(* A change of the audio or the connection.                                *)
LEMMA ChangedShown ==
  ASSUME Typed', NEW reach \in Nat, InHandInv(reach)', WakeInv', CandidateInv',
         unshown' \in 0..WakeLag, unshown' = 0 \/ pacing' = <<>>, waited' >= 0
  PROVE  ShownInv(reach)'
<1>1. sleep' \in Int /\ waited' \in Int
  BY DEF Typed, ThreadTyped
<1>2. stage' = "asleep" => sleep' <= MaxWait
  BY BoundsTyped DEF WakeInv
<1>3. Fresh' /\ unshown' \in 0..ShownBound(reach)
  BY <1>1, <1>2, ChangeIsFresh
<1> QED
  BY <1>3 DEF ShownInv

LEMMA PublishShown ==
  ASSUME Typed, Typed', NEW reach \in Nat, ShownInv(reach), NEW offset \in Offsets,
         PublishOffset(offset)
  PROVE  ShownInv(reach)'
<1>1. /\ UNCHANGED <<chan, clear_pending, timeline_reset, audio_present, pacing, held, delay>>
      /\ UNCHANGED <<stage, slack, anchor_pending, anchor_wait, waited>>
      /\ playout' = offset /\ unshown' \in {0}
  BY DEF PublishOffset, Change, source, anchor, floor
<1>2. /\ sleep' <= sleep /\ sleep \in Int /\ sleep' \in Int
      /\ stage = "asleep" => sleep' \in -WakeLag..MaxWait
  <2>1. sleep \in Int /\ sleep' \in Int
    BY DEF Typed, ThreadTyped
  <2>2. sleep' = Woken(sleep, playout = None)
    BY DEF PublishOffset
  <2>3. sleep' <= sleep
    BY <2>1, <2>2, WokenTyped
  <2>4. stage = "asleep" => sleep' \in -WakeLag..MaxWait
    BY <2>2, WokenKeeps DEF ShownInv, WakeInv
  <2> QED BY <2>1, <2>3, <2>4
<1>3. InHandInv(reach)'
  BY <1>1 DEF ShownInv, InHandInv
<1>4. WakeInv'
  <2>0. PICK z \in Int : sleep' = z /\ z <= sleep
    BY <1>2
  <2>1. sleep <= 0 => sleep' <= 0 /\ unshown' + sleep' <= 0
    BY <1>1, <1>2, <2>0
  <2> QED BY <1>1, <1>2, <2>1 DEF ShownInv, WakeInv
<1>5. CandidateInv'
  <2>1. ~Awaits'
    BY <1>1, ConstantsTyped DEF Awaits
  <2> QED BY <1>1, <2>1 DEF ShownInv, CandidateInv
<1>6. waited' >= 0
  BY <1>1 DEF ShownInv
<1>7. unshown' \in 0..WakeLag
  BY <1>1, BoundsTyped
<1> QED
  BY <1>1, <1>3, <1>4, <1>5, <1>6, <1>7, ChangedShown

LEMMA ResetTimelineShown ==
  ASSUME Typed, Typed', NEW reach \in Nat, ShownInv(reach), ResetTimeline
  PROVE  ShownInv(reach)'
<1>1. /\ UNCHANGED <<chan, clear_pending, pacing, stage, sleep, waited>>
      /\ stage = "asleep" /\ unshown' \in {0}
  BY DEF ResetTimeline, Change, cycle, anchor
<1>2. InHandInv(reach)' /\ CandidateInv' /\ waited' >= 0
  BY <1>1 DEF ShownInv, InHandInv, CandidateInv
<1>3. WakeInv'
  <2>1. sleep' \in Int /\ sleep' = sleep
    BY <1>1 DEF Typed, ThreadTyped
  <2>2. sleep' <= 0 => unshown' + sleep' <= 0
    BY <1>1, <2>1
  <2> QED BY <1>1, <2>1, <2>2 DEF ShownInv, WakeInv
<1>4. unshown' \in 0..WakeLag
  BY <1>1, BoundsTyped
<1> QED
  BY <1>1, <1>2, <1>3, <1>4, ChangedShown

LEMMA ReconnectShown ==
  ASSUME Typed, Typed', NEW reach \in Nat, ShownInv(reach),
         NEW blank \in BOOLEAN, NEW audio \in BOOLEAN, Reconnect(blank, audio)
  PROVE  ShownInv(reach)'
<1>1. /\ UNCHANGED <<timeline_reset, pacing, stage, waited>>
      /\ stage = "asleep" /\ unshown' \in {0}
  BY DEF Reconnect, Change, anchor
<1>2. /\ sleep' \in Int /\ sleep' \in -WakeLag..MaxWait
      /\ clear_pending' => sleep' <= 0
  <2>1. sleep \in -WakeLag..MaxWait /\ sleep' = Woken(sleep, has_work') /\ sleep \in Int
    BY <1>1, BoundsTyped DEF Reconnect, ShownInv, WakeInv
  <2>2. Woken(sleep, has_work') \in -WakeLag..MaxWait /\ Woken(sleep, has_work') \in Int
    BY <2>1, WokenKeeps, BoundsTyped
  <2>3. clear_pending' => Woken(sleep, has_work') <= 0
    <3>1. clear_pending' => has_work'
      BY DEF has_work
    <3>2. Lower(sleep, 0) <= 0
      BY <2>1 DEF Lower
    <3> QED BY <1>1, <3>1, <3>2 DEF Woken
  <2> QED BY <2>1, <2>2, <2>3
<1>3. \A i \in 1..Len(chan') : chan'[i] # Decoder => chan'[i].pts <= 0
  <2> DEFINE S == {Decoder} \cup Packets
             InPast(s) == \A i \in 1..Len(s) : s[i] # Decoder => s[i].pts <= 0
  <2>1. chan \in Seq(S) /\ Decoder \in S /\ InPast(chan)
    BY DEF Typed, WorldTyped, ShownInv, InHandInv
  <2>2. chan' \in {<<Decoder>>, Append(chan, Decoder), Append(Tail(chan), Decoder)}
    BY DEF Reconnect
  <2>3. ASSUME NEW s \in Seq(S), InPast(s) PROVE InPast(Append(s, Decoder))
    <3>1. /\ Len(Append(s, Decoder)) = Len(s) + 1 /\ Len(s) \in Nat
          /\ \A i \in 1..Len(s) : Append(s, Decoder)[i] = s[i]
          /\ Append(s, Decoder)[Len(s) + 1] = Decoder
      <4> HIDE DEF S
      <4> QED BY <2>1, AppendedChan
    <3> SUFFICES ASSUME NEW i \in 1..(Len(s) + 1), Append(s, Decoder)[i] # Decoder
                 PROVE  Append(s, Decoder)[i].pts <= 0
      BY <3>1
    <3>2. i \in 1..Len(s)
      BY <3>1
    <3> QED BY <2>3, <3>1, <3>2
  <2>4. Tail(chan) \in Seq(S) /\ InPast(Tail(chan))
    <3>1. CASE chan = <<>>
      <4>1. Tail(chan) = <<>>
        BY <3>1
      <4> QED BY <2>1, <3>1, <4>1
    <3>2. CASE chan # <<>>
      <4>1. /\ Tail(chan) \in Seq(S) /\ Len(Tail(chan)) = Len(chan) - 1 /\ Len(chan) \in Nat
            /\ \A i \in 1..Len(Tail(chan)) : Tail(chan)[i] = chan[i + 1]
        <5> HIDE DEF S
        <5> QED BY <2>1, <3>2, HeadTailProperties
      <4>2. \A i \in 1..Len(Tail(chan)) : i + 1 \in 1..Len(chan)
        BY <4>1
      <4> QED BY <2>1, <4>1, <4>2
    <3> QED BY <3>1, <3>2
  <2>5. InPast(<<Decoder>>)
    OBVIOUS
  <2> HIDE DEF S, InPast
  <2>6. InPast(chan')
    BY <2>1, <2>2, <2>3, <2>4, <2>5
  <2> QED BY <2>6 DEF InPast
<1>4. InHandInv(reach)'
  <2>1. Len(chan') <= ChanMax
    <3> DEFINE S == {Decoder} \cup Packets
    <3>1. chan \in Seq(S) /\ Decoder \in S /\ Len(chan) \in Nat /\ Len(chan) <= ChanMax
      BY DEF Typed, WorldTyped, ShownInv, InHandInv
    <3>2. CASE chan' = <<Decoder>>
      <4>1. Len(<<Decoder>>) = 1
        OBVIOUS
      <4> QED BY <3>2, <4>1, BoundsTyped
    <3>3. CASE Len(chan) < ChanMax /\ chan' = Append(chan, Decoder)
      <4>1. Len(chan') = Len(chan) + 1
        BY <3>1, <3>3, AppendedChan
      <4> QED BY <3>1, <3>3, <4>1, BoundsTyped
    <3>4. CASE Len(chan) >= ChanMax /\ chan' = Append(Tail(chan), Decoder)
      <4>1. chan # <<>>
        <5>1. chan = <<>> => Len(chan) = 0
          OBVIOUS
        <5> QED BY <3>1, <3>4, <5>1, BoundsTyped
      <4>2. Tail(chan) \in Seq(S) /\ Len(Tail(chan)) = Len(chan) - 1
        <5> HIDE DEF S
        <5> QED BY <3>1, <4>1, HeadTailProperties
      <4>3. Len(chan') = Len(Tail(chan)) + 1
        <5> HIDE DEF S
        <5> QED BY <3>1, <3>4, <4>2, AppendedChan
      <4> QED BY <3>1, <4>2, <4>3
    <3>5. \/ chan' = <<Decoder>> \/ (Len(chan) < ChanMax /\ chan' = Append(chan, Decoder))
          \/ (Len(chan) >= ChanMax /\ chan' = Append(Tail(chan), Decoder))
      <4>1. chan' = IF blank THEN <<Decoder>>
                    ELSE IF Len(chan) < ChanMax THEN Append(chan, Decoder) ELSE Append(Tail(chan), Decoder)
        BY DEF Reconnect
      <4>2. ~(Len(chan) < ChanMax) => Len(chan) >= ChanMax
        BY <3>1, BoundsTyped
      <4> QED BY <4>1, <4>2, Zenon
    <3> QED BY <3>2, <3>3, <3>4, <3>5
  <2> QED BY <1>1, <1>3, <2>1 DEF ShownInv, InHandInv
<1>5. WakeInv'
  <2>0. PICK z \in Int : sleep' = z
    BY <1>2
  <2>1. sleep' <= 0 => unshown' + sleep' <= 0
    BY <1>1, <2>0
  <2> QED BY <1>1, <1>2, <2>1 DEF ShownInv, WakeInv
<1>6. CandidateInv' /\ waited' >= 0
  BY <1>1 DEF ShownInv, CandidateInv
<1>7. unshown' \in 0..WakeLag
  BY <1>1, BoundsTyped
<1> QED
  BY <1>1, <1>4, <1>5, <1>6, <1>7, ChangedShown

(* Time passes: what is in hand is due sooner by as much as it has waited. *)
LEMMA PassedInHand ==
  ASSUME Typed, Pass
  PROVE  /\ Len(chan') = Len(chan) /\ Len(pacing') = Len(pacing)
         /\ \A i \in 1..Len(chan) :
              /\ chan'[i] = Decoder <=> chan[i] = Decoder
              /\ chan[i] # Decoder => chan[i].pts \in Int /\ chan'[i].pts = chan[i].pts - 1
         /\ \A i \in 1..Len(pacing) :
              /\ pacing[i].pts \in Int /\ pacing[i].offset \in Int
              /\ pacing'[i].pts = pacing[i].pts - 1 /\ pacing'[i].offset = pacing[i].offset
<1> DEFINE Shifted(s) == [i \in DOMAIN s |-> IF s[i] = Decoder THEN Decoder
                                           ELSE [s[i] EXCEPT !.pts = @ - 1]]
<1>1. chan' = Shifted(chan) /\ pacing' = Shifted(pacing)
  BY DEF Pass
<1>2. /\ chan \in Seq({Decoder} \cup Packets) /\ pacing \in Seq(Frames)
      /\ DOMAIN chan = 1..Len(chan) /\ DOMAIN pacing = 1..Len(pacing)
      /\ Len(chan) \in Nat /\ Len(pacing) \in Nat
  BY DEF Typed, WorldTyped, ThreadTyped
<1>3. Len(chan') = Len(chan) /\ Len(pacing') = Len(pacing)
  <2>1. Len(pacing') = Len(pacing)
    BY <1>1, <1>2, OlderFramesTyped
  <2>2. chan' \in Seq({Decoder} \cup Packets)
    BY <1>1, <1>2, OlderTyped
  <2>3. DOMAIN chan' = DOMAIN chan
    BY <1>1
  <2>4. Len(chan') = Len(chan)
    <3>1. DOMAIN chan' = 1..Len(chan') /\ Len(chan') \in Nat
      BY <2>2
    <3> QED BY <1>2, <2>3, <3>1
  <2> QED BY <2>1, <2>4
<1>4. ASSUME NEW i \in 1..Len(chan)
      PROVE  /\ chan'[i] = Decoder <=> chan[i] = Decoder
             /\ chan[i] # Decoder => chan[i].pts \in Int /\ chan'[i].pts = chan[i].pts - 1
  <2>1. chan[i] \in {Decoder} \cup Packets
    BY <1>2
  <2>2. chan'[i] = IF chan[i] = Decoder THEN Decoder ELSE [chan[i] EXCEPT !.pts = @ - 1]
    BY <1>1, <1>2
  <2>3. CASE chan[i] = Decoder
    BY <2>2, <2>3
  <2>4. CASE chan[i] # Decoder
    <3> DEFINE p == chan[i]
               q == [p EXCEPT !.pts = @ - 1]
    <3>1. p \in Packets
      BY <2>1, <2>4
    <3>2. p.pts \in Int /\ DOMAIN p = {"pts", "need"}
      BY <3>1 DEF Packets
    <3>3. chan'[i] = q /\ DOMAIN q = DOMAIN p
      BY <2>2, <2>4
    <3>4. DOMAIN Decoder = {"decoder"}
      BY DEF Decoder
    <3>5. q # Decoder
      <4> HIDE DEF q
      <4> QED BY <3>2, <3>3, <3>4
    <3>6. q.pts = p.pts - 1
      BY <3>2
    <3> QED BY <2>4, <3>2, <3>3, <3>5, <3>6
  <2> QED BY <2>3, <2>4
<1>5. ASSUME NEW i \in 1..Len(pacing)
      PROVE  /\ pacing[i].pts \in Int /\ pacing[i].offset \in Int
             /\ pacing'[i].pts = pacing[i].pts - 1 /\ pacing'[i].offset = pacing[i].offset
  <2> DEFINE f == pacing[i]
             g == [f EXCEPT !.pts = @ - 1]
  <2>1. f \in Frames
    BY <1>2
  <2>2. f.pts \in Int /\ f.offset \in Int /\ DOMAIN f = {"pts", "need", "offset"}
    BY <2>1 DEF Frames
  <2>3. f # Decoder
    <3>1. DOMAIN Decoder = {"decoder"}
      BY DEF Decoder
    <3> HIDE DEF f
    <3> QED BY <2>2, <3>1
  <2>4. pacing'[i] = g
    BY <1>1, <1>2, <2>3
  <2>5. g.pts = f.pts - 1 /\ g.offset = f.offset
    BY <2>2
  <2> QED BY <2>2, <2>4, <2>5
<1> QED
  BY <1>3, <1>4, <1>5

LEMMA HeldTyped ==
  ASSUME Typed, Pass
  PROVE  playout_offset' \in {playout_offset, None}
<1>1. playout' = playout /\ held' = IF held = None \/ held.age > OffsetHold THEN None
                                     ELSE [held EXCEPT !.age = @ + 1]
  BY DEF Pass, schedule
<1>2. CASE held = None \/ held.age > OffsetHold
  BY <1>1, <1>2 DEF playout_offset
<1>3. CASE ~(held = None \/ held.age > OffsetHold)
  <2>1. held \in Holdings
    BY <1>3 DEF Typed, ThreadTyped
  <2>2. held' = [held EXCEPT !.age = @ + 1]
    BY <1>1, <1>3
  <2>3. held'.offset = held.offset
    BY <2>1, <2>2 DEF Holdings
  <2> QED BY <1>1, <1>3, <2>3 DEF playout_offset
<1> QED
  BY <1>2, <1>3

LEMMA PassShown ==
  ASSUME Typed, Typed', NEW reach \in Nat, ShownInv(reach), Pass
  PROVE  ShownInv(reach)'
<1>1. /\ UNCHANGED <<clear_pending, timeline_reset, audio_present, playout>>
      /\ UNCHANGED <<stage, slack, anchor_pending, anchor_wait>>
      /\ stage = "asleep" /\ sleep > -WakeLag /\ sleep' = sleep - 1
      /\ waited' = IF anchor_wait = "waiting" THEN Lower(waited + 1, Expected) ELSE waited
  BY DelayAssumption DEF Pass, InTime, schedule
<1>2. /\ sleep \in Int /\ waited \in Nat /\ unshown \in Nat
      /\ sleep <= MaxWait /\ (clear_pending => sleep <= 0 /\ unshown + sleep <= 0)
      /\ MaxWait \in Nat /\ WakeLag \in Nat /\ Expected \in Nat /\ MaxDelay \in Nat /\ Slack \in Nat
      /\ WaitBound \in Nat /\ SettleBound \in Nat /\ WaitBound + WakeLag <= SettleBound
      /\ ShownBound(reach) = SettleBound + reach + MaxDelay + WakeLag
  <2>1. sleep \in Int /\ waited \in Nat /\ unshown \in Nat
    BY DEF Typed, ThreadTyped, ShownInv
  <2>2. sleep <= MaxWait /\ (clear_pending => sleep <= 0 /\ unshown + sleep <= 0)
    BY <1>1, BoundsTyped DEF ShownInv, WakeInv
  <2> QED BY <2>1, <2>2, BoundsTyped, ConstantsTyped DEF ShownBound
<1>3. PICK w \in Nat :
        waited' = w /\ (anchor_wait = "waiting" => w = waited + 1 \/ w >= Expected)
                /\ (anchor_wait # "waiting" => w = waited)
  <2>1. CASE anchor_wait = "waiting"
    <3>1. waited' = Lower(waited + 1, Expected)
      BY <1>1, <2>1
    <3>2. Lower(waited + 1, Expected) \in Nat
          /\ (Lower(waited + 1, Expected) = waited + 1 \/ Lower(waited + 1, Expected) >= Expected)
      BY <1>2 DEF Lower
    <3> QED BY <2>1, <3>1, <3>2
  <2>2. CASE anchor_wait # "waiting"
    BY <1>1, <1>2, <2>2
  <2> QED BY <2>1, <2>2
<1>4. InHandInv(reach)'
  <2>1. ASSUME NEW i \in 1..Len(chan'), chan'[i] # Decoder PROVE chan'[i].pts <= 0
    <3>1. i \in 1..Len(chan) /\ chan[i].pts \in Int /\ chan'[i].pts = chan[i].pts - 1
          /\ chan[i] # Decoder
      BY <2>1, PassedInHand
    <3>2. chan[i].pts <= 0
      BY <3>1 DEF ShownInv, InHandInv
    <3> QED BY <3>1, <3>2
  <2>2. ASSUME NEW i \in 1..Len(pacing')
        PROVE  pacing'[i].pts <= 0 /\ pacing'[i].pts + pacing'[i].offset <= reach
    <3>1. /\ i \in 1..Len(pacing) /\ pacing[i].pts \in Int /\ pacing[i].offset \in Int
          /\ pacing'[i].pts = pacing[i].pts - 1 /\ pacing'[i].offset = pacing[i].offset
      BY PassedInHand
    <3>2. pacing[i].pts <= 0 /\ pacing[i].pts + pacing[i].offset <= reach
      BY <3>1 DEF ShownInv, InHandInv
    <3> QED BY <3>1, <3>2
  <2>3. Len(chan') <= ChanMax
    BY PassedInHand DEF ShownInv, InHandInv
  <2> QED BY <2>1, <2>2, <2>3 DEF InHandInv
<1>5. WakeInv'
  <2>1. PICK u \in Nat : unshown' = u /\ u <= unshown + 1
    <3>1. Patience \in Nat
      BY PacingAssumption
    <3>2. unshown' \in {0, Lower(unshown + 1, Patience + 1)}
      BY DEF Pass
    <3>3. /\ Lower(unshown + 1, Patience + 1) \in Nat
          /\ Lower(unshown + 1, Patience + 1) <= unshown + 1
      BY <1>2, <3>1 DEF Lower
    <3> QED BY <1>2, <3>2, <3>3
  <2> DEFINE s == sleep - 1
  <2>2. s \in -WakeLag..MaxWait /\ sleep' = s /\ s \in Int
    BY <1>1, <1>2
  <2>3. clear_pending => s <= 0 /\ u + s <= 0
    BY <1>2, <2>1
  <2> HIDE DEF s
  <2>4. unshown' + sleep' = u + s
    BY <2>1, <2>2
  <2> QED BY <1>1, <2>2, <2>3, <2>4 DEF WakeInv
<1>6. CandidateInv' /\ waited' >= 0
  BY <1>1, <1>3 DEF CandidateInv
<1>7. CASE ~(anchor_pending /\ pacing # <<>>)
  <2>1. unshown' = 0 /\ unshown' \in 0..WakeLag
    BY <1>2, <1>7 DEF Pass
  <2> QED BY <1>4, <1>5, <1>6, <2>1, ChangedShown
<1>8. CASE anchor_pending /\ pacing # <<>>
  <2>1. PICK u \in Nat : unshown' = u /\ u <= unshown + 1
    <3>1. unshown' = Lower(unshown + 1, Patience + 1)
      BY <1>8 DEF Pass
    <3>2. Patience \in Nat
      BY PacingAssumption
    <3>3. Lower(unshown + 1, Patience + 1) \in Nat /\ Lower(unshown + 1, Patience + 1) <= unshown + 1
      BY <1>2, <3>2 DEF Lower
    <3> QED BY <3>1, <3>3
  <2>2. Awaits' <=> Awaits
    BY <1>1 DEF Awaits
  <2>3. CASE Fresh
    <3> DEFINE s == sleep - 1
    <3>1. s \in Int /\ sleep' = s /\ unshown + sleep <= WaitBound - WakeLag
      BY <1>1, <1>2, <1>8, <2>3 DEF Fresh
    <3>2. /\ u + s <= unshown + sleep /\ u <= unshown + sleep + WakeLag
          /\ unshown + sleep \in Int /\ u + s \in Int
      BY <1>1, <1>2, <2>1
    <3>3. u + s <= WaitBound - WakeLag /\ u <= WaitBound /\ u <= ShownBound(reach)
      BY <1>2, <2>1, <3>1, <3>2
    <3> HIDE DEF s
    <3>4. Awaits /\ anchor_wait = "idle" => u <= MaxWait + WakeLag /\ u + s <= MaxWait
      <4>1. Awaits /\ anchor_wait = "idle" => unshown + sleep <= MaxWait
        BY <1>1, <1>8, <2>3 DEF Fresh, AwaitInv
      <4> QED BY <1>2, <2>1, <3>1, <3>2, <4>1
    <3>5. Awaits /\ anchor_wait = "waiting" /\ w < Expected => u <= MaxWait + WakeLag + w
      <4> SUFFICES ASSUME Awaits, anchor_wait = "waiting", w < Expected
                   PROVE  u <= MaxWait + WakeLag + w
        OBVIOUS
      <4>1. w = waited + 1 /\ waited < Expected
        BY <1>2, <1>3
      <4>2. unshown <= MaxWait + WakeLag + waited
        BY <2>3, <4>1 DEF Fresh, AwaitInv
      <4> QED BY <1>2, <2>1, <4>1, <4>2
    <3>6. AwaitInv'
      BY <1>1, <1>3, <2>1, <2>2, <3>1, <3>4, <3>5, Zenon DEF AwaitInv
    <3>7. Fresh'
      BY <2>1, <3>1, <3>3, <3>6, Zenon DEF Fresh
    <3>8. unshown' \in 0..ShownBound(reach)
      BY <1>2, <2>1, <3>3
    <3> QED BY <1>4, <1>5, <1>6, <3>7, <3>8 DEF ShownInv
  <2>4. CASE Settled(reach)
    <3>1. /\ 1 \in 1..Len(pacing) /\ Len(pacing') = Len(pacing)
          /\ pacing[1].pts \in Int /\ pacing[1].offset \in Int
          /\ pacing'[1].pts = pacing[1].pts - 1 /\ pacing'[1].offset = pacing[1].offset
          /\ HeadDue \in Int
          /\ HeadDue = pacing[1].pts + pacing[1].offset + delay_ns(delay, pacing[1].offset)
          /\ HeadDue <= pacing[1].pts + pacing[1].offset + MaxDelay
      BY <1>8, HeadDueTyped, PassedInHand
    <3>2. HeadDue' = HeadDue - 1
      <4>1. delay'.floor = delay.floor
        <5>1. delay' = Aged(delay) /\ delay \in Delays
          BY DEF Pass, Typed, ThreadTyped, SoundDelay
        <5> QED BY <5>1 DEF Aged, Delays
      <4>2. delay_ns(delay', pacing[1].offset) = delay_ns(delay, pacing[1].offset)
        BY <4>1, DelayOfTheFloor
      <4>3. HeadDue' = pacing'[1].pts + pacing'[1].offset + delay_ns(delay', pacing'[1].offset)
        BY DEF HeadDue, Due, due_ns
      <4>4. delay_ns(delay, pacing[1].offset) \in Int
        <5>1. delay \in Delays
          BY DEF Typed, ThreadTyped, SoundDelay
        <5>2. delay_ns(delay, pacing[1].offset) \in 0..MaxDelay
          BY <3>1, <5>1, DelayInBounds
        <5> QED BY <5>2
      <4> DEFINE p == pacing[1].pts
                 o == pacing[1].offset
                 d == delay_ns(delay, pacing[1].offset)
      <4>5. p \in Int /\ o \in Int /\ d \in Int
        BY <3>1, <4>4
      <4>6. HeadDue' = p - 1 + o + d /\ HeadDue = p + o + d
        BY <3>1, <4>2, <4>3
      <4> HIDE DEF p, o, d
      <4> QED BY <4>5, <4>6
    <3>3. /\ HeadDue - 1 >= Slack - WakeLag /\ sleep - 1 <= HeadDue - 1 - Slack
          /\ u + (pacing[1].pts - 1) + pacing[1].offset <= SettleBound + reach
          /\ u <= ShownBound(reach)
      <4>1. /\ unshown + pacing[1].pts + pacing[1].offset <= SettleBound + reach
            /\ sleep <= HeadDue - Slack
        BY <1>1, <2>4 DEF Settled
      <4>2. SettleBound \in Int
        BY <1>2
      <4> DEFINE p == pacing[1].pts
                 o == pacing[1].offset
      <4>3. /\ p \in Int /\ o \in Int /\ HeadDue <= p + o + MaxDelay
            /\ unshown + p + o <= SettleBound + reach /\ HeadDue \in Int
        BY <3>1, <4>1
      <4> HIDE DEF p, o
      <4>4. HeadDue - 1 >= Slack - WakeLag /\ sleep - 1 <= HeadDue - 1 - Slack
        BY <1>1, <1>2, <4>1, <4>3
      <4>5. u + (p - 1) + o <= SettleBound + reach
        BY <1>2, <2>1, <4>2, <4>3
      <4>6. u <= SettleBound + reach + MaxDelay + WakeLag
        BY <1>2, <2>1, <4>2, <4>3, <4>4, <4>5
      <4> QED BY <1>2, <4>4, <4>5, <4>6 DEF p, o
    <3>4. pacing' # <<>>
      BY <3>1, EmptySeq DEF Typed, ThreadTyped
    <3>5. Agrees(pacing[1])'
      BY <2>4, <3>1, HeldTyped DEF Settled, Agrees
    <3>6. NoDecoderFirst'
      <4>1. has_room' <=> has_room
        BY <3>1, PassedInHand, SpanKept
      <4>2. CASE \A i \in 1..Len(chan) : chan[i] # Decoder
        BY <4>2, PassedInHand DEF NoDecoderFirst
      <4>3. CASE chan # <<>> /\ chan[1] # Decoder /\ ~has_room
        <5>1. 1 \in 1..Len(chan) /\ Len(chan') = Len(chan) /\ chan' \in Seq({Decoder} \cup Packets)
          BY <4>3, EmptySeq, PassedInHand DEF Typed, WorldTyped
        <5>2. chan'[1] # Decoder
          BY <4>3, <5>1, PassedInHand
        <5>3. chan' # <<>>
          BY <5>1, EmptySeq
        <5> QED BY <4>1, <4>3, <5>2, <5>3 DEF NoDecoderFirst
      <4> QED BY <2>4, <4>2, <4>3 DEF Settled, NoDecoderFirst
    <3>7. Settled(reach)'
      BY <1>1, <2>1, <2>2, <2>4, <3>1, <3>2, <3>3, <3>4, <3>5, <3>6 DEF Settled
    <3>8. unshown' \in 0..ShownBound(reach)
      BY <1>2, <2>1, <3>3
    <3> QED BY <1>4, <1>5, <1>6, <3>7, <3>8 DEF ShownInv
  <2>5. CASE RushedInv
    <3>1. PICK n \in 0..ChanMax : Rushed(n)
      BY <2>5 DEF RushedInv
    <3>2. n >= 1 /\ Intakes /\ unshown + sleep + Spare(n + 1) <= SettleBound
      BY <1>1, <1>8, <3>1 DEF Rushed
    <3>3. \A i \in 1..Len(chan') : chan'[i] = Decoder => i <= n
      BY <3>1, PassedInHand DEF Rushed
    <3>4. Intakes'
      <4>1. 1 \in 1..Len(chan) /\ Len(chan') = Len(chan) /\ chan' \in Seq({Decoder} \cup Packets)
        BY <3>2, EmptySeq, PassedInHand DEF Intakes, Typed, WorldTyped
      <4>2. chan' # <<>> /\ (chan'[1] = Decoder <=> chan[1] = Decoder)
        BY <4>1, EmptySeq, PassedInHand
      <4>3. has_room' <=> has_room
        <5>1. /\ Len(pacing') = Len(pacing) /\ 1 \in Int
              /\ \A i \in 1..Len(pacing) : pacing'[i].pts = pacing[i].pts - 1
          BY PassedInHand
        <5> QED BY <5>1, SpanKept
      <4> QED BY <3>2, <4>2, <4>3 DEF Intakes
    <3> DEFINE s == sleep - 1
    <3>5. Spare(n + 1) \in Nat /\ Spare(n + 1) >= WakeLag
      BY <3>1, BoundsTyped
    <3>6. s \in Int /\ sleep' = s /\ u + s + Spare(n + 1) <= SettleBound /\ u <= SettleBound
      BY <1>1, <1>2, <2>1, <3>2, <3>5
    <3>7. u <= ShownBound(reach)
      BY <1>2, <2>1, <3>6
    <3> HIDE DEF s
    <3>8. unshown' + sleep' + Spare(n + 1) <= SettleBound
      BY <2>1, <3>6
    <3>9. Rushed(n)'
      BY <1>1, <2>2, <3>1, <3>2, <3>3, <3>4, <3>8 DEF Rushed
    <3>10. unshown' \in 0..ShownBound(reach)
      BY <1>2, <2>1, <3>7
    <3> QED BY <1>4, <1>5, <1>6, <3>9, <3>10 DEF ShownInv, RushedInv
  <2> QED BY <1>8, <2>3, <2>4, <2>5 DEF ShownInv
<1> QED
  BY <1>7, <1>8

(* A clear leaves nothing in hand.                                         *)
LEMMA TakeClearShown ==
  ASSUME Typed, Typed', NEW reach \in Nat, ShownInv(reach), take_clear
  PROVE  ShownInv(reach)'
<1>1. /\ UNCHANGED <<chan, unshown, timeline_reset, stage, sleep>>
      /\ clear_pending /\ clear_pending' = FALSE /\ stage = "asleep"
      /\ pacing' = <<>> /\ waited' = 0
  BY DEF take_clear, cycle
<1>2. unshown' \in 0..WakeLag
  <2>1. sleep \in -WakeLag..MaxWait /\ unshown + sleep <= 0 /\ unshown \in Nat
    BY <1>1 DEF ShownInv, WakeInv
  <2> QED BY <1>1, <2>1, BoundsTyped
<1>3. Len(pacing') = 0
  BY <1>1
<1>4. InHandInv(reach)'
  BY <1>1, <1>3 DEF ShownInv, InHandInv
<1>5. WakeInv' /\ CandidateInv' /\ waited' >= 0
  BY <1>1 DEF ShownInv, WakeInv, CandidateInv
<1> QED
  BY <1>1, <1>2, <1>4, <1>5, ChangedShown

(* A step of a cycle that leaves the head where it is.                     *)
LEMMA AwakeShown ==
  ASSUME Typed, Typed', NEW reach \in Nat, ShownInv(reach),
         UNCHANGED <<unshown, clear_pending, audio_present, playout>>,
         stage' # "asleep", ~clear_pending, ~timeline_reset', InHandInv(reach)', CandidateInv',
         waited' \in Nat,
         anchor_pending' =>
           /\ anchor_pending
           /\ Awaits' => UNCHANGED <<anchor_wait, waited>>
           /\ RushedInv => RushedInv'
           /\ Settled(reach) => /\ pacing' # <<>> /\ pacing'[1] = pacing[1] /\ HeadDue' >= HeadDue
                                /\ playout_offset' = playout_offset /\ ~timeline_reset /\ ~Awaits'
                                /\ NoDecoderFirst'
  PROVE  ShownInv(reach)'
<1>1. WakeInv'
  BY DEF WakeInv
<1>2. unshown' \in 0..ShownBound(reach) /\ waited' >= 0
  BY DEF ShownInv
<1>3. ASSUME anchor_pending', Fresh PROVE Fresh'
  <2>1. Awaits' => Awaits /\ UNCHANGED <<anchor_wait, waited>>
    BY <1>3 DEF Awaits
  <2>2. AwaitInv'
    BY <1>3, <2>1, Zenon DEF Fresh, AwaitInv
  <2> QED BY <1>3, <2>2 DEF Fresh
<1>4. ASSUME anchor_pending', Settled(reach) PROVE Settled(reach)'
  <2>1. /\ pacing' # <<>> /\ pacing'[1] = pacing[1] /\ HeadDue' >= HeadDue
        /\ playout_offset' = playout_offset /\ ~Awaits' /\ NoDecoderFirst'
    BY <1>4
  <2>2. HeadDue >= Slack - WakeLag /\ HeadDue \in Int /\ HeadDue' \in Int
    <3>1. HeadDue \in Int
      BY <1>4, HeadDueTyped DEF Settled
    <3>2. HeadDue' = pacing'[1].pts + pacing'[1].offset + delay_ns(delay', pacing'[1].offset)
      BY DEF HeadDue, Due, due_ns
    <3>3. pacing[1].pts \in Int /\ pacing[1].offset \in Int
      BY <1>4, HeadDueTyped DEF Settled
    <3>4. delay' \in Delays
      BY DEF Typed, ThreadTyped, SoundDelay
    <3>5. delay_ns(delay', pacing[1].offset) \in 0..MaxDelay
      BY <3>3, <3>4, DelayInBounds
    <3> QED BY <1>4, <2>1, <3>1, <3>2, <3>3, <3>5, DelayAssumption DEF Settled
  <2>3. HeadDue' >= Slack - WakeLag
    BY <2>1, <2>2, ConstantsTyped, BoundsTyped
  <2> QED BY <1>4, <2>1, <2>3 DEF Settled, Agrees
<1>5. anchor_pending' => Fresh' \/ RushedInv' \/ Settled(reach)'
  BY <1>3, <1>4 DEF ShownInv
<1> QED
  BY <1>1, <1>2, <1>5 DEF ShownInv

LEMMA BeginCycleShown ==
  ASSUME Typed, Typed', NEW reach \in Nat, ShownInv(reach), BeginCycle
  PROVE  ShownInv(reach)'
<1>1. /\ UNCHANGED <<unshown, chan, clear_pending, audio_present, playout, anchor_pending>>
      /\ UNCHANGED <<anchor_wait, waited, pacing, held>>
      /\ stage' = "intake" /\ ~clear_pending /\ timeline_reset' = FALSE
      /\ slack' = emit_slack_ns /\ (~timeline_reset => delay' = delay)
  BY DEF BeginCycle, obs, schedule, anchor
<1>2. InHandInv(reach)' /\ CandidateInv' /\ waited' \in Nat
  BY <1>1 DEF ShownInv, InHandInv, CandidateInv, emit_slack_ns, Typed, ThreadTyped
<1>3. (Awaits' <=> Awaits) /\ playout_offset' = playout_offset /\ (has_room' <=> has_room)
  BY <1>1 DEF Awaits, playout_offset, has_room, span_ns, at_hard_ceiling
<1>4. ASSUME Settled(reach)
      PROVE  /\ pacing' # <<>> /\ pacing'[1] = pacing[1] /\ HeadDue' >= HeadDue
             /\ ~timeline_reset /\ ~Awaits' /\ NoDecoderFirst'
  <2>1. HeadDue' = HeadDue /\ HeadDue \in Int
    BY <1>1, <1>4, HeadDueTyped DEF Settled, HeadDue, Due
  <2> QED BY <1>1, <1>3, <1>4, <2>1 DEF Settled, NoDecoderFirst
<1>5. ASSUME NEW n \in 0..ChanMax, Rushed(n) PROVE Rushed(n)'
  <2>1. (Awaits' <=> Awaits) /\ chan' = chan /\ unshown' = unshown /\ stage = "asleep"
    BY <1>1, <1>3 DEF BeginCycle
  <2>2. Intakes' <=> Intakes
    BY <1>1, <1>3 DEF Intakes
  <2>3. CASE unshown + Spare(n + 1) <= SettleBound
    BY <1>1, <1>5, <2>1, <2>3 DEF Rushed
  <2>4. CASE n >= 1 /\ Intakes /\ unshown + sleep + Spare(n + 1) <= SettleBound
    <3>1. sleep \in -WakeLag..MaxWait /\ unshown \in Nat
      BY <2>1 DEF ShownInv, WakeInv
    <3>2. unshown + Spare(n) <= SettleBound
      <4>1. Spare(n) \in Nat /\ Spare(n + 1) = Spare(n) + WakeLag
        BY BoundsTyped
      <4>2. MaxWait \in Nat /\ WakeLag \in Nat /\ SettleBound \in Nat
        BY BoundsTyped
      <4> QED BY <2>4, <3>1, <4>1, <4>2
    <3> QED BY <1>1, <1>5, <2>1, <2>2, <2>4, <3>2 DEF Rushed
  <2> QED BY <1>5, <2>1, <2>3, <2>4 DEF Rushed
<1> QED
  BY <1>1, <1>2, <1>3, <1>4, <1>5, AwakeShown DEF RushedInv

(* What the decoder takes: the first of what waits.                        *)
LEMMA TailOf ==
  ASSUME NEW S, NEW s \in Seq(S), s # <<>>
  PROVE  /\ Len(Tail(s)) = Len(s) - 1 /\ Len(s) \in Nat \ {0}
         /\ \A i \in 1..Len(Tail(s)) : Tail(s)[i] = s[i + 1] /\ i + 1 \in 1..Len(s)
<1>1. /\ Tail(s) \in Seq(S) /\ Len(Tail(s)) = Len(s) - 1 /\ Len(s) \in Nat
      /\ \A i \in 1..Len(Tail(s)) : Tail(s)[i] = s[i + 1]
  BY HeadTailProperties, LenProperties
<1>2. Len(s) # 0
  BY EmptySeq
<1> QED
  BY <1>1, <1>2

LEMMA TakenInHand ==
  ASSUME Typed, NEW reach \in Nat, InHandInv(reach), chan # <<>>, chan' = Tail(chan)
  PROVE  /\ \A i \in 1..Len(chan') : chan'[i] # Decoder => chan'[i].pts <= 0
         /\ 1 \in 1..Len(chan) /\ Len(chan') <= ChanMax
         /\ (\A i \in 1..Len(chan) : chan[i] # Decoder)
              => \A i \in 1..Len(chan') : chan'[i] # Decoder
<1> DEFINE S == {Decoder} \cup Packets
<1>1. chan \in Seq(S)
  BY DEF Typed, WorldTyped
<1> HIDE DEF S
<1>2. /\ Len(chan') = Len(chan) - 1 /\ Len(chan) \in Nat \ {0}
      /\ \A i \in 1..Len(chan') : chan'[i] = chan[i + 1] /\ i + 1 \in 1..Len(chan)
  BY <1>1, TailOf
<1>3. Len(chan') <= ChanMax
  BY <1>2, BoundsTyped DEF InHandInv
<1> QED
  BY <1>2, <1>3 DEF InHandInv

(* What is taken brings the decoders a place nearer.                       *)
LEMMA RushedTaken ==
  ASSUME Typed, RushedInv, chan # <<>>, chan' = Tail(chan), unshown' = unshown,
         stage # "asleep", stage' # "asleep", ~Awaits'
  PROVE  RushedInv'
<1>1. PICK n \in 0..ChanMax : Rushed(n)
  BY DEF RushedInv
<1>2. /\ Len(chan) \in Nat
      /\ \A i \in 1..Len(chan') : chan'[i] = chan[i + 1] /\ i + 1 \in 1..Len(chan)
  <2> DEFINE S == {Decoder} \cup Packets
  <2>1. chan \in Seq(S)
    BY DEF Typed, WorldTyped
  <2> HIDE DEF S
  <2> QED BY <2>1, TailOf
<1>3. \A i \in 1..Len(chan') : chan'[i] = Decoder => i <= n /\ i <= n - 1
  <2> SUFFICES ASSUME NEW i \in 1..Len(chan'), chan'[i] = Decoder PROVE i <= n /\ i <= n - 1
    OBVIOUS
  <2>1. i + 1 \in 1..Len(chan) /\ chan[i + 1] = Decoder
    BY <1>2
  <2>2. i + 1 <= n
    BY <1>1, <2>1 DEF Rushed
  <2>3. i \in Int /\ n \in Int
    BY BoundsTyped
  <2> QED BY <2>2, <2>3
<1>4. CASE unshown + Spare(n + 1) <= SettleBound
  <2>1. Rushed(n)'
    BY <1>3, <1>4 DEF Rushed
  <2> QED BY <1>1, <2>1 DEF RushedInv
<1>5. CASE n >= 1 /\ unshown + Spare(n) <= SettleBound
  <2> DEFINE m == n - 1
  <2>1. m \in 0..ChanMax /\ m + 1 = n
    BY <1>5, BoundsTyped
  <2>2. \A i \in 1..Len(chan') : chan'[i] = Decoder => i <= m
    BY <1>3
  <2> HIDE DEF m
  <2>3. Rushed(m)'
    BY <1>5, <2>1, <2>2 DEF Rushed
  <2> QED BY <2>1, <2>3 DEF RushedInv
<1> QED
  BY <1>1, <1>4, <1>5 DEF Rushed

LEMMA RushedOn ==
  ASSUME RushedInv, UNCHANGED <<chan, unshown>>, stage # "asleep", stage' # "asleep",
         stage = "intake" => ~Intakes, ~Awaits'
  PROVE  RushedInv'
<1>1. PICK n \in 0..ChanMax : Rushed(n)
  BY DEF RushedInv
<1>2. Rushed(n)'
  BY <1>1 DEF Rushed
<1> QED
  BY <1>1, <1>2 DEF RushedInv

LEMMA NotAwaited == RushedInv => ~Awaits
  BY DEF RushedInv, Rushed

LEMMA AdoptShown ==
  ASSUME Typed, Typed', NEW reach \in Nat, ShownInv(reach), adopt_decoder
  PROVE  ShownInv(reach)'
<1>1. /\ UNCHANGED <<unshown, clear_pending, timeline_reset, audio_present, playout>>
      /\ UNCHANGED <<stage, slack, anchor_pending, anchor_wait, waited, pacing, held>>
      /\ stage \in {"intake", "decode"} /\ chan # <<>> /\ chan[1] = Decoder /\ chan' = Tail(chan)
  BY DEF adopt_decoder, Taking, Takes, obs, schedule, cycle, anchor
<1>2. ~clear_pending /\ ~timeline_reset /\ waited' \in Nat
  BY <1>1 DEF ShownInv, WakeInv, Typed, ThreadTyped
<1>3. InHandInv(reach)'
  BY <1>1, TakenInHand DEF ShownInv, InHandInv
<1>4. CandidateInv'
  BY <1>1 DEF ShownInv, CandidateInv
<1>5. ~Settled(reach)
  BY <1>1, TakenInHand DEF ShownInv, Settled, NoDecoderFirst
<1>6. RushedInv => RushedInv'
  <2>1. Awaits' <=> Awaits
    BY <1>1 DEF Awaits
  <2> QED BY <1>1, <2>1, NotAwaited, RushedTaken
<1> QED
  BY <1>1, <1>2, <1>3, <1>4, <1>5, <1>6, AwakeShown

(* A packet is due no later than the playout, or the fallback, puts it.    *)
LEMMA DecodedInReach ==
  ASSUME Typed, NEW reach \in Nat, \A offset \in Offsets : offset <= reach,
         Higher(TsClamp, TsCap) + AudioLead <= reach,
         NEW pts \in Int, pts <= 0, NEW base \in Int
  PROVE  pts + base_due(pts, base) <= reach
<1>1. CASE playout # None
  <2>1. playout \in Int /\ playout <= reach
    BY <1>1, ConstantsTyped DEF Typed, WorldTyped
  <2>2. base_due(pts, base) = playout
    BY <1>1 DEF base_due
  <2> QED BY <2>1, <2>2
<1>2. CASE playout = None
  <2> DEFINE at == fallback_anchor(pts, base)
             lead == IF audio_present THEN AudioLead ELSE 0
  <2>1. at \in Int /\ at <= Higher(TsClamp, TsCap) /\ Higher(TsClamp, TsCap) \in Nat
    BY ConstantsTyped DEF fallback_anchor, Higher
  <2>2. lead \in Nat /\ lead <= AudioLead /\ AudioLead \in Nat
    BY ConstantsTyped
  <2>3. base_due(pts, base) = at - pts + lead
    BY <1>2 DEF base_due
  <2> HIDE DEF at, lead
  <2> QED BY <2>1, <2>2, <2>3
<1> QED
  BY <1>1, <1>2

LEMMA DecodeShown ==
  ASSUME Typed, Typed', NEW reach \in Nat, \A offset \in Offsets : offset <= reach,
         Higher(TsClamp, TsCap) + AudioLead <= reach, ShownInv(reach), pace_decoded
  PROVE  ShownInv(reach)'
<1>1. /\ UNCHANGED <<unshown, clear_pending, timeline_reset, audio_present, playout>>
      /\ UNCHANGED <<slack, anchor_pending, anchor_wait, waited, held>>
      /\ stage \in {"intake", "decode"} /\ stage' = "decode"
      /\ chan # <<>> /\ chan[1] # Decoder /\ chan' = Tail(chan) /\ has_room
  BY DEF pace_decoded, Taking, Takes, obs, anchor
<1>2. ~clear_pending /\ ~timeline_reset /\ waited' \in Nat
  BY <1>1 DEF ShownInv, WakeInv, Typed, ThreadTyped
<1>3. CandidateInv'
  BY <1>1 DEF ShownInv, CandidateInv
<1> DEFINE packet == chan[1]
           base == IF fallback = None THEN -packet.pts ELSE fallback
           offset == base_due(packet.pts, base)
           frame == [pts |-> packet.pts, need |-> packet.need, offset |-> offset]
<1>4. /\ packet \in Packets /\ packet.pts \in Int /\ packet.pts <= 0 /\ packet.need \in 0..MaxNeed
      /\ base \in Int /\ offset \in Int
  <2>1. packet \in Packets
    BY <1>1, TakenTyped
  <2>2. packet.pts \in Int /\ packet.need \in 0..MaxNeed
    BY <2>1 DEF Packets
  <2>3. packet.pts <= 0
    BY <1>1, TakenInHand DEF ShownInv, InHandInv
  <2> HIDE DEF packet
  <2>4. base \in Int
    <3>1. fallback = None \/ fallback \in Int
      BY DEF Typed, WorldTyped
    <3>2. CASE fallback = None
      BY <2>2, <3>2
    <3>3. CASE fallback # None
      BY <3>1, <3>3
    <3> QED BY <3>2, <3>3
  <2> HIDE DEF base
  <2>5. offset \in Int
    BY <2>2, <2>4, BaseDueTyped
  <2> QED BY <2>1, <2>2, <2>3, <2>4, <2>5
<1>5. packet.pts + offset <= reach
  <2> HIDE DEF packet, base
  <2> QED BY <1>4, DecodedInReach
<1>6. \/ pacing' = Append(pacing, frame) /\ delay' = note_packet(delay)
      \/ UNCHANGED <<pacing, delay>>
  BY DEF pace_decoded
<1>7. frame \in Frames /\ frame.pts = packet.pts /\ frame.offset = offset
  <2> HIDE DEF packet, offset
  <2> QED BY <1>4 DEF Frames
<1> HIDE DEF frame, packet, base, offset
<1>8. /\ Len(pacing) \in Nat
      /\ \A i \in 1..Len(pacing) : pacing'[i] = pacing[i]
      /\ \/ Len(pacing') = Len(pacing)
         \/ Len(pacing') = Len(pacing) + 1 /\ pacing'[Len(pacing) + 1] = frame
      /\ pacing # <<>> => pacing' # <<>>
  <2>1. pacing \in Seq(Frames)
    BY DEF Typed, ThreadTyped
  <2>2. CASE pacing' = Append(pacing, frame)
    BY <1>7, <2>1, <2>2, AppendedChan
  <2>3. CASE UNCHANGED pacing
    BY <2>1, <2>3
  <2> QED BY <1>6, <2>2, <2>3
<1>9. InHandInv(reach)'
  <2>1. \A i \in 1..Len(chan') : chan'[i] # Decoder => chan'[i].pts <= 0
    BY <1>1, TakenInHand DEF ShownInv
  <2>2. ASSUME NEW i \in 1..Len(pacing')
        PROVE  pacing'[i].pts <= 0 /\ pacing'[i].pts + pacing'[i].offset <= reach
    <3>1. CASE i \in 1..Len(pacing)
      BY <1>8, <3>1 DEF ShownInv, InHandInv
    <3>2. CASE i = Len(pacing) + 1 /\ pacing'[i] = frame
      BY <1>4, <1>5, <1>7, <3>2
    <3> QED BY <1>8, <3>1, <3>2
  <2>3. Len(chan') <= ChanMax
    BY <1>1, TakenInHand DEF ShownInv
  <2> QED BY <2>1, <2>2, <2>3 DEF InHandInv
<1>10. ASSUME Settled(reach)
       PROVE  /\ pacing' # <<>> /\ pacing'[1] = pacing[1] /\ HeadDue' >= HeadDue
              /\ playout_offset' = playout_offset /\ ~timeline_reset /\ ~Awaits'
              /\ NoDecoderFirst'
  <2>1. 1 \in 1..Len(pacing) /\ HeadDue \in Int /\ pacing # <<>>
    BY <1>10, HeadDueTyped DEF Settled
  <2>2. delay'.floor = delay.floor
    <3>1. delay \in Delays
      BY DEF Typed, ThreadTyped, SoundDelay
    <3> QED BY <1>6, <3>1 DEF note_packet, Delays
  <2>3. pacing'[1] = pacing[1] /\ pacing' # <<>>
    BY <1>8, <2>1
  <2>4. HeadDue' = HeadDue
    <3>1. delay_ns(delay', pacing[1].offset) = delay_ns(delay, pacing[1].offset)
      BY <2>2, DelayOfTheFloor
    <3> QED BY <2>3, <3>1 DEF HeadDue, Due, due_ns
  <2>5. NoDecoderFirst'
    <3>1. \A i \in 1..Len(chan) : chan[i] # Decoder
      BY <1>1, <1>10 DEF Settled, NoDecoderFirst
    <3>2. \A i \in 1..Len(chan') : chan'[i] # Decoder
      BY <1>1, <3>1, TakenInHand DEF ShownInv
    <3> QED BY <3>2 DEF NoDecoderFirst
  <2>6. (Awaits' <=> Awaits) /\ playout_offset' = playout_offset
    BY <1>1 DEF Awaits, playout_offset
  <2> QED BY <1>10, <2>1, <2>3, <2>4, <2>5, <2>6 DEF Settled
<1>11. RushedInv => RushedInv'
  <2>1. Awaits' <=> Awaits
    BY <1>1 DEF Awaits
  <2> QED BY <1>1, <2>1, NotAwaited, RushedTaken
<1> QED
  BY <1>1, <1>2, <1>3, <1>9, <1>10, <1>11, AwakeShown

LEMMA RescheduleShown ==
  ASSUME Typed, Typed', NEW reach \in Nat, \A offset \in Offsets : offset <= reach,
         ShownInv(reach), pacing_reschedule
  PROVE  ShownInv(reach)'
<1>1. /\ UNCHANGED <<unshown, chan, clear_pending, timeline_reset, audio_present, playout>>
      /\ UNCHANGED <<slack, anchor_pending, anchor_wait, waited>>
      /\ stage \in {"intake", "decode"} /\ stage' = IF anchor_pending THEN "await" ELSE "emit"
      /\ Reschedule(pacing) /\ (anchor_pending => delay' = delay)
  BY DEF pacing_reschedule, Taking, obs, source, schedule, anchor
<1>2. ~clear_pending /\ ~timeline_reset /\ waited' \in Nat
  BY <1>1 DEF ShownInv, WakeInv, Typed, ThreadTyped
<1>3. /\ pacing \in Seq(Frames) /\ playout' = playout
      /\ Len(pacing') = Len(pacing) /\ playout_offset' = playout_offset
      /\ \A i \in 1..Len(pacing) :
           /\ pacing'[i].pts = pacing[i].pts /\ pacing[i].pts \in Int
           /\ Agrees(pacing[i])' /\ (Agrees(pacing[i]) => pacing'[i] = pacing[i])
  <2>1. pacing \in Seq(Frames) /\ playout' = playout
    BY <1>1 DEF Typed, ThreadTyped
  <2> QED BY <1>1, <2>1, Rescheduled DEF Frames
<1>4. InHandInv(reach)'
  BY <1>1, <1>3, RescheduledInHand DEF ShownInv, InHandInv
<1>5. CandidateInv'
  BY <1>1, <1>3 DEF ShownInv, CandidateInv
<1>6. ASSUME Settled(reach), anchor_pending
      PROVE  /\ pacing' # <<>> /\ pacing'[1] = pacing[1] /\ HeadDue' >= HeadDue
             /\ playout_offset' = playout_offset /\ ~timeline_reset /\ ~Awaits'
             /\ NoDecoderFirst'
  <2>1. 1 \in 1..Len(pacing) /\ HeadDue \in Int /\ pacing # <<>> /\ Len(pacing) \in Nat
    BY <1>6, HeadDueTyped DEF Settled
  <2>2. pacing'[1] = pacing[1]
    BY <1>3, <1>6, <2>1 DEF Settled
  <2>3. pacing' # <<>>
    BY <1>3, <2>1, EmptySeq DEF Typed, ThreadTyped
  <2>4. HeadDue' = HeadDue
    BY <1>1, <1>6, <2>2 DEF HeadDue, Due
  <2>5. has_room' <=> has_room
    <3>1. \A i \in 1..Len(pacing) : pacing'[i].pts = pacing[i].pts - 0
      BY <1>3
    <3> QED BY <1>3, <3>1, SpanKept
  <2>6. Awaits' <=> Awaits
    BY <1>1 DEF Awaits
  <2> QED BY <1>1, <1>3, <1>6, <2>1, <2>2, <2>3, <2>4, <2>5, <2>6 DEF Settled, NoDecoderFirst
<1>7. RushedInv => RushedInv'
  <2>1. Awaits' <=> Awaits
    BY <1>1 DEF Awaits
  <2>2. stage = "intake" => ~Intakes
    BY DEF pacing_reschedule, Takes, Intakes
  <2> QED BY <1>1, <2>1, <2>2, NotAwaited, RushedOn
<1> QED
  BY <1>1, <1>2, <1>3, <1>4, <1>5, <1>6, <1>7, AwakeShown

(* A cycle that goes back to sleep because audio has not said yet: the     *)
(* count stays within the sleep before the wait and the wait so far.       *)
LEMMA KeepWaitingShown ==
  ASSUME Typed, Typed', NEW reach \in Nat, ShownInv(reach), KeepWaiting
  PROVE  ShownInv(reach)'
<1>1. /\ UNCHANGED <<unshown, chan, clear_pending, timeline_reset, audio_present, playout>>
      /\ UNCHANGED <<anchor_pending, pacing>>
      /\ stage = "await" /\ stage' = "asleep" /\ anchor_wait' = "waiting"
      /\ anchor_wait # "gave_up" /\ (anchor_wait = "waiting" => waited < Expected) /\ Awaits
  BY DEF KeepWaiting, awaiting_audio_mapping, Awaits, obs, source, schedule
<1>2. /\ unshown \in Nat /\ waited \in Nat /\ anchor_wait \in {"idle", "waiting"}
      /\ MaxWait \in Nat /\ Expected \in Nat /\ WakeLag \in Nat
      /\ WaitBound = 2 * (MaxWait + WakeLag) + Expected
  BY <1>1, BoundsTyped DEF Typed, FlagsTyped, ThreadTyped, ShownInv
<1>3. PICK s \in Nat : sleep' = s /\ s <= MaxWait
  BY <1>2 DEF KeepWaiting
<1>4. PICK w \in Nat : waited' = w /\ w = IF anchor_wait = "waiting" THEN waited ELSE 0
  BY <1>2 DEF KeepWaiting
<1>5. InHandInv(reach)' /\ CandidateInv'
  BY <1>1 DEF ShownInv, InHandInv, CandidateInv
<1>6. WakeInv'
  <2>1. sleep' \in -WakeLag..MaxWait
    BY <1>2, <1>3
  <2> QED BY <1>1, <2>1 DEF ShownInv, WakeInv
<1>7. ASSUME anchor_pending PROVE Fresh'
  <2>1. Fresh
    BY <1>1, <1>7, NotAwaited DEF ShownInv, Settled
  <2>2. CASE anchor_wait = "idle"
    <3>1. unshown <= MaxWait + WakeLag
      BY <1>1, <2>1, <2>2 DEF Fresh, AwaitInv
    <3>2. /\ unshown <= MaxWait + WakeLag + w /\ unshown <= WaitBound
          /\ unshown + s <= WaitBound - WakeLag
      BY <1>2, <1>3, <3>1
    <3>3. AwaitInv'
      BY <1>1, <1>4, <3>2, Zenon DEF AwaitInv
    <3> QED BY <1>1, <1>3, <3>2, <3>3, Zenon DEF Fresh
  <2>3. CASE anchor_wait = "waiting"
    <3>1. unshown <= MaxWait + WakeLag + waited /\ w = waited /\ waited < Expected
      BY <1>1, <1>4, <2>1, <2>3 DEF Fresh, AwaitInv
    <3>2. /\ unshown <= MaxWait + WakeLag + w /\ unshown <= WaitBound
          /\ unshown + s <= WaitBound - WakeLag
      BY <1>2, <1>3, <3>1
    <3>3. AwaitInv'
      BY <1>1, <1>4, <3>2, Zenon DEF AwaitInv
    <3> QED BY <1>1, <1>3, <3>2, <3>3, Zenon DEF Fresh
  <2> QED BY <1>2, <2>2, <2>3
<1>8. waited' >= 0 /\ unshown' \in 0..ShownBound(reach)
  BY <1>1, <1>4 DEF ShownInv
<1> QED
  BY <1>1, <1>5, <1>6, <1>7, <1>8 DEF ShownInv

LEMMA WaitIsOverShown ==
  ASSUME Typed, Typed', NEW reach \in Nat, ShownInv(reach), WaitIsOver
  PROVE  ShownInv(reach)'
<1>1. /\ UNCHANGED <<unshown, chan, clear_pending, timeline_reset, audio_present, playout>>
      /\ UNCHANGED <<slack, anchor_pending, pacing, held, delay>>
      /\ stage = "await" /\ stage' = "settle"
      /\ anchor_wait' = IF ~audio_present THEN anchor_wait
                        ELSE IF playout # None THEN "idle" ELSE "gave_up"
      /\ waited' = IF audio_present THEN 0 ELSE waited
  BY DEF WaitIsOver, obs, source, schedule, floor
<1>2. ~clear_pending /\ ~timeline_reset /\ waited' \in Nat
  BY <1>1 DEF ShownInv, WakeInv, Typed, ThreadTyped
<1>3. ~Awaits'
  BY <1>1 DEF Awaits
<1>4. /\ playout_offset' = playout_offset /\ HeadDue' = HeadDue /\ (has_room' <=> has_room)
  BY <1>1 DEF playout_offset, HeadDue, Due, has_room, span_ns, at_hard_ceiling
<1>5. InHandInv(reach)' /\ CandidateInv'
  BY <1>1, <1>3, <1>4 DEF ShownInv, InHandInv, CandidateInv, Agrees
<1>6. ASSUME Settled(reach) PROVE pacing # <<>> /\ HeadDue' >= HeadDue /\ NoDecoderFirst'
  <2>1. HeadDue \in Int
    BY <1>6, HeadDueTyped DEF Settled
  <2> QED BY <1>1, <1>4, <1>6, <2>1 DEF Settled, NoDecoderFirst
<1>7. RushedInv => RushedInv'
  BY <1>1, <1>3, RushedOn
<1> QED
  BY <1>1, <1>2, <1>3, <1>4, <1>5, <1>6, <1>7, AwakeShown

(* The candidate: a lift of the floor makes it due no sooner, and a head   *)
(* that has been settled on is on time, so that it is not dropped.         *)
LEMMA SettleShown ==
  ASSUME Typed, Typed', NEW reach \in Nat, \A offset \in Offsets : offset <= reach,
         ShownInv(reach), settle_anchor_candidate
  PROVE  ShownInv(reach)'
<1>1. /\ UNCHANGED <<unshown, chan, clear_pending, timeline_reset, audio_present, playout>>
      /\ UNCHANGED <<slack, anchor_pending, anchor_wait, waited>>
      /\ stage = "settle" /\ stage' \in {"settle", "emit"}
  BY DEF settle_anchor_candidate, obs, source, schedule, anchor
<1>2. /\ ~clear_pending /\ ~timeline_reset /\ waited' \in Nat
      /\ (Awaits' <=> Awaits) /\ pacing \in Seq(Frames) /\ playout' = playout
  BY <1>1 DEF ShownInv, WakeInv, Typed, ThreadTyped, Awaits
<1>3. RushedInv => RushedInv'
  BY <1>1, <1>2, NotAwaited, RushedOn
<1>4. CASE UNCHANGED <<pacing, delay, held>>
  <2>1. playout_offset' = playout_offset /\ HeadDue' = HeadDue /\ (has_room' <=> has_room)
    BY <1>1, <1>4 DEF playout_offset, HeadDue, Due, has_room, span_ns, at_hard_ceiling
  <2>2. InHandInv(reach)' /\ CandidateInv'
    BY <1>1, <1>2, <1>4, <2>1 DEF ShownInv, InHandInv, CandidateInv, Agrees
  <2>3. ASSUME Settled(reach)
        PROVE  pacing # <<>> /\ HeadDue' >= HeadDue /\ NoDecoderFirst' /\ ~Awaits'
    <3>1. HeadDue \in Int
      BY <2>3, HeadDueTyped DEF Settled
    <3> QED BY <1>1, <1>2, <2>1, <2>3, <3>1 DEF Settled, NoDecoderFirst
  <2> QED BY <1>1, <1>2, <1>3, <1>4, <2>1, <2>2, <2>3, AwakeShown
<1>5. CASE pacing # <<>> /\ ~UNCHANGED <<pacing, delay, held>>
  <2>1. /\ 1 \in 1..Len(pacing) /\ Len(pacing) \in Nat /\ pacing[1] \in Frames
        /\ pacing[1].offset \in Int /\ pacing[1].need \in Int /\ HeadDue \in Int
        /\ HeadDue = pacing[1].pts + pacing[1].offset + delay_ns(delay, pacing[1].offset)
        /\ pacing[1].pts \in Int
    BY <1>5, HeadDueTyped, ConstantsTyped DEF Frames
  <2>2. /\ delay' = delay \/ delay' = before_anchor(delay, pacing[1].need, pacing[1].offset)
        /\ \/ Reschedule(pacing)
           \/ UNCHANGED held /\ delay'.floor = delay.floor /\ pacing' = pacing
           \/ /\ UNCHANGED held /\ delay'.floor = delay.floor
              /\ pacing' = Tail(pacing) /\ ~OnTime
    BY <1>5 DEF settle_anchor_candidate, Measured
  <2>3. /\ delay_ns(delay', pacing[1].offset) >= delay_ns(delay, pacing[1].offset)
        /\ delay_ns(delay', pacing[1].offset) \in Int /\ delay_ns(delay, pacing[1].offset) \in Int
    <3>1. SoundDelay(delay) /\ delay \in Delays /\ delay' \in Delays
      BY DEF Typed, ThreadTyped, SoundDelay
    <3>2. delay_ns(delay, pacing[1].offset) \in 0..MaxDelay
          /\ delay_ns(delay', pacing[1].offset) \in 0..MaxDelay
      BY <2>1, <3>1, DelayInBounds
    <3> QED BY <2>1, <2>2, <3>1, <3>2, CandidateOnlyRaises, DelayAssumption
  <2>4. ASSUME Settled(reach) PROVE OnTime
    <3>1. HeadDue >= -Tick
      <4>1. WakeLag \in Nat /\ WakeLag <= Tick /\ Slack \in Nat
        BY PacingAssumption, DelayAssumption
      <4> QED BY <2>1, <2>4, <4>1, DelayAssumption DEF Settled
    <3>2. OnTime <=> -HeadDue <= Tick
      BY DEF OnTime, HeadDue
    <3> QED BY <2>1, <3>1, <3>2, DelayAssumption
  <2>5. CASE Reschedule(pacing)
    <3>1. /\ Len(pacing') = Len(pacing) /\ playout_offset' = playout_offset
          /\ \A i \in 1..Len(pacing) :
               /\ pacing'[i].pts = pacing[i].pts /\ pacing[i].pts \in Int
               /\ Agrees(pacing[i])' /\ (Agrees(pacing[i]) => pacing'[i] = pacing[i])
      BY <1>2, <2>5, Rescheduled DEF Frames
    <3>2. InHandInv(reach)'
      BY <1>1, <1>2, <2>5, RescheduledInHand DEF ShownInv, InHandInv
    <3>3. CandidateInv'
      BY <1>1, <1>2, <3>1 DEF ShownInv, CandidateInv
    <3>4. ASSUME Settled(reach)
          PROVE  /\ pacing' # <<>> /\ pacing'[1] = pacing[1] /\ HeadDue' >= HeadDue
                 /\ NoDecoderFirst' /\ ~Awaits'
      <4>1. pacing'[1] = pacing[1] /\ pacing' # <<>>
        <5>1. pacing'[1] = pacing[1]
          BY <2>1, <3>1, <3>4 DEF Settled
        <5>2. pacing' # <<>>
          BY <2>1, <3>1, EmptySeq DEF Typed, ThreadTyped
        <5> QED BY <5>1, <5>2
      <4>2. HeadDue' = pacing[1].pts + pacing[1].offset + delay_ns(delay', pacing[1].offset)
        BY <4>1 DEF HeadDue, Due, due_ns
      <4>3. HeadDue' >= HeadDue
        BY <2>1, <2>3, <4>2
      <4>4. has_room' <=> has_room
        <5>1. \A i \in 1..Len(pacing) : pacing'[i].pts = pacing[i].pts - 0
          BY <3>1
        <5>2. Len(pacing') = Len(pacing) /\ 0 \in Int
          BY <3>1
        <5> QED BY <5>1, <5>2, SpanKept
      <4> QED BY <1>1, <1>2, <1>3, <3>4, <4>1, <4>3, <4>4 DEF Settled, NoDecoderFirst
    <3> QED BY <1>1, <1>2, <1>3, <3>1, <3>2, <3>3, <3>4, AwakeShown
  <2>6. CASE UNCHANGED held /\ delay'.floor = delay.floor /\ pacing' = pacing
    <3>1. playout_offset' = playout_offset /\ (has_room' <=> has_room)
      BY <1>1, <2>6 DEF playout_offset, has_room, span_ns, at_hard_ceiling
    <3>2. InHandInv(reach)' /\ CandidateInv'
      BY <1>1, <1>2, <2>6, <3>1 DEF ShownInv, InHandInv, CandidateInv, Agrees
    <3>3. HeadDue' >= HeadDue
      <4>1. HeadDue' = pacing[1].pts + pacing[1].offset + delay_ns(delay', pacing[1].offset)
        BY <2>6 DEF HeadDue, Due, due_ns
      <4> QED BY <2>1, <2>3, <4>1
    <3>4. ASSUME Settled(reach) PROVE NoDecoderFirst' /\ ~Awaits'
      BY <1>1, <1>2, <1>3, <3>1, <3>4 DEF Settled, NoDecoderFirst
    <3> QED BY <1>1, <1>2, <1>3, <1>5, <2>6, <3>1, <3>2, <3>3, <3>4, AwakeShown
  <2>7. CASE UNCHANGED held /\ pacing' = Tail(pacing) /\ ~OnTime
    <3>1. ~Settled(reach)
      BY <2>4, <2>7
    <3>2. \A i \in 1..Len(pacing') : pacing'[i] = pacing[i + 1] /\ i + 1 \in 1..Len(pacing)
      BY <1>2, <1>5, <2>7, TailOf
    <3>3. playout_offset' = playout_offset
      BY <1>1, <2>7 DEF playout_offset
    <3>4. InHandInv(reach)'
      BY <1>1, <3>2 DEF ShownInv, InHandInv
    <3>5. CandidateInv'
      BY <1>1, <1>2, <3>2, <3>3 DEF ShownInv, CandidateInv, Agrees
    <3> QED BY <1>1, <1>2, <1>3, <3>1, <3>4, <3>5, AwakeShown
  <2> QED BY <2>2, <2>5, <2>6, <2>7
<1>6. CASE pacing = <<>> /\ ~UNCHANGED <<pacing, delay, held>>
  BY <1>6 DEF settle_anchor_candidate
<1> QED
  BY <1>4, <1>5, <1>6

(* The frame that anchors ends the count; one that follows changes none of *)
(* it.                                                                     *)
LEMMA EmitShown ==
  ASSUME Typed, Typed', NEW reach \in Nat, \A offset \in Offsets : offset <= reach,
         ShownInv(reach), pacing_emit_due
  PROVE  ShownInv(reach)'
<1>1. /\ UNCHANGED <<unshown, chan, clear_pending, timeline_reset, audio_present, playout>>
      /\ UNCHANGED <<stage, waited>> /\ stage = "emit" /\ pacing # <<>>
      /\ pacing' = Tail(pacing) \/ Reschedule(Tail(pacing))
      /\ ~anchor_pending'
  <2>1. ~anchor_pending'
    BY Zenon DEF pacing_emit_due
  <2> QED BY <2>1 DEF pacing_emit_due, Emits, source, schedule, cycle
<1>2. ~clear_pending /\ ~timeline_reset /\ waited' \in Nat /\ playout' = playout
  BY <1>1 DEF ShownInv, WakeInv, Typed, ThreadTyped
<1>3. /\ pacing \in Seq(Frames) /\ Tail(pacing) \in Seq(Frames)
      /\ \A i \in 1..Len(Tail(pacing)) : Tail(pacing)[i] = pacing[i + 1] /\ i + 1 \in 1..Len(pacing)
  <2>1. pacing \in Seq(Frames)
    BY DEF Typed, ThreadTyped
  <2> QED BY <1>1, <2>1, TailOf, HeadOfPacing
<1>4. \A i \in 1..Len(Tail(pacing)) :
        Tail(pacing)[i].pts <= 0 /\ Tail(pacing)[i].pts + Tail(pacing)[i].offset <= reach
  BY <1>3 DEF ShownInv, InHandInv
<1>5. \A i \in 1..Len(pacing') : pacing'[i].pts <= 0 /\ pacing'[i].pts + pacing'[i].offset <= reach
  <2>1. CASE pacing' = Tail(pacing)
    BY <1>4, <2>1
  <2>2. CASE Reschedule(Tail(pacing))
    BY <1>2, <1>3, <1>4, <2>2, RescheduledInHand
  <2> QED BY <1>1, <2>1, <2>2
<1>6. InHandInv(reach)'
  BY <1>1, <1>5 DEF ShownInv, InHandInv
<1>7. CandidateInv'
  BY <1>1 DEF CandidateInv
<1> QED
  BY <1>1, <1>2, <1>6, <1>7, AwakeShown

(* A cycle that ends with a frame in hand has settled on it: the thread    *)
(* sleeps until the frame enters the slack, and no longer.                 *)
LEMMA EndCycleShown ==
  ASSUME Typed, Typed', NEW reach \in Nat, ShownInv(reach), EndCycle
  PROVE  ShownInv(reach)'
<1>1. /\ UNCHANGED <<unshown, chan, clear_pending, timeline_reset, audio_present, playout>>
      /\ UNCHANGED <<anchor_pending, anchor_wait, waited, pacing, held, delay>>
      /\ stage = "emit" /\ stage' = "asleep" /\ ~Emits
      /\ sleep' = IF has_work THEN 0 ELSE sleep_hint
  BY DEF EndCycle, source, schedule, floor
<1>2. /\ ~clear_pending /\ ~timeline_reset /\ waited \in Nat /\ unshown \in Nat
      /\ MaxWait \in Nat /\ WakeLag \in Nat /\ Slack \in Nat /\ Slack - WakeLag \in Int
      /\ WaitBound \in Nat /\ SettleBound \in Nat /\ WaitBound + WakeLag <= SettleBound
      /\ MaxWait + WakeLag <= WaitBound
  <2>1. ~clear_pending /\ ~timeline_reset /\ waited \in Nat /\ unshown \in Nat
    BY <1>1 DEF ShownInv, WakeInv, Typed, ThreadTyped
  <2>2. Slack \in Nat
    BY ConstantsTyped
  <2> QED BY <2>1, <2>2, BoundsTyped
<1>3. sleep_hint \in Int /\ sleep_hint \in 0..MaxWait
  <2> DEFINE tick == IF anchor_pending \/ ~last_frame THEN MaxWait ELSE Lower(NextTick + Slack, MaxWait)
  <2>1. NextTick + Slack \in Nat /\ sleep_hint \in Int
    BY <1>2, SleepHintTyped, ConstantsTyped DEF NextTick, Typed, WorldTyped
  <2>2. tick \in 0..MaxWait /\ tick \in Int
    BY <1>2, <2>1 DEF Lower
  <2>3. sleep_hint = IF pacing = <<>> THEN tick ELSE Lower(tick, Due(pacing[1]) - slack)
    BY DEF sleep_hint
  <2>4. pacing # <<>> => Due(pacing[1]) - slack \in Nat
    <3> SUFFICES ASSUME pacing # <<>> PROVE Due(pacing[1]) - slack \in Nat
      OBVIOUS
    <3>1. Due(pacing[1]) \in Int /\ slack \in Int
      BY HeadOfPacing DEF Typed, ThreadTyped
    <3>2. ~(Due(pacing[1]) <= slack)
      BY <1>1 DEF Emits
    <3> QED BY <3>1, <3>2
  <2> HIDE DEF tick
  <2>5. pacing # <<>> => Lower(tick, Due(pacing[1]) - slack) \in 0..MaxWait
    BY <1>2, <2>2, <2>4 DEF Lower
  <2> QED BY <2>1, <2>2, <2>3, <2>5
<1>4. PICK s \in Nat : sleep' = s /\ s <= MaxWait /\ (has_work => s = 0) /\ (~has_work => s = sleep_hint)
  BY <1>1, <1>2, <1>3
<1>5. InHandInv(reach)' /\ CandidateInv'
  BY <1>1 DEF ShownInv, InHandInv, CandidateInv
<1>6. WakeInv'
  <2>1. sleep' \in -WakeLag..MaxWait
    BY <1>2, <1>4
  <2> QED BY <1>1, <1>2, <2>1 DEF WakeInv
<1>7. waited' >= 0 /\ unshown' \in 0..ShownBound(reach)
  BY <1>1 DEF ShownInv
<1>8. /\ (Awaits' <=> Awaits) /\ playout_offset' = playout_offset
      /\ HeadDue' = HeadDue /\ (has_room' <=> has_room)
  BY <1>1 DEF Awaits, playout_offset, HeadDue, Due, has_room, span_ns, at_hard_ceiling
<1>9. ASSUME anchor_pending PROVE ~Awaits /\ slack = Slack
  BY <1>1, <1>9 DEF ShownInv, CandidateInv
<1>10. pacing # <<>> => HeadDue \in Int /\ HeadDue > slack
  <2>1. SUFFICES ASSUME pacing # <<>> PROVE HeadDue \in Int /\ HeadDue > slack
    OBVIOUS
  <2>2. HeadDue \in Int /\ slack \in Int
    BY <2>1, HeadDueTyped DEF Typed, ThreadTyped
  <2>3. ~(HeadDue <= slack)
    BY <1>1, <2>1 DEF Emits, HeadDue
  <2> QED BY <2>2, <2>3
<1>11. ASSUME anchor_pending, unshown + s <= WaitBound - WakeLag \/ pacing = <<>>, unshown <= WaitBound
       PROVE  Fresh'
  <2>1. AwaitInv'
    BY <1>8, <1>9, <1>11 DEF AwaitInv
  <2> QED BY <1>1, <1>4, <1>11, <2>1, Zenon DEF Fresh
<1>12. ASSUME anchor_pending, pacing # <<>>, Agrees(pacing[1]), NoDecoderFirst,
              unshown + pacing[1].pts + pacing[1].offset <= SettleBound + reach
       PROVE  Settled(reach)'
  <2>1. HeadDue \in Int /\ HeadDue > Slack
    BY <1>9, <1>10, <1>12
  <2>2. s <= HeadDue - Slack
    <3>1. CASE has_work
      BY <1>2, <1>4, <2>1, <3>1
    <3>2. CASE ~has_work
      <4>1. sleep_hint <= HeadDue - Slack
        BY <1>9, <1>12, SleepHintTyped DEF HeadDue
      <4> QED BY <1>4, <3>2, <4>1
    <3> QED BY <3>1, <3>2
  <2>3. NoDecoderFirst'
    BY <1>1, <1>8, <1>12 DEF NoDecoderFirst
  <2>4. Agrees(pacing[1])'
    BY <1>1, <1>8, <1>12 DEF Agrees
  <2>5. HeadDue' >= Slack - WakeLag /\ sleep' <= HeadDue' - Slack
    BY <1>2, <1>4, <1>8, <2>1, <2>2
  <2>6. unshown' + pacing'[1].pts + pacing'[1].offset <= SettleBound + reach
    BY <1>1, <1>12
  <2> QED BY <1>1, <1>2, <1>8, <1>9, <1>12, <2>3, <2>4, <2>5, <2>6 DEF Settled
<1>13. ASSUME NEW n \in 0..ChanMax, anchor_pending, ~Awaits', \A i \in 1..Len(chan) : chan[i] = Decoder => i <= n,
              unshown + Spare(n + 1) <= SettleBound, pacing = <<>> \/ (has_work /\ ~NoDecoderFirst)
       PROVE  RushedInv'
  <2>1. CASE pacing = <<>>
    <3>1. Rushed(n)'
      BY <1>1, <1>13, <2>1 DEF Rushed
    <3> QED BY <3>1 DEF RushedInv
  <2>2. CASE has_work /\ ~NoDecoderFirst
    <3>1. PICK i \in 1..Len(chan) : chan[i] = Decoder
      BY <2>2 DEF NoDecoderFirst
    <3>2. n >= 1
      <4>1. i <= n /\ Len(chan) \in Nat
        BY <1>13, <3>1 DEF Typed, WorldTyped
      <4> QED BY <4>1, <1>13, BoundsTyped
    <3>3. Intakes' /\ s = 0
      <4>1. has_room' <=> has_room
        BY <1>8
      <4> QED BY <1>1, <1>2, <1>4, <2>2, <4>1 DEF has_work, Intakes
    <3>4. unshown' + sleep' + Spare(n + 1) <= SettleBound
      <4>1. unshown' + sleep' = unshown
        BY <1>1, <1>2, <1>4, <3>3
      <4> QED BY <1>13, <4>1
    <3>5. Rushed(n)'
      BY <1>1, <1>13, <3>2, <3>3, <3>4 DEF Rushed
    <3> QED BY <3>5 DEF RushedInv
  <2> QED BY <1>13, <2>1, <2>2
<1>14. ASSUME anchor_pending, unshown <= SettleBound, pacing # <<>>, unshown # 0,
              ~has_work \/ NoDecoderFirst
       PROVE  Settled(reach)'
  <2>1. 1 \in 1..Len(pacing) /\ pacing[1].pts \in Int /\ pacing[1].offset \in Int
    BY <1>14, HeadDueTyped
  <2>2. Agrees(pacing[1]) /\ pacing[1].pts + pacing[1].offset <= reach
    BY <1>1, <1>14, <2>1 DEF ShownInv, CandidateInv, InHandInv
  <2>3. unshown + pacing[1].pts + pacing[1].offset <= SettleBound + reach
    BY <1>2, <1>14, <2>1, <2>2
  <2>4. NoDecoderFirst
    <3>1. chan = <<>> => Len(chan) = 0
      OBVIOUS
    <3> QED BY <1>14, <3>1 DEF has_work, Intakes, NoDecoderFirst
  <2> QED BY <1>12, <1>14, <2>2, <2>3, <2>4
<1>15. ASSUME anchor_pending PROVE Fresh' \/ RushedInv' \/ Settled(reach)'
  <2>1. ~Awaits'
    BY <1>8, <1>9, <1>15
  <2>2. CASE Settled(reach)
    BY <1>12, <1>15, <2>2 DEF Settled
  <2>3. CASE unshown = 0
    <3>1. unshown + s <= WaitBound - WakeLag /\ unshown <= WaitBound
      BY <1>2, <1>4, <2>3
    <3> QED BY <1>11, <1>15, <3>1
  <2>4. CASE Fresh /\ unshown # 0
    <3>1. unshown <= WaitBound /\ unshown <= SettleBound
      BY <1>2, <2>4 DEF Fresh
    <3>2. CASE pacing = <<>>
      BY <1>11, <1>15, <3>1, <3>2
    <3>3. CASE has_work /\ ~NoDecoderFirst
      <4>1. /\ ChanMax \in 0..ChanMax /\ WaitBound + Spare(ChanMax + 1) <= SettleBound
            /\ Spare(ChanMax + 1) \in Nat
        BY BoundsTyped
      <4>2. unshown + Spare(ChanMax + 1) <= SettleBound
        BY <1>2, <3>1, <4>1
      <4>3. \A i \in 1..Len(chan) : chan[i] = Decoder => i <= ChanMax
        <5>1. Len(chan) \in Nat /\ Len(chan) <= ChanMax /\ ChanMax \in Nat
          BY BoundsTyped DEF ShownInv, InHandInv, Typed, WorldTyped
        <5> QED BY <5>1
      <4> QED BY <1>13, <1>15, <2>1, <3>3, <4>1, <4>2, <4>3
    <3> QED BY <1>14, <1>15, <2>4, <3>1, <3>2, <3>3
  <2>5. CASE RushedInv /\ unshown # 0
    <3>1. PICK n \in 0..ChanMax : Rushed(n)
      BY <2>5 DEF RushedInv
    <3>2. /\ unshown + Spare(n + 1) <= SettleBound
          /\ \A i \in 1..Len(chan) : chan[i] = Decoder => i <= n
      BY <1>1, <3>1 DEF Rushed
    <3>3. unshown <= SettleBound
      <4>1. Spare(n + 1) \in Nat
        BY BoundsTyped
      <4> QED BY <1>2, <3>2, <4>1
    <3>4. CASE pacing = <<>> \/ (has_work /\ ~NoDecoderFirst)
      BY <1>13, <1>15, <2>1, <3>2, <3>4
    <3> QED BY <1>14, <1>15, <2>5, <3>3, <3>4
  <2> QED BY <1>15, <2>2, <2>3, <2>4, <2>5 DEF ShownInv
<1> QED
  BY <1>1, <1>5, <1>6, <1>7, <1>15 DEF ShownInv

(* Video in hand is shown within Patience of the last change, whether      *)
(* audio primes, never does, or has stopped (awaiting_audio_mapping,       *)
(* settle_anchor_candidate, sleep_hint): for every stream, floor and       *)
(* playout offset, and every bound as long as the sleep before the wait    *)
(* for audio, the wait, the sleep that ends it, how far ahead of its       *)
(* arrival a frame may be due, the most the floor may add, and the lag of  *)
(* the wake-ups on the way: of the two sleeps, of the head's, and of as    *)
(* many cycles as it takes to adopt the decoders that wait in the channel. *)
THEOREM VideoIsShown ==
  ASSUME NEW reach \in Nat, \A offset \in Offsets : offset <= reach,
         Higher(TsClamp, TsCap) + AudioLead <= reach,
         2 * MaxWait + Expected + reach + MaxDelay + (ChanMax + 4) * WakeLag <= Patience
  PROVE  PacingSpec => []ShownInTime
<1>1. PacingInit => ShownInv(reach)
  <2> SUFFICES ASSUME PacingInit PROVE ShownInv(reach)
    OBVIOUS
  <2>1. /\ chan = <<Decoder>> /\ pacing = <<>> /\ ~clear_pending /\ ~timeline_reset
        /\ stage = "asleep" /\ sleep = 0 /\ waited = 0 /\ unshown = 0 /\ anchor_wait = "idle"
    BY DEF PacingInit
  <2>2. /\ MaxWait \in Nat /\ WakeLag \in Nat /\ WaitBound \in Nat /\ SettleBound \in Nat
        /\ ChanMax >= 1 /\ MaxWait + WakeLag <= WaitBound /\ ShownBound(reach) \in Nat
    BY BoundsTyped, ConstantsTyped DEF ShownBound
  <2>3. InHandInv(reach)
    BY <2>1, <2>2, Len(<<>>) = 0, Len(<<Decoder>>) = 1 DEF InHandInv
  <2>4. WakeInv /\ CandidateInv
    BY <2>1, <2>2 DEF WakeInv, CandidateInv
  <2>5. Fresh
    BY <2>1, <2>2 DEF Fresh, AwaitInv
  <2> QED BY <2>1, <2>2, <2>3, <2>4, <2>5 DEF ShownInv
<1>2. Typed /\ Typed' /\ ShownInv(reach) /\ [PacingNext]_pacing_vars => ShownInv(reach)'
  <2> SUFFICES ASSUME Typed, Typed', ShownInv(reach), [PacingNext]_pacing_vars
               PROVE  ShownInv(reach)'
    OBVIOUS
  <2>1. CASE Pass
    BY <2>1, PassShown
  <2>2. CASE RenderTick
    BY <2>2, AsideShown DEF RenderTick
  <2>3. CASE Cycle
    BY <2>3, TakeClearShown, BeginCycleShown, AdoptShown, DecodeShown, RescheduleShown,
       KeepWaitingShown, WaitIsOverShown, SettleShown, EmitShown, EndCycleShown DEF Cycle
  <2>4. CASE Push \/ ResetTimeline
    BY <2>4, PushShown, ResetTimelineShown
  <2>5. CASE \E offset \in Offsets : PublishOffset(offset)
    BY <2>5, PublishShown
  <2>6. CASE \E blank, audio \in BOOLEAN : Reconnect(blank, audio)
    BY <2>6, ReconnectShown
  <2>7. CASE UNCHANGED pacing_vars
    BY <2>7, AsideShown DEF pacing_vars, obs
  <2> QED
    BY <2>1, <2>2, <2>3, <2>4, <2>5, <2>6, <2>7 DEF PacingNext
<1>3. ShownInv(reach) => ShownInTime
  <2>1. ShownBound(reach) \in Nat /\ ShownBound(reach) <= Patience /\ Patience \in Nat
    <3>1. /\ WakeLag \in Nat /\ ChanMax \in Nat /\ MaxWait \in Nat /\ Expected \in Nat
          /\ WaitBound = 2 * (MaxWait + WakeLag) + Expected
      BY BoundsTyped
    <3>2. ShownBound(reach) = WaitBound + (ChanMax + 1) * WakeLag + reach + MaxDelay + WakeLag
      BY DEF ShownBound, SettleBound, Spare
    <3> DEFINE lags == ChanMax * WakeLag
    <3>3. lags \in Nat /\ (ChanMax + 1) * WakeLag = lags + WakeLag
      BY <3>1
    <3>4. (ChanMax + 4) * WakeLag = lags + 4 * WakeLag
      BY <3>1
    <3> HIDE DEF lags
    <3> QED BY <3>1, <3>2, <3>3, <3>4, ConstantsTyped, PacingAssumption
  <2> QED BY <2>1 DEF ShownInv, ShownInTime
<1> QED
  BY <1>1, <1>2, <1>3, PacingTyped, PTL DEF PacingSpec

-----------------------------------------------------------------------------
(* The playback speed, for every settings, level and run of cycles.        *)
CONSTANTS DrainStuck, DrainProgress
Speed == INSTANCE SpeedControl

(* Induction, on the numbers that a set holds.                             *)
LEMMA Reached ==
  ASSUME NEW n \in Nat, NEW S, 0 \in S, \A k \in 0..(n - 1) : k \in S => k + 1 \in S
  PROVE  \A k \in 0..n : k \in S
<1> DEFINE Missing == {k \in 0..n : k \notin S}
<1> SUFFICES ASSUME Missing # {} PROVE FALSE
  OBVIOUS
<1>0. Missing \in SUBSET Nat
  OBVIOUS
<1> HIDE DEF Missing
<1>1. PICK q \in Missing : \A r \in Missing : q <= r
  BY <1>0, LeastOf
<1>2. q \in 0..n /\ q \notin S /\ q # 0 /\ q - 1 \in 0..(n - 1)
  BY <1>1 DEF Missing
<1>3. q - 1 \in S
  <2>1. q - 1 \notin Missing
    BY <1>0, <1>1, <1>2
  <2>2. q - 1 \in 0..n
    BY <1>2
  <2> QED BY <2>1, <2>2 DEF Missing
<1>4. q \in S
  <2>1. (q - 1) + 1 = q
    BY <1>2
  <2> QED BY <1>2, <1>3, <2>1
<1> QED
  BY <1>2, <1>4

(* A run of steps from a start, one after another, exists: what a function *)
(* defined by recursion needs before anything can be said of it.           *)
HasRun(n, S, start, step) ==
  \E f \in [0..n -> S] : f[0] = start /\ \A k \in 1..n : f[k] = step[k][f[k - 1]]

LEMMA Iterates ==
  ASSUME NEW n \in Nat, NEW S, NEW start \in S, NEW step \in [1..n -> [S -> S]]
  PROVE  HasRun(n, S, start, step)
<1> DEFINE Does(m, f) == f[0] = start /\ \A k \in 1..m : f[k] = step[k][f[k - 1]]
           Good == {m \in 0..n : \E f \in [0..m -> S] : Does(m, f)}
<1>1. 0 \in Good
  <2> DEFINE f == [k \in 0..0 |-> start]
  <2>1. f \in [0..0 -> S] /\ f[0] = start
    OBVIOUS
  <2>2. Does(0, f)
    <3>1. 1..0 = {}
      OBVIOUS
    <3> QED BY <2>1, <3>1
  <2>3. 0 \in 0..n
    OBVIOUS
  <2> QED BY <2>1, <2>2, <2>3
<1>2. ASSUME NEW m \in 0..(n - 1), m \in Good PROVE m + 1 \in Good
  <2>1. PICK f \in [0..m -> S] : Does(m, f)
    BY <1>2
  <2> DEFINE g == [k \in 0..(m + 1) |-> IF k <= m THEN f[k] ELSE step[m + 1][f[m]]]
  <2>2. g \in [0..(m + 1) -> S]
    <3>1. step[m + 1][f[m]] \in S
      OBVIOUS
    <3> QED BY <3>1
  <2>3. g[0] = start
    BY <2>1
  <2>4. ASSUME NEW k \in 1..(m + 1) PROVE g[k] = step[k][g[k - 1]]
    <3>1. k - 1 \in 0..m /\ k - 1 \in 0..(m + 1)
      OBVIOUS
    <3>4. g[k - 1] = f[k - 1]
      BY <3>1
    <3>2. CASE k <= m
      <4>1. k \in 1..m /\ g[k] = f[k]
        BY <3>2
      <4> QED BY <2>1, <3>4, <4>1
    <3>3. CASE k = m + 1
      <4>1. g[k] = step[m + 1][f[m]] /\ k - 1 = m
        BY <3>3
      <4> QED BY <3>3, <3>4, <4>1
    <3> QED BY <3>2, <3>3
  <2> HIDE DEF g
  <2>5. m + 1 \in 0..n
    OBVIOUS
  <2>6. Does(m + 1, g)
    BY <2>3, <2>4
  <2> QED
    BY <2>2, <2>5, <2>6
<1>3. n \in Good
  <2> HIDE DEF Good
  <2>1. \A m \in 0..(n - 1) : m \in Good => m + 1 \in Good
    BY <1>2
  <2>2. \A m \in 0..n : m \in Good
    BY <1>1, <2>1, Reached
  <2> QED BY <2>2
<1> QED
  BY <1>3 DEF HasRun

(* Chunks of two frames or more at the speeds the controller makes, and    *)
(* sums that have lost nothing.                                            *)
Chunks == {n \in Nat : n >= 2} \X (980..1150)
Sums == [asked : Int, exact : Int, frac : -500..500]
Balanced == {s \in Sums : s.asked + s.frac = s.exact}

(* One more chunk loses nothing.                                           *)
LEMMA AskedKeeps ==
  ASSUME NEW sum \in Balanced, NEW chunk \in Chunks
  PROVE  Speed!Asked(sum, chunk) \in Balanced
<1> DEFINE frames == chunk[1]  speed == chunk[2]
           exact == (frames * 1000000) \div speed
           want == exact + sum.frac
           asked == (want + 500) \div 1000
<1>1. frames \in Nat /\ frames >= 2 /\ speed \in 980..1150
  BY SMT DEF Chunks
<1>2. sum.asked \in Int /\ sum.exact \in Int /\ sum.frac \in -500..500 /\ sum.asked + sum.frac = sum.exact
  BY SMT DEF Balanced, Sums
<1> HIDE DEF frames, speed
<1>3. exact \in Nat /\ exact >= 1001
  <2>1. exact \in Int /\ frames * 1000000 < (exact + 1) * speed
    BY <1>1, SMT
  <2> HIDE DEF exact
  <2>2. ASSUME exact <= 1000 PROVE FALSE
    <3>1. (exact + 1) * speed <= 1001 * speed
      <4>1. 1001 - (exact + 1) \in Nat
        BY <2>1, <2>2, SMT
      <4>2. (1001 - (exact + 1)) * speed >= 0
        BY <4>1, <1>1, SMT
      <4>3. (1001 - (exact + 1)) * speed = 1001 * speed - (exact + 1) * speed
        BY <2>1, <1>1, SMT
      <4> QED BY <4>2, <4>3, <2>1, <1>1, SMT
    <3>2. frames * 1000000 >= 2000000
      BY <1>1, SMT
    <3> QED BY <1>1, <2>1, <3>1, <3>2, SMT
  <2> QED BY <2>1, <2>2, SMT
<1>4. exact = Speed!Exact(frames, speed)
  BY SMT DEF Speed!Exact
<1> HIDE DEF exact
<1>5. want \in Int /\ asked \in Int /\ asked >= 1 /\ want - asked * 1000 \in -500..499
  <2>1. want \in Int /\ want >= 501
    <3>1. want = exact + sum.frac
      OBVIOUS
    <3> HIDE DEF want
    <3> QED BY <1>2, <1>3, <3>1, SMT
  <2> HIDE DEF want
  <2>2. asked \in Int /\ asked * 1000 <= want + 500 /\ want + 500 < asked * 1000 + 1000
    BY <2>1, SMT
  <2> HIDE DEF asked
  <2> QED BY <2>1, <2>2, SMT
<1> HIDE DEF want, asked
<1>6. Speed!output_frames(sum.frac, frames, speed) = [frames |-> asked, frac |-> want - asked * 1000]
  <2>1. want = Speed!Exact(frames, speed) + sum.frac /\ asked = (want + 500) \div 1000
    BY <1>4, SMT DEF want, asked
  <2>2. Speed!Greater(1, asked) = asked
    BY <1>5, SMT DEF Speed!Greater
  <2>3. Speed!Within(want - asked * 1000, -1000, 1000) = want - asked * 1000
    BY <1>5, SMT DEF Speed!Within, Speed!Greater, Speed!Smaller
  <2> QED BY <2>1, <2>2, <2>3, SMT DEF Speed!output_frames
<1>7. Speed!Asked(sum, chunk) =
        [asked |-> sum.asked + 1000 * asked, exact |-> sum.exact + exact, frac |-> want - asked * 1000]
  BY <1>4, <1>6, SMT DEF Speed!Asked, frames, speed
<1>8. want = exact + sum.frac
  BY DEF want
<1> QED
  BY <1>2, <1>3, <1>5, <1>7, <1>8, SMT DEF Balanced, Sums

(* After any number of chunks, at any speeds, the frames asked for are     *)
(* within half a frame of what the speeds make (SpeedCarry).               *)
THEOREM CarryLosesNothing == \A chunks \in Seq(Chunks) : Speed!CarryIsExact(chunks)
<1> SUFFICES ASSUME NEW chunks \in Seq(Chunks) PROVE Speed!CarryIsExact(chunks)
  OBVIOUS
<1> DEFINE n == Len(chunks)
           none == [asked |-> 0, exact |-> 0, frac |-> 0]
           step == [k \in 1..n |-> [sum \in Balanced |-> Speed!Asked(sum, chunks[k])]]
           Is(a) == a = [k \in 0..n |-> IF k = 0 THEN none ELSE Speed!Asked(a[k - 1], chunks[k])]
<1>1. n \in Nat /\ none \in Balanced
  BY SMT DEF Balanced, Sums
<1>2. step \in [1..n -> [Balanced -> Balanced]]
  <2>1. \A k \in 1..n : chunks[k] \in Chunks
    OBVIOUS
  <2> QED BY <2>1, AskedKeeps
<1> HIDE DEF none
<1> HIDE DEF step
<1>3. PICK f \in [0..n -> Balanced] : f[0] = none /\ \A k \in 1..n : f[k] = step[k][f[k - 1]]
  <2>1. HasRun(n, Balanced, none, step)
    BY <1>1, <1>2, Iterates
  <2> QED BY <2>1 DEF HasRun
<1>4. Is(f)
  <2>1. \A k \in 0..n : f[k] = IF k = 0 THEN none ELSE Speed!Asked(f[k - 1], chunks[k])
    BY <1>1, <1>3 DEF step
  <2> QED BY <1>3, <2>1
<1>5. Is(Speed!Carried(chunks))
  BY <1>4, Zenon DEF Speed!Carried, none
<1> DEFINE a == Speed!Carried(chunks)
<1> HIDE DEF a
<1>6. a[0] = none /\ \A k \in 1..n : a[k] = Speed!Asked(a[k - 1], chunks[k])
  BY <1>1, <1>5 DEF a
<1> DEFINE S == {k \in 0..n : a[k] \in Balanced}
<1>7. n \in S
  <2>1. 0 \in S
    BY <1>1, <1>6
  <2>2. ASSUME NEW k \in 0..(n - 1), k \in S PROVE k + 1 \in S
    <3>1. k + 1 \in 1..n /\ a[k + 1] = Speed!Asked(a[k], chunks[k + 1]) /\ chunks[k + 1] \in Chunks
      BY <1>1, <1>6
    <3> QED BY <2>2, <3>1, AskedKeeps
  <2> HIDE DEF S
  <2>3. \A k \in 0..(n - 1) : k \in S => k + 1 \in S
    BY <2>2
  <2>4. \A k \in 0..n : k \in S
    BY <1>1, <2>1, <2>3, Reached
  <2> QED BY <1>1, <2>4
<1>8. a[n] \in Balanced
  BY <1>7
<1> QED
  <2>1. a[n].frac \in -500..500 /\ a[n].asked + a[n].frac = a[n].exact
    BY <1>8 DEF Balanced, Sums
  <2> QED BY <2>1 DEF Speed!CarryIsExact, a

(* The quotient of a multiple grows with it.                               *)
LEMMA Quotients ==
  ASSUME NEW whole \in Nat, NEW span \in Nat, span > 0
  PROVE  /\ \A y \in Int : (whole * y) \div span \in Int
         /\ \A y, z \in Int : y <= z => (whole * y) \div span <= (whole * z) \div span
         /\ (whole * span) \div span = whole
         /\ (whole * (-span)) \div span = -whole
         /\ (whole * 0) \div span = 0
<1>1. ASSUME NEW y \in Int, NEW z \in Int, y <= z
      PROVE  (whole * y) \div span <= (whole * z) \div span
  <2>1. whole * y \in Int /\ whole * z \in Int /\ whole * y <= whole * z
    <3>1. whole * (z - y) >= 0
      BY <1>1, SMT
    <3>2. whole * (z - y) = whole * z - whole * y
      BY SMT
    <3>3. whole * y \in Int /\ whole * z \in Int
      BY SMT
    <3> QED BY <3>1, <3>2, <3>3, SMT
  <2> DEFINE p == whole * y
             q == whole * z
             less == p \div span
             more == q \div span
  <2>2. p \in Int /\ q \in Int /\ p <= q
    BY <2>1
  <2> HIDE DEF p, q
  <2>3. /\ less \in Int /\ less * span <= p
        /\ more \in Int /\ q < more * span + span
    BY <2>2, SMT
  <2> HIDE DEF less, more
  <2>4. ASSUME less >= more + 1 PROVE FALSE
    <3>1. (less - more - 1) * span >= 0
      BY <2>3, <2>4, SMT
    <3>2. (less - more - 1) * span = less * span - more * span - span
      BY <2>3, SMT
    <3> QED BY <2>2, <2>3, <3>1, <3>2, SMT
  <2> QED BY <2>3, <2>4, SMT DEF less, more, p, q
<1>2. \A y \in Int : (whole * y) \div span \in Int
  <2> SUFFICES ASSUME NEW y \in Int PROVE (whole * y) \div span \in Int
    OBVIOUS
  <2> DEFINE p == whole * y
  <2>1. p \in Int
    BY SMT
  <2> HIDE DEF p
  <2>2. p \div span \in Int
    BY <2>1, SMT
  <2> QED BY <2>2 DEF p
<1>3. (whole * span) \div span = whole
  BY SMT
<1>4. (whole * (-span)) \div span = -whole
  <2>1. whole * (-span) = (-whole) * span
    BY SMT
  <2> DEFINE minus == -whole
  <2>2. minus \in Int
    BY SMT
  <2> HIDE DEF minus
  <2>3. (minus * span) \div span = minus
    BY <2>2, SMT
  <2> QED BY <2>1, <2>3 DEF minus
<1>5. (whole * 0) \div span = 0
  BY SMT
<1> QED
  BY <1>1, <1>2, <1>3, <1>4, <1>5

(* A share of the whole stays within it, and grows with the part.          *)
LEMMA Shares ==
  ASSUME NEW part \in Nat, NEW span \in Int, NEW whole \in Nat
  PROVE  /\ Speed!Share(part, span, whole) \in 0..whole
         /\ part = span /\ span > 0 => Speed!Share(part, span, whole) = whole
         /\ \A less \in 0..part : Speed!Share(less, span, whole) <= Speed!Share(part, span, whole)
<1>1. CASE span <= 0
  BY <1>1, SMT DEF Speed!Share
<1>2. CASE span > 0
  <2> DEFINE cut(x) == Speed!Smaller(x, span)
             share(y) == (whole * y) \div span
  <2>1. \A x \in Nat : cut(x) \in 0..span /\ Speed!Share(x, span, whole) = share(cut(x))
    BY <1>2, SMT DEF Speed!Share, Speed!Smaller
  <2>2. \A x \in 0..part : cut(x) <= cut(part)
    BY <1>2, SMT DEF Speed!Smaller
  <2>3. part = span => cut(part) = span
    BY <1>2, SMT DEF Speed!Smaller
  <2>4. /\ \A y \in Int : share(y) \in Int
        /\ \A y, z \in Int : y <= z => share(y) <= share(z)
        /\ share(span) = whole /\ share(0) = 0
    <3>1. span \in Nat
      BY <1>2, SMT
    <3> QED BY <1>2, <3>1, Quotients
  <2> HIDE DEF cut, share
  <2>5. \A x \in 0..part : cut(x) \in Int /\ 0 <= cut(x) /\ cut(x) <= span
    BY <1>2, <2>1, SMT
  <2>6. \A x \in 0..part : share(cut(x)) <= share(cut(part))
    BY <2>2, <2>4, <2>5, SMT
  <2>7. share(cut(part)) \in 0..whole
    <3>1. cut(part) \in Int /\ 0 <= cut(part) /\ cut(part) <= span
      BY <2>5, SMT
    <3>2. share(0) <= share(cut(part)) /\ share(cut(part)) <= share(span) /\ share(cut(part)) \in Int
      BY <2>4, <3>1, SMT
    <3> QED BY <2>4, <3>2, SMT
  <2> QED BY <2>1, <2>3, <2>4, <2>6, <2>7, SMT
<1> QED
  BY <1>1, <1>2, SMT

(* The limits of the speed, and of what the settings make.                 *)
Marks == [min : Nat, target : Nat, max : Nat]
Ceilings == {c \in Nat : c >= Speed!One + Speed!AUDIO_SPEED_DEADBAND_SLOPE}

LEMMA Limits ==
  /\ Speed!One \in Nat /\ Speed!AUDIO_SPEED_MIN \in Nat /\ Speed!AUDIO_SPEED_DEADBAND_SLOPE \in Nat
  /\ Speed!AUDIO_SPEED_DEADBAND_MS = 20
  /\ Speed!AUDIO_SPEED_MIN <= Speed!One - Speed!AUDIO_SPEED_DEADBAND_SLOPE
<1>1. Speed!AUDIO_SPEED_MIN \in Nat /\ Speed!AUDIO_SPEED_DEADBAND_SLOPE \in Nat /\ Speed!One \in Nat
  BY SMT DEF Speed!One, Speed!AUDIO_SPEED_MIN, Speed!AUDIO_SPEED_DEADBAND_SLOPE
<1>2. Speed!AUDIO_SPEED_MIN <= Speed!One - Speed!AUDIO_SPEED_DEADBAND_SLOPE
  BY SMT DEF Speed!One, Speed!AUDIO_SPEED_MIN, Speed!AUDIO_SPEED_DEADBAND_SLOPE
<1> QED
  BY <1>1, <1>2 DEF Speed!AUDIO_SPEED_DEADBAND_MS

(* What is kept within limits is within them.                              *)
LEMMA Kept ==
  ASSUME NEW x \in Int, NEW low \in Int, NEW high \in Int, low <= high
  PROVE  Speed!Within(x, low, high) \in low..high
BY SMT DEF Speed!Within, Speed!Greater, Speed!Smaller

(* Whatever the sliders say, the watermarks are usable and the ceiling is  *)
(* clear of the deadband (Watermarks::derive, catchup_speed_max).          *)
LEMMA Settings ==
  ASSUME NEW target \in Int, NEW percent \in Int
  PROVE  /\ Speed!derive(target) \in Marks
         /\ Speed!derive(target).max = Speed!derive(target).target + 200
         /\ Speed!catchup_speed_max(percent) \in Ceilings
<1>1. Speed!catchup_speed_max(percent) \in Ceilings
  <2> DEFINE p == Speed!Within(percent, 2, 15)
  <2>1. p \in 2..15
    <3>1. 2 \in Int /\ 15 \in Int /\ 2 <= 15
      OBVIOUS
    <3> QED BY <3>1, Kept
  <2>2. Speed!One \div 100 \in Nat /\ 2 * (Speed!One \div 100) >= Speed!AUDIO_SPEED_DEADBAND_SLOPE
    BY SMT DEF Speed!One, Speed!AUDIO_SPEED_DEADBAND_SLOPE
  <2> DEFINE part == Speed!One \div 100
  <2>3. Speed!catchup_speed_max(percent) = Speed!One + p * part
    BY DEF Speed!catchup_speed_max
  <2>4. part \in Nat /\ 2 * part >= Speed!AUDIO_SPEED_DEADBAND_SLOPE
    BY <2>2
  <2> HIDE DEF p, part
  <2>5. p * part \in Nat /\ p * part >= 2 * part
    <3>1. (p - 2) * part >= 0
      BY <2>1, <2>4, SMT
    <3>2. (p - 2) * part = p * part - 2 * part
      BY <2>1, <2>4, SMT
    <3> QED BY <2>1, <2>4, <3>1, <3>2, SMT
  <2> QED BY <2>3, <2>4, <2>5, Limits, SMT DEF Ceilings
<1> DEFINE usable == IF target <= 0 THEN 120 ELSE Speed!Within(target, 20, 8000)
<1>2. usable \in Nat
  <2> DEFINE high == 8000
  <2>1. 20 \in Int /\ high \in Int /\ 20 <= high
    BY SMT
  <2>2. usable = IF target <= 0 THEN 120 ELSE Speed!Within(target, 20, high)
    OBVIOUS
  <2> HIDE DEF high, usable
  <2>3. Speed!Within(target, 20, high) \in 20..high
    BY <2>1, Kept
  <2> QED BY <2>1, <2>2, <2>3, SMT
<1>3. Speed!derive(target) = [min |-> Speed!Greater(usable \div 2, 20), target |-> usable, max |-> usable + 200]
  BY DEF Speed!derive
<1> HIDE DEF usable
<1>4. Speed!Greater(usable \div 2, 20) \in Nat
  BY <1>2, SMT DEF Speed!Greater
<1> QED
  BY <1>1, <1>2, <1>3, <1>4, SMT DEF Marks

(* The three lines of the ramp.                                            *)
Slow(ms, wm) ==
  Speed!Share(wm.target - 20 - ms, wm.target - 20 - wm.min,
              Speed!One - Speed!AUDIO_SPEED_DEADBAND_SLOPE - Speed!AUDIO_SPEED_MIN)
Fast(ms, wm, max_speed) ==
  Speed!Share(ms - (wm.target + 20), wm.max - (wm.target + 20),
              max_speed - (Speed!One + Speed!AUDIO_SPEED_DEADBAND_SLOPE))
Flat(ms, wm) == (Speed!AUDIO_SPEED_DEADBAND_SLOPE * (ms - wm.target)) \div 20

LEMMA Ramps ==
  ASSUME NEW wm \in Marks, NEW max_speed \in Ceilings, NEW ms \in Int
  PROVE  /\ ms < wm.target - 20 =>
               /\ Slow(ms, wm) \in 0..(Speed!One - Speed!AUDIO_SPEED_DEADBAND_SLOPE - Speed!AUDIO_SPEED_MIN)
               /\ Speed!ramp(ms, wm, max_speed) = Speed!One - Speed!AUDIO_SPEED_DEADBAND_SLOPE - Slow(ms, wm)
         /\ ms > wm.target + 20 =>
               /\ Fast(ms, wm, max_speed) \in 0..(max_speed - (Speed!One + Speed!AUDIO_SPEED_DEADBAND_SLOPE))
               /\ Speed!ramp(ms, wm, max_speed)
                    = Speed!One + Speed!AUDIO_SPEED_DEADBAND_SLOPE + Fast(ms, wm, max_speed)
         /\ ms >= wm.target - 20 /\ ms <= wm.target + 20 =>
               /\ Flat(ms, wm) \in -Speed!AUDIO_SPEED_DEADBAND_SLOPE..Speed!AUDIO_SPEED_DEADBAND_SLOPE
               /\ Speed!ramp(ms, wm, max_speed) = Speed!One + Flat(ms, wm)
<1> DEFINE one == Speed!One
           slope == Speed!AUDIO_SPEED_DEADBAND_SLOPE
           least == Speed!AUDIO_SPEED_MIN
           target == wm.target
<1>1. one \in Nat /\ slope \in Nat /\ least \in Nat /\ least <= one - slope
  BY Limits
<1>2. target \in Nat /\ wm.min \in Nat /\ wm.max \in Nat /\ max_speed \in Nat /\ max_speed >= one + slope
  BY DEF Marks, Ceilings
<1>3. Speed!ramp(ms, wm, max_speed) =
        IF ms < target - 20 THEN one - slope - Slow(ms, wm)
        ELSE IF ms > target + 20 THEN one + slope + Fast(ms, wm, max_speed)
        ELSE one + Flat(ms, wm)
  BY Limits DEF Speed!ramp, Slow, Fast, Flat
<1>4. ms < target - 20 => Slow(ms, wm) \in 0..(one - slope - least)
  <2> SUFFICES ASSUME ms < target - 20 PROVE Slow(ms, wm) \in 0..(one - slope - least)
    OBVIOUS
  <2> HIDE DEF one, slope, least, target
  <2>1. target - 20 - ms \in Nat /\ target - 20 - wm.min \in Int /\ one - slope - least \in Nat
    BY <1>1, <1>2, SMT
  <2>2. Speed!Share(target - 20 - ms, target - 20 - wm.min, one - slope - least) \in 0..(one - slope - least)
    BY <2>1, Shares
  <2> QED BY <2>2 DEF Slow, one, slope, least, target
<1>5. ms > target + 20 => Fast(ms, wm, max_speed) \in 0..(max_speed - (one + slope))
  <2> SUFFICES ASSUME ms > target + 20 PROVE Fast(ms, wm, max_speed) \in 0..(max_speed - (one + slope))
    OBVIOUS
  <2> HIDE DEF one, slope, least, target
  <2>1. ms - (target + 20) \in Nat /\ wm.max - (target + 20) \in Int /\ max_speed - (one + slope) \in Nat
    BY <1>1, <1>2, SMT
  <2>2. Speed!Share(ms - (target + 20), wm.max - (target + 20), max_speed - (one + slope))
          \in 0..(max_speed - (one + slope))
    BY <2>1, Shares
  <2> QED BY <2>2 DEF Fast, one, slope, least, target
<1>6. ms >= target - 20 /\ ms <= target + 20 => Flat(ms, wm) \in -slope..slope
  <2> SUFFICES ASSUME ms >= target - 20, ms <= target + 20 PROVE Flat(ms, wm) \in -slope..slope
    OBVIOUS
  <2> HIDE DEF one, slope, least, target
  <2> DEFINE flat(y) == (slope * y) \div 20
  <2>1. /\ \A y \in Int : flat(y) \in Int
        /\ \A y, z \in Int : y <= z => flat(y) <= flat(z)
        /\ flat(20) = slope /\ flat(-20) = -slope
    BY <1>1, Quotients
  <2>2. ms - target \in Int /\ -20 <= ms - target /\ ms - target <= 20 /\ -20 \in Int /\ 20 \in Int
    BY <1>2, SMT
  <2>3. Flat(ms, wm) = flat(ms - target)
    BY DEF Flat, slope, target
  <2> HIDE DEF flat
  <2>4. flat(-20) <= flat(ms - target) /\ flat(ms - target) <= flat(20) /\ flat(ms - target) \in Int
    BY <2>1, <2>2
  <2> QED BY <1>1, <2>1, <2>3, <2>4, SMT
<1> QED
  BY <1>2, <1>3, <1>4, <1>5, <1>6, SMT

(* For any settings and any levels, more audio never plays slower: the     *)
(* ramp goes up from its lower limit, by way of 1.0 at the target, to the  *)
(* Catch-Up Speed (SpeedController::ramp).                                 *)
THEOREM MoreAudioNeverSlower ==
  ASSUME NEW target \in Int, NEW percent \in Int, NEW fills \in SUBSET Int
  PROVE  Speed!RampIsMonotone(Speed!derive(target), Speed!catchup_speed_max(percent), fills)
<1> DEFINE wm == Speed!derive(target)
           max_speed == Speed!catchup_speed_max(percent)
           R(ms) == Speed!ramp(ms, wm, max_speed)
           goal == wm.target
           one == Speed!One
           slope == Speed!AUDIO_SPEED_DEADBAND_SLOPE
           least == Speed!AUDIO_SPEED_MIN
<1>1. wm \in Marks /\ wm.max = goal + 200 /\ max_speed \in Ceilings
  BY Settings
<1> HIDE DEF wm, max_speed
<1>2. /\ one \in Nat /\ slope \in Nat /\ least \in Nat /\ least <= one - slope
      /\ goal \in Nat /\ wm.min \in Nat /\ wm.max \in Nat /\ max_speed \in Nat /\ max_speed >= one + slope
  BY <1>1, Limits DEF Marks, Ceilings
<1>3. \A ms \in Int :
        /\ ms < goal - 20 =>
             Slow(ms, wm) \in 0..(one - slope - least) /\ R(ms) = one - slope - Slow(ms, wm)
        /\ ms > goal + 20 =>
             Fast(ms, wm, max_speed) \in 0..(max_speed - (one + slope)) /\ R(ms) = one + slope + Fast(ms, wm, max_speed)
        /\ ms >= goal - 20 /\ ms <= goal + 20 =>
             Flat(ms, wm) \in -slope..slope /\ R(ms) = one + Flat(ms, wm)
  BY <1>1, Ramps
<1> HIDE DEF R
<1>4. ASSUME NEW a \in Int, NEW b \in Int, a <= b, b < goal - 20 PROVE Slow(b, wm) <= Slow(a, wm)
  <2> DEFINE whole == one - slope - least
             span == goal - 20 - wm.min
             part == goal - 20 - a
             less == goal - 20 - b
  <2> HIDE DEF one, slope, least, goal
  <2>1. whole \in Nat /\ span \in Int /\ part \in Nat /\ less \in 0..part
    BY <1>2, <1>4, SMT
  <2> HIDE DEF whole, span, part, less
  <2>2. Speed!Share(less, span, whole) <= Speed!Share(part, span, whole)
    BY <2>1, Shares
  <2> QED BY <2>2 DEF Slow, whole, span, part, less, goal, one, slope, least
<1>5. ASSUME NEW a \in Int, NEW b \in Int, a <= b, a > goal + 20
      PROVE  Fast(a, wm, max_speed) <= Fast(b, wm, max_speed)
  <2> DEFINE whole == max_speed - (one + slope)
             span == wm.max - (goal + 20)
             part == b - (goal + 20)
             less == a - (goal + 20)
  <2> HIDE DEF one, slope, least, goal
  <2>1. whole \in Nat /\ span \in Int /\ part \in Nat /\ less \in 0..part
    BY <1>2, <1>5, SMT
  <2> HIDE DEF whole, span, part, less
  <2>2. Speed!Share(less, span, whole) <= Speed!Share(part, span, whole)
    BY <2>1, Shares
  <2> QED BY <2>2 DEF Fast, whole, span, part, less, goal, one, slope, least
<1>6. /\ \A a, b \in Int : a <= b => Flat(a, wm) <= Flat(b, wm)
      /\ Flat(goal, wm) = 0
  <2> DEFINE flat(y) == (slope * y) \div 20
  <2>1. /\ \A y, z \in Int : y <= z => flat(y) <= flat(z)
        /\ flat(0) = 0
    BY <1>2, Quotients
  <2>2. \A a \in Int : Flat(a, wm) = flat(a - goal)
    BY DEF Flat
  <2> HIDE DEF flat, goal, slope
  <2>3. \A a, b \in Int : a <= b => a - goal <= b - goal /\ a - goal \in Int /\ b - goal \in Int
    BY <1>2, SMT
  <2>4. goal - goal = 0 /\ goal \in Int
    BY <1>2, SMT
  <2> QED BY <2>1, <2>2, <2>3, <2>4
<1>7. R(wm.max) = max_speed
  <2>1. wm.max \in Int /\ wm.max > goal + 20 /\ wm.max - (goal + 20) \in Nat /\ max_speed - (one + slope) \in Nat
        /\ wm.max - (goal + 20) > 0 /\ wm.max - (goal + 20) \in Int
    <3> HIDE DEF goal, one, slope
    <3> QED BY <1>1, <1>2, SMT
  <2>2. Fast(wm.max, wm, max_speed) = max_speed - (one + slope)
    BY <2>1, Shares DEF Fast
  <2>3. R(wm.max) = one + slope + Fast(wm.max, wm, max_speed)
    BY <1>3, <2>1
  <2> HIDE DEF one, slope
  <2> QED BY <1>2, <2>2, <2>3, SMT
<1> HIDE DEF goal, one, slope, least
<1>8. \A ms \in Int : R(ms) \in least..max_speed
  BY <1>2, <1>3, SMT
<1>9. R(goal) = one
  BY <1>2, <1>3, <1>6, SMT
<1>10. ASSUME NEW a \in Int, NEW b \in Int, a <= b PROVE R(a) <= R(b)
  <2>1. CASE b < goal - 20
    BY <1>2, <1>3, <1>4, <1>10, <2>1, SMT
  <2>2. CASE a > goal + 20
    BY <1>2, <1>3, <1>5, <1>10, <2>2, SMT
  <2>3. CASE a < goal - 20 /\ b >= goal - 20
    BY <1>2, <1>3, <2>3, SMT
  <2>4. CASE a >= goal - 20 /\ a <= goal + 20 /\ b <= goal + 20
    BY <1>2, <1>3, <1>6, <1>10, <2>4, SMT
  <2>5. CASE a >= goal - 20 /\ a <= goal + 20 /\ b > goal + 20
    BY <1>2, <1>3, <2>5, SMT
  <2> QED BY <1>2, <1>10, <2>1, <2>2, <2>3, <2>4, <2>5, SMT
<1>11. Speed!RampIsMonotone(wm, max_speed, fills)
  BY <1>7, <1>8, <1>9, <1>10 DEF R, Speed!RampIsMonotone, goal, one, least
<1> QED
  BY <1>11 DEF wm, max_speed

(* The trim and the drain watch.                                           *)
Trims == [value : -Speed!AUDIO_SPEED_TRIM_MAX..Speed!AUDIO_SPEED_TRIM_MAX, last : Nat]
Loops == [controller : [current : Int, level : Int], trim : Trims]
Tuned == [adaptive : {TRUE}, low_latency : {FALSE}, wm : Marks, max_speed : Ceilings, recovering : BOOLEAN]

(* A cycle of the trim: it moves towards the target only, off no limit and *)
(* in no recovery.                                                         *)
LEMMA TrimStep ==
  ASSUME NEW t \in Trims, NEW ms \in Int, NEW target \in Int, NEW command, NEW max_speed,
         NEW recovering \in BOOLEAN, NEW now \in Nat
  PROVE  LET u == Speed!trim_update(t, ms, target, command, max_speed, recovering, now) IN
         /\ u \in Trims
         /\ u.value > t.value => ~(command >= max_speed - Speed!Slack) /\ ms > target /\ ~recovering
         /\ u.value < t.value => ~(command <= Speed!AUDIO_SPEED_MIN + Speed!Slack) /\ ms < target /\ ~recovering
<1> DEFINE cap == Speed!AUDIO_SPEED_TRIM_MAX
           gain == Speed!AUDIO_SPEED_TRIM_GAIN
           err == ms - target
           elapsed == now - t.last
           step == (err * elapsed) \div gain
           u == Speed!trim_update(t, ms, target, command, max_speed, recovering, now)
           seen == [t EXCEPT !.last = now]
           moved == [seen EXCEPT !.value = Speed!Within(t.value + step, -cap, cap)]
<1>1. cap \in Nat /\ gain \in Nat /\ gain > 0
  BY SMT DEF Speed!AUDIO_SPEED_TRIM_MAX, Speed!AUDIO_SPEED_TRIM_GAIN
<1>2. t.value \in Int /\ -cap <= t.value /\ t.value <= cap /\ t.last \in Nat
      /\ t = [value |-> t.value, last |-> t.last]
  BY <1>1, SMT DEF Trims
<1>3. \/ u = seen
      \/ /\ u = moved /\ elapsed > 0 /\ ~recovering
         /\ ~(command >= max_speed - Speed!Slack /\ step > 0)
         /\ ~(command <= Speed!AUDIO_SPEED_MIN + Speed!Slack /\ step < 0)
  <2>1. now > t.last => elapsed > 0
    BY <1>2, SMT
  <2>2. t.last \in Nat /\ (~(now <= t.last) => now > t.last)
    BY <1>2, SMT
  <2> HIDE DEF step, elapsed, cap
  <2> QED BY <2>1, <2>2 DEF Speed!trim_update, step, elapsed, cap
<1>4. step \in Int /\ (elapsed > 0 => (step > 0 => err > 0) /\ (step < 0 => err < 0))
  <2> HIDE DEF gain
  <2>1. err \in Int /\ elapsed \in Int
    BY <1>2, SMT
  <2> HIDE DEF err, elapsed
  <2> DEFINE product == err * elapsed
  <2>2. product \in Int
    BY <2>1, SMT
  <2>3. elapsed > 0 => (product > 0 => err > 0) /\ (product < 0 => err < 0)
    BY <2>1, SMT
  <2> HIDE DEF product
  <2>4. product \div gain \in Int /\ (product \div gain > 0 => product > 0) /\ (product \div gain < 0 => product < 0)
    BY <1>1, <2>2, SMT
  <2> QED BY <2>3, <2>4 DEF product
<1>5. err > 0 => ms > target
  BY SMT
<1>6. err < 0 => ms < target
  BY SMT
<1> HIDE DEF cap, step, err, elapsed, u, gain
<1> DEFINE value == Speed!Within(t.value + step, -cap, cap)
<1>7. /\ value \in -cap..cap
      /\ value > t.value => step > 0
      /\ value < t.value => step < 0
  <2>1. t.value + step \in Int /\ -cap \in Int /\ -cap <= cap
    BY <1>1, <1>2, <1>4, SMT
  <2>2. value \in -cap..cap
    <3> DEFINE low == -cap
               x == t.value + step
    <3>1. low \in Int /\ cap \in Int /\ low <= cap /\ x \in Int
      BY <1>1, <2>1, SMT
    <3> HIDE DEF low, x
    <3>2. Speed!Within(x, low, cap) \in low..cap
      BY <3>1, Kept
    <3> QED BY <3>2 DEF value, low, x
  <2> QED BY <1>1, <1>2, <1>4, <2>2, SMT DEF Speed!Within, Speed!Greater, Speed!Smaller
<1> HIDE DEF value
<1>8. CASE u = seen
  <2>1. u = [value |-> t.value, last |-> now]
    BY <1>2, <1>8
  <2> QED BY <1>1, <1>2, <2>1, SMT DEF Trims, u, cap
<1>9. CASE u = moved /\ elapsed > 0 /\ ~recovering
             /\ ~(command >= max_speed - Speed!Slack /\ step > 0)
             /\ ~(command <= Speed!AUDIO_SPEED_MIN + Speed!Slack /\ step < 0)
  <2>1. u = [value |-> value, last |-> now]
    BY <1>2, <1>9 DEF value
  <2>2. u.value = value /\ u \in Trims
    BY <1>7, <2>1 DEF Trims, cap
  <2> QED BY <1>4, <1>5, <1>6, <1>7, <1>9, <2>2 DEF u
<1> QED
  BY <1>3, <1>8, <1>9

(* Smoothing and the ramp are whole numbers of their unit.                 *)
LEMMA SmoothInt ==
  ASSUME NEW from \in Int, NEW to \in Int, NEW factor \in Int
  PROVE  Speed!Smoothed(from, to, factor) \in Int
<1> DEFINE part == (to - from) * factor
<1>1. part \in Int
  BY SMT
<1> HIDE DEF part
<1>2. part \div 1000 \in Int
  BY <1>1, SMT
<1> QED
  BY <1>2, SMT DEF Speed!Smoothed, part

(* As above, of the ramp.                                                  *)
LEMMA RampInt ==
  ASSUME NEW wm \in Marks, NEW max_speed \in Ceilings, NEW ms \in Int
  PROVE  Speed!ramp(ms, wm, max_speed) \in Int
<1>1. wm.target \in Int /\ max_speed \in Nat
  BY DEF Marks, Ceilings
<1> QED
  BY <1>1, Limits, Ramps, SMT

(* One cycle: the speed keeps its limits, and the trim moves only towards  *)
(* the target and off no limit.                                            *)
Trimmed(new, loop, settings) ==
  LET level == (new.controller.level + 500) \div 1000
      command == Speed!ramp(level, settings.wm, settings.max_speed) + loop.trim.value
  IN  /\ new \in Loops
      /\ new.controller.current \in Speed!AUDIO_SPEED_MIN..settings.max_speed
      /\ new.trim.value > loop.trim.value =>
           ~(command >= settings.max_speed - Speed!Slack) /\ level > settings.wm.target /\ ~settings.recovering
      /\ new.trim.value < loop.trim.value =>
           ~(command <= Speed!AUDIO_SPEED_MIN + Speed!Slack) /\ level < settings.wm.target /\ ~settings.recovering

(* What a cycle of the whole controller does (SpeedController::update).    *)
LEMMA LoopStep ==
  ASSUME NEW loop \in Loops, NEW ms \in Int, NEW settings \in Tuned, NEW now \in Nat
  PROVE  Trimmed(Speed!update(loop.controller, loop.trim, ms, settings, now), loop, settings)
<1> DEFINE c == loop.controller
           t == loop.trim
           seed == IF c.level < 0 THEN ms * 1000 ELSE c.level
           level == Speed!Smoothed(seed, ms * 1000, Speed!AUDIO_SPEED_LEVEL_SMOOTHING)
           smoothed == (level + 500) \div 1000
           proportional == Speed!ramp(smoothed, settings.wm, settings.max_speed)
           trim == Speed!trim_update(t, smoothed, settings.wm.target, proportional + t.value,
                                     settings.max_speed, settings.recovering, now)
           moved == Speed!Smoothed(c.current, proportional + trim.value, Speed!AUDIO_SPEED_SMOOTHING)
           current == Speed!Within(moved, Speed!AUDIO_SPEED_MIN, settings.max_speed)
           new == Speed!update(c, t, ms, settings, now)
<1>1. c.current \in Int /\ c.level \in Int /\ t \in Trims
  BY DEF Loops
<1>2. /\ settings.adaptive = TRUE /\ settings.low_latency = FALSE /\ settings.wm \in Marks
      /\ settings.max_speed \in Ceilings /\ settings.recovering \in BOOLEAN /\ settings.wm.target \in Int
  <2>1. settings \in [adaptive : {TRUE}, low_latency : {FALSE}, wm : Marks, max_speed : Ceilings, recovering : BOOLEAN]
    BY DEF Tuned
  <2>2. settings.adaptive = TRUE /\ settings.low_latency = FALSE
    BY <2>1, Zenon
  <2>3. settings.wm \in Marks /\ settings.max_speed \in Ceilings
    BY <2>1, Zenon
  <2>4. settings.recovering \in BOOLEAN
    BY <2>1, Zenon
  <2>5. settings.wm.target \in Int
    BY <2>3, SMT DEF Marks
  <2> QED BY <2>2, <2>3, <2>4, <2>5
<1>3. new = [controller |-> [current |-> current, level |-> level], trim |-> trim]
  BY <1>2 DEF Speed!update
<1> HIDE DEF c, t, new
<1>4. level \in Int
  <2>1. seed \in Int /\ ms * 1000 \in Int /\ Speed!AUDIO_SPEED_LEVEL_SMOOTHING \in Int
    BY <1>1, SMT DEF Speed!AUDIO_SPEED_LEVEL_SMOOTHING
  <2> HIDE DEF seed
  <2> QED BY <2>1, SmoothInt
<1> HIDE DEF level
<1>5. smoothed \in Int
  BY <1>4, SMT
<1> HIDE DEF smoothed
<1>6. proportional \in Int
  BY <1>2, <1>5, RampInt
<1>7. /\ trim \in Trims
      /\ trim.value > t.value =>
           ~(proportional + t.value >= settings.max_speed - Speed!Slack) /\ smoothed > settings.wm.target /\ ~settings.recovering
      /\ trim.value < t.value =>
           ~(proportional + t.value <= Speed!AUDIO_SPEED_MIN + Speed!Slack) /\ smoothed < settings.wm.target /\ ~settings.recovering
  <2> DEFINE command == proportional + t.value
  <2> HIDE DEF command, proportional
  <2>1. LET u == Speed!trim_update(t, smoothed, settings.wm.target, command, settings.max_speed, settings.recovering, now)
        IN  /\ u \in Trims
            /\ u.value > t.value =>
                 ~(command >= settings.max_speed - Speed!Slack) /\ smoothed > settings.wm.target /\ ~settings.recovering
            /\ u.value < t.value =>
                 ~(command <= Speed!AUDIO_SPEED_MIN + Speed!Slack) /\ smoothed < settings.wm.target /\ ~settings.recovering
    BY <1>1, <1>2, <1>5, TrimStep
  <2> QED BY <2>1 DEF command
<1>8. current \in Speed!AUDIO_SPEED_MIN..settings.max_speed /\ current \in Int
  <2>1. trim.value \in Int
    <3>1. Speed!AUDIO_SPEED_TRIM_MAX \in Nat
      BY SMT DEF Speed!AUDIO_SPEED_TRIM_MAX
    <3> HIDE DEF trim
    <3> QED BY <1>7, <3>1, SMT DEF Trims
  <2>2. moved \in Int
    <3>1. proportional + trim.value \in Int /\ Speed!AUDIO_SPEED_SMOOTHING \in Int
      <4> HIDE DEF proportional, trim
      <4> QED BY <1>6, <2>1, SMT DEF Speed!AUDIO_SPEED_SMOOTHING
    <3> HIDE DEF proportional, trim
    <3> QED BY <1>1, <3>1, SmoothInt
  <2> HIDE DEF moved
  <2>3. Speed!AUDIO_SPEED_MIN \in Int /\ settings.max_speed \in Int /\ Speed!AUDIO_SPEED_MIN <= settings.max_speed
    BY <1>2, Limits, SMT DEF Ceilings
  <2>4. current \in Speed!AUDIO_SPEED_MIN..settings.max_speed
    BY <2>2, <2>3, Kept
  <2> HIDE DEF current
  <2> QED BY <2>3, <2>4, SMT
<1> HIDE DEF current, trim
<1>9. new \in Loops /\ new.controller.level = level /\ new.controller.current = current /\ new.trim = trim
  BY <1>3, <1>4, <1>7, <1>8 DEF Loops
<1> QED
  BY <1>7, <1>8, <1>9 DEF new, c, t, smoothed, proportional, Trimmed

(* Whatever the settings, the levels and the outages, and however many     *)
(* cycles: the speed never leaves its limits, and the trim is never wound  *)
(* up against one of them (SpeedTrim::update).                             *)
THEOREM TrimNeverWound ==
  ASSUME NEW target \in Int, NEW percent \in Int, NEW run \in Seq(Int \X BOOLEAN), NEW start \in Trims,
         NEW settings \in Tuned, NEW gap \in Nat,
         settings.wm = Speed!derive(target), settings.max_speed = Speed!catchup_speed_max(percent)
  PROVE  Speed!TrimNeverWindsUp(run, start, settings, gap)
<1> DEFINE n == Len(run)
           begin == [controller |-> Speed!NewController, trim |-> start]
           at(k) == start.last + k * gap
           set(k) == [settings EXCEPT !.recovering = run[k][2]]
           Turned(loop, k) == Speed!update(loop.controller, loop.trim, run[k][1], set(k), at(k))
           step == [k \in 1..n |-> [loop \in Loops |-> Turned(loop, k)]]
           a == Speed!Cycles(run, start, settings, gap)
<1>1. n \in Nat /\ begin \in Loops
  <2>1. Speed!NewController \in [current : Int, level : Int]
    BY Limits, SMT DEF Speed!NewController
  <2> QED BY <2>1 DEF Loops
<1>2. \A k \in 1..n : run[k][1] \in Int /\ run[k][2] \in BOOLEAN
  <2> SUFFICES ASSUME NEW k \in 1..n PROVE run[k][1] \in Int /\ run[k][2] \in BOOLEAN
    OBVIOUS
  <2>1. run[k] \in Int \X BOOLEAN
    OBVIOUS
  <2> QED BY <2>1, Zenon
<1>3. \A k \in 1..n : at(k) \in Nat
  <2> SUFFICES ASSUME NEW k \in 1..n PROVE at(k) \in Nat
    OBVIOUS
  <2> DEFINE since == k * gap
  <2>1. start.last \in Nat
    BY DEF Trims
  <2>2. since \in Nat
    <3>1. k \in Nat
      BY SMT
    <3> QED BY <3>1, SMT
  <2> HIDE DEF since
  <2>3. start.last + since \in Nat
    BY <2>1, <2>2, SMT
  <2> QED BY <2>3 DEF since
<1>4. \A k \in 1..n : set(k) \in Tuned /\ set(k).wm = settings.wm /\ set(k).max_speed = settings.max_speed
                      /\ set(k).recovering = run[k][2]
  BY <1>2, Zenon DEF Tuned
<1> HIDE DEF begin, at, set
<1>5. \A k \in 1..n, loop \in Loops : Turned(loop, k) \in Loops
  <2> SUFFICES ASSUME NEW k \in 1..n, NEW loop \in Loops PROVE Turned(loop, k) \in Loops
    OBVIOUS
  <2>1. run[k][1] \in Int /\ set(k) \in Tuned /\ at(k) \in Nat
    BY <1>2, <1>3, <1>4
  <2>2. Trimmed(Turned(loop, k), loop, set(k))
    BY <2>1, LoopStep
  <2> HIDE DEF Turned
  <2> QED BY <2>2 DEF Trimmed
<1>6. step \in [1..n -> [Loops -> Loops]]
  <2> HIDE DEF Turned
  <2> QED BY <1>5
<1> HIDE DEF step
<1>7. PICK f \in [0..n -> Loops] : f[0] = begin /\ \A k \in 1..n : f[k] = step[k][f[k - 1]]
  <2>1. HasRun(n, Loops, begin, step)
    BY <1>1, <1>6, Iterates
  <2> QED BY <2>1 DEF HasRun
<1> DEFINE Is(g) == g = [k \in 0..n |-> IF k = 0 THEN begin ELSE Turned(g[k - 1], k)]
<1>8. Is(f)
  <2>1. \A k \in 1..n : k - 1 \in 0..n /\ step[k] = [loop \in Loops |-> Turned(loop, k)]
    BY <1>1 DEF step
  <2> HIDE DEF Turned
  <2>2. ASSUME NEW k \in 1..n PROVE f[k] = Turned(f[k - 1], k)
    <3>1. f[k] = step[k][f[k - 1]] /\ f[k - 1] \in Loops
      BY <1>7, <2>1
    <3>2. step[k] = [loop \in Loops |-> Turned(loop, k)]
      BY <2>1
    <3> QED BY <3>1, <3>2
  <2>3. \A k \in 0..n : f[k] = IF k = 0 THEN begin ELSE Turned(f[k - 1], k)
    BY <1>1, <1>7, <2>2
  <2> QED BY <1>7, <2>3
<1>9. Is(a)
  BY <1>8, Zenon DEF Speed!Cycles, begin, at, set
<1> HIDE DEF a
<1>10. a[0] = begin /\ \A k \in 1..n : a[k] = Turned(a[k - 1], k)
  <2> HIDE DEF Turned
  <2>1. 0 \in 0..n /\ \A k \in 1..n : k \in 0..n /\ k # 0
    BY <1>1
  <2>2. a = [k \in 0..n |-> IF k = 0 THEN begin ELSE Turned(a[k - 1], k)]
    BY <1>9
  <2>3. \A k \in 0..n : a[k] = IF k = 0 THEN begin ELSE Turned(a[k - 1], k)
    BY <2>2, Zenon
  <2> QED BY <2>1, <2>3
<1> DEFINE S == {k \in 0..n : a[k] \in Loops}
<1>11. \A k \in 0..n : a[k] \in Loops
  <2>1. 0 \in S
    BY <1>1, <1>10
  <2>2. \A k \in 0..(n - 1) : k \in S => k + 1 \in S
    <3> SUFFICES ASSUME NEW k \in 0..(n - 1), k \in S PROVE k + 1 \in S
      OBVIOUS
    <3> HIDE DEF Turned
    <3>1. k + 1 \in 1..n /\ k + 1 \in 0..n /\ (k + 1) - 1 = k
      BY <1>1
    <3> QED BY <1>5, <1>10, <3>1
  <2>3. \A k \in 0..n : k \in S
    <3> HIDE DEF S
    <3> QED BY <1>1, <2>1, <2>2, Reached
  <2> QED BY <2>3
<1> DEFINE Level(k) == (a[k].controller.level + 500) \div 1000
           Command(k) == Speed!ramp(Level(k), settings.wm, settings.max_speed) + a[k - 1].trim.value
<1>12. ASSUME NEW k \in 1..n
       PROVE  /\ a[k].controller.current \in Speed!AUDIO_SPEED_MIN..settings.max_speed
              /\ a[k].trim.value > a[k - 1].trim.value =>
                   /\ ~(Command(k) >= settings.max_speed - Speed!Slack)
                   /\ Level(k) > settings.wm.target /\ ~run[k][2]
              /\ a[k].trim.value < a[k - 1].trim.value =>
                   /\ ~(Command(k) <= Speed!AUDIO_SPEED_MIN + Speed!Slack)
                   /\ Level(k) < settings.wm.target /\ ~run[k][2]
  <2>1. k - 1 \in 0..n /\ a[k - 1] \in Loops
    BY <1>1, <1>11
  <2>2. /\ run[k][1] \in Int /\ set(k) \in Tuned /\ at(k) \in Nat /\ set(k).wm = settings.wm
        /\ set(k).max_speed = settings.max_speed /\ set(k).recovering = run[k][2]
    BY <1>2, <1>3, <1>4
  <2>3. a[k] = Speed!update(a[k - 1].controller, a[k - 1].trim, run[k][1], set(k), at(k))
    BY <1>10
  <2>4. Trimmed(a[k], a[k - 1], set(k))
    BY <2>1, <2>2, <2>3, LoopStep
  <2> QED BY <2>2, <2>4 DEF Trimmed
<1>13. ASSUME NEW k \in 1..n
       PROVE  /\ ~(Command(k) >= settings.max_speed - Speed!Slack) => Command(k) < settings.max_speed - Speed!Slack
              /\ ~(Command(k) <= Speed!AUDIO_SPEED_MIN + Speed!Slack) => Command(k) > Speed!AUDIO_SPEED_MIN + Speed!Slack
  <2>1. a[k] \in Loops /\ a[k - 1] \in Loops
    <3>1. k \in 0..n /\ k - 1 \in 0..n
      BY <1>1
    <3> QED BY <1>11, <3>1
  <2>2. a[k].controller.level \in Int /\ a[k - 1].trim.value \in Int
    <3>1. a[k].controller.level \in Int /\ a[k - 1].trim.value \in -Speed!AUDIO_SPEED_TRIM_MAX..Speed!AUDIO_SPEED_TRIM_MAX
      BY <2>1, Zenon DEF Loops, Trims
    <3>2. Speed!AUDIO_SPEED_TRIM_MAX \in Nat
      BY SMT DEF Speed!AUDIO_SPEED_TRIM_MAX
    <3> QED BY <3>1, <3>2, SMT
  <2>3. Level(k) \in Int
    <3> DEFINE l == a[k].controller.level
    <3>1. l \in Int
      BY <2>2
    <3> HIDE DEF l
    <3>2. (l + 500) \div 1000 \in Int
      BY <3>1, SMT
    <3> QED BY <3>2 DEF l
  <2> HIDE DEF Level
  <2>4. Speed!ramp(Level(k), settings.wm, settings.max_speed) \in Int
    BY <2>3, Settings, RampInt
  <2>5. Command(k) \in Int /\ settings.max_speed \in Int /\ Speed!Slack \in Int /\ Speed!AUDIO_SPEED_MIN \in Int
    <3>1. settings.max_speed \in Int
      BY Settings DEF Ceilings
    <3>2. Speed!Slack \in Int
      BY SMT DEF Speed!Slack
    <3>3. Command(k) \in Int
      BY <2>2, <2>4, SMT
    <3> QED BY <3>1, <3>2, <3>3, Limits
  <2> HIDE DEF Command
  <2>6. /\ ~(Command(k) >= settings.max_speed - Speed!Slack) => Command(k) < settings.max_speed - Speed!Slack
        /\ ~(Command(k) <= Speed!AUDIO_SPEED_MIN + Speed!Slack) => Command(k) > Speed!AUDIO_SPEED_MIN + Speed!Slack
    BY <2>5, SMT
  <2> QED BY <2>6 DEF Command, Level
<1> HIDE DEF Level, Command
<1>14. \A k \in 1..n :
         /\ a[k].controller.current \in Speed!AUDIO_SPEED_MIN..settings.max_speed
         /\ a[k].trim.value > a[k - 1].trim.value =>
              Command(k) < settings.max_speed - Speed!Slack /\ Level(k) > settings.wm.target /\ ~run[k][2]
         /\ a[k].trim.value < a[k - 1].trim.value =>
              Command(k) > Speed!AUDIO_SPEED_MIN + Speed!Slack /\ Level(k) < settings.wm.target /\ ~run[k][2]
  BY <1>12, <1>13
<1> QED
  BY <1>14 DEF Speed!TrimNeverWindsUp, a, Level, Command

(* The drain watch: what it holds, and the four things a cycle does to it. *)
Watches == [since : Nat, fill : Int, warned : Nat, report : BOOLEAN]

Observed(e, d, ms, full, now) ==
  \/ /\ ~full
     /\ e.since = 0 /\ e.fill = d.fill /\ e.warned = d.warned /\ e.report = FALSE
  \/ /\ full /\ (d.since = 0 \/ ms <= d.fill - DrainProgress)
     /\ e.since = now /\ e.fill = ms /\ e.warned = d.warned /\ e.report = FALSE
  \/ /\ full /\ d.since # 0 /\ ~(ms <= d.fill - DrainProgress)
     /\ Speed!Recent(d.since, now) \/ (d.warned # 0 /\ Speed!Recent(d.warned, now))
     /\ e.since = d.since /\ e.fill = d.fill /\ e.warned = d.warned /\ e.report = FALSE
  \/ /\ full /\ d.since # 0 /\ ~(ms <= d.fill - DrainProgress)
     /\ ~Speed!Recent(d.since, now) /\ ~(d.warned # 0 /\ Speed!Recent(d.warned, now))
     /\ e.since = d.since /\ e.fill = d.fill /\ e.warned = now /\ e.report = TRUE

(* These four are all a cycle can do (DrainWatch::observe).                *)
LEMMA WatchStep ==
  ASSUME NEW d \in Watches, NEW ms \in Int, NEW full \in BOOLEAN, NEW now \in Nat
  PROVE  /\ Speed!drain_observe(d, ms, full, now) \in Watches
         /\ Observed(Speed!drain_observe(d, ms, full, now), d, ms, full, now)
<1> DEFINE e == Speed!drain_observe(d, ms, full, now)
           restart == d.since = 0 \/ ms <= d.fill - DrainProgress
           quiet == Speed!Recent(d.since, now) \/ (d.warned # 0 /\ Speed!Recent(d.warned, now))
<1>1. e = IF ~full THEN [[d EXCEPT !.report = FALSE] EXCEPT !.since = 0]
          ELSE IF restart THEN [[d EXCEPT !.report = FALSE] EXCEPT !.since = now, !.fill = ms]
          ELSE IF quiet THEN [d EXCEPT !.report = FALSE]
          ELSE [d EXCEPT !.warned = now, !.report = TRUE]
  BY DEF Speed!drain_observe
<1>2. d = [since |-> d.since, fill |-> d.fill, warned |-> d.warned, report |-> d.report]
      /\ d.since \in Nat /\ d.fill \in Int /\ d.warned \in Nat
  BY DEF Watches
<1> HIDE DEF e
<1>3. CASE ~full
  <2>1. e = [since |-> 0, fill |-> d.fill, warned |-> d.warned, report |-> FALSE]
    BY <1>1, <1>2, <1>3
  <2> QED BY <1>2, <1>3, <2>1 DEF Observed, Watches, e
<1>4. CASE full /\ restart
  <2>1. e = [since |-> now, fill |-> ms, warned |-> d.warned, report |-> FALSE]
    BY <1>1, <1>2, <1>4
  <2>2. e \in Watches
    BY <1>2, <2>1 DEF Watches
  <2>3. e.since = now /\ e.fill = ms /\ e.warned = d.warned /\ e.report = FALSE
    BY <2>1
  <2> QED BY <1>4, <2>2, <2>3, Zenon DEF Observed, e
<1>5. CASE full /\ ~restart /\ quiet
  <2>1. e = [since |-> d.since, fill |-> d.fill, warned |-> d.warned, report |-> FALSE]
    BY <1>1, <1>2, <1>5
  <2>2. e \in Watches
    BY <1>2, <2>1 DEF Watches
  <2>3. e.since = d.since /\ e.fill = d.fill /\ e.warned = d.warned /\ e.report = FALSE
    BY <2>1
  <2> QED BY <1>5, <2>2, <2>3, Zenon DEF Observed, e
<1>6. CASE full /\ ~restart /\ ~quiet
  <2>1. e = [since |-> d.since, fill |-> d.fill, warned |-> now, report |-> TRUE]
    BY <1>1, <1>2, <1>6
  <2>2. e \in Watches
    BY <1>2, <2>1 DEF Watches
  <2>3. e.since = d.since /\ e.fill = d.fill /\ e.warned = now /\ e.report = TRUE
    BY <2>1
  <2> QED BY <1>6, <2>2, <2>3, Zenon DEF Observed, e
<1> QED
  BY <1>3, <1>4, <1>5, <1>6

(* Cycles on a clock that runs forward from no earlier than 1.             *)
Forward == {c \in Seq((Nat \ {0}) \X (BOOLEAN \X Int)) : \A j, k \in 1..Len(c) : j <= k => c[j][1] <= c[k][1]}

(* However long the drain watch runs: no report without DrainStuck of full *)
(* authority and no progress, no two in that time, and none missing of a   *)
(* drain that never comes down (DrainWatch::observe).                      *)
THEOREM StuckDrainsReported ==
  ASSUME DrainStuck \in Nat \ {0}, DrainProgress \in Nat \ {0}, NEW cycles \in Forward
  PROVE  Speed!StuckIsReported(cycles)
<1> DEFINE n == Len(cycles)
           T(k) == cycles[k][1]
           F(k) == cycles[k][2][1]
           L(k) == cycles[k][2][2]
           Watch(d, k) == Speed!drain_observe(d, L(k), F(k), T(k))
           step == [k \in 1..n |-> [d \in Watches |-> Watch(d, k)]]
           a == Speed!Watched(cycles)
<1>1. n \in Nat /\ Speed!NoDrain \in Watches
  BY DEF Forward, Watches, Speed!NoDrain
<1>2. \A k \in 1..n : T(k) \in Nat /\ T(k) # 0 /\ F(k) \in BOOLEAN /\ L(k) \in Int
  <2> SUFFICES ASSUME NEW k \in 1..n PROVE T(k) \in Nat /\ T(k) # 0 /\ F(k) \in BOOLEAN /\ L(k) \in Int
    OBVIOUS
  <2>1. cycles[k] \in (Nat \ {0}) \X (BOOLEAN \X Int)
    BY DEF Forward
  <2>2. T(k) \in Nat \ {0} /\ cycles[k][2] \in BOOLEAN \X Int
    BY <2>1, Zenon
  <2>3. F(k) \in BOOLEAN /\ L(k) \in Int
    BY <2>2, Zenon
  <2> QED BY <2>2, <2>3
<1>3. \A j, k \in 1..n : j <= k => T(j) <= T(k)
  BY DEF Forward
<1> HIDE DEF T, F, L
<1>4. \A k \in 1..n, d \in Watches : Watch(d, k) \in Watches /\ Observed(Watch(d, k), d, L(k), F(k), T(k))
  BY <1>2, WatchStep
<1> HIDE DEF Watch
<1>5. step \in [1..n -> [Watches -> Watches]]
  BY <1>4
<1> HIDE DEF step
<1>6. PICK f \in [0..n -> Watches] : f[0] = Speed!NoDrain /\ \A k \in 1..n : f[k] = step[k][f[k - 1]]
  <2>1. HasRun(n, Watches, Speed!NoDrain, step)
    BY <1>1, <1>5, Iterates
  <2> QED BY <2>1 DEF HasRun
<1> DEFINE Is(g) == g = [k \in 0..n |-> IF k = 0 THEN Speed!NoDrain ELSE Watch(g[k - 1], k)]
<1>7. Is(f)
  <2>1. \A k \in 1..n : k - 1 \in 0..n /\ step[k] = [d \in Watches |-> Watch(d, k)]
    BY <1>1 DEF step
  <2>2. ASSUME NEW k \in 1..n PROVE f[k] = Watch(f[k - 1], k)
    <3>1. f[k] = step[k][f[k - 1]] /\ f[k - 1] \in Watches
      BY <1>6, <2>1
    <3>2. step[k] = [d \in Watches |-> Watch(d, k)]
      BY <2>1
    <3> QED BY <3>1, <3>2
  <2>3. \A k \in 0..n : f[k] = IF k = 0 THEN Speed!NoDrain ELSE Watch(f[k - 1], k)
    BY <1>1, <1>6, <2>2
  <2> QED BY <1>6, <2>3
<1>8. Is(a)
  BY <1>7, Zenon DEF Speed!Watched, Watch, T, F, L
<1> HIDE DEF a
<1>9. a[0] = Speed!NoDrain /\ \A k \in 1..n : a[k] = Watch(a[k - 1], k)
  <2>1. 0 \in 0..n /\ \A k \in 1..n : k \in 0..n /\ k # 0
    BY <1>1
  <2>2. a = [k \in 0..n |-> IF k = 0 THEN Speed!NoDrain ELSE Watch(a[k - 1], k)]
    BY <1>8
  <2>3. \A k \in 0..n : a[k] = IF k = 0 THEN Speed!NoDrain ELSE Watch(a[k - 1], k)
    BY <2>2, Zenon
  <2> QED BY <2>1, <2>3
<1> DEFINE Fell(j, i) == L(i) <= L(j) - DrainProgress
           Since(k) == a[k].since # 0 =>
                         \E j \in 1..k : /\ a[k].since = T(j) /\ a[k].fill = L(j)
                                         /\ \A i \in j..k : F(i) /\ ~Fell(j, i)
           Warned(k) == /\ \A j \in 1..k : a[j].report => a[k].warned # 0 /\ T(j) <= a[k].warned
                        /\ a[k].warned # 0 => \E j \in 1..k : a[j].report /\ T(j) = a[k].warned
           Steady(j, k) == \A i \in j..k : F(i) /\ \A h \in j..i : L(i) >= L(h)
           Timed(k) == \A j \in 1..k : Steady(j, k) =>
                         a[k].since # 0 /\ a[k].since <= T(j) /\ ~(L(j) <= a[k].fill - DrainProgress)
           S == {k \in 0..n : a[k] \in Watches /\ Since(k) /\ Warned(k) /\ Timed(k)}
<1>10. 0 \in S
  <2>1. a[0] \in Watches /\ a[0].since = 0 /\ a[0].warned = 0
    BY <1>1, <1>9 DEF Speed!NoDrain
  <2>2. 1..0 = {} /\ 0 \in 0..n
    BY <1>1
  <2> QED BY <2>1, <2>2
<1>11. ASSUME NEW p \in 0..(n - 1), p \in S PROVE p + 1 \in S
  <2> DEFINE k == p + 1
             d == a[p]
             e == a[k]
  <2>1. k \in 1..n /\ k \in 0..n /\ k - 1 = p /\ p \in Nat /\ k \in Nat /\ k \in 1..k /\ p <= k
    BY <1>1
  <2>2. d \in Watches /\ Since(p) /\ Warned(p) /\ Timed(p)
    BY <1>11
  <2>3. e \in Watches /\ Observed(e, d, L(k), F(k), T(k))
    BY <1>4, <1>9, <2>1, <2>2
  <2>4. T(k) \in Nat /\ T(k) # 0 /\ F(k) \in BOOLEAN /\ L(k) \in Int
    BY <1>2, <2>1
  <2>5. d.since \in Nat /\ d.fill \in Int /\ d.warned \in Nat /\ e.since \in Nat /\ e.fill \in Int /\ e.warned \in Nat
    BY <2>2, <2>3 DEF Watches
  <2>6. \A j \in 1..k : j \in 1..n /\ (j \in 1..p \/ j = k) /\ T(j) \in Nat /\ L(j) \in Int /\ T(j) <= T(k)
    <3>1. \A j \in 1..k : j \in 1..n /\ (j \in 1..p \/ j = k) /\ j <= k
      BY <2>1
    <3> QED BY <1>2, <1>3, <2>1, <3>1
  <2>7. \A j \in 1..p : j \in 1..k
    BY <2>1
  <2>8. \A j \in 1..k : \A i \in j..k : i \in j..p \/ i = k
    BY <2>1
  <2>9. Since(k)
    <3>1. CASE e.since = d.since /\ e.fill = d.fill /\ F(k) /\ ~(L(k) <= d.fill - DrainProgress) /\ d.since # 0
      <4>1. PICK j \in 1..p : /\ d.since = T(j) /\ d.fill = L(j)
                              /\ \A i \in j..p : F(i) /\ ~Fell(j, i)
        BY <2>2, <3>1
      <4>2. j \in 1..k /\ \A i \in j..k : F(i) /\ ~Fell(j, i)
        BY <2>7, <2>8, <3>1, <4>1
      <4> QED BY <3>1, <4>1, <4>2
    <3>2. CASE e.since = T(k) /\ e.fill = L(k) /\ F(k)
      <4>1. \A i \in k..k : i = k
        BY <2>1
      <4>2. ~Fell(k, k)
        BY <2>4
      <4> QED BY <2>1, <3>2, <4>1, <4>2
    <3>3. CASE e.since = 0
      BY <3>3
    <3> QED BY <2>3, <3>1, <3>2, <3>3 DEF Observed
  <2>10. Warned(k)
    <3>1. CASE e.warned = d.warned /\ ~e.report
      <4>1. \A j \in 1..k : a[j].report => j \in 1..p
        BY <2>6, <3>1
      <4> QED BY <2>2, <2>7, <3>1, <4>1
    <3>2. CASE e.warned = T(k) /\ e.report
      BY <2>1, <2>4, <2>6, <3>2
    <3> QED BY <2>3, <3>1, <3>2 DEF Observed
  <2>11. Timed(k)
    <3> SUFFICES ASSUME NEW j \in 1..k, Steady(j, k)
                 PROVE  e.since # 0 /\ e.since <= T(j) /\ ~(L(j) <= e.fill - DrainProgress)
      OBVIOUS
    <3>1. F(k) /\ L(k) >= L(j)
      <4>1. k \in j..k /\ j \in j..k
        BY <2>1
      <4> QED BY <4>1
    <3>2. CASE j = k
      <4>1. d.since # 0 => d.since <= T(k)
        <5>1. \A i \in 1..p : T(i) <= T(k)
          BY <2>6, <2>7
        <5> QED BY <2>2, <5>1
      <4>2. \/ e.since = T(k) /\ e.fill = L(k)
            \/ d.since # 0 /\ ~(L(k) <= d.fill - DrainProgress) /\ e.since = d.since /\ e.fill = d.fill
        BY <2>3, <3>1 DEF Observed
      <4>3. ~(L(k) <= L(k) - DrainProgress)
        BY <2>4
      <4> QED BY <2>4, <3>2, <4>1, <4>2, <4>3
    <3>3. CASE j \in 1..p
      <4>1. Steady(j, p)
        <5>1. \A i \in j..p : i \in j..k
          BY <2>1
        <5> QED BY <5>1
      <4>2. d.since # 0 /\ d.since <= T(j) /\ ~(L(j) <= d.fill - DrainProgress)
        BY <2>2, <3>3, <4>1
      <4>3. ~(L(k) <= d.fill - DrainProgress)
        <5>1. L(j) \in Int
          BY <2>6
        <5>2. DrainProgress \in Int
          OBVIOUS
        <5> QED BY <2>4, <2>5, <3>1, <4>2, <5>1, <5>2
      <4> QED BY <2>3, <3>1, <4>2, <4>3 DEF Observed
    <3> QED BY <2>6, <3>2, <3>3
  <2> QED BY <2>1, <2>3, <2>9, <2>10, <2>11
<1>12. \A k \in 0..n : k \in S
  <2> HIDE DEF S
  <2>1. \A k \in 0..(n - 1) : k \in S => k + 1 \in S
    BY <1>11
  <2> QED BY <1>1, <1>10, <2>1, Reached
<1> DEFINE Only(k) == a[k].report =>
                        /\ \A j \in 1..(k - 1) : a[j].report => T(k) - T(j) >= DrainStuck
                        /\ \E j \in 1..k : T(k) - T(j) >= DrainStuck /\ \A i \in j..k : F(i) /\ L(i) > L(j) - DrainProgress
           Every(k) == (\E j \in 1..k : T(k) - T(j) >= DrainStuck /\ Steady(j, k))
                         => \E j \in 1..k : a[j].report /\ T(k) - T(j) < DrainStuck
<1>13. ASSUME NEW k \in 1..n PROVE Only(k) /\ Every(k)
  <2> DEFINE p == k - 1
             d == a[p]
             e == a[k]
  <2>1. p \in 0..n /\ k \in 0..n /\ p \in Nat /\ k \in 1..k /\ \A j \in 1..p : j \in 1..k
    BY <1>1
  <2>2. /\ d \in Watches /\ Since(p) /\ Warned(p) /\ Timed(p)
        /\ e \in Watches /\ Since(k) /\ Warned(k) /\ Timed(k)
    BY <1>12, <2>1
  <2>3. Observed(e, d, L(k), F(k), T(k))
    BY <1>4, <1>9, <2>2
  <2>4. \A j \in 1..k : T(j) \in Nat /\ L(j) \in Int /\ T(j) <= T(k)
    <3>1. \A j \in 1..k : j \in 1..n /\ j <= k
      OBVIOUS
    <3> QED BY <1>2, <1>3, <3>1
  <2>5. d.since \in Nat /\ d.fill \in Int /\ d.warned \in Nat /\ e.since \in Nat /\ T(k) \in Nat
    BY <1>2, <2>2 DEF Watches
  <2>6. Only(k)
    <3> SUFFICES ASSUME e.report
                 PROVE  /\ \A j \in 1..p : a[j].report => T(k) - T(j) >= DrainStuck
                        /\ \E j \in 1..k : T(k) - T(j) >= DrainStuck /\ \A i \in j..k : F(i) /\ L(i) > L(j) - DrainProgress
      OBVIOUS
    <3>1. /\ d.since # 0 /\ e.since = d.since /\ ~Speed!Recent(d.since, T(k))
          /\ ~(d.warned # 0 /\ Speed!Recent(d.warned, T(k)))
      BY <2>3 DEF Observed
    <3>2. \A j \in 1..p : a[j].report => T(k) - T(j) >= DrainStuck
      <4> SUFFICES ASSUME NEW j \in 1..p, a[j].report PROVE T(k) - T(j) >= DrainStuck
        OBVIOUS
      <4>1. d.warned # 0 /\ T(j) <= d.warned
        BY <2>2
      <4>2. d.warned <= T(k)
        BY <2>1, <2>2, <2>4, <4>1
      <4>3. ~(d.warned <= T(k) /\ T(k) - d.warned < DrainStuck)
        BY <3>1, <4>1, Zenon DEF Speed!Recent
      <4>4. T(j) \in Nat
        BY <2>1, <2>4
      <4>5. DrainStuck \in Int
        OBVIOUS
      <4> QED BY <2>5, <4>1, <4>2, <4>3, <4>4, <4>5
    <3>3. PICK j \in 1..k : e.since = T(j) /\ \A i \in j..k : F(i) /\ ~Fell(j, i)
      BY <2>2, <3>1
    <3>4. T(k) - T(j) >= DrainStuck
      BY <2>4, <2>5, <3>1, <3>3 DEF Speed!Recent
    <3>5. \A i \in j..k : F(i) /\ L(i) > L(j) - DrainProgress
      <4>1. \A i \in j..k : i \in 1..k
        OBVIOUS
      <4> QED BY <2>4, <3>3, <4>1
    <3> QED BY <3>2, <3>4, <3>5
  <2>7. Every(k)
    <3> SUFFICES ASSUME NEW j \in 1..k, T(k) - T(j) >= DrainStuck, Steady(j, k)
                 PROVE  \E i \in 1..k : a[i].report /\ T(k) - T(i) < DrainStuck
      OBVIOUS
    <3>1. e.since # 0 /\ e.since <= T(j)
      BY <2>2
    <3>2. e.since # T(k)
      BY <2>4, <2>5, <3>1
    <3>3. CASE e.report
      <4>1. T(k) - T(k) < DrainStuck
        BY <2>5
      <4> QED BY <2>1, <3>3, <4>1
    <3>4. CASE ~e.report
      <4>1. /\ e.since = d.since /\ e.warned = d.warned
            /\ Speed!Recent(d.since, T(k)) \/ (d.warned # 0 /\ Speed!Recent(d.warned, T(k)))
        BY <2>3, <3>1, <3>2, <3>4 DEF Observed
      <4>2. ~Speed!Recent(d.since, T(k))
        BY <2>4, <2>5, <3>1, <4>1 DEF Speed!Recent
      <4>3. PICK i \in 1..p : a[i].report /\ T(i) = d.warned
        BY <2>2, <4>1, <4>2
      <4> QED BY <2>1, <4>1, <4>2, <4>3 DEF Speed!Recent
    <3> QED BY <3>3, <3>4
  <2> QED BY <2>6, <2>7
<1> QED
  BY <1>13 DEF Speed!StuckIsReported, a, T, F, L

=============================================================================
