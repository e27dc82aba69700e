---------------------------- MODULE PrimingProofs ----------------------------
(***************************************************************************)
(* Proofs about Priming, for every range of targets, size of the ring,     *)
(* ceiling, hold and reading, and any number of edits and faults; and      *)
(* about HoldReadings, for every window, margin and series of samples.     *)
(***************************************************************************)
EXTENDS Priming, Sequences, SequenceTheorems, WellFoundedInduction, TLAPS

(* Priming takes a reading to be any; how the readings are taken is the    *)
(* other half of the hold, proved about after it.                          *)
CONSTANTS None, RaiseWindow, RelaxWindow, PrimeWait, BurstWindow, Lookback, Tolerance, MaxWait
Readings == INSTANCE HoldReadings WITH MaxHold <- HoldMax

-----------------------------------------------------------------------------
(* The inductive invariant.                                                *)

Targets == MinTarget..MaxTarget

(* The Target Buffer in force: an edit that has published puts its own on  *)
(* record last.                                                            *)
InForce == IF edit.phase = "store" THEN edit.to ELSE config

TargetInv == target = InForce + Folded

EditInv ==
  edit.phase # "idle" =>
    /\ edit.to \in Targets
    /\ edit.phase # "store" => edit.next = Derive(edit.to + Folded)

(* The ring has the capacity its own target calls for.                     *)
CapacityInv ==
  /\ capacity # 0 => ring_target \in Targets /\ RingFor(ring_target) <= capacity
  /\ rx = "format" => seen \in Targets

(* Between growing and publishing it is the edit's target it works to.     *)
FollowsInv ==
  capacity # 0 =>
    /\ edit.phase = "publish" => ring_target = edit.next
    /\ ~stale => /\ edit.phase # "publish" => ring_target = target
                 /\ RingFor(target) <= capacity

Inv == TypeOK /\ TargetInv /\ EditInv /\ HoldWithinNeed /\ CapacityInv /\ FollowsInv

-----------------------------------------------------------------------------
(* What the watermarks are.                                                *)

LEMMA DeriveType == ASSUME NEW t \in Int PROVE Derive(t) \in Targets
  BY TargetAssumption DEF Derive, Clamp, Least, Most, Targets

LEMMA DeriveTarget == ASSUME NEW t \in Targets PROVE Derive(t) = t
  BY TargetAssumption DEF Derive, Clamp, Least, Most, Targets

(* With a hold on top: what Target Buffer left room for.                   *)
LEMMA DeriveHold ==
  ASSUME NEW t \in Targets, NEW h \in Nat
  PROVE  /\ Derive(t + h) \in Targets
         /\ Derive(t + h) - t \in 0..h
  BY TargetAssumption DEF Derive, Clamp, Least, Most, Targets

LEMMA TargetsNat == ASSUME NEW t \in Targets PROVE t \in Nat /\ t > 0
  BY TargetAssumption DEF Targets

LEMMA RingType == ASSUME NEW t \in Targets PROVE RingFor(t) \in Nat /\ RingFor(t) > 0
<1>1. MaxOf(t) \in Nat /\ MaxOf(t) > 0
  BY TargetAssumption, TargetsNat DEF MaxOf
<1>2. Multiplier \in Nat /\ Multiplier > 0
  BY TargetAssumption
<1>3. \A m, n \in Nat : m > 0 /\ n > 0 => m * n \in Nat /\ m * n > 0
  OBVIOUS
<1> QED
  BY <1>1, <1>2, <1>3 DEF RingFor

LEMMA MostType == ASSUME NEW a \in Nat, NEW b \in Nat
                  PROVE  Most(a, b) \in Nat /\ a <= Most(a, b) /\ b <= Most(a, b)
  BY DEF Most

LEMMA SizedType == ASSUME NEW r \in Int, NEW c \in Int PROVE Sized(r, c) \in Nat
  BY HoldAssumption DEF Sized, Clamp, Least, Most

LEMMA CeilingType == ASSUME NEW t \in Targets PROVE Ceiling(t) \in Nat
  BY TargetAssumption, PlayAssumption, TargetsNat DEF Ceiling, MaxOf, Least, Most

(* Under the invariant the user's target is the one on record.             *)
LEMMA UserIsConfig ==
  ASSUME Inv PROVE UserTarget = InForce /\ UserTarget \in Targets /\ Folded \in Nat
<1>1. Folded \in Nat
  BY DEF Folded, Inv, TypeOK
<1>2. InForce \in Targets
  BY DEF InForce, Inv, TypeOK, EditInv, Targets
<1>3. InForce \in Int
  BY <1>2, TargetsNat
<1> QED
  BY <1>1, <1>2, <1>3 DEF UserTarget, Inv, TargetInv

-----------------------------------------------------------------------------
(* What Shared::new sets up satisfies the inductive invariant.             *)
LEMMA InitInv == Init => Inv
<1> SUFFICES ASSUME Init PROVE Inv
  OBVIOUS
<1>1. config \in Targets
  BY DeriveType, TargetAssumption DEF Init
<1>2. TypeOK
  <2>1. edit \in Edit
    BY DEF Init, NoEdit, Edit
  <2>2. edits \in 0..MaxEdits /\ faults \in 0..MaxFaults
    BY PlayAssumption DEF Init
  <2>3. target \in Targets
    BY <1>1 DEF Init
  <2>4. low_latency \in BOOLEAN
    BY TargetAssumption DEF Init
  <2> QED
    BY <1>1, <2>1, <2>2, <2>3, <2>4 DEF Init, TypeOK, Targets, Phases
<1>3. TargetInv
  BY <1>1, TargetsNat DEF Init, TargetInv, InForce, Folded, NoEdit
<1>4. EditInv /\ HoldWithinNeed /\ CapacityInv /\ FollowsInv
  BY DEF Init, EditInv, NoEdit, HoldWithinNeed, Most, CapacityInv, FollowsInv
<1> QED
  BY <1>2, <1>3, <1>4 DEF Inv

-----------------------------------------------------------------------------
(* Publishing.  `AudioStateFree' and an unchanged edit: the receiver's     *)
(* part, done in one critical section.                                     *)

(* The receiver is not about to make a ring, or does not move.             *)
Unformat == rx' # "format" \/ UNCHANGED <<rx, seen>>

(* What a move of the hold keeps.                                          *)
Applied ==
  /\ hold_ms' \in Nat /\ hold_skew_ms' \in Nat /\ hold_bursts_ms' \in Nat
  /\ ring_target' \in Nat /\ capacity' \in Nat /\ target' \in Targets
  /\ stale' \in BOOLEAN
  /\ TargetInv' /\ EditInv' /\ HoldWithinNeed' /\ CapacityInv' /\ FollowsInv'
  /\ capacity <= capacity'

LEMMA PublishKeeps ==
  ASSUME Inv, NEW t \in Targets, AudioStateFree, Publish(t), UNCHANGED edit, Unformat
  PROVE  /\ ring_target' \in Nat /\ capacity' \in Nat /\ target' \in Targets
         /\ stale' \in BOOLEAN
         /\ CapacityInv' /\ FollowsInv'
         /\ capacity <= capacity'
<1>1. t \in Nat /\ RingFor(t) \in Nat
  BY RingType, TargetsNat
<1>2. target' = t /\ stale' = FALSE
  BY DEF Publish
<1>3. edit.phase # "publish" /\ edit' = edit
  BY DEF AudioStateFree
<1>4. CASE capacity = 0
  <2>1. capacity' = 0 /\ ring_target' = ring_target
    BY <1>4 DEF Publish, GrowRing
  <2>2. CapacityInv' /\ FollowsInv'
    BY <2>1 DEF Inv, CapacityInv, FollowsInv, Unformat
  <2>3. ring_target' \in Nat /\ capacity' \in Nat /\ capacity <= capacity'
    BY <1>4, <2>1 DEF Inv, TypeOK
  <2> QED
    BY <1>2, <2>2, <2>3
<1>5. CASE capacity # 0
  <2>1. ring_target' = t /\ capacity' = Most(capacity, RingFor(t))
    BY <1>5 DEF Publish, GrowRing
  <2>2. capacity' \in Nat /\ capacity <= capacity' /\ RingFor(t) <= capacity'
    BY <1>1, <2>1, MostType DEF Inv, TypeOK
  <2>3. CapacityInv'
    BY <2>1, <2>2, <1>1 DEF CapacityInv, Inv, RingFor, MaxOf, Unformat
  <2>4. FollowsInv'
    BY <1>2, <1>3, <2>1, <2>2 DEF FollowsInv, RingFor, MaxOf
  <2> QED
    BY <1>1, <1>2, <2>1, <2>2, <2>3, <2>4
<1> QED
  BY <1>4, <1>5

(* Moving the hold keeps the target at Target Buffer plus the hold.        *)
LEMMA ApplyKeeps ==
  ASSUME Inv, AudioStateFree, UNCHANGED <<low_latency, edit, config>>, Unformat,
         NEW skew \in Nat, NEW bursts \in Nat, Apply(skew, bursts)
  PROVE  Applied
<1> DEFINE asked == Most(skew, bursts)
           next == Derive(UserTarget + asked)
           to == IF low_latency THEN asked ELSE next - UserTarget
           moves == asked # Most(hold_skew_ms, hold_bursts_ms) /\ (low_latency \/ to # hold_ms)
<1>1. asked \in Nat
  BY MostType
<1>2. UserTarget = InForce /\ UserTarget \in Targets
  BY UserIsConfig
<1>3. next \in Targets /\ next - UserTarget \in 0..asked
  BY <1>1, <1>2, DeriveHold
<1>4. to \in Nat /\ to <= asked
  BY <1>1, <1>3
<1>5. hold_skew_ms' = skew /\ hold_bursts_ms' = bursts /\ hold_ms' = IF moves THEN to ELSE hold_ms
  BY DEF Apply
<1>6. IF moves /\ ~low_latency
      THEN Publish(next)
      ELSE UNCHANGED <<ring_target, capacity, target, stale>>
  BY DEF Apply
<1>7. InForce' = InForce
  BY DEF InForce
<1>8. edit.phase \notin {"grow", "publish"} /\ edit' = edit
  BY DEF AudioStateFree
<1>9. low_latency \in BOOLEAN /\ UserTarget \in Int /\ InForce \in Int /\ next \in Int
  BY <1>2, <1>3, TargetsNat DEF Inv, TypeOK
<1>10. EditInv'
  BY <1>8 DEF EditInv, Inv, Edit, TypeOK
<1> HIDE DEF asked
<1>11. HoldWithinNeed'
  <2>1. CASE moves
    BY <1>4, <1>5, <2>1 DEF HoldWithinNeed, asked
  <2>2. CASE ~moves
    <3>1. asked = Most(hold_skew_ms, hold_bursts_ms) \/ (~low_latency /\ to = hold_ms)
      BY <2>2
    <3> QED
      BY <1>4, <1>5, <2>2, <3>1 DEF HoldWithinNeed, Inv, asked
  <2> QED
    BY <2>1, <2>2
<1>12. CASE moves /\ ~low_latency
  <2>1. Publish(next)
    BY <1>6, <1>12
  <2>2. target' = next /\ hold_ms' = next - UserTarget
    BY <1>5, <1>12, <2>1 DEF Publish
  <2>3. Folded' = hold_ms'
    BY <1>12 DEF Folded
  <2>4. TargetInv'
    BY <1>2, <1>7, <1>9, <2>2, <2>3 DEF TargetInv
  <2> HIDE DEF next, to, moves
  <2>5. /\ ring_target' \in Nat /\ capacity' \in Nat /\ target' \in Targets /\ stale' \in BOOLEAN
        /\ CapacityInv' /\ FollowsInv' /\ capacity <= capacity'
    BY <1>3, <2>1, PublishKeeps
  <2> QED
    BY <1>4, <1>5, <1>10, <1>11, <1>12, <2>4, <2>5 DEF Applied
<1>13. CASE ~(moves /\ ~low_latency)
  <2>1. UNCHANGED <<ring_target, capacity, target, stale>>
    BY <1>6, <1>13
  <2>2. Folded' = Folded
    BY <1>5, <1>13, <1>9 DEF Folded
  <2>3. TargetInv'
    BY <1>7, <2>1, <2>2 DEF TargetInv, Inv
  <2>4. CapacityInv' /\ FollowsInv'
    BY <2>1 DEF CapacityInv, FollowsInv, Inv, RingFor, MaxOf, Unformat
  <2>5. hold_ms' \in Nat
    BY <1>4, <1>5 DEF Inv, TypeOK
  <2> HIDE DEF to, moves, next
  <2>6. ring_target' \in Nat /\ capacity' \in Nat /\ target' \in Targets /\ stale' \in BOOLEAN
        /\ capacity <= capacity'
    BY <2>1 DEF Inv, TypeOK, Targets
  <2> QED
    BY <1>5, <1>10, <1>11, <2>3, <2>4, <2>5, <2>6 DEF Applied
<1> QED
  BY <1>12, <1>13

-----------------------------------------------------------------------------
(* An edit. *)

LEMMA EditBeginKeeps ==
  ASSUME Inv, NEW s \in Settings, NEW a \in BOOLEAN, EditBegin(s, a)
  PROVE  Inv'
<1> DEFINE phase == IF Derive(UserTarget) = Derive(s) THEN "store" ELSE "grow"
<1>1. Derive(s) \in Targets /\ Derive(s) \in Nat
  BY DeriveType, TargetsNat, TargetAssumption
<1>2. UserTarget = InForce /\ UserTarget \in Targets /\ Folded \in Nat
  BY UserIsConfig
<1>3. InForce = config /\ edit.phase = "idle"
  BY DEF EditBegin, InForce
<1>4. Derive(Derive(s) + Folded) \in Nat
  BY <1>1, <1>2, DeriveHold, TargetsNat
<1>5. edit' = [phase |-> phase, to |-> Derive(s), next |-> Derive(Derive(s) + Folded), adaptive |-> a]
  BY DEF EditBegin
<1>6. UNCHANGED <<settings, holds, ring, clock, receiver, stale, faults>> /\ edits' = edits + 1 /\ edits < MaxEdits
  BY DEF EditBegin
<1>7. edit' \in Edit
  BY <1>1, <1>4, <1>5 DEF Edit
<1>8. TypeOK'
  <2>1. edits' \in 0..MaxEdits
    BY <1>6, PlayAssumption DEF Inv, TypeOK
  <2> QED
    BY <1>6, <1>7, <2>1 DEF Inv, TypeOK, settings, holds, ring, held, clock, receiver
<1>9. phase = "store" => Derive(s) = config
  BY <1>2, <1>3, DeriveTarget
<1>10. TargetInv'
  BY <1>3, <1>5, <1>6, <1>9 DEF Inv, TargetInv, InForce, Folded, settings, holds
<1>11. EditInv'
  BY <1>1, <1>5, <1>6 DEF EditInv, Folded, holds, settings
<1>12. HoldWithinNeed' /\ CapacityInv'
  BY <1>6 DEF Inv, HoldWithinNeed, CapacityInv, RingFor, MaxOf, holds, ring, held, receiver
<1>13. FollowsInv'
  BY <1>3, <1>5, <1>6 DEF Inv, FollowsInv, RingFor, MaxOf, settings, ring, held
<1> QED
  BY <1>8, <1>10, <1>11, <1>12, <1>13 DEF Inv

LEMMA EditGrowKeeps ==
  ASSUME Inv, EditGrow
  PROVE  Inv' /\ capacity <= capacity'
<1>1. edit.phase = "grow" /\ edit' = [edit EXCEPT !.phase = "publish"]
  BY DEF EditGrow
<1>2. edit'.phase = "publish" /\ edit'.to = edit.to /\ edit'.next = edit.next /\ edit' \in Edit
  BY <1>1 DEF Inv, TypeOK, Edit
<1>3. UNCHANGED <<settings, holds, held, clock, receiver, stale, bounds>> /\ GrowRing(edit.next)
  BY DEF EditGrow
<1>4. edit.to \in Targets /\ edit.next = Derive(edit.to + Folded)
  BY <1>1 DEF Inv, EditInv
<1>5. edit.next \in Targets /\ edit.next \in Nat /\ RingFor(edit.next) \in Nat
  BY <1>4, DeriveHold, UserIsConfig, TargetsNat, RingType
<1>6. TargetInv' /\ EditInv'
  BY <1>1, <1>2, <1>3, <1>4 DEF Inv, TargetInv, EditInv, InForce, Folded, settings, holds
<1>7. HoldWithinNeed'
  BY <1>3 DEF Inv, HoldWithinNeed, holds
<1>8. CASE capacity = 0
  <2>1. capacity' = 0 /\ ring_target' = ring_target
    BY <1>3, <1>8 DEF GrowRing
  <2>2. CapacityInv' /\ FollowsInv'
    BY <1>3, <2>1 DEF Inv, CapacityInv, FollowsInv, receiver
  <2>3. TypeOK' /\ capacity <= capacity'
    BY <1>2, <1>3, <1>8, <2>1 DEF Inv, TypeOK, settings, holds, clock, receiver, bounds, held
  <2> QED
    BY <1>6, <1>7, <2>2, <2>3 DEF Inv
<1>9. CASE capacity # 0
  <2>1. ring_target' = edit.next /\ capacity' = Most(capacity, RingFor(edit.next))
    BY <1>3, <1>9 DEF GrowRing
  <2>2. capacity' \in Nat /\ capacity <= capacity' /\ RingFor(edit.next) <= capacity'
    BY <1>5, <2>1, MostType DEF Inv, TypeOK
  <2>3. CapacityInv'
    BY <1>3, <1>5, <2>1, <2>2 DEF Inv, CapacityInv, RingFor, MaxOf, receiver
  <2>4. stale \/ RingFor(target) <= capacity
    BY <1>9 DEF Inv, FollowsInv
  <2>5. RingFor(target) \in Int /\ capacity \in Int
    BY RingType DEF Inv, TypeOK, Targets
  <2>6. stale \/ RingFor(target) <= capacity'
    BY <2>2, <2>4, <2>5
  <2>7. FollowsInv'
    BY <1>2, <1>3, <2>1, <2>6 DEF FollowsInv, RingFor, MaxOf, settings
  <2>8. TypeOK'
    BY <1>2, <1>3, <1>5, <2>1, <2>2 DEF Inv, TypeOK, settings, holds, clock, receiver, bounds, held
  <2> QED
    BY <1>6, <1>7, <2>2, <2>3, <2>7, <2>8 DEF Inv
<1> QED
  BY <1>8, <1>9

LEMMA EditPublishKeeps ==
  ASSUME Inv, EditPublish
  PROVE  Inv'
<1>1. edit.phase = "publish" /\ edit' = [edit EXCEPT !.phase = "store"]
  BY DEF EditPublish
<1>2. edit'.phase = "store" /\ edit'.to = edit.to /\ edit'.next = edit.next /\ edit' \in Edit
  BY <1>1 DEF Inv, TypeOK, Edit
<1>3. /\ target' = edit.next /\ stale' = FALSE
      /\ hold_ms' = IF edit.next - edit.to < Folded THEN edit.next - edit.to ELSE hold_ms
      /\ UNCHANGED <<low_latency, config, adaptive, hold_skew_ms, hold_bursts_ms, hold_wait_done, measured,
                     ring, clock, receiver, bounds>>
  BY DEF EditPublish
<1>4. edit.to \in Targets /\ edit.next = Derive(edit.to + Folded)
  BY <1>1 DEF Inv, EditInv
<1>5. Folded \in Nat
  BY UserIsConfig
<1>6. edit.next \in Targets /\ edit.next - edit.to \in 0..Folded
  BY <1>4, <1>5, DeriveHold
<1>7. hold_ms' \in Nat /\ hold_ms' <= hold_ms /\ edit.next = edit.to + Folded'
  <2>1. edit.to \in Nat /\ edit.next \in Nat /\ hold_ms \in Nat
    BY <1>4, <1>6, TargetsNat DEF Inv, TypeOK
  <2>2. CASE low_latency
    <3>1. Folded = 0 /\ Folded' = 0
      BY <1>3, <2>2 DEF Folded
    <3> QED
      BY <1>3, <1>6, <2>1, <3>1
  <2>3. CASE ~low_latency
    <3>1. Folded = hold_ms /\ Folded' = hold_ms'
      BY <1>3, <2>3 DEF Folded
    <3> QED
      BY <1>3, <1>6, <2>1, <3>1
  <2> QED
    BY <2>2, <2>3
<1>8. TargetInv' /\ EditInv'
  BY <1>2, <1>3, <1>4, <1>7 DEF TargetInv, EditInv, InForce
<1>9. HoldWithinNeed'
  <2>1. Most(hold_skew_ms, hold_bursts_ms) \in Nat /\ hold_ms <= Most(hold_skew_ms, hold_bursts_ms)
    BY MostType DEF Inv, TypeOK, HoldWithinNeed
  <2>2. hold_ms' <= Most(hold_skew_ms, hold_bursts_ms)
    BY <1>7, <2>1 DEF Inv, TypeOK
  <2> QED
    BY <1>3, <2>2 DEF HoldWithinNeed
<1>10. CapacityInv'
  BY <1>3 DEF Inv, CapacityInv, RingFor, MaxOf, ring, held, receiver
<1>11. FollowsInv'
  <2>1. capacity # 0 => ring_target = edit.next /\ RingFor(edit.next) <= capacity
    BY <1>1 DEF Inv, FollowsInv, CapacityInv
  <2> QED
    BY <1>2, <1>3, <2>1 DEF FollowsInv, RingFor, MaxOf, ring, held
<1>12. TypeOK'
  BY <1>2, <1>3, <1>6, <1>7 DEF Inv, TypeOK, Targets, ring, held, clock, receiver, bounds
<1> QED
  BY <1>8, <1>9, <1>10, <1>11, <1>12 DEF Inv

LEMMA EditStoreKeeps ==
  ASSUME Inv, EditStore
  PROVE  Inv'
<1>1. edit.phase = "store" /\ edit' = NoEdit /\ config' = edit.to /\ adaptive' = edit.adaptive
      /\ UNCHANGED <<low_latency, target, holds, ring, clock, receiver, stale, bounds>>
  BY DEF EditStore
<1>2. edit.to \in Targets /\ edit.adaptive \in BOOLEAN
  BY <1>1 DEF Inv, EditInv, TypeOK, Edit
<1>3. edit' \in Edit /\ edit'.phase = "idle"
  BY <1>1 DEF NoEdit, Edit
<1>4. TypeOK'
  BY <1>1, <1>2, <1>3 DEF Inv, TypeOK, Targets, holds, ring, held, clock, receiver, bounds
<1>5. TargetInv' /\ EditInv'
  BY <1>1, <1>3 DEF Inv, TargetInv, EditInv, InForce, Folded, holds
<1>6. HoldWithinNeed' /\ CapacityInv' /\ FollowsInv'
  BY <1>1, <1>3 DEF Inv, HoldWithinNeed, CapacityInv, FollowsInv, RingFor, MaxOf, holds, ring, held, receiver
<1> QED
  BY <1>4, <1>5, <1>6 DEF Inv

-----------------------------------------------------------------------------
(* The receiver and the pump.  Most of what they do leaves targets, hold   *)
(* and ring alone.                                                         *)

Quiet == UNCHANGED <<low_latency, config, target, hold_ms, hold_skew_ms, hold_bursts_ms,
                     ring_target, capacity, stale, edit>>

LEMMA QuietKeeps ==
  ASSUME Inv, Quiet, TypeOK', rx' = "format" => seen' \in Targets
  PROVE  Inv'
  BY DEF Quiet, Inv, TargetInv, InForce, Folded, EditInv, HoldWithinNeed,
         CapacityInv, FollowsInv, RingFor, MaxOf

LEMMA FillType ==
  ASSUME Inv
  PROVE  /\ Room \in Nat
         /\ \A silence \in Silences, g \in BOOLEAN : Kept(fill + silence + 1, g) \subseteq Nat
         /\ fill > 0 => AfterRead \in Nat
         /\ TrimTo \in Nat
<1>1. fill \in Nat /\ capacity \in Nat /\ hold_ms \in Nat /\ target \in Nat
  BY TargetsNat DEF Inv, TypeOK, Targets
<1>2. Room \in Nat
  BY <1>1, TargetAssumption DEF Room, Least
<1>3. ASSUME NEW silence \in Silences, NEW g \in BOOLEAN PROVE Kept(fill + silence + 1, g) \subseteq Nat
  <2>1. fill + silence + 1 \in Nat
    BY <1>1, PlayAssumption
  <2>2. Least(fill + silence + 1, Room) \in Nat
    BY <1>2, <2>1 DEF Least
  <2> QED
    BY <2>2 DEF Kept
<1>4. fill > 0 => AfterRead \in Nat
  BY <1>1, PlayAssumption DEF AfterRead, Least
<1>5. TrimTo \in Nat
  BY <1>1, PlayAssumption DEF TrimTo
<1> QED
  BY <1>2, <1>3, <1>4, <1>5

LEMMA FaultType == ASSUME Inv, faults < MaxFaults PROVE faults + 1 \in 0..MaxFaults
  BY PlayAssumption DEF Inv, TypeOK

LEMMA ReadingKeeps ==
  ASSUME Inv, ReadCeiling \/ Resume \/ AudioFrame \/ FormatChange \/ WarmUp
              \/ (\E silence \in Silences : WriteFrame(silence))
  PROVE  Inv' /\ capacity' = capacity
<1> USE DEF settings, holds, held, ring, clock, receiver, bounds
<1>1. target \in Targets /\ Ceiling(target) \in Nat /\ target \in Nat
  BY CeilingType, TargetsNat DEF Inv, TypeOK, Targets
<1>2. CASE ReadCeiling
  <2>1. TypeOK' /\ Quiet /\ rx' # "format" /\ capacity' = capacity
    BY <1>1, <1>2 DEF ReadCeiling, Inv, TypeOK, Phases, Quiet
  <2> QED
    BY <2>1, QuietKeeps
<1>3. CASE Resume
  <2>1. TypeOK' /\ Quiet /\ rx' # "format" /\ capacity' = capacity
    BY <1>3 DEF Resume, Inv, TypeOK, Phases, Quiet
  <2> QED
    BY <2>1, QuietKeeps
<1>4. CASE AudioFrame
  <2>1. TypeOK' /\ Quiet /\ (rx' = "format" => seen' \in Targets) /\ capacity' = capacity
    BY <1>1, <1>4 DEF AudioFrame, Inv, TypeOK, Phases, Quiet
  <2> QED
    BY <2>1, QuietKeeps
<1>5. CASE FormatChange
  <2>1. TypeOK' /\ Quiet /\ (rx' = "format" => seen' \in Targets) /\ capacity' = capacity
    BY <1>1, <1>5, FaultType DEF FormatChange, Inv, TypeOK, Phases, Quiet
  <2> QED
    BY <2>1, QuietKeeps
<1>6. CASE WarmUp
  <2>1. TypeOK' /\ Quiet /\ rx' # "format" /\ capacity' = capacity
    BY <1>6 DEF WarmUp, Inv, TypeOK, Phases, Quiet
  <2> QED
    BY <2>1, QuietKeeps
<1>7. CASE \E silence \in Silences : WriteFrame(silence)
  <2>1. PICK silence \in Silences : WriteFrame(silence)
    BY <1>7
  <2>2. gapped' \in BOOLEAN /\ fill' \in Nat
    BY <2>1, FillType, PlayAssumption DEF WriteFrame, Inv, TypeOK
  <2>3. TypeOK' /\ Quiet /\ rx' # "format" /\ capacity' = capacity
    BY <2>1, <2>2 DEF WriteFrame, Inv, TypeOK, Phases, Quiet
  <2> QED
    BY <2>3, QuietKeeps
<1> QED
  BY <1>2, <1>3, <1>4, <1>5, <1>6, <1>7

LEMMA FaultsKeep ==
  ASSUME Inv, ResetTimeline \/ FlushDecoder \/ Disconnect
  PROVE  Inv' /\ capacity' = capacity
<1> USE DEF settings, holds, held, ring, clock, receiver, bounds, ForgetReadings
<1>1. CASE ResetTimeline
  <2>1. TypeOK' /\ Quiet /\ rx' # "format" /\ capacity' = capacity
    BY <1>1, FaultType DEF ResetTimeline, Inv, TypeOK, Phases, Quiet
  <2> QED
    BY <2>1, QuietKeeps
<1>2. CASE FlushDecoder
  <2>1. TypeOK' /\ Quiet /\ rx' # "format" /\ capacity' = capacity
    BY <1>2, FaultType DEF FlushDecoder, Inv, TypeOK, Phases, Quiet
  <2> QED
    BY <2>1, QuietKeeps
<1>3. CASE Disconnect
  <2>1. TypeOK' /\ Quiet /\ rx' # "format" /\ capacity' = capacity
    BY <1>3, FaultType DEF Disconnect, Inv, TypeOK, Phases, Quiet
  <2> QED
    BY <2>1, QuietKeeps
<1> QED
  BY <1>1, <1>2, <1>3

LEMMA PumpKeeps ==
  ASSUME Inv, Pump
  PROVE  Inv' /\ capacity' = capacity
<1> USE DEF settings, holds, held, ring, clock, receiver, bounds
<1>1. CASE PumpTrim
  <2>1. TypeOK' /\ Quiet /\ UNCHANGED <<rx, seen>> /\ capacity' = capacity
    BY <1>1, FillType DEF PumpTrim, Inv, TypeOK, Quiet
  <2> QED
    BY <2>1, QuietKeeps DEF Inv, CapacityInv
<1>2. CASE PumpPrime
  <2>1. TypeOK' /\ Quiet /\ UNCHANGED <<rx, seen>> /\ capacity' = capacity
    BY <1>2, FillType DEF PumpPrime, Inv, TypeOK, Quiet
  <2> QED
    BY <2>1, QuietKeeps DEF Inv, CapacityInv
<1>3. CASE PumpPlay
  <2>1. TypeOK' /\ Quiet /\ UNCHANGED <<rx, seen>> /\ capacity' = capacity
    BY <1>3, FillType DEF PumpPlay, Inv, TypeOK, Quiet
  <2> QED
    BY <2>1, QuietKeeps DEF Inv, CapacityInv
<1>4. CASE PumpSuspend
  <2>1. TypeOK' /\ Quiet /\ UNCHANGED <<rx, seen>> /\ capacity' = capacity
    BY <1>4 DEF PumpSuspend, Inv, TypeOK, Quiet
  <2> QED
    BY <2>1, QuietKeeps DEF Inv, CapacityInv
<1> QED
  BY <1>1, <1>2, <1>3, <1>4 DEF Pump

LEMMA ConfigureKeeps ==
  ASSUME Inv, Configure
  PROVE  Inv' /\ (capacity' < capacity => fill' = 0)
<1>1. /\ rx = "format" /\ AudioStateFree /\ fill' = 0 /\ gapped' = FALSE /\ rx' = "frame"
      /\ primed' = FALSE /\ heard' = FALSE /\ warm' = Warmup
      /\ UNCHANGED <<settings, holds, video, pace, seen, edit, bounds>>
      /\ IF capacity = 0
         THEN ring_target' = seen /\ capacity' = RingFor(seen) /\ stale' = (seen # target)
         ELSE capacity' = RingFor(ring_target) /\ UNCHANGED <<ring_target, stale>>
  BY DEF Configure
<1>2. seen \in Targets /\ target \in Targets
  BY <1>1 DEF Inv, CapacityInv, TypeOK, Targets
<1>3. edit.phase \notin {"grow", "publish"}
  BY <1>1 DEF AudioStateFree
<1>4. ring_target' \in Targets /\ capacity' = RingFor(ring_target')
  BY <1>1, <1>2 DEF Inv, CapacityInv
<1>5. ring_target' \in Nat /\ capacity' \in Nat
  BY <1>4, RingType, TargetsNat
<1>6. stale' \in BOOLEAN /\ (~stale' => ring_target' = target)
  BY <1>1, <1>3 DEF Inv, TypeOK, FollowsInv
<1>7. CapacityInv'
  BY <1>1, <1>4, <1>5 DEF CapacityInv, RingFor, MaxOf
<1>8. FollowsInv'
  BY <1>1, <1>3, <1>4, <1>5, <1>6 DEF FollowsInv, RingFor, MaxOf, settings
<1>9. TargetInv' /\ EditInv' /\ HoldWithinNeed'
  BY <1>1 DEF Inv, TargetInv, InForce, Folded, EditInv, HoldWithinNeed, settings, holds
<1>10. TypeOK'
  BY <1>1, <1>5, <1>6, PlayAssumption DEF Inv, TypeOK, Phases, settings, holds, bounds, held
<1> QED
  BY <1>1, <1>7, <1>8, <1>9, <1>10 DEF Inv

LEMMA OpenKeeps ==
  ASSUME Inv, NEW v \in BOOLEAN, Open(v)
  PROVE  Inv' /\ capacity <= capacity'
<1>1. /\ AudioStateFree /\ rx' = "check" /\ video' = v /\ warm' = Warmup
      /\ hold_ms' = 0 /\ hold_skew_ms' = 0 /\ hold_bursts_ms' = 0
      /\ hold_wait_done' = FALSE /\ measured' = FALSE
      /\ UNCHANGED <<low_latency, config, adaptive, held, primed, heard, pace, seen, edit, bounds>>
      /\ IF hold_ms # 0 /\ ~low_latency
         THEN Publish(Derive(UserTarget))
         ELSE UNCHANGED <<ring_target, capacity, target, stale>>
  BY DEF Open, ForgetReadings
<1>2. UserTarget = InForce /\ UserTarget \in Targets /\ Derive(UserTarget) = UserTarget
  BY UserIsConfig, DeriveTarget
<1>3. Folded' = 0 /\ InForce' = InForce /\ InForce \in Nat
  BY <1>1, <1>2, TargetsNat DEF Folded, InForce
<1>4. target' = InForce
  <2>1. CASE hold_ms # 0 /\ ~low_latency
    BY <1>1, <1>2, <2>1 DEF Publish
  <2>2. CASE ~(hold_ms # 0 /\ ~low_latency)
    <3>1. Folded = 0
      BY <2>2 DEF Folded
    <3> QED
      BY <1>1, <1>3, <2>2, <3>1 DEF Inv, TargetInv
  <2> QED
    BY <2>1, <2>2
<1>5. TargetInv' /\ EditInv'
  <2>1. edit.phase \notin {"grow", "publish"} /\ edit' = edit
    BY <1>1 DEF AudioStateFree
  <2> QED
    BY <1>3, <1>4, <2>1 DEF TargetInv, EditInv, Inv, TypeOK, Edit
<1>6. HoldWithinNeed'
  BY <1>1 DEF HoldWithinNeed, Most
<1>7. /\ ring_target' \in Nat /\ capacity' \in Nat /\ target' \in Targets /\ stale' \in BOOLEAN
      /\ CapacityInv' /\ FollowsInv' /\ capacity <= capacity'
  <2>1. CASE hold_ms # 0 /\ ~low_latency
    <3>1. Publish(UserTarget) /\ UNCHANGED edit
      BY <1>1, <1>2, <2>1
    <3>2. capacity = 0 => capacity' = 0
      BY <3>1 DEF Publish, GrowRing
    <3>3. capacity # 0 => ring_target' = UserTarget /\ capacity' = Most(capacity, RingFor(UserTarget))
      BY <3>1 DEF Publish, GrowRing
    <3>4. RingFor(UserTarget) \in Nat /\ capacity \in Nat /\ UserTarget \in Nat
      BY <1>2, RingType, TargetsNat DEF Inv, TypeOK
    <3>5. capacity' \in Nat /\ capacity <= capacity'
          /\ (capacity # 0 => RingFor(UserTarget) <= capacity')
      <4>1. LET m == Most(capacity, RingFor(UserTarget))
            IN  m \in Nat /\ capacity <= m /\ RingFor(UserTarget) <= m
        BY <3>4, MostType
      <4> QED
        BY <3>2, <3>3, <3>4, <4>1
    <3>6. target' = UserTarget /\ stale' = FALSE
      BY <3>1 DEF Publish
    <3>7. ring_target' \in Nat
      BY <3>1, <3>3, <3>4 DEF Publish, GrowRing, Inv, TypeOK
    <3>8. CapacityInv'
      BY <1>1, <1>2, <3>2, <3>3, <3>5 DEF CapacityInv, RingFor, MaxOf
    <3>9. FollowsInv'
      <4>1. edit'.phase # "publish"
        BY <1>1 DEF AudioStateFree
      <4> QED
        BY <3>2, <3>3, <3>5, <3>6, <4>1 DEF FollowsInv, RingFor, MaxOf
    <3> QED
      BY <1>2, <3>5, <3>6, <3>7, <3>8, <3>9
  <2>2. CASE ~(hold_ms # 0 /\ ~low_latency)
    BY <1>1, <2>2 DEF Inv, TypeOK, Targets, CapacityInv, FollowsInv, RingFor, MaxOf
  <2> QED
    BY <2>1, <2>2
<1>8. TypeOK'
  BY <1>1, <1>7, PlayAssumption DEF Inv, TypeOK, Phases, Targets, bounds, held
<1> QED
  BY <1>5, <1>6, <1>7, <1>8 DEF Inv

LEMMA VideoPacketKeeps ==
  ASSUME Inv, VideoPacket
  PROVE  Inv' /\ capacity <= capacity'
<1>1. /\ AudioStateFree /\ rx = "read" /\ rx' = "check"
      /\ UNCHANGED <<low_latency, config, adaptive, hold_wait_done, held, clock, video, pace, seen, edit, bounds>>
  BY DEF VideoPacket
<1>2. measured' \in BOOLEAN
  BY DEF VideoPacket, Inv, TypeOK
<1>3. \/ KeepHold
      \/ \E skew \in Skews :
           LET to == Sized(skew, Lead + IF low_latency THEN 0 ELSE UserTarget)
           IN  Apply(to, hold_bursts_ms)
  BY DEF VideoPacket
<1>4. Lead + (IF low_latency THEN 0 ELSE UserTarget) \in Int
  BY UserIsConfig, TargetsNat, PlayAssumption
<1>5. CASE KeepHold
  <2>1. TypeOK' /\ Quiet
    BY <1>1, <1>2, <1>5 DEF KeepHold, Inv, TypeOK, Phases, Quiet, clock, bounds, held
  <2>2. capacity' = capacity /\ capacity \in Nat
    BY <1>5 DEF KeepHold, Inv, TypeOK
  <2> QED
    BY <1>1, <2>1, <2>2, QuietKeeps
<1>6. CASE \E skew \in Skews :
             LET to == Sized(skew, Lead + IF low_latency THEN 0 ELSE UserTarget)
             IN  Apply(to, hold_bursts_ms)
  <2>1. PICK skew \in Skews :
               Apply(Sized(skew, Lead + IF low_latency THEN 0 ELSE UserTarget), hold_bursts_ms)
    BY <1>6
  <2> DEFINE ask == Sized(skew, Lead + IF low_latency THEN 0 ELSE UserTarget)
  <2>2. ask \in Nat /\ hold_bursts_ms \in Nat
    BY <1>4, SizedType, HoldAssumption DEF Inv, TypeOK
  <2> HIDE DEF ask
  <2>3. Apply(ask, hold_bursts_ms)
    BY <2>1 DEF ask
  <2>4. Unformat
    BY <1>1 DEF Unformat
  <2>5. Applied
    BY <1>1, <2>2, <2>3, <2>4, ApplyKeeps
  <2>6. TypeOK'
    BY <1>1, <1>2, <2>5 DEF Applied, Inv, TypeOK, Phases, Targets, clock, bounds, held
  <2> QED
    BY <2>5, <2>6 DEF Applied, Inv
<1> QED
  BY <1>3, <1>5, <1>6

LEMMA ObserveAudioKeeps ==
  ASSUME Inv, ObserveAudio
  PROVE  Inv' /\ capacity <= capacity'
<1>1. /\ AudioStateFree /\ rx = "observe" /\ rx' = "check" /\ heard' = TRUE
      /\ UNCHANGED <<low_latency, config, adaptive, hold_wait_done, measured, held, primed, warm,
                     video, pace, seen, edit, bounds>>
  BY DEF ObserveAudio
<1>2. KeepHold \/ \E span \in Spans : Apply(hold_skew_ms, Sized(span, UserTarget))
  BY DEF ObserveAudio
<1>3. CASE KeepHold
  <2>1. TypeOK' /\ Quiet
    BY <1>1, <1>3 DEF KeepHold, Inv, TypeOK, Phases, Quiet, bounds, held
  <2>2. capacity' = capacity /\ capacity \in Nat
    BY <1>3 DEF KeepHold, Inv, TypeOK
  <2> QED
    BY <1>1, <2>1, <2>2, QuietKeeps
<1>4. CASE \E span \in Spans : Apply(hold_skew_ms, Sized(span, UserTarget))
  <2>1. PICK span \in Spans : Apply(hold_skew_ms, Sized(span, UserTarget))
    BY <1>4
  <2> DEFINE ask == Sized(span, UserTarget)
  <2>2. ask \in Nat /\ hold_skew_ms \in Nat
    BY UserIsConfig, TargetsNat, SizedType, HoldAssumption DEF Inv, TypeOK
  <2> HIDE DEF ask
  <2>3. Apply(hold_skew_ms, ask)
    BY <2>1 DEF ask
  <2>4. Unformat
    BY <1>1 DEF Unformat
  <2>5. Applied
    BY <1>1, <2>2, <2>3, <2>4, ApplyKeeps
  <2>6. TypeOK'
    BY <1>1, <2>5 DEF Applied, Inv, TypeOK, Phases, Targets, bounds, held
  <2> QED
    BY <2>5, <2>6 DEF Applied, Inv
<1> QED
  BY <1>2, <1>3, <1>4

-----------------------------------------------------------------------------
LEMMA NextKeeps ==
  ASSUME Inv, [Next]_vars
  PROVE  Inv' /\ (capacity' < capacity => fill' = 0)
<1>0. capacity \in Nat
  BY DEF Inv, TypeOK
<1>1. CASE UNCHANGED vars
  BY <1>0, <1>1 DEF vars, settings, holds, ring, held, clock, receiver, bounds, Inv, TypeOK, TargetInv,
     InForce, Folded, EditInv, HoldWithinNeed, CapacityInv, FollowsInv, RingFor, MaxOf
<1>2. CASE \E s \in Settings, a \in BOOLEAN : EditBegin(s, a)
  <2>1. PICK s \in Settings, a \in BOOLEAN : EditBegin(s, a)
    BY <1>2
  <2>2. capacity' = capacity
    BY <2>1 DEF EditBegin, ring, held
  <2> QED
    BY <1>0, <2>1, <2>2, EditBeginKeeps
<1>3. CASE UI
  <2>1. CASE EditGrow
    BY <1>0, <2>1, EditGrowKeeps DEF Inv, TypeOK
  <2>2. CASE EditPublish
    <3>1. capacity' = capacity
      BY <2>2 DEF EditPublish, ring, held
    <3> QED
      BY <1>0, <2>2, <3>1, EditPublishKeeps
  <2>3. CASE EditStore
    <3>1. capacity' = capacity
      BY <2>3 DEF EditStore, ring, held
    <3> QED
      BY <1>0, <2>3, <3>1, EditStoreKeeps
  <2> QED
    BY <1>3, <2>1, <2>2, <2>3 DEF UI
<1>4. CASE Reading \/ AudioFrame \/ Faulty
  <2>1. CASE ReadCeiling \/ Resume \/ AudioFrame \/ FormatChange \/ WarmUp
             \/ (\E silence \in Silences : WriteFrame(silence))
    BY <1>0, <2>1, ReadingKeeps
  <2>2. CASE ResetTimeline \/ FlushDecoder \/ Disconnect
    BY <1>0, <2>2, FaultsKeep
  <2>3. CASE Configure
    BY <2>3, ConfigureKeeps
  <2>4. CASE ObserveAudio
    BY <1>0, <2>4, ObserveAudioKeeps DEF Inv, TypeOK
  <2>5. CASE \E v \in BOOLEAN : Open(v)
    BY <1>0, <2>5, OpenKeeps DEF Inv, TypeOK
  <2> QED
    BY <1>4, <2>1, <2>2, <2>3, <2>4, <2>5 DEF Reading, Faulty
<1>5. CASE VideoPacket
  BY <1>0, <1>5, VideoPacketKeeps DEF Inv, TypeOK
<1>6. CASE Pump
  BY <1>0, <1>6, PumpKeeps
<1> QED
  BY <1>1, <1>2, <1>3, <1>4, <1>5, <1>6 DEF Next

(* Every reachable state satisfies the inductive invariant.                *)
THEOREM Invariance == Spec => []Inv
<1>1. Init => Inv
  BY InitInv
<1>2. Inv /\ [Next]_vars => Inv'
  BY NextKeeps
<1> QED
  BY <1>1, <1>2, PTL DEF Spec

(* Every variable keeps its type (the state of config.rs, audio/hold.rs).  *)
THEOREM TypeCorrect == Spec => []TypeOK
<1>1. Inv => TypeOK
  BY DEF Inv
<1> QED
  BY <1>1, Invariance, PTL

(* The published target is Target Buffer plus the hold in force, whatever  *)
(* order edits, readings and connections come in (config.rs:94).           *)
THEOREM TargetComposes == Spec => []TargetIsUserPlusHold
<1>1. Inv => TargetIsUserPlusHold
  BY DEF Inv, TargetInv, InForce, TargetIsUserPlusHold
<1> QED
  BY <1>1, Invariance, PTL

(* No more is held than the larger reading asks for (audio/hold.rs:203).   *)
THEOREM HoldIsNeeded == Spec => []HoldWithinNeed
<1>1. Inv => HoldWithinNeed
  BY DEF Inv
<1> QED
  BY <1>1, Invariance, PTL

(* The ring works to the published target and has the capacity for it,     *)
(* unless it was made across an edit (config.rs:143).                      *)
THEOREM RingFollows == Spec => []RingFollowsTarget
<1>1. Inv => RingFollowsTarget
  BY DEF Inv, FollowsInv, RingFollowsTarget, AudioStateFree
<1> QED
  BY <1>1, Invariance, PTL

(* The ring never gives up capacity with audio in it (audio_buffer.rs:110).*)
THEOREM RingKeepsAudio == Spec => ShrinksOnlyEmpty
<1>1. Inv /\ [Next]_vars => [capacity' < capacity => fill' = 0]_vars
  BY NextKeeps
<1> QED
  BY <1>1, Invariance, PTL DEF Spec, ShrinksOnlyEmpty

-----------------------------------------------------------------------------
(* Only a gap loses frames.                                                *)
(*                                                                         *)
(* A ring has room above the ceiling of its own target.                    *)
LEMMA CeilingBelowRing == ASSUME NEW t \in Targets PROVE Ceiling(t) < RingFor(t)
<1>1. t \in Nat /\ t > 0 /\ Extra \in Nat /\ Multiplier \in Nat
  BY TargetAssumption, TargetsNat DEF Targets
<1>2. MaxOf(t) \in Nat /\ MaxOf(t) > Extra
  BY <1>1 DEF MaxOf
<1>3. ASSUME NEW m \in Nat PROVE 4 * m <= Multiplier * m
  <2>1. \A a, b, c \in Nat : a <= b => a * c <= b * c
    BY SMT
  <2> QED
    BY <1>1, <1>3, <2>1, RingAssumption
<1>4. 4 * MaxOf(t) <= RingFor(t) /\ RingFor(t) \in Nat
  BY <1>2, <1>3, RingType DEF RingFor
<1>5. Ceiling(t) < 4 * MaxOf(t)
  BY <1>2, TargetAssumption, PlayAssumption, RingAssumption DEF Ceiling, Most, Least
<1>6. Ceiling(t) \in Nat
  BY CeilingType
<1> QED
  BY <1>2, <1>4, <1>5, <1>6

(* From the ceiling the receiver waits at to the frame it writes.          *)
RoomInv ==
  ~low_latency =>
    /\ rx = "frame" => capacity # 0
    /\ capacity # 0 =>
         /\ rx = "wait" => pace < capacity
         /\ rx \in {"read", "frame"} => fill < capacity /\ (pace < MaxChunks => fill < MaxChunks)

(* The others' steps: the ring only grows, what it holds only shrinks.     *)
LEMMA RoomStays ==
  ASSUME Inv, Inv', RoomInv, UNCHANGED <<rx, pace, low_latency>>,
         capacity <= capacity', capacity = 0 => capacity' = 0, fill' <= fill
  PROVE  RoomInv'
<1>1. /\ capacity \in Nat /\ capacity' \in Nat /\ fill' \in Nat /\ fill \in Nat /\ pace \in Nat
      /\ MaxChunks \in Nat
  BY TargetAssumption DEF Inv, TypeOK
<1> QED
  BY <1>1 DEF RoomInv

LEMMA ReceiverRoom ==
  ASSUME Inv, Inv', ~stale, ~stale', RoomInv, ReadCeiling \/ Resume \/ AudioFrame \/ Configure
  PROVE  RoomInv'
<1> USE DEF settings, holds, held, ring, clock, receiver, bounds
<1>1. /\ fill \in Nat /\ pace \in Nat /\ capacity \in Nat /\ capacity' \in Nat
      /\ MaxChunks \in Nat /\ MaxChunks > 0
  BY TargetAssumption DEF Inv, TypeOK
<1>2. CASE ReadCeiling
  <2>1. /\ low_latency' = low_latency /\ capacity' = capacity
        /\ ~low_latency => rx' = "wait" /\ pace' = Ceiling(target)
    BY <1>2 DEF ReadCeiling
  <2>2. ASSUME capacity # 0 PROVE Ceiling(target) < capacity
    <3>1. RingFor(target) <= capacity /\ target \in Targets
      BY <2>2 DEF Inv, TypeOK, FollowsInv, Targets
    <3> QED
      BY <1>1, <3>1, CeilingBelowRing, CeilingType, RingType
  <2> QED
    BY <2>1, <2>2 DEF RoomInv
<1>3. CASE Resume
  <2>1. rx = "wait" /\ rx' = "read" /\ fill <= pace /\ UNCHANGED <<fill, pace, capacity, low_latency>>
    BY <1>3 DEF Resume
  <2> QED
    BY <1>1, <2>1 DEF RoomInv
<1>4. CASE AudioFrame
  <2>1. /\ rx = "read" /\ UNCHANGED <<fill, pace, capacity, low_latency>>
        /\ IF capacity = 0 THEN rx' = "format" ELSE rx' = "frame"
    BY <1>4 DEF AudioFrame
  <2> QED
    BY <2>1 DEF RoomInv
<1>5. CASE Configure
  <2>1. fill' = 0 /\ rx' = "frame"
    BY <1>5 DEF Configure
  <2>2. capacity' # 0
    <3>1. capacity' = RingFor(IF capacity = 0 THEN seen ELSE ring_target)
      BY <1>5 DEF Configure
    <3>2. (IF capacity = 0 THEN seen ELSE ring_target) \in Targets
      BY <1>5 DEF Configure, Inv, CapacityInv
    <3> QED
      BY <3>1, <3>2, RingType
  <2> QED
    BY <1>1, <2>1, <2>2 DEF RoomInv
<1> QED
  BY <1>2, <1>3, <1>4, <1>5

LEMMA PumpRoom ==
  ASSUME Inv, Pump
  PROVE  fill' <= fill /\ UNCHANGED <<rx, pace, low_latency, capacity>>
<1> USE DEF settings, holds, held, ring, clock, receiver, bounds
<1>1. fill \in Nat /\ hold_ms \in Nat /\ target \in Nat
  BY TargetAssumption DEF Inv, TypeOK
<1>2. AfterRead \in Int /\ AfterRead <= fill
  BY <1>1, PlayAssumption DEF AfterRead, Least
<1>3. TrimDue => TrimTo <= fill
  BY <1>1, PlayAssumption DEF TrimDue, TrimTo
<1> QED
  BY <1>1, <1>2, <1>3 DEF Pump, PumpTrim, PumpPrime, PumpPlay, PumpSuspend

LEMMA EditRoom ==
  ASSUME Inv, UI \/ \E s \in Settings, a \in BOOLEAN : EditBegin(s, a)
  PROVE  UNCHANGED <<rx, pace, low_latency, fill>> /\ capacity <= capacity' /\ (capacity = 0 => capacity' = 0)
<1> USE DEF settings, holds, held, ring, clock, receiver, bounds
<1>1. capacity \in Nat
  BY DEF Inv, TypeOK
<1>2. CASE EditGrow
  BY <1>2, EditGrowKeeps DEF EditGrow, GrowRing
<1>3. CASE EditPublish \/ EditStore \/ \E s \in Settings, a \in BOOLEAN : EditBegin(s, a)
  BY <1>1, <1>3 DEF EditPublish, EditStore, EditBegin
<1> QED
  BY <1>2, <1>3 DEF UI

LEMMA RoomKeeps ==
  ASSUME Inv, Inv', ~stale, ~stale', RoomInv, [Next]_vars
  PROVE  RoomInv'
<1>1. CASE UNCHANGED vars
  BY <1>1 DEF vars, settings, holds, ring, clock, receiver, bounds, held, RoomInv
<1>2. CASE UI \/ \E s \in Settings, a \in BOOLEAN : EditBegin(s, a)
  <2>1. fill' <= fill
    BY <1>2, EditRoom DEF Inv, TypeOK
  <2> QED
    BY <1>2, <2>1, EditRoom, RoomStays
<1>3. CASE Pump
  <2>1. capacity <= capacity' /\ (capacity = 0 => capacity' = 0)
    BY <1>3, PumpRoom DEF Inv, TypeOK
  <2> QED
    BY <1>3, <2>1, PumpRoom, RoomStays
<1>4. CASE ReadCeiling \/ Resume \/ AudioFrame \/ Configure
  BY <1>4, ReceiverRoom
<1>5. CASE WarmUp \/ ObserveAudio \/ VideoPacket \/ Faulty \/ (\E v \in BOOLEAN : Open(v))
           \/ (\E silence \in Silences : WriteFrame(silence))
  <2>1. rx' \notin {"wait", "read", "frame"}
    BY <1>5 DEF WarmUp, ObserveAudio, VideoPacket, Faulty, FormatChange, ResetTimeline, FlushDecoder,
       Disconnect, Open, WriteFrame
  <2> QED
    BY <2>1 DEF RoomInv
<1> QED
  BY <1>1, <1>2, <1>3, <1>4, <1>5 DEF Next, Reading

(* The read loop never brings a frame to a full ring, unless a gap's       *)
(* silence is written with it: for all the silence there may be, whatever  *)
(* is read, edited, played or goes wrong in between, as long as no ring is *)
(* made across an edit (receiver/mod.rs:203).                              *)
THEOREM FramesFit == Spec /\ []~stale => []OnlyGapsLoseFrames
<1>1. Init => RoomInv
  BY DEF Init, RoomInv
<1>2. Inv /\ Inv' /\ ~stale /\ (~stale)' /\ RoomInv /\ [Next]_vars => RoomInv'
  BY RoomKeeps
<1>3. Inv /\ RoomInv => OnlyGapsLoseFrames
  <2>1. Inv => capacity \in Nat /\ MaxChunks \in Nat
    BY TargetAssumption DEF Inv, TypeOK
  <2> QED
    BY <2>1 DEF RoomInv, OnlyGapsLoseFrames, Room, Least
<1> QED
  BY <1>1, <1>2, <1>3, Invariance, PTL DEF Spec

-----------------------------------------------------------------------------
(* The readings of the hold.  First what is needed of sequences: a set of  *)
(* places has a least and a greatest, and a step repeated has a run.       *)

LEMMA LeastOf ==
  ASSUME NEW S \in SUBSET Nat, S # {}
  PROVE  \E q \in S : \A r \in S : q <= r
<1> DEFINE Below == {p \in Nat \X Nat : p[1] < p[2]}
<1>1. IsWellFoundedOn(Below, Nat)
  BY NatLessThanWellFounded, Zenon DEF OpToRel
<1> HIDE DEF Below
<1>2. PICK q \in S : \A r \in S : <<r, q>> \notin Below
  BY <1>1, WFMin
<1>3. \A r \in S : ~ (r < q)
  BY <1>2 DEF Below
<1> QED
  BY <1>3

LEMMA GreatestOf ==
  ASSUME NEW n \in Nat, NEW S \in SUBSET (0..n), S # {}
  PROVE  \E q \in S : \A r \in S : r <= q
<1> DEFINE T == {m \in 0..n : n - m \in S}
<1>1. T \subseteq Nat /\ T # {}
  <2>1. PICK s \in S : TRUE
    OBVIOUS
  <2>2. n - s \in 0..n /\ n - (n - s) = s
    OBVIOUS
  <2>3. n - s \in T
    BY <2>2
  <2> QED BY <2>3
<1>2. PICK t \in T : \A u \in T : t <= u
  BY <1>1, LeastOf
<1>3. n - t \in S
  OBVIOUS
<1>4. ASSUME NEW r \in S PROVE r <= n - t
  <2>1. n - r \in 0..n /\ n - (n - r) = r
    OBVIOUS
  <2>2. n - r \in T
    BY <2>1
  <2>3. t <= n - r
    BY <1>2, <2>2
  <2> QED BY <2>3
<1> QED
  BY <1>3, <1>4

(* Induction, on the numbers that a set holds.                             *)
LEMMA Reached ==
  ASSUME NEW n \in Nat, NEW S, 0 \in S, \A k \in 0..(n - 1) : k \in S => k + 1 \in S
  PROVE  \A k \in 0..n : k \in S
<1> DEFINE Missing == {k \in 0..n : k \notin S}
<1> SUFFICES ASSUME Missing # {} PROVE FALSE
  OBVIOUS
<1>0. Missing \in SUBSET Nat
  OBVIOUS
<1> HIDE DEF Missing
<1>1. PICK q \in Missing : \A r \in Missing : q <= r
  BY <1>0, LeastOf
<1>2. q \in 0..n /\ q \notin S /\ q # 0 /\ q - 1 \in 0..(n - 1)
  BY <1>1 DEF Missing
<1>3. q - 1 \in S
  <2>1. q - 1 \notin Missing
    BY <1>0, <1>1, <1>2
  <2>2. q - 1 \in 0..n
    BY <1>2
  <2> QED BY <2>1, <2>2 DEF Missing
<1>4. q \in S
  <2>1. (q - 1) + 1 = q
    BY <1>2
  <2> QED BY <1>2, <1>3, <2>1
<1> QED
  BY <1>2, <1>4

(* A run of steps from a start, one after another, exists: what a function *)
(* defined by recursion needs before anything can be said of it.           *)
HasRun(n, S, start, step) ==
  \E f \in [0..n -> S] : f[0] = start /\ \A k \in 1..n : f[k] = step[k][f[k - 1]]

LEMMA Iterates ==
  ASSUME NEW n \in Nat, NEW S, NEW start \in S, NEW step \in [1..n -> [S -> S]]
  PROVE  HasRun(n, S, start, step)
<1> DEFINE Does(m, f) == f[0] = start /\ \A k \in 1..m : f[k] = step[k][f[k - 1]]
           Good == {m \in 0..n : \E f \in [0..m -> S] : Does(m, f)}
<1>1. 0 \in Good
  <2> DEFINE f == [k \in 0..0 |-> start]
  <2>1. f \in [0..0 -> S] /\ f[0] = start
    OBVIOUS
  <2>2. Does(0, f)
    <3>1. 1..0 = {}
      OBVIOUS
    <3> QED BY <2>1, <3>1
  <2>3. 0 \in 0..n
    OBVIOUS
  <2> QED BY <2>1, <2>2, <2>3
<1>2. ASSUME NEW m \in 0..(n - 1), m \in Good PROVE m + 1 \in Good
  <2>1. PICK f \in [0..m -> S] : Does(m, f)
    BY <1>2
  <2> DEFINE g == [k \in 0..(m + 1) |-> IF k <= m THEN f[k] ELSE step[m + 1][f[m]]]
  <2>2. g \in [0..(m + 1) -> S]
    <3>1. step[m + 1][f[m]] \in S
      OBVIOUS
    <3> QED BY <3>1
  <2>3. g[0] = start
    BY <2>1
  <2>4. ASSUME NEW k \in 1..(m + 1) PROVE g[k] = step[k][g[k - 1]]
    <3>1. k - 1 \in 0..m /\ k - 1 \in 0..(m + 1)
      OBVIOUS
    <3>4. g[k - 1] = f[k - 1]
      BY <3>1
    <3>2. CASE k <= m
      <4>1. k \in 1..m /\ g[k] = f[k]
        BY <3>2
      <4> QED BY <2>1, <3>4, <4>1
    <3>3. CASE k = m + 1
      <4>1. g[k] = step[m + 1][f[m]] /\ k - 1 = m
        BY <3>3
      <4> QED BY <3>3, <3>4, <4>1
    <3> QED BY <3>2, <3>3
  <2> HIDE DEF g
  <2>5. m + 1 \in 0..n
    OBVIOUS
  <2>6. Does(m + 1, g)
    BY <2>3, <2>4
  <2> QED
    BY <2>2, <2>5, <2>6
<1>3. n \in Good
  <2> HIDE DEF Good
  <2>1. \A m \in 0..(n - 1) : m \in Good => m + 1 \in Good
    BY <1>2
  <2>2. \A m \in 0..n : m \in Good
    BY <1>1, <2>1, Reached
  <2> QED BY <2>2
<1> QED
  BY <1>3 DEF HasRun

(* Samples that were taken, and the queue a window keeps of them: samples   *)
(* of its own, each less extreme than those in front of it, the first within *)
(* the window, and for each sample within the window one that beats it and   *)
(* outlasts it.                                                            *)
Samples == Nat \X Int
Extremes == {"Lowest", "Highest"}

Keeps(extreme, window, taken, now, entries) ==
  /\ taken \in SUBSET Samples /\ entries \in Seq(Samples) /\ entries # <<>>
  /\ \A i \in 1..Len(entries) : entries[i] \in taken
  /\ entries[1][1] >= now - window
  /\ \A s \in taken : s[1] <= now
  /\ \A i, j \in 1..Len(entries) : i < j => ~Readings!beaten(extreme, entries[i][2], entries[j][2])
  /\ \A s \in taken : s[1] >= now - window =>
       \E i \in 1..Len(entries) :
         entries[i][1] >= s[1] /\ Readings!beaten(extreme, s[2], entries[i][2])

(* beaten orders the values.                                               *)
LEMMA BeatenOrders ==
  ASSUME NEW extreme \in Extremes, NEW x \in Int, NEW y \in Int
  PROVE  /\ Readings!beaten(extreme, x, y) \in BOOLEAN
         /\ Readings!beaten(extreme, x, x)
         /\ Readings!beaten(extreme, x, y) \/ Readings!beaten(extreme, y, x)
         /\ \A z \in Int : Readings!beaten(extreme, x, y) /\ Readings!beaten(extreme, y, z)
              => Readings!beaten(extreme, x, z)
<1>1. CASE extreme = "Lowest"
  BY <1>1 DEF Readings!beaten
<1>2. CASE extreme = "Highest"
  BY <1>2 DEF Readings!beaten
<1> QED
  BY <1>1, <1>2 DEF Extremes

LEMMA UnbeatenIsPart ==
  ASSUME NEW extreme \in Extremes, NEW entries \in Seq(Samples), NEW value \in Int
  PROVE  \E k \in 0..Len(entries) :
           LET kept == Readings!Unbeaten(extreme, entries, value)
           IN  /\ kept \in Seq(Samples) /\ Len(kept) = k
               /\ \A i \in 1..k : kept[i] = entries[i]
               /\ k > 0 => ~Readings!beaten(extreme, entries[k][2], value)
               /\ \A i \in (k + 1)..Len(entries) : Readings!beaten(extreme, entries[i][2], value)
<1> DEFINE Beaten(i) == Readings!beaten(extreme, entries[i][2], value)
           Ends(k) == (k > 0 => ~Beaten(k)) /\ \A i \in (k + 1)..Len(entries) : Beaten(i)
           k == CHOOSE n \in 0..Len(entries) : Ends(n)
<1>1. Len(entries) \in Nat /\ \A i \in 1..Len(entries) : entries[i] \in Samples
  OBVIOUS
<1>2. \E n \in 0..Len(entries) : Ends(n)
  <2> DEFINE S == {0} \cup {i \in 1..Len(entries) : ~Beaten(i)}
  <2>1. PICK n \in S : \A r \in S : r <= n
    BY <1>1, GreatestOf, S \in SUBSET (0..Len(entries))
  <2>2. \A i \in (n + 1)..Len(entries) : i \in 1..Len(entries) /\ i \notin S
    BY <1>1, <2>1
  <2> QED BY <1>1, <2>1, <2>2
<1>3. k \in 0..Len(entries) /\ Ends(k)
  BY <1>2
<1>4. Readings!Unbeaten(extreme, entries, value) = SubSeq(entries, 1, k)
  BY DEF Readings!Unbeaten
<1> HIDE DEF k
<1>5. /\ SubSeq(entries, 1, k) \in Seq(Samples) /\ Len(SubSeq(entries, 1, k)) = k
      /\ \A i \in 1..k : SubSeq(entries, 1, k)[i] = entries[i]
  BY <1>1, <1>3, SubSeqProperties
<1> QED
  BY <1>1, <1>3, <1>4, <1>5

IsBack(recent, entries, horizon) ==
  \E from \in 0..(Len(entries) - 1) :
    /\ recent \in Seq(Samples) /\ Len(recent) = Len(entries) - from
    /\ \A i \in 1..Len(recent) : recent[i] = entries[i + from]
    /\ recent[1][1] >= horizon
    /\ \A i \in 1..from : entries[i][1] < horizon

LEMMA RecentIsPart ==
  ASSUME NEW entries \in Seq(Samples), NEW horizon \in Int,
         \E i \in 1..Len(entries) : entries[i][1] >= horizon
  PROVE  IsBack(Readings!Recent(entries, horizon), entries, horizon)
<1> DEFINE Starts(k) == entries[k][1] >= horizon /\ \A i \in 1..(k - 1) : entries[i][1] < horizon
           k == CHOOSE n \in DOMAIN entries : Starts(n)
<1>1. /\ Len(entries) \in Nat /\ DOMAIN entries = 1..Len(entries)
      /\ \A i \in 1..Len(entries) : entries[i] \in Samples /\ entries[i][1] \in Nat
  BY DEF Samples
<1>2. \E n \in DOMAIN entries : Starts(n)
  <2> DEFINE S == {i \in 1..Len(entries) : entries[i][1] >= horizon}
  <2>1. PICK n \in S : \A r \in S : n <= r
    BY <1>1, LeastOf, S \in SUBSET Nat
  <2>2. \A i \in 1..(n - 1) : i \in 1..Len(entries) /\ i \notin S
    BY <1>1, <2>1
  <2>3. n \in DOMAIN entries /\ entries[n][1] >= horizon
    BY <1>1, <2>1
  <2>4. \A i \in 1..(n - 1) : entries[i][1] < horizon
    BY <1>1, <2>2
  <2> QED BY <2>3, <2>4
<1>3. k \in 1..Len(entries) /\ Starts(k)
  BY <1>1, <1>2
<1>4. Readings!Recent(entries, horizon) = SubSeq(entries, k, Len(entries))
  BY DEF Readings!Recent
<1> HIDE DEF k
<1> DEFINE from == k - 1
           recent == SubSeq(entries, k, Len(entries))
<1>5. /\ recent \in Seq(Samples) /\ Len(recent) = Len(entries) - k + 1
      /\ \A i \in 1..(Len(entries) - k + 1) : recent[i] = entries[k + i - 1]
  BY <1>1, <1>3, SubSeqProperties
<1> HIDE DEF recent
<1>6. /\ from \in 0..(Len(entries) - 1) /\ Len(recent) = Len(entries) - from
      /\ \A i \in 1..Len(recent) : recent[i] = entries[i + from]
      /\ recent[1] = entries[k]
  <2>1. k \in 1..Len(entries) /\ Len(entries) \in Nat
    BY <1>1, <1>3
  <2>2. from \in 0..(Len(entries) - 1) /\ Len(entries) - k + 1 = Len(entries) - from /\ k + 1 - 1 = k
    BY <2>1
  <2>3. \A i \in 1..(Len(entries) - k + 1) : k + i - 1 = i + from
    BY <2>1
  <2>4. 1 \in 1..(Len(entries) - k + 1)
    BY <2>1
  <2> HIDE DEF from
  <2> QED BY <1>5, <2>2, <2>3, <2>4
<1>7. \A i \in 1..from : entries[i][1] < horizon
  BY <1>3
<1>8. recent \in Seq(Samples) /\ recent[1][1] >= horizon
  BY <1>3, <1>5, <1>6
<1> HIDE DEF from
<1> QED
  BY <1>4, <1>6, <1>7, <1>8 DEF IsBack, recent

(* A push keeps the queue of one more sample, whichever is first and       *)
(* whatever went before.                                                   *)
LEMMA PushKeeps ==
  ASSUME NEW extreme \in Extremes, NEW window \in Nat, NEW taken \in SUBSET Samples,
         NEW entries \in Seq(Samples), NEW before \in Nat, NEW now \in Nat, NEW value \in Int,
         before <= now,
         \/ taken = {} /\ entries = <<>>
         \/ Keeps(extreme, window, taken, before, entries)
  PROVE  Keeps(extreme, window, taken \cup {<<now, value>>}, now,
               Readings!push(extreme, window, entries, now, value))
<1> DEFINE kept == Readings!Unbeaten(extreme, entries, value)
           new == <<now, value>>
           longer == Append(kept, new)
           horizon == Readings!Most(0, now - window)
           pushed == Readings!Recent(longer, horizon)
           Beaten(x, y) == Readings!beaten(extreme, x, y)
<1>1. /\ Len(entries) \in Nat
      /\ \A i \in 1..Len(entries) : entries[i] \in Samples /\ entries[i] \in taken
                                    /\ entries[i][1] \in Nat /\ entries[i][2] \in Int
  <2>1. Len(entries) \in Nat /\ \A i \in 1..Len(entries) : entries[i] \in Samples
    OBVIOUS
  <2>2. \A i \in 1..Len(entries) : entries[i] \in taken
    <3>1. CASE entries = <<>>
      BY <3>1
    <3>2. CASE Keeps(extreme, window, taken, before, entries)
      BY <3>2 DEF Keeps
    <3> QED BY <3>1, <3>2
  <2> QED BY <2>1, <2>2 DEF Samples
<1>2. PICK k \in 0..Len(entries) :
        /\ kept \in Seq(Samples) /\ Len(kept) = k
        /\ \A i \in 1..k : kept[i] = entries[i]
        /\ k > 0 => ~Beaten(entries[k][2], value)
        /\ \A i \in (k + 1)..Len(entries) : Beaten(entries[i][2], value)
  BY UnbeatenIsPart
<1>3. new \in Samples /\ new[1] = now /\ new[2] = value
  BY DEF Samples
<1> HIDE DEF kept, new
<1>4. /\ longer \in Seq(Samples) /\ Len(longer) = k + 1
      /\ \A i \in 1..k : longer[i] = entries[i]
      /\ longer[k + 1] = new
  BY <1>2, <1>3, AppendProperties
<1>5. horizon \in Nat /\ horizon >= now - window /\ horizon <= now
      /\ (horizon = now - window \/ horizon = 0)
  BY DEF Readings!Most
<1> HIDE DEF longer, horizon
<1>6. PICK from \in 0..k :
        /\ pushed \in Seq(Samples) /\ Len(pushed) = k + 1 - from
        /\ \A i \in 1..Len(pushed) : pushed[i] = longer[i + from]
        /\ pushed[1][1] >= horizon
        /\ \A i \in 1..from : longer[i][1] < horizon
  <2>1. k + 1 \in 1..Len(longer) /\ longer[k + 1][1] >= horizon /\ Len(longer) - 1 = k
    BY <1>3, <1>4, <1>5
  <2>2. \E i \in 1..Len(longer) : longer[i][1] >= horizon
    BY <2>1
  <2>3. pushed = Readings!Recent(longer, horizon)
    OBVIOUS
  <2> HIDE DEF pushed
  <2>4. horizon \in Int /\ longer \in Seq(Samples)
    BY <1>4, <1>5
  <2>5. IsBack(pushed, longer, horizon)
    BY <2>2, <2>3, <2>4, RecentIsPart
  <2> QED BY <1>4, <2>1, <2>5 DEF IsBack
<1>7. pushed = Readings!push(extreme, window, entries, now, value)
  BY DEF Readings!push, pushed, longer, kept, new, horizon
<1> HIDE DEF pushed
<1> DEFINE all == taken \cup {new}
<1>8. \A i \in 1..(k + 1) : longer[i] \in all /\ longer[i] \in Samples /\ longer[i][1] \in Nat /\ longer[i][2] \in Int
  <2> TAKE i \in 1..(k + 1)
  <2>1. CASE i = k + 1
    BY <1>3, <1>4, <2>1
  <2>2. CASE i \in 1..k
    <3>1. i \in 1..Len(entries) /\ longer[i] = entries[i]
      BY <1>1, <1>4, <2>2
    <3> QED BY <1>1, <3>1
  <2> QED BY <2>1, <2>2
(* Less and less extreme: what stays does not lose to what came.           *)
<1>9. \A i, j \in 1..(k + 1) : i < j => ~Beaten(longer[i][2], longer[j][2])
  <2>1. ASSUME NEW i \in 1..k, NEW j \in 1..k, i < j PROVE ~Beaten(entries[i][2], entries[j][2])
    <3>1. entries # <<>> /\ i \in 1..Len(entries) /\ j \in 1..Len(entries)
      BY <1>1, <2>1
    <3> QED BY <2>1, <3>1 DEF Keeps
  <2>2. ASSUME NEW i \in 1..k PROVE ~Beaten(entries[i][2], value)
    <3>1. k \in 1..Len(entries) /\ i \in 1..Len(entries) /\ ~Beaten(entries[k][2], value)
      BY <1>1, <1>2
    <3>2. CASE i = k
      BY <3>1, <3>2
    <3>3. CASE i < k
      <4>1. ~Beaten(entries[i][2], entries[k][2])
        BY <2>1, <3>1, <3>3
      <4>2. Beaten(entries[k][2], entries[i][2])
        BY <1>1, <3>1, <4>1, BeatenOrders
      <4> HIDE DEF Beaten
      <4>3. ASSUME Beaten(entries[i][2], value) PROVE FALSE
        <5>1. Beaten(entries[k][2], value)
          BY <1>1, <3>1, <4>2, <4>3, BeatenOrders DEF Beaten
        <5> QED BY <3>1, <5>1
      <4> QED BY <4>3
    <3> QED BY <3>2, <3>3
  <2>3. ASSUME NEW i \in 1..(k + 1), NEW j \in 1..(k + 1), i < j PROVE ~Beaten(longer[i][2], longer[j][2])
    <3>1. i \in 1..k /\ longer[i] = entries[i]
      BY <1>4, <2>3
    <3>2. CASE j = k + 1
      BY <1>3, <1>4, <2>2, <3>1, <3>2
    <3>3. CASE j \in 1..k
      BY <1>4, <2>1, <2>3, <3>1, <3>3
    <3> QED BY <3>2, <3>3
  <2> QED BY <2>3
(* What the window holds is beaten by what stays, or by what came.         *)
<1>10. ASSUME NEW s \in all, s[1] >= now - window
       PROVE  \E i \in 1..(k + 1) : longer[i][1] >= s[1] /\ Beaten(s[2], longer[i][2])
  <2>1. s \in Samples /\ s[1] \in Nat /\ s[2] \in Int
    BY <1>3 DEF Samples
  <2>2. CASE s = new
    <3>1. k + 1 \in 1..(k + 1) /\ longer[k + 1][1] >= s[1] /\ longer[k + 1][2] = s[2]
      BY <1>3, <1>4, <2>1, <2>2
    <3> QED BY <2>1, <3>1, BeatenOrders
  <2>3. CASE s \in taken
    <3>1. s[1] >= before - window
      BY <1>10, <2>1
    <3>2. PICK i \in 1..Len(entries) : entries[i][1] >= s[1] /\ Beaten(s[2], entries[i][2])
      BY <2>3, <3>1 DEF Keeps
    <3>3. CASE i <= k
      <4>1. i \in 1..(k + 1) /\ longer[i] = entries[i]
        BY <1>4, <3>3
      <4> QED BY <3>2, <4>1
    <3>4. CASE i > k
      <4>1. Beaten(entries[i][2], value)
        BY <1>2, <3>4
      <4>2. Beaten(s[2], value)
        BY <1>1, <2>1, <3>2, <4>1, BeatenOrders
      <4>3. s[1] <= before
        BY <2>3 DEF Keeps
      <4> QED BY <1>3, <1>4, <2>1, <4>2, <4>3
    <3> QED BY <3>3, <3>4
  <2> QED BY <2>2, <2>3
(* The pops from the front take nothing the window holds.                  *)
<1>11. \A i \in 1..Len(pushed) : i + from \in 1..(k + 1) /\ pushed[i] = longer[i + from]
  BY <1>2, <1>6
<1>12. Len(pushed) \in Nat /\ 1 \in 1..Len(pushed) /\ pushed # <<>>
  BY <1>1, <1>2, <1>6, EmptySeq
<1>13. \A i \in 1..Len(pushed) : pushed[i] \in all
  BY <1>8, <1>11
<1>14. pushed[1][1] >= now - window
  <2>1. pushed[1] \in Samples /\ pushed[1][1] \in Nat
    BY <1>8, <1>11, <1>12
  <2> QED BY <1>5, <1>6, <2>1
<1>15. \A i, j \in 1..Len(pushed) : i < j => ~Beaten(pushed[i][2], pushed[j][2])
  <2> SUFFICES ASSUME NEW i \in 1..Len(pushed), NEW j \in 1..Len(pushed), i < j
               PROVE  ~Beaten(pushed[i][2], pushed[j][2])
    OBVIOUS
  <2>1. i + from < j + from
    BY <1>1, <1>6
  <2> QED BY <1>9, <1>11, <2>1
<1>16. \A s \in all : s[1] <= now
  <2> SUFFICES ASSUME NEW s \in taken PROVE s[1] <= now
    BY <1>3
  <2>1. s[1] <= before /\ s[1] \in Nat
    BY DEF Keeps, Samples
  <2> QED BY <2>1
<1>17. ASSUME NEW s \in all, s[1] >= now - window
       PROVE  \E i \in 1..Len(pushed) : pushed[i][1] >= s[1] /\ Beaten(s[2], pushed[i][2])
  <2>1. s[1] \in Nat
    BY <1>3 DEF Samples
  <2>2. PICK i \in 1..(k + 1) : longer[i][1] >= s[1] /\ Beaten(s[2], longer[i][2])
    BY <1>10, <1>17
  <2>3. longer[i][1] >= horizon /\ longer[i][1] \in Nat
    BY <1>5, <1>8, <1>17, <2>1, <2>2
  <2>4. i > from
    BY <1>2, <1>5, <1>6, <2>3
  <2>5. i - from \in 1..Len(pushed) /\ (i - from) + from = i
    BY <1>2, <1>6, <2>4
  <2>6. pushed[i - from] = longer[i]
    BY <1>6, <2>5
  <2> QED BY <2>2, <2>5, <2>6
<1>18. pushed \in Seq(Samples) /\ all \in SUBSET Samples
  BY <1>3, <1>6
<1> HIDE DEF Beaten
<1>19. Keeps(extreme, window, all, now, pushed)
  BY <1>12, <1>13, <1>14, <1>15, <1>16, <1>17, <1>18 DEF Keeps, Beaten
<1> QED
  BY <1>7, <1>19 DEF new

LEMMA PushTyped ==
  ASSUME NEW extreme \in Extremes, NEW window \in Nat, NEW entries \in Seq(Samples),
         NEW now \in Nat, NEW value \in Int
  PROVE  LET pushed == Readings!push(extreme, window, entries, now, value)
         IN  pushed \in Seq(Samples) /\ pushed # <<>> /\ Readings!Value(pushed) \in Int
<1> DEFINE kept == Readings!Unbeaten(extreme, entries, value)
           longer == Append(kept, <<now, value>>)
           horizon == Readings!Most(0, now - window)
<1>1. kept \in Seq(Samples)
  BY UnbeatenIsPart
<1>2. <<now, value>> \in Samples /\ <<now, value>>[1] = now
  BY DEF Samples
<1>3. horizon \in Int /\ horizon <= now
  BY DEF Readings!Most
<1> HIDE DEF kept, horizon
<1>4. longer \in Seq(Samples) /\ Len(longer) \in 1..Len(longer) /\ longer[Len(longer)] = <<now, value>>
  BY <1>1, <1>2, AppendProperties
<1> HIDE DEF longer
<1>5. \E i \in 1..Len(longer) : longer[i][1] >= horizon
  BY <1>2, <1>3, <1>4
<1>6. IsBack(Readings!Recent(longer, horizon), longer, horizon)
  BY <1>3, <1>4, <1>5, RecentIsPart
<1> DEFINE pushed == Readings!Recent(longer, horizon)
<1>7. pushed \in Seq(Samples) /\ Len(pushed) \in Nat /\ Len(pushed) > 0
  BY <1>4, <1>6 DEF IsBack
<1>8. pushed = Readings!push(extreme, window, entries, now, value)
  BY DEF Readings!push, longer, kept, horizon
<1> HIDE DEF pushed
<1>9. pushed # <<>> /\ Head(pushed) = pushed[1] /\ pushed[1] \in Samples
  BY <1>7, EmptySeq
<1>10. Readings!Value(pushed) \in Int
  BY <1>9 DEF Readings!Value, Samples
<1> QED
  BY <1>7, <1>8, <1>9, <1>10

(* The values of a set of samples from some time on.                       *)
Since(taken, from) == {s[2] : s \in {t \in taken : t[1] >= from}}

LEMMA LowestIs ==
  ASSUME NEW S \in SUBSET Int, NEW v \in S, \A x \in S : v <= x
  PROVE  Readings!Lowest(S) = v
<1> DEFINE IsIt(x) == x \in S /\ \A y \in S : x <= y
<1>1. IsIt(v)
  OBVIOUS
<1>2. \A x : IsIt(x) => x = v
  OBVIOUS
<1>3. Readings!Lowest(S) = CHOOSE x \in S : \A y \in S : x <= y
  BY DEF Readings!Lowest
<1>4. IsIt(Readings!Lowest(S))
  BY <1>1, <1>3
<1> QED
  BY <1>2, <1>4

LEMMA HighestIs ==
  ASSUME NEW S \in SUBSET Int, NEW v \in S, \A x \in S : v >= x
  PROVE  Readings!Highest(S) = v
<1> DEFINE IsIt(x) == x \in S /\ \A y \in S : x >= y
<1>1. IsIt(v)
  OBVIOUS
<1>2. \A x : IsIt(x) => x = v
  OBVIOUS
<1>3. Readings!Highest(S) = CHOOSE x \in S : \A y \in S : x >= y
  BY DEF Readings!Highest
<1>4. IsIt(Readings!Highest(S))
  BY <1>1, <1>3
<1> QED
  BY <1>2, <1>4

IsExtreme(extreme, value, values) ==
  /\ values \in SUBSET Int /\ value \in values
  /\ extreme = "Lowest" => value = Readings!Lowest(values) /\ \A x \in values : value <= x
  /\ extreme = "Highest" => value = Readings!Highest(values) /\ \A x \in values : value >= x

(* The first of the queue is the extreme of what the window holds.         *)
LEMMA FirstIsExtreme ==
  ASSUME NEW extreme \in Extremes, NEW window \in Nat, NEW taken \in SUBSET Samples,
         NEW now \in Nat, NEW entries, Keeps(extreme, window, taken, now, entries)
  PROVE  IsExtreme(extreme, Readings!Value(entries), Since(taken, now - window))
<1> DEFINE values == Since(taken, now - window)
           first == entries[1][2]
<1>1. /\ entries \in Seq(Samples) /\ Len(entries) \in Nat /\ 1 \in 1..Len(entries)
      /\ Head(entries) = entries[1]
  <2>1. entries \in Seq(Samples) /\ entries # <<>>
    BY DEF Keeps
  <2> QED BY <2>1, EmptySeq
<1>2. \A i \in 1..Len(entries) : entries[i] \in Samples /\ entries[i][1] \in Nat /\ entries[i][2] \in Int
  BY <1>1 DEF Samples
<1>3. values \in SUBSET Int
  BY DEF Since, Samples
<1>4. first \in values
  <2>1. entries[1] \in taken /\ entries[1][1] >= now - window
    BY <1>1 DEF Keeps
  <2> QED BY <2>1 DEF Since
<1>5. ASSUME NEW x \in values PROVE Readings!beaten(extreme, x, first)
  <2>1. PICK s \in taken : s[1] >= now - window /\ x = s[2]
    BY <1>5 DEF Since
  <2>2. PICK i \in 1..Len(entries) : Readings!beaten(extreme, s[2], entries[i][2])
    BY <2>1 DEF Keeps
  <2>3. x \in Int /\ first \in Int /\ entries[i][2] \in Int
    BY <1>1, <1>2, <1>3, <1>5
  <2>4. Readings!beaten(extreme, entries[i][2], first)
    <3>1. CASE i = 1
      BY <2>3, <3>1, BeatenOrders
    <3>2. CASE i # 1
      <4>1. 1 < i
        BY <1>1, <3>2
      <4>2. ~Readings!beaten(extreme, first, entries[i][2])
        BY <1>1, <4>1 DEF Keeps
      <4> QED BY <2>3, <4>2, BeatenOrders
    <3> QED BY <3>1, <3>2
  <2> QED BY <2>1, <2>2, <2>3, <2>4, BeatenOrders
<1>6. Readings!Value(entries) = first
  BY <1>1 DEF Readings!Value
<1>7. first \in Int
  BY <1>1, <1>2
<1> HIDE DEF values, first
<1>8. extreme = "Lowest" => first = Readings!Lowest(values) /\ \A x \in values : first <= x
  <2> SUFFICES ASSUME extreme = "Lowest"
               PROVE  first = Readings!Lowest(values) /\ \A x \in values : first <= x
    OBVIOUS
  <2>1. \A x \in values : first <= x
    BY <1>3, <1>5, <1>7 DEF Readings!beaten
  <2> QED BY <1>3, <1>4, <2>1, LowestIs
<1>9. extreme = "Highest" => first = Readings!Highest(values) /\ \A x \in values : first >= x
  <2> SUFFICES ASSUME extreme = "Highest"
               PROVE  first = Readings!Highest(values) /\ \A x \in values : first >= x
    OBVIOUS
  <2>1. \A x \in values : first >= x
    BY <1>3, <1>5, <1>7 DEF Readings!beaten
  <2> QED BY <1>3, <1>4, <2>1, HighestIs
<1> QED
  BY <1>3, <1>4, <1>6, <1>8, <1>9 DEF values, IsExtreme

(* The readings of AudioHold, and what they are of samples that were taken *)
(* since the first.                                                        *)
HoldConstants ==
  /\ None \notin Nat
  /\ RaiseWindow \in Nat /\ RelaxWindow \in Nat /\ BurstWindow \in Nat
  /\ RaiseMin \in Nat /\ RelaxMin \in Nat /\ Margin \in Int /\ HoldMax \in Nat

Holds == [first : Nat \cup {None}, lowest : Seq(Samples), highest : Seq(Samples)]

Observes(h, taken, first, now) ==
  /\ h.first = first
  /\ Keeps("Lowest", RaiseWindow, taken, now, h.lowest)
  /\ Keeps("Highest", RelaxWindow, taken, now, h.highest)

LEMMA ObserveTyped ==
  ASSUME HoldConstants, NEW h \in Holds, NEW now \in Nat, NEW skew \in Int
  PROVE  Readings!observe(h, now, skew) \in Holds
<1>1. /\ h.first \in Nat \cup {None} /\ h.lowest \in Seq(Samples) /\ h.highest \in Seq(Samples)
  BY DEF Holds
<1>2. /\ Readings!push("Lowest", RaiseWindow, h.lowest, now, skew) \in Seq(Samples)
      /\ Readings!push("Highest", RelaxWindow, h.highest, now, skew) \in Seq(Samples)
  BY <1>1, PushTyped DEF HoldConstants, Extremes
<1>3. (IF h.first = None THEN now ELSE h.first) \in Nat \cup {None}
  BY <1>1
<1> QED
  BY <1>2, <1>3, Zenon DEF Readings!observe, Holds

LEMMA NoReadingsTyped == Readings!NoReadings \in Holds
<1>1. <<>> \in Seq(Samples)
  OBVIOUS
<1> QED
  BY <1>1 DEF Readings!NoReadings, Holds

(* One more reading is one more sample of both windows.                    *)
LEMMA ObserveKeeps ==
  ASSUME HoldConstants, NEW h \in Holds, NEW taken \in SUBSET Samples, NEW first \in Nat,
         NEW before \in Nat, NEW now \in Nat, NEW skew \in Int, before <= now,
         \/ taken = {} /\ h = Readings!NoReadings /\ first = now
         \/ Observes(h, taken, first, before)
  PROVE  Observes(Readings!observe(h, now, skew), taken \cup {<<now, skew>>}, first, now)
<1>1. h.lowest \in Seq(Samples) /\ h.highest \in Seq(Samples)
  BY DEF Holds
<1>2. /\ \/ taken = {} /\ h.lowest = <<>>
         \/ Keeps("Lowest", RaiseWindow, taken, before, h.lowest)
      /\ \/ taken = {} /\ h.highest = <<>>
         \/ Keeps("Highest", RelaxWindow, taken, before, h.highest)
      /\ first = IF h.first = None THEN now ELSE h.first
  BY DEF Observes, Readings!NoReadings, HoldConstants
<1>3. Keeps("Lowest", RaiseWindow, taken \cup {<<now, skew>>}, now,
            Readings!push("Lowest", RaiseWindow, h.lowest, now, skew))
  BY <1>1, <1>2, PushKeeps DEF HoldConstants, Extremes
<1>4. Keeps("Highest", RelaxWindow, taken \cup {<<now, skew>>}, now,
            Readings!push("Highest", RelaxWindow, h.highest, now, skew))
  BY <1>1, <1>2, PushKeeps DEF HoldConstants, Extremes
<1> QED
  BY <1>2, <1>3, <1>4, Zenon DEF Readings!observe, Observes

(* A series of samples, and those taken by the k-th.                       *)
Series == {h \in Seq(Samples) : h # <<>> /\ \A k \in 2..Len(h) : h[k - 1][1] <= h[k][1]}
Taken(h, k) == {h[j] : j \in 1..k}

LEMMA SeriesTyped ==
  ASSUME NEW h \in Series
  PROVE  /\ Len(h) \in Nat /\ 1 \in 1..Len(h) /\ Len(h) \in 1..Len(h)
         /\ \A k \in 1..Len(h) : /\ h[k] \in Samples /\ h[k][1] \in Nat /\ h[k][2] \in Int
                                 /\ h[k] = <<h[k][1], h[k][2]>>
<1>1. h \in Seq(Samples) /\ h # <<>>
  BY DEF Series
<1>2. Len(h) \in Nat /\ Len(h) # 0
  BY <1>1, EmptySeq
<1>3. \A k \in 1..Len(h) : h[k] \in Samples
  BY <1>1
<1> QED
  BY <1>2, <1>3 DEF Samples

(* It is in order of time.                                                 *)
LEMMA SeriesInOrder ==
  ASSUME NEW h \in Series, NEW j \in 1..Len(h)
  PROVE  \A k \in j..Len(h) : h[j][1] <= h[k][1]
<1> DEFINE n == Len(h) - j
           S == {i \in 0..n : h[j][1] <= h[j + i][1]}
<1>1. n \in Nat /\ Len(h) \in Nat /\ \A k \in 1..Len(h) : h[k][1] \in Nat
  BY SeriesTyped
<1>2. 0 \in S
  BY <1>1
<1>3. ASSUME NEW i \in 0..(n - 1), i \in S PROVE i + 1 \in S
  <2>1. j + i + 1 \in 2..Len(h) /\ (j + i + 1) - 1 = j + i /\ j + i \in 1..Len(h) /\ i + 1 \in 0..n
        /\ j + (i + 1) = j + i + 1
    BY <1>1
  <2>2. h[j + i][1] <= h[j + i + 1][1]
    BY <2>1 DEF Series
  <2>3. h[j][1] <= h[j + i][1] /\ j \in 1..Len(h)
    BY <1>3
  <2>4. h[j][1] \in Nat /\ h[j + i][1] \in Nat /\ h[j + i + 1][1] \in Nat
    <3>1. j + i + 1 \in 1..Len(h)
      BY <1>1, <2>1
    <3> QED BY <1>1, <2>1, <2>3, <3>1
  <2>5. h[j][1] <= h[j + i + 1][1]
    <3>1. \A x, y, z \in Nat : x <= y /\ y <= z => x <= z
      OBVIOUS
    <3> QED BY <2>2, <2>3, <2>4, <3>1, Zenon
  <2> QED BY <2>1, <2>5
<1> HIDE DEF S
<1>4. \A i \in 0..n : i \in S
  BY <1>1, <1>2, <1>3, Reached
<1> SUFFICES ASSUME NEW k \in j..Len(h) PROVE h[j][1] <= h[k][1]
  OBVIOUS
<1>5. k - j \in 0..n /\ j + (k - j) = k
  BY <1>1
<1> QED
  BY <1>4, <1>5 DEF S

LEMMA TakenGrows ==
  ASSUME NEW h \in Series, NEW k \in 0..Len(h)
  PROVE  /\ Taken(h, k) \in SUBSET Samples
         /\ Taken(h, 0) = {}
         /\ k < Len(h) => Taken(h, k + 1) = Taken(h, k) \cup {h[k + 1]}
<1>1. Len(h) \in Nat /\ \A j \in 1..Len(h) : h[j] \in Samples
  BY SeriesTyped
<1>2. k < Len(h) => 1..(k + 1) = (1..k) \cup {k + 1}
  BY <1>1
<1>3. 1..0 = {}
  OBVIOUS
<1>4. 1..k \subseteq 1..Len(h)
  BY <1>1
<1> QED
  BY <1>1, <1>2, <1>3, <1>4 DEF Taken

(* After every reading of a series the readings are of all up to it.       *)
LEMMA ObservedReads ==
  ASSUME HoldConstants, NEW history \in Series
  PROVE  Observes(Readings!Observed(history)[Len(history)], Taken(history, Len(history)),
                  history[1][1], history[Len(history)][1])
<1> DEFINE n == Len(history)
           After(h, k) == Readings!observe(h, history[k][1], history[k][2])
           step == [k \in 1..n |-> [h \in Holds |-> After(h, k)]]
           Is(a) == a = [k \in 0..n |-> IF k = 0 THEN Readings!NoReadings ELSE After(a[k - 1], k)]
<1>1. /\ n \in Nat /\ 1 \in 1..n /\ n \in 1..n
      /\ \A k \in 1..n : history[k] \in Samples /\ history[k][1] \in Nat /\ history[k][2] \in Int
                         /\ history[k] = <<history[k][1], history[k][2]>>
  BY SeriesTyped
<1>2. \A k \in 1..n : \A h \in Holds : After(h, k) \in Holds
  BY <1>1, ObserveTyped
<1>3. step \in [1..n -> [Holds -> Holds]]
  BY <1>2
<1> HIDE DEF After
<1>4. \A k \in 1..n : \A h \in Holds : step[k][h] = After(h, k)
  OBVIOUS
<1> HIDE DEF step
<1>5. PICK f \in [0..n -> Holds] : f[0] = Readings!NoReadings /\ \A k \in 1..n : f[k] = step[k][f[k - 1]]
  <2>1. HasRun(n, Holds, Readings!NoReadings, step)
    BY <1>1, <1>3, NoReadingsTyped, Iterates
  <2> QED BY <2>1 DEF HasRun
<1>6. Is(f)
  <2>1. \A k \in 0..n : f[k] = IF k = 0 THEN Readings!NoReadings ELSE After(f[k - 1], k)
    <3> SUFFICES ASSUME NEW k \in 0..n, k # 0 PROVE f[k] = After(f[k - 1], k)
      BY <1>5
    <3>1. k \in 1..n /\ k - 1 \in 0..n
      BY <1>1
    <3>2. f[k - 1] \in Holds
      BY <3>1
    <3> QED BY <1>4, <1>5, <3>1, <3>2
  <2> QED BY <1>5, <2>1
<1>7. Is(Readings!Observed(history))
  BY <1>6, Zenon DEF Readings!Observed, After
<1> DEFINE a == Readings!Observed(history)
<1> HIDE DEF a
<1>8. a[0] = Readings!NoReadings /\ \A k \in 1..n : a[k] = After(a[k - 1], k)
  <2>1. Is(a)
    BY <1>7 DEF a
  <2>2. 0 \in 0..n /\ \A k \in 1..n : k \in 0..n /\ k # 0
    BY <1>1
  <2> QED BY <2>1, <2>2
<1> DEFINE Good(k) == /\ a[k] \in Holds
                      /\ IF k = 0 THEN a[k] = Readings!NoReadings
                         ELSE Observes(a[k], Taken(history, k), history[1][1], history[k][1])
           S == {k \in 0..n : Good(k)}
<1>9. 0 \in S
  BY <1>1, <1>8, NoReadingsTyped
<1>10. ASSUME NEW k \in 0..(n - 1), k \in S PROVE k + 1 \in S
  <2>1. k + 1 \in 1..n /\ a[k + 1] = After(a[k], k + 1) /\ a[k] \in Holds
    BY <1>1, <1>8, <1>10
  <2>2. Taken(history, k + 1) = Taken(history, k) \cup {<<history[k + 1][1], history[k + 1][2]>>}
        /\ Taken(history, k) \in SUBSET Samples
    <3>1. k \in 0..n /\ k < n /\ history[k + 1] = <<history[k + 1][1], history[k + 1][2]>>
      BY <1>1, <2>1
    <3> QED BY <3>1, TakenGrows
  <2>3. history[k + 1][1] \in Nat /\ history[k + 1][2] \in Int
    BY <1>1, <2>1
  <2>4. Observes(a[k + 1], Taken(history, k + 1), history[1][1], history[k + 1][1])
    <3>1. CASE k = 0
      <4>1. Taken(history, k) = {} /\ a[k] = Readings!NoReadings /\ history[1][1] = history[k + 1][1]
        BY <1>8, <3>1, TakenGrows
      <4>2. a[k + 1] = Readings!observe(a[k], history[k + 1][1], history[k + 1][2])
        BY <2>1 DEF After
      <4> DEFINE now == history[k + 1][1]
                 skew == history[k + 1][2]
      <4>3. now \in Nat /\ now <= now /\ skew \in Int
        BY <2>3
      <4>4. {} \in SUBSET Samples
        OBVIOUS
      <4> HIDE DEF now, skew
      <4>5. Observes(Readings!observe(a[k], now, skew), {} \cup {<<now, skew>>}, now, now)
        BY <2>1, <4>1, <4>3, <4>4, ObserveKeeps
      <4> QED BY <2>2, <4>1, <4>2, <4>5 DEF now, skew
    <3>2. CASE k # 0
      <4>1. Observes(a[k], Taken(history, k), history[1][1], history[k][1])
        BY <1>10, <3>2
      <4>2. k \in 1..n /\ history[k][1] \in Nat /\ history[1][1] \in Nat
        BY <1>1, <3>2
      <4>3. k + 1 \in 2..n /\ (k + 1) - 1 = k
        BY <1>1, <3>2
      <4>4. history[k][1] <= history[k + 1][1]
        BY <4>3 DEF Series
      <4> QED BY <2>1, <2>2, <2>3, <4>1, <4>2, <4>4, ObserveKeeps DEF After
    <3> QED BY <3>1, <3>2
  <2>5. a[k + 1] \in Holds /\ k + 1 # 0 /\ k + 1 \in 0..n
    <3>1. Readings!observe(a[k], history[k + 1][1], history[k + 1][2]) \in Holds
      BY <2>1, <2>3, ObserveTyped
    <3> QED BY <1>1, <2>1, <3>1 DEF After
  <2> QED BY <2>4, <2>5
<1> HIDE DEF S
<1>11. n \in S
  <2>1. \A k \in 0..n : k \in S
    BY <1>1, <1>9, <1>10, Reached
  <2> QED BY <1>1, <2>1
<1>12. n # 0 /\ Good(n)
  BY <1>1, <1>11 DEF S
<1> QED
  BY <1>12 DEF a

(* A hold grows with the skew it is of, and so do the extremes of holds.   *)
LEMMA HoldGrows ==
  ASSUME HoldConstants, NEW covered \in Int, NEW S \in SUBSET Int
  PROVE  LET asked == {Readings!hold_ms(x, covered) : x \in S}
         IN  /\ asked \in SUBSET Int
             /\ \A v \in S : (\A x \in S : v <= x) =>
                  Readings!Lowest(asked) = Readings!hold_ms(v, covered)
             /\ \A v \in S : (\A x \in S : v >= x) =>
                  Readings!Highest(asked) = Readings!hold_ms(v, covered)
<1> DEFINE asked == {Readings!hold_ms(x, covered) : x \in S}
<1>1. \A x \in Int : Readings!hold_ms(x, covered) \in Int
  BY DEF HoldConstants, Readings!hold_ms, Readings!Most, Readings!Least
<1>2. \A x, y \in Int : x <= y => Readings!hold_ms(x, covered) <= Readings!hold_ms(y, covered)
  BY DEF HoldConstants, Readings!hold_ms, Readings!Most, Readings!Least
<1>3. asked \in SUBSET Int
  BY <1>1
<1>4. ASSUME NEW v \in S, \A x \in S : v <= x
      PROVE  Readings!Lowest(asked) = Readings!hold_ms(v, covered)
  <2>1. Readings!hold_ms(v, covered) \in asked
    OBVIOUS
  <2>2. \A h \in asked : Readings!hold_ms(v, covered) <= h
    BY <1>2, <1>4
  <2> HIDE DEF asked
  <2> QED BY <1>3, <2>1, <2>2, LowestIs
<1>5. ASSUME NEW v \in S, \A x \in S : v >= x
      PROVE  Readings!Highest(asked) = Readings!hold_ms(v, covered)
  <2>1. Readings!hold_ms(v, covered) \in asked
    OBVIOUS
  <2>2. \A h \in asked : Readings!hold_ms(v, covered) >= h
    BY <1>2, <1>5
  <2> HIDE DEF asked
  <2> QED BY <1>3, <2>1, <2>2, HighestIs
<1> QED
  BY <1>3, <1>4, <1>5

(* The hold of a series of readings (AudioHold::regulate): it is raised to *)
(* what every reading of the raise window asks for and no further, whenever *)
(* they all ask for enough, and released to what none of the relax window  *)
(* exceeds, for every window, series, hold and cover.                      *)
THEOREM HoldFollows ==
  ASSUME HoldConstants, NEW history \in Series, NEW current \in Int, NEW covered \in Int
  PROVE  Readings!HoldFollowsTheWindow(history, current, covered)
<1> DEFINE n == Len(history)
           h == Readings!Observed(history)[n]
           now == history[n][1]
           first == history[1][1]
           Lately(window) == Readings!Lately(history, window)
           Asked(window) == {Readings!hold_ms(x, covered) : x \in Lately(window)}
           raised == Readings!hold_ms(Readings!Value(h.lowest), covered)
           released == Readings!hold_ms(Readings!Value(h.highest), covered)
           to == Readings!regulate(h, now, current, covered)
<1>1. n \in Nat /\ 1 \in 1..n /\ n \in 1..n /\ first \in Nat /\ now \in Nat
  BY SeriesTyped
<1>2. Observes(h, Taken(history, n), first, now)
  BY ObservedReads
<1>3. Taken(history, n) \in SUBSET Samples
  BY <1>1, TakenGrows
<1>4. \A window \in Nat : Lately(window) = Since(Taken(history, n), now - window)
  BY DEF Readings!Lately, Readings!Now, Since, Taken
<1> HIDE DEF h, now, first, n, Lately
<1>5. /\ Lately(RaiseWindow) \in SUBSET Int /\ Readings!Value(h.lowest) \in Lately(RaiseWindow)
      /\ Readings!Value(h.lowest) = Readings!Lowest(Lately(RaiseWindow))
      /\ \A x \in Lately(RaiseWindow) : Readings!Value(h.lowest) <= x
  <2>1. Keeps("Lowest", RaiseWindow, Taken(history, n), now, h.lowest) /\ RaiseWindow \in Nat /\ "Lowest" \in Extremes
    BY <1>2 DEF Observes, HoldConstants, Extremes
  <2>2. Lately(RaiseWindow) = Since(Taken(history, n), now - RaiseWindow)
    BY <1>4, <2>1
  <2>3. IsExtreme("Lowest", Readings!Value(h.lowest), Since(Taken(history, n), now - RaiseWindow))
    BY <1>1, <1>3, <2>1, FirstIsExtreme
  <2> QED BY <2>2, <2>3 DEF IsExtreme
<1>6. /\ Lately(RelaxWindow) \in SUBSET Int /\ Readings!Value(h.highest) \in Lately(RelaxWindow)
      /\ Readings!Value(h.highest) = Readings!Highest(Lately(RelaxWindow))
      /\ \A x \in Lately(RelaxWindow) : Readings!Value(h.highest) >= x
  <2>1. Keeps("Highest", RelaxWindow, Taken(history, n), now, h.highest) /\ RelaxWindow \in Nat /\ "Highest" \in Extremes
    BY <1>2 DEF Observes, HoldConstants, Extremes
  <2>2. Lately(RelaxWindow) = Since(Taken(history, n), now - RelaxWindow)
    BY <1>4, <2>1
  <2>3. IsExtreme("Highest", Readings!Value(h.highest), Since(Taken(history, n), now - RelaxWindow))
    BY <1>1, <1>3, <2>1, FirstIsExtreme
  <2> QED BY <2>2, <2>3 DEF IsExtreme
<1>7. raised = Readings!Lowest(Asked(RaiseWindow)) /\ released = Readings!Highest(Asked(RelaxWindow))
  BY <1>5, <1>6, HoldGrows
<1>8. raised \in Int /\ released \in Int
  <2>1. \A x \in Int : Readings!hold_ms(x, covered) \in Int
    BY DEF HoldConstants, Readings!hold_ms, Readings!Most, Readings!Least
  <2> QED BY <1>5, <1>6, <2>1
<1>9. h.first = first /\ first # None
  BY <1>1, <1>2 DEF Observes, HoldConstants
<1> HIDE DEF raised, released, Asked
<1>10. to = IF now - first >= RaiseWindow /\ raised # current /\ raised >= current + RaiseMin THEN raised
            ELSE IF now - first >= RelaxWindow /\ released + RelaxMin < current THEN released
            ELSE current
  BY <1>9 DEF Readings!regulate, raised, released
<1>11. \A window \in Nat : Readings!LongerThan(history, window) <=> now - first >= window
  BY <1>1 DEF Readings!LongerThan, Readings!Now, now, first, n
<1> HIDE DEF to
<1>12. /\ to > current => now - first >= RaiseWindow /\ to = raised
       /\ now - first >= RaiseWindow /\ current + RaiseMin <= raised => to > current \/ RaiseMin = 0
       /\ to < current => now - first >= RelaxWindow /\ to = released
  BY <1>1, <1>8, <1>10 DEF HoldConstants
<1>13. /\ to > current => Readings!LongerThan(history, RaiseWindow) /\ to = Readings!Lowest(Asked(RaiseWindow))
       /\ Readings!LongerThan(history, RaiseWindow) /\ current + RaiseMin <= Readings!Lowest(Asked(RaiseWindow))
            => to > current \/ RaiseMin = 0
       /\ to < current => Readings!LongerThan(history, RelaxWindow) /\ to = Readings!Highest(Asked(RelaxWindow))
  BY <1>7, <1>11, <1>12 DEF HoldConstants
<1> QED
  BY <1>13 DEF Readings!HoldFollowsTheWindow, Readings!Now, to, h, now, n, Asked, Lately

(* Questions, each no earlier than the one before.                         *)
Questions == Nat \X BOOLEAN \X BOOLEAN
Asking == {q \in Seq(Questions) : \A k \in 2..Len(q) : q[k - 1][1] <= q[k][1]}
Waits == [done : BOOLEAN, since : Nat \cup {None}, waits : BOOLEAN]

(* What a question does to the wait: it begins it, or leaves its beginning  *)
(* alone, and is told to wait only while nothing is measured and the wait   *)
(* is not over.                                                            *)
IsAnswer(next, w, is_measured, now) ==
  /\ next \in Waits
  /\ next.since = w.since \/ (w.since = None /\ next.since = now)
  /\ next.waits => ~is_measured /\ next.since # None /\ now - next.since < PrimeWait

LEMMA AnswerIs ==
  ASSUME None \notin Nat, PrimeWait \in Nat \ {0},
         NEW w \in Waits, NEW now \in Nat, NEW is_measured \in BOOLEAN, NEW present \in BOOLEAN
  PROVE  IsAnswer(Readings!prime_may_wait(w, is_measured, present, now), w, is_measured, now)
<1> DEFINE next == Readings!prime_may_wait(w, is_measured, present, now)
<1> SUFFICES /\ next \in Waits
             /\ next.since = w.since \/ (w.since = None /\ next.since = now)
             /\ next.waits => ~is_measured /\ next.since # None /\ now - next.since < PrimeWait
  BY DEF IsAnswer
<1>0. w.done \in BOOLEAN /\ w.since \in Nat \cup {None} /\ w.waits \in BOOLEAN
      /\ w = [done |-> w.done, since |-> w.since, waits |-> w.waits]
  BY DEF Waits
<1>1. CASE w.done \/ ~present
  <2>1. next = [w EXCEPT !.waits = FALSE]
    BY <1>1 DEF Readings!prime_may_wait
  <2> QED BY <1>0, <2>1 DEF Waits
<1>2. CASE ~(w.done \/ ~present) /\ is_measured
  <2>1. next = [w EXCEPT !.done = TRUE, !.waits = FALSE]
    BY <1>2 DEF Readings!prime_may_wait
  <2> QED BY <1>0, <2>1 DEF Waits
<1>3. CASE ~(w.done \/ ~present) /\ ~is_measured /\ w.since = None
  <2>1. next = [w EXCEPT !.since = now, !.waits = TRUE]
    BY <1>3 DEF Readings!prime_may_wait
  <2>2. next.since = now /\ next \in Waits
    BY <1>0, <2>1 DEF Waits
  <2> QED BY <1>3, <2>2
<1>4. CASE ~(w.done \/ ~present) /\ ~is_measured /\ w.since # None /\ now - w.since < PrimeWait
  <2>1. next = [w EXCEPT !.waits = TRUE]
    BY <1>4 DEF Readings!prime_may_wait
  <2>2. next.since = w.since /\ next \in Waits
    BY <1>0, <2>1 DEF Waits
  <2> QED BY <1>4, <2>2
<1>5. CASE ~(w.done \/ ~present) /\ ~is_measured /\ w.since # None /\ ~(now - w.since < PrimeWait)
  <2>1. next = [w EXCEPT !.done = TRUE, !.waits = FALSE]
    BY <1>5 DEF Readings!prime_may_wait
  <2> QED BY <1>0, <2>1 DEF Waits
<1> QED
  BY <1>1, <1>2, <1>3, <1>4, <1>5

(* Audio that is ready waits for a reading of the skew no longer than      *)
(* PrimeWait, and never once there is one (prime_may_wait), however often  *)
(* and whenever the pump asks.                                             *)
THEOREM PrimingWaitsNoLonger ==
  ASSUME None \notin Nat, PrimeWait \in Nat \ {0}, NEW questions \in Asking
  PROVE  Readings!WaitIsBounded(questions)
<1> DEFINE n == Len(questions)
           when(k) == questions[k][1]
           After(w, k) == Readings!prime_may_wait(w, questions[k][2], questions[k][3], questions[k][1])
           step == [k \in 1..n |-> [w \in Waits |-> After(w, k)]]
           Is(a) == a = [k \in 0..n |-> IF k = 0 THEN Readings!NotAsked ELSE After(a[k - 1], k)]
<1>1. n \in Nat /\ \A k \in 1..n : /\ questions[k] \in Questions
                                   /\ when(k) \in Nat /\ questions[k][2] \in BOOLEAN /\ questions[k][3] \in BOOLEAN
  <2>1. questions \in Seq(Questions)
    BY DEF Asking
  <2>2. n \in Nat /\ \A k \in 1..n : questions[k] \in Questions
    BY <2>1
  <2> QED BY <2>2 DEF Questions
<1>2. \A k \in 1..n : \A w \in Waits : After(w, k) \in Waits
  BY <1>1, AnswerIs DEF IsAnswer
<1>3. step \in [1..n -> [Waits -> Waits]]
  BY <1>2
<1> HIDE DEF After
<1>4. \A k \in 1..n : \A w \in Waits : step[k][w] = After(w, k)
  OBVIOUS
<1> HIDE DEF step
<1>5. Readings!NotAsked \in Waits /\ Readings!NotAsked.since = None
  BY DEF Readings!NotAsked, Waits
<1>6. PICK f \in [0..n -> Waits] : f[0] = Readings!NotAsked /\ \A k \in 1..n : f[k] = step[k][f[k - 1]]
  <2>1. HasRun(n, Waits, Readings!NotAsked, step)
    BY <1>1, <1>3, <1>5, Iterates
  <2> QED BY <2>1 DEF HasRun
<1>7. Is(f)
  <2>1. \A k \in 0..n : f[k] = IF k = 0 THEN Readings!NotAsked ELSE After(f[k - 1], k)
    <3> SUFFICES ASSUME NEW k \in 0..n, k # 0 PROVE f[k] = After(f[k - 1], k)
      BY <1>6
    <3>1. k \in 1..n /\ k - 1 \in 0..n
      BY <1>1
    <3>2. f[k - 1] \in Waits
      BY <3>1
    <3> QED BY <1>4, <1>6, <3>1, <3>2
  <2> QED BY <1>6, <2>1
<1>8. Is(Readings!Answers(questions))
  BY <1>7, Zenon DEF Readings!Answers, After
<1> DEFINE a == Readings!Answers(questions)
<1> HIDE DEF a
<1>9. a[0] = Readings!NotAsked /\ \A k \in 1..n : a[k] = After(a[k - 1], k)
  <2>1. Is(a)
    BY <1>8 DEF a
  <2>2. 0 \in 0..n /\ \A k \in 1..n : k \in 0..n /\ k # 0
    BY <1>1
  <2> QED BY <2>1, <2>2
<1> DEFINE Good(k) == /\ a[k] \in Waits
                      /\ k = 0 => a[k].since = None
                      /\ k > 0 /\ a[k].since # None => a[k].since <= when(k)
                      /\ \A j \in 1..k : a[j].waits =>
                           /\ a[k].since # None /\ a[k].since <= when(j)
                           /\ ~questions[j][2]
                           /\ when(j) - a[k].since < PrimeWait
           S == {k \in 0..n : Good(k)}
<1>10. 0 \in S
  BY <1>1, <1>5, <1>9
<1>11. ASSUME NEW k \in 0..(n - 1), k \in S PROVE k + 1 \in S
  <2> DEFINE next == k + 1
  <2>1. next \in 1..n /\ next \in 0..n /\ next > 0 /\ a[next] = After(a[k], next) /\ a[k] \in Waits
    BY <1>1, <1>9, <1>11
  <2>2. when(next) \in Nat /\ questions[next][2] \in BOOLEAN /\ questions[next][3] \in BOOLEAN
    BY <1>1, <2>1
  <2>3. k > 0 => when(k) <= when(next) /\ when(k) \in Nat
    <3>1. k > 0 => next \in 2..n /\ next - 1 = k /\ k \in 1..n
      BY <1>1
    <3> QED BY <1>1, <3>1 DEF Asking
  <2>4. /\ a[next] \in Waits
        /\ a[next].since = a[k].since \/ (a[k].since = None /\ a[next].since = when(next))
        /\ a[next].waits => /\ ~questions[next][2] /\ a[next].since # None
                            /\ when(next) - a[next].since < PrimeWait
    <3>1. a[next] = Readings!prime_may_wait(a[k], questions[next][2], questions[next][3], questions[next][1])
      BY <2>1 DEF After
    <3> HIDE DEF next
    <3>2. IsAnswer(a[next], a[k], questions[next][2], questions[next][1])
      BY <2>1, <2>2, <3>1, AnswerIs
    <3> QED BY <3>2 DEF IsAnswer
  <2>5. a[next].since \in Nat \cup {None} /\ a[k].since \in Nat \cup {None}
    BY <2>1, <2>4 DEF Waits
  <2>6. a[next].since # None => a[next].since <= when(next)
    <3>1. CASE a[next].since = a[k].since
      BY <1>11, <2>2, <2>3, <2>5, <3>1
    <3>2. CASE a[next].since = when(next)
      BY <2>2, <3>2
    <3> QED BY <2>4, <3>1, <3>2
  <2>7. ASSUME NEW j \in 1..next, a[j].waits
        PROVE  /\ a[next].since # None /\ a[next].since <= when(j)
               /\ ~questions[j][2]
               /\ when(j) - a[next].since < PrimeWait
    <3>1. CASE j = next
      BY <2>4, <2>6, <2>7, <3>1
    <3>2. CASE j \in 1..k
      <4>1. a[k].since # None
        BY <1>11, <2>7, <3>2
      <4>2. a[next].since = a[k].since
        BY <2>4, <4>1
      <4> QED BY <1>11, <2>7, <3>2, <4>1, <4>2
    <3> QED BY <3>1, <3>2
  <2> HIDE DEF when
  <2> QED BY <2>1, <2>4, <2>6, <2>7
<1> HIDE DEF S
<1>12. \A k \in 0..n : k \in S
  BY <1>1, <1>10, <1>11, Reached
<1>13. ASSUME NEW k \in 1..n, a[k].waits
       PROVE  /\ ~questions[k][2]
              /\ \A j \in 1..k : a[j].waits => when(k) - when(j) < PrimeWait
  <2>1. k \in 0..n /\ k \in 1..k /\ 1..k \subseteq 1..n
    BY <1>1
  <2>2. Good(k)
    BY <1>12, <2>1 DEF S
  <2>3. a[k].since \in Nat /\ when(k) \in Nat /\ \A j \in 1..k : when(j) \in Nat
    BY <1>1, <1>13, <2>1, <2>2 DEF Waits
  <2>4. ~questions[k][2] /\ when(k) - a[k].since < PrimeWait
    BY <1>13, <2>1, <2>2
  <2>5. ASSUME NEW j \in 1..k, a[j].waits PROVE when(k) - when(j) < PrimeWait
    <3>1. a[k].since <= when(j) /\ when(j) \in Nat
      BY <2>2, <2>3, <2>5
    <3> QED BY <2>3, <2>4, <3>1
  <2> QED BY <2>4, <2>5
<1> QED
  BY <1>13 DEF Readings!WaitIsBounded, a

-----------------------------------------------------------------------------
(* Whether video is live.  An arrival is <<when, its timestamp>>, an entry *)
(* of the history <<when, the floor then>>.                                *)
Floors == [first : Nat \cup {None}, floor : Int \cup {None}, history : Seq(Samples)]

IsTrimmed(trimmed, entries, horizon) ==
  \E from \in 0..(Len(entries) - 1) :
    /\ trimmed \in Seq(Samples) /\ Len(trimmed) = Len(entries) - from
    /\ \A i \in 1..Len(trimmed) : trimmed[i] = entries[i + from]
    /\ from = 0 \/ entries[from + 1][1] <= horizon
    /\ from + 1 = Len(entries) \/ entries[from + 2][1] > horizon

LEMMA TrimmedIsPart ==
  ASSUME NEW entries \in Seq(Samples), entries # <<>>, NEW horizon \in Int
  PROVE  IsTrimmed(Readings!Trimmed(entries, horizon), entries, horizon)
<1> DEFINE Superseded(k) == k < Len(entries) /\ entries[k + 1][1] <= horizon
           Oldest(k) == ~Superseded(k) /\ \A j \in 1..(k - 1) : Superseded(j)
           oldest == CHOOSE k \in 1..Len(entries) : Oldest(k)
<1>1. /\ Len(entries) \in Nat /\ Len(entries) \in 1..Len(entries)
      /\ \A i \in 1..Len(entries) : entries[i] \in Samples /\ entries[i][1] \in Nat
  <2>1. Len(entries) \in Nat /\ Len(entries) # 0
    BY EmptySeq
  <2> QED BY <2>1 DEF Samples
<1>2. \E k \in 1..Len(entries) : Oldest(k)
  <2> DEFINE S == {i \in 1..Len(entries) : ~Superseded(i)}
  <2>1. Len(entries) \in S /\ S \in SUBSET Nat
    BY <1>1
  <2>2. PICK k \in S : \A r \in S : k <= r
    BY <2>1, LeastOf
  <2>3. k \in 1..Len(entries) /\ ~Superseded(k)
    BY <2>2
  <2>4. \A j \in 1..(k - 1) : j \in 1..Len(entries) /\ j \notin S
    BY <1>1, <2>2, <2>3
  <2> QED BY <2>3, <2>4
<1>3. oldest \in 1..Len(entries) /\ Oldest(oldest)
  BY <1>2
<1>4. Readings!Trimmed(entries, horizon) = SubSeq(entries, oldest, Len(entries))
  BY DEF Readings!Trimmed
<1> HIDE DEF oldest
<1> DEFINE from == oldest - 1
           trimmed == SubSeq(entries, oldest, Len(entries))
<1>5. /\ trimmed \in Seq(Samples) /\ Len(trimmed) = Len(entries) - oldest + 1
      /\ \A i \in 1..(Len(entries) - oldest + 1) : trimmed[i] = entries[oldest + i - 1]
  BY <1>1, <1>3, SubSeqProperties
<1> HIDE DEF trimmed
<1>6. /\ from \in 0..(Len(entries) - 1) /\ Len(trimmed) = Len(entries) - from
      /\ \A i \in 1..Len(trimmed) : trimmed[i] = entries[i + from]
  BY <1>1, <1>3, <1>5
<1>7. from = 0 \/ entries[from + 1][1] <= horizon
  <2>1. CASE from # 0
    <3>1. from \in 1..(oldest - 1)
      BY <1>3, <2>1
    <3>2. Superseded(from)
      BY <1>3, <3>1
    <3> QED BY <3>2
  <2> QED BY <2>1
<1>8. from + 1 = Len(entries) \/ entries[from + 2][1] > horizon
  <2>1. CASE from + 1 # Len(entries)
    <3>1. oldest < Len(entries) /\ oldest + 1 = from + 2 /\ oldest + 1 \in 1..Len(entries)
      BY <1>1, <1>3, <2>1
    <3>2. ~(entries[oldest + 1][1] <= horizon) /\ entries[oldest + 1][1] \in Nat
      BY <1>1, <1>3, <3>1
    <3> QED BY <3>1, <3>2
  <2> QED BY <2>1
<1> HIDE DEF from
<1> QED
  BY <1>4, <1>5, <1>6, <1>7, <1>8 DEF IsTrimmed, trimmed

LiveConstants == None \notin Int /\ Lookback \in Nat /\ Tolerance \in Int /\ MaxWait \in Int

IsNoted(next, f, received, pts) ==
  /\ next \in Floors /\ next.floor \in Int
  /\ next.first = IF f.first = None THEN received ELSE f.first
  /\ next.floor = IF f.floor = None THEN received - pts ELSE Readings!Least(f.floor, received - pts)
  /\ IsTrimmed(next.history, Append(f.history, <<received, next.floor>>), Readings!Horizon(received))

LEMMA NoteIs ==
  ASSUME LiveConstants, NEW f \in Floors, NEW received \in Nat, NEW pts \in Int
  PROVE  IsNoted(Readings!note(f, received, pts), f, received, pts)
<1> DEFINE floor == IF f.floor = None THEN received - pts ELSE Readings!Least(f.floor, received - pts)
           longer == Append(f.history, <<received, floor>>)
           horizon == Readings!Horizon(received)
           next == Readings!note(f, received, pts)
           first == IF f.first = None THEN received ELSE f.first
<1>1. f.first \in Nat \cup {None} /\ f.floor \in Int \cup {None} /\ f.history \in Seq(Samples)
  BY DEF Floors
<1>2. floor \in Int /\ horizon \in Int /\ first \in Nat \cup {None}
  <2>1. received - pts \in Int
    OBVIOUS
  <2>2. floor \in Int
    BY <1>1, <2>1 DEF Readings!Least
  <2>3. horizon \in Int
    BY DEF LiveConstants, Readings!Horizon, Readings!Most
  <2> QED BY <1>1, <2>2, <2>3
<1> HIDE DEF next
<1>3. next = [first |-> first, floor |-> floor, history |-> Readings!Trimmed(longer, horizon)]
  BY DEF Readings!note, next
<1> HIDE DEF floor, horizon, first
<1>4. longer \in Seq(Samples) /\ longer # <<>>
  <2>1. <<received, floor>> \in Samples
    BY <1>2 DEF Samples
  <2>2. longer \in Seq(Samples) /\ Len(longer) = Len(f.history) + 1 /\ Len(f.history) \in Nat
    BY <1>1, <2>1, AppendProperties
  <2> HIDE DEF longer
  <2> QED BY <2>2, EmptySeq
<1> HIDE DEF longer
<1>5. IsTrimmed(Readings!Trimmed(longer, horizon), longer, horizon)
  BY <1>2, <1>4, TrimmedIsPart
<1>6. Readings!Trimmed(longer, horizon) \in Seq(Samples)
  BY <1>5 DEF IsTrimmed
<1>7. next \in Floors /\ next.first = first /\ next.floor = floor
      /\ next.history = Readings!Trimmed(longer, horizon)
  BY <1>2, <1>3, <1>6 DEF Floors
<1>8. longer = Append(f.history, <<received, next.floor>>)
  BY <1>7 DEF longer
<1>9. IsTrimmed(next.history, Append(f.history, <<received, next.floor>>), horizon)
  BY <1>5, <1>7, <1>8
<1> QED
  BY <1>2, <1>7, <1>9 DEF IsNoted, floor, horizon, first, next

(* The least late of the first arrivals.                                   *)
IsFloor(h, k, floor) ==
  /\ floor \in Int
  /\ \A j \in 1..k : floor <= Readings!Late(h, j)
  /\ \E j \in 1..k : floor = Readings!Late(h, j)

(* The history after some arrivals: the floor at each of those that are    *)
(* left, and one of them, if there has been any, at or before the horizon. *)
Trail(h, k, trail, from) ==
  /\ Len(trail) = k - from
  /\ \A i \in 1..(k - from) : trail[i][1] = h[i + from][1] /\ IsFloor(h, i + from, trail[i][2])
  /\ from = 0 \/ h[from + 1][1] <= Readings!Horizon(h[k][1])
  /\ k = 0 \/ from + 1 = k \/ (from + 2 <= k /\ h[from + 2][1] > Readings!Horizon(h[k][1]))

Steady(h, k, f) ==
  /\ f \in Floors
  /\ k = 0 => f.first = None /\ f.floor = None
  /\ k > 0 => f.first = h[1][1] /\ IsFloor(h, k, f.floor)
  /\ \E from \in 0..k : Trail(h, k, f.history, from)

LEMMA FloorFalls ==
  ASSUME NEW h \in Series, NEW k \in 0..(Len(h) - 1), NEW floor,
         \/ k = 0 /\ floor = Readings!Late(h, k + 1)
         \/ k > 0 /\ \E old \in Int : IsFloor(h, k, old) /\ floor = Readings!Least(old, Readings!Late(h, k + 1))
  PROVE  IsFloor(h, k + 1, floor)
<1>1. \A j \in 1..(k + 1) : Readings!Late(h, j) \in Int
  <2>1. \A j \in 1..(k + 1) : j \in 1..Len(h)
    BY SeriesTyped
  <2>2. \A j \in 1..Len(h) : h[j][1] \in Nat /\ h[j][2] \in Int
    BY SeriesTyped
  <2> QED BY <2>1, <2>2 DEF Readings!Late
<1>2. k \in Nat /\ k + 1 \in 1..(k + 1) /\ 1..k \subseteq 1..(k + 1)
      /\ \A j \in 1..(k + 1) : j \in 1..k \/ j = k + 1
  OBVIOUS
<1>3. CASE k = 0 /\ floor = Readings!Late(h, k + 1)
  BY <1>1, <1>2, <1>3 DEF IsFloor
<1>4. CASE k > 0 /\ \E old \in Int : IsFloor(h, k, old) /\ floor = Readings!Least(old, Readings!Late(h, k + 1))
  <2>1. PICK old \in Int : IsFloor(h, k, old) /\ floor = Readings!Least(old, Readings!Late(h, k + 1))
    BY <1>4
  <2> DEFINE late == Readings!Late(h, k + 1)
  <2>2. late \in Int /\ floor \in Int /\ floor <= old /\ floor <= late /\ (floor = old \/ floor = late)
    BY <1>1, <1>2, <2>1 DEF Readings!Least
  <2>3. \A j \in 1..(k + 1) : floor <= Readings!Late(h, j)
    <3> SUFFICES ASSUME NEW j \in 1..(k + 1) PROVE floor <= Readings!Late(h, j)
      OBVIOUS
    <3>1. CASE j = k + 1
      BY <2>2, <3>1
    <3>2. CASE j \in 1..k
      <4>1. old <= Readings!Late(h, j) /\ Readings!Late(h, j) \in Int
        BY <1>1, <2>1, <3>2 DEF IsFloor
      <4> QED BY <2>2, <4>1
    <3> QED BY <1>2, <3>1, <3>2
  <2>4. \E j \in 1..(k + 1) : floor = Readings!Late(h, j)
    <3>1. CASE floor = late
      BY <1>2, <3>1
    <3>2. CASE floor = old
      BY <1>2, <2>1, <3>2 DEF IsFloor
    <3> QED BY <2>2, <3>1, <3>2
  <2> QED BY <2>2, <2>3, <2>4 DEF IsFloor
<1> QED
  BY <1>3, <1>4

LEMMA NoteKeeps ==
  ASSUME LiveConstants, NEW h \in Series, NEW k \in 0..(Len(h) - 1), NEW f, Steady(h, k, f),
         NEW next, next = Readings!note(f, h[k + 1][1], h[k + 1][2])
  PROVE  Steady(h, k + 1, next)
<1> DEFINE received == h[k + 1][1]
           longer == Append(f.history, <<received, next.floor>>)
           horizon == Readings!Horizon(received)
<1>1. /\ k \in Nat /\ Len(h) \in Nat /\ k + 1 \in 1..Len(h)
      /\ \A j \in 1..Len(h) : h[j][1] \in Nat /\ h[j][2] \in Int
  BY SeriesTyped
<1>2. f \in Floors /\ f.history \in Seq(Samples) /\ f.floor \in Int \cup {None}
  BY DEF Steady, Floors
<1>3. IsNoted(next, f, received, h[k + 1][2])
  BY <1>1, <1>2, NoteIs
<1>4. next \in Floors /\ next.floor \in Int /\ next.first = h[1][1]
  <2>1. CASE k = 0
    BY <1>3, <2>1 DEF IsNoted, Steady
  <2>2. CASE k > 0
    <3>1. f.first = h[1][1] /\ 1 \in 1..Len(h)
      BY <1>1, <2>2 DEF Steady
    <3>2. f.first # None
      BY <1>1, <3>1 DEF LiveConstants
    <3> QED BY <1>3, <3>1, <3>2 DEF IsNoted
  <2> QED BY <1>1, <1>3, <2>1, <2>2 DEF IsNoted
<1>5. IsFloor(h, k + 1, next.floor)
  <2>1. Readings!Late(h, k + 1) = received - h[k + 1][2]
    BY DEF Readings!Late
  <2>2. CASE k = 0
    <3>1. next.floor = Readings!Late(h, k + 1)
      BY <1>3, <2>1, <2>2 DEF IsNoted, Steady
    <3> QED BY <2>2, <3>1, FloorFalls
  <2>3. CASE k > 0
    <3>1. IsFloor(h, k, f.floor) /\ f.floor \in Int /\ f.floor # None
      BY <2>3 DEF Steady, IsFloor, LiveConstants
    <3>2. next.floor = Readings!Least(f.floor, Readings!Late(h, k + 1))
      BY <1>3, <2>1, <3>1 DEF IsNoted
    <3> QED BY <2>3, <3>1, <3>2, FloorFalls
  <2> QED BY <1>1, <2>2, <2>3
<1>6. PICK from \in 0..k : Trail(h, k, f.history, from)
  BY DEF Steady
<1>7. /\ longer \in Seq(Samples) /\ Len(longer) = k + 1 - from
      /\ \A i \in 1..(k - from) : longer[i] = f.history[i]
      /\ longer[k + 1 - from] = <<received, next.floor>>
  <2>1. <<received, next.floor>> \in Samples
    BY <1>1, <1>4 DEF Samples
  <2>2. Len(f.history) = k - from
    BY <1>6 DEF Trail
  <2>3. (k - from) + 1 = k + 1 - from
    BY <1>1
  <2> QED BY <1>2, <2>1, <2>2, <2>3, AppendProperties
<1>8. IsTrimmed(next.history, longer, horizon)
  BY <1>3 DEF IsNoted
<1>9. /\ received \in Nat /\ horizon \in Int
      /\ k > 0 => h[k][1] \in Nat /\ h[k][1] <= received
      /\ k > 0 => Readings!Horizon(h[k][1]) \in Int /\ Readings!Horizon(h[k][1]) <= horizon
  <2>1. received \in Nat /\ horizon \in Int
    BY <1>1 DEF LiveConstants, Readings!Horizon, Readings!Most
  <2>2. k > 0 => h[k][1] \in Nat /\ h[k][1] <= received
    <3>1. k > 0 => k + 1 \in 2..Len(h) /\ (k + 1) - 1 = k /\ k \in 1..Len(h)
      BY <1>1
    <3> QED BY <1>1, <3>1 DEF Series
  <2> QED BY <2>1, <2>2 DEF LiveConstants, Readings!Horizon, Readings!Most
<1>10. \A i \in 1..(k + 1 - from) : longer[i][1] = h[i + from][1] /\ IsFloor(h, i + from, longer[i][2])
  <2> SUFFICES ASSUME NEW i \in 1..(k + 1 - from)
               PROVE  longer[i][1] = h[i + from][1] /\ IsFloor(h, i + from, longer[i][2])
    OBVIOUS
  <2>1. CASE i = k + 1 - from
    <3>1. i + from = k + 1 /\ longer[i][1] = received /\ longer[i][2] = next.floor
      BY <1>1, <1>7, <2>1
    <3> QED BY <1>5, <3>1
  <2>2. CASE i \in 1..(k - from)
    BY <1>6, <1>7, <2>2 DEF Trail
  <2>3. i = k + 1 - from \/ i \in 1..(k - from)
    BY <1>1
  <2> QED BY <2>1, <2>2, <2>3
<1> HIDE DEF longer, horizon
<1>11. PICK cut \in 0..(Len(longer) - 1) :
         /\ next.history \in Seq(Samples) /\ Len(next.history) = Len(longer) - cut
         /\ \A i \in 1..Len(next.history) : next.history[i] = longer[i + cut]
         /\ cut = 0 \/ longer[cut + 1][1] <= horizon
         /\ cut + 1 = Len(longer) \/ longer[cut + 2][1] > horizon
  BY <1>8 DEF IsTrimmed
<1> DEFINE start == from + cut
<1>12. start \in 0..k /\ Len(next.history) = k + 1 - start
  BY <1>1, <1>7, <1>11
<1>13. \A i \in 1..(k + 1 - start) :
         next.history[i][1] = h[i + start][1] /\ IsFloor(h, i + start, next.history[i][2])
  <2> SUFFICES ASSUME NEW i \in 1..(k + 1 - start)
               PROVE  next.history[i][1] = h[i + start][1] /\ IsFloor(h, i + start, next.history[i][2])
    OBVIOUS
  <2>1. i + cut \in 1..(k + 1 - from) /\ (i + cut) + from = i + start /\ i \in 1..Len(next.history)
    BY <1>1, <1>7, <1>11, <1>12
  <2>2. next.history[i] = longer[i + cut]
    BY <1>11, <2>1
  <2> HIDE DEF start
  <2> QED BY <1>10, <2>1, <2>2
<1>14. start = 0 \/ h[start + 1][1] <= horizon
  <2>1. CASE cut = 0 /\ from # 0
    <3>1. h[from + 1][1] <= Readings!Horizon(h[k][1]) /\ k > 0
      BY <1>1, <1>6, <2>1 DEF Trail
    <3>2. start + 1 = from + 1 /\ start + 1 \in 1..Len(h)
      BY <1>1, <2>1, <1>12
    <3> QED BY <1>1, <1>9, <3>1, <3>2
  <2>2. CASE cut # 0
    <3>1. longer[cut + 1][1] <= horizon /\ cut + 1 \in 1..(k + 1 - from) /\ (cut + 1) + from = start + 1
      BY <1>1, <1>7, <1>11, <2>2
    <3> HIDE DEF start
    <3> QED BY <1>10, <3>1
  <2> QED BY <1>11, <2>1, <2>2
<1>15. start + 1 = k + 1 \/ (start + 2 <= k + 1 /\ h[start + 2][1] > horizon)
  <2>1. CASE cut + 1 = Len(longer)
    BY <1>1, <1>7, <2>1
  <2>2. CASE cut + 1 # Len(longer)
    <3>1. longer[cut + 2][1] > horizon /\ cut + 2 \in 1..(k + 1 - from) /\ (cut + 2) + from = start + 2
          /\ start + 2 <= k + 1
      BY <1>1, <1>7, <1>11, <2>2
    <3> HIDE DEF start
    <3>2. longer[cut + 2][1] = h[start + 2][1]
      BY <1>10, <3>1
    <3> QED BY <3>1, <3>2
  <2> QED BY <2>1, <2>2
<1>16. start \in 0..(k + 1) /\ k + 1 > 0 /\ k + 1 # 0
  BY <1>1, <1>12
<1> HIDE DEF start
<1>17. Trail(h, k + 1, next.history, start)
  BY <1>12, <1>13, <1>14, <1>15 DEF Trail, horizon
<1> QED
  BY <1>4, <1>5, <1>16, <1>17 DEF Steady

(* After every arrival of a series the floor is that of all up to it.      *)
LEMMA ArrivalsAreSteady ==
  ASSUME LiveConstants, NEW history \in Series
  PROVE  Steady(history, Len(history), Readings!Arrivals(history)[Len(history)])
<1> DEFINE n == Len(history)
           After(f, k) == Readings!note(f, history[k][1], history[k][2])
           step == [k \in 1..n |-> [f \in Floors |-> After(f, k)]]
           Is(a) == a = [k \in 0..n |-> IF k = 0 THEN Readings!NoArrivals ELSE After(a[k - 1], k)]
<1>1. n \in Nat /\ \A k \in 1..n : history[k][1] \in Nat /\ history[k][2] \in Int
  BY SeriesTyped
<1>2. \A k \in 1..n : \A f \in Floors : After(f, k) \in Floors
  BY <1>1, NoteIs DEF IsNoted
<1>3. step \in [1..n -> [Floors -> Floors]]
  BY <1>2
<1> HIDE DEF After
<1>4. \A k \in 1..n : \A f \in Floors : step[k][f] = After(f, k)
  OBVIOUS
<1> HIDE DEF step
<1>5. Readings!NoArrivals \in Floors /\ Steady(history, 0, Readings!NoArrivals)
  <2>1. <<>> \in Seq(Samples) /\ Len(<<>>) = 0 /\ 1..0 = {}
    OBVIOUS
  <2>2. Readings!NoArrivals \in Floors
    BY <2>1 DEF Readings!NoArrivals, Floors
  <2>3. Trail(history, 0, <<>>, 0)
    BY <2>1 DEF Trail
  <2>4. Readings!NoArrivals.history = <<>> /\ Readings!NoArrivals.first = None /\ Readings!NoArrivals.floor = None
        /\ 0 \in 0..0
    BY DEF Readings!NoArrivals
  <2> QED BY <2>2, <2>3, <2>4 DEF Steady
<1>6. PICK f \in [0..n -> Floors] : f[0] = Readings!NoArrivals /\ \A k \in 1..n : f[k] = step[k][f[k - 1]]
  <2>1. HasRun(n, Floors, Readings!NoArrivals, step)
    BY <1>1, <1>3, <1>5, Iterates
  <2> QED BY <2>1 DEF HasRun
<1>7. Is(f)
  <2>1. \A k \in 0..n : f[k] = IF k = 0 THEN Readings!NoArrivals ELSE After(f[k - 1], k)
    <3> SUFFICES ASSUME NEW k \in 0..n, k # 0 PROVE f[k] = After(f[k - 1], k)
      BY <1>6
    <3>1. k \in 1..n /\ k - 1 \in 0..n
      BY <1>1
    <3>2. f[k - 1] \in Floors
      BY <3>1
    <3> QED BY <1>4, <1>6, <3>1, <3>2
  <2> QED BY <1>6, <2>1
<1>8. Is(Readings!Arrivals(history))
  BY <1>7, Zenon DEF Readings!Arrivals, After
<1> DEFINE a == Readings!Arrivals(history)
<1> HIDE DEF a
<1>9. a[0] = Readings!NoArrivals /\ \A k \in 1..n : a[k] = After(a[k - 1], k)
  <2>1. Is(a)
    BY <1>8 DEF a
  <2>2. 0 \in 0..n /\ \A k \in 1..n : k \in 0..n /\ k # 0
    BY <1>1
  <2> QED BY <2>1, <2>2
<1> DEFINE S == {k \in 0..n : Steady(history, k, a[k])}
<1>10. 0 \in S
  BY <1>1, <1>5, <1>9
<1>11. ASSUME NEW k \in 0..(n - 1), k \in S PROVE k + 1 \in S
  <2>1. k + 1 \in 1..n /\ k + 1 \in 0..n /\ k \in 0..(Len(history) - 1)
    BY <1>1
  <2>2. a[k + 1] = After(a[k], k + 1)
    <3>1. (k + 1) - 1 = k
      OBVIOUS
    <3> QED BY <1>9, <2>1, <3>1
  <2>3. Steady(history, k + 1, a[k + 1])
    BY <1>11, <2>1, <2>2, NoteKeeps DEF After
  <2> QED BY <2>1, <2>3
<1> HIDE DEF S
<1>12. \A k \in 0..n : k \in S
  BY <1>1, <1>10, <1>11, Reached
<1> QED
  BY <1>1, <1>12 DEF S, a

(* Video is live when the floor has not fallen by more than the tolerance   *)
(* across the last lookback, or the wait is over (ArrivalFloor): what is    *)
(* trimmed of the history takes nothing from the answer, for every series  *)
(* of arrivals.                                                            *)
THEOREM LiveWhenSteady ==
  ASSUME LiveConstants, NEW history \in Series
  PROVE  Readings!LiveIsSteady(history)
<1> DEFINE n == Len(history)
           f == Readings!Arrivals(history)[n]
           now == history[n][1]
           horizon == Readings!Horizon(now)
           before == {k \in 1..n : history[k][1] <= now - Lookback}
           LeastLate(S) == Readings!Lowest({Readings!Late(history, k) : k \in S})
<1>1. /\ n \in Nat /\ 1 \in 1..n /\ n \in 1..n /\ now \in Nat
      /\ \A k \in 1..n : history[k][1] \in Nat /\ history[k][2] \in Int
  BY SeriesTyped
<1>2. \A k \in 1..n : Readings!Late(history, k) \in Int
  BY <1>1 DEF Readings!Late
<1>3. Steady(history, n, f)
  BY ArrivalsAreSteady
<1>4. ASSUME NEW k \in 1..n, NEW floor, IsFloor(history, k, floor)
      PROVE  LeastLate(1..k) = floor
  <2> DEFINE lates == {Readings!Late(history, j) : j \in 1..k}
  <2>1. 1..k \subseteq 1..n
    BY <1>1
  <2>2. lates \in SUBSET Int /\ floor \in lates /\ \A x \in lates : floor <= x
    BY <1>2, <1>4, <2>1 DEF IsFloor
  <2> HIDE DEF lates
  <2>3. Readings!Lowest(lates) = floor
    BY <2>2, LowestIs
  <2> QED BY <2>3 DEF lates
<1> HIDE DEF f
<1>5. f.first = history[1][1] /\ f.floor = LeastLate(1..n) /\ f.floor \in Int /\ f.history \in Seq(Samples)
  <2>1. f.first = history[1][1] /\ IsFloor(history, n, f.floor) /\ f \in Floors
    BY <1>1, <1>3 DEF Steady
  <2> QED BY <1>1, <1>4, <2>1 DEF IsFloor, Floors
<1> HIDE DEF LeastLate
<1>6. PICK from \in 0..n : Trail(history, n, f.history, from)
  BY <1>3 DEF Steady
<1>7. /\ from \in 0..(n - 1) /\ Len(f.history) = n - from
      /\ \A i \in 1..(n - from) : f.history[i][1] = history[i + from][1] /\ IsFloor(history, i + from, f.history[i][2])
      /\ from = 0 \/ history[from + 1][1] <= horizon
      /\ from + 1 = n \/ (from + 2 <= n /\ history[from + 2][1] > horizon)
  <2>1. n # 0
    BY <1>1
  <2> QED BY <1>1, <1>6, <2>1 DEF Trail
<1> DEFINE oldest == from + 1
<1>8. /\ oldest \in 1..n /\ 1 \in 1..(n - from) /\ n - from \in 1..(n - from)
      /\ 1 + from = oldest /\ (n - from) + from = n
  BY <1>1, <1>7
<1>9. /\ f.history[1][1] = history[oldest][1] /\ f.history[Len(f.history)][1] = now
      /\ IsFloor(history, oldest, f.history[1][2]) /\ f.history # <<>>
  <2>1. f.history # <<>>
    BY <1>1, <1>7, EmptySeq
  <2>2. /\ f.history[n - from][1] = history[(n - from) + from][1]
        /\ f.history[1][1] = history[1 + from][1] /\ IsFloor(history, 1 + from, f.history[1][2])
    BY <1>7, <1>8
  <2>3. (n - from) + from = n
    BY <1>8
  <2>4. history[(n - from) + from][1] = now
    BY <2>3, Zenon
  <2>5. f.history[Len(f.history)][1] = now
    BY <1>7, <2>2, <2>4
  <2> QED BY <1>8, <2>1, <2>2, <2>5
<1>10. horizon \in Int /\ horizon >= 0 /\ horizon >= now - Lookback /\ (horizon = 0 \/ horizon = now - Lookback)
  BY <1>1 DEF LiveConstants, Readings!Horizon, Readings!Most
<1> HIDE DEF horizon
(* Whatever was a lookback ago, the oldest entry is the newest of it.      *)
<1>11. CASE oldest \in before
  <2>1. before = 1..oldest
    <3>1. ASSUME NEW k \in 1..oldest PROVE k \in before
      <4>1. k \in 1..n /\ oldest \in k..n
        BY <1>1, <1>8
      <4>2. history[k][1] <= history[oldest][1]
        BY <4>1, SeriesInOrder
      <4> QED BY <1>1, <1>8, <1>11, <4>1, <4>2 DEF LiveConstants
    <3>2. ASSUME NEW k \in before PROVE k \in 1..oldest
      <4>1. k \in 1..n /\ history[k][1] <= now - Lookback /\ history[k][1] <= horizon
        BY <1>1, <1>10 DEF LiveConstants
      <4>2. ASSUME k > oldest PROVE FALSE
        <5>1. oldest + 1 \in 1..n /\ k \in (oldest + 1)..n /\ oldest # n /\ oldest + 1 = from + 2
          BY <1>1, <1>8, <4>1, <4>2
        <5>2. history[oldest + 1][1] > horizon
          BY <1>7, <5>1
        <5>3. history[oldest + 1][1] <= history[k][1]
          BY <5>1, SeriesInOrder
        <5> QED BY <1>1, <1>10, <4>1, <5>1, <5>2, <5>3
      <4> QED BY <1>1, <1>8, <4>1, <4>2
    <3> QED BY <3>1, <3>2
  <2>2. LeastLate(before) = f.history[1][2] /\ f.history[1][2] \in Int
    BY <1>4, <1>8, <1>9, <2>1 DEF IsFloor, LeastLate
  <2>3. f.history[Len(f.history)][1] - f.history[1][1] >= Lookback
    BY <1>1, <1>8, <1>9, <1>11 DEF LiveConstants
  <2>4. before # {}
    BY <1>11
  <2> HIDE DEF before, now
  <2>5. Readings!live(f, now) <=>
          now - history[1][1] >= MaxWait \/ (before # {} /\ LeastLate(before) - LeastLate(1..n) <= Tolerance)
    <3>1. f.first # None
      BY <1>1, <1>5 DEF LiveConstants
    <3> QED BY <1>5, <1>9, <2>2, <2>3, <2>4, <3>1 DEF Readings!live
  <2> QED BY <2>5 DEF Readings!LiveIsSteady, Readings!Now, f, now, before, LeastLate
<1>12. CASE oldest \notin before
  <2>1. before = {}
    <3> SUFFICES ASSUME NEW k \in before PROVE FALSE
      OBVIOUS
    <3>1. k \in 1..n /\ history[k][1] <= now - Lookback /\ now - Lookback >= 0 /\ horizon = now - Lookback
      BY <1>1, <1>10 DEF LiveConstants
    <3>2. history[oldest][1] > now - Lookback
      BY <1>1, <1>8, <1>12 DEF LiveConstants
    <3>3. CASE k >= oldest
      <4>1. k \in oldest..n
        BY <1>8, <3>1, <3>3
      <4>2. history[oldest][1] <= history[k][1]
        BY <1>8, <4>1, SeriesInOrder
      <4> QED BY <1>1, <1>8, <3>1, <3>2, <4>2 DEF LiveConstants
    <3>4. CASE k < oldest
      <4>1. from # 0
        BY <1>1, <3>1, <3>4
      <4>2. history[oldest][1] <= horizon
        BY <1>7, <4>1
      <4> QED BY <1>1, <1>8, <1>10, <3>1, <3>2, <4>2
    <3> QED BY <1>1, <1>8, <3>1, <3>3, <3>4
  <2>2. ~(f.history[Len(f.history)][1] - f.history[1][1] >= Lookback)
    BY <1>1, <1>8, <1>9, <1>12 DEF LiveConstants
  <2> HIDE DEF before, now
  <2>3. Readings!live(f, now) <=>
          now - history[1][1] >= MaxWait \/ (before # {} /\ LeastLate(before) - LeastLate(1..n) <= Tolerance)
    <3>1. f.first # None
      BY <1>1, <1>5 DEF LiveConstants
    <3> QED BY <1>5, <1>9, <2>1, <2>2, <3>1 DEF Readings!live
  <2> QED BY <2>3 DEF Readings!LiveIsSteady, Readings!Now, f, now, before, LeastLate
<1> QED
  BY <1>11, <1>12

-----------------------------------------------------------------------------
(* The bursts: a frame is <<when, its timestamp>>, late by the difference. *)
Bursting == [since : Nat \cup {None}, last : Nat, lowest : Seq(Samples), highest : Seq(Samples),
             readings : Holds]

(* Frames since a start: how late they were, those that end a full window, *)
(* and the spreads of these.                                               *)
Lates(h, start, k) == {<<h[j][1], Readings!Late(h, j)>> : j \in start..k}
Full(h, start, k) == {j \in start..k : h[j][1] - h[start][1] >= BurstWindow}
Spreads(h, start, k) == {<<h[j][1], Readings!Spread(h, start, j)>> : j \in Full(h, start, k)}

Bursts(h, start, k, b) ==
  /\ b \in Bursting
  /\ Readings!AfterGap(h, start) /\ \A j \in (start + 1)..k : ~Readings!AfterGap(h, j)
  /\ b.since = h[start][1] /\ b.last = h[k][1]
  /\ Keeps("Lowest", BurstWindow, Lates(h, start, k), h[k][1], b.lowest)
  /\ Keeps("Highest", BurstWindow, Lates(h, start, k), h[k][1], b.highest)
  /\ Full(h, start, k) = {} => b.readings = Readings!NoReadings
  /\ Full(h, start, k) # {} =>
       \E i \in Full(h, start, k) :
         /\ \A j \in Full(h, start, k) : i <= j
         /\ Observes(b.readings, Spreads(h, start, k), h[i][1], h[k][1])

LEMMA NoBurstsTyped == Readings!NoBursts \in Bursting
<1>1. <<>> \in Seq(Samples) /\ 0 \in Nat
  OBVIOUS
<1> QED
  BY <1>1, NoReadingsTyped DEF Readings!NoBursts, Bursting

(* observe_burst, after a gap is forgotten.                                *)
LEMMA BurstTyped ==
  ASSUME HoldConstants, NEW bursts \in Bursting, NEW received \in Nat, NEW pts \in Int
  PROVE  Readings!observe_burst(bursts, received, pts) \in Bursting
<1> DEFINE b == IF bursts.since # None /\ received - bursts.last > BurstWindow
                THEN Readings!NoBursts ELSE bursts
           late == received - pts
           since == IF b.since = None THEN received ELSE b.since
           lowest == Readings!push("Lowest", BurstWindow, b.lowest, received, late)
           highest == Readings!push("Highest", BurstWindow, b.highest, received, late)
           spread == Readings!Value(highest) - Readings!Value(lowest)
           readings == IF received - since < BurstWindow THEN b.readings
                       ELSE Readings!observe(b.readings, received, spread)
           next == Readings!observe_burst(bursts, received, pts)
<1>1. next = [since |-> since, last |-> received, lowest |-> lowest, highest |-> highest, readings |-> readings]
  BY DEF Readings!observe_burst
<1>2. b \in Bursting /\ late \in Int
  BY NoBurstsTyped
<1> HIDE DEF b, late, next
<1>3. b.since \in Nat \cup {None} /\ b.lowest \in Seq(Samples) /\ b.highest \in Seq(Samples) /\ b.readings \in Holds
  BY <1>2 DEF Bursting
<1>4. lowest \in Seq(Samples) /\ Readings!Value(lowest) \in Int
  BY <1>2, <1>3, PushTyped DEF HoldConstants, Extremes
<1>5. highest \in Seq(Samples) /\ Readings!Value(highest) \in Int
  BY <1>2, <1>3, PushTyped DEF HoldConstants, Extremes
<1> HIDE DEF lowest, highest
<1>6. spread \in Int /\ since \in Nat \cup {None}
  BY <1>3, <1>4, <1>5
<1> HIDE DEF spread, since
<1>7. readings \in Holds
  BY <1>3, <1>6, ObserveTyped
<1> HIDE DEF readings
<1> QED
  BY <1>1, <1>4, <1>5, <1>6, <1>7 DEF Bursting, next

(* The spread of a window is what its two queues say.                      *)
LEMMA SpreadIs ==
  ASSUME HoldConstants, NEW h \in Series, NEW k \in 1..Len(h), NEW start \in 1..k,
         NEW lowest, NEW highest,
         Keeps("Lowest", BurstWindow, Lates(h, start, k), h[k][1], lowest),
         Keeps("Highest", BurstWindow, Lates(h, start, k), h[k][1], highest)
  PROVE  Readings!Value(highest) - Readings!Value(lowest) = Readings!Spread(h, start, k)
<1> DEFINE near == {Readings!Late(h, j) : j \in {i \in start..k : h[i][1] >= h[k][1] - BurstWindow}}
           from == h[k][1] - BurstWindow
           taken == Lates(h, start, k)
<1>1. \A j \in start..k : h[j][1] \in Nat /\ Readings!Late(h, j) \in Int
  <2>1. \A j \in start..k : j \in 1..Len(h)
    BY SeriesTyped
  <2> QED BY <2>1, SeriesTyped DEF Readings!Late
<1>2. taken \in SUBSET Samples /\ h[k][1] \in Nat
  <2>1. taken \in SUBSET Samples
    BY <1>1 DEF Lates, Samples
  <2>2. h[k][1] \in Nat
    BY SeriesTyped
  <2> QED BY <2>1, <2>2
<1>3. near = Since(taken, from)
  <2>1. \A x \in near : x \in Since(taken, from)
    <3> SUFFICES ASSUME NEW j \in start..k, h[j][1] >= from
                 PROVE  Readings!Late(h, j) \in Since(taken, from)
      OBVIOUS
    <3>1. <<h[j][1], Readings!Late(h, j)>> \in taken
      BY DEF Lates
    <3> QED BY <3>1 DEF Since
  <2>2. \A x \in Since(taken, from) : x \in near
    BY DEF Since, Lates
  <2> QED BY <2>1, <2>2
<1> HIDE DEF near, taken
<1>4. IsExtreme("Lowest", Readings!Value(lowest), near) /\ IsExtreme("Highest", Readings!Value(highest), near)
  <2>1. "Lowest" \in Extremes /\ "Highest" \in Extremes /\ BurstWindow \in Nat
    BY DEF Extremes, HoldConstants
  <2>2. IsExtreme("Lowest", Readings!Value(lowest), Since(taken, from))
    BY <1>2, <2>1, FirstIsExtreme DEF taken
  <2>3. IsExtreme("Highest", Readings!Value(highest), Since(taken, from))
    BY <1>2, <2>1, FirstIsExtreme DEF taken
  <2> QED BY <1>3, <2>2, <2>3
<1>5. Readings!Value(lowest) = Readings!Lowest(near) /\ Readings!Value(highest) = Readings!Highest(near)
  BY <1>4 DEF IsExtreme
<1> QED
  BY <1>5 DEF Readings!Spread, near

(* One more frame, and what it adds.                                       *)
LEMMA FrameAdds ==
  ASSUME HoldConstants, NEW h \in Series, NEW k \in 0..(Len(h) - 1), NEW start \in 1..(k + 1)
  PROVE  /\ Lates(h, start, k + 1) = Lates(h, start, k) \cup {<<h[k + 1][1], Readings!Late(h, k + 1)>>}
         /\ h[k + 1][1] - h[start][1] >= BurstWindow =>
              /\ Full(h, start, k + 1) = Full(h, start, k) \cup {k + 1}
              /\ Spreads(h, start, k + 1) =
                   Spreads(h, start, k) \cup {<<h[k + 1][1], Readings!Spread(h, start, k + 1)>>}
         /\ h[k + 1][1] - h[start][1] < BurstWindow =>
              Full(h, start, k + 1) = {} /\ Full(h, start, k) = {}
         /\ start = k + 1 => Lates(h, start, k) = {} /\ Full(h, start, k) = {} /\ Spreads(h, start, k) = {}
         /\ Full(h, start, k) = {} => Spreads(h, start, k) = {}
<1>1. /\ Len(h) \in Nat /\ start..(k + 1) = (start..k) \cup {k + 1} /\ k + 1 \in 1..Len(h) /\ start \in 1..Len(h)
      /\ \A j \in 1..Len(h) : h[j][1] \in Nat
      /\ \A j \in start..(k + 1) : j \in 1..Len(h) /\ h[j][1] <= h[k + 1][1]
  <2>1. Len(h) \in Nat /\ \A j \in 1..Len(h) : h[j][1] \in Nat
    BY SeriesTyped
  <2>2. \A j \in start..(k + 1) : j \in 1..Len(h) /\ k + 1 \in j..Len(h)
    BY <2>1
  <2>3. start..(k + 1) = (start..k) \cup {k + 1} /\ k + 1 \in 1..Len(h) /\ start \in 1..Len(h)
    BY <2>1
  <2> QED BY <2>1, <2>2, <2>3, SeriesInOrder
<1>2. Lates(h, start, k + 1) = Lates(h, start, k) \cup {<<h[k + 1][1], Readings!Late(h, k + 1)>>}
  BY <1>1 DEF Lates
<1>3. ASSUME h[k + 1][1] - h[start][1] >= BurstWindow
      PROVE  /\ Full(h, start, k + 1) = Full(h, start, k) \cup {k + 1}
             /\ Spreads(h, start, k + 1) =
                  Spreads(h, start, k) \cup {<<h[k + 1][1], Readings!Spread(h, start, k + 1)>>}
  <2>1. Full(h, start, k + 1) = Full(h, start, k) \cup {k + 1}
    BY <1>1, <1>3 DEF Full
  <2> QED BY <2>1 DEF Spreads
<1>4. ASSUME h[k + 1][1] - h[start][1] < BurstWindow
      PROVE  Full(h, start, k + 1) = {} /\ Full(h, start, k) = {}
  <2>1. ASSUME NEW j \in start..(k + 1) PROVE ~(h[j][1] - h[start][1] >= BurstWindow)
    BY <1>1, <1>4 DEF HoldConstants
  <2>2. start..k \subseteq start..(k + 1)
    BY <1>1
  <2> QED BY <2>1, <2>2 DEF Full
<1>5. start = k + 1 => start..k = {}
  OBVIOUS
<1>6. start = k + 1 => Lates(h, start, k) = {} /\ Full(h, start, k) = {}
  BY <1>5 DEF Lates, Full
<1>7. Full(h, start, k) = {} => Spreads(h, start, k) = {}
  BY DEF Spreads
<1> QED
  BY <1>2, <1>3, <1>4, <1>6, <1>7

LEMMA SpreadTyped ==
  ASSUME HoldConstants, NEW h \in Series, NEW k \in 1..Len(h), NEW start \in 1..k,
         NEW lowest, NEW highest,
         Keeps("Lowest", BurstWindow, Lates(h, start, k), h[k][1], lowest),
         Keeps("Highest", BurstWindow, Lates(h, start, k), h[k][1], highest)
  PROVE  Readings!Spread(h, start, k) \in Int
<1>1. \A entries \in {lowest, highest} :
        entries \in Seq(Samples) /\ entries # <<>>
  BY DEF Keeps
<1>2. \A entries \in {lowest, highest} : Readings!Value(entries) \in Int
  <2> SUFFICES ASSUME NEW entries \in {lowest, highest} PROVE Readings!Value(entries) \in Int
    OBVIOUS
  <2>1. entries \in Seq(Samples) /\ entries # <<>>
    BY <1>1
  <2>2. Head(entries) \in Samples
    BY <2>1
  <2> QED BY <2>2 DEF Readings!Value, Samples
<1>3. Readings!Value(lowest) \in Int /\ Readings!Value(highest) \in Int
  BY <1>2
<1> QED
  BY <1>3, SpreadIs

(* From the first frame after an outage on, a frame is one more sample of  *)
(* the windows, and from a window after it, one more reading.              *)
LEMMA BurstKeeps ==
  ASSUME HoldConstants, NEW h \in Series, NEW k \in 0..(Len(h) - 1), NEW start \in 1..(k + 1),
         NEW bursts \in Bursting, NEW b \in Bursting,
         b = IF bursts.since # None /\ h[k + 1][1] - bursts.last > BurstWindow
             THEN Readings!NoBursts ELSE bursts,
         \/ start = k + 1 /\ b = Readings!NoBursts /\ Readings!AfterGap(h, k + 1)
         \/ start <= k /\ Bursts(h, start, k, b) /\ ~Readings!AfterGap(h, k + 1)
  PROVE  Bursts(h, start, k + 1, Readings!observe_burst(bursts, h[k + 1][1], h[k + 1][2]))
<1> DEFINE received == h[k + 1][1]
           late == received - h[k + 1][2]
           since == IF b.since = None THEN received ELSE b.since
           lowest == Readings!push("Lowest", BurstWindow, b.lowest, received, late)
           highest == Readings!push("Highest", BurstWindow, b.highest, received, late)
           spread == Readings!Value(highest) - Readings!Value(lowest)
           readings == IF received - since < BurstWindow THEN b.readings
                       ELSE Readings!observe(b.readings, received, spread)
           next == Readings!observe_burst(bursts, received, h[k + 1][2])
<1>1. next = [since |-> since, last |-> received, lowest |-> lowest, highest |-> highest, readings |-> readings]
  BY DEF Readings!observe_burst
<1>2. next \in Bursting
  <2>1. k + 1 \in 1..Len(h)
    BY SeriesTyped
  <2>2. h[k + 1][1] \in Nat /\ h[k + 1][2] \in Int
    BY <2>1, SeriesTyped
  <2> QED BY <2>2, BurstTyped
<1>3. /\ k \in Nat /\ Len(h) \in Nat /\ k + 1 \in 1..Len(h) /\ start \in 1..Len(h)
      /\ received \in Nat /\ late \in Int /\ late = Readings!Late(h, k + 1) /\ h[start][1] \in Nat
      /\ start <= k => k \in 1..Len(h) /\ h[k][1] \in Nat /\ h[k][1] <= received
      /\ h[start][1] <= received
  <2>1. /\ k \in Nat /\ Len(h) \in Nat /\ k + 1 \in 1..Len(h) /\ start \in 1..Len(h)
        /\ \A j \in 1..Len(h) : h[j][1] \in Nat /\ h[j][2] \in Int
    BY SeriesTyped
  <2>2. k + 1 \in start..Len(h)
    BY <2>1
  <2>3. h[start][1] <= h[k + 1][1]
    BY <2>1, <2>2, SeriesInOrder
  <2>4. start <= k => k \in 1..Len(h) /\ k + 1 \in k..Len(h)
    BY <2>1
  <2>5. start <= k => h[k][1] <= h[k + 1][1]
    BY <2>4, SeriesInOrder
  <2> QED BY <2>1, <2>3, <2>4, <2>5 DEF Readings!Late
<1>4. /\ b.lowest \in Seq(Samples) /\ b.highest \in Seq(Samples) /\ b.readings \in Holds
      /\ BurstWindow \in Nat
  BY DEF Bursting, HoldConstants
<1>5. since = h[start][1]
  <2>1. CASE start = k + 1 /\ b = Readings!NoBursts
    BY <2>1 DEF Readings!NoBursts
  <2>2. CASE start <= k /\ Bursts(h, start, k, b)
    BY <1>3, <2>2 DEF Bursts, HoldConstants
  <2> QED BY <2>1, <2>2
<1>6. Lates(h, start, k) \in SUBSET Samples
  <2>1. \A j \in start..k : j \in 1..Len(h)
    BY <1>3
  <2>2. \A j \in start..k : h[j][1] \in Nat /\ h[j][2] \in Int
    BY <2>1, SeriesTyped
  <2> QED BY <2>2 DEF Lates, Samples, Readings!Late
<1>7. /\ \/ Lates(h, start, k) = {} /\ b.lowest = <<>>
         \/ start <= k /\ Keeps("Lowest", BurstWindow, Lates(h, start, k), h[k][1], b.lowest)
      /\ \/ Lates(h, start, k) = {} /\ b.highest = <<>>
         \/ start <= k /\ Keeps("Highest", BurstWindow, Lates(h, start, k), h[k][1], b.highest)
  <2>1. CASE start = k + 1 /\ b = Readings!NoBursts
    <3>1. Lates(h, start, k) = {}
      BY <2>1, FrameAdds
    <3> QED BY <2>1, <3>1 DEF Readings!NoBursts
  <2>2. CASE start <= k /\ Bursts(h, start, k, b)
    BY <2>2 DEF Bursts
  <2> QED BY <2>1, <2>2
<1> DEFINE before == IF start <= k THEN h[k][1] ELSE received
<1>8. before \in Nat /\ before <= received /\ (start <= k => before = h[k][1])
  BY <1>3
<1>9. Lates(h, start, k + 1) = Lates(h, start, k) \cup {<<received, late>>}
  BY <1>3, FrameAdds
<1> HIDE DEF before, next, since, late, received
<1>10. Keeps("Lowest", BurstWindow, Lates(h, start, k + 1), received, lowest)
  <2>1. \/ Lates(h, start, k) = {} /\ b.lowest = <<>>
        \/ Keeps("Lowest", BurstWindow, Lates(h, start, k), before, b.lowest)
    BY <1>7, <1>8
  <2>2. "Lowest" \in Extremes
    BY DEF Extremes
  <2>3. Keeps("Lowest", BurstWindow, Lates(h, start, k) \cup {<<received, late>>}, received,
              Readings!push("Lowest", BurstWindow, b.lowest, received, late))
    BY <1>3, <1>4, <1>6, <1>8, <2>1, <2>2, PushKeeps
  <2> QED BY <1>9, <2>3
<1>11. Keeps("Highest", BurstWindow, Lates(h, start, k + 1), received, highest)
  <2>1. \/ Lates(h, start, k) = {} /\ b.highest = <<>>
        \/ Keeps("Highest", BurstWindow, Lates(h, start, k), before, b.highest)
    BY <1>7, <1>8
  <2>2. "Highest" \in Extremes
    BY DEF Extremes
  <2>3. Keeps("Highest", BurstWindow, Lates(h, start, k) \cup {<<received, late>>}, received,
              Readings!push("Highest", BurstWindow, b.highest, received, late))
    BY <1>3, <1>4, <1>6, <1>8, <2>1, <2>2, PushKeeps
  <2> QED BY <1>9, <2>3
<1> HIDE DEF lowest, highest
<1>12. spread = Readings!Spread(h, start, k + 1) /\ spread \in Int
  <2>1. start \in 1..(k + 1) /\ k + 1 \in 1..Len(h)
    BY <1>3
  <2>2. received = h[k + 1][1]
    BY DEF received
  <2>3. /\ Keeps("Lowest", BurstWindow, Lates(h, start, k + 1), h[k + 1][1], lowest)
        /\ Keeps("Highest", BurstWindow, Lates(h, start, k + 1), h[k + 1][1], highest)
    BY <1>10, <1>11, <2>2
  <2> HIDE DEF spread
  <2>4. spread = Readings!Spread(h, start, k + 1)
    BY <2>1, <2>3, SpreadIs DEF spread
  <2> QED BY <2>1, <2>3, <2>4, SpreadTyped
<1>13. b.readings = Readings!NoReadings \/ Full(h, start, k) # {}
  BY FrameAdds DEF Bursts, Readings!NoBursts
<1>14. /\ Full(h, start, k + 1) = {} => readings = Readings!NoReadings
       /\ Full(h, start, k + 1) # {} =>
            \E i \in Full(h, start, k + 1) :
              /\ \A j \in Full(h, start, k + 1) : i <= j
              /\ Observes(readings, Spreads(h, start, k + 1), h[i][1], received)
  <2>1. CASE received - since < BurstWindow
    <3>1. Full(h, start, k + 1) = {} /\ Full(h, start, k) = {}
      BY <1>3, <1>5, <2>1, FrameAdds DEF received
    <3>2. readings = b.readings
      BY <2>1
    <3> QED BY <1>13, <3>1, <3>2
  <2>2. CASE ~(received - since < BurstWindow)
    <3>0. received - since >= BurstWindow
      BY <1>3, <1>4, <1>5, <2>2
    <3>1. /\ Full(h, start, k + 1) = Full(h, start, k) \cup {k + 1}
          /\ Spreads(h, start, k + 1) = Spreads(h, start, k) \cup {<<received, spread>>}
      <4>1. h[k + 1][1] - h[start][1] >= BurstWindow
        BY <1>5, <3>0 DEF received
      <4> HIDE DEF spread
      <4> QED BY <1>12, <4>1, FrameAdds DEF received
    <3> HIDE DEF spread
    <3>2. readings = Readings!observe(b.readings, received, spread)
      BY <2>2
    <3> HIDE DEF readings
    <3>3. CASE Full(h, start, k) = {}
      <4>1. Spreads(h, start, k) = {} /\ b.readings = Readings!NoReadings /\ {} \in SUBSET Samples
        BY <1>13, <3>3, FrameAdds
      <4>2. Observes(Readings!observe(b.readings, received, spread), {} \cup {<<received, spread>>}, received, received)
        BY <1>3, <1>4, <1>12, <4>1, ObserveKeeps
      <4>3. Full(h, start, k + 1) = {k + 1} /\ h[k + 1][1] = received
        BY <3>1, <3>3 DEF received
      <4>4. Observes(readings, Spreads(h, start, k + 1), received, received)
        BY <3>1, <3>2, <4>1, <4>2
      <4>5. k + 1 \in Full(h, start, k + 1) /\ \A j \in Full(h, start, k + 1) : k + 1 <= j
        BY <1>3, <4>3
      <4> QED BY <4>3, <4>4, <4>5
    <3>4. CASE Full(h, start, k) # {}
      <4>1. start <= k /\ Bursts(h, start, k, b)
        BY <3>4, FrameAdds
      <4>2. PICK i \in Full(h, start, k) :
              /\ \A j \in Full(h, start, k) : i <= j
              /\ Observes(b.readings, Spreads(h, start, k), h[i][1], h[k][1])
        BY <3>4, <4>1 DEF Bursts
      <4>3. i \in 1..Len(h) /\ i <= k /\ h[i][1] \in Nat
        <5>1. i \in start..k
          BY DEF Full
        <5>2. i \in 1..Len(h) /\ i <= k
          BY <1>3, <5>1
        <5> QED BY <5>2, SeriesTyped
      <4>4. Spreads(h, start, k) \in SUBSET Samples
        <5>1. Keeps("Highest", RelaxWindow, Spreads(h, start, k), h[k][1], b.readings.highest)
          BY <4>2 DEF Observes
        <5> QED BY <5>1 DEF Keeps
      <4>5. Observes(Readings!observe(b.readings, received, spread),
                     Spreads(h, start, k) \cup {<<received, spread>>}, h[i][1], received)
        <5>1. Observes(b.readings, Spreads(h, start, k), h[i][1], before)
          BY <1>8, <4>1, <4>2
        <5> QED BY <1>3, <1>4, <1>8, <1>12, <4>3, <4>4, <5>1, ObserveKeeps
      <4>6. i \in Full(h, start, k + 1) /\ \A j \in Full(h, start, k + 1) : i <= j
        BY <1>3, <3>1, <4>2, <4>3
      <4> QED BY <3>1, <3>2, <4>5, <4>6
    <3> QED BY <3>3, <3>4
  <2> QED BY <2>1, <2>2
<1> HIDE DEF readings
<1>15. Readings!AfterGap(h, start) /\ \A j \in (start + 1)..(k + 1) : ~Readings!AfterGap(h, j)
  <2>1. CASE start = k + 1 /\ Readings!AfterGap(h, k + 1)
    <3>1. (start + 1)..(k + 1) = {}
      BY <1>3, <2>1
    <3> QED BY <2>1, <3>1
  <2>2. CASE start <= k /\ Bursts(h, start, k, b) /\ ~Readings!AfterGap(h, k + 1)
    <3>1. \A j \in (start + 1)..(k + 1) : j \in (start + 1)..k \/ j = k + 1
      BY <1>3
    <3> QED BY <2>2, <3>1 DEF Bursts
  <2> QED BY <2>1, <2>2
<1>16. next.since = h[start][1] /\ next.last = received /\ next.lowest = lowest /\ next.highest = highest
       /\ next.readings = readings
  BY <1>1, <1>5
<1> QED
  BY <1>2, <1>10, <1>11, <1>14, <1>15, <1>16 DEF Bursts, received, next

(* Bursting after some frames: none yet, or a start since the last outage. *)
Measures(h, k, b) ==
  IF k = 0 THEN b = Readings!NoBursts ELSE \E start \in 1..k : Bursts(h, start, k, b)

LEMMA BurstsMeasure ==
  ASSUME HoldConstants, NEW h \in Series, NEW k \in 0..(Len(h) - 1),
         NEW bursts \in Bursting, Measures(h, k, bursts)
  PROVE  Measures(h, k + 1, Readings!observe_burst(bursts, h[k + 1][1], h[k + 1][2]))
<1> DEFINE b == IF bursts.since # None /\ h[k + 1][1] - bursts.last > BurstWindow
                THEN Readings!NoBursts ELSE bursts
           next == Readings!observe_burst(bursts, h[k + 1][1], h[k + 1][2])
<1>1. k \in Nat /\ k + 1 \in 1..(k + 1) /\ k + 1 # 0 /\ 1..k \subseteq 1..(k + 1)
  OBVIOUS
<1>2. b \in Bursting
  BY NoBurstsTyped
<1> HIDE DEF next, b
<1>3. CASE Readings!AfterGap(h, k + 1)
  <2>1. b = Readings!NoBursts
    <3>1. CASE k = 0
      BY <3>1 DEF Measures, b
    <3>2. CASE k # 0
      <4>1. PICK start \in 1..k : Bursts(h, start, k, bursts)
        BY <3>2 DEF Measures
      <4>2. bursts.since = h[start][1] /\ bursts.last = h[k][1]
        BY <4>1 DEF Bursts
      <4>3. start \in 1..Len(h)
        BY SeriesTyped
      <4>4. bursts.since # None
        BY <4>2, <4>3, SeriesTyped DEF HoldConstants
      <4>5. h[k + 1][1] - h[k][1] > BurstWindow
        <5>1. (k + 1) - 1 = k /\ k + 1 # 1
          BY <3>2
        <5> QED BY <1>3, <5>1 DEF Readings!AfterGap
      <4> QED BY <4>2, <4>4, <4>5 DEF b
    <3> QED BY <3>1, <3>2
  <2>2. Bursts(h, k + 1, k + 1, next)
    BY <1>1, <1>2, <1>3, <2>1, BurstKeeps DEF next, b
  <2> QED BY <1>1, <2>2 DEF Measures, next
<1>4. CASE ~Readings!AfterGap(h, k + 1)
  <2>1. k # 0 /\ ~(h[k + 1][1] - h[k][1] > BurstWindow)
    <3>1. k # 0
      BY <1>4 DEF Readings!AfterGap
    <3>2. (k + 1) - 1 = k
      OBVIOUS
    <3> QED BY <1>4, <3>1, <3>2 DEF Readings!AfterGap
  <2>2. PICK start \in 1..k : Bursts(h, start, k, bursts)
    BY <2>1 DEF Measures
  <2>3. b = bursts
    <3>1. bursts.last = h[k][1]
      BY <2>2 DEF Bursts
    <3> QED BY <2>1, <3>1 DEF b
  <2>4. start \in 1..(k + 1) /\ start <= k
    BY <1>1
  <2>5. Bursts(h, start, k + 1, next)
    BY <1>2, <1>4, <2>2, <2>3, <2>4, BurstKeeps DEF next, b
  <2> QED BY <1>1, <2>4, <2>5 DEF Measures, next
<1> QED
  BY <1>3, <1>4

(* The spreads within a window are those of the frames in it.              *)
LEMMA SpreadsSince ==
  ASSUME NEW h, NEW start, NEW k, NEW from
  PROVE  Since(Spreads(h, start, k), from) =
           {Readings!Spread(h, start, j) : j \in {i \in Full(h, start, k) : h[i][1] >= from}}
<1> DEFINE inside == {Readings!Spread(h, start, j) : j \in {i \in Full(h, start, k) : h[i][1] >= from}}
<1>1. \A x \in inside : x \in Since(Spreads(h, start, k), from)
  <2> SUFFICES ASSUME NEW j \in Full(h, start, k), h[j][1] >= from
               PROVE  Readings!Spread(h, start, j) \in Since(Spreads(h, start, k), from)
    OBVIOUS
  <2>1. <<h[j][1], Readings!Spread(h, start, j)>> \in Spreads(h, start, k)
    BY DEF Spreads
  <2> QED BY <2>1 DEF Since
<1>2. \A x \in Since(Spreads(h, start, k), from) : x \in inside
  BY DEF Since, Spreads
<1> QED
  BY <1>1, <1>2

(* The burst readings (AudioBursts): both windows hold the spreads of the  *)
(* frames since the last outage, from a window after it on, and nothing of *)
(* the outage or of the backlog that ends it, for every window and series  *)
(* of frames.                                                              *)
THEOREM OutagesAreNotBursts ==
  ASSUME HoldConstants, NEW history \in Series
  PROVE  Readings!BurstsSkipOutages(history)
<1> DEFINE n == Len(history)
           After(b, k) == Readings!observe_burst(b, history[k][1], history[k][2])
           step == [k \in 1..n |-> [b \in Bursting |-> After(b, k)]]
           Is(a) == a = [k \in 0..n |-> IF k = 0 THEN Readings!NoBursts ELSE After(a[k - 1], k)]
<1>1. n \in Nat /\ n # 0 /\ n \in 1..n /\ \A k \in 1..n : history[k][1] \in Nat /\ history[k][2] \in Int
  BY SeriesTyped
<1>2. \A k \in 1..n : \A b \in Bursting : After(b, k) \in Bursting
  BY <1>1, BurstTyped
<1>3. step \in [1..n -> [Bursting -> Bursting]]
  BY <1>2
<1> HIDE DEF After
<1>4. \A k \in 1..n : \A b \in Bursting : step[k][b] = After(b, k)
  OBVIOUS
<1> HIDE DEF step
<1>5. PICK f \in [0..n -> Bursting] : f[0] = Readings!NoBursts /\ \A k \in 1..n : f[k] = step[k][f[k - 1]]
  <2>1. HasRun(n, Bursting, Readings!NoBursts, step)
    BY <1>1, <1>3, NoBurstsTyped, Iterates
  <2> QED BY <2>1 DEF HasRun
<1>6. Is(f)
  <2>1. \A k \in 0..n : f[k] = IF k = 0 THEN Readings!NoBursts ELSE After(f[k - 1], k)
    <3> SUFFICES ASSUME NEW k \in 0..n, k # 0 PROVE f[k] = After(f[k - 1], k)
      BY <1>5
    <3>1. k \in 1..n /\ k - 1 \in 0..n
      BY <1>1
    <3>2. f[k - 1] \in Bursting
      BY <3>1
    <3> QED BY <1>4, <1>5, <3>1, <3>2
  <2> QED BY <1>5, <2>1
<1>7. Is(Readings!Bursts(history))
  BY <1>6, Zenon DEF Readings!Bursts, After
<1> DEFINE a == Readings!Bursts(history)
<1> HIDE DEF a
<1>8. a[0] = Readings!NoBursts /\ \A k \in 1..n : a[k] = After(a[k - 1], k)
  <2>1. Is(a)
    BY <1>7 DEF a
  <2>2. 0 \in 0..n /\ \A k \in 1..n : k \in 0..n /\ k # 0
    BY <1>1
  <2> QED BY <2>1, <2>2
<1> DEFINE S == {k \in 0..n : a[k] \in Bursting /\ Measures(history, k, a[k])}
<1>9. 0 \in S
  BY <1>1, <1>8, NoBurstsTyped DEF Measures
<1>10. ASSUME NEW k \in 0..(n - 1), k \in S PROVE k + 1 \in S
  <2>1. k + 1 \in 1..n /\ k + 1 \in 0..n /\ k \in 0..(Len(history) - 1) /\ (k + 1) - 1 = k
    BY <1>1
  <2>2. a[k + 1] = After(a[k], k + 1) /\ a[k] \in Bursting /\ Measures(history, k, a[k])
    BY <1>8, <1>10, <2>1
  <2>3. a[k + 1] \in Bursting
    BY <1>2, <2>1, <2>2 DEF After
  <2>4. Measures(history, k + 1, a[k + 1])
    BY <2>1, <2>2, BurstsMeasure DEF After
  <2> QED BY <2>1, <2>3, <2>4
<1> HIDE DEF S
<1>11. Measures(history, n, a[n])
  <2>1. \A k \in 0..n : k \in S
    BY <1>1, <1>9, <1>10, Reached
  <2> QED BY <1>1, <2>1 DEF S
<1>12. PICK start \in 1..n : Bursts(history, start, n, a[n])
  BY <1>1, <1>11 DEF Measures
<1> DEFINE now == history[n][1]
           readings == a[n].readings
           full == Full(history, start, n)
<1>13. Readings!Highest({k \in 1..n : Readings!AfterGap(history, k)}) = start
  <2> DEFINE gaps == {k \in 1..n : Readings!AfterGap(history, k)}
  <2>1. gaps \in SUBSET Int /\ start \in gaps
    BY <1>12 DEF Bursts
  <2>2. \A k \in gaps : start >= k
    <3> SUFFICES ASSUME NEW k \in gaps, ~(start >= k) PROVE FALSE
      OBVIOUS
    <3>1. k \in (start + 1)..n
      BY <1>1
    <3> QED BY <1>12, <3>1 DEF Bursts
  <2> HIDE DEF gaps
  <2>3. Readings!Highest(gaps) = start
    BY <2>1, <2>2, HighestIs
  <2> QED BY <2>3 DEF gaps
<1>14. full = {k \in start..n : history[k][1] - history[start][1] >= BurstWindow}
  BY DEF Full
<1> DEFINE Within(window) == {Readings!Spread(history, start, k) : k \in {i \in full : history[i][1] >= now - window}}
<1>15. /\ full = {} => readings = Readings!NoReadings
       /\ full # {} =>
            \E i \in full :
              /\ \A j \in full : i <= j
              /\ Observes(readings, Spreads(history, start, n), history[i][1], now)
  BY <1>12 DEF Bursts
<1>16. \A window : Within(window) = Since(Spreads(history, start, n), now - window)
  BY SpreadsSince
<1>17. full \in SUBSET (1..n)
  BY <1>1 DEF Full
<1> HIDE DEF full, readings, Within
<1>18. full = {} => ~Readings!measured(readings)
  BY <1>15 DEF Readings!measured, Readings!NoReadings
<1>19. ASSUME full # {}
       PROVE  /\ Readings!measured(readings)
              /\ Readings!Value(readings.highest) = Readings!Highest(Within(RelaxWindow))
              /\ Readings!Value(readings.lowest) = Readings!Lowest(Within(RaiseWindow))
              /\ readings.first = history[Readings!Lowest(full)][1]
  <2>1. PICK i \in full : /\ \A j \in full : i <= j
                          /\ Observes(readings, Spreads(history, start, n), history[i][1], now)
    BY <1>15, <1>19
  <2>2. Readings!Lowest(full) = i
    <3>1. full \in SUBSET Int
      BY <1>17
    <3> QED BY <2>1, <3>1, LowestIs
  <2>3. history[i][1] \in Nat /\ now \in Nat
    BY <1>1, <1>17
  <2>4. readings.first = history[i][1] /\ Readings!measured(readings)
    BY <2>1, <2>3 DEF Observes, Readings!measured, HoldConstants
  <2>5. /\ Keeps("Lowest", RaiseWindow, Spreads(history, start, n), now, readings.lowest)
        /\ Keeps("Highest", RelaxWindow, Spreads(history, start, n), now, readings.highest)
        /\ RaiseWindow \in Nat /\ RelaxWindow \in Nat /\ "Lowest" \in Extremes /\ "Highest" \in Extremes
        /\ Spreads(history, start, n) \in SUBSET Samples
    BY <2>1 DEF Observes, HoldConstants, Extremes, Keeps
  <2>6. IsExtreme("Lowest", Readings!Value(readings.lowest), Since(Spreads(history, start, n), now - RaiseWindow))
    BY <2>3, <2>5, FirstIsExtreme
  <2>7. IsExtreme("Highest", Readings!Value(readings.highest), Since(Spreads(history, start, n), now - RelaxWindow))
    BY <2>3, <2>5, FirstIsExtreme
  <2>8. /\ Readings!Value(readings.lowest) = Readings!Lowest(Within(RaiseWindow))
        /\ Readings!Value(readings.highest) = Readings!Highest(Within(RelaxWindow))
    BY <1>16, <2>6, <2>7 DEF IsExtreme
  <2> QED BY <2>2, <2>4, <2>8
<1> HIDE DEF now
<1>20. /\ Readings!measured(readings) <=> full # {}
       /\ full # {} => /\ Readings!Value(readings.highest) = Readings!Highest(Within(RelaxWindow))
                       /\ Readings!Value(readings.lowest) = Readings!Lowest(Within(RaiseWindow))
                       /\ readings.first = history[Readings!Lowest(full)][1]
  BY <1>18, <1>19
<1> HIDE DEF n
<1> QED
  BY <1>13, <1>14, <1>20, Zenon DEF Readings!BurstsSkipOutages, Readings!Now, Within, readings, a, n, now

=============================================================================
