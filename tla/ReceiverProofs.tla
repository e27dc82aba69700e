--------------------------- MODULE ReceiverProofs ---------------------------
(***************************************************************************)
(* Proofs about the receiver thread.  Of its connection: its types, that   *)
(* the watch aborts only what is stopped or stalled, and that nothing of a *)
(* connection outlasts it.  Of its audio: its types, that what is written  *)
(* runs forward, and that a sender that keeps its pace has its own         *)
(* timestamps back.  The two meet in no proof: they are together here as   *)
(* they are in the thread.  And of the arithmetic that AudioIntake and     *)
(* AudioPump leave out (Samples): that nothing is lost to rounding.        *)
(***************************************************************************)
EXTENDS Connection, AudioIntake, Sequences, TLAPS

CONSTANTS Second, MaxI64, MaxI32, SoftMax, FadeMs
Arith == INSTANCE Samples

-----------------------------------------------------------------------------
(* The connection.                                                         *)

(* The far end is there from the moment an input is open.                  *)
OpenInv ==
  /\ pc \in {"probing", "reading", "napping", "handling"} => fmt
  /\ pc \in {"opening", "waiting", "exited"} => ~fmt
  /\ fmt => connected

(* A call to which no byte has come since the last poll began as long ago, *)
(* for all that the far end may have come since, as its deadline counts.   *)
WatchInv ==
  /\ pc = "opening" /\ ~connected => news
  /\ Blocked /\ ~(connected /\ news) => quiet >= age

(* What a probe found is kept only while its input is open.                *)
CleanInv ==
  /\ hw_device # "stale"
  /\ ~fmt \/ pc = "probing" => streams = {} /\ hw_device = "none"

IInv == TypeOK /\ OpenInv /\ WatchInv /\ CleanInv

-----------------------------------------------------------------------------
LEMMA ZeroIsAnAge == 0 \in Ages
  BY StallAssumption DEF Ages

(* A moment grows older by a tick, up to one past the deadline, and two    *)
(* moments keep their order.                                               *)
LEMMA OlderIsAnAge ==
  ASSUME NEW a \in Ages
  PROVE  Older(a) \in Ages /\ \A b \in Ages : b >= a => Older(b) >= Older(a)
  BY StallAssumption DEF Ages, Older, None

LEMMA OlderMayBeNone ==
  ASSUME NEW a \in Ages \cup {None}
  PROVE  Older(a) \in Ages \cup {None}
  BY OlderIsAnAge DEF Older

(* A probe finds streams, and a decoder and a device there may be; with no *)
(* device held before it makes its own.                                    *)
LEMMA ProbesAreTyped ==
  ASSUME TypeOK, NEW probe \in Probes
  PROVE  /\ probe.streams \in SUBSET {"video", "audio"}
         /\ probe.decoder \in {"none", "hw", "sw"}
         /\ probe.hw_device \in {hw_device, "none", "current"}
<1>1. PICK found \in SUBSET {"video", "audio"} : probe \in select_streams(found)
  BY DEF Probes
<1>2. PICK v \in open_decoder, audio \in BOOLEAN :
        probe = [streams   |-> {s \in found : IF s = "video" THEN v.decoder # "none" ELSE audio},
                 decoder   |-> IF "video" \in found THEN v.decoder ELSE decoder,
                 hw_device |-> IF "video" \in found THEN v.hw_device ELSE hw_device]
  BY <1>1 DEF select_streams
<1>3. v.decoder \in {"none", "hw", "sw"} /\ v.hw_device \in {hw_device, "none", "current"}
  BY DEF open_decoder
<1>4. probe.streams \in SUBSET {"video", "audio"}
  BY <1>2
<1> QED
  BY <1>2, <1>3, <1>4 DEF TypeOK

-----------------------------------------------------------------------------
LEMMA InitHolds == Init => IInv
<1> SUFFICES ASSUME Init PROVE IInv
  OBVIOUS
<1>1. TypeOK
  BY ZeroIsAnAge, SettingsAssumption DEF Init, TypeOK
<1> QED
  BY <1>1 DEF IInv, Init, OpenInv, WatchInv, CleanInv, Blocked

(* What begins an attempt, or the wait for one, is typed and clean.        *)
LEMMA NextAttemptKeeps ==
  ASSUME IInv, NextAttempt, fmt' = FALSE, streams' = {}, hw_device' = "none",
         prev' = prev, decoder' \in {"none", "hw", "sw"}, eagain' \in Ages \cup {None},
         UNCHANGED <<active, awaits, hw_decode>>
  PROVE  IInv'
<1>1. TypeOK'
  BY ZeroIsAnAge DEF IInv, TypeOK, NextAttempt, BeginAttempt, Track, Arm
<1>2. OpenInv' /\ WatchInv'
  BY DEF NextAttempt, BeginAttempt, Track, Arm, OpenInv, WatchInv, Blocked
<1>3. CleanInv'
  BY DEF CleanInv
<1> QED
  BY <1>1, <1>2, <1>3 DEF IInv

LEMMA LoopKeeps == IInv /\ Loop => IInv'
<1> SUFFICES ASSUME IInv, Loop PROVE IInv'
  OBVIOUS
<1>1. CASE OpenStream
  <2>1. TypeOK'
    BY <1>1, ZeroIsAnAge DEF OpenStream, BeginAttempt, Track, Arm, IInv, TypeOK
  <2>2. OpenInv' /\ WatchInv' /\ CleanInv'
    BY <1>1 DEF OpenStream, BeginAttempt, Track, Arm, IInv, OpenInv, WatchInv, CleanInv, Blocked
  <2> QED BY <2>1, <2>2 DEF IInv
<1>2. CASE WaitOver
  BY <1>2 DEF WaitOver, session, watch, IInv, TypeOK, OpenInv, WatchInv, CleanInv, Blocked
<1>3. CASE ReadFrame
  <2>1. TypeOK'
    BY <1>3, ZeroIsAnAge DEF ReadFrame, Arm, session, IInv, TypeOK
  <2>2. OpenInv' /\ WatchInv' /\ CleanInv'
    BY <1>3 DEF ReadFrame, Arm, session, IInv, OpenInv, WatchInv, CleanInv, Blocked
  <2> QED BY <2>1, <2>2 DEF IInv
<1>4. CASE PacketHandled
  BY <1>4 DEF PacketHandled, session, watch, IInv, TypeOK, OpenInv, WatchInv, CleanInv, Blocked
<1>5. CASE NapOver
  <2>1. TypeOK'
    BY <1>5, OlderMayBeNone DEF NapOver, session, watch, IInv, TypeOK
  <2>2. OpenInv' /\ WatchInv' /\ CleanInv'
    BY <1>5 DEF NapOver, session, watch, IInv, OpenInv, WatchInv, CleanInv, Blocked
  <2> QED BY <2>1, <2>2 DEF IInv
<1>6. CASE Exit
  BY <1>6 DEF Exit, Closed, watch, IInv, TypeOK, OpenInv, WatchInv, CleanInv, Blocked
<1> QED
  BY <1>1, <1>2, <1>3, <1>4, <1>5, <1>6 DEF Loop

LEMMA FFmpegKeeps == IInv /\ FFmpeg => IInv'
<1> SUFFICES ASSUME IInv, FFmpeg PROVE IInv'
  OBVIOUS
<1>1. CASE Arrives
  <2>1. TypeOK'
    BY <1>1, ZeroIsAnAge DEF Arrives, session, IInv, TypeOK
  <2>2. OpenInv' /\ CleanInv'
    BY <1>1 DEF Arrives, session, IInv, OpenInv, CleanInv
  <2>3. news'
    BY <1>1 DEF Arrives, Blocked, IInv, OpenInv, WatchInv
  <2>4. WatchInv'
    BY <1>1, <2>3 DEF Arrives, WatchInv
  <2> QED BY <2>1, <2>2, <2>4 DEF IInv
<1>2. CASE OpenFails
  <2>1. /\ fmt' = FALSE /\ streams' = {} /\ hw_device' = "none"
        /\ prev' = prev /\ decoder' = decoder /\ eagain' = eagain
    BY <1>2 DEF OpenFails, session, IInv, TypeOK, OpenInv, CleanInv
  <2> QED BY <1>2, <2>1, NextAttemptKeeps DEF OpenFails, IInv, TypeOK
<1>3. CASE InputOpens
  <2>1. TypeOK'
    BY <1>3, ZeroIsAnAge DEF InputOpens, Arm, session, IInv, TypeOK
  <2>2. OpenInv' /\ WatchInv' /\ CleanInv'
    BY <1>3 DEF InputOpens, Arm, session, IInv, OpenInv, WatchInv, CleanInv, Blocked
  <2> QED BY <2>1, <2>2 DEF IInv
<1>4. CASE ProbeFails
  <2>1. /\ streams' = {} /\ hw_device' = "none"
        /\ prev' = prev /\ decoder' = decoder /\ eagain' = eagain
    BY <1>4 DEF ProbeFails, session, IInv, CleanInv
  <2> QED BY <1>4, <2>1, NextAttemptKeeps DEF ProbeFails, IInv, TypeOK
<1>5. CASE ProbeSucceeds
  <2>1. PICK probe \in Probes :
          /\ streams' = probe.streams /\ prev' = probe.streams
          /\ decoder' = probe.decoder /\ hw_device' = probe.hw_device
    BY <1>5 DEF ProbeSucceeds
  <2>2. /\ prev' \in SUBSET {"video", "audio"} /\ streams' \in SUBSET {"video", "audio"}
        /\ decoder' \in {"none", "hw", "sw"} /\ hw_device' \in {"none", "current"}
    BY <1>5, <2>1, ProbesAreTyped DEF ProbeSucceeds, IInv, CleanInv
  <2>3. TypeOK'
    BY <1>5, <2>2 DEF ProbeSucceeds, watch, IInv, TypeOK
  <2>4. OpenInv' /\ WatchInv' /\ CleanInv'
    BY <1>5, <2>2 DEF ProbeSucceeds, watch, IInv, OpenInv, WatchInv, CleanInv, Blocked
  <2> QED BY <2>3, <2>4 DEF IInv
<1>6. CASE ProbeFindsTooLittle
  <2>1. decoder' \in {"none", "hw", "sw"}
    BY <1>6, ProbesAreTyped DEF ProbeFindsTooLittle, IInv
  <2> QED BY <1>6, <2>1, NextAttemptKeeps DEF ProbeFindsTooLittle, Closed, IInv, TypeOK
<1>7. CASE PacketRead
  BY <1>7 DEF PacketRead, session, watch, IInv, TypeOK, OpenInv, WatchInv, CleanInv, Blocked
<1>8. CASE ReadAgain
  <2>1. TypeOK'
    BY <1>8, ZeroIsAnAge DEF ReadAgain, session, watch, IInv, TypeOK
  <2>2. OpenInv' /\ WatchInv' /\ CleanInv'
    BY <1>8 DEF ReadAgain, session, watch, IInv, OpenInv, WatchInv, CleanInv, Blocked
  <2> QED BY <2>1, <2>2 DEF IInv
<1>9. CASE ReadFails \/ EagainTooLong
  <2>1. handle_stream_read_error /\ eagain' \in {None, eagain}
    BY <1>9 DEF ReadFails, EagainTooLong
  <2>2. TypeOK'
    BY <2>1 DEF handle_stream_read_error, Closed, IInv, TypeOK
  <2>3. OpenInv' /\ WatchInv' /\ CleanInv'
    BY <2>1 DEF handle_stream_read_error, Closed, OpenInv, WatchInv, CleanInv, Blocked
  <2> QED BY <2>2, <2>3 DEF IInv
<1> QED
  BY <1>1, <1>2, <1>3, <1>4, <1>5, <1>6, <1>7, <1>8, <1>9 DEF FFmpeg

LEMMA StepKeeps == IInv /\ [Next]_vars => IInv'
<1> SUFFICES ASSUME IInv, [Next]_vars PROVE IInv'
  OBVIOUS
<1>1. CASE Stop
  BY <1>1 DEF Stop, session, watch, IInv, TypeOK, OpenInv, WatchInv, CleanInv, Blocked
<1>2. CASE Tick
  <2>1. age' \in Ages /\ quiet' \in Ages /\ eagain' \in Ages \cup {None}
    BY <1>2, OlderIsAnAge, OlderMayBeNone DEF Tick, IInv, TypeOK
  <2>2. TypeOK'
    BY <1>2, <2>1 DEF Tick, session, IInv, TypeOK
  <2>3. quiet >= age => quiet' >= age'
    BY <1>2, OlderIsAnAge DEF Tick, IInv, TypeOK
  <2>4. OpenInv' /\ WatchInv' /\ CleanInv'
    BY <1>2, <2>3 DEF Tick, session, IInv, OpenInv, WatchInv, CleanInv, Blocked
  <2> QED BY <2>2, <2>4 DEF IInv
<1>3. CASE Progress
  <2>1. TypeOK'
    BY <1>3, ZeroIsAnAge DEF Progress, session, IInv, TypeOK
  <2>2. quiet' >= age'
    BY <1>3 DEF Progress, IInv, TypeOK, Ages
  <2>3. OpenInv' /\ WatchInv' /\ CleanInv'
    BY <1>3, <2>2 DEF Progress, session, IInv, OpenInv, WatchInv, CleanInv, Blocked
  <2> QED BY <2>1, <2>3 DEF IInv
<1>4. CASE Abort
  BY <1>4, FFmpegKeeps DEF Abort, FFmpeg
<1>5. CASE UNCHANGED vars
  BY <1>5 DEF vars, session, watch, IInv, TypeOK, OpenInv, WatchInv, CleanInv, Blocked
<1> QED
  BY <1>1, <1>2, <1>3, <1>4, <1>5, LoopKeeps, FFmpegKeeps DEF Next

LEMMA InvariantHolds == Spec => []IInv
<1> QED
  BY InitHolds, StepKeeps, PTL DEF Spec

-----------------------------------------------------------------------------
(* Every variable of the receiver's connection keeps its type.             *)
THEOREM TypeCorrect == Spec => []TypeOK
<1>1. IInv => TypeOK
  BY DEF IInv
<1> QED
  BY <1>1, InvariantHolds, PTL

(* The watch aborts only what is stopped, or has made no progress for      *)
(* longer than the deadline; and never an input that waits to be called    *)
(* before someone called (InterruptWatch::should_abort).                   *)
THEOREM WatchAbortsOnlyStalled == Spec => []AbortsOnlyStalled
<1>1. IInv => AbortsOnlyStalled
  <2> SUFFICES ASSUME IInv, Blocked, should_abort, active
               PROVE  quiet > Stall /\ (connected \/ ~awaits)
    BY DEF AbortsOnlyStalled
  <2>1. deadline_passed /\ ~(connected /\ news) /\ (connected \/ ~awaits)
    BY DEF should_abort
  <2>2. quiet >= age /\ quiet \in Ages /\ age \in Ages
    BY <2>1 DEF IInv, WatchInv, TypeOK
  <2> QED BY <2>1, <2>2, StallAssumption DEF deadline_passed, Ages
<1> QED
  BY <1>1, InvariantHolds, PTL

(* Nothing of a connection is left when it is closed, and no hardware      *)
(* device is carried into the next attempt (Receiver::close_ffmpeg).       *)
THEOREM NothingIsCarriedOver == Spec => []ClosedIsClean
<1>1. IInv => ClosedIsClean
  BY DEF IInv, OpenInv, CleanInv, ClosedIsClean
<1> QED
  BY <1>1, InvariantHolds, PTL

-----------------------------------------------------------------------------
(* The audio intake.                                                       *)

(* Nothing is buffered while frames are thrown away and before a timeline  *)
(* starts; and the last write begins no later than the repair expects the  *)
(* next frame to.                                                          *)
BufferInv ==
  /\ phase = "closed" \/ warmup > 0 \/ ~repair.initialised => ~buffer.written
  /\ buffer.written => buffer.pts < Duration

(* What the sender's next frame would be off by, if it goes on as it did:  *)
(* sent, for the timeline's last_pts is 0.                                 *)
Settled  == locked /\ sent = 0
Drifting == locked /\ sent < Duration - 1 /\ (steady + 1) * Duration < sent + SmallGap

(* The frames of a drift, of a count, and of the steps of a relock are as  *)
(* many as SteadyBound says.                                               *)
DriftBound == SmallGap \div Duration
StepBound  == SmallGap \div RelockStep
Counting ==
  /\ ~locked /\ ~repair.relocking
  /\ sent = repair.last_gap /\ 1 < sent /\ sent < SmallGap
  /\ repair.count \in 1..(RelockCount - 1) /\ steady <= DriftBound + repair.count
Relocking ==
  /\ ~locked /\ repair.relocking
  /\ sent > 0
  /\ (steady - DriftBound - RelockCount + 1) * RelockStep + sent < SmallGap

SteadyInv ==
  /\ steady = SteadyBound => locked
  /\ repair.last_pts = 0
  /\ repair.initialised => Settled \/ Drifting \/ Counting \/ Relocking

IntakeInv == IntakeTypeOK /\ BufferInv /\ SteadyInv /\ QueueRunsForward

-----------------------------------------------------------------------------
LEMMA QuotientBounds ==
  ASSUME NEW a \in Nat, NEW b \in Nat \ {0}
  PROVE  a \div b \in Nat /\ \A n \in Int : n * b <= a => n <= a \div b
<1> DEFINE q == a \div b
<1>1. q \in Int /\ q * b <= a /\ a < (q + 1) * b
  OBVIOUS
<1> HIDE DEF q
<1>2. q >= 0
  <2> SUFFICES ASSUME q <= -1 PROVE FALSE
    BY <1>1
  <2>1. -1 - q \in Nat /\ (q + 1) * b = -((-1 - q) * b)
    BY <1>1
  <2>2. (-1 - q) * b >= 0
    BY <2>1
  <2> QED BY <1>1, <2>1, <2>2
<1>3. ASSUME NEW n \in Int, n * b <= a PROVE n <= q
  <2> SUFFICES ASSUME n >= q + 1 PROVE FALSE
    BY <1>1
  <2> DEFINE m == n - (q + 1)
  <2>1. m \in Nat /\ n * b = (q + 1) * b + m * b
    BY <1>1
  <2>2. m * b >= 0
    BY <2>1
  <2> QED BY <1>1, <1>3, <2>1, <2>2
<1> QED
  BY <1>1, <1>2, <1>3 DEF q

LEMMA Bounds ==
  /\ DriftBound \in Nat /\ StepBound \in Nat
  /\ SteadyBound = RelockCount + StepBound + DriftBound /\ SteadyBound \in Nat \ {0}
  BY QuotientBounds, RepairAssumption DEF DriftBound, StepBound, SteadyBound

LEMMA DriftEnds == \A n \in Int : n * Duration <= SmallGap => n <= DriftBound
  BY QuotientBounds, RepairAssumption DEF DriftBound

LEMMA StepsEnd == \A n \in Int : n * RelockStep <= SmallGap => n <= StepBound
  BY QuotientBounds, RepairAssumption DEF StepBound

-----------------------------------------------------------------------------
(* What becomes of a frame: on time, or given its way; part of another     *)
(* timeline; a little early; a little late; behind a gap.                  *)
LEMMA Verdicts ==
  ASSUME NEW r \in Repairs, NEW pts \in Int
  PROVE  LET v == Evaluate(r, pts)
             gap == pts - Expected(r)
         IN  \/ v = Verdict("Pass", pts, Based(pts)) /\ (r.initialised => gap >= -1)
             \/ v = Verdict("Reset", pts, Based(pts)) /\ r.initialised
             \/ v = Verdict("Pass", pts, r) /\ r.initialised /\ -SmallGap < gap /\ gap < -1
             \/ /\ r.initialised /\ 1 < gap /\ gap < SmallGap /\ v = Interpolated(r, pts)
                /\ ~(Relocks(r, gap) /\ gap <= RelockStep)
             \/ v = Verdict("Silence", pts, Based(pts)) /\ r.initialised /\ gap >= SmallGap
<1> DEFINE gap == pts - Expected(r)
<1>1. gap \in Int /\ r.initialised \in BOOLEAN
  BY RepairAssumption DEF Repairs, Expected
<1>2. CASE ~r.initialised \/ Aligned(gap)
  BY <1>1, <1>2, RepairAssumption DEF Evaluate, Aligned
<1>3. CASE r.initialised /\ gap <= -SmallGap
  BY <1>1, <1>3, RepairAssumption DEF Evaluate, Aligned
<1>4. CASE r.initialised /\ gap > -SmallGap /\ gap < -1
  BY <1>1, <1>4, RepairAssumption DEF Evaluate, Aligned
<1>5. CASE r.initialised /\ 1 < gap /\ gap < SmallGap
  <2>1. Evaluate(r, pts) = Interpolated(r, pts)
    BY <1>1, <1>5, RepairAssumption DEF Evaluate, Aligned
  <2>2. CASE Relocks(r, gap) /\ gap <= RelockStep
    <3>1. Interpolated(r, pts) = Verdict("Pass", pts, Based(pts))
      BY <2>2 DEF Interpolated
    <3> QED BY <1>1, <1>5, <2>1, <3>1
  <2> QED BY <1>5, <2>1, <2>2
<1>6. CASE r.initialised /\ SmallGap <= gap /\ gap < LargeGap
  BY <1>1, <1>6, RepairAssumption DEF Evaluate, Aligned
<1>7. CASE r.initialised /\ gap >= LargeGap
  BY <1>1, <1>7, RepairAssumption DEF Evaluate, Aligned
<1> QED
  BY <1>1, <1>2, <1>3, <1>4, <1>5, <1>6, <1>7, RepairAssumption DEF Aligned

(* A steady frame counts one more, up to the bound, and is off by what the *)
(* one before was.                                                         *)
LEMMA SteadyFrame ==
  ASSUME IntakeInv, NEW pts \in Int, NEW v, Judge(v, pts)
  PROVE  /\ steady' \in 0..SteadyBound
         /\ steady' # 0 => /\ repair.initialised /\ pts - Duration = sent
                           /\ steady' \in {steady, steady + 1}
<1>1. sent \in Int /\ steady \in 0..SteadyBound
  BY DEF IntakeInv, IntakeTypeOK
<1> QED
  BY <1>1, Bounds, RepairAssumption DEF Judge

LEMMA BasedFields ==
  ASSUME NEW pts \in Int
  PROVE  /\ Based(pts) \in Repairs
         /\ Based(pts).last_pts = pts /\ Based(pts).last_gap = 0 /\ Based(pts).count = 0
         /\ Based(pts).relocking = FALSE /\ Based(pts).initialised = TRUE
<1>1. Fresh \in Repairs
  BY RepairAssumption DEF Fresh, Repairs
<1> QED
  BY <1>1, RepairAssumption DEF Based, Fresh, Repairs

(* Judging moves the repaired timeline so that it stands at 0.             *)
LEMMA JudgedFields ==
  ASSUME NEW v, v.repair \in Repairs, NEW pts \in Int, Judge(v, pts)
  PROVE  /\ repair' \in Repairs /\ repair'.last_pts = 0
         /\ repair'.last_gap = v.repair.last_gap /\ repair'.count = v.repair.count
         /\ repair'.relocking = v.repair.relocking
         /\ repair'.initialised = v.repair.initialised
         /\ sent' = pts - v.repair.last_pts /\ sent' \in Int
         /\ locked' <=> v.corrected = pts
<1>1. locked' <=> v.corrected = pts
  BY Zenon DEF Judge
<1> QED
  BY <1>1 DEF Judge, Repairs

(* The frame is given its own timestamp: its timeline begins with it.      *)
LEMMA NewBase ==
  ASSUME IntakeInv, NEW pts \in Int, NEW action,
         Judge(Verdict(action, pts, Based(pts)), pts)
  PROVE  /\ repair' \in Repairs /\ repair'.initialised
         /\ sent' \in Int /\ SteadyInv'
<1> DEFINE v == Verdict(action, pts, Based(pts))
<1>1. v.repair = Based(pts) /\ v.corrected = pts
  BY DEF Verdict
<1>2. Judge(v, pts)
  OBVIOUS
<1> HIDE DEF v
<1>3. v.repair \in Repairs /\ v.repair.last_pts = pts /\ v.repair.initialised
  BY <1>1, BasedFields
<1>4. /\ repair' \in Repairs /\ repair'.last_pts = 0 /\ repair'.initialised
      /\ sent' = 0 /\ locked'
  BY <1>1, <1>2, <1>3, JudgedFields
<1> QED
  BY <1>4 DEF Settled, SteadyInv

(* A frame that is a little early passes, and the timeline stays.          *)
LEMMA EarlyFrame ==
  ASSUME IntakeInv, repair.initialised, NEW pts \in Int, Judge(Verdict("Pass", pts, repair), pts),
         -SmallGap < pts - Duration, pts - Duration < -1
  PROVE  /\ repair' \in Repairs /\ repair'.initialised
         /\ sent' \in Int /\ SteadyInv'
<1>1. repair \in Repairs /\ repair.last_pts = 0 /\ sent \in Int /\ steady \in Int
  BY Bounds DEF IntakeInv, IntakeTypeOK, SteadyInv
<1> DEFINE v == Verdict("Pass", pts, repair)
<1>a. v.repair = repair /\ v.corrected = pts
  BY DEF Verdict
<1>b. Judge(v, pts)
  OBVIOUS
<1> HIDE DEF v
<1>2. repair' \in Repairs /\ repair'.last_pts = 0 /\ repair'.initialised = repair.initialised
  BY <1>1, <1>a, <1>b, JudgedFields
<1>3. sent' = pts /\ locked'
  BY <1>1, <1>a, <1>b, JudgedFields
<1>4. (steady' + 1) * Duration < sent' + SmallGap
  <2>1. steady' \in Nat
    BY SteadyFrame, Bounds
  <2>2. CASE steady' = 0
    BY <1>3, <2>2, RepairAssumption
  <2>3. CASE steady' # 0
    <3>1. pts - Duration = sent /\ steady' \in {steady, steady + 1}
      BY <2>3, SteadyFrame
    <3>2. Drifting
      BY <1>1, <3>1, RepairAssumption DEF IntakeInv, SteadyInv, Settled, Counting, Relocking
    <3>3. (steady + 1) * Duration < pts - Duration + SmallGap
      BY <3>1, <3>2 DEF Drifting
    <3>4. (steady + 1 + 1) * Duration = (steady + 1) * Duration + Duration
      BY <1>1, RepairAssumption
    <3>5. (steady + 1) * Duration \in Int
      BY <1>1, RepairAssumption
    <3>6. CASE steady' = steady
      <4>1. (steady' + 1) * Duration = (steady + 1) * Duration
        BY <3>6
      <4> QED BY <1>1, <1>3, <3>3, <3>5, <4>1, RepairAssumption
    <3>7. CASE steady' = steady + 1
      <4>1. (steady' + 1) * Duration = (steady + 1 + 1) * Duration
        BY <3>7
      <4> QED BY <1>1, <1>3, <3>3, <3>4, <3>5, <4>1, RepairAssumption
    <3> QED BY <3>1, <3>6, <3>7
  <2> QED BY <2>2, <2>3
<1>5. Drifting'
  BY <1>3, <1>4, RepairAssumption DEF Drifting
<1> QED
  BY <1>1, <1>2, <1>3, <1>5 DEF SteadyInv

(* The timeline after a small gap: as it was, with the gap held against    *)
(* it; and as it gives way.                                                *)
Held(pts, gap, count) ==
  [Based(pts) EXCEPT !.relocking = FALSE, !.last_gap = gap, !.count = count]
Yielding(pts) ==
  [Based(pts) EXCEPT !.relocking = TRUE, !.last_gap = 0, !.count = 0]

LEMMA HeldFields ==
  ASSUME NEW pts \in Int, NEW gap \in 0..SmallGap, NEW count \in Nat
  PROVE  LET r == Held(pts, gap, count)
         IN  /\ r \in Repairs /\ r.last_pts = pts /\ r.initialised
             /\ r.last_gap = gap /\ r.count = count /\ ~r.relocking
<1> DEFINE b == Based(pts)
           r == [b EXCEPT !.relocking = FALSE, !.last_gap = gap, !.count = count]
<1>1. b \in Repairs /\ b.last_pts = pts /\ b.initialised
  BY BasedFields
<1> HIDE DEF b
<1>2. r \in Repairs
  BY <1>1 DEF Repairs
<1>3. r.last_pts = pts /\ r.last_gap = gap /\ r.count = count /\ r.initialised /\ ~r.relocking
  BY <1>1 DEF Repairs
<1> HIDE DEF r
<1> QED
  BY <1>2, <1>3 DEF b, r, Held

LEMMA YieldingFields ==
  ASSUME NEW pts \in Int
  PROVE  LET r == Yielding(pts)
         IN  r \in Repairs /\ r.last_pts = pts /\ r.initialised /\ r.relocking
  BY BasedFields, RepairAssumption DEF Repairs, Yielding

(* A frame that is a little late is moved back, and counted; or the        *)
(* timeline gives way by a step.                                           *)
LEMMA LateFrame ==
  ASSUME IntakeInv, repair.initialised, NEW pts \in Int, Judge(Interpolated(repair, pts), pts),
         1 < pts - Duration, pts - Duration < SmallGap,
         ~(Relocks(repair, pts - Duration) /\ pts - Duration <= RelockStep)
  PROVE  /\ repair' \in Repairs /\ repair'.initialised
         /\ sent' \in Int /\ SteadyInv'
<1>0. PICK gap \in Int, old \in Int, new \in Int : gap = pts - Duration /\ old = steady /\ new = steady'
  BY SteadyFrame, Bounds, RepairAssumption DEF IntakeInv, IntakeTypeOK
<1>1. repair \in Repairs /\ repair.last_pts = 0 /\ sent \in Int /\ old >= 0
  BY <1>0, Bounds DEF IntakeInv, IntakeTypeOK, SteadyInv
<1>2. Expected(repair) = Duration /\ pts - Expected(repair) = gap /\ 1 < gap /\ gap < SmallGap
  BY <1>0, <1>1, RepairAssumption DEF Expected
<1>3. new >= 0
  BY <1>0, SteadyFrame, Bounds
<1>4. PICK same \in Nat \ {0} : same = SameGaps(repair, gap)
  BY <1>1 DEF SameGaps, Repairs
<1>5. ASSUME new # 0
      PROVE  gap = sent /\ new \in {old, old + 1} /\ (Drifting \/ Counting \/ Relocking)
  <2>1. gap = sent /\ new \in {old, old + 1}
    BY <1>0, <1>5, SteadyFrame
  <2> QED BY <1>2, <2>1, RepairAssumption DEF IntakeInv, SteadyInv, Settled
<1>6. ASSUME Drifting PROVE old <= DriftBound
  <2>1. old * Duration \in Int /\ (old + 1) * Duration = old * Duration + Duration
    BY RepairAssumption
  <2>2. (old + 1) * Duration < sent + SmallGap /\ sent < Duration - 1
    BY <1>0, <1>6 DEF Drifting
  <2>3. old * Duration <= SmallGap
    BY <1>1, <2>1, <2>2, RepairAssumption
  <2> QED BY <2>3, DriftEnds
<1>7. ASSUME Counting, gap = sent
      PROVE  same = repair.count + 1 /\ same <= RelockCount /\ old < DriftBound + same
  <2>1. repair.count \in 1..(RelockCount - 1) /\ old <= DriftBound + repair.count
    BY <1>0, <1>7 DEF Counting
  <2>2. same = repair.count + 1
    BY <1>4, <1>7, <2>1, RepairAssumption DEF Counting, SameGaps
  <2> QED BY <2>1, <2>2, Bounds, RepairAssumption
<1>r. Relocks(repair, gap) \in BOOLEAN
  BY <1>1 DEF Relocks, Repairs
<1>8. CASE ~Relocks(repair, gap)
  <2>1. same < RelockCount /\ ~repair.relocking
    BY <1>4, <1>8, RepairAssumption DEF Relocks
  <2>2. Interpolated(repair, pts) =
          Verdict("Interpolate", Duration + 0,
            Held(Duration + 0, gap, same))
    BY <1>2, <1>4, <1>r, <1>8 DEF Interpolated, Held
  <2>3. /\ repair' \in Repairs /\ repair'.last_pts = 0 /\ repair'.initialised
        /\ repair'.last_gap = gap /\ repair'.count = same /\ ~repair'.relocking
        /\ sent' = gap /\ ~locked'
    <3>0. PICK c \in Int : c = Duration + 0
      BY RepairAssumption
    <3> DEFINE r == Held(c, gap, same)
               v == Verdict("Interpolate", c, r)
    <3>1. gap \in 0..SmallGap
      BY <1>2, RepairAssumption
    <3>2. /\ r \in Repairs /\ r.last_pts = c /\ r.initialised
          /\ r.last_gap = gap /\ r.count = same /\ ~r.relocking
      BY <1>4, <3>0, <3>1, HeldFields
    <3> HIDE DEF r
    <3>3. v.repair = r /\ v.corrected = c
      BY DEF Verdict
    <3>4. Judge(v, pts)
      BY <2>2, <3>0 DEF r
    <3> HIDE DEF v
    <3>5. pts # c /\ pts - c = gap
      BY <1>0, <1>2, <3>0, RepairAssumption
    <3> QED BY <3>2, <3>3, <3>4, <3>5, JudgedFields
  <2>4. new <= DriftBound + same
    <3>1. CASE new = 0
      BY <3>1, Bounds
    <3>2. CASE new # 0 /\ Drifting
      BY <1>5, <1>6, <3>2, Bounds
    <3>3. CASE new # 0 /\ Counting
      BY <1>5, <1>7, <3>3, Bounds
    <3>4. CASE new # 0 /\ Relocking
      BY <2>1, <3>4 DEF Relocking
    <3> QED BY <1>5, <3>1, <3>2, <3>3, <3>4
  <2>5. Counting'
    BY <1>0, <1>2, <2>1, <2>3, <2>4, RepairAssumption DEF Counting
  <2>6. new # SteadyBound
    BY <2>1, <2>4, Bounds, RepairAssumption
  <2> QED BY <1>0, <1>2, <2>3, <2>5, <2>6 DEF SteadyInv
<1>9. CASE Relocks(repair, gap)
  <2>1. gap > RelockStep
    BY <1>0, <1>2, <1>9, RepairAssumption
  <2>2. Interpolated(repair, pts) =
          Verdict("Interpolate", Duration + RelockStep,
            Yielding(Duration + RelockStep))
    <3>1. ~(gap <= RelockStep)
      BY <2>1, RepairAssumption
    <3> QED BY <1>2, <1>9, <1>r, <3>1 DEF Interpolated, Yielding
  <2>3. /\ repair' \in Repairs /\ repair'.last_pts = 0 /\ repair'.initialised
        /\ repair'.relocking /\ sent' = gap - RelockStep /\ ~locked'
    <3>0. PICK c \in Int : c = Duration + RelockStep
      BY RepairAssumption
    <3> DEFINE r == Yielding(c)
               v == Verdict("Interpolate", c, r)
    <3>1. 0 \in 0..SmallGap
      BY RepairAssumption
    <3>2. /\ r \in Repairs /\ r.last_pts = c /\ r.initialised
          /\ r.relocking
      BY <1>4, <3>0, <3>1, YieldingFields
    <3> HIDE DEF r
    <3>3. v.repair = r /\ v.corrected = c
      BY DEF Verdict
    <3>4. Judge(v, pts)
      BY <2>2, <3>0 DEF r
    <3> HIDE DEF v
    <3>5. pts # c /\ pts - c = gap - RelockStep
      BY <1>0, <2>1, <3>0, RepairAssumption
    <3> QED BY <3>2, <3>3, <3>4, <3>5, JudgedFields
  <2> DEFINE over == new - DriftBound - RelockCount
             before == old - DriftBound - RelockCount + 1
  <2>4. over \in Int /\ before \in Int /\ (new \in {old, old + 1} => over \in {before, before - 1})
    BY Bounds, RepairAssumption
  <2>5. over * RelockStep + gap < SmallGap
    <3>1. CASE over <= 0
      <4> HIDE DEF over
      <4>1. -over \in Nat /\ over * RelockStep = -((-over) * RelockStep)
        BY <2>4, <3>1, RepairAssumption
      <4>2. (-over) * RelockStep >= 0
        BY <4>1, RepairAssumption
      <4>3. over * RelockStep \in Int
        BY <2>4, RepairAssumption
      <4> QED BY <1>2, <4>1, <4>2, <4>3, RepairAssumption
    <3>2. CASE over > 0
      <4>1. new # 0 /\ new > DriftBound + RelockCount
        BY <3>2, Bounds, RepairAssumption
      <4>2. new \in {old, old + 1} /\ gap = sent
        BY <1>5, <4>1
      <4>3. ~Drifting /\ ~Counting
        BY <1>6, <1>7, <4>1, <4>2, Bounds, RepairAssumption
      <4>4. before * RelockStep + gap < SmallGap
        BY <1>0, <1>5, <4>1, <4>2, <4>3 DEF Relocking
      <4> HIDE DEF before, over
      <4>5. (before - 1) * RelockStep = before * RelockStep - RelockStep /\ before * RelockStep \in Int
        BY <2>4, RepairAssumption
      <4> QED BY <1>2, <2>4, <4>2, <4>4, <4>5, RepairAssumption
    <3> QED BY <2>4, <3>1, <3>2
  <2> HIDE DEF before
  <2>6. (over + 1) * RelockStep + (gap - RelockStep) < SmallGap
    <3> HIDE DEF over
    <3>1. (over + 1) * RelockStep = over * RelockStep + RelockStep /\ over * RelockStep \in Int
      BY <2>4, RepairAssumption
    <3> QED BY <2>5, <3>1, RepairAssumption
  <2>7. Relocking'
    <3>1. gap - RelockStep > 0
      BY <2>1, RepairAssumption
    <3> QED BY <1>0, <2>3, <2>6, <3>1 DEF Relocking
  <2>8. new # SteadyBound
    <3>1. (over + 1) * RelockStep <= SmallGap
      <4> HIDE DEF over
      <4>1. (over + 1) * RelockStep \in Int
        BY <2>4, RepairAssumption
      <4> QED BY <2>1, <2>6, <4>1, RepairAssumption
    <3>2. over + 1 <= StepBound
      BY <2>4, <3>1, StepsEnd
    <3> QED BY <3>2, Bounds, RepairAssumption
  <2> QED BY <1>0, <2>3, <2>7, <2>8, RepairAssumption DEF SteadyInv
<1> QED
  BY <1>8, <1>9

(* Whatever is made of a frame, the timeline goes on.                      *)
LEMMA FrameJudged ==
  ASSUME IntakeInv, NEW pts \in Int, Judge(Evaluate(repair, pts), pts)
  PROVE  /\ repair' \in Repairs /\ repair'.initialised
         /\ sent' \in Int /\ steady' \in 0..SteadyBound /\ locked' \in BOOLEAN
         /\ SteadyInv'
<1>1. repair \in Repairs /\ Expected(repair) = Duration
  BY RepairAssumption DEF IntakeInv, IntakeTypeOK, SteadyInv, Expected
<1>2. steady' \in 0..SteadyBound
  BY SteadyFrame
<1>3. locked' \in BOOLEAN
  BY Zenon DEF Judge
<1>4. repair' \in Repairs /\ repair'.initialised /\ sent' \in Int /\ SteadyInv'
  <2>1. CASE \E action \in {"Pass", "Reset", "Silence"} :
               Evaluate(repair, pts) = Verdict(action, pts, Based(pts))
    BY <2>1, NewBase
  <2>2. CASE /\ Evaluate(repair, pts) = Verdict("Pass", pts, repair)
             /\ repair.initialised /\ -SmallGap < pts - Duration /\ pts - Duration < -1
    BY <2>2, EarlyFrame
  <2>3. CASE /\ Evaluate(repair, pts) = Interpolated(repair, pts)
             /\ repair.initialised /\ 1 < pts - Duration /\ pts - Duration < SmallGap
             /\ ~(Relocks(repair, pts - Duration) /\ pts - Duration <= RelockStep)
    BY <2>3, LateFrame
  <2> QED BY <1>1, <2>1, <2>2, <2>3, Verdicts
<1> QED
  BY <1>2, <1>3, <1>4

(* What becomes of a frame, as far as writing it goes.                     *)
LEMMA VerdictFits ==
  ASSUME IntakeInv, NEW pts \in Int, NEW v, v = Evaluate(repair, pts)
  PROVE  /\ v.corrected \in Int /\ v.repair.last_pts \in Int
         /\ v.corrected - v.repair.last_pts < Duration
         /\ v.action = "Silence" => /\ repair.initialised
                                    /\ v.corrected >= Duration + SmallGap
                                    /\ v.repair.last_pts = v.corrected
         /\ v.action # "Reset" /\ repair.initialised =>
              v.corrected >= Duration - SmallGap /\ v.repair.last_pts >= 0
<1>1. repair \in Repairs /\ repair.last_pts = 0 /\ Expected(repair) = Duration
  BY RepairAssumption DEF IntakeInv, IntakeTypeOK, SteadyInv, Expected
<1>2. Based(pts).last_pts = pts
  BY BasedFields
<1>3. CASE v = Verdict("Pass", pts, Based(pts)) /\ (repair.initialised => pts - Duration >= -1)
  <2>1. v.action = "Pass" /\ v.corrected = pts /\ v.repair.last_pts = pts
    BY <1>2, <1>3 DEF Verdict
  <2> QED BY <1>3, <2>1, RepairAssumption
<1>4. CASE v = Verdict("Reset", pts, Based(pts))
  <2>1. v.action = "Reset" /\ v.corrected = pts /\ v.repair.last_pts = pts
    BY <1>2, <1>4 DEF Verdict
  <2> QED BY <2>1, RepairAssumption
<1>5. CASE v = Verdict("Pass", pts, repair) /\ -SmallGap < pts - Duration /\ pts - Duration < -1
  <2>1. v.action = "Pass" /\ v.corrected = pts /\ v.repair.last_pts = 0
    BY <1>1, <1>5 DEF Verdict
  <2> QED BY <1>5, <2>1, RepairAssumption
<1>6. CASE /\ v = Interpolated(repair, pts) /\ 1 < pts - Duration
           /\ ~(Relocks(repair, pts - Duration) /\ pts - Duration <= RelockStep)
  <2>1. PICK c \in {Duration, Duration + RelockStep} : 
          c = Duration + (IF Relocks(repair, pts - Duration) THEN RelockStep ELSE 0)
    BY RepairAssumption
  <2>2. c \in Int /\ c >= Duration
    BY <2>1, RepairAssumption
  <2>3. \E r : v = Verdict("Interpolate", c, r) /\ r.last_pts = c
    <3> DEFINE gap == pts - Duration
               b == Based(c)
               r == [b EXCEPT !.relocking = Relocks(repair, gap),
                              !.last_gap = IF Relocks(repair, gap) THEN 0 ELSE gap,
                              !.count = IF Relocks(repair, gap) THEN 0 ELSE SameGaps(repair, gap)]
    <3>1. b \in Repairs /\ b.last_pts = c
      BY <2>2, BasedFields
    <3>2. v = Verdict("Interpolate", c, r)
      BY <1>1, <1>6, <2>1 DEF Interpolated
    <3> HIDE DEF b
    <3>3. r.last_pts = c
      BY <3>1 DEF Repairs
    <3> QED BY <3>2, <3>3
  <2>4. v.action = "Interpolate" /\ v.corrected = c /\ v.repair.last_pts = c
    BY <2>3 DEF Verdict
  <2> QED BY <2>2, <2>4, RepairAssumption
<1>7. CASE v = Verdict("Silence", pts, Based(pts)) /\ repair.initialised /\ pts - Duration >= SmallGap
  <2>1. v.action = "Silence" /\ v.corrected = pts /\ v.repair.last_pts = pts
    BY <1>2, <1>7 DEF Verdict
  <2> QED BY <1>7, <2>1, RepairAssumption
<1> QED
  BY <1>1, <1>3, <1>4, <1>5, <1>6, <1>7, Verdicts

-----------------------------------------------------------------------------
(* The buffer.                                                             *)
Writes == [written : BOOLEAN, pts : Int]

(* The last write, in the time of the timeline as it stands.               *)
LEMMA ShiftedInTime ==
  ASSUME NEW b \in Writes, NEW base \in Int, b.written => b.pts - base < Duration
  PROVE  /\ Shifted(b, base) \in Writes
         /\ Shifted(b, base).written => b.written /\ Shifted(b, base).pts < Duration
<1>1. CASE b.written
  <2> DEFINE p == IF b.pts - base < -Duration THEN -Duration ELSE b.pts - base
  <2>1. p \in Int /\ p < Duration
    BY <1>1, RepairAssumption DEF Writes
  <2>2. Shifted(b, base) = [b EXCEPT !.pts = p]
    BY <1>1 DEF Shifted
  <2> HIDE DEF p
  <2> QED BY <1>1, <2>1, <2>2 DEF Writes
<1>2. CASE ~b.written
  BY <1>2 DEF Shifted, Empty, Writes
<1> QED
  BY <1>1, <1>2

LEMMA ReadyForAFrame ==
  ASSUME IntakeInv, NEW f
  PROVE  /\ ReadyBuffer(f) \in Writes /\ ReadyWarmup(f) \in 0..Warmup
         /\ ReadyBuffer(f).written => /\ phase # "closed" /\ repair.initialised
                                      /\ ReadyBuffer(f).pts < Duration
         /\ ReadyWarmup(f) > 0 => ~ReadyBuffer(f).written
  BY IntakeAssumption DEF IntakeInv, IntakeTypeOK, BufferInv, ReadyBuffer, ReadyWarmup, Empty, Writes

(* A frame in the warm-up is judged and thrown away; nothing is buffered.  *)
LEMMA WarmupFrameKeeps ==
  ASSUME IntakeInv, NEW f \in Formats, NEW pts \in Int, phase = "draining", WarmupFrame(f, pts),
         format' = f, errors' = 0, UNCHANGED <<phase, gate>>
  PROVE  IntakeInv'
<1> DEFINE v == Evaluate(repair, pts)
<1>1. /\ ReadyWarmup(f) > 0 /\ warmup' = ReadyWarmup(f) - 1
      /\ buffer' = Shifted(ReadyBuffer(f), v.repair.last_pts)
      /\ Judge(v, pts) /\ cooled' = cooled /\ UNCHANGED <<timeline_reset, ran_back>>
  BY DEF WarmupFrame
<1>2. buffer' = Empty
  BY <1>1, ReadyForAFrame DEF Shifted
<1>3. warmup' \in 0..Warmup
  BY <1>1, ReadyForAFrame, IntakeAssumption
<1>4. /\ repair' \in Repairs /\ repair'.initialised
      /\ sent' \in Int /\ steady' \in 0..SteadyBound /\ locked' \in BOOLEAN /\ SteadyInv'
  BY <1>1, FrameJudged
<1> HIDE DEF v
<1>5. IntakeTypeOK'
  <2>1. {cooled', gate', timeline_reset', locked', ran_back'} \subseteq BOOLEAN
    BY <1>1, <1>4 DEF IntakeInv, IntakeTypeOK
  <2> QED
    BY <1>2, <1>3, <1>4, <2>1, IntakeAssumption DEF IntakeInv, IntakeTypeOK, Empty
<1>6. BufferInv' /\ QueueRunsForward'
  BY <1>1, <1>2 DEF IntakeInv, BufferInv, QueueRunsForward, Empty
<1> QED
  BY <1>4, <1>5, <1>6 DEF IntakeInv

(* A frame behind the warm-up: what is written for it, silence first if    *)
(* there is a gap, begins where the write before it may be followed.       *)
LEMMA DispatchedFrameKeeps ==
  ASSUME IntakeInv, NEW f \in Formats, NEW pts \in Int, NEW resampled \in BOOLEAN,
         phase = "draining", DispatchedFrame(f, pts, resampled),
         format' = f, errors' = 0, UNCHANGED <<phase, gate>>
  PROVE  IntakeInv'
<1> DEFINE v == Evaluate(repair, pts)
           emptied == Emptied(v, f)
           filled  == IF v.action = "Silence" THEN Write(emptied, Expected(repair)) ELSE emptied
           kept    == resampled /\ ~gate
           written == IF kept THEN Write(filled, v.corrected) ELSE filled
<1>1. /\ ReadyWarmup(f) = 0 /\ warmup' = 0
      /\ buffer' = Shifted(written, v.repair.last_pts)
      /\ Judge(v, pts)
      /\ timeline_reset' = (timeline_reset \/ v.action = "Reset")
      /\ cooled' = (cooled \/ v.action = "Reset")
      /\ ran_back' = \/ ran_back
                     \/ v.action = "Silence" /\ Backwards(emptied, Expected(repair))
                     \/ kept /\ Backwards(filled, v.corrected)
  BY DEF DispatchedFrame
<1>2. /\ repair' \in Repairs /\ repair'.initialised
      /\ sent' \in Int /\ steady' \in 0..SteadyBound /\ locked' \in BOOLEAN /\ SteadyInv'
  BY <1>1, FrameJudged
<1>3. Expected(repair) = Duration
  BY RepairAssumption DEF IntakeInv, SteadyInv, Expected
<1>4. /\ v.corrected \in Int /\ v.repair.last_pts \in Int
      /\ v.corrected - v.repair.last_pts < Duration
      /\ v.action = "Silence" => /\ repair.initialised
                                 /\ v.corrected >= Duration + SmallGap
                                 /\ v.repair.last_pts = v.corrected
      /\ v.action # "Reset" /\ repair.initialised =>
           v.corrected >= Duration - SmallGap /\ v.repair.last_pts >= 0
  BY VerdictFits
<1>5. /\ emptied \in Writes
      /\ emptied.written => /\ v.action # "Reset" /\ repair.initialised
                            /\ emptied.pts < Duration
  BY ReadyForAFrame DEF Emptied, Empty, Writes
<1> HIDE DEF v, emptied
<1>6. /\ filled \in Writes
      /\ filled.written => /\ filled.pts - v.repair.last_pts < Duration
                           /\ filled.pts < v.corrected + SmallGap
  <2>1. CASE v.action = "Silence"
    <3>1. filled = [written |-> TRUE, pts |-> Duration]
      BY <1>3, <2>1 DEF Write
    <3> HIDE DEF filled
    <3> QED BY <1>4, <2>1, <3>1, RepairAssumption DEF Writes
  <2>2. CASE v.action # "Silence"
    <3>1. filled = emptied
      BY <2>2
    <3> HIDE DEF filled
    <3> QED BY <1>4, <1>5, <3>1, RepairAssumption DEF Writes
  <2> QED BY <2>1, <2>2
<1> HIDE DEF filled
<1>7. /\ written \in Writes
      /\ written.written => written.pts - v.repair.last_pts < Duration
  <2>1. CASE kept
    <3>1. written = [written |-> TRUE, pts |-> v.corrected]
      BY <2>1 DEF Write
    <3> HIDE DEF written
    <3> QED BY <1>4, <3>1 DEF Writes
  <2>2. CASE ~kept
    BY <1>6, <2>2
  <2> QED BY <2>1, <2>2
<1> HIDE DEF written
<1>8. buffer' \in Writes /\ (buffer'.written => buffer'.pts < Duration)
  BY <1>1, <1>4, <1>7, ShiftedInTime
<1>9. ~Backwards(filled, v.corrected)
  BY <1>4, <1>6, RepairAssumption DEF Backwards, Writes
<1>10. ~Backwards(emptied, Expected(repair))
  BY <1>3, <1>5, RepairAssumption DEF Backwards, Writes
<1>11. ran_back' = FALSE
  BY <1>1, <1>9, <1>10 DEF IntakeInv, QueueRunsForward
<1>12. IntakeTypeOK'
  <2>1. {cooled', gate', timeline_reset', locked', ran_back'} \subseteq BOOLEAN
    BY <1>1, <1>2, <1>11 DEF IntakeInv, IntakeTypeOK
  <2> QED
    BY <1>1, <1>2, <1>8, <2>1, IntakeAssumption DEF IntakeInv, IntakeTypeOK, Writes
<1>13. BufferInv' /\ QueueRunsForward'
  BY <1>1, <1>2, <1>8, <1>11 DEF BufferInv, QueueRunsForward
<1> QED
  BY <1>2, <1>12, <1>13 DEF IntakeInv

LEMMA FramesKeep == IntakeInv /\ (HandleFrame \/ FrameWithoutTimestamp) => IntakeInv'
<1> SUFFICES ASSUME IntakeInv, HandleFrame \/ FrameWithoutTimestamp PROVE IntakeInv'
  OBVIOUS
<1>1. CASE HandleFrame
  <2>1. PICK f \in Formats, resampled \in BOOLEAN, pts \in Timestamps :
          (WarmupFrame(f, pts) \/ DispatchedFrame(f, pts, resampled)) /\ format' = f
    BY <1>1 DEF HandleFrame
  <2>2. pts \in Int
    <3>1. Expected(repair) \in Int /\ sent + Duration \in Int
      BY RepairAssumption DEF Expected, IntakeInv, IntakeTypeOK, SteadyInv
    <3> QED BY <2>1, <3>1, IntakeAssumption DEF Timestamps
  <2> QED
    BY <1>1, <2>1, <2>2, WarmupFrameKeeps, DispatchedFrameKeeps DEF HandleFrame
<1>2. CASE FrameWithoutTimestamp
  <2>1. PICK f \in Formats : format' = f /\ buffer' = ReadyBuffer(f) /\ warmup' = ReadyWarmup(f)
    BY <1>2 DEF FrameWithoutTimestamp
  <2>2. IntakeTypeOK'
    BY <1>2, <2>1, ReadyForAFrame, IntakeAssumption
       DEF FrameWithoutTimestamp, history, IntakeInv, IntakeTypeOK, Writes
  <2>3. BufferInv'
    BY <1>2, <2>1, ReadyForAFrame DEF FrameWithoutTimestamp, BufferInv
  <2>4. SteadyInv' /\ QueueRunsForward'
    BY <1>2 DEF FrameWithoutTimestamp, history, IntakeInv, SteadyInv, QueueRunsForward,
       Settled, Drifting, Counting, Relocking
  <2> QED BY <2>2, <2>3, <2>4 DEF IntakeInv
<1> QED
  BY <1>1, <1>2

-----------------------------------------------------------------------------
LEMMA IntakeInitHolds == IntakeInit => IntakeInv
<1> SUFFICES ASSUME IntakeInit PROVE IntakeInv
  OBVIOUS
<1>1. Fresh \in Repairs /\ Fresh.last_pts = 0 /\ ~Fresh.initialised
  BY RepairAssumption DEF Fresh, Repairs
<1>2. IntakeTypeOK
  <2>1. repair \in Repairs /\ format \in Formats \cup {NoFormat}
        /\ buffer \in [written : BOOLEAN, pts : Int]
    BY <1>1 DEF IntakeInit, Empty
  <2>2. /\ phase \in {"closed", "reading", "draining"}
        /\ {cooled, gate, timeline_reset, locked, ran_back} \subseteq BOOLEAN
    BY DEF IntakeInit
  <2>3. /\ warmup \in 0..Warmup /\ errors \in 0..(Burst - 1)
        /\ sent \in Int /\ steady \in 0..SteadyBound
    BY Bounds, IntakeAssumption DEF IntakeInit
  <2> QED BY <2>1, <2>2, <2>3 DEF IntakeTypeOK
<1>3. BufferInv /\ SteadyInv /\ QueueRunsForward
  BY <1>1 DEF IntakeInit, BufferInv, SteadyInv, QueueRunsForward, Empty
<1> QED
  BY <1>2, <1>3 DEF IntakeInv

(* What leaves the timeline and what is known of it alone, or starts both  *)
(* over with the buffer emptied.                                           *)
LEMMA TimelineKept ==
  ASSUME IntakeInv, IntakeTypeOK', UNCHANGED <<repair, sent, steady, locked, ran_back>>,
         BufferInv'
  PROVE  IntakeInv'
<1>1. SteadyInv' /\ QueueRunsForward'
  BY DEF IntakeInv, SteadyInv, QueueRunsForward, Settled, Drifting, Counting, Relocking
<1> QED
  BY <1>1 DEF IntakeInv

LEMMA TimelineStartsOver ==
  ASSUME IntakeInv, IntakeTypeOK', repair' = Fresh, steady' = 0 \/ (UNCHANGED <<steady, locked>>),
         UNCHANGED ran_back, BufferInv'
  PROVE  IntakeInv'
<1>1. Fresh.last_pts = 0 /\ ~Fresh.initialised
  BY DEF Fresh
<1>2. SteadyInv' /\ QueueRunsForward'
  BY <1>1, Bounds DEF IntakeInv, SteadyInv, QueueRunsForward
<1> QED
  BY <1>2 DEF IntakeInv

LEMMA CountErrorTyped ==
  ASSUME IntakeInv, CountError
  PROVE  errors' \in 0..(Burst - 1) /\ cooled' \in BOOLEAN
<1>1. errors' \in 0..(Burst - 1)
  BY IntakeAssumption DEF IntakeInv, IntakeTypeOK, CountError
<1>2. cooled' \in BOOLEAN
  BY DEF CountError
<1> QED
  BY <1>1, <1>2

LEMMA IntakeStepKeeps == IntakeInv /\ [IntakeNext]_intake_vars => IntakeInv'
<1> SUFFICES ASSUME IntakeInv, [IntakeNext]_intake_vars PROVE IntakeInv'
  OBVIOUS
<1>f. Fresh \in Repairs /\ ~Fresh.initialised
  BY RepairAssumption DEF Fresh, Repairs
<1>1. CASE Connect
  <2>1. IntakeTypeOK'
    BY <1>1, <1>f, Bounds, IntakeAssumption DEF Connect, decoding, IntakeInv, IntakeTypeOK
  <2>2. BufferInv'
    BY <1>1 DEF Connect, IntakeInv, BufferInv
  <2> QED BY <1>1, <2>1, <2>2, TimelineStartsOver DEF Connect
<1>2. CASE Disconnect
  <2>1. IntakeTypeOK'
    BY <1>2, <1>f, IntakeAssumption DEF Disconnect, history, IntakeInv, IntakeTypeOK, Empty
  <2>2. BufferInv'
    BY <1>2 DEF Disconnect, BufferInv, Empty
  <2> QED BY <1>2, <2>1, <2>2, TimelineStartsOver DEF Disconnect, history
<1>3. CASE SendFails
  <2>1. IntakeTypeOK'
    BY <1>3, CountErrorTyped DEF SendFails, history, IntakeInv, IntakeTypeOK
  <2>2. BufferInv'
    BY <1>3 DEF SendFails, IntakeInv, BufferInv
  <2> QED BY <1>3, <2>1, <2>2, TimelineKept DEF SendFails, history
<1>4. CASE Send
  <2>1. IntakeTypeOK'
    BY <1>4, IntakeAssumption DEF Send, history, IntakeInv, IntakeTypeOK
  <2>2. BufferInv'
    BY <1>4 DEF Send, IntakeInv, BufferInv
  <2> QED BY <1>4, <2>1, <2>2, TimelineKept DEF Send, history
<1>5. CASE Drained
  <2>1. IntakeTypeOK'
    BY <1>5 DEF Drained, decoding, history, IntakeInv, IntakeTypeOK
  <2>2. BufferInv'
    BY <1>5 DEF Drained, IntakeInv, BufferInv
  <2> QED BY <1>5, <2>1, <2>2, TimelineKept DEF Drained, history
<1>6. CASE ReceiveFails /\ Flushes
  <2>1. IntakeTypeOK'
    <3>1. repair' \in Repairs /\ format' \in Formats \cup {NoFormat}
          /\ buffer' \in [written : BOOLEAN, pts : Int]
      <4>1. repair' = Fresh /\ buffer' = Empty /\ format' = format
        BY <1>6 DEF ReceiveFails
      <4>2. Empty \in [written : BOOLEAN, pts : Int]
        BY DEF Empty
      <4> QED BY <4>1, <4>2, <1>f DEF IntakeInv, IntakeTypeOK
    <3>2. errors' \in 0..(Burst - 1) /\ cooled' \in BOOLEAN
      BY <1>6, CountErrorTyped DEF ReceiveFails
    <3>3. /\ phase' \in {"closed", "reading", "draining"}
          /\ {cooled', gate', timeline_reset', locked', ran_back'} \subseteq BOOLEAN
      BY <1>6, <3>2 DEF ReceiveFails, IntakeInv, IntakeTypeOK
    <3>4. warmup' \in 0..Warmup /\ sent' \in Int /\ steady' \in 0..SteadyBound
      BY <1>6, Bounds, IntakeAssumption DEF ReceiveFails, IntakeInv, IntakeTypeOK
    <3> QED BY <3>1, <3>2, <3>3, <3>4 DEF IntakeTypeOK
  <2>2. BufferInv'
    BY <1>6 DEF ReceiveFails, BufferInv, Empty
  <2> QED BY <1>6, <2>1, <2>2, TimelineStartsOver DEF ReceiveFails
<1>7. CASE ReceiveFails /\ ~Flushes
  <2>1. IntakeTypeOK'
    BY <1>7, CountErrorTyped DEF ReceiveFails, IntakeInv, IntakeTypeOK
  <2>2. BufferInv'
    BY <1>7 DEF ReceiveFails, IntakeInv, BufferInv
  <2> QED BY <1>7, <2>1, <2>2, TimelineKept DEF ReceiveFails
<1>8. CASE Cool \/ KeyframeSeen \/ VideoTakesReset
  <2>1. IntakeTypeOK'
    BY <1>8 DEF Cool, KeyframeSeen, VideoTakesReset, decoding, history, IntakeInv, IntakeTypeOK
  <2>2. BufferInv'
    BY <1>8 DEF Cool, KeyframeSeen, VideoTakesReset, IntakeInv, BufferInv
  <2> QED BY <1>8, <2>1, <2>2, TimelineKept DEF Cool, KeyframeSeen, VideoTakesReset, history
<1>9. CASE UNCHANGED intake_vars
  <2>1. IntakeTypeOK'
    BY <1>9 DEF intake_vars, decoding, history, IntakeInv, IntakeTypeOK
  <2>2. BufferInv'
    BY <1>9 DEF intake_vars, IntakeInv, BufferInv
  <2> QED BY <1>9, <2>1, <2>2, TimelineKept DEF intake_vars, history
<1> QED
  BY <1>1, <1>2, <1>3, <1>4, <1>5, <1>6, <1>7, <1>8, <1>9, FramesKeep DEF IntakeNext

LEMMA IntakeInvHolds == IntakeSpec => []IntakeInv
  BY IntakeInitHolds, IntakeStepKeeps, PTL DEF IntakeSpec

-----------------------------------------------------------------------------
(* Every variable of the audio intake keeps its type.                      *)
THEOREM IntakeTypeCorrect == IntakeSpec => []IntakeTypeOK
<1>1. IntakeInv => IntakeTypeOK
  BY DEF IntakeInv
<1> QED
  BY <1>1, IntakeInvHolds, PTL

(* No write into the jitter buffer starts SmallGap or more before the one  *)
(* ahead of it, whatever the sender's timestamps do (handle_frame).        *)
THEOREM WritesRunForward == IntakeSpec => []QueueRunsForward
<1>1. IntakeInv => QueueRunsForward
  BY DEF IntakeInv
<1> QED
  BY <1>1, IntakeInvHolds, PTL

(* A sender that keeps its frames apart by their duration has its own      *)
(* timestamps back within SteadyBound frames (PtsRepair::evaluate).        *)
THEOREM SteadyStreamKeepsItsClock == IntakeSpec => []SteadyStreamRelocks
<1>1. IntakeInv => SteadyStreamRelocks
  BY DEF IntakeInv, SteadyInv, SteadyStreamRelocks
<1> QED
  BY <1>1, IntakeInvHolds, PTL

-----------------------------------------------------------------------------
(* The arithmetic.                                                         *)

(* What a quotient is.                                                     *)
LEMMA Quotient ==
  ASSUME NEW a \in Nat, NEW c \in Nat \ {0}
  PROVE  a \div c \in Nat /\ (a \div c) * c <= a /\ a < (a \div c) * c + c
<1>1. a \div c \in Nat /\ c * (a \div c) <= a /\ a < c * (a \div c) + c
  BY SMT
<1>2. (a \div c) * c = c * (a \div c)
  BY <1>1
<1> QED
  BY <1>1, <1>2

(* The nearest multiple is off by half a divisor at the most.              *)
LEMMA NearIsNear ==
  ASSUME MaxI64 \in Nat, NEW a \in Nat, NEW b \in Nat, NEW c \in Nat \ {0},
         (a * b + c \div 2) \div c <= MaxI64
  PROVE  /\ Arith!rescale_near(a, b, c) \in Nat
         /\ 2 * (Arith!rescale_near(a, b, c) * c - a * b) <= c
         /\ 2 * (a * b - Arith!rescale_near(a, b, c) * c) <= c
<1> DEFINE p == a * b
           h == c \div 2
           q == (p + h) \div c
<1>1. p \in Nat /\ h \in Nat /\ 2 * h <= c /\ c <= 2 * h + 1
  OBVIOUS
<1>2. Arith!Sign(a) * q = q /\ Arith!Abs(a) = a
  <2>1. q \in Int
    BY <1>1
  <2> HIDE DEF q
  <2> QED BY <2>1 DEF Arith!Sign, Arith!Abs
<1> HIDE DEF p, h
<1>3. q \in Nat /\ q * c <= p + h /\ p + h < q * c + c
  BY <1>1, Quotient
<1>4. q <= MaxI64
  BY DEF p, h
<1> DEFINE near == Arith!rescale_near(a, b, c)
<1>5. near = Arith!Clamp(Arith!Sign(a) * q, MaxI64)
  <2>1. ~(c <= 0 \/ b < 0)
    OBVIOUS
  <2>2. near = Arith!Clamp(Arith!Sign(a) * ((Arith!Abs(a) * b + c \div 2) \div c), MaxI64)
    BY <2>1, Zenon DEF Arith!rescale_near
  <2> QED BY <1>2, <2>2, Zenon DEF p, h
<1> HIDE DEF near, q
<1>6. near = q
  BY <1>2, <1>3, <1>4, <1>5 DEF Arith!Clamp
<1> DEFINE m == q * c
<1>7. m \in Nat
  BY <1>3
<1>8. m <= p + h /\ p + h < m + c
  BY <1>3
<1> HIDE DEF m
<1>9. 2 * (m - p) <= c /\ 2 * (p - m) <= c
  BY <1>1, <1>7, <1>8
<1>10. near \in Nat /\ 2 * (near * c - p) <= c /\ 2 * (p - near * c) <= c
  BY <1>3, <1>6, <1>9 DEF m
<1> QED
  BY <1>10 DEF near, p

(* The output clock (output_next_ts) is a count of samples since its       *)
(* anchor, so for every rate and count, and whatever led there, it is      *)
(* within half a nanosecond of the samples' own time, as long as that is   *)
(* an i64.                                                                 *)
THEOREM ClockDoesNotDrift ==
  ASSUME MaxI64 \in Nat, Second \in Nat, NEW anchor \in Int, NEW samples \in Nat, NEW rate \in Nat \ {0},
         (samples * Second + rate \div 2) \div rate <= MaxI64
  PROVE  Arith!ClockIsExact(anchor, samples, rate)
<1> DEFINE near == Arith!rescale_near(samples, Second, rate)
           p == samples * Second
           m == near * rate
<1>1. near \in Nat /\ 2 * (m - p) <= rate /\ 2 * (p - m) <= rate
  BY NearIsNear
<1>2. p \in Nat /\ m \in Nat
  BY <1>1
<1> HIDE DEF near
<1>3. Arith!output_next_ts(anchor, samples, rate) - anchor = near
  BY <1>1 DEF Arith!output_next_ts, near
<1> HIDE DEF p, m
<1>4. 2 * Arith!Abs(m - p) <= rate
  BY <1>1, <1>2 DEF Arith!Abs
<1> QED
  BY <1>3, <1>4 DEF Arith!ClockIsExact, m, p

LEMMA Cancel ==
  ASSUME NEW x \in Int, NEW y \in Int, NEW c \in Nat \ {0}, x * c < y * c
  PROVE  x < y
<1> SUFFICES ASSUME y <= x PROVE FALSE
  OBVIOUS
<1>1. PICK d \in Nat : x = y + d
  <2>1. x - y \in Nat /\ x = y + (x - y)
    OBVIOUS
  <2> QED BY <2>1
<1>2. x * c = y * c + d * c /\ d * c \in Nat /\ y * c \in Int
  BY <1>1
<1> QED
  BY <1>2

(* The next multiple is above by less than a divisor.                      *)
LEMMA UpIsNext ==
  ASSUME MaxI64 \in Nat, NEW a \in Nat, NEW b \in Nat, NEW c \in Nat \ {0},
         (a * b + (c - 1)) \div c <= MaxI64
  PROVE  /\ Arith!rescale_up(a, b, c) \in Nat
         /\ a * b <= Arith!rescale_up(a, b, c) * c
         /\ Arith!rescale_up(a, b, c) * c < a * b + c
<1> DEFINE p == a * b
           q == (p + (c - 1)) \div c
           up == Arith!rescale_up(a, b, c)
<1>1. p \in Nat /\ c - 1 \in Nat
  OBVIOUS
<1>2. up = Arith!Clamp(q, MaxI64)
  <2>1. ~(c <= 0 \/ b < 0) /\ ~(a < 0)
    OBVIOUS
  <2> QED BY <2>1, Zenon DEF Arith!rescale_up
<1> HIDE DEF p, up
<1>3. q \in Nat /\ q * c <= p + (c - 1) /\ p + (c - 1) < q * c + c
  BY <1>1, Quotient
<1>4. q <= MaxI64
  BY DEF p
<1> HIDE DEF q
<1>5. up = q
  BY <1>2, <1>3, <1>4 DEF Arith!Clamp
<1> DEFINE m == q * c
<1>6. m \in Nat
  BY <1>3
<1>7. p <= m /\ m < p + c
  <2>1. m <= p + (c - 1) /\ p + (c - 1) < m + c
    BY <1>3
  <2> HIDE DEF m
  <2> QED BY <1>1, <1>6, <2>1
<1>8. up \in Nat /\ p <= up * c /\ up * c < p + c
  BY <1>3, <1>5, <1>7
<1> QED
  BY <1>8 DEF up, p

(* A relock step (ms_to_ts_ceil) moves the timeline of every time base by  *)
(* at least the milliseconds asked for and by less than a tick more; read  *)
(* back (ts_to_ms) it is those or the next, where a tick is no longer than *)
(* a millisecond.                                                          *)
THEOREM RelockStepIsATick ==
  ASSUME MaxI64 \in Nat, MaxI32 \in Nat, MaxI32 <= MaxI64,
         NEW ms \in 1..(MaxI32 - 1), NEW num \in Nat \ {0}, NEW den \in Nat \ {0},
         num * 1000 <= MaxI64, den <= MaxI64,
         (ms * den + (num * 1000 - 1)) \div (num * 1000) <= MaxI64
  PROVE  Arith!StepIsATick(ms, <<num, den>>)
<1> DEFINE c == num * 1000
           tb == <<num, den>>
           ts == Arith!ms_to_ts_ceil(ms, tb)
           up == Arith!rescale_up(ms, den, c)
           p == ms * den
           t == ts * c
<1>1. c \in Nat \ {0} /\ c = 1000 * num /\ p \in Nat /\ ms \in Nat \ {0} /\ p > 0
  OBVIOUS
<1>2. tb[1] = num /\ tb[2] = den
  OBVIOUS
<1>3. up \in Nat /\ p <= up * c /\ up * c < p + c
  BY <1>1, UpIsNext
<1> HIDE DEF up
<1>4. up > 0
  BY <1>1, <1>3
<1>5. Arith!rescale_q_up(ms, <<1, 1000>>, tb) = up
  <2>1. Arith!Clamp(den, MaxI64) = den /\ Arith!Clamp(c, MaxI64) = c /\ 1 * den = den
    BY <1>1 DEF Arith!Clamp
  <2>2. <<1, 1000>>[1] = 1 /\ <<1, 1000>>[2] = 1000
    OBVIOUS
  <2>3. Arith!rescale_q_up(ms, <<1, 1000>>, tb) = Arith!rescale_up(ms, Arith!Clamp(1 * den, MaxI64), Arith!Clamp(c, MaxI64))
    BY <1>2, <2>2 DEF Arith!rescale_q_up
  <2> QED BY <2>1, <2>3 DEF up
<1>6. ts = up
  BY <1>1, <1>2, <1>4, <1>5 DEF Arith!ms_to_ts_ceil
<1> HIDE DEF ts
<1>7. ts \in Nat /\ ts >= 1 /\ t \in Nat /\ p <= t /\ t < p + c
  BY <1>1, <1>3, <1>4, <1>6
<1>8. ts * tb[1] * 1000 = t /\ (ts - 1) * tb[1] * 1000 = t - c
  BY <1>1, <1>2, <1>7
<1>9. ASSUME 1000 * num <= den PROVE Arith!ts_to_ms(ts, tb) \in {ms, ms + 1}
  <2> DEFINE h == den \div 2
             q == (t + h) \div den
  <2>1. h \in Nat /\ h < den
    OBVIOUS
  <2> HIDE DEF h, t
  <2>2. q \in Nat /\ q * den <= t + h /\ t + h < q * den + den
    BY <1>7, <2>1, Quotient
  <2> HIDE DEF q
  <2>3. (q + 1) * den = q * den + den /\ (ms + 2) * den = p + den + den /\ q * den \in Nat
    BY <2>2
  <2> HIDE DEF p
  <2>4. q * den < (ms + 2) * den /\ ms * den < (q + 1) * den
    <3>1. q * den < p + den + den
      BY <1>1, <1>7, <1>9, <2>1, <2>2, <2>3
    <3>2. p < q * den + den
      BY <1>1, <1>7, <2>1, <2>2, <2>3
    <3> QED BY <2>3, <3>1, <3>2 DEF p
  <2>5. q < ms + 2 /\ ms < q + 1
    BY <1>1, <2>2, <2>4, Cancel
  <2>6. q \in {ms, ms + 1} /\ q <= MaxI32 /\ q <= MaxI64
    BY <1>1, <2>2, <2>5
  <2>7. Arith!rescale_q_near(ts, tb, <<1, 1000>>) = q
    <3>1. Arith!Clamp(den, MaxI64) = den /\ Arith!Clamp(c, MaxI64) = c /\ 1 * den = den
      BY <1>1 DEF Arith!Clamp
    <3>2. <<1, 1000>>[1] = 1 /\ <<1, 1000>>[2] = 1000
      OBVIOUS
    <3>3. Arith!rescale_q_near(ts, tb, <<1, 1000>>) = Arith!rescale_near(ts, Arith!Clamp(c, MaxI64), Arith!Clamp(1 * den, MaxI64))
      BY <1>2, <3>2 DEF Arith!rescale_q_near
    <3>4. (ts * c + den \div 2) \div den = q
      BY DEF q, h, t
    <3>5. Arith!Sign(ts) * q = q /\ Arith!Abs(ts) = ts
      BY <1>7, <2>2 DEF Arith!Sign, Arith!Abs
    <3> HIDE DEF c
    <3>6. ~(den <= 0 \/ c < 0)
      BY <1>1
    <3>7. Arith!rescale_near(ts, c, den) = Arith!Clamp(Arith!Sign(ts) * ((Arith!Abs(ts) * c + den \div 2) \div den), MaxI64)
      BY <3>6, Zenon DEF Arith!rescale_near
    <3>8. Arith!Clamp(q, MaxI64) = q
      BY <2>2, <2>6 DEF Arith!Clamp
    <3>9. Arith!rescale_q_near(ts, tb, <<1, 1000>>) = Arith!rescale_near(ts, c, den)
      BY <3>1, <3>3
    <3> QED BY <3>4, <3>5, <3>7, <3>8, <3>9
  <2>8. Arith!ts_to_ms(ts, tb) = Arith!Clamp(q, MaxI32)
    <3>1. ~(tb[1] <= 0 \/ tb[2] <= 0)
      OBVIOUS
    <3> HIDE DEF tb
    <3> QED BY <2>7, <3>1 DEF Arith!ts_to_ms
  <2>9. Arith!Clamp(q, MaxI32) = q
    BY <2>2, <2>6 DEF Arith!Clamp
  <2> QED BY <2>6, <2>8, <2>9
<1>10. ts * tb[1] * 1000 >= ms * tb[2] /\ (ts - 1) * tb[1] * 1000 < ms * tb[2]
  <2>1. ms * tb[2] = p
    BY <1>2
  <2> HIDE DEF t, p, c
  <2> QED BY <1>1, <1>7, <1>8, <2>1
<1> QED
  BY <1>2, <1>7, <1>9, <1>10 DEF Arith!StepIsATick, ts

(* A fade takes at least a frame and no more than the chunk has.           *)
LEMMA FadeFits ==
  ASSUME FadeMs \in Nat, NEW rate \in Nat \ {0}, NEW frames \in Nat \ {0}
  PROVE  Arith!conceal_fade_frames(rate, frames) \in 1..frames
<1> DEFINE faded == (rate * FadeMs) \div 1000
<1>1. faded \in Nat
  <2>1. rate * FadeMs \in Nat
    OBVIOUS
  <2> QED BY <2>1, Quotient
<1> HIDE DEF faded
<1> DEFINE fade == IF faded <= 0 THEN 1 ELSE faded
<1>2. fade \in Nat /\ fade >= 1
  BY <1>1
<1> HIDE DEF fade
<1>3. Arith!conceal_fade_frames(rate, frames) = IF fade < frames THEN fade ELSE frames
  BY DEF Arith!conceal_fade_frames, fade, faded
<1> QED
  BY <1>2, <1>3

(* The splice after a concealment (shape_silence_from_last, apply_fade_in) *)
(* does not click, for every chunk, rate and last sample.                  *)
THEOREM SplicesDoNotClick ==
  ASSUME FadeMs \in Nat, NEW frames \in Nat \ {0}, NEW rate \in Nat \ {0}, NEW channels,
         NEW last \in [valid : BOOLEAN, channels : Nat]
  PROVE  Arith!SplicesAreSmooth(frames, channels, rate, last)
<1> DEFINE fade == Arith!conceal_fade_frames(rate, frames)
           holds(f) == last.valid /\ last.channels = channels /\ f <= fade
           silence == [f \in 1..frames |-> IF holds(f) THEN <<fade - f, fade>> ELSE <<0, 1>>]
           rise == [f \in 1..frames |-> IF f <= fade THEN <<f, fade>> ELSE <<1, 1>>]
           back == Arith!Reverse(silence)
<1>1. fade \in 1..frames
  BY FadeFits
<1> HIDE DEF fade
<1>2. silence = Arith!shape_silence_from_last(frames, channels, rate, last)
      /\ rise = Arith!apply_fade_in(frames, rate)
  BY DEF fade, Arith!shape_silence_from_last, Arith!apply_fade_in
<1>3. Len(silence) = frames /\ Len(rise) = frames
  OBVIOUS
<1>4. Len(back) = frames /\ \A f \in 1..frames : back[f] = silence[frames - f + 1]
  BY <1>3 DEF Arith!Reverse
<1> HIDE DEF back
<1>5. ASSUME NEW f \in 1..(frames - 1) PROVE Arith!Leq(rise[f], rise[f + 1])
  <2>1. f \in 1..frames /\ f + 1 \in 1..frames
    OBVIOUS
  <2>2. CASE f + 1 <= fade
    <3>1. rise[f] = <<f, fade>> /\ rise[f + 1] = <<f + 1, fade>>
      BY <1>1, <2>1, <2>2
    <3>2. f * fade <= (f + 1) * fade
      BY <1>1
    <3> QED BY <3>1, <3>2 DEF Arith!Leq
  <2>3. CASE f <= fade /\ ~(f + 1 <= fade)
    <3>1. rise[f] = <<f, fade>> /\ rise[f + 1] = <<1, 1>>
      BY <1>1, <2>1, <2>3
    <3> QED BY <1>1, <2>3, <3>1 DEF Arith!Leq
  <2>4. CASE ~(f <= fade)
    <3>1. rise[f] = <<1, 1>> /\ rise[f + 1] = <<1, 1>>
      BY <1>1, <2>1, <2>4
    <3> QED BY <3>1 DEF Arith!Leq
  <2> QED BY <1>1, <2>2, <2>3, <2>4
<1>6. ASSUME NEW f \in 1..(frames - 1) PROVE Arith!Leq(back[f], back[f + 1])
  <2> DEFINE g == frames - f
  <2>1. g \in 1..frames /\ g + 1 \in 1..frames /\ f \in 1..frames /\ f + 1 \in 1..frames
        /\ frames - f + 1 = g + 1 /\ frames - (f + 1) + 1 = g
    OBVIOUS
  <2> HIDE DEF g
  <2>2. back[f] = silence[g + 1] /\ back[f + 1] = silence[g]
    BY <1>4, <2>1
  <2>3. CASE holds(g + 1)
    <3>1. holds(g)
      BY <1>1, <2>1, <2>3
    <3>2. silence[g + 1] = <<fade - (g + 1), fade>> /\ silence[g] = <<fade - g, fade>>
      BY <2>1, <2>3, <3>1
    <3>3. (fade - (g + 1)) * fade <= (fade - g) * fade
      BY <1>1, <2>1
    <3> QED BY <2>2, <3>2, <3>3 DEF Arith!Leq
  <2>4. CASE ~holds(g + 1) /\ holds(g)
    <3>1. silence[g + 1] = <<0, 1>> /\ silence[g] = <<fade - g, fade>> /\ g <= fade
      BY <2>1, <2>4
    <3> QED BY <1>1, <2>1, <2>2, <3>1 DEF Arith!Leq
  <2>5. CASE ~holds(g + 1) /\ ~holds(g)
    <3>1. silence[g + 1] = <<0, 1>> /\ silence[g] = <<0, 1>>
      BY <2>1, <2>5
    <3>2. Arith!Leq(<<0, 1>>, <<0, 1>>)
      BY DEF Arith!Leq
    <3> QED BY <2>2, <3>1, <3>2, Zenon
  <2> QED BY <2>3, <2>4, <2>5
<1>7. silence[frames][1] = 0 /\ rise[frames][1] = rise[frames][2]
  BY <1>1
<1>8. last.channels # channels => \A f \in 1..frames : silence[f][1] = 0
  OBVIOUS
<1>9. Arith!Rising(rise) /\ Arith!Rising(back)
  BY <1>3, <1>4, <1>5, <1>6 DEF Arith!Rising
<1> QED
  BY <1>2, <1>7, <1>8, <1>9, Zenon DEF Arith!SplicesAreSmooth, back

(* A frame of a ramp has the level of its place, or full level after it.   *)
Level(f, remaining, total) ==
  IF f <= remaining THEN <<total - remaining + f - 1, total>> ELSE <<1, 1>>

RampIs(ramp, frames, remaining, total) ==
  /\ ramp.remaining = IF frames < remaining THEN remaining - frames ELSE 0
  /\ Len(ramp.gains) = frames
  /\ \A f \in 1..frames : ramp.gains[f] = Level(f, remaining, total)

LEMMA RampLevels ==
  ASSUME NEW frames \in Nat, NEW total \in Nat, NEW remaining \in 0..total
  PROVE  RampIs(Arith!apply_fade_in_ramp(frames, remaining, total), frames, remaining, total)
<1> DEFINE ramped == IF frames < remaining THEN frames ELSE remaining
           asked == IF total <= 0 \/ remaining <= 0 THEN 0 ELSE IF frames < remaining THEN frames ELSE remaining
           gains == [f \in 1..frames |-> IF f <= ramped THEN <<total - remaining + f - 1, total>> ELSE <<1, 1>>]
           ramp == Arith!apply_fade_in_ramp(frames, remaining, total)
<1>1. asked = ramped
  OBVIOUS
<1>2. ramp = [gains |-> [f \in 1..frames |-> IF f <= asked THEN <<total - remaining + f - 1, total>> ELSE <<1, 1>>],
              remaining |-> remaining - asked]
  BY DEF Arith!apply_fade_in_ramp
<1> HIDE DEF asked, ramp
<1>3. ramp = [gains |-> gains, remaining |-> remaining - ramped]
  BY <1>1, <1>2
<1>4. remaining - ramped = IF frames < remaining THEN remaining - frames ELSE 0
  OBVIOUS
<1>5. ASSUME NEW f \in 1..frames PROVE gains[f] = Level(f, remaining, total)
  <2>1. f <= ramped <=> f <= remaining
    OBVIOUS
  <2> HIDE DEF ramped
  <2> QED BY <2>1 DEF Level
<1> HIDE DEF ramped
<1>6. Len(gains) = frames
  OBVIOUS
<1>7. ramp.gains = gains /\ ramp.remaining = remaining - ramped
  BY <1>3
<1> HIDE DEF gains
<1> QED
  BY <1>4, <1>5, <1>6, <1>7 DEF RampIs, ramp

(* A ramp that a chunk leaves unfinished (apply_fade_in_ramp) is taken up  *)
(* by the next where it was left: two chunks are faded in as their sum     *)
(* would be, and the level never falls.                                    *)
THEOREM RampGoesOn ==
  ASSUME NEW first \in Nat, NEW second \in Nat, NEW total \in Nat, NEW remaining \in 0..total
  PROVE  LET one == Arith!apply_fade_in_ramp(first, remaining, total)
             two == Arith!apply_fade_in_ramp(second, one.remaining, total)
             both == Arith!apply_fade_in_ramp(first + second, remaining, total)
         IN  /\ both.remaining = two.remaining
             /\ Len(both.gains) = Len(one.gains) + Len(two.gains)
             /\ \A f \in 1..Len(one.gains) : both.gains[f] = one.gains[f]
             /\ \A f \in 1..Len(two.gains) : both.gains[first + f] = two.gains[f]
             /\ Arith!Rising(both.gains)
<1> DEFINE one == Arith!apply_fade_in_ramp(first, remaining, total)
           two == Arith!apply_fade_in_ramp(second, one.remaining, total)
           both == Arith!apply_fade_in_ramp(first + second, remaining, total)
<1>1. RampIs(one, first, remaining, total)
  BY RampLevels
<1>2. one.remaining \in 0..total /\ one.remaining = IF first < remaining THEN remaining - first ELSE 0
  BY <1>1 DEF RampIs
<1>3. RampIs(two, second, one.remaining, total)
  BY <1>2, RampLevels
<1>4. RampIs(both, first + second, remaining, total)
  BY RampLevels
<1> HIDE DEF one, two, both
<1>5. both.remaining = two.remaining /\ Len(both.gains) = Len(one.gains) + Len(two.gains)
  BY <1>1, <1>2, <1>3, <1>4 DEF RampIs
<1>6. ASSUME NEW f \in 1..first PROVE both.gains[f] = one.gains[f]
  <2>1. f \in 1..(first + second)
    OBVIOUS
  <2> QED BY <1>1, <1>4, <2>1 DEF RampIs
<1>7. ASSUME NEW f \in 1..second PROVE both.gains[first + f] = two.gains[f]
  <2>1. first + f \in 1..(first + second)
    OBVIOUS
  <2>2. both.gains[first + f] = Level(first + f, remaining, total) /\ two.gains[f] = Level(f, one.remaining, total)
    BY <1>3, <1>4, <2>1 DEF RampIs
  <2>3. Level(first + f, remaining, total) = Level(f, one.remaining, total)
    BY <1>2 DEF Level
  <2> QED BY <2>2, <2>3
<1>8. ASSUME NEW f \in 1..(first + second - 1) PROVE Arith!Leq(both.gains[f], both.gains[f + 1])
  <2>1. f \in 1..(first + second) /\ f + 1 \in 1..(first + second)
    OBVIOUS
  <2>2. both.gains[f] = Level(f, remaining, total) /\ both.gains[f + 1] = Level(f + 1, remaining, total)
    BY <1>4, <2>1 DEF RampIs
  <2>3. CASE f + 1 <= remaining
    <3>1. /\ Level(f, remaining, total) = <<total - remaining + f - 1, total>>
          /\ Level(f + 1, remaining, total) = <<total - remaining + f, total>>
      BY <2>3 DEF Level
    <3>2. (total - remaining + f - 1) * total <= (total - remaining + f) * total
      OBVIOUS
    <3> QED BY <2>2, <3>1, <3>2 DEF Arith!Leq
  <2>4. CASE f <= remaining /\ ~(f + 1 <= remaining)
    <3>1. /\ Level(f, remaining, total) = <<total - remaining + f - 1, total>>
          /\ Level(f + 1, remaining, total) = <<1, 1>>
      BY <2>4 DEF Level
    <3>2. (total - remaining + f - 1) * 1 <= 1 * total
      BY <2>4
    <3> QED BY <2>2, <3>1, <3>2 DEF Arith!Leq
  <2>5. CASE ~(f <= remaining)
    <3>1. Level(f, remaining, total) = <<1, 1>> /\ Level(f + 1, remaining, total) = <<1, 1>>
      BY <2>5 DEF Level
    <3>2. Arith!Leq(<<1, 1>>, <<1, 1>>)
      BY DEF Arith!Leq
    <3> QED BY <2>2, <3>1, <3>2, Zenon
  <2> QED BY <2>3, <2>4, <2>5
<1>9. Len(one.gains) = first /\ Len(two.gains) = second /\ Len(both.gains) = first + second
  BY <1>1, <1>3, <1>4 DEF RampIs
<1>10. Arith!Rising(both.gains)
  BY <1>8, <1>9 DEF Arith!Rising
<1> QED
  BY <1>5, <1>6, <1>7, <1>9, <1>10 DEF one, two, both

=============================================================================
