-------------------------- MODULE MCVideoHandover --------------------------
(* Constants for model-checking VideoHandover.                             *)
EXTENDS VideoHandover, TLC

CONSTANT NoPts

Either   == BOOLEAN
NotClear == {FALSE}

(* What a packet comes to, which VideoHandover leaves open, is computed by *)
(* FrameIntake; checked here over all short connections.                   *)
Intake == INSTANCE FrameIntake WITH
  None <- NoPts, GateTimeout <- 2, Burst <- 3, WarnEvery <- 2, IntervalMin <- 4, IntervalMax <- 20

FrameOf(pts, key, corrupt) == [pts |-> pts, key |-> key, corrupt |-> corrupt, size |-> 1]
KeyFrame     == FrameOf(1, TRUE, FALSE)
DeltaFrame   == FrameOf(1, FALSE, FALSE)
DamagedFrame == FrameOf(1, FALSE, TRUE)
UntimedFrame == FrameOf(NoPts, TRUE, FALSE)

Accepted  == [sent |-> <<"ok", "ok">>, drained |-> <<>>]
Drained   == [sent |-> <<"again", "ok">>, drained |-> <<DeltaFrame>>]
StillFull == [sent |-> <<"again", "again">>, drained |-> <<KeyFrame>>]
Rejected  == [sent |-> <<"error", "error">>, drained |-> <<>>]

PacketsOf(keys, answers, frames, broke) ==
  {[key |-> k, sent |-> a.sent, drained |-> a.drained, frames |-> f, broke |-> b] :
     k \in keys, a \in answers, f \in frames, b \in broke}
Arriving(wait_for_keyframe, packets) ==
  [k \in DOMAIN packets |-> <<wait_for_keyframe[k], packets[k] @@ [at |-> k]>>]

Mixed == PacketsOf(BOOLEAN, {Accepted, Drained, StillFull},
                   {<<>>, <<KeyFrame>>, <<DamagedFrame, DeltaFrame>>, <<UntimedFrame>>}, {FALSE})
Timed == PacketsOf({TRUE}, {Accepted}, {<<FrameOf(t, TRUE, FALSE)>> : t \in {0, 3, 8, 12, 25, 40}}, {FALSE})
Failing == PacketsOf({TRUE}, {Accepted, Rejected}, {<<>>}, BOOLEAN)

ASSUME \A n \in 1..3, hevc \in BOOLEAN : \A packets \in [1..n -> Mixed] :
         LET on == Arriving([k \in 1..n |-> TRUE], packets) IN
         /\ Intake!KeyframeComesFirst(on, hevc)
         /\ \A setting \in [1..n -> BOOLEAN] : n < 3 => Intake!OnlyDamageIsHeld(Arriving(setting, packets), hevc)
         /\ Intake!OnlyDamageIsHeld(on, hevc)
ASSUME \A packets \in [1..4 -> Timed] : Intake!IntervalIsUsable(Arriving([k \in 1..4 |-> TRUE], packets))
ASSUME \A packets \in [1..6 -> Failing] : Intake!BurstsAreLogged(Arriving([k \in 1..6 |-> TRUE], packets))
=============================================================================
