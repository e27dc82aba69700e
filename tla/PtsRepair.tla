----------------------------- MODULE PtsRepair -----------------------------
(***************************************************************************)
(* The repair of one stream's audio timestamps                             *)
(* (irl-core/src/pts_repair.rs): every decoded frame is judged by the gap  *)
(* between its timestamp and the end of the frame before.  Timestamps are  *)
(* in milliseconds and every frame lasts Duration, so that ticks, rounding *)
(* and frames of varying length are left out.                              *)
(***************************************************************************)
EXTENDS Integers

CONSTANTS
  Duration,    (* of a frame                                              *)
  SmallGap,    (* below it a gap is the decoder's wobble                  *)
  LargeGap,    (* from it on the timeline is reset                        *)
  RelockCount, (* equal small gaps in a row before the timeline gives way *)
  RelockStep,  (* what it gives way by, per frame                         *)
  Tolerance    (* small gaps this close count as equal                    *)

ASSUME RepairAssumption ==
  /\ Duration \in Nat \ {0}
  /\ SmallGap \in Nat /\ LargeGap \in Nat /\ 1 < SmallGap /\ SmallGap < LargeGap
  /\ RelockCount \in Nat \ {0} /\ RelockStep \in Nat \ {0} /\ Tolerance \in Nat

Repairs == [last_pts : Int, last_gap : 0..SmallGap, count : Nat,
            relocking : BOOLEAN, initialised : BOOLEAN]

(* PtsRepair::new and reset: the next frame starts a timeline.             *)
Fresh == [last_pts |-> 0, last_gap |-> 0, count |-> 0,
          relocking |-> FALSE, initialised |-> FALSE]

(* A timeline that goes on from pts with nothing held against it.          *)
Based(pts) == [Fresh EXCEPT !.last_pts = pts, !.initialised = TRUE]

(* last: where a frame that carries no timestamp is taken to start.        *)
Expected(r) == r.last_pts + Duration

Aligned(gap) == gap \in -1..1

(* Small gaps in a row, this one included.                                 *)
SameGaps(r, gap) ==
  IF r.count > 0 /\ gap - r.last_gap \in -Tolerance..Tolerance THEN r.count + 1 ELSE 1

(* Mutant: the timeline never gives way.                                   *)
NeverRelocks(r, gap) == FALSE

Relocks(r, gap) == r.relocking \/ SameGaps(r, gap) >= RelockCount

Verdict(action, pts, r) == [action |-> action, corrected |-> pts, repair |-> r]

(* A small gap forward: the frame is moved back to where it was expected,  *)
(* or, once the gap has lasted, a step nearer to where it says it is.      *)
Interpolated(r, pts) ==
  LET gap == pts - Expected(r)
      corrected == Expected(r) + (IF Relocks(r, gap) THEN RelockStep ELSE 0)
  IN  IF Relocks(r, gap) /\ gap <= RelockStep
      THEN Verdict("Pass", pts, Based(pts))
      ELSE Verdict("Interpolate", corrected,
             [Based(corrected) EXCEPT
                !.relocking = Relocks(r, gap),
                !.last_gap = IF Relocks(r, gap) THEN 0 ELSE gap,
                !.count = IF Relocks(r, gap) THEN 0 ELSE SameGaps(r, gap)])

(* evaluate: what becomes of a frame that says it starts at pts.           *)
Evaluate(r, pts) ==
  LET gap == pts - Expected(r)
  IN  CASE ~r.initialised \/ Aligned(gap) -> Verdict("Pass", pts, Based(pts))
        [] r.initialised /\ gap <= -SmallGap -> Verdict("Reset", pts, Based(pts))
        [] r.initialised /\ gap > -SmallGap /\ gap < -1 -> Verdict("Pass", pts, r)
        [] r.initialised /\ 1 < gap /\ gap < SmallGap -> Interpolated(r, pts)
        [] r.initialised /\ SmallGap <= gap /\ gap < LargeGap ->
             Verdict("Silence", pts, Based(pts))
        [] r.initialised /\ gap >= LargeGap -> Verdict("Reset", pts, Based(pts))
=============================================================================
