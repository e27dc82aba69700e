----------------------------- MODULE MCPriming -----------------------------
(* Values of the constants of Priming.  A unit is one chunk of audio, some *)
(* 100 ms at this scale.  The target 1 has a ring of 8, its ceiling at 4,  *)
(* and a gap is filled with up to 4 of silence; the hold takes the target  *)
(* 5 to 9, which needs more than MaxChunks to prime; a skew of 9 asks for  *)
(* a hold longer than the ring of the target 1.                            *)
EXTENDS Priming

CONSTANT NoValue

Either == BOOLEAN
TwoSettings == {1, 5}
SomeSkews == {0, 9}
SomeSpans == {4}
SomeGaps == {0, 4}

(* The readings Priming chooses from are computed by HoldReadings; checked *)
(* here over all short histories.                                          *)
Readings == INSTANCE HoldReadings WITH
  None <- NoValue, RaiseWindow <- 2, RelaxWindow <- 3, RaiseMin <- 1, RelaxMin <- 1,
  Margin <- 1, MaxHold <- 4, PrimeWait <- 2, BurstWindow <- 2, Lookback <- 2,
  Tolerance <- 1, MaxWait <- 5

Histories(length, times, values) ==
  UNION {{h \in [1..n -> times \X values] : \A k \in 2..n : h[k - 1][1] <= h[k][1]} : n \in 1..length}

ASSUME \A h \in Histories(4, 0..4, {0, 2, 5}) : \A current \in {0, 2, 4} :
         Readings!HoldFollowsTheWindow(h, current, 1)
ASSUME \A h \in Histories(4, 0..5, {0, 3}) : Readings!BurstsSkipOutages(h)
ASSUME \A h \in Histories(4, 0..5, {0, 2, 3}) : Readings!LiveIsSteady(h)
ASSUME \A q \in Histories(4, 1..4, BOOLEAN \X BOOLEAN) :
         Readings!WaitIsBounded([k \in DOMAIN q |-> <<q[k][1], q[k][2][1], q[k][2][2]>>])
=============================================================================
