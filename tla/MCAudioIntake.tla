--------------------------- MODULE MCAudioIntake ---------------------------
(* Constants for model-checking AudioIntake: a frame of 4 and a small gap  *)
(* of 6, so that wobble leaves the next frame a small gap ahead.           *)
EXTENDS AudioIntake

SomeGaps == {-20, -7, -6, -5, -3, -2, 0, 2, 3, 5, 6, 7, 8, 20}
Either   == BOOLEAN

(* The arithmetic AudioIntake and AudioPump leave out is checked here, with *)
(* a second of 10000 units and an i64 and i32 that products do reach.      *)
Exactly == INSTANCE Samples WITH
  Second <- 10000, MaxI64 <- 100000000, MaxI32 <- 100, SoftMax <- 8, FadeMs <- 8

TimeBases == {<<1, 1000>>, <<1, 90000>>, <<1, 44100>>, <<1, 25>>, <<1, 1>>, <<3, 1000>>}
SomeLast == [valid : BOOLEAN, channels : 1..2]

ASSUME \A n \in 0..3, rate \in {7, 441, 480} : \A chunks \in [1..n -> {1, 7, 96, 100}] :
         Exactly!ClockNeverDrifts(chunks, rate)
ASSUME \A ms \in 1..12, tb \in TimeBases : Exactly!StepIsATick(ms, tb)
ASSUME \A duration \in 0..60, tb \in TimeBases, rate \in {0, 441, 480}, actual \in {1, 8, 10, 40} :
         Exactly!CompensationIsExact(duration, tb, rate, actual)
ASSUME \A frames \in 1..12, channels \in 1..2, rate \in {7, 441, 1000, 4000}, last \in SomeLast :
         Exactly!SplicesAreSmooth(frames, channels, rate, last)
ASSUME \A n \in 0..3, total \in 0..9 : \A chunks \in [1..n -> 1..5] : Exactly!RampSpansChunks(chunks, total)
=============================================================================
