---------------------------- MODULE MCAudioPump ----------------------------
(* Constants for model-checking AudioPump: ten milliseconds are a unit.    *)
EXTENDS AudioPump

Either == BOOLEAN

(* The speed AudioPump leaves open is computed by SpeedControl; checked    *)
(* here over short runs, with drains judged after two seconds.             *)
Speed == INSTANCE SpeedControl WITH DrainStuck <- 2, DrainProgress <- 2

SomeTargets == {-5, 10, 40, 400}
SomeSettings ==
  {[adaptive |-> TRUE, low_latency |-> FALSE, wm |-> Speed!derive(target), recovering |-> FALSE,
    max_speed |-> Speed!catchup_speed_max(percent)] : target \in SomeTargets, percent \in {1, 15}}
SomeTrims == {[value |-> v, last |-> 1] : v \in {-10000, 0, 10000}}
Sequences(n, S) == UNION {[1..k -> S] : k \in 1..n}

ASSUME \A s \in SomeSettings : Speed!RampIsMonotone(s.wm, s.max_speed, {5 * k : k \in 0..80})
ASSUME \A s \in SomeSettings, t \in SomeTrims :
         \A run \in Sequences(3, {0, 10, 60, 100, 180, 400} \X BOOLEAN) :
           Speed!TrimNeverWindsUp(run, t, s, 40000)
ASSUME \A chunks \in Sequences(4, {2, 480, 1024} \X {980, 999, 1150}) : Speed!CarryIsExact(chunks)
ASSUME \A cycles \in Sequences(5, BOOLEAN \X (1..4)) :
         Speed!StuckIsReported([k \in DOMAIN cycles |-> <<k, cycles[k]>>])
=============================================================================
