----------------------------- MODULE Succession -----------------------------
(***************************************************************************)
(* What a source promises whoever watches it and whoever sends to it, with *)
(* no threads and no callbacks: runs take over from one another in the     *)
(* order they were started, the input is held by the newest run or by      *)
(* nobody, and what is on screen is the last frame of a run that was the   *)
(* newest when it drew it.                                                 *)
(***************************************************************************)
EXTENDS Integers

VARIABLES
  holders,  (* the runs that hold the input          *)
  newest,   (* the newest run that has begun         *)
  screen    (* the run whose picture is on screen, 0 when blank *)

vars == <<holders, newest, screen>>

Init == holders = {} /\ newest = 0 /\ screen = 0

TakeOver ==
  /\ holders = {}
  /\ newest' \in Nat /\ newest' > newest
  /\ UNCHANGED <<holders, screen>>

Connect ==
  /\ newest # 0 /\ holders = {}
  /\ holders' = {newest}
  /\ UNCHANGED <<newest, screen>>

Disconnect ==
  /\ holders' = {}
  /\ UNCHANGED <<newest, screen>>

Draw ==
  /\ newest # 0
  /\ screen' = newest
  /\ UNCHANGED <<holders, newest>>

Blank ==
  /\ screen' = 0
  /\ UNCHANGED <<holders, newest>>

Next == TakeOver \/ Connect \/ Disconnect \/ Draw \/ Blank

Spec == Init /\ [][Next]_vars
=============================================================================
