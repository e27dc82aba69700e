---------------------------- MODULE SampleQueue ----------------------------
(***************************************************************************)
(* What the jitter buffer promises those who fill it and drain it: a queue *)
(* of audio frames that gives them back in order, each read with the       *)
(* stream time of its first frame.  A frame is its own stream time.        *)
(***************************************************************************)
EXTENDS Integers, Sequences

VARIABLES
  queue,  (* the frames held, oldest first *)
  out     (* what the last successful read returned *)

vars == <<queue, out>>

Init == queue = << >> /\ out = [frames |-> << >>, pts |-> 0]

(* Frames of one write are added at the end, in order.                     *)
Put ==
  /\ Len(queue') >= Len(queue)
  /\ SubSeq(queue', 1, Len(queue)) = queue
  /\ \A i \in 1..Len(queue') : i > Len(queue) + 1 => queue'[i] = queue'[i - 1] + 1
  /\ UNCHANGED out

Take ==
  \E n \in 1..Len(queue) :
    /\ out' = [frames |-> SubSeq(queue, 1, n), pts |-> queue[1]]
    /\ queue' = SubSeq(queue, n + 1, Len(queue))

(* Only the oldest frames are ever given up.                               *)
Drop ==
  \E n \in 1..Len(queue) :
    /\ queue' = SubSeq(queue, n + 1, Len(queue))
    /\ UNCHANGED out

Next == Put \/ Take \/ Drop

Spec == Init /\ [][Next]_vars
=============================================================================
