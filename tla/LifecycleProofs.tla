-------------------------- MODULE LifecycleProofs --------------------------
(***************************************************************************)
(* Proofs about module Lifecycle, for every set of settings, every set of  *)
(* faults and every number of callbacks.                                   *)
(***************************************************************************)
EXTENDS Lifecycle, SequenceTheorems, WellFoundedInduction, TLAPS

(***************************************************************************)
(* The inductive invariant, in named parts.  ChainInv to CoverInv hold     *)
(* whatever fails; HandoverInv needs every receiver thread to be spawned.  *)
(***************************************************************************)

(* Reapers and runs are numbered in the order they were made.              *)
ChainInv ==
  \A k \in 1..Len(reapers) :
    /\ reapers[k].previous < k
    /\ reapers[k].run <= reapers[k].upto
    /\ reapers[k].upto <= Len(runs)

(* A reaper joins the one before it, so it gets past that join only after  *)
(* every earlier reaper is done.                                           *)
PreviousInv ==
  \A k \in 1..Len(reapers) :
    \/ \A j \in 1..(k-1) : Done(j)
    \/ reapers[k].pc = "previous" /\ reapers[k].previous = k - 1

(* `stopping' is the last reaper there is, or all of them are done.        *)
LastInv ==
  /\ stopping # None => stopping = Len(reapers)
  /\ obs.pc = "inline" => stopping = None /\ obs.waits_for = Len(reapers)
  /\ stopping = None /\ obs.pc # "inline" => \A k \in 1..Len(reapers) : Done(k)
  /\ obs.pc = "inline" => obs.next \in {"idle", "start", "drop"}
  /\ obs.pc = "rollback" => obs.next = "idle"

(* The installed run is the newest, and no reaper was made since.          *)
RunningInv ==
  /\ running # None =>
       /\ running = Len(runs)
       /\ \A k \in 1..Len(reapers) : reapers[k].upto < running
  /\ obs.pc \in {"inline", "drop", "gone"} => running = None

(* A worker that is alive belongs to the installed run, to the run whose   *)
(* start is being rolled back, or to a run some reaper joins.              *)
CoverInv ==
  /\ \A r \in 1..Len(runs) :
       \/ Exited(r) \/ r = running
       \/ obs.pc = "rollback" /\ obs.waits_for = r
       \/ \E k \in 1..Len(reapers) : reapers[k].run = r
  /\ \A k \in 1..Len(reapers) : \A q \in 1..reapers[k].upto :
       Exited(q) \/ \E j \in 1..k : reapers[j].run = q
  /\ \A k \in 1..Len(reapers) :
       reapers[k].pc \in {"clear", "done"} => \A q \in 1..reapers[k].upto : Exited(q)

(* What is on screen, or could be put there, comes from a run that began.  *)
ScreenInv ==
  /\ \A r \in 1..Len(runs) : runs[r].frames => Begun(r)
  /\ picture # None => Begun(picture)

(* The part of TypeOK that is about threads; the rest is about settings.   *)
ThreadsOK ==
  /\ running \in 0..Len(runs)
  /\ stopping \in 0..Len(reapers)
  /\ stop_done \in 0..Len(reapers)
  /\ obs \in [pc : ObsPc, waits_for : Nat, next : ObsPc]
  /\ runs \in Seq(Run)
  /\ reapers \in Seq(Reaper)
  /\ picture \in 0..Len(runs)

IInv ==
  /\ ThreadsOK
  /\ ChainInv /\ PreviousInv /\ LastInv /\ RunningInv /\ CoverInv /\ ScreenInv

(* The receiver that begins finds every earlier reaper done: those its     *)
(* predecessor does not cover were done when it was started.               *)
HandoverInv ==
  /\ running = None /\ obs.pc # "inline" =>
       \A k \in 1..Len(reapers) : k > stop_done => Done(k)
  /\ \A r \in 1..Len(runs) :
       /\ runs[r].predecessor <= Len(reapers)
       /\ runs[r].receiver = "waiting" =>
            /\ \A k \in 1..Len(reapers) :
                 reapers[k].upto < r /\ k > runs[r].predecessor => Done(k)
            /\ \A q \in 1..(r-1) : Exited(q) \/ \E k \in 1..Len(reapers) :
                                                 reapers[k].run = q /\ reapers[k].upto < r
       /\ Begun(r) =>
            /\ \A k \in 1..Len(reapers) : reapers[k].upto < r => Done(k)
            /\ \A q \in 1..(r-1) : Exited(q)

-----------------------------------------------------------------------------
(* Replacing one element of a sequence, and adding one.                    *)
LEMMA Replaced ==
  ASSUME NEW S, NEW s \in Seq(S), NEW t, NEW i \in 1..Len(s), NEW e \in S,
         t = [s EXCEPT ![i] = e]
  PROVE  /\ t \in Seq(S)
         /\ Len(t) = Len(s)
         /\ \A j \in 1..Len(s) : t[j] = IF j = i THEN e ELSE s[j]
  BY ExceptSeq

LEMMA Pushed ==
  ASSUME NEW S, NEW s \in Seq(S), NEW t, NEW e \in S, t = Append(s, e)
  PROVE  /\ t \in Seq(S)
         /\ Len(t) = Len(s) + 1
         /\ \A j \in 1..Len(s) : t[j] = s[j]
         /\ t[Len(s) + 1] = e
  OBVIOUS

-----------------------------------------------------------------------------
(* What a worker thread does to the record of its run, ReceiverBegins      *)
(* excepted: it never comes back to life, never begins, and never forgets  *)
(* its predecessor.                                                        *)
Ended == {"none", "exited"}

Turn(r, e) ==
  /\ e \in Run
  /\ runs' = [runs EXCEPT ![r] = e]
  /\ e.predecessor = runs[r].predecessor
  /\ runs[r].audio \in Ended => e.audio \in Ended
  /\ runs[r].video \in Ended => e.video \in Ended
  /\ runs[r].receiver \in Ended => e.receiver = runs[r].receiver
  /\ e.receiver \in {"none", "waiting"} <=> runs[r].receiver \in {"none", "waiting"}
  /\ e.receiver = "waiting" <=> runs[r].receiver = "waiting"
  /\ e.frames => runs[r].frames \/ e.receiver \notin {"none", "waiting"}

(* A step of the worker threads that leaves the order of things alone.     *)
QuietStep ==
  /\ runs' \in Seq(Run)
  /\ Len(runs') = Len(runs)
  /\ \A q \in 1..Len(runs) :
       /\ Exited(q) => Exited(q)'
       /\ runs'[q].predecessor = runs[q].predecessor
       /\ Begun(q)' <=> Begun(q)
       /\ runs'[q].receiver = "waiting" <=> runs[q].receiver = "waiting"
       /\ runs'[q].frames => runs[q].frames \/ Begun(q)
  /\ UNCHANGED <<running, stopping, stop_done, obs, reapers>>
  /\ \/ picture' \in {picture, None}
     \/ picture' \in 1..Len(runs) /\ runs[picture'].frames /\ ~Exited(picture')

LEMMA TurnIsQuiet ==
  ASSUME ThreadsOK, NEW r \in 1..Len(runs), NEW e, Turn(r, e), WorkerStep,
         picture' \in {picture, None}
  PROVE  QuietStep
<1>1. /\ runs' \in Seq(Run)
      /\ Len(runs') = Len(runs)
      /\ \A j \in 1..Len(runs) : runs'[j] = IF j = r THEN e ELSE runs[j]
  <2>1. runs \in Seq(Run) /\ e \in Run /\ runs' = [runs EXCEPT ![r] = e]
    BY DEF ThreadsOK, Turn
  <2> QED BY <2>1, Replaced
<1>2. ASSUME NEW q \in 1..Len(runs)
      PROVE  /\ Exited(q) => Exited(q)'
             /\ runs'[q].predecessor = runs[q].predecessor
             /\ Begun(q)' <=> Begun(q)
             /\ runs'[q].receiver = "waiting" <=> runs[q].receiver = "waiting"
             /\ runs'[q].frames => runs[q].frames \/ Begun(q)
  BY <1>1 DEF Turn, Ended, Exited, Begun
<1> QED
  BY <1>1, <1>2 DEF QuietStep, WorkerStep, obs_state

(* What every worker's step does, but for the beginning of a receiver and  *)
(* the output of a frame: only OpenAttempt takes hold of the input, and a  *)
(* step that blanks the screen leaves the receiver alone.                  *)
Moves(r, e) ==
  /\ Turn(r, e) /\ WorkerStep
  /\ e.receiver \in {"opening", "open"} => Holding(r) \/ OpenAttempt(r)
  /\ picture' \in {picture, None}
  /\ picture' # picture => e.receiver = runs[r].receiver

LEMMA WorkersMove ==
  ASSUME ThreadsOK, NEW r \in 1..Len(runs), ~VideoOutput(r),
         \/ AudioExit(r) \/ VideoStep(r)
         \/ OpenAttempt(r) \/ OpenSucceeds(r) \/ OpenFails(r)
         \/ ReadPacket(r) \/ ReadError(r) \/ ReceiverExit(r)
         \/ \E w \in {"audio", "video", "receiver"} : Panic(r, w)
  PROVE  \E e : Moves(r, e)
<1>0. runs[r] \in Run
  BY DEF ThreadsOK
<1> USE DEF Run, Worker, Receiver, Turn, Ended, Moves, Holding
<1>1. CASE AudioExit(r)
  <2> DEFINE e == [runs[r] EXCEPT !.audio = "exited"]
  <2>1. Moves(r, e)
    BY <1>0, <1>1 DEF AudioExit
  <2> HIDE DEF e
  <2> QED BY <2>1
<1>2. CASE VideoExit(r)
  <2> DEFINE e == [runs[r] EXCEPT !.video = "exited"]
  <2>1. Moves(r, e)
    BY <1>0, <1>2 DEF VideoExit
  <2> HIDE DEF e
  <2> QED BY <2>1
<1>3. CASE VideoClear(r)
  <2>0. PICK kept \in {FALSE, runs[r].frames} :
          runs' = [runs EXCEPT ![r].clear_pending = FALSE, ![r].frames = kept]
    BY <1>3 DEF VideoClear
  <2> DEFINE e == [runs[r] EXCEPT !.clear_pending = FALSE, !.frames = kept]
  <2>1. Moves(r, e)
    BY <1>0, <1>3, <2>0 DEF VideoClear
  <2> HIDE DEF e
  <2> QED BY <2>1
<1>4. CASE OpenAttempt(r)
  <2> DEFINE e == [runs[r] EXCEPT !.receiver = "opening"]
  <2>1. Moves(r, e)
    BY <1>0, <1>4 DEF OpenAttempt
  <2> HIDE DEF e
  <2> QED BY <2>1
<1>5. CASE OpenSucceeds(r)
  <2> DEFINE e == [runs[r] EXCEPT !.receiver = "open"]
  <2>1. Moves(r, e)
    BY <1>0, <1>5 DEF OpenSucceeds
  <2> HIDE DEF e
  <2> QED BY <2>1
<1>6. CASE OpenFails(r)
  <2> DEFINE e == [runs[r] EXCEPT !.receiver = "closed"]
  <2>1. Moves(r, e)
    BY <1>0, <1>6 DEF OpenFails
  <2> HIDE DEF e
  <2> QED BY <2>1
<1>7. CASE ReadPacket(r)
  <2> DEFINE e == [runs[r] EXCEPT !.frames = TRUE]
  <2>1. Moves(r, e)
    BY <1>0, <1>7 DEF ReadPacket
  <2> HIDE DEF e
  <2> QED BY <2>1
<1>8. CASE ReadError(r)
  <2> DEFINE e == [runs[r] EXCEPT !.receiver = "closed",
                                  !.clear_pending = @ \/ runs[r].clear_on_disconnect]
  <2>1. Moves(r, e)
    BY <1>0, <1>8 DEF ReadError
  <2> HIDE DEF e
  <2> QED BY <2>1
<1>9. CASE ReceiverExit(r)
  <2> DEFINE e == [runs[r] EXCEPT !.receiver = "exited"]
  <2>1. Moves(r, e)
    BY <1>0, <1>9 DEF ReceiverExit
  <2> HIDE DEF e
  <2> QED BY <2>1
<1>10. ASSUME NEW w \in {"audio", "video", "receiver"}, Panic(r, w)
       PROVE  \E e : Moves(r, e)
  <2>1. CASE w = "audio"
    <3> DEFINE e == [runs[r] EXCEPT !.audio = "exited", !.active = FALSE]
    <3>1. Moves(r, e)
      BY ZenonT(30), <1>0, <1>10, <2>1 DEF Panic
    <3> HIDE DEF e
    <3> QED BY <3>1
  <2>2. CASE w = "video"
    <3> DEFINE e == [runs[r] EXCEPT !.video = "exited", !.active = FALSE]
    <3>1. Moves(r, e)
      BY ZenonT(30), <1>0, <1>10, <2>2 DEF Panic
    <3> HIDE DEF e
    <3> QED BY <3>1
  <2>3. CASE w = "receiver"
    <3> DEFINE e == [runs[r] EXCEPT !.receiver = "exited", !.active = FALSE]
    <3>1. Moves(r, e)
      BY ZenonT(30), <1>0, <1>10, <2>3 DEF Panic
    <3> HIDE DEF e
    <3> QED BY <3>1
  <2> QED BY <2>1, <2>2, <2>3
<1> HIDE DEF Moves
<1> QED
  BY <1>1, <1>2, <1>3, <1>4, <1>5, <1>6, <1>7, <1>8, <1>9, <1>10 DEF VideoStep

LEMMA WorkersAreQuiet ==
  ASSUME ThreadsOK, NEW r \in 1..Len(runs),
         \/ AudioExit(r) \/ VideoStep(r)
         \/ OpenAttempt(r) \/ OpenSucceeds(r) \/ OpenFails(r)
         \/ ReadPacket(r) \/ ReadError(r) \/ ReceiverExit(r)
         \/ \E w \in {"audio", "video", "receiver"} : Panic(r, w)
  PROVE  QuietStep
<1>1. CASE VideoOutput(r)
  <2>0. runs[r] \in Run
    BY DEF ThreadsOK
  <2>1. runs' = runs /\ Len(runs') = Len(runs) /\ ~Exited(r)
    BY <1>1 DEF VideoOutput, Exited
  <2> QED
    BY <2>0, <1>1, <2>1 DEF VideoOutput, QuietStep, WorkerStep, obs_state, ThreadsOK, Exited,
       Begun, Run, Worker, Receiver
<1>2. CASE ~VideoOutput(r)
  <2>1. PICK e : Moves(r, e)
    BY <1>2, WorkersMove
  <2> QED BY <2>1, TurnIsQuiet DEF Moves
<1> QED BY <1>1, <1>2

-----------------------------------------------------------------------------
(* The invariant is kept by every kind of step.                            *)

(* A reaper that is done left no earlier one behind.                       *)
LEMMA DoneUpTo ==
  ASSUME PreviousInv, NEW k \in 1..Len(reapers), NEW j \in 1..Len(reapers),
         reapers[k].pc # "previous", j < k
  PROVE  Done(j)
<1>1. j \in 1..(k-1)
  OBVIOUS
<1> QED
  BY <1>1 DEF PreviousInv

LEMMA UptoIsARun ==
  ASSUME ThreadsOK, ChainInv, NEW k \in 1..Len(reapers)
  PROVE  /\ reapers[k] \in Reaper
         /\ reapers[k].upto \in 0..Len(runs)
<1>1. reapers[k] \in Reaper
  BY DEF ThreadsOK
<1> QED
  BY <1>1 DEF ChainInv, Reaper

LEMMA OrderKept ==
  ASSUME IInv, Len(runs') = Len(runs), UNCHANGED <<running, stopping, obs, reapers>>
  PROVE  ChainInv' /\ PreviousInv' /\ LastInv' /\ RunningInv'
<1>1. ChainInv'
  BY DEF IInv, ChainInv
<1>2. PreviousInv'
  BY DEF IInv, PreviousInv, Done
<1>3. LastInv'
  BY DEF IInv, LastInv, Done
<1>4. RunningInv'
  BY DEF IInv, RunningInv
<1> QED
  BY <1>1, <1>2, <1>3, <1>4

LEMMA CoverKept ==
  ASSUME IInv, Len(runs') = Len(runs), UNCHANGED <<running, reapers>>,
         obs.pc = "rollback" => UNCHANGED obs,
         \A q \in 1..Len(runs) : Exited(q) => Exited(q)'
  PROVE  CoverInv'
<1>1. \A k \in 1..Len(reapers) : \A q \in 1..reapers[k].upto : q \in 1..Len(runs)
  BY UptoIsARun DEF IInv
<1>2. ASSUME NEW r \in 1..Len(runs')
      PROVE  \/ Exited(r)' \/ r = running'
             \/ obs'.pc = "rollback" /\ obs'.waits_for = r
             \/ \E k \in 1..Len(reapers') : reapers'[k].run = r
  BY DEF IInv, CoverInv
<1>3. ASSUME NEW k \in 1..Len(reapers'), NEW q \in 1..reapers'[k].upto
      PROVE  /\ Exited(q)' \/ \E j \in 1..k : reapers'[j].run = q
             /\ reapers'[k].pc \in {"clear", "done"} => Exited(q)'
  BY <1>1 DEF IInv, CoverInv
<1> QED
  BY <1>2, <1>3 DEF CoverInv

LEMMA QuietKeeps ==
  ASSUME IInv, QuietStep
  PROVE  IInv'
<1>1. ThreadsOK'
  <2>1. picture' \in 0..Len(runs')
    BY DEF IInv, ThreadsOK, QuietStep, None
  <2> QED
    BY <2>1 DEF IInv, ThreadsOK, QuietStep
<1>2. ChainInv' /\ PreviousInv' /\ LastInv' /\ RunningInv'
  BY OrderKept DEF QuietStep
<1>3. CoverInv'
  BY CoverKept DEF QuietStep
<1>4. ScreenInv'
  <2>1. \A r \in 1..Len(runs) : runs'[r].frames => Begun(r)'
    BY DEF IInv, QuietStep, ScreenInv
  <2>2. picture' # None => Begun(picture)'
    BY DEF IInv, QuietStep, ScreenInv, ThreadsOK, None, Begun
  <2> QED
    BY <2>1, <2>2 DEF ScreenInv, QuietStep
<1> QED
  BY <1>1, <1>2, <1>3, <1>4 DEF IInv

LEMMA QuietKeepsHandover ==
  ASSUME IInv, HandoverInv, QuietStep
  PROVE  HandoverInv'
<1>1. /\ running' = None /\ obs'.pc # "inline" =>
           \A k \in 1..Len(reapers') : k > stop_done' => Done(k)'
  BY DEF HandoverInv, QuietStep, Done
<1>2. ASSUME NEW r \in 1..Len(runs')
      PROVE  /\ runs'[r].predecessor <= Len(reapers')
             /\ runs'[r].receiver = "waiting" =>
                  /\ \A k \in 1..Len(reapers') :
                       reapers'[k].upto < r /\ k > runs'[r].predecessor => Done(k)'
                  /\ \A q \in 1..(r-1) : Exited(q)' \/ \E k \in 1..Len(reapers') :
                                                        reapers'[k].run = q /\ reapers'[k].upto < r
             /\ Begun(r)' =>
                  /\ \A k \in 1..Len(reapers') : reapers'[k].upto < r => Done(k)'
                  /\ \A q \in 1..(r-1) : Exited(q)'
  BY SMTT(30) DEF HandoverInv, QuietStep, Done, IInv, ThreadsOK
<1> QED
  BY <1>1, <1>2 DEF HandoverInv

LEMMA BeginsKeeps ==
  ASSUME IInv, NEW r \in 1..Len(runs), ReceiverBegins(r)
  PROVE  /\ IInv'
         /\ HandoverInv => HandoverInv'
<1>0. runs[r] \in Run
  BY DEF IInv, ThreadsOK
<1>1. PICK e \in Run :
        /\ runs' = [runs EXCEPT ![r] = e]
        /\ e.receiver \in {"closed", "exited"}
        /\ e.audio = runs[r].audio /\ e.video = runs[r].video
        /\ e.predecessor = runs[r].predecessor /\ e.frames = runs[r].frames
  <2>1. CASE runs' = [runs EXCEPT ![r].receiver = "closed"]
    <3> DEFINE e == [runs[r] EXCEPT !.receiver = "closed"]
    <3>1. /\ e \in Run
          /\ runs' = [runs EXCEPT ![r] = e]
          /\ e.receiver = "closed"
          /\ e.audio = runs[r].audio /\ e.video = runs[r].video
          /\ e.predecessor = runs[r].predecessor /\ e.frames = runs[r].frames
      BY <1>0, <2>1 DEF Run, Receiver
    <3> HIDE DEF e
    <3> QED BY <3>1
  <2>2. CASE runs' = [runs EXCEPT ![r].receiver = "exited", ![r].active = FALSE]
    <3> DEFINE e == [runs[r] EXCEPT !.receiver = "exited", !.active = FALSE]
    <3>1. /\ e \in Run
          /\ runs' = [runs EXCEPT ![r] = e]
          /\ e.receiver = "exited"
          /\ e.audio = runs[r].audio /\ e.video = runs[r].video
          /\ e.predecessor = runs[r].predecessor /\ e.frames = runs[r].frames
      BY <1>0, <2>2 DEF Run, Receiver
    <3> HIDE DEF e
    <3> QED BY <3>1
  <2> QED BY <2>1, <2>2 DEF ReceiverBegins
<1>2. /\ runs' \in Seq(Run)
      /\ Len(runs') = Len(runs)
      /\ \A j \in 1..Len(runs) : runs'[j] = IF j = r THEN e ELSE runs[j]
  <2>1. runs \in Seq(Run)
    BY DEF IInv, ThreadsOK
  <2> QED BY <1>1, <2>1, Replaced
<1>3. UNCHANGED <<running, stopping, stop_done, obs, reapers, picture>>
  BY DEF ReceiverBegins, WorkerStep, obs_state
<1>4. /\ ~Exited(r) /\ ~Begun(r)
      /\ Begun(r)'
      /\ \A q \in 1..Len(runs) : Exited(q) => Exited(q)'
      /\ \A q \in 1..Len(runs) : q # r => (Begun(q)' <=> Begun(q))
  BY <1>0, <1>1, <1>2 DEF ReceiverBegins, Exited, Begun
<1>5. ThreadsOK'
  BY <1>2, <1>3 DEF IInv, ThreadsOK
<1>6. ChainInv' /\ PreviousInv' /\ LastInv' /\ RunningInv'
  BY <1>2, <1>3, OrderKept
<1>7. CoverInv'
  BY <1>2, <1>3, <1>4, CoverKept
<1>8. ScreenInv'
  BY <1>1, <1>2, <1>3, <1>4 DEF IInv, ThreadsOK, ScreenInv, None
<1>9. ASSUME HandoverInv
      PROVE  HandoverInv'
  <2>1. \A k \in 1..Len(reapers) : reapers[k].upto < r => Done(k)
    <3> SUFFICES ASSUME NEW k \in 1..Len(reapers), reapers[k].upto < r
                 PROVE  Done(k)
      OBVIOUS
    <3>1. CASE k > runs[r].predecessor
      BY <1>9, <3>1 DEF HandoverInv, ReceiverBegins
    <3>2. CASE k <= runs[r].predecessor
      <4>1. runs[r].predecessor \in 1..Len(reapers) /\ Done(runs[r].predecessor)
        BY <1>0, <1>9, <3>2 DEF HandoverInv, ReceiverBegins, None, Run
      <4> QED
        BY <4>1, <3>2, DoneUpTo DEF IInv, Done
    <3> QED
      BY <3>1, <3>2, <1>0 DEF Run
  <2>2. \A q \in 1..(r-1) : Exited(q)
    <3> SUFFICES ASSUME NEW q \in 1..(r-1), ~Exited(q)
                 PROVE  FALSE
      OBVIOUS
    <3>1. PICK k \in 1..Len(reapers) : reapers[k].run = q /\ reapers[k].upto < r
      BY <1>9 DEF HandoverInv, ReceiverBegins
    <3>2. q \in 1..reapers[k].upto
      BY <3>1, UptoIsARun DEF IInv, ChainInv
    <3>3. Done(k)
      BY <2>1, <3>1
    <3> QED
      BY <3>2, <3>3 DEF IInv, CoverInv, Done
  <2>3. ASSUME NEW q \in 1..Len(runs')
        PROVE  /\ runs'[q].predecessor <= Len(reapers')
               /\ runs'[q].receiver = "waiting" =>
                    /\ \A k \in 1..Len(reapers') :
                         reapers'[k].upto < q /\ k > runs'[q].predecessor => Done(k)'
                    /\ \A p \in 1..(q-1) : Exited(p)' \/ \E k \in 1..Len(reapers') :
                                                          reapers'[k].run = p /\ reapers'[k].upto < q
               /\ Begun(q)' =>
                    /\ \A k \in 1..Len(reapers') : reapers'[k].upto < q => Done(k)'
                    /\ \A p \in 1..(q-1) : Exited(p)'
    <3>1. CASE q = r
      BY <1>1, <1>2, <1>3, <1>4, <1>9, <2>1, <2>2, <3>1 DEF HandoverInv, Done, IInv, ThreadsOK
    <3>2. CASE q # r
      BY SMTT(30), <1>2, <1>3, <1>4, <1>9, <3>2 DEF HandoverInv, Done, IInv, ThreadsOK
    <3> QED BY <3>1, <3>2
  <2> QED
    BY <1>3, <1>9, <2>3 DEF HandoverInv, Done
<1> QED
  BY <1>5, <1>6, <1>7, <1>8, <1>9 DEF IInv

(* A reaper only moves on, and only past what it waits for.                *)
LEMMA ReapersKeep ==
  ASSUME IInv, NEW k \in 1..Len(reapers), ReapStep(k)
  PROVE  /\ IInv'
         /\ HandoverInv => HandoverInv'
<1>0. reapers[k] \in Reaper
  BY UptoIsARun DEF IInv
<1>1. PICK e \in Reaper :
        /\ reapers' = [reapers EXCEPT ![k] = e]
        /\ e.previous = reapers[k].previous /\ e.run = reapers[k].run
        /\ e.upto = reapers[k].upto
        /\ ~Done(k)
        /\ \/ /\ e.pc = "join"
              /\ reapers[k].previous # None => Done(reapers[k].previous)
           \/ /\ reapers[k].pc = "join"
              /\ e.pc = "clear"
              /\ reapers[k].run # None => Exited(reapers[k].run)
           \/ /\ reapers[k].pc = "clear"
              /\ e.pc = "done"
  <2>1. CASE ReapPrevious(k)
    <3> DEFINE e == [reapers[k] EXCEPT !.pc = "join"]
    <3>1. /\ e \in Reaper /\ e.pc = "join" /\ reapers' = [reapers EXCEPT ![k] = e]
          /\ e.previous = reapers[k].previous /\ e.run = reapers[k].run
          /\ e.upto = reapers[k].upto
      BY <1>0, <2>1 DEF ReapPrevious, Reaper
    <3> HIDE DEF e
    <3> QED BY <3>1, <2>1 DEF ReapPrevious, Done
  <2>2. CASE ReapWorkers(k)
    <3> DEFINE e == [reapers[k] EXCEPT !.pc = "clear"]
    <3>1. /\ e \in Reaper /\ e.pc = "clear" /\ reapers' = [reapers EXCEPT ![k] = e]
          /\ e.previous = reapers[k].previous /\ e.run = reapers[k].run
          /\ e.upto = reapers[k].upto
      BY <1>0, <2>2 DEF ReapWorkers, Reaper
    <3> HIDE DEF e
    <3> QED BY <3>1, <2>2 DEF ReapWorkers, Done
  <2>3. CASE ReapClear(k)
    <3> DEFINE e == [reapers[k] EXCEPT !.pc = "done"]
    <3>1. /\ e \in Reaper /\ e.pc = "done" /\ reapers' = [reapers EXCEPT ![k] = e]
          /\ e.previous = reapers[k].previous /\ e.run = reapers[k].run
          /\ e.upto = reapers[k].upto
      BY <1>0, <2>3 DEF ReapClear, Reaper
    <3> HIDE DEF e
    <3> QED BY <3>1, <2>3 DEF ReapClear, Done
  <2> QED BY <2>1, <2>2, <2>3 DEF ReapStep
<1>2. /\ reapers' \in Seq(Reaper)
      /\ Len(reapers') = Len(reapers)
      /\ \A j \in 1..Len(reapers) : reapers'[j] = IF j = k THEN e ELSE reapers[j]
  <2>1. reapers \in Seq(Reaper)
    BY DEF IInv, ThreadsOK
  <2> QED BY <1>1, <2>1, Replaced
<1>3. /\ UNCHANGED <<running, stopping, stop_done, obs, runs>>
      /\ picture' \in {picture, None}
  BY DEF ReapStep, ReapPrevious, ReapWorkers, ReapClear, ReaperStep, obs_state
<1>4. /\ \A j \in 1..Len(reapers) : Done(j) => Done(j)'
      /\ \A j \in 1..Len(reapers) : /\ reapers'[j].run = reapers[j].run
                                    /\ reapers'[j].upto = reapers[j].upto
                                    /\ reapers'[j].previous = reapers[j].previous
      /\ \A j \in 1..Len(reapers) : j # k => reapers'[j].pc = reapers[j].pc
  BY <1>1, <1>2 DEF Done
<1>5. ThreadsOK'
  BY <1>2, <1>3 DEF IInv, ThreadsOK, None
<1>6. ChainInv'
  BY <1>2, <1>3, <1>4 DEF IInv, ChainInv
<1>7. PreviousInv'
  <2> SUFFICES ASSUME NEW j \in 1..Len(reapers)
               PROVE  \/ \A i \in 1..(j-1) : Done(i)'
                      \/ reapers'[j].pc = "previous" /\ reapers'[j].previous = j - 1
    BY <1>2 DEF PreviousInv
  <2>1. CASE j # k
    BY <1>4, <2>1 DEF IInv, PreviousInv
  <2>2. CASE j = k /\ \A i \in 1..(k-1) : Done(i)
    BY <1>4, <2>2
  <2>3. CASE j = k /\ ~\A i \in 1..(k-1) : Done(i)
    <3>1. reapers[k].pc = "previous" /\ reapers[k].previous = k - 1 /\ k - 1 \in 1..Len(reapers)
      BY <2>3 DEF IInv, PreviousInv
    <3>2. Done(k - 1)
      BY <3>1, <1>1 DEF None
    <3>3. \A i \in 1..(k-1) : Done(i)
      BY <3>1, <3>2, DoneUpTo DEF IInv, Done
    <3> QED BY <3>3, <2>3
  <2> QED BY <2>1, <2>2, <2>3 DEF IInv, PreviousInv
<1>8. LastInv'
  BY <1>2, <1>3, <1>4 DEF IInv, LastInv
<1>9. RunningInv'
  BY <1>2, <1>3, <1>4 DEF IInv, RunningInv
<1>10. CoverInv'
  <2>1. \A r \in 1..Len(runs') :
          \/ Exited(r)' \/ r = running'
          \/ obs'.pc = "rollback" /\ obs'.waits_for = r
          \/ \E j \in 1..Len(reapers') : reapers'[j].run = r
    BY SMTT(30), <1>2, <1>3, <1>4 DEF IInv, CoverInv, Exited
  <2>2. \A j \in 1..Len(reapers') : \A q \in 1..reapers'[j].upto :
          Exited(q)' \/ \E i \in 1..j : reapers'[i].run = q
    BY <1>2, <1>3, <1>4 DEF IInv, CoverInv, Exited
  <2>3. ASSUME NEW j \in 1..Len(reapers'), reapers'[j].pc \in {"clear", "done"},
               NEW q \in 1..reapers'[j].upto, ~Exited(q)
        PROVE  FALSE
    <3>1. j = k /\ reapers[k].pc = "join" /\ e.pc = "clear" /\ q \in 1..reapers[k].upto
      BY <1>1, <1>2, <1>4, <2>3 DEF IInv, CoverInv
    <3>2. PICK i \in 1..k : reapers[i].run = q
      BY <2>3, <3>1 DEF IInv, CoverInv
    <3>3. CASE i = k
      BY <1>1, <2>3, <3>1, <3>2, <3>3, UptoIsARun DEF IInv, None
    <3>4. CASE i < k
      <4>1. i \in 1..Len(reapers) /\ Done(i)
        BY <3>1, <3>4, DoneUpTo DEF IInv
      <4>2. q \in 1..reapers[i].upto
        BY <3>1, <3>2, <4>1, UptoIsARun DEF IInv, ChainInv
      <4> QED BY <2>3, <4>1, <4>2 DEF IInv, CoverInv, Done
    <3> QED BY <3>3, <3>4
  <2> QED
    BY <1>3, <2>1, <2>2, <2>3 DEF CoverInv, Exited
<1>11. ScreenInv'
  BY <1>3 DEF IInv, ScreenInv, Begun
<1>12. HandoverInv => HandoverInv'
  BY SMTT(30), <1>2, <1>3, <1>4 DEF HandoverInv, Exited, Begun
<1> QED
  BY <1>5, <1>6, <1>7, <1>8, <1>9, <1>10, <1>11, <1>12 DEF IInv

(* The callback goes on; nothing but what it does next changes.            *)
LEMMA ObsMoves ==
  ASSUME IInv, UNCHANGED <<running, stopping, stop_done, runs, reapers, picture>>,
         NEW pc \in {"idle", "start", "drop"}, obs' = At(pc),
         obs.pc = "rollback" => Exited(obs.waits_for),
         obs.pc = "inline" => Done(obs.waits_for),
         pc = "drop" => running = None
  PROVE  /\ IInv'
         /\ HandoverInv => HandoverInv'
<1>1. obs'.pc = pc /\ obs' \in [pc : ObsPc, waits_for : Nat, next : ObsPc]
  BY DEF At, ObsPc, None
<1>2. obs.pc = "inline" => \A k \in 1..Len(reapers) : Done(k)
  <2> SUFFICES ASSUME obs.pc = "inline", NEW k \in 1..Len(reapers)
               PROVE  Done(k)
    OBVIOUS
  <2>1. obs.waits_for = Len(reapers) /\ Done(Len(reapers))
    BY DEF IInv, LastInv
  <2> QED
    BY <2>1, DoneUpTo DEF IInv, Done
<1>3. ThreadsOK' /\ ScreenInv'
  BY <1>1 DEF IInv, ThreadsOK, ScreenInv, Begun
<1>4. ChainInv' /\ PreviousInv'
  BY DEF IInv, ChainInv, PreviousInv, Done
<1>5. LastInv'
  BY <1>1, <1>2 DEF IInv, LastInv, Done
<1>6. RunningInv'
  BY <1>1 DEF IInv, RunningInv
<1>7. CoverInv'
  <2>1. ASSUME NEW r \in 1..Len(runs)
        PROVE  \/ Exited(r) \/ r = running
               \/ \E k \in 1..Len(reapers) : reapers[k].run = r
    BY DEF IInv, CoverInv
  <2>2. \A r \in 1..Len(runs) : Exited(r)' <=> Exited(r)
    BY DEF Exited
  <2>3. \A k \in 1..Len(reapers) : \A q \in 1..reapers[k].upto :
          Exited(q)' \/ \E j \in 1..k : reapers'[j].run = q
    BY DEF IInv, CoverInv, Exited
  <2>4. \A k \in 1..Len(reapers) :
          reapers[k].pc \in {"clear", "done"} => \A q \in 1..reapers[k].upto : Exited(q)'
    BY DEF IInv, CoverInv, Exited
  <2>5. \A r \in 1..Len(runs') :
          \/ Exited(r)' \/ r = running'
          \/ \E k \in 1..Len(reapers') : reapers'[k].run = r
    BY <2>1, <2>2
  <2> QED
    BY <2>3, <2>4, <2>5 DEF CoverInv
<1>8. HandoverInv => HandoverInv'
  BY <1>1, <1>2 DEF HandoverInv, Done, Exited, Begun
<1> QED
  BY <1>3, <1>4, <1>5, <1>6, <1>7, <1>8 DEF IInv

(* stop_receiver.  `rs' differs from the runs there were in the settings   *)
(* of one of them at most.                                                 *)
SameThreads(e, f) ==
  /\ e.audio = f.audio /\ e.video = f.video /\ e.receiver = f.receiver
  /\ e.predecessor = f.predecessor /\ e.frames = f.frames

ThreadsUntouched ==
  /\ Len(runs') = Len(runs)
  /\ \A q \in 1..Len(runs) : SameThreads(runs'[q], runs[q])
  /\ picture' \in {picture, None}

LEMMA StopKeeps ==
  ASSUME IInv, obs.pc = "idle",
         NEW rs \in Seq(Run), Len(rs) = Len(runs),
         \A q \in 1..Len(runs) : SameThreads(rs[q], runs[q]),
         NEW clear \in BOOLEAN, NEW next \in {"idle", "start", "drop"},
         StopReceiver(rs, clear, next)
  PROVE  /\ IInv'
         /\ HandoverInv => HandoverInv'
         /\ running' = None
         /\ ThreadsUntouched
<1>1. /\ runs' \in Seq(Run)
      /\ Len(runs') = Len(runs)
      /\ \A q \in 1..Len(runs) : SameThreads(runs'[q], runs[q])
  <2>1. CASE runs' = rs
    BY <2>1
  <2>2. CASE running # None /\ runs' = [rs EXCEPT ![running].active = FALSE]
    <3> DEFINE e == [rs[running] EXCEPT !.active = FALSE]
    <3>1. running \in 1..Len(rs)
      BY <2>2 DEF IInv, ThreadsOK, None
    <3>0. rs[running] \in Run
      BY <3>1
    <3>2. /\ e \in Run /\ runs' = [rs EXCEPT ![running] = e]
          /\ SameThreads(e, rs[running])
      BY <2>2, <3>0 DEF Run, SameThreads
    <3> HIDE DEF e
    <3>3. /\ runs' \in Seq(Run) /\ Len(runs') = Len(rs)
          /\ \A j \in 1..Len(rs) : runs'[j] = IF j = running THEN e ELSE rs[j]
      BY <3>1, <3>2, Replaced
    <3> QED BY <3>1, <3>2, <3>3 DEF SameThreads
  <2> QED BY <2>1, <2>2 DEF StopReceiver
<1>2. /\ \A q \in 1..Len(runs) : Exited(q) => Exited(q)'
      /\ \A q \in 1..Len(runs) : Begun(q)' <=> Begun(q)
      /\ \A q \in 1..Len(runs) : /\ runs'[q].frames = runs[q].frames
                                 /\ runs'[q].receiver = runs[q].receiver
                                 /\ runs'[q].predecessor = runs[q].predecessor
  BY <1>1 DEF SameThreads, Exited, Begun
<1>a. Len(runs) \in Nat /\ Len(reapers) \in Nat
  BY DEF IInv, ThreadsOK
<1>b. ASSUME NEW r \in 1..Len(runs), NEW q \in 1..(r-1)
      PROVE  Exited(q) => Exited(q)'
  BY <1>2, <1>a
<1>c. ThreadsUntouched
  BY <1>1 DEF StopReceiver, ThreadsUntouched
<1>3. CASE /\ running = None /\ stopping = None
           /\ obs' = At(next)
           /\ UNCHANGED <<running, stopping, stop_done, reapers>>
           /\ picture' \in {picture, None}
  <2>1. obs'.pc = next /\ obs' \in [pc : ObsPc, waits_for : Nat, next : ObsPc]
    BY <1>3 DEF At, ObsPc, None
  <2>2. ThreadsOK'
    BY <1>1, <1>3, <2>1 DEF IInv, ThreadsOK, None
  <2>3. ChainInv' /\ PreviousInv'
    BY <1>1, <1>3 DEF IInv, ChainInv, PreviousInv, Done
  <2>4. LastInv' /\ RunningInv'
    BY <1>1, <1>3, <2>1 DEF IInv, LastInv, RunningInv, Done
  <2>5. CoverInv'
    BY <1>1, <1>2, <1>3, CoverKept
  <2>6. ScreenInv'
    <3>1. \A r \in 1..Len(runs') : runs'[r].frames => Begun(r)'
      BY <1>1, <1>2 DEF IInv, ScreenInv
    <3>2. picture # None => picture \in 1..Len(runs) /\ Begun(picture)
      BY <1>a DEF IInv, ThreadsOK, ScreenInv, None
    <3>3. (picture # None => Begun(picture))'
      <4>1. CASE picture' = None
        BY <4>1
      <4>2. CASE picture' = picture
        <5>1. ASSUME picture # None PROVE Begun(picture)'
          BY <1>2, <3>2, <4>2, <5>1 DEF Begun
        <5> QED BY <4>2, <5>1
      <4> QED BY <1>3, <4>1, <4>2
    <3> QED BY <3>1, <3>3 DEF ScreenInv
  <2>7. ASSUME HandoverInv PROVE HandoverInv'
    <3>1. running' = None /\ obs'.pc # "inline" =>
            \A k \in 1..Len(reapers') : k > stop_done' => Done(k)'
      BY <1>3, <2>7 DEF HandoverInv, Done
    <3>2. ASSUME NEW r \in 1..Len(runs)
          PROVE  /\ runs'[r].predecessor <= Len(reapers)
                 /\ runs'[r].receiver = "waiting" =>
                      /\ \A k \in 1..Len(reapers) :
                           reapers[k].upto < r /\ k > runs'[r].predecessor => Done(k)
                      /\ \A q \in 1..(r-1) : Exited(q)' \/ \E k \in 1..Len(reapers) :
                                                            reapers[k].run = q /\ reapers[k].upto < r
                 /\ Begun(r)' =>
                      /\ \A k \in 1..Len(reapers) : reapers[k].upto < r => Done(k)
                      /\ \A q \in 1..(r-1) : Exited(q)'
      BY <1>2, <1>b, <2>7 DEF HandoverInv
    <3> QED
      BY <1>1, <1>3, <3>1, <3>2 DEF HandoverInv, Done
  <2> QED
    BY <1>3, <1>c, <2>2, <2>3, <2>4, <2>5, <2>6, <2>7 DEF IInv
<1>4. CASE /\ running # None \/ stopping # None
           /\ running' = None
           /\ reapers' = Append(reapers,
                [pc |-> "previous", previous |-> stopping, run |-> running,
                 clear |-> clear, upto |-> Len(runs)])
           /\ \/ /\ stopping' = Len(reapers) + 1
                 /\ stop_done' = Len(reapers) + 1
                 /\ obs' = At(next)
              \/ /\ stopping' = None
                 /\ obs' = [pc |-> "inline", waits_for |-> Len(reapers) + 1, next |-> next]
                 /\ stop_done' = stop_done
           /\ picture' = picture
  <2> DEFINE n == Len(reapers) + 1
             e == [pc |-> "previous", previous |-> stopping, run |-> running,
                   clear |-> clear, upto |-> Len(runs)]
  <2>1. /\ e \in Reaper
        /\ n \in Nat \ {0}
        /\ e.pc = "previous" /\ e.previous = stopping /\ e.run = running /\ e.upto = Len(runs)
    BY DEF IInv, ThreadsOK, Reaper
  <2>2. reapers' = Append(reapers, e)
    BY <1>4
  <2> HIDE DEF e
  <2>3. /\ reapers' \in Seq(Reaper)
        /\ Len(reapers') = n
        /\ \A k \in 1..Len(reapers) : reapers'[k] = reapers[k]
        /\ reapers'[n] = e
    BY <2>1, <2>2, Pushed DEF IInv, ThreadsOK
  <2>4. /\ obs' \in [pc : ObsPc, waits_for : Nat, next : ObsPc]
        /\ obs'.pc # "rollback"
        /\ obs'.pc = "inline" => stopping' = None /\ obs'.waits_for = n /\ obs'.next = next
        /\ obs'.pc # "inline" => stopping' = n /\ stop_done' = n
    BY <1>4, <2>1 DEF At, ObsPc, None
  <2>5. Len(reapers) \in Nat /\ Len(runs) \in Nat
    BY DEF IInv, ThreadsOK
  <2>6. ThreadsOK'
    BY <1>1, <1>4, <2>3, <2>4, <2>5 DEF IInv, ThreadsOK, None
  <2>7. ChainInv'
    <3> SUFFICES ASSUME NEW k \in 1..n
                 PROVE  /\ reapers'[k].previous < k
                        /\ reapers'[k].run <= reapers'[k].upto
                        /\ reapers'[k].upto <= Len(runs')
      BY <2>3 DEF ChainInv
    <3>1. CASE k = n
      BY <1>1, <2>1, <2>3, <2>5, <3>1 DEF IInv, ThreadsOK
    <3>2. CASE k \in 1..Len(reapers)
      BY <1>1, <2>3, <3>2 DEF IInv, ChainInv
    <3> QED BY <2>5, <3>1, <3>2
  <2>8. PreviousInv'
    <3> SUFFICES ASSUME NEW k \in 1..n
                 PROVE  \/ \A j \in 1..(k-1) : Done(j)'
                        \/ reapers'[k].pc = "previous" /\ reapers'[k].previous = k - 1
      BY <2>3 DEF PreviousInv
    <3>1. CASE k = n
      BY <2>1, <2>3, <2>5, <3>1 DEF IInv, LastInv, Done
    <3>2. CASE k \in 1..Len(reapers)
      <4>1. \A j \in 1..k : j \in 1..Len(reapers) /\ reapers'[j] = reapers[j]
        BY <2>3, <2>5, <3>2
      <4>2. \/ \A j \in 1..(k-1) : Done(j)
            \/ reapers[k].pc = "previous" /\ reapers[k].previous = k - 1
        BY <3>2 DEF IInv, PreviousInv
      <4> QED BY <2>5, <3>2, <4>1, <4>2 DEF Done
    <3> QED BY <2>5, <3>1, <3>2
  <2>9. LastInv'
    BY <2>1, <2>3, <2>4 DEF LastInv, None
  <2>10. RunningInv'
    BY <1>4 DEF RunningInv
  <2>11. CoverInv'
    <3>1. \A k \in 1..Len(reapers) : \A q \in 1..reapers[k].upto : q \in 1..Len(runs)
      BY UptoIsARun DEF IInv
    <3>2. \A r \in 1..Len(runs) : Exited(r)' \/ \E k \in 1..n : reapers'[k].run = r
      <4> SUFFICES ASSUME NEW r \in 1..Len(runs), ~Exited(r)
                   PROVE  \E k \in 1..n : reapers'[k].run = r
        BY <1>2
      <4>1. CASE r = running
        BY <2>1, <2>3, <4>1
      <4>2. CASE r # running
        <5>1. PICK k \in 1..Len(reapers) : reapers[k].run = r
          BY <4>2 DEF IInv, CoverInv
        <5>2. k \in 1..n /\ reapers'[k] = reapers[k]
          BY <2>3, <2>5
        <5> QED BY <5>1, <5>2
      <4> QED BY <4>1, <4>2
    <3>3. ASSUME NEW k \in 1..n, NEW q \in 1..reapers'[k].upto
          PROVE  Exited(q)' \/ \E j \in 1..k : reapers'[j].run = q
      <4>1. CASE k = n
        BY <2>1, <2>3, <3>2, <3>3, <4>1
      <4>2. CASE k \in 1..Len(reapers)
        <5>1. reapers'[k] = reapers[k] /\ q \in 1..reapers[k].upto /\ q \in 1..Len(runs)
          BY <2>3, <3>1, <3>3, <4>2
        <5>2. CASE Exited(q)
          BY <1>2, <5>1, <5>2
        <5>3. CASE ~Exited(q)
          <6>1. PICK j \in 1..k : reapers[j].run = q
            BY <4>2, <5>1, <5>3 DEF IInv, CoverInv
          <6>2. j \in 1..Len(reapers) /\ reapers'[j] = reapers[j]
            BY <2>3, <2>5, <4>2
          <6> QED BY <6>1, <6>2
        <5> QED BY <5>2, <5>3
      <4> QED BY <2>5, <4>1, <4>2
    <3>4. ASSUME NEW k \in 1..n, reapers'[k].pc \in {"clear", "done"},
                 NEW q \in 1..reapers'[k].upto
          PROVE  Exited(q)'
      <4>1. k \in 1..Len(reapers)
        BY <2>1, <2>3, <2>5, <3>4
      <4> QED
        BY <1>2, <2>3, <3>1, <3>4, <4>1 DEF IInv, CoverInv
    <3> QED
      BY <1>1, <2>3, <3>2, <3>3, <3>4 DEF CoverInv
  <2>12. ScreenInv'
    <3>1. \A r \in 1..Len(runs) : runs'[r].frames => Begun(r)'
      BY <1>2 DEF IInv, ScreenInv
    <3>2. picture' # None => Begun(picture)'
      BY <1>2, <1>4 DEF IInv, ThreadsOK, ScreenInv, None
    <3> QED
      BY <1>1, <1>4, <3>1, <3>2 DEF ScreenInv
  <2>13. ASSUME HandoverInv PROVE HandoverInv'
    <3>1. running' = None /\ obs'.pc # "inline" =>
            \A k \in 1..Len(reapers') : k > stop_done' => Done(k)'
      BY <2>3, <2>4, <2>5
    <3>2. ASSUME NEW r \in 1..Len(runs)
          PROVE  /\ runs'[r].predecessor = runs[r].predecessor
                 /\ runs'[r].predecessor <= Len(reapers)
                 /\ runs[r].predecessor \in Nat
                 /\ runs'[r].receiver = runs[r].receiver
                 /\ Begun(r)' <=> Begun(r)
                 /\ ~(reapers'[n].upto < r)
      <4>1. runs[r] \in Run
        BY DEF IInv, ThreadsOK
      <4>2. ~(reapers'[n].upto < r)
        BY <1>a, <2>1, <2>3
      <4> QED
        BY <1>2, <2>13, <4>1, <4>2 DEF HandoverInv, Run
    <3>3. \A k \in 1..Len(reapers) : Done(k)' <=> Done(k)
      BY <2>3 DEF Done
    <3>4. ASSUME NEW r \in 1..Len(runs)
          PROVE  /\ runs'[r].predecessor <= n
                 /\ runs'[r].receiver = "waiting" =>
                      /\ \A k \in 1..n :
                           reapers'[k].upto < r /\ k > runs'[r].predecessor => Done(k)'
                      /\ \A q \in 1..(r-1) : Exited(q)' \/ \E k \in 1..n :
                                                            reapers'[k].run = q /\ reapers'[k].upto < r
                 /\ Begun(r)' =>
                      /\ \A k \in 1..n : reapers'[k].upto < r => Done(k)'
                      /\ \A q \in 1..(r-1) : Exited(q)'
      <4>1. \A k \in 1..n : reapers'[k].upto < r =>
              k \in 1..Len(reapers) /\ reapers'[k] = reapers[k]
        BY <2>3, <2>5, <3>2
      <4>2. \A k \in 1..Len(reapers) : k \in 1..n /\ reapers'[k] = reapers[k]
        BY <2>3, <2>5
      <4>3. runs'[r].predecessor <= n
        BY <2>5, <3>2
      <4>4. ASSUME NEW k \in 1..n, reapers'[k].upto < r, Begun(r)'
            PROVE  Done(k)'
        BY <2>13, <3>2, <3>3, <4>1, <4>4 DEF HandoverInv
      <4>4a. ASSUME NEW k \in 1..n, reapers'[k].upto < r,
                   runs'[r].receiver = "waiting", k > runs'[r].predecessor
            PROVE  Done(k)'
        BY <2>13, <3>2, <3>3, <4>1, <4>4a DEF HandoverInv
      <4>5. ASSUME NEW q \in 1..(r-1), Begun(r)'
            PROVE  Exited(q)'
        BY <1>b, <2>13, <3>2, <4>5 DEF HandoverInv
      <4>6. ASSUME NEW q \in 1..(r-1), runs'[r].receiver = "waiting", ~Exited(q)'
            PROVE  \E k \in 1..n : reapers'[k].run = q /\ reapers'[k].upto < r
        <5>1. PICK k \in 1..Len(reapers) : reapers[k].run = q /\ reapers[k].upto < r
          BY <1>b, <2>13, <3>2, <4>6 DEF HandoverInv
        <5> QED BY <4>2, <5>1
      <4>7. ASSUME Begun(r)'
            PROVE  /\ \A k \in 1..n : reapers'[k].upto < r => Done(k)'
                   /\ \A q \in 1..(r-1) : Exited(q)'
        BY <4>4, <4>5, <4>7
      <4>8. ASSUME runs'[r].receiver = "waiting"
            PROVE  /\ \A k \in 1..n :
                        reapers'[k].upto < r /\ k > runs'[r].predecessor => Done(k)'
                   /\ \A q \in 1..(r-1) : Exited(q)' \/ \E k \in 1..n :
                                                         reapers'[k].run = q /\ reapers'[k].upto < r
        BY <4>4a, <4>6, <4>8
      <4> QED
        BY <4>3, <4>7, <4>8
    <3> QED
      BY <1>1, <2>3, <3>1, <3>4 DEF HandoverInv
  <2> QED
    BY <1>4, <1>c, <2>6, <2>7, <2>8, <2>9, <2>10, <2>11, <2>12, <2>13 DEF IInv
<1> QED
  BY <1>3, <1>4 DEF StopReceiver

(* start_receiver, when it leaves a run behind: the one it installed, or   *)
(* the one it has to roll back.  HandoverInv needs the predecessor to have *)
(* been handed to the run, which a failed receiver spawn does not do.      *)
LEMMA StartKeeps ==
  ASSUME IInv, obs.pc = "start", running = None,
         NEW e \in Run, runs' = Append(runs, e),
         e.receiver \in {"none", "waiting"}, ~e.frames,
         e.predecessor = stop_done,
         \/ running' = Len(runs) + 1 /\ obs' = At("idle")
         \/ /\ running' = None
            /\ obs' = [pc |-> "rollback", waits_for |-> Len(runs) + 1, next |-> "idle"],
         stop_done' \in {stop_done, None},
         UNCHANGED <<stopping, reapers, picture>>
  PROVE  /\ IInv'
         /\ HandoverInv /\ (running' # None \/ stop_done' = stop_done) => HandoverInv'
<1>n. PICK n \in Nat \ {0} : n = Len(runs) + 1
  BY DEF IInv, ThreadsOK
<1>a. Len(runs) \in Nat /\ Len(reapers) \in Nat /\ n = Len(runs) + 1
  BY <1>n DEF IInv, ThreadsOK
<1>1. /\ runs' \in Seq(Run)
      /\ Len(runs') = n
      /\ \A q \in 1..Len(runs) : runs'[q] = runs[q]
      /\ runs'[n] = e
  BY <1>n, Pushed DEF IInv, ThreadsOK
<1>2. /\ obs' \in [pc : ObsPc, waits_for : Nat, next : ObsPc]
      /\ obs'.pc \in {"idle", "rollback"}
      /\ obs'.pc = "rollback" => obs'.waits_for = n /\ obs'.next = "idle" /\ running' = None
      /\ obs'.pc # "rollback" => running' = n
  BY <1>a DEF At, ObsPc, None
<1>3. \A q \in 1..Len(runs) : /\ Exited(q) => Exited(q)'
                              /\ Begun(q)' <=> Begun(q)
  BY <1>1 DEF Exited, Begun
<1>b. \A k \in 1..Len(reapers) : /\ reapers[k].upto \in 0..Len(runs)
                                 /\ \A q \in 1..reapers[k].upto : q \in 1..Len(runs)
  BY UptoIsARun DEF IInv
<1>4. ThreadsOK'
  BY <1>a, <1>1, <1>2 DEF IInv, ThreadsOK, None
<1>5. ChainInv' /\ PreviousInv'
  <2>1. ChainInv'
    BY <1>a, <1>b, <1>1 DEF IInv, ChainInv
  <2> QED BY <2>1 DEF IInv, PreviousInv, Done
<1>6. LastInv' /\ RunningInv'
  <2>1. LastInv'
    BY <1>2 DEF IInv, LastInv, Done
  <2>2. RunningInv'
    BY <1>a, <1>b, <1>1, <1>2 DEF IInv, RunningInv
  <2> QED BY <2>1, <2>2
<1>7. CoverInv'
  <2>1. ASSUME NEW r \in 1..n
        PROVE  \/ Exited(r)' \/ r = running'
               \/ obs'.pc = "rollback" /\ obs'.waits_for = r
               \/ \E k \in 1..Len(reapers') : reapers'[k].run = r
    <3>1. CASE r = n
      BY <1>2, <3>1
    <3>2. CASE r \in 1..Len(runs)
      BY <1>3, <3>2 DEF IInv, CoverInv, None
    <3> QED BY <1>a, <3>1, <3>2
  <2>2. ASSUME NEW k \in 1..Len(reapers'), NEW q \in 1..reapers'[k].upto
        PROVE  /\ Exited(q)' \/ \E j \in 1..k : reapers'[j].run = q
               /\ reapers'[k].pc \in {"clear", "done"} => Exited(q)'
    BY <1>b, <1>3 DEF IInv, CoverInv
  <2> QED
    BY <1>1, <2>1, <2>2 DEF CoverInv
<1>8. ScreenInv'
  <2>1. ASSUME NEW r \in 1..n, runs'[r].frames
        PROVE  Begun(r)'
    BY <1>a, <1>1, <1>3, <2>1 DEF IInv, ScreenInv
  <2>2. picture' # None => Begun(picture)'
    BY <1>3 DEF IInv, ThreadsOK, ScreenInv, None
  <2> QED
    BY <1>1, <2>1, <2>2 DEF ScreenInv
<1>9. ASSUME HandoverInv, running' # None \/ stop_done' = stop_done
      PROVE  HandoverInv'
  <2>1. running' = None /\ obs'.pc # "inline" =>
          \A k \in 1..Len(reapers') : k > stop_done' => Done(k)'
    BY <1>9 DEF HandoverInv, Done
  <2>2. ASSUME NEW r \in 1..Len(runs)
        PROVE  /\ runs'[r].predecessor <= Len(reapers)
               /\ runs'[r].receiver = "waiting" =>
                    /\ \A k \in 1..Len(reapers) :
                         reapers[k].upto < r /\ k > runs'[r].predecessor => Done(k)
                    /\ \A q \in 1..(r-1) : Exited(q)' \/ \E k \in 1..Len(reapers) :
                                                          reapers[k].run = q /\ reapers[k].upto < r
               /\ Begun(r)' =>
                    /\ \A k \in 1..Len(reapers) : reapers[k].upto < r => Done(k)
                    /\ \A q \in 1..(r-1) : Exited(q)'
    <3>1. \A q \in 1..(r-1) : Exited(q) => Exited(q)'
      BY <1>a, <1>3
    <3>2. runs'[r] = runs[r] /\ (Begun(r)' <=> Begun(r))
      BY <1>1, <1>3
    <3>3. ASSUME Begun(r)
          PROVE  /\ \A k \in 1..Len(reapers) : reapers[k].upto < r => Done(k)
                 /\ \A q \in 1..(r-1) : Exited(q)'
      BY <1>9, <3>1, <3>3 DEF HandoverInv
    <3>4. ASSUME runs[r].receiver = "waiting"
          PROVE  /\ \A k \in 1..Len(reapers) :
                      reapers[k].upto < r /\ k > runs[r].predecessor => Done(k)
                 /\ \A q \in 1..(r-1) : Exited(q)' \/ \E k \in 1..Len(reapers) :
                                                       reapers[k].run = q /\ reapers[k].upto < r
      BY <1>9, <3>1, <3>4 DEF HandoverInv
    <3> QED
      BY <1>9, <3>2, <3>3, <3>4 DEF HandoverInv
  <2>3. /\ runs'[n].predecessor <= Len(reapers)
        /\ \A k \in 1..Len(reapers) :
             reapers[k].upto < n /\ k > runs'[n].predecessor => Done(k)
        /\ \A q \in 1..(n-1) : Exited(q)' \/ \E k \in 1..Len(reapers) :
                                              reapers[k].run = q /\ reapers[k].upto < n
        /\ ~Begun(n)'
    <3>1. runs'[n].predecessor = stop_done /\ stop_done <= Len(reapers) /\ ~Begun(n)'
      BY <1>1 DEF IInv, ThreadsOK, Begun
    <3>2. \A k \in 1..Len(reapers) : k > stop_done => Done(k)
      BY <1>9 DEF HandoverInv
    <3>3. ASSUME NEW q \in 1..(n-1), ~Exited(q)'
          PROVE  \E k \in 1..Len(reapers) : reapers[k].run = q /\ reapers[k].upto < n
      <4>1. q \in 1..Len(runs) /\ ~Exited(q)
        BY <1>a, <1>3, <3>3
      <4>2. PICK k \in 1..Len(reapers) : reapers[k].run = q
        BY <4>1 DEF IInv, CoverInv, None
      <4> QED
        BY <1>a, <1>b, <4>2
    <3> QED
      BY <3>1, <3>2, <3>3
  <2>4. ASSUME NEW r \in 1..Len(runs')
        PROVE  /\ runs'[r].predecessor <= Len(reapers)
               /\ runs'[r].receiver = "waiting" =>
                    /\ \A k \in 1..Len(reapers) :
                         reapers[k].upto < r /\ k > runs'[r].predecessor => Done(k)
                    /\ \A q \in 1..(r-1) : Exited(q)' \/ \E k \in 1..Len(reapers) :
                                                          reapers[k].run = q /\ reapers[k].upto < r
               /\ Begun(r)' =>
                    /\ \A k \in 1..Len(reapers) : reapers[k].upto < r => Done(k)
                    /\ \A q \in 1..(r-1) : Exited(q)'
    <3>1. CASE r = n
      BY <2>3, <3>1
    <3>2. CASE r \in 1..Len(runs)
      BY <2>2, <3>2
    <3> QED BY <1>a, <1>1, <3>1, <3>2
  <2> QED
    BY <2>1, <2>4 DEF HandoverInv, Done
<1> QED
  BY <1>4, <1>5, <1>6, <1>7, <1>8, <1>9 DEF IInv

LEMMA DropJoinedKeeps ==
  ASSUME IInv, DropJoined
  PROVE  /\ IInv'
         /\ HandoverInv => HandoverInv'
<1>1. \A k \in 1..Len(reapers) : Done(k)
  <2> SUFFICES ASSUME NEW k \in 1..Len(reapers), ~Done(k)
               PROVE  FALSE
    OBVIOUS
  <2>1. stopping = Len(reapers) /\ Done(Len(reapers))
    BY DEF IInv, LastInv, DropJoined
  <2> QED
    BY <2>1, DoneUpTo DEF IInv, Done
<1>2. UNCHANGED <<running, stop_done, runs, reapers, picture>> /\ stopping' = None
  BY DEF DropJoined
<1>3. obs.pc = "drop" /\ obs'.pc = "gone" /\ obs' \in [pc : ObsPc, waits_for : Nat, next : ObsPc]
  BY DEF DropJoined, At, ObsPc, None
<1>4. ThreadsOK' /\ ScreenInv'
  BY <1>2, <1>3 DEF IInv, ThreadsOK, ScreenInv, Begun, None
<1>5. ChainInv' /\ PreviousInv'
  BY <1>2 DEF IInv, ChainInv, PreviousInv, Done
<1>6. LastInv' /\ RunningInv'
  BY <1>1, <1>2, <1>3 DEF IInv, LastInv, RunningInv, Done
<1>7. CoverInv'
  BY <1>2, <1>3 DEF IInv, CoverInv, Exited
<1>8. HandoverInv => HandoverInv'
  BY <1>1, <1>2 DEF HandoverInv, Done, Exited, Begun
<1> QED
  BY <1>4, <1>5, <1>6, <1>7, <1>8 DEF IInv

-----------------------------------------------------------------------------
(* The callbacks, and then every step.                                     *)

(* The part of TypeOK that is about settings and visibility.               *)
SettingsOK ==
  /\ config \in Configs
  /\ media_stopped \in BOOLEAN
  /\ showing \in BOOLEAN
  /\ notified \in BOOLEAN
  /\ acted_on \in BOOLEAN
  /\ calls \in Nat

LEMMA SettingsKept ==
  ASSUME SettingsOK, [Next]_vars
  PROVE  SettingsOK'
<1> USE DEF SettingsOK, visibility, obs_state
<1>1. CASE Callback
  <2>1. ASSUME NEW settings \in Configs, Update(settings)
        PROVE  SettingsOK'
    <3>1. /\ config' = settings /\ media_stopped' = FALSE /\ UNCHANGED <<showing, notified>>
          /\ acted_on' = showing /\ calls' = calls + 1
      BY <2>1, Zenon DEF Update, Call
    <3>2. calls' \in Nat
      BY <3>1
    <3> QED BY <3>1, <3>2, Zenon
  <2>2. CASE MediaRestart \/ MediaStop \/ Activate \/ Deactivate
    <3>1. /\ UNCHANGED <<config, showing, notified>>
          /\ acted_on' \in {acted_on, FALSE}
          /\ media_stopped' \in {media_stopped, TRUE, FALSE}
          /\ calls' = calls + 1
      BY <2>2, Zenon DEF MediaRestart, MediaStop, Activate, Deactivate, Call
    <3>2. calls' \in Nat
      BY <3>1
    <3> QED BY <3>1, <3>2, Zenon
  <2>3. CASE Show \/ Hide \/ Drop
    <3>1. /\ UNCHANGED <<config, media_stopped, showing, calls>>
          /\ notified' \in {notified, TRUE, FALSE} /\ acted_on' \in {acted_on, TRUE, FALSE}
      BY <2>3, Zenon DEF Show, Hide, Drop
    <3> QED BY <3>1
  <2> QED BY <1>1, <2>1, <2>2, <2>3 DEF Callback
<1>2. CASE CallbackContinues
  BY <1>2 DEF CallbackContinues, StartReceiver, RollbackJoined, InlineReaped, DropJoined
<1>3. CASE VisibilityChanges
  BY <1>3 DEF VisibilityChanges
<1>4. ASSUME NEW r \in 1..Len(runs),
             \/ AudioExit(r) \/ VideoStep(r) \/ ReceiverStep(r)
             \/ \E w \in {"audio", "video", "receiver"} : Panic(r, w)
      PROVE  SettingsOK'
  BY <1>4 DEF AudioExit, VideoStep, VideoExit, VideoOutput, VideoClear, ReceiverStep,
     ReceiverBegins, OpenAttempt, OpenSucceeds, OpenFails, ReadPacket, ReadError,
     ReceiverExit, Panic, WorkerStep
<1>5. ASSUME NEW k \in 1..Len(reapers), ReapStep(k)
      PROVE  SettingsOK'
  BY <1>5 DEF ReapStep, ReapPrevious, ReapWorkers, ReapClear, ReaperStep
<1>6. CASE UNCHANGED vars
  BY <1>6 DEF vars
<1> QED
  BY <1>1, <1>2, <1>3, <1>4, <1>5, <1>6 DEF Next

(* A hot edit: the run goes on with the new settings.                      *)
LEMMA SwappedSettings ==
  ASSUME ThreadsOK, running # None, NEW b \in BOOLEAN, NEW rs,
         rs = [runs EXCEPT ![running].clear_on_disconnect = b]
  PROVE  /\ rs \in Seq(Run)
         /\ Len(rs) = Len(runs)
         /\ \A q \in 1..Len(runs) : SameThreads(rs[q], runs[q])
<1>1. running \in 1..Len(runs) /\ runs[running] \in Run
  BY DEF ThreadsOK, None
<1>2. PICK e \in Run : rs = [runs EXCEPT ![running] = e] /\ SameThreads(e, runs[running])
  <2> DEFINE e == [runs[running] EXCEPT !.clear_on_disconnect = b]
  <2>1. e \in Run /\ rs = [runs EXCEPT ![running] = e] /\ SameThreads(e, runs[running])
    BY <1>1 DEF Run, SameThreads
  <2> HIDE DEF e
  <2> QED BY <2>1
<1>4. /\ rs \in Seq(Run)
      /\ Len(rs) = Len(runs)
      /\ \A j \in 1..Len(runs) : rs[j] = IF j = running THEN e ELSE runs[j]
  <2>1. runs \in Seq(Run)
    BY DEF ThreadsOK
  <2> QED BY <1>1, <1>2, <2>1, Replaced
<1> QED
  BY <1>2, <1>4 DEF SameThreads

LEMMA CallbacksKeep ==
  ASSUME IInv, SettingsOK, Callback
  PROVE  /\ IInv'
         /\ HandoverInv => HandoverInv'
         /\ ThreadsUntouched
<1>1. obs.pc = "idle"
  BY DEF Callback, Update, MediaRestart, MediaStop, Activate, Deactivate, Show, Hide, Drop, Call
<1>2. /\ runs \in Seq(Run)
      /\ \A q \in 1..Len(runs) : SameThreads(runs[q], runs[q])
  BY DEF IInv, ThreadsOK, SameThreads
<1>3. ASSUME NEW clear \in BOOLEAN, NEW next \in {"idle", "start", "drop"},
             StopReceiver(runs, clear, next)
      PROVE  /\ IInv'
             /\ HandoverInv => HandoverInv'
             /\ ThreadsUntouched
  BY <1>1, <1>2, <1>3, StopKeeps
<1>4. ASSUME NEW pc \in {"idle", "start"}, Continue(pc)
      PROVE  /\ IInv'
             /\ HandoverInv => HandoverInv'
             /\ ThreadsUntouched
  BY <1>1, <1>2, <1>4, ObsMoves DEF Continue, ThreadsUntouched
<1>c. config \in Configs /\ config.clear_on_disconnect \in BOOLEAN
  BY ConfigsAssumption DEF SettingsOK
<1>5. ASSUME NEW settings \in Configs, Update(settings)
      PROVE  /\ IInv'
             /\ HandoverInv => HandoverInv'
             /\ ThreadsUntouched
  <2>1. settings.clear_on_disconnect \in BOOLEAN
    BY ConfigsAssumption
  <2>2. ASSUME running # None,
               NEW rs, rs = [runs EXCEPT ![running].clear_on_disconnect =
                                           settings.clear_on_disconnect],
               \/ /\ runs' = rs
                  /\ UNCHANGED <<running, stopping, stop_done, obs, reapers, picture>>
               \/ StopReceiver(rs, settings.clear_on_disconnect, "idle")
        PROVE  /\ IInv'
               /\ HandoverInv => HandoverInv'
               /\ ThreadsUntouched
    <3>1. /\ rs \in Seq(Run)
          /\ Len(rs) = Len(runs)
          /\ \A q \in 1..Len(runs) : SameThreads(rs[q], runs[q])
      BY <2>1, <2>2, SwappedSettings DEF IInv
    <3>2. CASE StopReceiver(rs, settings.clear_on_disconnect, "idle")
      BY <1>1, <2>1, <3>1, <3>2, StopKeeps
    <3>3. CASE /\ runs' = rs
               /\ UNCHANGED <<running, stopping, stop_done, obs, reapers, picture>>
      <4>1. QuietStep
        BY <3>1, <3>3 DEF QuietStep, SameThreads, Exited, Begun
      <4> QED BY <3>1, <3>3, <4>1, QuietKeeps, QuietKeepsHandover DEF ThreadsUntouched
    <3> QED BY <2>2, <3>2, <3>3
  <2>3. ASSUME StopReceiver(runs, should_run_receiver' => settings.clear_on_disconnect, "start")
        PROVE  /\ IInv'
               /\ HandoverInv => HandoverInv'
               /\ ThreadsUntouched
    <3>1. (should_run_receiver' => settings.clear_on_disconnect) \in BOOLEAN
      OBVIOUS
    <3> QED BY <1>3, <2>3, <3>1
  <2> QED BY <1>5, <2>2, <2>3 DEF Update
<1>6. CASE MediaRestart \/ Deactivate \/ Drop \/ MediaStop
  BY <1>3, <1>6, <1>c DEF MediaRestart, Deactivate, Drop, MediaStop
<1>7. CASE Activate \/ Show
  BY <1>4, <1>7 DEF Activate, Show
<1>8. CASE Hide
  BY <1>3, <1>4, <1>8, <1>c DEF Hide
<1> QED
  BY <1>5, <1>6, <1>7, <1>8 DEF Callback

LEMMA ContinuesKeep ==
  ASSUME IInv, SettingsOK, CallbackContinues
  PROVE  /\ IInv'
         /\ "receiver" \notin Faults /\ HandoverInv => HandoverInv'
<1>1. CASE StartReceiver
  <2>0. NewRun \in Run
    BY ConfigsAssumption DEF SettingsOK, NewRun, Run, Worker, Receiver, IInv, ThreadsOK
  <2>1. CASE obs' = At("idle") /\ UNCHANGED <<running, stop_done, runs>>
    BY <1>1, <2>1, ObsMoves DEF StartReceiver
  <2>2. CASE /\ running = None
             /\ runs' = Append(runs, NewRun)
             /\ running' = Len(runs) + 1
             /\ stop_done' = None
             /\ obs' = At("idle")
    <3>1. NewRun.receiver = "waiting" /\ ~NewRun.frames /\ NewRun.predecessor = stop_done
      BY DEF NewRun
    <3>2. running' # None
      BY <2>2 DEF IInv, ThreadsOK, None
    <3> HIDE DEF NewRun
    <3> QED
      BY <1>1, <2>0, <2>2, <3>1, <3>2, StartKeeps DEF StartReceiver
  <2>3. ASSUME running = None, SpawnFails("video")
        PROVE  /\ IInv'
               /\ HandoverInv => HandoverInv'
    <3>1. PICK e \in Run : /\ runs' = Append(runs, e)
                           /\ e.receiver = "none" /\ ~e.frames /\ e.predecessor = stop_done
      <4> DEFINE e == [NewRun EXCEPT !.active = FALSE, !.video = "none", !.receiver = "none"]
      <4>1. /\ e \in Run /\ runs' = Append(runs, e)
            /\ e.receiver = "none" /\ ~e.frames /\ e.predecessor = stop_done
        BY <2>0, <2>3 DEF SpawnFails, NewRun, Run, Worker, Receiver
      <4> HIDE DEF e
      <4> QED BY <4>1
    <3>2. stop_done' = stop_done /\ running' = None
      BY <2>3 DEF SpawnFails
    <3> QED
      BY <1>1, <2>3, <3>1, <3>2, StartKeeps DEF StartReceiver, SpawnFails
  <2>4. ASSUME running = None, SpawnFails("receiver")
        PROVE  IInv'
    <3>1. PICK e \in Run : /\ runs' = Append(runs, e)
                           /\ e.receiver = "none" /\ ~e.frames /\ e.predecessor = stop_done
      <4> DEFINE e == [NewRun EXCEPT !.active = FALSE, !.receiver = "none"]
      <4>1. /\ e \in Run /\ runs' = Append(runs, e)
            /\ e.receiver = "none" /\ ~e.frames /\ e.predecessor = stop_done
        BY <2>0, <2>4 DEF SpawnFails, NewRun, Run, Worker, Receiver
      <4> HIDE DEF e
      <4> QED BY <4>1
    <3>2. stop_done' = None /\ running' = None
      BY <2>4 DEF SpawnFails
    <3> QED
      BY <1>1, <2>4, <3>1, <3>2, StartKeeps DEF StartReceiver, SpawnFails
  <2>5. SpawnFails("receiver") => "receiver" \in Faults
    BY DEF SpawnFails
  <2> QED
    BY <1>1, <2>1, <2>2, <2>3, <2>4, <2>5 DEF StartReceiver
<1>2. CASE RollbackJoined
  <2>1. obs' = At("idle")
    BY <1>2 DEF RollbackJoined, IInv, LastInv
  <2> QED
    BY <1>2, <2>1, ObsMoves DEF RollbackJoined
<1>3. CASE InlineReaped
  <2>1. obs.next \in {"idle", "start", "drop"} /\ running = None
    BY <1>3 DEF InlineReaped, IInv, LastInv, RunningInv
  <2> QED
    BY <1>3, <2>1, ObsMoves DEF InlineReaped
<1>4. CASE DropJoined
  BY <1>4, DropJoinedKeeps
<1> QED
  BY <1>1, <1>2, <1>3, <1>4 DEF CallbackContinues

LEMMA NextKeeps ==
  ASSUME IInv, SettingsOK, [Next]_vars
  PROVE  /\ IInv'
         /\ "receiver" \notin Faults /\ HandoverInv => HandoverInv'
<1>1. CASE Callback
  BY <1>1, CallbacksKeep
<1>2. CASE CallbackContinues
  BY <1>2, ContinuesKeep
<1>3. CASE VisibilityChanges \/ UNCHANGED vars
  <2>1. UNCHANGED <<running, stopping, stop_done, obs, runs, reapers, picture>>
    BY <1>3 DEF VisibilityChanges, vars
  <2>2. QuietStep
    BY <2>1 DEF QuietStep, IInv, ThreadsOK, Exited, Begun
  <2> QED BY <2>2, QuietKeeps, QuietKeepsHandover
<1>4. ASSUME NEW r \in 1..Len(runs), ReceiverBegins(r)
      PROVE  /\ IInv'
             /\ HandoverInv => HandoverInv'
  BY <1>4, BeginsKeeps
<1>5. ASSUME NEW r \in 1..Len(runs),
             \/ AudioExit(r) \/ VideoStep(r) \/ ReceiverStep(r)
             \/ \E w \in {"audio", "video", "receiver"} : Panic(r, w),
             ~ReceiverBegins(r)
      PROVE  /\ IInv'
             /\ HandoverInv => HandoverInv'
  <2>1. QuietStep
    BY <1>5, WorkersAreQuiet DEF IInv, ReceiverStep
  <2> QED BY <2>1, QuietKeeps, QuietKeepsHandover
<1>6. ASSUME NEW k \in 1..Len(reapers), ReapStep(k)
      PROVE  /\ IInv'
             /\ HandoverInv => HandoverInv'
  BY <1>6, ReapersKeep
<1> QED
  BY <1>1, <1>2, <1>3, <1>4, <1>5, <1>6 DEF Next

LEMMA InitHolds ==
  ASSUME Init
  PROVE  IInv /\ SettingsOK /\ HandoverInv
<1>1. Len(runs) = 0 /\ Len(reapers) = 0 /\ runs \in Seq(Run) /\ reapers \in Seq(Reaper)
  BY DEF Init
<1>2. obs.pc \in {"idle", "start"} /\ obs \in [pc : ObsPc, waits_for : Nat, next : ObsPc]
  BY DEF Init, At, ObsPc, None
<1>3. running = None /\ stopping = None /\ stop_done = None /\ picture = None
  BY DEF Init
<1>4. ThreadsOK
  BY <1>1, <1>2, <1>3 DEF ThreadsOK, None
<1>5. ChainInv /\ PreviousInv /\ LastInv /\ RunningInv /\ CoverInv /\ ScreenInv /\ HandoverInv
  BY <1>1, <1>2, <1>3 DEF ChainInv, PreviousInv, LastInv, RunningInv, CoverInv, ScreenInv, HandoverInv
<1>6. SettingsOK
  BY DEF Init, SettingsOK
<1> QED
  BY <1>4, <1>5, <1>6 DEF IInv

-----------------------------------------------------------------------------
(* Theorems that hold whatever fails.                                      *)

(* After Drop there is no reaper left to join.                             *)
GoneInv == obs.pc = "gone" => stopping = None

LEMMA GoneKept ==
  ASSUME IInv, SettingsOK, GoneInv, [Next]_vars
  PROVE  GoneInv'
<1>1. CASE UNCHANGED <<obs, stopping>>
  BY <1>1 DEF GoneInv
<1>2. CASE Callback
  <2>1. ASSUME NEW rs, NEW clear \in BOOLEAN, NEW next \in {"idle", "start", "drop"},
               StopReceiver(rs, clear, next)
        PROVE  obs'.pc # "gone"
    BY <2>1 DEF StopReceiver, At
  <2>2. ASSUME NEW settings \in Configs, Update(settings)
        PROVE  GoneInv'
    <3>1. obs.pc = "idle" /\ settings.clear_on_disconnect \in BOOLEAN
      BY <2>2, ConfigsAssumption DEF Update, Call
    <3>2. (should_run_receiver' => settings.clear_on_disconnect) \in BOOLEAN
      OBVIOUS
    <3> QED BY <1>1, <2>1, <2>2, <3>1, <3>2 DEF Update, GoneInv
  <2>c. config.clear_on_disconnect \in BOOLEAN
    BY ConfigsAssumption DEF SettingsOK
  <2>3. CASE MediaRestart \/ MediaStop \/ Deactivate \/ Drop
    BY <2>1, <2>3, <2>c DEF MediaRestart, MediaStop, Deactivate, Drop, GoneInv
  <2>4. ASSUME NEW pc \in {"idle", "start"}, Continue(pc)
        PROVE  obs'.pc # "gone"
    BY <2>4 DEF Continue, At
  <2>5. CASE Activate \/ Show
    BY <2>4, <2>5 DEF Activate, Show, GoneInv
  <2>6. CASE Hide
    BY <2>1, <2>4, <2>6, <2>c DEF Hide, GoneInv
  <2> QED BY <1>2, <2>2, <2>3, <2>5, <2>6 DEF Callback
<1>3. CASE CallbackContinues
  <2>1. CASE StartReceiver
    BY <2>1 DEF StartReceiver, SpawnFails, At, GoneInv
  <2>2. CASE RollbackJoined \/ InlineReaped
    BY <2>2 DEF RollbackJoined, InlineReaped, At, GoneInv, IInv, LastInv
  <2>3. CASE DropJoined
    BY <2>3 DEF DropJoined, GoneInv
  <2> QED BY <1>3, <2>1, <2>2, <2>3 DEF CallbackContinues
<1>4. CASE VisibilityChanges \/ UNCHANGED vars
  BY <1>1, <1>4 DEF VisibilityChanges, vars
<1>5. ASSUME NEW r \in 1..Len(runs),
             \/ AudioExit(r) \/ VideoStep(r) \/ ReceiverStep(r)
             \/ \E w \in {"audio", "video", "receiver"} : Panic(r, w)
      PROVE  UNCHANGED <<obs, stopping>>
  BY <1>5 DEF AudioExit, VideoStep, VideoExit, VideoOutput, VideoClear, ReceiverStep,
     ReceiverBegins, OpenAttempt, OpenSucceeds, OpenFails, ReadPacket, ReadError,
     ReceiverExit, Panic, WorkerStep, obs_state
<1>6. ASSUME NEW k \in 1..Len(reapers), ReapStep(k)
      PROVE  UNCHANGED <<obs, stopping>>
  BY <1>6 DEF ReapStep, ReapPrevious, ReapWorkers, ReapClear, ReaperStep, obs_state
<1> QED
  BY <1>1, <1>2, <1>3, <1>4, <1>5, <1>6 DEF Next

(* The inductive invariant, whatever fails: every behaviour of the source  *)
(* keeps the settings and the threads typed, the reapers in one chain that *)
(* `stopping' ends, and every live worker covered by a join.               *)
THEOREM InvariantHolds == Spec => [](IInv /\ SettingsOK /\ GoneInv)
<1>1. Init => IInv /\ SettingsOK /\ GoneInv
  BY InitHolds DEF Init, GoneInv
<1>2. IInv /\ SettingsOK /\ GoneInv /\ [Next]_vars => (IInv /\ SettingsOK /\ GoneInv)'
  BY NextKeeps, SettingsKept, GoneKept
<1> QED
  BY <1>1, <1>2, PTL DEF Spec

(* Every variable keeps its type.                                          *)
THEOREM TypeCorrect == Spec => []TypeOK
<1>1. IInv /\ SettingsOK => TypeOK
  BY DEF IInv, SettingsOK, ThreadsOK, TypeOK
<1> QED
  BY <1>1, InvariantHolds, PTL

(* Drop (source.rs) returns only when no worker and no reaper is left to   *)
(* use the source's handle, even after spawns that failed and panics.      *)
THEOREM HandleOutlivesThreads == Spec => []NothingOutlivesSource
<1>1. ASSUME IInv, GoneInv, obs.pc = "gone"
      PROVE  /\ \A r \in 1..Len(runs) : Exited(r)
             /\ \A k \in 1..Len(reapers) : Done(k)
  <2>1. \A k \in 1..Len(reapers) : Done(k)
    BY <1>1 DEF GoneInv, IInv, LastInv
  <2>2. running = None
    BY <1>1 DEF IInv, RunningInv
  <2>3. ASSUME NEW r \in 1..Len(runs), ~Exited(r)
        PROVE  FALSE
    <3>1. PICK k \in 1..Len(reapers) : reapers[k].run = r
      BY <1>1, <2>2, <2>3 DEF IInv, CoverInv, None
    <3>2. r \in 1..reapers[k].upto
      BY <1>1, <3>1, UptoIsARun DEF IInv, ChainInv
    <3> QED BY <1>1, <2>1, <2>3, <3>2 DEF IInv, CoverInv, Done
  <2> QED BY <2>1, <2>3
<1>2. IInv /\ GoneInv => NothingOutlivesSource
  BY <1>1 DEF NothingOutlivesSource
<1> QED
  BY <1>2, InvariantHolds, PTL

(* No worker is forgotten: each is the installed run's, or is joined by    *)
(* start_receiver's rollback, or by a reaper that stop_receiver chained.   *)
THEOREM WorkersAreJoined == Spec => []EveryWorkerIsJoined
<1>1. ASSUME IInv, NEW r \in 1..Len(runs), ~Exited(r)
      PROVE  \/ r = running /\ \A k \in 1..Len(reapers) : reapers[k].run # r
             \/ obs.pc = "rollback" /\ obs.waits_for = r
             \/ \E k \in 1..Len(reapers) : /\ reapers[k].run = r
                                           /\ ~Done(k)
                                           /\ k <= stopping \/ k <= obs.waits_for
  <2>1. \A k \in 1..Len(reapers) : reapers[k].run <= reapers[k].upto /\ reapers[k].run \in Nat
    BY <1>1, UptoIsARun DEF IInv, ChainInv, Reaper
  <2>2. CASE r = running
    BY <1>1, <2>1, <2>2, UptoIsARun DEF IInv, RunningInv, None
  <2>3. ASSUME NEW k \in 1..Len(reapers), reapers[k].run = r
        PROVE  ~Done(k) /\ (k <= stopping \/ k <= obs.waits_for)
    <3>1. r \in 1..reapers[k].upto
      BY <1>1, <2>1, <2>3, UptoIsARun DEF IInv
    <3>2. ~Done(k)
      BY <1>1, <3>1 DEF IInv, CoverInv, Done
    <3> QED BY <1>1, <3>2 DEF IInv, LastInv
  <2> QED BY <1>1, <2>2, <2>3 DEF IInv, CoverInv
<1>2. IInv => EveryWorkerIsJoined
  BY <1>1 DEF EveryWorkerIsJoined
<1> QED
  BY <1>2, InvariantHolds, PTL

(* A stop that blanks the screen, once its reaper is done, has no frame of *)
(* the runs it ended painted over it: those runs have no video thread.     *)
THEOREM BlankIsFinal == Spec => []ClearedStaysCleared
<1>1. Init => ClearedStaysCleared
  BY DEF Init, ClearedStaysCleared
<1>2. ASSUME IInv, ClearedStaysCleared, [Next]_vars
      PROVE  ClearedStaysCleared'
  <2>1. CASE UNCHANGED reapers /\ picture' \in {picture, None}
    BY <1>2, <2>1 DEF ClearedStaysCleared, Done
  <2>2. CASE UNCHANGED picture /\ \A k \in 1..Len(reapers') : Done(k)' =>
                                    k \in 1..Len(reapers) /\ reapers'[k] = reapers[k]
    BY <1>2, <2>2 DEF ClearedStaysCleared, Done
  <2>3. ASSUME NEW rs, NEW clear, NEW next, StopReceiver(rs, clear, next)
        PROVE  ClearedStaysCleared'
    <3>1. CASE UNCHANGED reapers /\ picture' \in {picture, None}
      BY <2>1, <3>1
    <3>2. CASE /\ UNCHANGED picture
               /\ reapers' = Append(reapers,
                    [pc |-> "previous", previous |-> stopping, run |-> running,
                     clear |-> clear, upto |-> Len(runs)])
      <4>1. reapers \in Seq(Reaper)
        BY <1>2 DEF IInv, ThreadsOK
      <4>2. ASSUME NEW k \in 1..Len(reapers'), Done(k)'
            PROVE  k \in 1..Len(reapers) /\ reapers'[k] = reapers[k]
        BY <3>2, <4>1, <4>2 DEF Done
      <4> QED BY <2>2, <3>2, <4>2
    <3> QED BY <2>3, <3>1, <3>2, Zenon DEF StopReceiver
  <2>4. CASE Callback
    BY <2>1, <2>3, <2>4 DEF Callback, Update, MediaRestart, MediaStop, Activate, Deactivate,
       Show, Hide, Drop, Continue
  <2>5. CASE CallbackContinues \/ VisibilityChanges \/ UNCHANGED vars
    BY <2>1, <2>5 DEF CallbackContinues, StartReceiver, RollbackJoined, InlineReaped,
       DropJoined, VisibilityChanges, vars
  <2>6. ASSUME NEW r \in 1..Len(runs), VideoOutput(r)
        PROVE  ClearedStaysCleared'
    <3>1. ASSUME NEW k \in 1..Len(reapers), Done(k)
          PROVE  r > reapers[k].upto
      <4>1. ~Exited(r)
        BY <2>6 DEF VideoOutput, Exited
      <4>2. r \notin 1..reapers[k].upto
        BY <1>2, <3>1, <4>1 DEF IInv, CoverInv, Done
      <4> QED BY <1>2, <4>2, UptoIsARun DEF IInv
    <3> QED BY <2>6, <3>1 DEF VideoOutput, WorkerStep, ClearedStaysCleared, Done
  <2>7. ASSUME NEW r \in 1..Len(runs), ~VideoOutput(r),
               \/ AudioExit(r) \/ VideoStep(r) \/ ReceiverStep(r)
               \/ \E w \in {"audio", "video", "receiver"} : Panic(r, w)
        PROVE  ClearedStaysCleared'
    BY <2>1, <2>7 DEF AudioExit, VideoStep, VideoExit, VideoClear, ReceiverStep,
       ReceiverBegins, OpenAttempt, OpenSucceeds, OpenFails, ReadPacket, ReadError,
       ReceiverExit, Panic, WorkerStep
  <2>8. ASSUME NEW k \in 1..Len(reapers), ReapStep(k)
        PROVE  ClearedStaysCleared'
    <3>1. PICK e \in Reaper : /\ reapers' = [reapers EXCEPT ![k] = e]
                              /\ e.pc = "done" =>
                                   /\ reapers[k].pc = "clear" /\ e.upto = reapers[k].upto
                                   /\ picture' = IF e.clear THEN None ELSE picture
                              /\ e.pc # "done" => picture' = picture
      <4>0. reapers[k] \in Reaper
        BY <1>2 DEF IInv, ThreadsOK
      <4>1. CASE ReapPrevious(k)
        <5> DEFINE e == [reapers[k] EXCEPT !.pc = "join"]
        <5>1. e \in Reaper /\ e.pc = "join" /\ reapers' = [reapers EXCEPT ![k] = e] /\ picture' = picture
          BY <4>0, <4>1 DEF ReapPrevious, Reaper
        <5> HIDE DEF e
        <5> QED BY <5>1
      <4>2. CASE ReapWorkers(k)
        <5> DEFINE e == [reapers[k] EXCEPT !.pc = "clear"]
        <5>1. e \in Reaper /\ e.pc = "clear" /\ reapers' = [reapers EXCEPT ![k] = e] /\ picture' = picture
          BY <4>0, <4>2 DEF ReapWorkers, Reaper
        <5> HIDE DEF e
        <5> QED BY <5>1
      <4>3. CASE ReapClear(k)
        <5> DEFINE e == [reapers[k] EXCEPT !.pc = "done"]
        <5>1. /\ e \in Reaper /\ e.pc = "done" /\ reapers' = [reapers EXCEPT ![k] = e]
              /\ reapers[k].pc = "clear" /\ e.upto = reapers[k].upto
              /\ picture' = IF e.clear THEN None ELSE picture
          BY <4>0, <4>3 DEF ReapClear, Reaper
        <5> HIDE DEF e
        <5> QED BY <5>1
      <4> QED BY <2>8, <4>1, <4>2, <4>3 DEF ReapStep
    <3>2. /\ Len(reapers') = Len(reapers)
          /\ \A j \in 1..Len(reapers) : reapers'[j] = IF j = k THEN e ELSE reapers[j]
      <4>1. reapers \in Seq(Reaper)
        BY <1>2 DEF IInv, ThreadsOK
      <4> QED BY <3>1, <4>1, Replaced
    <3>3. ASSUME NEW j \in 1..Len(reapers'), Done(j)', reapers'[j].clear, picture' # None
          PROVE  picture' > reapers'[j].upto
      <4>1. picture' = picture
        BY <3>1, <3>3
      <4>2. CASE j = k
        BY <3>1, <3>2, <3>3, <4>2 DEF Done
      <4>3. CASE j # k
        BY <1>2, <3>2, <3>3, <4>1, <4>3 DEF ClearedStaysCleared, Done
      <4> QED BY <4>2, <4>3
    <3> QED BY <3>3 DEF ClearedStaysCleared
  <2> QED BY <1>2, <2>4, <2>5, <2>6, <2>7, <2>8 DEF Next
<1> QED
  BY <1>1, <1>2, InvariantHolds, PTL DEF Spec

-----------------------------------------------------------------------------
(* Theorems that need every receiver thread to be spawned: when that spawn *)
(* fails start_receiver loses the predecessor it took for it, and a later  *)
(* run can connect while an older one is still connected.                  *)

THEOREM HandoverHolds ==
  ASSUME "receiver" \notin Faults
  PROVE  Spec => []HandoverInv
<1>1. Init => HandoverInv
  BY InitHolds
<1>2. IInv /\ SettingsOK /\ HandoverInv /\ [Next]_vars => HandoverInv'
  BY NextKeeps
<1> QED
  BY <1>1, <1>2, InvariantHolds, PTL DEF Spec

(* At most one run of the source holds its input, in every state: the      *)
(* receiver of a new run waits on its predecessor's channel, and that is   *)
(* the whole chain of reapers.                                             *)
THEOREM ConnectionIsExclusive ==
  ASSUME "receiver" \notin Faults
  PROVE  Spec => []OneConnection
<1>1. ASSUME HandoverInv, IInv, NEW r \in 1..Len(runs), NEW q \in 1..Len(runs),
             Holding(r), Holding(q)
      PROVE  r <= q
  <2>1. Begun(r) /\ ~Exited(q)
    BY <1>1 DEF Holding, Begun, Exited
  <2>2. q \notin 1..(r-1)
    BY <1>1, <2>1 DEF HandoverInv
  <2>3. Len(runs) \in Nat
    BY <1>1 DEF IInv, ThreadsOK
  <2> QED BY <2>2, <2>3
<1>2. ASSUME HandoverInv, IInv
      PROVE  OneConnection
  <2> SUFFICES ASSUME NEW r \in 1..Len(runs), NEW q \in 1..Len(runs),
                      Holding(r), Holding(q)
               PROVE  r = q
    BY DEF OneConnection
  <2>1. r <= q /\ q <= r
    BY <1>1, <1>2
  <2>2. Len(runs) \in Nat
    BY <1>2 DEF IInv, ThreadsOK
  <2> QED BY <2>1, <2>2
<1> QED
  BY <1>2, InvariantHolds, HandoverHolds, PTL

(* What a step may do to the screen and to the receivers.                  *)
LEMMA ScreenMoves ==
  ASSUME IInv, HandoverInv, SettingsOK, [Next]_vars
  PROVE  \/ picture' = picture
         \/ /\ picture' = None
            /\ picture # None /\ running' = picture => runs[picture].clear_pending
         \/ /\ picture' \in 1..Len(runs) /\ runs[picture'].frames /\ ~Exited(picture')
            /\ UNCHANGED runs
<1> DEFINE Goal ==
      \/ picture' = picture
      \/ /\ picture' = None
         /\ picture # None /\ running' = picture => runs[picture].clear_pending
      \/ /\ picture' \in 1..Len(runs) /\ runs[picture'].frames /\ ~Exited(picture')
         /\ UNCHANGED runs
<1>1. ASSUME NEW rs, NEW clear \in BOOLEAN, NEW next \in {"idle", "start", "drop"},
             StopReceiver(rs, clear, next)
      PROVE  Goal
  BY <1>1 DEF StopReceiver, None
<1>2. CASE Callback
  <2>1. ASSUME NEW settings \in Configs, Update(settings)
        PROVE  Goal
    <3>1. settings.clear_on_disconnect \in BOOLEAN
      BY ConfigsAssumption
    <3>2. (should_run_receiver' => settings.clear_on_disconnect) \in BOOLEAN
      OBVIOUS
    <3> HIDE DEF Goal
    <3>3. picture' = picture => Goal
      BY DEF Goal
    <3> QED BY <1>1, <2>1, <3>1, <3>2, <3>3 DEF Update
  <2>c. config.clear_on_disconnect \in BOOLEAN
    BY ConfigsAssumption DEF SettingsOK
  <2>2. CASE MediaRestart \/ MediaStop \/ Deactivate \/ Drop
    BY <1>1, <2>2, <2>c DEF MediaRestart, MediaStop, Deactivate, Drop
  <2>3. CASE Activate \/ Show \/ Hide
    BY <1>1, <2>3, <2>c DEF Activate, Show, Hide, Continue
  <2> QED BY <1>2, <2>1, <2>2, <2>3 DEF Callback
<1>3. CASE CallbackContinues \/ VisibilityChanges \/ UNCHANGED vars
  BY <1>3 DEF CallbackContinues, StartReceiver, RollbackJoined, InlineReaped, DropJoined,
     VisibilityChanges, vars
<1>4. ASSUME NEW r \in 1..Len(runs), VideoOutput(r)
      PROVE  Goal
  BY <1>4 DEF VideoOutput, Exited, WorkerStep
<1>5. ASSUME NEW r \in 1..Len(runs), VideoClear(r)
      PROVE  Goal
  <2>1. ASSUME picture # None, running = picture
        PROVE  r = picture
    <3>1. picture = Len(runs) /\ Begun(picture) /\ picture \in 1..Len(runs)
      BY <2>1 DEF IInv, RunningInv, ScreenInv, ThreadsOK, None
    <3>2. ~Exited(r)
      BY <1>5 DEF VideoClear, Exited
    <3>3. r \notin 1..(picture-1)
      BY <3>1, <3>2 DEF HandoverInv
    <3> QED BY <3>1, <3>3
  <2> QED BY <1>5, <2>1 DEF VideoClear, WorkerStep, obs_state
<1>6. ASSUME NEW r \in 1..Len(runs), ~VideoOutput(r), ~VideoClear(r),
             \/ AudioExit(r) \/ VideoStep(r) \/ ReceiverStep(r)
             \/ \E w \in {"audio", "video", "receiver"} : Panic(r, w)
      PROVE  picture' = picture
  BY <1>6 DEF AudioExit, VideoStep, VideoExit, ReceiverStep, ReceiverBegins, OpenAttempt,
     OpenSucceeds, OpenFails, ReadPacket, ReadError, ReceiverExit, Panic
<1>7. ASSUME NEW k \in 1..Len(reapers), ReapStep(k)
      PROVE  Goal
  <2>1. CASE ReapPrevious(k) \/ ReapWorkers(k)
    BY <2>1 DEF ReapPrevious, ReapWorkers
  <2>2. CASE ReapClear(k)
    <3>1. ASSUME picture # None, running = picture
          PROVE  FALSE
      <4>1. Begun(picture) /\ picture \in 1..Len(runs) /\ reapers[k].upto < picture
        BY <3>1 DEF IInv, RunningInv, ScreenInv, ThreadsOK, None
      <4>2. Done(k)
        BY <4>1 DEF HandoverInv
      <4> QED BY <2>2, <4>2 DEF ReapClear, Done
    <3> QED BY <2>2, <3>1 DEF ReapClear, ReaperStep, obs_state
  <2> QED BY <1>7, <2>1, <2>2 DEF ReapStep
<1>8. Goal
  BY <1>2, <1>3, <1>4, <1>5, <1>6, <1>7 DEF Next
<1> QED BY <1>8

(* The blank of an earlier stop, however late, never takes the picture of  *)
(* the run that replaced the one it stopped.                               *)
THEOREM InstalledPictureIsSpared ==
  ASSUME "receiver" \notin Faults
  PROVE  Spec => BlankSparesRunning
<1>1. ASSUME IInv, HandoverInv, SettingsOK, [Next]_vars
      PROVE  [(picture # None /\ picture' = None /\ running' = picture)
                => runs[picture].clear_pending]_vars
  BY <1>1, ScreenMoves DEF None, ThreadsOK, IInv
<1> QED
  BY <1>1, InvariantHolds, HandoverHolds, PTL DEF Spec, BlankSparesRunning

-----------------------------------------------------------------------------
(* The detailed specification implements Succession.                       *)

LEMMA LeastNatural ==
  ASSUME NEW T \in SUBSET Nat, T # {}
  PROVE  \E m \in T : \A n \in T : m <= n
<1> DEFINE R == {ss \in Nat \X Nat : ss[1] < ss[2]}
<1>1. IsWellFoundedOn(R, Nat)
  BY NatLessThanWellFounded, Zenon DEF OpToRel
<1>2. \E m \in T : \A n \in T : ~ (<<n, m>> \in R)
  <2> HIDE DEF R
  <2>1. T \subseteq Nat
    OBVIOUS
  <2> QED BY <1>1, <2>1, WFMin, Zenon
<1>3. PICK m \in T : \A n \in T : ~ (<<n, m>> \in R)
  BY <1>2
<1>4. ASSUME NEW n \in T
      PROVE  m <= n
  <2>1. n \in Nat /\ m \in Nat
    OBVIOUS
  <2>2. ASSUME n < m
        PROVE  <<n, m>> \in R
    <3>1. <<n, m>> \in Nat \X Nat /\ <<n, m>>[1] = n /\ <<n, m>>[2] = m
      BY <2>1
    <3>2. <<n, m>>[1] < <<n, m>>[2]
      BY <2>2, <3>1
    <3> QED BY <3>1, <3>2, Zenon
  <2> HIDE DEF R
  <2> QED BY <1>3, <2>1, <2>2
<1> QED BY <1>4

LEMMA GreatestBelow ==
  ASSUME NEW n \in Nat, NEW T \in SUBSET (1..n), T # {}
  PROVE  \E m \in T : \A q \in T : q <= m
<1> DEFINE U == {n - q : q \in T}
<1>1. U \in SUBSET Nat /\ U # {}
  <2>1. \A q \in T : n - q \in Nat
    OBVIOUS
  <2>2. PICK q \in T : TRUE
    OBVIOUS
  <2>3. n - q \in U
    OBVIOUS
  <2> QED BY <2>1, <2>3
<1>2. PICK u \in U : \A v \in U : u <= v
  <2> HIDE DEF U
  <2> QED BY <1>1, LeastNatural
<1>3. PICK m \in T : u = n - m
  OBVIOUS
<1>4. ASSUME NEW q \in T
      PROVE  q <= m
  <2>1. n - q \in U
    OBVIOUS
  <2> QED BY <1>2, <1>3, <2>1
<1> QED BY <1>4

NewestOK ==
  \/ Newest = None /\ \A r \in 1..Len(runs) : ~Begun(r)
  \/ /\ Newest \in 1..Len(runs) /\ Begun(Newest)
     /\ \A q \in 1..Len(runs) : Begun(q) => q <= Newest

LEMMA NewestIsGreatest == Len(runs) \in Nat => NewestOK
<1> SUFFICES ASSUME Len(runs) \in Nat
             PROVE  NewestOK
  OBVIOUS
<1>1. CASE \E r \in 1..Len(runs) : Begun(r)
  <2> DEFINE T == {r \in 1..Len(runs) : Begun(r)}
  <2>1. T \in SUBSET (1..Len(runs)) /\ T # {}
    BY <1>1
  <2>2. PICK m \in T : \A q \in T : q <= m
    <3> HIDE DEF T
    <3> QED BY <2>1, GreatestBelow
  <2>3. \E r \in 1..Len(runs) : Begun(r) /\ \A q \in 1..Len(runs) : Begun(q) => q <= r
    BY <2>2
  <2>4. Newest = CHOOSE r \in 1..Len(runs) :
                   Begun(r) /\ \A q \in 1..Len(runs) : Begun(q) => q <= r
    BY <1>1 DEF Newest
  <2>5. Newest \in 1..Len(runs) /\ Begun(Newest) /\ \A q \in 1..Len(runs) : Begun(q) => q <= Newest
    BY <2>3, <2>4, Zenon
  <2> QED BY <2>5 DEF NewestOK
<1>2. CASE \A r \in 1..Len(runs) : ~Begun(r)
  BY <1>2 DEF Newest, NewestOK
<1> QED BY <1>1, <1>2

(* The newest run stays the newest while none begins.                      *)
LEMMA NewestKept ==
  ASSUME IInv, IInv', Len(runs) <= Len(runs'),
         \A q \in 1..Len(runs) : Begun(q)' <=> Begun(q),
         \A q \in 1..Len(runs') : q > Len(runs) => ~Begun(q)'
  PROVE  Newest' = Newest
<1>1. Len(runs) \in Nat /\ Len(runs)' \in Nat
  BY SMTT(30) DEF IInv, ThreadsOK
<1>2. NewestOK
  BY <1>1, NewestIsGreatest
<1>3. (Len(runs) \in Nat => NewestOK)'
  BY NewestIsGreatest, PTL
<1>4. NewestOK'
  BY <1>1, <1>3
<1>5. CASE \A r \in 1..Len(runs) : ~Begun(r)
  <2>1. Newest = None
    BY <1>2, <1>5 DEF NewestOK, None
  <2>2. \A r \in 1..Len(runs') : ~Begun(r)'
    BY <1>1, <1>5
  <2>3. Newest' = None
    BY <1>4, <2>2 DEF NewestOK, None
  <2> QED BY <2>1, <2>3
<1>6. ASSUME NEW r \in 1..Len(runs), Begun(r)
      PROVE  Newest' = Newest
  <2>1. /\ Newest \in 1..Len(runs) /\ Begun(Newest)
        /\ \A q \in 1..Len(runs) : Begun(q) => q <= Newest
    BY <1>2, <1>6 DEF NewestOK
  <2>2. r \in 1..Len(runs') /\ Begun(r)'
    BY <1>1, <1>6
  <2>3. /\ Newest' \in 1..Len(runs') /\ Begun(Newest)'
        /\ \A q \in 1..Len(runs') : Begun(q)' => q <= Newest'
    BY <1>4, <2>2 DEF NewestOK
  <2>4. PICK n : n = Newest'
    OBVIOUS
  <2>5. n \in 1..Len(runs') /\ Begun(n)'
    BY <2>3, <2>4 DEF Begun
  <2>6. n \in 1..Len(runs) /\ Begun(n)
    BY <1>1, <2>5
  <2>7. PICK m : m = Newest
    OBVIOUS
  <2>8. m \in 1..Len(runs) /\ Begun(m)
    BY <2>1, <2>7
  <2>9. m \in 1..Len(runs') /\ Begun(m)'
    BY <1>1, <2>8
  <2> QED BY <1>1, <2>1, <2>3, <2>4, <2>6, <2>7, <2>9
<1> QED BY <1>5, <1>6

(* The run that has begun and is not over is the newest that has.          *)
LEMMA AliveIsNewest ==
  ASSUME IInv, HandoverInv, NEW r \in 1..Len(runs), Begun(r), ~Exited(r)
  PROVE  /\ Newest = r
         /\ \A q \in 1..Len(runs) : Holding(q) => q = r
<1>1. Len(runs) \in Nat /\ NewestOK
  BY NewestIsGreatest DEF IInv, ThreadsOK
<1>2. ASSUME NEW q \in 1..Len(runs), Begun(q)
      PROVE  q <= r
  <2>1. r \notin 1..(q-1)
    BY <1>2 DEF HandoverInv
  <2> QED BY <1>1, <2>1
<1>3. Newest = r
  BY <1>1, <1>2 DEF NewestOK
<1>4. ASSUME NEW q \in 1..Len(runs), Holding(q)
      PROVE  q = r
  <2>1. Begun(q) /\ ~Exited(q)
    BY <1>4 DEF Holding, Begun, Exited
  <2>2. q \notin 1..(r-1)
    BY <2>1 DEF HandoverInv
  <2> QED BY <1>1, <1>2, <2>1, <2>2
<1> QED BY <1>3, <1>4

Holders == {r \in 1..Len(runs) : Holding(r)}

(* No run begins, connects or disconnects.                                 *)
LEMMA StutterOrBlank ==
  ASSUME IInv, IInv', Len(runs) <= Len(runs'),
         \A q \in 1..Len(runs) : runs'[q].receiver = runs[q].receiver,
         \A q \in 1..Len(runs') : q > Len(runs) => runs'[q].receiver \in {"none", "waiting"},
         picture' \in {picture, None}
  PROVE  [Abstract!Next]_(Abstract!vars)
<1>0. Len(runs) \in Nat /\ Len(runs)' \in Nat
  BY SMTT(30) DEF IInv, ThreadsOK
<1>1. Newest' = Newest
  <2>1. /\ \A q \in 1..Len(runs) : Begun(q)' <=> Begun(q)
        /\ \A q \in 1..Len(runs') : q > Len(runs) => ~Begun(q)'
    BY DEF Begun
  <2> QED BY <2>1, NewestKept
<1>2. Holders' = Holders
  <2>1. ASSUME NEW q
        PROVE  q \in Holders' <=> q \in Holders
    BY <1>0 DEF Holders, Holding
  <2> QED BY <2>1
<1> QED
  BY <1>1, <1>2 DEF Abstract!Next, Abstract!Blank, Abstract!vars, Holders, None

LEMMA WorkerMaps ==
  ASSUME IInv, IInv', HandoverInv, NEW r \in 1..Len(runs), NEW e, Moves(r, e)
  PROVE  [Abstract!Next]_(Abstract!vars)
<1>0. Len(runs) \in Nat
  BY DEF IInv, ThreadsOK
<1>1. /\ Len(runs') = Len(runs)
      /\ \A j \in 1..Len(runs) : runs'[j] = IF j = r THEN e ELSE runs[j]
  <2>1. runs \in Seq(Run) /\ e \in Run /\ runs' = [runs EXCEPT ![r] = e]
    BY DEF IInv, ThreadsOK, Moves, Turn
  <2> QED BY <2>1, Replaced
<1>2. CASE e.receiver = runs[r].receiver
  <2>1. \A q \in 1..Len(runs) : runs'[q].receiver = runs[q].receiver
    BY <1>1, <1>2
  <2> QED BY <1>0, <1>1, <2>1, StutterOrBlank DEF Moves
<1>3. CASE e.receiver # runs[r].receiver
  <2>1. picture' = picture
    BY <1>3 DEF Moves
  <2>2. /\ \A q \in 1..Len(runs) : Begun(q)' <=> Begun(q)
        /\ \A q \in 1..Len(runs') : q > Len(runs) => ~Begun(q)'
    BY <1>0, <1>1 DEF Begun, Moves, Turn
  <2>3. Newest' = Newest
    BY <1>0, <1>1, <2>2, NewestKept
  <2>4. Begun(r) /\ ~Exited(r)
    BY <1>3 DEF Begun, Exited, Moves, Turn, Ended
  <2>5. Newest = r /\ \A q \in 1..Len(runs) : Holding(q) => q = r
    BY <2>4, AliveIsNewest
  <2>6. \A q \in 1..Len(runs) : q # r => ~Holding(q)'
    BY <1>1, <2>5 DEF Holding
  <2>7. CASE ~Holding(r)'
    <3>1. Holders' = {}
      BY <1>1, <2>6, <2>7 DEF Holders
    <3> QED BY <2>1, <2>3, <3>1 DEF Abstract!Next, Abstract!Disconnect, Holders
  <2>8. CASE Holding(r)' /\ Holding(r)
    <3>1. Holders' = {r} /\ Holders = {r}
      BY <1>1, <2>5, <2>6, <2>8 DEF Holders
    <3> QED BY <2>1, <2>3, <3>1 DEF Abstract!vars, Holders
  <2>9. CASE Holding(r)' /\ ~Holding(r)
    <3>1. Holders' = {r} /\ Holders = {}
      BY <1>1, <2>5, <2>6, <2>9 DEF Holders
    <3>2. r # 0
      BY <1>0
    <3> QED BY <2>1, <2>3, <2>5, <3>1, <3>2 DEF Abstract!Next, Abstract!Connect, Holders
  <2> QED BY <2>7, <2>8, <2>9
<1> QED BY <1>2, <1>3

LEMMA BeginsMaps ==
  ASSUME IInv, IInv', HandoverInv, HandoverInv', NEW r \in 1..Len(runs), ReceiverBegins(r)
  PROVE  [Abstract!Next]_(Abstract!vars)
<1>0. Len(runs) \in Nat /\ runs[r] \in Run
  BY SMTT(30) DEF IInv, ThreadsOK
<1>1. PICK e \in Run : runs' = [runs EXCEPT ![r] = e] /\ e.receiver \in {"closed", "exited"}
  <2>1. CASE runs' = [runs EXCEPT ![r].receiver = "closed"]
    <3> DEFINE e == [runs[r] EXCEPT !.receiver = "closed"]
    <3>1. e \in Run /\ runs' = [runs EXCEPT ![r] = e] /\ e.receiver = "closed"
      BY <1>0, <2>1 DEF Run, Receiver
    <3> HIDE DEF e
    <3> QED BY <3>1
  <2>2. CASE runs' = [runs EXCEPT ![r].receiver = "exited", ![r].active = FALSE]
    <3> DEFINE e == [runs[r] EXCEPT !.receiver = "exited", !.active = FALSE]
    <3>1. e \in Run /\ runs' = [runs EXCEPT ![r] = e] /\ e.receiver = "exited"
      BY <1>0, <2>2 DEF Run, Receiver
    <3> HIDE DEF e
    <3> QED BY <3>1
  <2> QED BY <2>1, <2>2 DEF ReceiverBegins
<1>2. /\ Len(runs') = Len(runs)
      /\ \A j \in 1..Len(runs) : runs'[j] = IF j = r THEN e ELSE runs[j]
  <2>1. runs \in Seq(Run)
    BY DEF IInv, ThreadsOK
  <2> QED BY <1>1, <2>1, Replaced
<1>3. picture' = picture /\ runs[r].receiver = "waiting"
  BY DEF ReceiverBegins
<1>4. Begun(r)' /\ ~Begun(r) /\ ~Exited(r)
  BY <1>1, <1>2, <1>3 DEF Begun, Exited
<1>5. ASSUME NEW q \in 1..Len(runs), Begun(q)
      PROVE  q < r
  <2>1. r \notin 1..(q-1)
    BY <1>4, <1>5 DEF HandoverInv
  <2> QED BY <1>0, <1>4, <1>5, <2>1
<1>6. \A q \in 1..Len(runs) : q # r => (Begun(q)' <=> Begun(q)) /\ (Holding(q)' <=> Holding(q))
  BY <1>2 DEF Begun, Holding
<1>7. Newest \in 0..(r-1)
  <2>1. NewestOK
    BY <1>0, NewestIsGreatest
  <2> QED BY <1>0, <1>5, <2>1 DEF NewestOK, None
<1>8. Newest' = r
  <2>1. (Len(runs) \in Nat => NewestOK)'
    BY NewestIsGreatest, PTL
  <2>2. NewestOK'
    BY <1>0, <1>2, <2>1
  <2>3. PICK n : n = Newest'
    OBVIOUS
  <2>4. n \in 1..Len(runs) /\ Begun(n)' /\ r <= n
    BY <1>2, <1>4, <2>2, <2>3 DEF NewestOK, Begun
  <2>5. n # r => Begun(n) /\ n < r
    BY <1>5, <1>6, <2>4
  <2> QED BY <1>0, <2>3, <2>4, <2>5
<1>9. Holders = {} /\ Holders' = {}
  <2>1. ASSUME NEW q \in 1..Len(runs)
        PROVE  ~Holding(q)'
    <3>1. CASE q = r
      BY <1>1, <1>2, <3>1 DEF Holding
    <3>2. CASE q # r /\ Begun(q)
      <4>1. q \in 1..(r-1)
        BY <1>0, <1>5, <3>2
      <4>2. Exited(q)'
        BY <1>2, <1>4, <4>1 DEF HandoverInv
      <4> QED BY <4>2 DEF Exited, Holding
    <3>3. CASE q # r /\ ~Begun(q)
      BY <1>2, <3>3 DEF Begun, Holding
    <3> QED BY <3>1, <3>2, <3>3
  <2>2. ~Holding(r)
    BY <1>3 DEF Holding
  <2> QED BY <1>2, <1>6, <2>1, <2>2 DEF Holders
<1> QED
  BY <1>0, <1>3, <1>7, <1>8, <1>9 DEF Abstract!Next, Abstract!TakeOver, Holders

(* Every step is a step of Succession or leaves it where it is.            *)
LEMMA StepMaps ==
  ASSUME IInv, IInv', HandoverInv, HandoverInv', SettingsOK, [Next]_vars
  PROVE  [Abstract!Next]_(Abstract!vars)
<1>0. Len(runs) \in Nat
  BY DEF IInv, ThreadsOK
<1>1. CASE Callback
  <2>1. ThreadsUntouched
    BY <1>1, CallbacksKeep
  <2>2. \A q \in 1..Len(runs) : runs'[q].receiver = runs[q].receiver
    BY <2>1 DEF ThreadsUntouched, SameThreads
  <2> QED BY <1>0, <2>1, <2>2, StutterOrBlank DEF ThreadsUntouched
<1>2. CASE UNCHANGED <<runs, picture>>
  BY <1>0, <1>2, StutterOrBlank
<1>3. CASE CallbackContinues \/ VisibilityChanges \/ UNCHANGED vars
  <2>1. ASSUME NEW e, e.receiver \in {"none", "waiting"},
               runs' = Append(runs, e), picture' = picture
        PROVE  [Abstract!Next]_(Abstract!vars)
    <3>1. /\ Len(runs') = Len(runs) + 1
          /\ \A q \in 1..Len(runs) : runs'[q] = runs[q]
          /\ runs'[Len(runs) + 1] = e
      BY <2>1 DEF IInv, ThreadsOK
    <3>2. \A q \in 1..Len(runs') : q > Len(runs) => runs'[q].receiver \in {"none", "waiting"}
      BY <1>0, <2>1, <3>1
    <3> QED BY <1>0, <2>1, <3>1, <3>2, StutterOrBlank
  <2>2. CASE StartReceiver
    <3>1. picture' = picture
      BY <2>2 DEF StartReceiver
    <3>2. CASE runs' = runs
      BY <1>2, <3>1, <3>2
    <3>3. CASE runs' = Append(runs, NewRun)
      <4>1. NewRun.receiver = "waiting"
        BY DEF NewRun
      <4> HIDE DEF NewRun
      <4> QED BY <2>1, <3>1, <3>3, <4>1
    <3>4. ASSUME NEW w, SpawnFails(w)
          PROVE  [Abstract!Next]_(Abstract!vars)
      <4>1. PICK e : runs' = Append(runs, e) /\ e.receiver = "none"
        <5> DEFINE e == IF w = "video"
                        THEN [NewRun EXCEPT !.active = FALSE, !.video = "none", !.receiver = "none"]
                        ELSE [NewRun EXCEPT !.active = FALSE, !.receiver = "none"]
        <5>1. runs' = Append(runs, e)
          BY <3>4 DEF SpawnFails
        <5>2. e.receiver = "none"
          BY DEF NewRun
        <5> HIDE DEF e
        <5> QED BY <5>1, <5>2
      <4> QED BY <2>1, <3>1, <4>1
    <3> QED BY <2>2, <3>2, <3>3, <3>4 DEF StartReceiver
  <2>3. CASE RollbackJoined \/ InlineReaped \/ DropJoined
    BY <1>2, <2>3 DEF RollbackJoined, InlineReaped, DropJoined
  <2>4. CASE VisibilityChanges \/ UNCHANGED vars
    BY <1>2, <2>4 DEF VisibilityChanges, vars
  <2> QED BY <1>3, <2>2, <2>3, <2>4 DEF CallbackContinues
<1>4. ASSUME NEW r \in 1..Len(runs), ReceiverBegins(r)
      PROVE  [Abstract!Next]_(Abstract!vars)
  BY <1>4, BeginsMaps
<1>5. ASSUME NEW r \in 1..Len(runs), VideoOutput(r)
      PROVE  [Abstract!Next]_(Abstract!vars)
  <2>1. UNCHANGED runs /\ picture' = r /\ Begun(r) /\ ~Exited(r)
    BY <1>5 DEF VideoOutput, IInv, ScreenInv, Exited
  <2>2. Newest = r
    BY <2>1, AliveIsNewest
  <2>3. UNCHANGED <<Holders, Newest>>
    <3>1. Newest' = Newest
      BY <1>0, <2>1, NewestKept DEF Begun
    <3>2. Holders' = Holders
      BY <2>1 DEF Holders, Holding
    <3> QED BY <3>1, <3>2
  <2>4. r # 0
    BY <1>0
  <2> QED BY <2>1, <2>2, <2>3, <2>4 DEF Abstract!Next, Abstract!Draw, Holders
<1>6. ASSUME NEW r \in 1..Len(runs), ~VideoOutput(r), ~ReceiverBegins(r),
             \/ AudioExit(r) \/ VideoStep(r) \/ ReceiverStep(r)
             \/ \E w \in {"audio", "video", "receiver"} : Panic(r, w)
      PROVE  [Abstract!Next]_(Abstract!vars)
  <2>1. PICK e : Moves(r, e)
    BY <1>6, WorkersMove DEF IInv, ReceiverStep
  <2> QED BY <2>1, WorkerMaps
<1>7. ASSUME NEW k \in 1..Len(reapers), ReapStep(k)
      PROVE  [Abstract!Next]_(Abstract!vars)
  <2>1. UNCHANGED runs /\ picture' \in {picture, None}
    BY <1>7 DEF ReapStep, ReapPrevious, ReapWorkers, ReapClear, ReaperStep
  <2> QED BY <1>0, <2>1, StutterOrBlank
<1> QED
  BY <1>1, <1>3, <1>4, <1>5, <1>6, <1>7 DEF Next

(* The source implements Succession: whatever its threads interleave, an   *)
(* observer sees runs that take over from one another in order, one holder *)
(* of the input at a time, and pictures of the newest run only.            *)
THEOREM SourceImplementsSuccession ==
  ASSUME "receiver" \notin Faults
  PROVE  Spec => RunsSucceedOneAnother
<1>1. ASSUME Init
      PROVE  Abstract!Init
  <2>1. Len(runs) = 0 /\ picture = 0
    BY <1>1 DEF Init, None
  <2>2. Newest = 0
    BY <2>1 DEF Newest, None
  <2> QED BY <2>1, <2>2 DEF Abstract!Init
<1>2. ASSUME IInv, IInv', HandoverInv, HandoverInv', SettingsOK, [Next]_vars
      PROVE  [Abstract!Next]_(Abstract!vars)
  BY <1>2, StepMaps
<1> QED
  BY <1>1, <1>2, InvariantHolds, HandoverHolds, PTL
  DEF Spec, RunsSucceedOneAnother, Abstract!Spec
=============================================================================
