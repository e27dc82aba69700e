------------------------------ MODULE Lifecycle ------------------------------
(***************************************************************************)
(* The life of one IRL source: the callbacks libobs makes                  *)
(* (irl-source/src/source.rs), the three worker threads of every run they  *)
(* start (irl-audio, irl-video, irl-receiver) and the short-lived irl-stop *)
(* threads ("reapers") that join the workers of a stopped run and blank    *)
(* the screen after them.                                                  *)
(*                                                                         *)
(* Every callback holds the obs_state mutex from its first line to its     *)
(* last.  A callback that stops and then starts, or that has to wait (a    *)
(* spawn that failed, Drop), is several steps here: `obs' says what the    *)
(* holder of the mutex does next, and no other callback begins until it    *)
(* is "idle" again.  The worker and reaper threads never take that mutex   *)
(* and interleave freely.                                                  *)
(*                                                                         *)
(* Runs and reapers are numbered in the order they were made and their     *)
(* records are kept after the threads are gone: the numbers are how the    *)
(* properties tell an old run from a newer one.                            *)
(***************************************************************************)
EXTENDS Integers, Sequences

CONSTANTS
  Configs,   (* the settings a user may save: records [stream, close_when_inactive, clear_on_disconnect] *)
  Faults,    (* which of FaultKinds may happen                            *)
  MaxCalls   (* BOUND: callbacks and visibility changes before the source is destroyed *)

FaultKinds == {"audio", "video", "receiver", "reaper", "panic", "alloc"}

NoUrl == 0   (* the stream settings of a source with no URL *)
None  == 0   (* no run, no reaper, a blank screen           *)

ASSUME ConfigsAssumption ==
  Configs \subseteq [stream : Nat, close_when_inactive : BOOLEAN, clear_on_disconnect : BOOLEAN]
ASSUME FaultsAssumption == Faults \subseteq FaultKinds
ASSUME MaxCallsAssumption == MaxCalls \in Nat

VARIABLES
  config,         (* ObsState::config                                     *)
  media_stopped,  (* ObsState::media_stopped                              *)
  showing,        (* libobs: obs_source_showing, changed by the UI at any time *)
  notified,       (* libobs: the visibility the last show/hide callback reported *)
  acted_on,       (* history: the visibility the source was last told of, or last read to decide *)
  running,        (* ObsState::running: the run, or None                  *)
  stopping,       (* ObsState::stopping: the reaper to join, or None      *)
  stop_done,      (* ObsState::stop_done: the reaper whose end it reports, or None *)
  obs,            (* what the holder of the obs_state mutex does next     *)
  runs,           (* every run started so far: its Shared and its threads *)
  reapers,        (* every reaper made so far                             *)
  picture,        (* the run whose frame is on screen, or None            *)
  calls           (* callbacks made so far (bounds the model)             *)

obs_state == <<config, media_stopped, running, stopping, stop_done, obs, calls>>
visibility == <<showing, notified, acted_on>>
vars == <<config, media_stopped, showing, notified, acted_on, running, stopping,
          stop_done, obs, runs, reapers, picture, calls>>

Worker   == {"none", "live", "exited"}
Receiver == {"none", "waiting", "closed", "opening", "open", "exited"}

(* `predecessor' is the reaper the receiver waits for before it opens;     *)
(* `frames' says whether the video thread holds anything it could output.  *)
Run == [active : BOOLEAN, audio : Worker, video : Worker, receiver : Receiver,
        predecessor : Nat, clear_on_disconnect : BOOLEAN,
        clear_pending : BOOLEAN, frames : BOOLEAN]

(* `upto' is history: the number of runs that had been started when the    *)
(* reaper was made.                                                        *)
Reaper == [pc : {"previous", "join", "clear", "done"}, previous : Nat,
           run : Nat, clear : BOOLEAN, upto : Nat]

ObsPc == {"idle", "start", "drop", "inline", "rollback", "gone"}

TypeOK ==
  /\ config \in Configs
  /\ media_stopped \in BOOLEAN
  /\ showing \in BOOLEAN
  /\ notified \in BOOLEAN
  /\ acted_on \in BOOLEAN
  /\ running \in 0..Len(runs)
  /\ stopping \in 0..Len(reapers)
  /\ stop_done \in 0..Len(reapers)
  /\ obs \in [pc : ObsPc, waits_for : Nat, next : ObsPc]
  /\ runs \in Seq(Run)
  /\ reapers \in Seq(Reaper)
  /\ picture \in 0..Len(runs)
  /\ calls \in Nat

At(pc) == [pc |-> pc, waits_for |-> None, next |-> pc]

Exited(r) == {runs[r].audio, runs[r].video, runs[r].receiver} \subseteq {"none", "exited"}
Done(k)   == reapers[k].pc = "done"

-----------------------------------------------------------------------------
(* Starting and stopping, called with the obs_state mutex held.            *)

should_run_receiver ==
  /\ config.stream # NoUrl
  /\ ~media_stopped
  /\ config.close_when_inactive => showing

(* Mutant: the run is not told whom to wait for.                           *)
NewRunHeedless == [active |-> TRUE, audio |-> "live", video |-> "live",
           receiver |-> "waiting", predecessor |-> None,
           clear_on_disconnect |-> config.clear_on_disconnect,
           clear_pending |-> FALSE, frames |-> FALSE]

NewRun == [active |-> TRUE, audio |-> "live", video |-> "live",
           receiver |-> "waiting", predecessor |-> stop_done,
           clear_on_disconnect |-> config.clear_on_disconnect,
           clear_pending |-> FALSE, frames |-> FALSE]

(* A worker that could not be spawned: the workers before it are told to   *)
(* stop and joined before the callback returns, and no run is installed.   *)
SpawnFails(worker) ==
  /\ worker \in Faults
  /\ runs' = Append(runs,
       IF worker = "video"
       THEN [NewRun EXCEPT !.active = FALSE, !.video = "none", !.receiver = "none"]
       ELSE [NewRun EXCEPT !.active = FALSE, !.receiver = "none"])
  /\ obs' = [pc |-> "rollback", waits_for |-> Len(runs) + 1, next |-> "idle"]
  /\ stop_done' = IF worker = "receiver" THEN None ELSE stop_done
  /\ UNCHANGED running

StartReceiver ==
  /\ obs.pc = "start"
  /\ acted_on' = IF running = None THEN showing ELSE acted_on
  /\ \/ /\ running # None \/ ~should_run_receiver
        /\ obs' = At("idle")
        /\ UNCHANGED <<running, stop_done, runs>>
     \/ /\ running = None /\ should_run_receiver
        /\ \/ /\ runs' = Append(runs, NewRun)
              /\ running' = Len(runs) + 1
              /\ stop_done' = None
              /\ obs' = At("idle")
           \/ /\ "audio" \in Faults
              /\ obs' = At("idle")
              /\ UNCHANGED <<running, stop_done, runs>>
           \/ SpawnFails("video")
           \/ SpawnFails("receiver")
  /\ UNCHANGED <<config, media_stopped, showing, notified, stopping, reapers, picture, calls>>

(* Mutant: the rollback returns without its joins.                         *)
RollbackUnjoined ==
  /\ obs.pc = "rollback"
  /\ obs' = At(obs.next)
  /\ UNCHANGED <<config, media_stopped, visibility, running, stopping, stop_done,
                 runs, reapers, picture, calls>>

(* The joins of start_receiver's rollback.                                 *)
RollbackJoined ==
  /\ obs.pc = "rollback"
  /\ Exited(obs.waits_for)
  /\ obs' = At(obs.next)
  /\ UNCHANGED <<config, media_stopped, visibility, running, stopping, stop_done,
                 runs, reapers, picture, calls>>

(* stop_receiver, on the runs `rs' the callback leaves; `next' is what the *)
(* callback does after it.  The reaper is a thread of its own, or, when    *)
(* that thread cannot be spawned, its body runs inside the callback.       *)
StopReceiver(rs, clear, next) ==
  \/ /\ running = None /\ stopping = None
     /\ picture' = IF clear THEN None ELSE picture
     /\ obs' = At(next)
     /\ runs' = rs
     /\ UNCHANGED <<running, stopping, stop_done, reapers>>
  \/ /\ running # None \/ stopping # None
     /\ running' = None
     /\ runs' = IF running = None THEN rs ELSE [rs EXCEPT ![running].active = FALSE]
     /\ reapers' = Append(reapers,
          [pc |-> "previous", previous |-> stopping, run |-> running,
           clear |-> clear, upto |-> Len(runs)])
     /\ \/ /\ stopping' = Len(reapers) + 1
           /\ stop_done' = Len(reapers) + 1
           /\ obs' = At(next)
        \/ /\ "reaper" \in Faults
           /\ stopping' = None
           /\ obs' = [pc |-> "inline", waits_for |-> Len(reapers) + 1, next |-> next]
           /\ UNCHANGED stop_done
     /\ UNCHANGED picture

InlineReaped ==
  /\ obs.pc = "inline"
  /\ Done(obs.waits_for)
  /\ obs' = At(obs.next)
  /\ UNCHANGED <<config, media_stopped, visibility, running, stopping, stop_done,
                 runs, reapers, picture, calls>>

-----------------------------------------------------------------------------
(* The callbacks.                                                          *)

Call ==
  /\ obs.pc = "idle"
  /\ calls < MaxCalls
  /\ calls' = calls + 1

Continue(pc) ==
  /\ obs' = At(pc)
  /\ UNCHANGED <<running, stopping, stop_done, runs, reapers, picture>>

(* A hot edit swaps the live settings into the run; any other edit stops   *)
(* the run and starts one with the new settings.                           *)
Update(settings) ==
  /\ Call
  /\ media_stopped' = FALSE
  /\ config' = settings
  /\ acted_on' = showing
  /\ UNCHANGED <<showing, notified>>
  /\ \/ /\ running # None
        /\ settings.stream = config.stream
        /\ LET swapped == [runs EXCEPT ![running].clear_on_disconnect = settings.clear_on_disconnect]
           IN  \/ /\ should_run_receiver'
                  /\ runs' = swapped
                  /\ UNCHANGED <<running, stopping, stop_done, obs, reapers, picture>>
               \/ /\ ~should_run_receiver'
                  /\ StopReceiver(swapped, settings.clear_on_disconnect, "idle")
     \/ /\ running = None \/ settings.stream # config.stream
        /\ StopReceiver(runs, should_run_receiver' => settings.clear_on_disconnect, "start")

MediaRestart ==
  /\ Call
  /\ media_stopped' = FALSE
  /\ StopReceiver(runs, config.clear_on_disconnect, "start")
  /\ UNCHANGED <<config, visibility>>

(* Mutant: Stop blanks only when Clear On Disconnect says so.              *)
MediaStopLikeDisconnect ==
  /\ Call
  /\ media_stopped' = TRUE
  /\ StopReceiver(runs, config.clear_on_disconnect, "idle")
  /\ UNCHANGED <<config, visibility>>

MediaStop ==
  /\ Call
  /\ media_stopped' = TRUE
  /\ StopReceiver(runs, TRUE, "idle")
  /\ UNCHANGED <<config, visibility>>

Activate ==
  /\ Call
  /\ config.close_when_inactive
  /\ Continue("start")
  /\ UNCHANGED <<config, media_stopped, visibility>>

Deactivate ==
  /\ Call
  /\ config.close_when_inactive
  /\ ~showing
  /\ acted_on' = FALSE
  /\ StopReceiver(runs, config.clear_on_disconnect, "idle")
  /\ UNCHANGED <<config, media_stopped, showing, notified>>

(* libobs changes what source.showing() answers as the UI changes, and on  *)
(* its next tick reports what has changed since the last report: a change  *)
(* taken back before the tick is reported by no callback.                  *)
VisibilityChanges ==
  /\ obs.pc # "gone"
  /\ calls < MaxCalls
  /\ calls' = calls + 1
  /\ showing' = ~showing
  /\ UNCHANGED <<config, media_stopped, notified, acted_on, running, stopping, stop_done, obs,
                 runs, reapers, picture>>

(* Mutant: a source shown again waits for `activate' to start it.          *)
ShowOnly ==
  /\ obs.pc = "idle" /\ showing /\ ~notified
  /\ notified' = TRUE /\ acted_on' = TRUE
  /\ Continue("idle")
  /\ UNCHANGED <<config, media_stopped, showing, calls>>

Show ==
  /\ obs.pc = "idle" /\ showing /\ ~notified
  /\ notified' = TRUE /\ acted_on' = TRUE
  /\ Continue(IF config.close_when_inactive THEN "start" ELSE "idle")
  /\ UNCHANGED <<config, media_stopped, showing, calls>>

Hide ==
  /\ obs.pc = "idle" /\ ~showing /\ notified
  /\ notified' = FALSE /\ acted_on' = FALSE
  /\ \/ /\ config.close_when_inactive
        /\ StopReceiver(runs, config.clear_on_disconnect, "idle")
     \/ /\ ~config.close_when_inactive
        /\ Continue("idle")
  /\ UNCHANGED <<config, media_stopped, showing, calls>>

Drop ==
  /\ obs.pc = "idle"
  /\ StopReceiver(runs, FALSE, "drop")
  /\ UNCHANGED <<config, media_stopped, visibility, calls>>

(* Mutant: Drop forgets the reaper instead of joining it.                  *)
DropDetaches ==
  /\ obs.pc = "drop"
  /\ stopping' = None
  /\ obs' = At("gone")
  /\ UNCHANGED <<config, media_stopped, visibility, running, stop_done, runs,
                 reapers, picture, calls>>

(* Drop joins the last reaper, and with it every thread the source made.   *)
DropJoined ==
  /\ obs.pc = "drop"
  /\ stopping # None => Done(stopping)
  /\ stopping' = None
  /\ obs' = At("gone")
  /\ UNCHANGED <<config, media_stopped, visibility, running, stop_done, runs,
                 reapers, picture, calls>>

-----------------------------------------------------------------------------
(* The worker threads of run r.                                            *)

WorkerStep == UNCHANGED <<obs_state, visibility, reapers>>

AudioExit(r) ==
  /\ runs[r].audio = "live" /\ ~runs[r].active
  /\ runs' = [runs EXCEPT ![r].audio = "exited"]
  /\ WorkerStep /\ UNCHANGED picture

VideoExit(r) ==
  /\ runs[r].video = "live" /\ ~runs[r].active
  /\ runs' = [runs EXCEPT ![r].video = "exited"]
  /\ WorkerStep /\ UNCHANGED picture

(* The flag is read once per pass, so frames of the pass under way still   *)
(* go out after a stop.                                                    *)
VideoOutput(r) ==
  /\ runs[r].video = "live" /\ runs[r].frames
  /\ picture' = r
  /\ WorkerStep /\ UNCHANGED runs

(* What the receiver pushed since it asked for the clear is kept.          *)
VideoClear(r) ==
  /\ runs[r].video = "live" /\ runs[r].clear_pending
  /\ \E kept \in {FALSE, runs[r].frames} :
       runs' = [runs EXCEPT ![r].clear_pending = FALSE, ![r].frames = kept]
  /\ picture' = None
  /\ WorkerStep

(* Mutant: it opens at once.                                               *)
ReceiverHurries(r) ==
  /\ runs[r].receiver = "waiting"
  /\ runs' = [runs EXCEPT ![r].receiver = "closed"]
  /\ WorkerStep /\ UNCHANGED picture

(* Mutant: it waits for every reaper, and so for the one that joins it.    *)
ReceiverWaitsForAll(r) ==
  /\ runs[r].receiver = "waiting"
  /\ \A k \in 1..Len(reapers) : Done(k)
  /\ runs' = [runs EXCEPT ![r].receiver = "closed"]
  /\ WorkerStep /\ UNCHANGED picture

(* done.recv() returns once the predecessor's sender is dropped, at the    *)
(* end of its reaper's body.  A receiver that then cannot allocate its     *)
(* packet ends the run.                                                    *)
ReceiverBegins(r) ==
  /\ runs[r].receiver = "waiting"
  /\ runs[r].predecessor # None => Done(runs[r].predecessor)
  /\ \/ runs' = [runs EXCEPT ![r].receiver = "closed"]
     \/ /\ "alloc" \in Faults
        /\ runs' = [runs EXCEPT ![r].receiver = "exited", ![r].active = FALSE]
  /\ WorkerStep /\ UNCHANGED picture

(* From here on the attempt may hold the port of a listener URL.           *)
OpenAttempt(r) ==
  /\ runs[r].receiver = "closed" /\ runs[r].active
  /\ runs' = [runs EXCEPT ![r].receiver = "opening"]
  /\ WorkerStep /\ UNCHANGED picture

OpenSucceeds(r) ==
  /\ runs[r].receiver = "opening"
  /\ runs' = [runs EXCEPT ![r].receiver = "open"]
  /\ WorkerStep /\ UNCHANGED picture

(* Refused, timed out, or interrupted because the run was stopped.         *)
OpenFails(r) ==
  /\ runs[r].receiver = "opening"
  /\ runs' = [runs EXCEPT ![r].receiver = "closed"]
  /\ WorkerStep /\ UNCHANGED picture

ReadPacket(r) ==
  /\ runs[r].receiver = "open"
  /\ runs' = [runs EXCEPT ![r].frames = TRUE]
  /\ WorkerStep /\ UNCHANGED picture

ReadError(r) ==
  /\ runs[r].receiver = "open"
  /\ runs' = [runs EXCEPT ![r].receiver = "closed",
                          ![r].clear_pending = @ \/ runs[r].clear_on_disconnect]
  /\ WorkerStep /\ UNCHANGED picture

ReceiverExit(r) ==
  /\ runs[r].receiver \in {"closed", "open"} /\ ~runs[r].active
  /\ runs' = [runs EXCEPT ![r].receiver = "exited"]
  /\ WorkerStep /\ UNCHANGED picture

(* Mutant: the panic is caught, the run is not ended.                      *)
PanicContained(r, worker) ==
  /\ "panic" \in Faults
  /\ runs[r][worker] \notin {"none", "waiting", "exited"}
  /\ runs' = [runs EXCEPT ![r][worker] = "exited"]
  /\ WorkerStep /\ UNCHANGED picture

(* spawn_worker catches the panic of any worker and ends the run.          *)
Panic(r, worker) ==
  /\ "panic" \in Faults
  /\ runs[r][worker] \notin {"none", "waiting", "exited"}
  /\ runs' = [runs EXCEPT ![r][worker] = "exited", ![r].active = FALSE]
  /\ WorkerStep /\ UNCHANGED picture

ReceiverStep(r) ==
  \/ ReceiverBegins(r) \/ OpenAttempt(r) \/ OpenSucceeds(r) \/ OpenFails(r)
  \/ ReadPacket(r) \/ ReadError(r) \/ ReceiverExit(r)

VideoStep(r) == VideoExit(r) \/ VideoOutput(r) \/ VideoClear(r)

-----------------------------------------------------------------------------
(* The reaper threads.                                                     *)

ReaperStep == UNCHANGED <<obs_state, visibility, runs>>

ReapPrevious(k) ==
  /\ reapers[k].pc = "previous"
  /\ reapers[k].previous # None => Done(reapers[k].previous)
  /\ reapers' = [reapers EXCEPT ![k].pc = "join"]
  /\ ReaperStep /\ UNCHANGED picture

(* Mutant: the screen is blanked before the workers are joined.            *)
ReapUnjoined(k) ==
  /\ reapers[k].pc = "join"
  /\ reapers' = [reapers EXCEPT ![k].pc = "clear"]
  /\ ReaperStep /\ UNCHANGED picture

ReapWorkers(k) ==
  /\ reapers[k].pc = "join"
  /\ reapers[k].run # None => Exited(reapers[k].run)
  /\ reapers' = [reapers EXCEPT ![k].pc = "clear"]
  /\ ReaperStep /\ UNCHANGED picture

ReapClear(k) ==
  /\ reapers[k].pc = "clear"
  /\ picture' = IF reapers[k].clear THEN None ELSE picture
  /\ reapers' = [reapers EXCEPT ![k].pc = "done"]
  /\ ReaperStep

ReapStep(k) == ReapPrevious(k) \/ ReapWorkers(k) \/ ReapClear(k)

-----------------------------------------------------------------------------
(* create() starts the receiver when the restored settings carry a URL.    *)
Init ==
  /\ config \in Configs
  /\ media_stopped = FALSE
  /\ showing = FALSE /\ notified = FALSE /\ acted_on = FALSE
  /\ running = None /\ stopping = None /\ stop_done = None
  /\ obs = At(IF config.stream = NoUrl THEN "idle" ELSE "start")
  /\ runs = << >> /\ reapers = << >>
  /\ picture = None
  /\ calls = 0

Callback ==
  \/ \E settings \in Configs : Update(settings)
  \/ MediaRestart \/ MediaStop \/ Activate \/ Deactivate
  \/ Show \/ Hide \/ Drop

CallbackContinues == StartReceiver \/ RollbackJoined \/ InlineReaped \/ DropJoined

Next ==
  \/ Callback \/ CallbackContinues \/ VisibilityChanges
  \/ \E r \in 1..Len(runs) :
       \/ AudioExit(r) \/ VideoStep(r) \/ ReceiverStep(r)
       \/ \E w \in {"audio", "video", "receiver"} : Panic(r, w)
  \/ \E k \in 1..Len(reapers) : ReapStep(k)

Spec == Init /\ [][Next]_vars

(* BOUND: every run but the one create() starts, and every reaper but the  *)
(* one Drop makes, takes a counted call.                                   *)
Ids == 1..(MaxCalls + 1)

(* The operating system runs every thread; libobs ticks; a callback that   *)
(* holds the mutex goes on; an open attempt ends, since the interrupt      *)
(* watch aborts it when the run stops.  Nothing is assumed of the user, of *)
(* the sender, or of frames being there to output.                         *)
Fairness ==
  /\ WF_vars(CallbackContinues)
  /\ WF_vars(Show \/ Hide)
  /\ \A r \in Ids :
       /\ WF_vars(r <= Len(runs) /\ AudioExit(r))
       /\ WF_vars(r <= Len(runs) /\ VideoExit(r))
       /\ WF_vars(r <= Len(runs) /\ ReceiverBegins(r))
       /\ WF_vars(r <= Len(runs) /\ OpenAttempt(r))
       /\ WF_vars(r <= Len(runs) /\ (OpenSucceeds(r) \/ OpenFails(r)))
       /\ WF_vars(r <= Len(runs) /\ ReceiverExit(r))
  /\ \A k \in Ids : WF_vars(k <= Len(reapers) /\ ReapStep(k))

FairSpec == Spec /\ Fairness

-----------------------------------------------------------------------------
(* Safety.                                                                 *)

Holding(r) == runs[r].receiver \in {"opening", "open"}
Begun(r)   == runs[r].receiver \notin {"none", "waiting"}

(* stop_receiver promises that the old connection, and the port a listener *)
(* URL holds, is gone before the next run opens one.                       *)
OneConnection ==
  \A r, q \in 1..Len(runs) : Holding(r) /\ Holding(q) => r = q

(* A stop that blanks the screen blanks it after the workers are gone, so  *)
(* no frame in flight paints over the blank: once its reaper is done only  *)
(* a run started later is on screen.                                       *)
ClearedStaysCleared ==
  \A k \in 1..Len(reapers) :
    Done(k) /\ reapers[k].clear /\ picture # None => picture > reapers[k].upto

(* The clear of an earlier stop never blanks the picture of the run that   *)
(* is installed: only that run's own disconnection does.                   *)
BlankSparesRunning ==
  [][(picture # None /\ picture' = None /\ running' = picture)
       => runs[picture].clear_pending]_vars

(* The workers and the reapers use the source's handle, so none of them    *)
(* outlives Drop.                                                          *)
NothingOutlivesSource ==
  obs.pc = "gone" =>
    /\ \A r \in 1..Len(runs) : Exited(r)
    /\ \A k \in 1..Len(reapers) : Done(k)

(* The workers installed as `running' are never joined by anyone else, and *)
(* every other worker that is still alive has someone who joins it: the    *)
(* chain of reapers that ends in `stopping', or the callback under way.    *)
EveryWorkerIsJoined ==
  \A r \in 1..Len(runs) :
    ~Exited(r) =>
      \/ r = running /\ \A k \in 1..Len(reapers) : reapers[k].run # r
      \/ obs.pc = "rollback" /\ obs.waits_for = r
      \/ \E k \in 1..Len(reapers) : /\ reapers[k].run = r
                                    /\ ~Done(k)
                                    /\ k <= stopping \/ k <= obs.waits_for

(* The screen and the input pass from run to run in the order the runs     *)
(* were started (module Succession).                                       *)
Newest ==
  IF \E r \in 1..Len(runs) : Begun(r)
  THEN CHOOSE r \in 1..Len(runs) : Begun(r) /\ \A q \in 1..Len(runs) : Begun(q) => q <= r
  ELSE None

Abstract == INSTANCE Succession
              WITH holders <- {r \in 1..Len(runs) : Holding(r)},
                   newest <- Newest, screen <- picture

RunsSucceedOneAnother == Abstract!Spec

-----------------------------------------------------------------------------
(* Liveness.                                                               *)

Serving == obs.pc # "gone" /\ "drop" \notin {obs.pc, obs.next}
Wanted  == Serving /\ should_run_receiver

(* The newest run could not be started, or a worker of it ended by itself. *)
Crippled ==
  LET n == Len(runs) IN
  /\ n # 0
  /\ \/ runs[n].receiver = "none"
     \/ running = n /\ "exited" \in {runs[n].audio, runs[n].video, runs[n].receiver}

(* The source acted on a visibility that was taken back before the tick    *)
(* that would have reported it.                                            *)
Flickered == config.close_when_inactive /\ acted_on # showing

Connects == running # None /\ runs[running].active /\ Holding(running)

(* A source that should be receiving comes to try to connect, whatever     *)
(* callback made it so; short of a run that failed, which nothing but the  *)
(* user repeats, and of a visibility nothing reports.  A report, or        *)
(* another look, is a state the promise is made anew in.                   *)
WantedSourceConnects == Wanted ~> (~Wanted \/ Crippled \/ Flickered \/ Connects)

(* README.md:100 promises it of every source that becomes visible again.   *)
VisibleSourceConnects == Wanted ~> (~Wanted \/ Crippled \/ Connects)

(* A source that should not be receiving comes to hold no connection,      *)
(* short of a visibility nothing reports.                                  *)
UnwantedSourceDisconnects ==
  ~Wanted ~> (Wanted \/ Flickered \/ \A r \in 1..Len(runs) : ~Holding(r))

(* Stop in the media controls blanks the screen whatever Clear On          *)
(* Disconnect says, unless the source is started again first.              *)
MediaStopBlanks == media_stopped ~> (picture = None \/ ~media_stopped \/ ~Serving)

(* Every stop ends: no reaper waits for one that waits for it.             *)
ReapersFinish ==
  \A k \in Ids : (k <= Len(reapers)) ~> (k <= Len(reapers) /\ Done(k))

(* Whatever ends one worker of a run (a stop, a rollback, a panic, an      *)
(* allocation that failed) ends the other two.                             *)
WorkersEndTogether ==
  \A r \in Ids :
    (r <= Len(runs) /\ "exited" \in {runs[r].audio, runs[r].video, runs[r].receiver})
      ~> (r <= Len(runs) /\ Exited(r))

(* Destroying the source does not hang on its threads.                     *)
DropReturns == ~Serving ~> (obs.pc = "gone")
=============================================================================
