--------------------------- MODULE ProviderWatch ---------------------------
(***************************************************************************)
(* The provider URL watch (irl-source/src/providers.rs, irl-core/src/      *)
(* url_recheck.rs): while a source whose URL came from a pick receives     *)
(* nothing, a thread asks the provider for that URL again, because the     *)
(* key in it may have been rotated.                                        *)
(*                                                                         *)
(* Settings are touched on the UI thread alone.  The watch queues a task   *)
(* there that reads the pick, gets it back through a channel, asks the     *)
(* provider, and queues a task that looks again and writes the answer.     *)
(* Between any two of these the user edits, media comes or goes, the       *)
(* provider rotates, and the module is unloaded.                           *)
(*                                                                         *)
(* One source is modelled.  A URL is the slot and ingest it is for and the *)
(* number of its key; time is counted in polls.                            *)
(***************************************************************************)
EXTENDS Integers, Sequences

CONSTANTS
  Absent,
  Stop,        (* WatchMsg::Stop                                          *)
  Slots,       (* entries of the Provider dropdown                        *)
  Ingests,     (* those of a provider                                     *)
  Saved,       (* the one in the settings                                 *)
  First,       (* PROVIDER_RECHECK_FIRST_MS                               *)
  Interval,    (* PROVIDER_RECHECK_MS                                     *)
  MaxInterval, (* PROVIDER_RECHECK_MAX_MS                                 *)
  MaxKey,      (* BOUND: rotations                                        *)
  MaxFrames,   (* BOUND: frames a connection brings                       *)
  MaxEdits,    (* BOUND: things the user does                             *)
  MaxTasks     (* BOUND: tasks the UI thread is behind with               *)

ASSUME WatchAssumption ==
  /\ {First, Interval, MaxInterval, MaxKey, MaxFrames, MaxEdits, MaxTasks} \subseteq Nat
  /\ Saved \in Ingests /\ Interval > 0 /\ MaxInterval >= Interval

Urls  == [slot : Slots, id : Ingests, key : 0..MaxKey]
Picks == [slot : Slots, id : Ingests, url : Urls, frames : 0..MaxFrames]

ASSUME NoneAssumption == Absent \notin Slots \cup Ingests \cup Urls \cup Picks /\ Stop \notin Picks

VARIABLES
  slot,       (* the selected provider, or Absent for Manual URL          *)
  url,        (* the `url' setting                                        *)
  pair,       (* per slot what its last successful pick resolved to: `id'
                 and `url'                                                *)
  config_url, (* the URL the source was last updated with                 *)
  running,    (* the source has a receiver                                *)
  linked,     (* it is connected                                          *)
  frames,     (* decoded on the current connection                        *)
  key,        (* the provider's current key                               *)
  watched,    (* the watch's UrlRecheck of the source, or Absent          *)
  pc,         (* the watch thread                                         *)
  pick,       (* the pick of its request                                  *)
  inbox,      (* the channel to it                                        *)
  tasks,      (* the UI thread's queue                                    *)
  ui,         (* the UI thread: running, or where shutdown is             *)
  stopping,   (* WATCH_STOPPING                                           *)
  held_up,    (* history: requests the unload has to wait for             *)
  edits

settings == <<slot, url, pair>>
source == <<config_url, running, linked, frames>>
watch == <<watched, pc, pick>>
unload == <<ui, stopping, held_up>>
budget == <<key, edits>>
watch_vars == <<settings, source, watch, inbox, tasks, unload, budget>>

Unpicked == [id |-> Absent, url |-> Absent]
Url(s, i, k) == [slot |-> s, id |-> i, key |-> k]
Typed == [slot |-> Absent, id |-> Absent, key |-> 0]

(* A source that a scene collection brings, with the pick it was saved     *)
(* with.                                                                   *)
WatchInit ==
  /\ slot \in Slots
  /\ url = Url(slot, Saved, 0)
  /\ pair = [s \in Slots |-> IF s = slot THEN [id |-> Saved, url |-> url] ELSE Unpicked]
  /\ config_url = url /\ running = TRUE /\ linked = FALSE /\ frames = 0
  /\ key = 0 /\ edits = 0
  /\ watched = Absent /\ pc = "waiting" /\ pick = Absent
  /\ inbox = <<>> /\ tasks = <<>>
  /\ ui = "running" /\ stopping = FALSE /\ held_up = 0
-----------------------------------------------------------------------------
(* UrlRecheck: `frames' seen at the last poll, and the outage if one is    *)
(* on, with the polls left before the next check and the interval after.   *)
Default == [frames |-> 0, outage |-> Absent]

(* Mutant: every poll starts the outage over.                              *)
OutageAnew(r) == [left |-> First, interval |-> Interval]

Outage(r) == IF r.outage = Absent THEN [left |-> First, interval |-> Interval]
             ELSE [r.outage EXCEPT !.left = IF @ > 0 THEN @ - 1 ELSE 0]

Asks(r, n) == n <= r.frames /\ Outage(r).left = 0

poll(r, n) ==
  [frames |-> n,
   outage |-> IF n > r.frames THEN Absent
              ELSE IF Asks(r, n) THEN [Outage(r) EXCEPT !.left = Outage(r).interval]
              ELSE Outage(r)]

url_changed(r) ==
  IF r.outage = Absent THEN r
  ELSE [r EXCEPT !.outage.interval = IF 2 * @ < MaxInterval THEN 2 * @ ELSE MaxInterval]
-----------------------------------------------------------------------------
(* The user, on the UI thread: all but Ok and StopMedia edit the settings  *)
(* of an open dialog in place.                                             *)
UiFree == ui = "running"
Edit == UiFree /\ edits < MaxEdits /\ edits' = edits + 1

SelectProvider(s) ==
  /\ Edit /\ slot # s
  /\ slot' = s
  /\ UNCHANGED <<url, pair, source, watch, inbox, tasks, unload, key>>

EditUrl ==
  /\ Edit /\ url # Typed
  /\ url' = Typed
  /\ UNCHANGED <<slot, pair, source, watch, inbox, tasks, unload, key>>

(* IngestPicked, of another ingest than the one resolved: the request is   *)
(* made here, and one that fails changes neither URL nor pair.             *)
PickIngest(i) ==
  /\ Edit /\ slot # Absent /\ pair[slot].id # i
  /\ url' = Url(slot, i, key)
  /\ pair' = [pair EXCEPT ![slot] = [id |-> i, url |-> url']]
  /\ UNCHANGED <<slot, source, watch, inbox, tasks, unload, key>>

(* IngestPicked when a dialog opens or rebuilds its widgets: a pick whose  *)
(* URL has been edited since is forgotten.                                 *)
DialogOpens(s) ==
  /\ UiFree /\ pair[s].id # Absent /\ pair[s].url # url
  /\ pair' = [pair EXCEPT ![s] = Unpicked]
  /\ UNCHANGED <<slot, url, source, watch, inbox, tasks, unload, budget>>

(* IrlSource::update with the settings as they are: the receiver starts,   *)
(* or starts again with the other URL.                                     *)
Update(u) ==
  /\ config_url' = u
  /\ running' = (u # Absent)
  /\ linked' = FALSE /\ frames' = 0

Ok ==
  /\ UiFree /\ (config_url # url \/ ~running)
  /\ Update(url)
  /\ UNCHANGED <<settings, watch, inbox, tasks, unload, budget>>

(* media_stop.                                                             *)
StopMedia ==
  /\ Edit /\ running
  /\ running' = FALSE /\ linked' = FALSE /\ frames' = 0
  /\ UNCHANGED <<settings, config_url, watch, inbox, tasks, unload, key>>
-----------------------------------------------------------------------------
(* The source's connection: a server admits the current key, and one that  *)
(* was admitted stays.  A read error tears it down and zeroes its counts.  *)
Link ==
  /\ running /\ ~linked /\ (config_url = Typed \/ config_url.key = key)
  /\ linked' = TRUE
  /\ UNCHANGED <<settings, config_url, running, frames, watch, inbox, tasks, unload, budget>>

Frame ==
  /\ linked /\ frames < MaxFrames
  /\ frames' = frames + 1
  /\ UNCHANGED <<settings, config_url, running, linked, watch, inbox, tasks, unload, budget>>

ReadError ==
  /\ linked
  /\ linked' = FALSE /\ frames' = 0
  /\ UNCHANGED <<settings, config_url, running, watch, inbox, tasks, unload, budget>>

(* The provider (external).                                                *)
Rotate ==
  /\ key < MaxKey /\ key' = key + 1
  /\ UNCHANGED <<settings, source, watch, inbox, tasks, unload, edits>>
-----------------------------------------------------------------------------
(* The watch thread.                                                       *)

ReadTask == [task |-> "read", pick |-> Absent, fresh |-> Absent]
WriteTask(p, fresh) == [task |-> "write", pick |-> p, fresh |-> fresh]
QueueUi(t) == Len(tasks) < MaxTasks /\ tasks' = Append(tasks, t)

(* scan_sources, on a timeout: the view of a source that should not be     *)
(* receiving is dropped.                                                   *)
scan_sources ==
  /\ pc = "waiting" /\ inbox = <<>>
  /\ LET r == IF watched = Absent THEN Default ELSE watched IN
     IF ~running THEN watched' = Absent /\ UNCHANGED tasks
     ELSE /\ watched' = poll(r, frames)
          /\ IF Asks(r, frames) THEN QueueUi(ReadTask) ELSE UNCHANGED tasks
  /\ UNCHANGED <<settings, source, pc, pick, inbox, unload, budget>>

(* Mutant: the queued requests are made first.                             *)
SkipsNone == FALSE

(* A message, and the look at WATCH_STOPPING before its request is begun.  *)
Skips == stopping

Receive ==
  /\ pc = "waiting" /\ inbox # <<>>
  /\ inbox' = Tail(inbox)
  /\ IF Head(inbox) = Stop THEN pc' = "ended" /\ UNCHANGED pick
     ELSE IF Skips THEN UNCHANGED <<pc, pick>>
     ELSE pc' = "begins" /\ pick' = Head(inbox)
  /\ UNCHANGED <<settings, source, watched, tasks, unload, budget>>

BeginRequest ==
  /\ pc = "begins"
  /\ pc' = "asking"
  /\ held_up' = IF ui = "running" THEN held_up ELSE held_up + 1
  /\ UNCHANGED <<settings, source, watched, pick, inbox, tasks, ui, stopping, budget>>

(* resolve_again: the provider answers with the key of that moment, or the *)
(* request fails.                                                          *)
Answered ==
  /\ pc = "asking"
  /\ pc' = "waiting" /\ pick' = Absent
  /\ LET fresh == Url(pick.slot, pick.id, key) IN
     IF fresh = pick.url THEN UNCHANGED <<watched, tasks>>
     ELSE /\ watched' = IF watched = Absent THEN Absent ELSE url_changed(watched)
          /\ QueueUi(WriteTask(pick, fresh))
  /\ UNCHANGED <<settings, source, inbox, unload, budget>>

Failed ==
  /\ pc = "asking"
  /\ pc' = "waiting" /\ pick' = Absent
  /\ UNCHANGED <<settings, source, watched, inbox, tasks, unload, budget>>
-----------------------------------------------------------------------------
(* The UI thread's tasks.                                                  *)

(* current_pick: Absent unless the source should be receiving and its URL  *)
(* is still what its pick resolved to.                                     *)
current_pick ==
  IF ~running \/ slot = Absent THEN Absent
  ELSE IF pair[slot].id = Absent \/ url = Absent \/ pair[slot].url # url THEN Absent
  ELSE [slot |-> slot, id |-> pair[slot].id, url |-> url, frames |-> frames]

ReadPick ==
  /\ UiFree /\ tasks # <<>> /\ Head(tasks).task = "read"
  /\ tasks' = Tail(tasks)
  /\ inbox' = IF current_pick = Absent THEN inbox ELSE Append(inbox, current_pick)
  /\ UNCHANGED <<settings, source, watch, unload, budget>>

(* Mutant: the answer is written without another look.                     *)
WriteAnyway(p) == current_pick # Absent

(* write_fresh_url.                                                        *)
Unchanged(p) == current_pick = p

write_fresh_url ==
  /\ UiFree /\ tasks # <<>> /\ Head(tasks).task = "write"
  /\ tasks' = Tail(tasks)
  /\ LET t == Head(tasks) IN
     IF Unchanged(t.pick)
     THEN /\ url' = t.fresh
          /\ pair' = [pair EXCEPT ![t.pick.slot].url = t.fresh]
          /\ Update(t.fresh)
     ELSE UNCHANGED <<url, pair, source>>
  /\ UNCHANGED <<slot, watch, inbox, unload, budget>>
-----------------------------------------------------------------------------
(* shutdown, on the UI thread, which runs no task from then on.            *)
BeginShutdown ==
  /\ ui = "running"
  /\ ui' = "stopping" /\ stopping' = TRUE
  /\ held_up' = IF pc = "asking" THEN 1 ELSE 0
  /\ UNCHANGED <<settings, source, watch, inbox, tasks, budget>>

(* Mutant: the sender is dropped and no message sent.                      *)
HangUp ==
  /\ ui = "stopping"
  /\ ui' = "joining"
  /\ UNCHANGED <<settings, source, watch, inbox, tasks, stopping, held_up, budget>>

SendStop ==
  /\ ui = "stopping"
  /\ ui' = "joining" /\ inbox' = Append(inbox, Stop)
  /\ UNCHANGED <<settings, source, watch, tasks, stopping, held_up, budget>>

Joined ==
  /\ ui = "joining" /\ pc = "ended"
  /\ ui' = "unloaded"
  /\ UNCHANGED <<settings, source, watch, inbox, tasks, stopping, held_up, budget>>

User == \/ \E s \in Slots \cup {Absent} : SelectProvider(s)
        \/ \E s \in Slots : DialogOpens(s)
        \/ \E i \in Ingests : PickIngest(i)
        \/ EditUrl \/ Ok \/ StopMedia
\* what the source and the provider do meets nobody once the unload begins
World == UiFree /\ (Link \/ Frame \/ ReadError \/ Rotate)
Watch == scan_sources \/ Receive \/ BeginRequest \/ Answered \/ Failed
Tasks == ReadPick \/ write_fresh_url
Shutdown == SendStop \/ Joined

WatchNext == User \/ World \/ Watch \/ Tasks \/ BeginShutdown \/ Shutdown

WatchSpec == WatchInit /\ [][WatchNext]_watch_vars

(* The watch's timeout comes round, requests end (their timeouts are the   *)
(* client's), and the UI thread gets to its tasks.  A provider asked for   *)
(* ever answers sometime.                                                  *)
WatchFairSpec ==
  /\ WatchSpec
  /\ WF_watch_vars(Watch) /\ WF_watch_vars(Tasks) /\ WF_watch_vars(Shutdown)
  /\ SF_watch_vars(Answered)
-----------------------------------------------------------------------------
WatchTypeOK ==
  /\ slot \in Slots \cup {Absent} /\ url \in Urls \cup {Typed, Absent}
  /\ pair \in [Slots -> [id : Ingests \cup {Absent}, url : Urls \cup {Absent}]]
  /\ config_url \in Urls \cup {Typed, Absent} /\ {running, linked, stopping} \subseteq BOOLEAN
  /\ frames \in 0..MaxFrames /\ key \in 0..MaxKey
  /\ watched = Absent \/ watched.outage = Absent
       \/ watched.outage \in [left : 0..MaxInterval \cup {First}, interval : Interval..MaxInterval]
  /\ pc \in {"waiting", "begins", "asking", "ended"}
  /\ ui \in {"running", "stopping", "joining", "unloaded"}
  /\ (linked => running) /\ (~linked => frames = 0)

(* The watch moves a URL only to a newer key of the ingest it is for: no   *)
(* answer that comes late replaces what the user or an earlier answer put  *)
(* there, and one edited by hand is never replaced.                        *)
OnlyFresher ==
  [][write_fresh_url /\ url' # url =>
       /\ url # Typed /\ url'.slot = url.slot /\ url'.id = url.id
       /\ url'.key > url.key]_watch_vars

(* The unload waits for one request at most, however many are queued.      *)
UnloadWaitsForOne == held_up <= 1

(* And it returns, although the tasks that hold a sender never run.        *)
UnloadReturns == ui = "stopping" ~> ui = "unloaded"

(* A rotated key recovers by itself: a source that should be receiving and *)
(* plays what its pick resolved to comes to have the provider's key.       *)
Picked == running /\ slot # Absent /\ url # Absent /\ pair[slot].url = url
RotatedKeyRecovers ==
  <>[](UiFree /\ Picked /\ ~linked) => <>[](url # Absent /\ url.key = key)
=============================================================================
