--------------------------- MODULE ProviderProofs ---------------------------
(***************************************************************************)
(* Proofs about the two threads that speak to a provider.  Of the URL      *)
(* watch: that an answer which comes late never replaces a URL by another  *)
(* than a newer one of its own pick, and that the unload waits for one     *)
(* request at most.  Of the sign-in: that it is ended by its own tab       *)
(* alone, and that a provider has one listener at most.                    *)
(***************************************************************************)
EXTENDS ProviderWatch, SignIn, SequenceTheorems, WellFoundedInduction, TLAPS

-----------------------------------------------------------------------------
(* The URL watch.                                                          *)

(* A URL that a pick of s and i resolved to, with a key there has been.    *)
For(u, s, i, n) == u \in Urls /\ u.slot = s /\ u.id = i /\ u.key <= n

SoundPicks(n) == {p \in Picks : For(p.url, p.slot, p.id, n)}

Answers(n) ==
  {t \in [task : {"write"}, pick : SoundPicks(n), fresh : Urls] :
     For(t.fresh, t.pick.slot, t.pick.id, n) /\ t.pick.url.key < t.fresh.key}

(* Where picks are, they are sound: in the settings, in the channel, with  *)
(* the watch, and in the tasks on the UI thread.                           *)
KeyInv == key \in 0..MaxKey /\ frames \in 0..MaxFrames

PairInv ==
  \A s \in Slots :
    pair[s].id # Absent => pair[s].id \in Ingests /\ For(pair[s].url, s, pair[s].id, key)

SettingsInv ==
  /\ slot \in Slots \cup {Absent}
  /\ pair \in [Slots -> [id : Ingests \cup {Absent}, url : Urls \cup {Absent}]]
  /\ PairInv

InboxInv == inbox \in Seq(SoundPicks(key) \cup {Stop})

AskedInv == pc \in {"begins", "asking"} => pick \in SoundPicks(key)

TasksInv == tasks \in Seq({ReadTask} \cup Answers(key))

(* Once WATCH_STOPPING is set no request is begun but one that had passed  *)
(* the look at it, and then none was under way.                            *)
UnloadInv ==
  /\ held_up \in {0, 1}
  /\ ui = "running" => held_up = 0 /\ ~stopping
  /\ ui # "running" => stopping
  /\ ui # "running" /\ pc = "begins" => held_up = 0

PickInv == KeyInv /\ SettingsInv /\ InboxInv /\ AskedInv /\ TasksInv

-----------------------------------------------------------------------------
(* A rotation takes nothing away.                                          *)
LEMMA LaterKeys ==
  ASSUME NEW n \in 0..MaxKey, NEW m \in 0..MaxKey, n <= m
  PROVE  /\ \A u, s, i : For(u, s, i, n) => For(u, s, i, m)
         /\ SoundPicks(n) \subseteq SoundPicks(m)
         /\ Answers(n) \subseteq Answers(m)
<1>1. \A u, s, i : For(u, s, i, n) => For(u, s, i, m)
  BY WatchAssumption DEF For, Urls
<1>2. SoundPicks(n) \subseteq SoundPicks(m)
  BY <1>1 DEF SoundPicks
<1>3. ASSUME NEW t \in Answers(n) PROVE t \in Answers(m)
  BY <1>1, <1>2 DEF Answers
<1> QED
  BY <1>1, <1>2, <1>3

(* What the settings say is picked is sound, and is not nothing.           *)
LEMMA CurrentPickIsSound ==
  ASSUME PickInv, current_pick # Absent
  PROVE  /\ current_pick \in SoundPicks(key) /\ running
         /\ current_pick = [slot |-> slot, id |-> pair[slot].id, url |-> url, frames |-> frames]
         /\ slot \in Slots /\ pair[slot].id # Absent /\ pair[slot].url = url
<1>1. /\ running /\ slot # Absent
      /\ pair[slot].id # Absent /\ pair[slot].url = url
      /\ current_pick = [slot |-> slot, id |-> pair[slot].id, url |-> url, frames |-> frames]
  BY DEF current_pick
<1>2. slot \in Slots /\ pair[slot].id \in Ingests /\ For(url, slot, pair[slot].id, key)
  BY <1>1 DEF PickInv, SettingsInv, PairInv
<1>3. current_pick \in Picks
  BY <1>1, <1>2 DEF PickInv, KeyInv, Picks, For
<1>4. For(current_pick.url, current_pick.slot, current_pick.id, key)
  BY <1>1, <1>2
<1> QED
  BY <1>1, <1>2, <1>3, <1>4 DEF SoundPicks

-----------------------------------------------------------------------------
LEMMA InitHolds == WatchInit => PickInv /\ UnloadInv
<1> SUFFICES ASSUME WatchInit PROVE PickInv /\ UnloadInv
  OBVIOUS
<1>1. For(url, slot, Saved, 0) /\ url \in Urls
  BY WatchAssumption DEF WatchInit, Url, Urls, For
<1>2. SettingsInv
  BY <1>1, WatchAssumption, NoneAssumption DEF WatchInit, SettingsInv, PairInv, Unpicked
<1>3. KeyInv /\ InboxInv /\ AskedInv /\ TasksInv
  BY WatchAssumption, EmptySeq DEF WatchInit, KeyInv, InboxInv, AskedInv, TasksInv
<1> QED
  BY <1>2, <1>3 DEF WatchInit, PickInv, UnloadInv

(* What the user does to the settings.                                     *)
LEMMA UserKeeps == PickInv /\ User => PickInv'
<1> SUFFICES ASSUME PickInv, User PROVE PickInv'
  OBVIOUS
<1>1. UNCHANGED <<pc, pick, inbox, tasks, key>> /\ frames' \in {0, frames}
  BY DEF User, SelectProvider, DialogOpens, PickIngest, EditUrl, Ok, StopMedia, Update,
         source, settings, watch, budget
<1>2. KeyInv' /\ InboxInv' /\ AskedInv' /\ TasksInv'
  BY <1>1, WatchAssumption DEF PickInv, KeyInv, InboxInv, AskedInv, TasksInv
<1>3. ASSUME NEW s \in Slots \cup {Absent}, SelectProvider(s) PROVE SettingsInv'
  BY <1>1, <1>3 DEF SelectProvider, source, budget, PickInv, SettingsInv, PairInv
<1>4. ASSUME NEW s \in Slots, DialogOpens(s) PROVE SettingsInv'
  BY <1>1, <1>4 DEF DialogOpens, Unpicked, PickInv, SettingsInv, PairInv
<1>5. ASSUME NEW i \in Ingests, PickIngest(i) PROVE SettingsInv'
  <2>1. slot \in Slots /\ slot' = slot /\ pair' = [pair EXCEPT ![slot] = [id |-> i, url |-> url']]
    BY <1>5 DEF PickIngest, PickInv, SettingsInv
  <2>2. For(url', slot, i, key)
    BY <1>5, <2>1 DEF PickIngest, Url, For, Urls, PickInv, KeyInv
  <2>3. pair' \in [Slots -> [id : Ingests \cup {Absent}, url : Urls \cup {Absent}]]
    BY <2>1, <2>2 DEF For, PickInv, SettingsInv
  <2>4. PairInv'
    BY <1>1, <1>5, <2>1, <2>2 DEF PickInv, SettingsInv, PairInv
  <2> QED BY <2>1, <2>3, <2>4 DEF SettingsInv
<1>6. ASSUME EditUrl \/ Ok \/ StopMedia PROVE SettingsInv'
  BY <1>1, <1>6 DEF EditUrl, Ok, StopMedia, settings, PickInv, SettingsInv, PairInv
<1>7. SettingsInv'
  BY <1>3, <1>4, <1>5, <1>6 DEF User
<1> QED
  BY <1>2, <1>7 DEF PickInv

LEMMA WorldKeeps == PickInv /\ World => PickInv'
<1> SUFFICES ASSUME PickInv, World PROVE PickInv'
  OBVIOUS
<1>1. UNCHANGED <<slot, pair, pc, pick, inbox, tasks>>
  BY DEF World, Link, Frame, ReadError, Rotate, settings, watch
<1>2. KeyInv' /\ key <= key'
  BY WatchAssumption
     DEF World, Link, Frame, ReadError, Rotate, source, budget, PickInv, KeyInv
<1>3. /\ \A u, s, i : For(u, s, i, key) => For(u, s, i, key')
      /\ SoundPicks(key) \subseteq SoundPicks(key') /\ Answers(key) \subseteq Answers(key')
  BY <1>2, LaterKeys DEF PickInv, KeyInv
<1>4. SettingsInv'
  BY <1>1, <1>3 DEF PickInv, SettingsInv, PairInv
<1>5. InboxInv'
  BY <1>1, <1>3, SeqMonotonic, SoundPicks(key) \cup {Stop} \subseteq SoundPicks(key') \cup {Stop}
     DEF PickInv, InboxInv
<1>6. TasksInv'
  BY <1>1, <1>3, SeqMonotonic, {ReadTask} \cup Answers(key) \subseteq {ReadTask} \cup Answers(key')
     DEF PickInv, TasksInv, ReadTask
<1>7. AskedInv'
  BY <1>1, <1>3 DEF PickInv, AskedInv
<1> QED
  BY <1>2, <1>4, <1>5, <1>6, <1>7 DEF PickInv

LEMMA WatchKeeps == PickInv /\ Watch => PickInv'
<1> SUFFICES ASSUME PickInv, Watch PROVE PickInv'
  OBVIOUS
<1>1. KeyInv' /\ SettingsInv' /\ key' = key
  BY DEF Watch, scan_sources, Receive, BeginRequest, Answered, Failed, settings, source, budget,
         PickInv, KeyInv, SettingsInv, PairInv
<1>2. CASE scan_sources
  <2>1. UNCHANGED <<pc, pick, inbox>> /\ (tasks' = tasks \/ tasks' = Append(tasks, ReadTask))
    BY <1>2 DEF scan_sources, QueueUi
  <2>2. TasksInv'
    BY <1>1, <2>1, AppendProperties DEF PickInv, TasksInv, ReadTask
  <2>3. InboxInv' /\ AskedInv'
    BY <1>1, <2>1 DEF PickInv, InboxInv, AskedInv
  <2> QED BY <1>1, <2>2, <2>3 DEF PickInv
<1>3. CASE Receive
  <2>1. inbox # <<>> /\ inbox' = Tail(inbox) /\ tasks' = tasks
    BY <1>3 DEF Receive
  <2>2. Head(inbox) \in SoundPicks(key) \cup {Stop} /\ inbox' \in Seq(SoundPicks(key) \cup {Stop})
    BY <2>1, HeadTailProperties DEF PickInv, InboxInv
  <2>3. AskedInv'
    BY <1>1, <1>3, <2>2 DEF Receive, AskedInv
  <2>4. InboxInv' /\ TasksInv'
    BY <1>1, <2>1, <2>2 DEF PickInv, InboxInv, TasksInv
  <2> QED BY <1>1, <2>3, <2>4 DEF PickInv
<1>4. CASE BeginRequest \/ Failed
  BY <1>1, <1>4 DEF BeginRequest, Failed, PickInv, InboxInv, AskedInv, TasksInv
<1>5. CASE Answered
  <2>1. pick \in SoundPicks(key) /\ inbox' = inbox /\ pc' = "waiting"
    BY <1>5 DEF Answered, PickInv, AskedInv
  <2> DEFINE fresh == Url(pick.slot, pick.id, key)
             answer == WriteTask(pick, fresh)
  <2>2. tasks' = tasks \/ (fresh # pick.url /\ tasks' = Append(tasks, answer))
    BY <1>5 DEF Answered, QueueUi
  <2>3. ASSUME fresh # pick.url PROVE answer \in Answers(key)
    <3>1. For(fresh, pick.slot, pick.id, key) /\ fresh.key = key
      BY <2>1 DEF SoundPicks, Picks, For, Url, Urls, PickInv, KeyInv
    <3>2. pick.url.key # key
      BY <2>1, <2>3 DEF SoundPicks, Picks, For, Url, Urls
    <3>3. pick.url.key < fresh.key
      BY <2>1, <3>1, <3>2 DEF SoundPicks, For, Urls, PickInv, KeyInv
    <3> HIDE DEF fresh
    <3> QED BY <2>1, <3>1, <3>3 DEF Answers, WriteTask, For
  <2> HIDE DEF answer
  <2>4. TasksInv'
    BY <1>1, <2>2, <2>3, AppendProperties DEF PickInv, TasksInv
  <2>5. InboxInv' /\ AskedInv'
    BY <1>1, <2>1 DEF PickInv, InboxInv, AskedInv
  <2> QED BY <1>1, <2>4, <2>5 DEF PickInv
<1> QED
  BY <1>2, <1>3, <1>4, <1>5 DEF Watch

(* A write that is made finds the settings as the request had them.        *)
LEMMA WriteIsOfItsPick ==
  ASSUME PickInv, write_fresh_url
  PROVE  /\ UNCHANGED <<slot, key, pc, pick, inbox>>
         /\ tasks # <<>> /\ tasks' = Tail(tasks)
         /\ \/ UNCHANGED <<url, pair, frames>>
            \/ LET t == Head(tasks) IN
               /\ t \in Answers(key) /\ t.pick.slot = slot /\ slot \in Slots
               /\ t.pick.url = url /\ t.pick.id = pair[slot].id
               /\ url' = t.fresh /\ pair' = [pair EXCEPT ![slot].url = t.fresh]
               /\ frames' = 0
<1>1. /\ tasks # <<>> /\ Head(tasks).task = "write" /\ tasks' = Tail(tasks)
      /\ UNCHANGED <<slot, key, pc, pick, inbox>>
  BY DEF write_fresh_url, watch, budget
<1>2. Head(tasks) \in Answers(key)
  <2>1. Head(tasks) \in {ReadTask} \cup Answers(key)
    BY <1>1, HeadTailProperties DEF PickInv, TasksInv
  <2> QED BY <1>1, <2>1 DEF ReadTask
<1>3. CASE ~Unchanged(Head(tasks).pick)
  BY <1>1, <1>3 DEF write_fresh_url, source
<1>4. CASE Unchanged(Head(tasks).pick)
  <2>1. current_pick = Head(tasks).pick /\ Head(tasks).pick \in Picks
    BY <1>2, <1>4 DEF Unchanged, Answers, SoundPicks
  <2>2. /\ slot \in Slots
        /\ Head(tasks).pick = [slot |-> slot, id |-> pair[slot].id, url |-> url, frames |-> frames]
    BY <2>1, CurrentPickIsSound, NoneAssumption
  <2>3. /\ url' = Head(tasks).fresh /\ frames' = 0
        /\ pair' = [pair EXCEPT ![Head(tasks).pick.slot].url = Head(tasks).fresh]
    BY <1>4 DEF write_fresh_url, Update
  <2>4. /\ Head(tasks).pick.slot = slot /\ Head(tasks).pick.url = url
        /\ Head(tasks).pick.id = pair[slot].id
    BY <2>2
  <2>5. pair' = [pair EXCEPT ![slot].url = Head(tasks).fresh]
    BY <2>3, <2>4
  <2> DEFINE t == Head(tasks)
  <2> HIDE DEF t
  <2>6. /\ t \in Answers(key) /\ t.pick.slot = slot /\ slot \in Slots
        /\ t.pick.url = url /\ t.pick.id = pair[slot].id
        /\ url' = t.fresh /\ pair' = [pair EXCEPT ![slot].url = t.fresh]
        /\ frames' = 0
    BY <1>2, <2>2, <2>3, <2>4, <2>5 DEF t
  <2> QED BY <1>1, <2>6 DEF t
<1> QED
  BY <1>3, <1>4

LEMMA TasksKeep == PickInv /\ Tasks => PickInv'
<1> SUFFICES ASSUME PickInv, Tasks PROVE PickInv'
  OBVIOUS
<1>1. tasks # <<>> /\ tasks' = Tail(tasks) /\ key' = key
  BY DEF Tasks, ReadPick, write_fresh_url, budget
<1>2. TasksInv'
  BY <1>1, HeadTailProperties DEF PickInv, TasksInv
<1>3. CASE ReadPick
  <2>1. /\ UNCHANGED <<slot, pair, frames, pc, pick>>
        /\ \/ inbox' = inbox
           \/ current_pick # Absent /\ inbox' = Append(inbox, current_pick)
    BY <1>3 DEF ReadPick, settings, source, watch
  <2> DEFINE Messages == SoundPicks(key) \cup {Stop}
  <2>2. InboxInv'
    <3>1. inbox \in Seq(Messages)
      BY DEF PickInv, InboxInv
    <3>2. CASE inbox' = Append(inbox, current_pick) /\ current_pick # Absent
      <4>1. current_pick \in Messages
        BY <3>2, CurrentPickIsSound
      <4> HIDE DEF Messages
      <4>2. inbox' \in Seq(Messages)
        BY <3>1, <3>2, <4>1, AppendProperties
      <4> QED BY <1>1, <4>2 DEF InboxInv, Messages, SoundPicks
    <3>3. CASE inbox' = inbox
      BY <1>1, <3>1, <3>3 DEF InboxInv, SoundPicks
    <3> QED BY <2>1, <3>2, <3>3
  <2>3. KeyInv' /\ SettingsInv' /\ AskedInv'
    BY <1>1, <2>1 DEF PickInv, KeyInv, SettingsInv, PairInv, AskedInv
  <2> QED BY <1>2, <2>2, <2>3 DEF PickInv
<1>4. CASE write_fresh_url
  <2>1. InboxInv' /\ AskedInv'
    BY <1>4, WriteIsOfItsPick DEF PickInv, InboxInv, AskedInv
  <2>2. CASE UNCHANGED <<url, pair, frames>>
    BY <1>2, <1>4, <2>1, <2>2, WriteIsOfItsPick DEF PickInv, KeyInv, SettingsInv, PairInv
  <2>3. CASE ~UNCHANGED <<url, pair, frames>>
    <3> DEFINE fresh == Head(tasks).fresh
    <3>1. /\ slot \in Slots /\ slot' = slot /\ key' = key /\ frames' = 0
          /\ pair' = [pair EXCEPT ![slot].url = fresh] /\ For(fresh, slot, pair[slot].id, key)
      BY <1>4, <2>3, WriteIsOfItsPick DEF Answers
    <3> HIDE DEF fresh
    <3>2. pair' \in [Slots -> [id : Ingests \cup {Absent}, url : Urls \cup {Absent}]]
      BY <3>1 DEF For, PickInv, SettingsInv
    <3>3. PairInv'
      BY <3>1 DEF PickInv, SettingsInv, PairInv
    <3>4. KeyInv'
      BY <3>1, WatchAssumption DEF PickInv, KeyInv
    <3> QED BY <1>2, <2>1, <3>1, <3>2, <3>3, <3>4 DEF PickInv, SettingsInv
  <2> QED BY <2>2, <2>3
<1> QED
  BY <1>3, <1>4 DEF Tasks

LEMMA ShutdownKeeps == PickInv /\ (BeginShutdown \/ Shutdown) => PickInv'
<1> SUFFICES ASSUME PickInv, BeginShutdown \/ Shutdown PROVE PickInv'
  OBVIOUS
<1>1. /\ UNCHANGED <<slot, pair, frames, pc, pick, tasks, key>>
      /\ inbox' = inbox \/ inbox' = Append(inbox, Stop)
  BY DEF BeginShutdown, Shutdown, SendStop, Joined, settings, source, watch, budget
<1>2. InboxInv'
  BY <1>1, AppendProperties DEF PickInv, InboxInv
<1>3. KeyInv' /\ SettingsInv' /\ AskedInv' /\ TasksInv'
  BY <1>1 DEF PickInv, KeyInv, SettingsInv, PairInv, AskedInv, TasksInv
<1> QED
  BY <1>2, <1>3 DEF PickInv

LEMMA StutterKeeps == PickInv /\ UNCHANGED watch_vars => PickInv'
  BY DEF watch_vars, settings, source, watch, budget, PickInv, KeyInv, SettingsInv, PairInv, InboxInv,
         AskedInv, TasksInv

LEMMA PicksAreSound == WatchSpec => []PickInv
<1>1. PickInv /\ [WatchNext]_watch_vars => PickInv'
  BY UserKeeps, WorldKeeps, WatchKeeps, TasksKeep, ShutdownKeeps, StutterKeeps DEF WatchNext
<1> QED
  BY <1>1, InitHolds, PTL DEF WatchSpec

-----------------------------------------------------------------------------
(* An answer, however late, replaces a URL only by a newer one of the same *)
(* ingest, and one edited by hand is left alone (write_fresh_url).         *)
THEOREM AnswersAreFresher == WatchSpec => OnlyFresher
<1>1. ASSUME PickInv, write_fresh_url, url' # url
      PROVE  /\ url # Typed /\ url'.slot = url.slot /\ url'.id = url.id
             /\ url'.key > url.key
  <2> DEFINE t == Head(tasks)
  <2>1. t \in Answers(key) /\ t.pick.url = url /\ url' = t.fresh
    BY <1>1, WriteIsOfItsPick
  <2>2. /\ t.pick.slot \in Slots /\ For(url, t.pick.slot, t.pick.id, key)
        /\ For(url', t.pick.slot, t.pick.id, key) /\ url.key < url'.key
    BY <2>1 DEF Answers, SoundPicks, Picks
  <2>3. url # Typed
    BY <2>2, NoneAssumption DEF For, Typed
  <2> QED BY <2>2, <2>3 DEF For, Urls
<1>2. PickInv /\ [WatchNext]_watch_vars =>
        [write_fresh_url /\ url' # url =>
           /\ url # Typed /\ url'.slot = url.slot /\ url'.id = url.id
           /\ url'.key > url.key]_watch_vars
  BY <1>1
<1> QED
  BY <1>2, PicksAreSound, PTL DEF WatchSpec, OnlyFresher

(* The unload waits for the one request that was under way or about to be, *)
(* whatever is queued (shutdown, watch_loop).                              *)
THEOREM UnloadWaits == WatchSpec => []UnloadWaitsForOne
<1>1. UnloadInv /\ [WatchNext]_watch_vars => UnloadInv'
  <2> SUFFICES ASSUME UnloadInv, [WatchNext]_watch_vars PROVE UnloadInv'
    OBVIOUS
  <2>1. CASE User
    BY <2>1 DEF User, SelectProvider, DialogOpens, PickIngest, EditUrl, Ok, StopMedia, watch, unload, UnloadInv
  <2>2. CASE World
    BY <2>2 DEF World, Link, Frame, ReadError, Rotate, watch, unload, UnloadInv
  <2>3. CASE scan_sources \/ Answered \/ Failed \/ Tasks
    BY <2>3 DEF scan_sources, Answered, Failed, Tasks, ReadPick, write_fresh_url, watch, unload, UnloadInv
  <2>4. CASE Receive
    BY <2>4 DEF Receive, Skips, unload, UnloadInv
  <2>5. CASE BeginRequest
    BY <2>5 DEF BeginRequest, UnloadInv
  <2>6. CASE BeginShutdown
    BY <2>6 DEF BeginShutdown, watch, UnloadInv
  <2>7. CASE Shutdown
    BY <2>7 DEF Shutdown, SendStop, Joined, watch, UnloadInv
  <2>8. CASE UNCHANGED watch_vars
    BY <2>8 DEF watch_vars, watch, unload, UnloadInv
  <2> QED BY <2>1, <2>2, <2>3, <2>4, <2>5, <2>6, <2>7, <2>8 DEF WatchNext, Watch
<1>2. UnloadInv => UnloadWaitsForOne
  BY DEF UnloadInv, UnloadWaitsForOne
<1> QED
  BY <1>1, <1>2, InitHolds, PTL DEF WatchSpec

-----------------------------------------------------------------------------
(* The sign-in.                                                            *)

(* A thread that has bound a port, one whose tab may be open, and one that *)
(* uses what it told that tab.                                             *)
Holding == {"open", "wait", "serve", "exchange", "list", "store"}
Using   == Holding \ {"open"}
Opened  == Using \cup {"returned", "ended"}

Challenges == {challenge_for(n) : n \in Numbers}
Code == [provider : Providers, client : Client, port : PORTS, challenge : Challenges]
Tab  == [provider : Providers, client : Client, port : PORTS, state : Numbers,
         challenge : Challenges]

Thread ==
  [pc : Running \cup {"none", "returned", "ended"}, provider : Providers \cup {None},
   registers : BOOLEAN, client : Client, port : PORTS \cup {0}, left : Nat,
   conn : Request \cup {None}, code : Nat, denied : BOOLEAN]

Sound(r) ==
  /\ r \in Thread
  /\ r.pc # "none" => r.provider \in Providers
  /\ r.pc \in Holding => r.port \in PORTS
  /\ r.pc = "serve" => r.conn \in Request

ThreadsTyped == worker \in [Numbers -> Thread] /\ \A n \in Numbers : Sound(worker[n])

RegistryTyped ==
  /\ entries \in [Ids -> [base : Providers \cup {None}, client : Client, session : 0..MaxSignIns]]
  /\ signing_in \subseteq Providers /\ clicks \in 0..MaxSignIns

PortsTyped == bound \in [PORTS -> 0..Other] /\ backlog \in [PORTS -> Seq(Request)]

OutsideTyped ==
  /\ tabs \subseteq Tab /\ redirects \subseteq Request /\ declined \subseteq Numbers
  /\ codes \in Seq(Code) /\ registered \in [Providers -> Nat]

TInv == ThreadsTyped /\ RegistryTyped /\ PortsTyped /\ OutsideTyped

(* A sign-in that is not over has the slot of its provider to itself.      *)
Active(n) == worker[n].pc \notin {"none", "ended"}

SlotInv ==
  /\ \A n \in Numbers : n > clicks => worker[n].pc = "none"
  /\ \A n \in Numbers : Active(n) => worker[n].provider \in signing_in
  /\ \A m, n \in Numbers : m # n /\ Active(m) /\ Active(n)
                             => worker[m].provider # worker[n].provider

(* Who listens on a port is at work and means that port.                   *)
PortInv ==
  \A q \in PORTS, n \in Numbers :
    bound[q] = n => worker[n].pc \in Holding /\ worker[n].port = q

(* What was issued to sign-in n: its own challenge, and, as long as it     *)
(* runs, its own client and port.                                          *)
Ours(n, x) ==
  /\ worker[n].pc \in Opened
  /\ x.challenge = challenge_for(n)
  /\ worker[n].pc \in Using =>
       /\ x.provider = worker[n].provider
       /\ x.client = worker[n].client
       /\ x.port = worker[n].port

(* A request speaks for the sign-in whose state it carries: it was         *)
(* declined, or its code was issued to it.                                 *)
Genuine ==
  {r \in Request :
     /\ r.error => r.state \in declined
     /\ ~r.error /\ r.code # 0 =>
          r.state \in Numbers /\ r.code \in 1..Len(codes) /\ Ours(r.state, codes[r.code])}

Redeeming == {"exchange", "list", "store"}

Addressed(n) ==
  /\ worker[n].pc = "serve" => worker[n].conn \in Genuine
  /\ worker[n].pc \in Redeeming =>
       worker[n].code \in 1..Len(codes) /\ Ours(n, codes[worker[n].code])
  /\ worker[n].denied => n \in declined

TabInv     == \A t \in tabs : Ours(t.state, t)
RequestInv == /\ redirects \subseteq Genuine
              /\ \A q \in PORTS : \A k \in 1..Len(backlog[q]) : backlog[q][k] \in Genuine
ThreadInv  == \A n \in Numbers : Addressed(n)

OwnInv == TabInv /\ RequestInv /\ ThreadInv

-----------------------------------------------------------------------------
(* There is a first free port if there is one at all.                      *)
LEMMA LeastPort ==
  ASSUME NEW S \in SUBSET PORTS, S # {}
  PROVE  (CHOOSE q \in S : \A r \in S : q <= r) \in S
<1> DEFINE Below == {p \in Nat \X Nat : p[1] < p[2]}
<1>1. IsWellFoundedOn(Below, Nat)
  BY NatLessThanWellFounded, Zenon DEF OpToRel
<1> HIDE DEF Below
<1>2. S \subseteq Nat
  BY PortsAssumption DEF PORTS
<1>3. PICK q \in S : \A r \in S : <<r, q>> \notin Below
  BY <1>1, <1>2, WFMin
<1>4. \A r \in S : ~ (r < q)
  BY <1>2, <1>3 DEF Below
<1>5. \A r \in S : q <= r
  BY <1>2, <1>4
<1> QED
  BY <1>5

(* One thread changes, to something sound.                                 *)
LEMMA ThreadBecomes ==
  ASSUME TInv, NEW n \in Numbers, NEW r, Sound(r), worker' = [worker EXCEPT ![n] = r]
  PROVE  ThreadsTyped' /\ worker'[n] = r /\ \A m \in Numbers \ {n} : worker'[m] = worker[m]
<1>1. worker'[n] = r /\ \A m \in Numbers \ {n} : worker'[m] = worker[m]
  BY DEF TInv, ThreadsTyped
<1>2. \A m \in Numbers : Sound(worker'[m])
  BY <1>1 DEF TInv, ThreadsTyped
<1>3. worker' \in [Numbers -> Thread]
  BY DEF TInv, ThreadsTyped, Sound
<1> QED
  BY <1>1, <1>2, <1>3 DEF ThreadsTyped, Sound

(* What a step of sign-in n does to it and to no other.                    *)
Shift(n) ==
  /\ \A m \in Numbers \ {n} : worker'[m] = worker[m]
  /\ Active(n) /\ worker'[n].pc # "none" /\ worker'[n].provider = worker[n].provider
  /\ worker[n].pc \in Opened => worker'[n].pc \in Opened
  /\ worker[n].pc \in Opened /\ worker'[n].pc \in Using =>
       /\ worker[n].pc \in Using
       /\ worker'[n].client = worker[n].client /\ worker'[n].port = worker[n].port

(* Every way out of run_sign_in.                                           *)
LEMMA ReturnedIsSound ==
  ASSUME TInv, NEW n \in Numbers, Active(n)
  PROVE  /\ Sound(Returned(n))
         /\ Returned(n).pc = "returned" /\ Returned(n).provider = worker[n].provider
         /\ Returned(n).denied = FALSE
<1>1. worker[n].provider \in Providers
  BY DEF TInv, ThreadsTyped, Sound, Active
<1> DEFINE r == Returned(n)
<1>2. /\ r.pc = "returned" /\ r.provider = worker[n].provider /\ r.registers = FALSE
      /\ r.client = None /\ r.port = 0 /\ r.left = 0 /\ r.conn = None /\ r.code = 0
      /\ r.denied = FALSE
  BY DEF Returned, NoWorker
<1>3. NoWorker \in Thread
  BY DEF NoWorker, Thread, Client
<1>4. r \in Thread
  BY <1>1, <1>3 DEF Returned, Thread
<1> HIDE DEF r
<1>5. Sound(r)
  BY <1>1, <1>2, <1>4 DEF Sound, Holding
<1> QED
  BY <1>2, <1>5 DEF r

LEMMA ReturnKeeps ==
  ASSUME TInv, NEW n \in Numbers, Active(n), Return(n)
  PROVE  /\ ThreadsTyped' /\ PortsTyped' /\ Shift(n)
         /\ worker'[n].pc = "returned" /\ worker'[n].denied = FALSE
         /\ \A q \in PORTS : IF bound[q] = n THEN bound'[q] = Free /\ backlog'[q] = <<>>
                             ELSE bound'[q] = bound[q] /\ backlog'[q] = backlog[q]
<1>1. Sound(Returned(n)) /\ Returned(n).pc = "returned" /\ Returned(n).denied = FALSE
      /\ Returned(n).provider = worker[n].provider
  BY ReturnedIsSound
<1>2. /\ ThreadsTyped' /\ worker'[n] = Returned(n)
      /\ \A m \in Numbers \ {n} : worker'[m] = worker[m]
  BY <1>1, ThreadBecomes DEF Return
<1>3. Shift(n)
  BY <1>1, <1>2 DEF Shift, Using, Opened, Holding
<1>4. /\ bound' = [q \in PORTS |-> IF bound[q] = n THEN Free ELSE bound[q]]
      /\ backlog' = [q \in PORTS |-> IF bound[q] = n THEN <<>> ELSE backlog[q]]
  BY DEF Return
<1>5. PortsTyped'
  <2>1. Free \in 0..Other /\ <<>> \in Seq(Request)
    BY BoundsAssumption, EmptySeq DEF Free, Other
  <2> QED BY <1>4, <2>1 DEF TInv, PortsTyped
<1> QED
  BY <1>1, <1>2, <1>3, <1>4, <1>5

(* The thread goes to another place and is otherwise as it was.            *)
LEMMA GoToKeeps ==
  ASSUME TInv, NEW n \in Numbers, Active(n), NEW next \in Running \cup {"returned", "ended"},
         GoTo(n, next), next # "serve", next \in Holding => worker[n].pc \in Holding,
         worker[n].pc \in Opened => next \in Opened,
         worker[n].pc \in Opened /\ next \in Using => worker[n].pc \in Using
  PROVE  /\ ThreadsTyped' /\ Shift(n)
         /\ worker'[n] = [worker[n] EXCEPT !.pc = next]
<1> DEFINE r == [worker[n] EXCEPT !.pc = next]
<1>1. worker[n] \in Thread /\ Sound(worker[n]) /\ worker[n].pc # "none"
  BY DEF TInv, ThreadsTyped, Active
<1>2. r \in Thread /\ r.pc = next /\ r.provider = worker[n].provider /\ r.port = worker[n].port
      /\ r.client = worker[n].client
  BY <1>1 DEF Thread, Running
<1>3. worker' = [worker EXCEPT ![n] = r]
  BY DEF GoTo
<1> HIDE DEF r
<1>4. Sound(r)
  BY <1>1, <1>2 DEF Sound
<1>5. /\ ThreadsTyped' /\ worker'[n] = r
      /\ \A m \in Numbers \ {n} : worker'[m] = worker[m]
  BY <1>3, <1>4, ThreadBecomes
<1>6. Shift(n)
  BY <1>1, <1>2, <1>5 DEF Shift, Running
<1> QED
  BY <1>5, <1>6 DEF r

-----------------------------------------------------------------------------
(* Types, and what each step of a sign-in does to its own thread.          *)
LEMMA TInit == Init => TInv
<1> SUFFICES ASSUME Init PROVE TInv
  OBVIOUS
<1> USE BoundsAssumption
<1>1. Sound(NoWorker)
  BY DEF NoWorker, Sound, Thread, Client, Holding
<1>2. ThreadsTyped
  BY <1>1 DEF Init, ThreadsTyped, Sound
<1>3. RegistryTyped
  BY DEF Init, RegistryTyped, NoEntry, Client
<1>4. PortsTyped
  BY EmptySeq DEF Init, PortsTyped, Other, Free
<1>5. OutsideTyped
  BY EmptySeq DEF Init, OutsideTyped
<1> QED
  BY <1>2, <1>3, <1>4, <1>5 DEF TInv

LEMMA DiscoverStep ==
  ASSUME TInv, NEW n \in Numbers, NEW d \in Documents, Discover(n, d)
  PROVE  TInv' /\ Shift(n) /\ worker[n].pc = "documents" /\ worker'[n].pc \in {"client", "returned"}
         /\ worker'[n].denied \in {worker[n].denied, FALSE}
<1> DEFINE p == worker[n].provider
           previous == entries[IdOf[p]]
           client == IF d.client_id THEN <<p, 0>> ELSE previous.client
           r == IF ~fetch(d) THEN [worker[n] EXCEPT !.pc = "returned"]
                ELSE IF at_least(PluginVersion, d.min_plugin_version)
                     THEN [worker[n] EXCEPT !.pc = "client", !.client = client,
                                            !.registers = d.registration_endpoint # None]
                     ELSE Returned(n)
<1>1. worker[n] \in Thread /\ Sound(worker[n]) /\ worker[n].pc = "documents" /\ Active(n)
      /\ p \in Providers /\ IdOf[p] \in Ids
  BY DEF Discover, TInv, ThreadsTyped, Sound, Active, Ids
<1>2. previous.client \in Client /\ previous.session \in 0..MaxSignIns /\ client \in Client
  BY <1>1 DEF TInv, RegistryTyped, Client
<1>3. worker' = [worker EXCEPT ![n] = r]
  BY DEF Discover, GoTo
<1> HIDE DEF client
<1>4. r \in Thread /\ r.pc \in {"client", "returned"} /\ r.provider = p
      /\ r.denied \in {worker[n].denied, FALSE}
  <2>1. CASE ~fetch(d)
    BY <1>1, <2>1 DEF Thread
  <2>2. CASE fetch(d) /\ at_least(PluginVersion, d.min_plugin_version)
    BY <1>1, <1>2, <2>2 DEF Thread, Running
  <2>3. CASE fetch(d) /\ ~at_least(PluginVersion, d.min_plugin_version)
    BY <1>1, <2>3, ReturnedIsSound DEF Sound
  <2> QED BY <2>1, <2>2, <2>3
<1> HIDE DEF r
<1>5. Sound(r)
  BY <1>1, <1>4 DEF Sound, Holding
<1>6. /\ ThreadsTyped' /\ worker'[n] = r
      /\ \A m \in Numbers \ {n} : worker'[m] = worker[m]
  BY <1>3, <1>5, ThreadBecomes
<1>7. Shift(n)
  BY <1>1, <1>4, <1>6 DEF Shift, Opened, Using, Holding
<1>8. RegistryTyped'
  <2>1. [base |-> p, client |-> client,
         session |-> IF previous.base = p THEN previous.session ELSE 0]
          \in [base : Providers \cup {None}, client : Client, session : 0..MaxSignIns]
    BY <1>1, <1>2, BoundsAssumption
  <2> QED
    BY <1>1, <2>1 DEF Discover, TInv, RegistryTyped, registry, client
<1>9. PortsTyped' /\ OutsideTyped'
  BY DEF Discover, ports, browser, server, TInv, PortsTyped, OutsideTyped
<1> QED
  BY <1>1, <1>4, <1>6, <1>7, <1>8, <1>9 DEF TInv

(* What set_client_id leaves in the entries.                               *)
LEMMA ClientIsSet ==
  ASSUME TInv, NEW i \in Ids, NEW c \in Client, set_client_id(i, c)
  PROVE  entries' \in [Ids -> [base : Providers \cup {None}, client : Client,
                               session : 0..MaxSignIns]]
BY DEF set_client_id, TInv, RegistryTyped

LEMMA ClientStep ==
  ASSUME TInv, NEW n \in Numbers, Register(n) \/ KnownClient(n)
  PROVE  TInv' /\ Shift(n) /\ worker[n].pc = "client" /\ worker'[n].pc \in {"bind", "returned"}
         /\ worker'[n].denied = worker[n].denied
<1> DEFINE p == worker[n].provider
           new == <<p, registered[p] + 1>>
<1>1. worker[n] \in Thread /\ Sound(worker[n]) /\ worker[n].pc = "client" /\ Active(n)
      /\ p \in Providers /\ IdOf[p] \in Ids
  BY DEF Register, KnownClient, TInv, ThreadsTyped, Sound, Active, Ids
<1>2. new \in Client
  BY <1>1 DEF TInv, OutsideTyped, Client
<1>3. PICK r : /\ worker' = [worker EXCEPT ![n] = r]
               /\ r \in {[worker[n] EXCEPT !.client = new, !.pc = "bind"],
                         [worker[n] EXCEPT !.pc = "returned"], [worker[n] EXCEPT !.pc = "bind"]}
  BY DEF Register, KnownClient, GoTo
<1>4. r \in Thread /\ r.pc \in {"bind", "returned"} /\ r.provider = p
      /\ r.denied = worker[n].denied
  <2>1. CASE r = [worker[n] EXCEPT !.client = new, !.pc = "bind"]
    <3> HIDE DEF new
    <3> QED BY <1>1, <1>2, <2>1 DEF Thread, Running
  <2>2. CASE r = [worker[n] EXCEPT !.pc = "returned"]
    BY <1>1, <2>2 DEF Thread
  <2>3. CASE r = [worker[n] EXCEPT !.pc = "bind"]
    BY <1>1, <2>3 DEF Thread, Running
  <2> QED BY <1>3, <2>1, <2>2, <2>3
<1>5. Sound(r)
  BY <1>1, <1>4 DEF Sound, Holding
<1>6. /\ ThreadsTyped' /\ worker'[n] = r
      /\ \A m \in Numbers \ {n} : worker'[m] = worker[m]
  BY <1>3, <1>5, ThreadBecomes
<1>7. Shift(n)
  BY <1>1, <1>4, <1>6 DEF Shift, Opened, Using, Holding
<1>8. RegistryTyped'
  <2>1. UNCHANGED <<signing_in, clicks>>
        /\ (entries' = entries \/ \E c \in Client : set_client_id(IdOf[p], c))
    BY <1>1, <1>2 DEF Register, KnownClient, registry, Thread
  <2> QED
    BY <1>1, <2>1, ClientIsSet DEF TInv, RegistryTyped
<1>9. PortsTyped' /\ OutsideTyped'
  <2>1. UNCHANGED <<bound, backlog, tabs, redirects, declined, codes>>
        /\ (registered' = registered \/ registered' = [registered EXCEPT ![p] = @ + 1])
    BY DEF Register, KnownClient, ports, browser, server
  <2> QED BY <1>1, <2>1 DEF TInv, PortsTyped, OutsideTyped
<1> QED
  BY <1>1, <1>4, <1>6, <1>7, <1>8, <1>9 DEF TInv

LEMMA BindStep ==
  ASSUME TInv, NEW n \in Numbers, Bind(n)
  PROVE  /\ TInv' /\ Shift(n) /\ worker[n].pc = "bind"
         /\ \/ Return(n)
            \/ /\ worker'[n].pc = "open" /\ backlog' = backlog
               /\ worker'[n].denied = worker[n].denied
               /\ \E q \in PORTS : /\ bound' = [bound EXCEPT ![q] = n]
                                   /\ worker'[n].port = q
<1> DEFINE open == {q \in PORTS : bound[q] = Free}
           first == CHOOSE q \in open : \A s \in open : q <= s
           r == [worker[n] EXCEPT !.pc = "open", !.port = first]
<1>1. worker[n] \in Thread /\ Sound(worker[n]) /\ worker[n].pc = "bind" /\ Active(n)
  BY DEF Bind, TInv, ThreadsTyped, Sound, Active
<1>2. RegistryTyped' /\ OutsideTyped'
  BY DEF Bind, registry, browser, server, TInv, RegistryTyped, OutsideTyped
<1>3. CASE open = {}
  <2>1. Return(n)
    BY <1>3 DEF Bind
  <2> QED BY <1>1, <1>2, <2>1, ReturnKeeps DEF TInv
<1>4. CASE open # {}
  <2>1. first \in PORTS
    <3>1. open \in SUBSET PORTS
      OBVIOUS
    <3> HIDE DEF open
    <3>2. first \in open
      BY <1>4, <3>1, LeastPort
    <3> QED BY <3>1, <3>2
  <2>2. worker' = [worker EXCEPT ![n] = r] /\ bound' = [bound EXCEPT ![first] = n]
        /\ backlog' = backlog
    BY <1>4 DEF Bind
  <2> HIDE DEF first
  <2>3. r \in Thread /\ r.pc = "open" /\ r.provider = worker[n].provider /\ r.port = first
        /\ r.denied = worker[n].denied
    BY <1>1, <2>1 DEF Thread, Running
  <2> HIDE DEF r
  <2>4. Sound(r)
    BY <1>1, <2>1, <2>3 DEF Sound, Holding
  <2>5. /\ ThreadsTyped' /\ worker'[n] = r
        /\ \A m \in Numbers \ {n} : worker'[m] = worker[m]
    BY <2>2, <2>4, ThreadBecomes
  <2>6. Shift(n)
    BY <1>1, <2>3, <2>5 DEF Shift, Opened, Using, Holding
  <2>7. PortsTyped'
    BY <2>1, <2>2, BoundsAssumption DEF TInv, PortsTyped, Numbers, Other
  <2> QED BY <1>1, <1>2, <2>1, <2>2, <2>3, <2>5, <2>6, <2>7 DEF TInv
<1> QED
  BY <1>3, <1>4

LEMMA OpenBrowserStep ==
  ASSUME TInv, NEW n \in Numbers, OpenBrowser(n)
  PROVE  /\ TInv' /\ Shift(n) /\ worker[n].pc = "open"
         /\ \/ Return(n) /\ tabs' = tabs
            \/ /\ worker'[n].pc = "wait" /\ UNCHANGED ports
               /\ \E t \in Tab : tabs' = tabs \cup {t} /\ Ours(t.state, t)'
               /\ worker'[n].port = worker[n].port /\ worker'[n].denied = worker[n].denied
<1> DEFINE tab == AuthorizeRequest(n)
           r == [worker[n] EXCEPT !.pc = "wait", !.left = Timeout]
<1>1. worker[n] \in Thread /\ Sound(worker[n]) /\ worker[n].pc = "open" /\ Active(n)
      /\ worker[n].port \in PORTS /\ worker[n].provider \in Providers
  BY DEF OpenBrowser, TInv, ThreadsTyped, Sound, Active, Holding
<1>2. RegistryTyped'
  BY DEF OpenBrowser, registry, TInv, RegistryTyped
<1>3. /\ tab \in Tab /\ tab.state = n /\ tab.challenge = challenge_for(n)
      /\ tab.provider = worker[n].provider /\ tab.client = worker[n].client
      /\ tab.port = worker[n].port
  BY <1>1 DEF AuthorizeRequest, Tab, Thread, nonce, new_pkce, Challenges
<1> HIDE DEF tab
<1>4. CASE Return(n) /\ tabs' = tabs
  <2>1. OutsideTyped'
    BY <1>4 DEF OpenBrowser, server, TInv, OutsideTyped
  <2> QED BY <1>1, <1>2, <1>4, <2>1, ReturnKeeps DEF TInv
<1>5. CASE worker' = [worker EXCEPT ![n] = r] /\ UNCHANGED ports /\ tabs' = tabs \cup {tab}
  <2>1. r \in Thread /\ r.pc = "wait" /\ r.provider = worker[n].provider
        /\ r.port = worker[n].port /\ r.client = worker[n].client /\ r.denied = worker[n].denied
    BY <1>1, BoundsAssumption DEF Thread, Running
  <2> HIDE DEF r
  <2>2. Sound(r)
    BY <1>1, <2>1 DEF Sound
  <2>3. /\ ThreadsTyped' /\ worker'[n] = r
        /\ \A m \in Numbers \ {n} : worker'[m] = worker[m]
    BY <1>5, <2>2, ThreadBecomes
  <2>4. Shift(n)
    BY <1>1, <2>1, <2>3 DEF Shift, Opened, Using, Holding
  <2>5. PortsTyped' /\ OutsideTyped'
    BY <1>3, <1>5 DEF OpenBrowser, ports, server, TInv, PortsTyped, OutsideTyped
  <2>6. \E t \in Tab : tabs' = tabs \cup {t} /\ Ours(t.state, t)'
    <3>1. PICK t \in Tab : t = tab
      BY <1>3
    <3>2. Ours(t.state, t)'
      BY <1>3, <2>1, <2>3, <3>1 DEF Ours, Opened, Using, Holding
    <3> QED BY <1>5, <3>1, <3>2
  <2> QED BY <1>1, <1>2, <1>3, <1>5, <2>1, <2>3, <2>4, <2>5, <2>6 DEF TInv
<1> QED
  BY <1>4, <1>5 DEF OpenBrowser, tab

LEMMA AcceptStep ==
  ASSUME TInv, NEW n \in Numbers, Accept(n)
  PROVE  /\ TInv' /\ Shift(n) /\ worker[n].pc = "wait" /\ worker'[n].pc = "serve"
         /\ UNCHANGED <<bound, tabs, redirects, declined, codes>>
         /\ worker'[n].port = worker[n].port /\ worker'[n].denied = worker[n].denied
         /\ worker[n].port \in PORTS /\ backlog[worker[n].port] # <<>>
         /\ worker'[n].conn = Head(backlog[worker[n].port])
         /\ backlog' = [backlog EXCEPT ![worker[n].port] = Tail(@)]
<1> DEFINE q == worker[n].port
           r == [worker[n] EXCEPT !.pc = "serve", !.conn = Head(backlog[q])]
<1>1. worker[n] \in Thread /\ Sound(worker[n]) /\ worker[n].pc = "wait" /\ Active(n)
      /\ q \in PORTS /\ backlog[q] # <<>> /\ backlog[q] \in Seq(Request)
  BY DEF Accept, TInv, ThreadsTyped, PortsTyped, Sound, Active, Holding
<1>2. Head(backlog[q]) \in Request /\ Tail(backlog[q]) \in Seq(Request)
  BY <1>1, HeadTailProperties
<1>3. /\ worker' = [worker EXCEPT ![n] = r] /\ backlog' = [backlog EXCEPT ![q] = Tail(@)]
      /\ UNCHANGED <<registry, bound, browser, server, clicks>>
  BY DEF Accept
<1>4. r \in Thread /\ r.pc = "serve" /\ r.provider = worker[n].provider /\ r.port = q
      /\ r.client = worker[n].client /\ r.denied = worker[n].denied
      /\ r.conn = Head(backlog[q])
  BY <1>1, <1>2 DEF Thread, Running
<1> HIDE DEF r
<1>5. Sound(r)
  BY <1>1, <1>2, <1>4 DEF Sound
<1>6. /\ ThreadsTyped' /\ worker'[n] = r
      /\ \A m \in Numbers \ {n} : worker'[m] = worker[m]
  BY <1>3, <1>5, ThreadBecomes
<1>7. Shift(n)
  BY <1>1, <1>4, <1>6 DEF Shift, Opened, Using, Holding
<1>8. RegistryTyped' /\ OutsideTyped'
  BY <1>3 DEF registry, browser, server, TInv, RegistryTyped, OutsideTyped
<1>9. PortsTyped'
  BY <1>1, <1>2, <1>3 DEF TInv, PortsTyped
<1> QED
  BY <1>1, <1>3, <1>4, <1>6, <1>7, <1>8, <1>9 DEF TInv, browser, server

(* The worker gives up: a time-out, an error of accept, a panic.           *)
LEMMA GivesUpStep ==
  ASSUME TInv, NEW n \in Numbers, TimedOut(n) \/ AcceptFails(n) \/ Panic(n)
  PROVE  TInv' /\ Active(n) /\ Return(n) /\ UNCHANGED <<registry, browser, server, clicks>>
<1>1. Active(n) /\ Return(n) /\ UNCHANGED <<registry, browser, server, clicks>>
  BY DEF TimedOut, AcceptFails, Panic, Active, Running
<1>2. RegistryTyped' /\ OutsideTyped'
  BY <1>1 DEF registry, browser, server, TInv, RegistryTyped, OutsideTyped
<1> QED
  BY <1>1, <1>2, ReturnKeeps DEF TInv

LEMMA ServeStep ==
  ASSUME TInv, NEW n \in Numbers, Serve(n)
  PROVE  /\ TInv' /\ Shift(n) /\ worker[n].pc = "serve"
         /\ UNCHANGED <<tabs, redirects, declined, codes>>
         /\ \/ /\ worker'[n].pc = "wait" /\ UNCHANGED ports
               /\ worker'[n].port = worker[n].port /\ worker'[n].denied = worker[n].denied
            \/ /\ classify(worker[n].conn, n) = "code" /\ UNCHANGED ports
               /\ worker'[n].pc = "exchange" /\ worker'[n].code = worker[n].conn.code
               /\ worker'[n].port = worker[n].port /\ worker'[n].denied = worker[n].denied
            \/ /\ classify(worker[n].conn, n) = "denied"
               /\ worker'[n].pc = "returned"
               /\ bound' = [bound EXCEPT ![worker[n].port] = Free]
               /\ backlog' = [backlog EXCEPT ![worker[n].port] = <<>>]
<1> DEFINE q == worker[n].port
           outcome == classify(worker[n].conn, n)
           again == [worker[n] EXCEPT !.pc = "wait", !.conn = None]
           goes == [worker[n] EXCEPT !.pc = "exchange", !.code = worker[n].conn.code,
                                     !.conn = None, !.left = 0]
           ends == [Returned(n) EXCEPT !.denied = TRUE]
<1>1. worker[n] \in Thread /\ Sound(worker[n]) /\ worker[n].pc = "serve" /\ Active(n)
      /\ q \in PORTS /\ worker[n].conn \in Request
  BY DEF Serve, TInv, ThreadsTyped, Sound, Active, Holding
<1>2. RegistryTyped' /\ OutsideTyped' /\ UNCHANGED <<tabs, redirects, declined, codes>>
  BY DEF Serve, registry, browser, server, TInv, RegistryTyped, OutsideTyped
<1>3. CASE worker' = [worker EXCEPT ![n] = again] /\ UNCHANGED ports
  <2>1. again \in Thread /\ again.pc = "wait" /\ again.provider = worker[n].provider
        /\ again.port = q /\ again.client = worker[n].client /\ again.denied = worker[n].denied
    BY <1>1 DEF Thread, Running
  <2> HIDE DEF again
  <2>2. Sound(again)
    BY <1>1, <2>1 DEF Sound
  <2>3. /\ ThreadsTyped' /\ worker'[n] = again
        /\ \A m \in Numbers \ {n} : worker'[m] = worker[m]
    BY <1>3, <2>2, ThreadBecomes
  <2>4. Shift(n) /\ PortsTyped'
    BY <1>1, <1>3, <2>1, <2>3 DEF Shift, Opened, Using, Holding, ports, TInv, PortsTyped
  <2> QED BY <1>1, <1>2, <1>3, <2>1, <2>3, <2>4 DEF TInv
<1>4. CASE outcome = "code" /\ worker' = [worker EXCEPT ![n] = goes] /\ UNCHANGED ports
  <2>1. goes \in Thread /\ goes.pc = "exchange" /\ goes.provider = worker[n].provider
        /\ goes.port = q /\ goes.client = worker[n].client /\ goes.denied = worker[n].denied
        /\ goes.code = worker[n].conn.code
    BY <1>1 DEF Thread, Running, Request
  <2> HIDE DEF goes
  <2>2. Sound(goes)
    BY <1>1, <2>1 DEF Sound
  <2>3. /\ ThreadsTyped' /\ worker'[n] = goes
        /\ \A m \in Numbers \ {n} : worker'[m] = worker[m]
    BY <1>4, <2>2, ThreadBecomes
  <2>4. Shift(n) /\ PortsTyped'
    BY <1>1, <1>4, <2>1, <2>3 DEF Shift, Opened, Using, Holding, ports, TInv, PortsTyped
  <2> QED BY <1>1, <1>2, <1>4, <2>1, <2>3, <2>4 DEF TInv
<1>5. CASE /\ outcome = "denied" /\ worker' = [worker EXCEPT ![n] = ends]
           /\ bound' = [bound EXCEPT ![q] = Free] /\ backlog' = [backlog EXCEPT ![q] = <<>>]
  <2>1. ends \in Thread /\ ends.pc = "returned" /\ ends.provider = worker[n].provider
    BY <1>1, ReturnedIsSound DEF Sound, Thread
  <2> HIDE DEF ends
  <2>2. Sound(ends)
    BY <1>1, <2>1 DEF Sound, Holding
  <2>3. /\ ThreadsTyped' /\ worker'[n] = ends
        /\ \A m \in Numbers \ {n} : worker'[m] = worker[m]
    BY <1>5, <2>2, ThreadBecomes
  <2>4. Shift(n)
    BY <1>1, <2>1, <2>3 DEF Shift, Opened, Using, Holding
  <2>5. PortsTyped'
    BY <1>1, <1>5, EmptySeq, BoundsAssumption DEF TInv, PortsTyped, Free, Other
  <2> QED BY <1>1, <1>2, <1>5, <2>1, <2>3, <2>4, <2>5 DEF TInv
<1> QED
  BY <1>3, <1>4, <1>5 DEF Serve

LEMMA ExchangeStep ==
  ASSUME TInv, NEW n \in Numbers, ExchangeCode(n) \/ ListIngests(n) \/ Store(n)
  PROVE  /\ TInv' /\ Shift(n) /\ worker[n].pc \in {"exchange", "list", "store"}
         /\ UNCHANGED <<signing_in, clicks, tabs, redirects, declined, codes>>
         /\ \/ Return(n)
            \/ /\ worker'[n].pc \in {"list", "store"} /\ UNCHANGED ports
               /\ worker'[n] = [worker[n] EXCEPT !.pc = worker'[n].pc]
<1>1. worker[n] \in Thread /\ Sound(worker[n]) /\ worker[n].pc \in {"exchange", "list", "store"}
      /\ Active(n) /\ IdOf[worker[n].provider] \in Ids
  BY DEF ExchangeCode, ListIngests, Store, TInv, ThreadsTyped, Sound, Active, Ids
<1>2. UNCHANGED <<signing_in, clicks, tabs, redirects, declined, codes, registered>>
  BY DEF ExchangeCode, ListIngests, Store, registry, browser, server
<1>3. RegistryTyped'
  <2>1. \/ entries' = entries
        \/ entries' = [entries EXCEPT ![IdOf[worker[n].provider]].session = n]
    BY DEF ExchangeCode, ListIngests, Store, registry
  <2>2. n \in 0..MaxSignIns
    BY BoundsAssumption DEF Numbers
  <2> QED BY <1>1, <1>2, <2>1, <2>2 DEF TInv, RegistryTyped
<1>4. OutsideTyped'
  BY <1>2 DEF TInv, OutsideTyped
<1>5. CASE Return(n)
  BY <1>1, <1>2, <1>3, <1>4, <1>5, ReturnKeeps DEF TInv
<1>6. ASSUME NEW next \in {"list", "store"}, GoTo(n, next), UNCHANGED ports
      PROVE  /\ TInv' /\ Shift(n) /\ worker'[n].pc = next
             /\ worker'[n] = [worker[n] EXCEPT !.pc = next]
  <2>1. ThreadsTyped' /\ Shift(n) /\ worker'[n] = [worker[n] EXCEPT !.pc = next]
    BY <1>1, <1>6, GoToKeeps DEF Running, Holding, Using, Opened
  <2>2. PortsTyped'
    BY <1>6 DEF ports, TInv, PortsTyped
  <2>3. worker'[n].pc = next
    BY <1>1, <2>1 DEF Thread
  <2> QED BY <1>3, <1>4, <2>1, <2>2, <2>3 DEF TInv
<1>7. Return(n) \/ \E next \in {"list", "store"} : GoTo(n, next) /\ UNCHANGED ports
  BY DEF ExchangeCode, ListIngests, Store
<1> QED
  BY <1>1, <1>2, <1>3, <1>5, <1>6, <1>7

LEMMA ReleaseStep ==
  ASSUME TInv, NEW n \in Numbers, Release(n)
  PROVE  /\ TInv' /\ Shift(n) /\ worker[n].pc = "returned" /\ worker'[n].pc = "ended"
         /\ worker'[n].denied = worker[n].denied
         /\ signing_in' = signing_in \ {worker[n].provider}
         /\ UNCHANGED <<clicks, ports, tabs, redirects, declined, codes>>
<1>1. worker[n] \in Thread /\ worker[n].pc = "returned" /\ Active(n) /\ GoTo(n, "ended")
  BY DEF Release, TInv, ThreadsTyped, Active
<1>2. ThreadsTyped' /\ Shift(n) /\ worker'[n] = [worker[n] EXCEPT !.pc = "ended"]
  BY <1>1, GoToKeeps DEF Holding, Using, Opened
<1>3. worker'[n].pc = "ended" /\ worker'[n].denied = worker[n].denied
  BY <1>1, <1>2 DEF Thread
<1>4. RegistryTyped' /\ PortsTyped' /\ OutsideTyped'
  BY DEF Release, ports, browser, server, TInv, RegistryTyped, PortsTyped, OutsideTyped
<1> QED
  BY <1>1, <1>2, <1>3, <1>4 DEF Release, TInv, browser, server

(* A click: the slot is taken and a thread begins, or nothing happens.     *)
LEMMA ClickStep ==
  ASSUME TInv, NEW p \in Providers, Click(p)
  PROVE  /\ TInv' /\ UNCHANGED <<ports, tabs, redirects, declined, codes>>
         /\ clicks + 1 \in Numbers /\ clicks' = clicks + 1
         /\ \A m \in Numbers \ {clicks + 1} : worker'[m] = worker[m]
         /\ \/ worker' = worker /\ signing_in' = signing_in
            \/ /\ p \notin signing_in /\ signing_in' = signing_in \cup {p}
               /\ worker'[clicks + 1] = [worker[clicks + 1] EXCEPT !.pc = "documents", !.provider = p]
               /\ worker'[clicks + 1].pc = "documents" /\ worker'[clicks + 1].provider = p
               /\ worker'[clicks + 1].denied = worker[clicks + 1].denied
<1> DEFINE n == clicks + 1
           r == [worker[n] EXCEPT !.pc = "documents", !.provider = p]
<1>1. n \in Numbers /\ clicks' = n /\ clicks' \in 0..MaxSignIns
  BY BoundsAssumption DEF Click, TInv, RegistryTyped, Numbers
<1>2. worker[n] \in Thread /\ Sound(worker[n])
  BY <1>1 DEF TInv, ThreadsTyped
<1>3. PortsTyped' /\ OutsideTyped' /\ UNCHANGED <<ports, tabs, redirects, declined, codes>>
  BY DEF Click, ports, browser, server, TInv, PortsTyped, OutsideTyped
<1>4. CASE worker' = worker /\ signing_in' = signing_in
  BY <1>1, <1>3, <1>4 DEF Click, TInv, ThreadsTyped, RegistryTyped
<1>5. CASE /\ p \notin signing_in /\ signing_in' = signing_in \cup {p}
           /\ worker' = [worker EXCEPT ![n] = r]
  <2>1. r \in Thread /\ r.pc = "documents" /\ r.provider = p /\ r.denied = worker[n].denied
    BY <1>2 DEF Thread, Running
  <2>2. Sound(r)
    BY <2>1 DEF Sound, Holding
  <2> HIDE DEF r
  <2>3. /\ ThreadsTyped' /\ worker'[n] = r
        /\ \A m \in Numbers \ {n} : worker'[m] = worker[m]
    BY <1>1, <1>5, <2>2, ThreadBecomes
  <2>4. RegistryTyped'
    BY <1>1, <1>5 DEF Click, TInv, RegistryTyped
  <2> QED BY <1>1, <1>3, <1>5, <2>1, <2>3, <2>4 DEF TInv, r
<1>6. /\ worker' = worker /\ signing_in' = signing_in
      \/ /\ p \notin signing_in /\ signing_in' = signing_in \cup {p}
         /\ worker' = [worker EXCEPT ![n] = r]
  <2>1. ASSUME worker' = [worker EXCEPT ![n].pc = "documents", ![n].provider = p]
        PROVE  worker' = [worker EXCEPT ![n] = r]
    BY <1>1, <1>2, <2>1 DEF TInv, ThreadsTyped
  <2> QED BY <2>1 DEF Click
<1> QED
  BY <1>4, <1>5, <1>6

(* A request reaches a port.                                               *)
LEMMA Connected ==
  ASSUME TInv, NEW r \in Request, Connect(r), bound' = bound
  PROVE  PortsTyped' /\ \A q \in PORTS : backlog'[q] \in {backlog[q], Append(backlog[q], r)}
<1>1. r.port \in PORTS
  BY DEF Request
<1>2. Append(backlog[r.port], r) \in Seq(Request)
  BY <1>1, AppendProperties DEF TInv, PortsTyped
<1> QED
  BY <1>1, <1>2 DEF Connect, TInv, PortsTyped

(* What a tab is redirected with, and what probes ask.                     *)
LEMMA ApproveStep ==
  ASSUME TInv, NEW t \in tabs, Approve(t)
  PROVE  LET r == [port |-> t.port, state |-> t.state, error |-> FALSE,
                   code |-> Len(codes) + 1, silent |-> FALSE]
             issued == [provider |-> t.provider, client |-> t.client, port |-> t.port,
                        challenge |-> t.challenge]
         IN /\ TInv' /\ UNCHANGED <<signing_in, clicks, worker, bound, declined>>
            /\ tabs' \subseteq tabs /\ redirects' = redirects \cup {r}
            /\ \A q \in PORTS : backlog'[q] \in {backlog[q], Append(backlog[q], r)}
            /\ codes' = Append(codes, issued) /\ issued \in Code /\ r \in Request
<1> DEFINE r == [port |-> t.port, state |-> t.state, error |-> FALSE,
                 code |-> Len(codes) + 1, silent |-> FALSE]
           issued == [provider |-> t.provider, client |-> t.client, port |-> t.port,
                      challenge |-> t.challenge]
<1>1. t \in Tab /\ Len(codes) \in Nat
  BY LenProperties DEF TInv, OutsideTyped
<1>2. r \in Request /\ issued \in Code
  BY <1>1, BoundsAssumption DEF Tab, Request, Code, Numbers
<1>3. /\ tabs' = tabs \ {t} /\ redirects' = redirects \cup {r} /\ Connect(r)
      /\ codes' = Append(codes, issued)
      /\ UNCHANGED <<registry, worker, bound, declined, registered, clicks>>
  BY DEF Approve, Answer
<1>4. codes' \in Seq(Code)
  BY <1>2, <1>3, AppendProperties DEF TInv, OutsideTyped
<1> HIDE DEF r, issued
<1>5. PortsTyped' /\ \A q \in PORTS : backlog'[q] \in {backlog[q], Append(backlog[q], r)}
  BY <1>2, <1>3, Connected
<1>6. ThreadsTyped' /\ RegistryTyped' /\ OutsideTyped'
  BY <1>2, <1>3, <1>4 DEF registry, TInv, ThreadsTyped, RegistryTyped, OutsideTyped
<1> QED
  BY <1>2, <1>3, <1>5, <1>6 DEF TInv, registry, r, issued

LEMMA DeclineStep ==
  ASSUME TInv, NEW t \in tabs, Decline(t)
  PROVE  LET r == [port |-> t.port, state |-> t.state, error |-> TRUE, code |-> 0,
                   silent |-> FALSE]
         IN /\ TInv' /\ UNCHANGED <<signing_in, clicks, worker, bound, codes>>
            /\ tabs' \subseteq tabs /\ redirects' = redirects \cup {r}
            /\ \A q \in PORTS : backlog'[q] \in {backlog[q], Append(backlog[q], r)}
            /\ declined' = declined \cup {t.state} /\ r \in Request
<1> DEFINE r == [port |-> t.port, state |-> t.state, error |-> TRUE, code |-> 0,
                 silent |-> FALSE]
<1>1. t \in Tab
  BY DEF TInv, OutsideTyped
<1>2. r \in Request /\ t.state \in Numbers
  BY <1>1, BoundsAssumption DEF Tab, Request, Numbers
<1>3. /\ tabs' = tabs \ {t} /\ redirects' = redirects \cup {r} /\ Connect(r)
      /\ declined' = declined \cup {t.state}
      /\ UNCHANGED <<registry, worker, bound, codes, registered, clicks>>
  BY DEF Decline, Answer, server
<1> HIDE DEF r
<1>4. PortsTyped' /\ \A q \in PORTS : backlog'[q] \in {backlog[q], Append(backlog[q], r)}
  BY <1>2, <1>3, Connected
<1>5. ThreadsTyped' /\ RegistryTyped' /\ OutsideTyped'
  BY <1>2, <1>3 DEF registry, TInv, ThreadsTyped, RegistryTyped, OutsideTyped
<1> QED
  BY <1>2, <1>3, <1>4, <1>5 DEF TInv, registry, r

LEMMA AgainStep ==
  ASSUME TInv, (\E q \in PORTS, silent \in BOOLEAN : Stray(q, silent)) \/ \E r \in redirects : Reload(r)
  PROVE  /\ TInv' /\ UNCHANGED <<signing_in, clicks, worker, bound, tabs, redirects, declined, codes>>
         /\ \E r \in Request : /\ r \in redirects \/ (~r.error /\ r.code = 0)
                               /\ \A q \in PORTS : backlog'[q] \in {backlog[q], Append(backlog[q], r)}
<1>1. PICK r \in Request : /\ r \in redirects \/ (~r.error /\ r.code = 0)
                           /\ Connect(r)
                           /\ UNCHANGED <<registry, worker, bound, browser, server, clicks>>
  <2>1. CASE \E q \in PORTS, silent \in BOOLEAN : Stray(q, silent)
    <3>1. PICK q \in PORTS, silent \in BOOLEAN : Stray(q, silent)
      BY <2>1
    <3> DEFINE r == [port |-> q, state |-> 0, error |-> FALSE, code |-> 0, silent |-> silent]
    <3>2. r \in Request /\ ~r.error /\ r.code = 0
      BY BoundsAssumption DEF Request
    <3> QED BY <3>1, <3>2 DEF Stray
  <2>2. CASE \E r \in redirects : Reload(r)
    BY <2>2 DEF Reload, TInv, OutsideTyped
  <2> QED BY <2>1, <2>2
<1>2. PortsTyped' /\ \A q \in PORTS : backlog'[q] \in {backlog[q], Append(backlog[q], r)}
  BY <1>1, Connected
<1>3. ThreadsTyped' /\ RegistryTyped' /\ OutsideTyped'
  BY <1>1 DEF registry, browser, server, TInv, ThreadsTyped, RegistryTyped, OutsideTyped
<1> QED
  BY <1>1, <1>2, <1>3 DEF TInv, registry, browser, server

(* Time passes: nothing of a thread changes that the rest looks at.        *)
Same(n) ==
  /\ worker'[n].pc = worker[n].pc /\ worker'[n].provider = worker[n].provider
  /\ worker'[n].client = worker[n].client /\ worker'[n].port = worker[n].port
  /\ worker'[n].conn = worker[n].conn /\ worker'[n].code = worker[n].code
  /\ worker'[n].denied = worker[n].denied

LEMMA IdleStep ==
  ASSUME TInv, Tick \/ (\E i \in Ids : SignOut(i)) \/ UNCHANGED vars
  PROVE  /\ TInv' /\ \A n \in Numbers : Same(n)
         /\ UNCHANGED <<signing_in, clicks, ports, tabs, redirects, declined, codes>>
<1>1. CASE Tick
  <2>1. ASSUME NEW n \in Numbers PROVE Sound(worker'[n]) /\ Same(n) /\ worker'[n] \in Thread
    <3>1. Sound(worker[n]) /\ worker[n] \in Thread
      BY DEF TInv, ThreadsTyped
    <3>2. CASE worker[n].left > 0
      <4>1. worker'[n] = [worker[n] EXCEPT !.left = worker[n].left - 1]
        BY <1>1, <3>2 DEF Tick
      <4>2. worker'[n] \in Thread /\ Same(n)
        BY <3>1, <3>2, <4>1 DEF Thread, Same
      <4> QED BY <3>1, <4>2 DEF Same, Sound
    <3>3. CASE ~(worker[n].left > 0)
      BY <1>1, <3>1, <3>3 DEF Tick, Same
    <3> QED BY <3>2, <3>3
  <2>2. worker' = [n \in Numbers |-> worker'[n]]
    BY <1>1 DEF Tick
  <2>3. ThreadsTyped'
    BY <2>1, <2>2 DEF ThreadsTyped
  <2>4. RegistryTyped' /\ PortsTyped' /\ OutsideTyped'
        /\ UNCHANGED <<signing_in, clicks, ports, tabs, redirects, declined, codes>>
    BY <1>1 DEF Tick, registry, ports, browser, server, TInv, RegistryTyped, PortsTyped,
                OutsideTyped
  <2> QED BY <2>1, <2>3, <2>4 DEF TInv
<1>2. CASE (\E i \in Ids : SignOut(i)) \/ UNCHANGED vars
  <2>1. worker' = worker /\ UNCHANGED <<signing_in, ports, browser, server, clicks>>
        /\ (entries' = entries \/ \E i \in Ids : entries' = [entries EXCEPT ![i].session = 0])
    BY <1>2 DEF SignOut, vars, registry, ports
  <2>2. RegistryTyped'
    BY <2>1, BoundsAssumption DEF TInv, RegistryTyped
  <2> QED
    BY <2>1, <2>2 DEF Same, ports, browser, server, TInv, ThreadsTyped, PortsTyped, OutsideTyped
<1> QED
  BY <1>1, <1>2

-----------------------------------------------------------------------------
(* Every step of a sign-in but its last keeps the slot.                    *)
Work(n) ==
  \/ \E d \in Documents : Discover(n, d)
  \/ Register(n) \/ KnownClient(n) \/ Bind(n) \/ OpenBrowser(n) \/ Accept(n) \/ Serve(n)
  \/ ExchangeCode(n) \/ ListIngests(n) \/ Store(n)
  \/ TimedOut(n) \/ AcceptFails(n) \/ Panic(n)

LEMMA WorkShifts ==
  ASSUME TInv, NEW n \in Numbers, Work(n)
  PROVE  TInv' /\ Shift(n) /\ UNCHANGED <<signing_in, clicks>>
<1>1. UNCHANGED <<signing_in, clicks>>
  BY DEF Work, Discover, Register, KnownClient, Bind, OpenBrowser, Accept, Serve, ExchangeCode,
         ListIngests, Store, TimedOut, AcceptFails, Panic, registry
<1>2. CASE \E d \in Documents : Discover(n, d)
  BY <1>1, <1>2, DiscoverStep
<1>3. CASE Register(n) \/ KnownClient(n) \/ Bind(n) \/ OpenBrowser(n) \/ Accept(n)
  BY <1>1, <1>3, ClientStep, BindStep, OpenBrowserStep, AcceptStep
<1>4. CASE Serve(n) \/ ExchangeCode(n) \/ ListIngests(n) \/ Store(n)
  BY <1>1, <1>4, ServeStep, ExchangeStep
<1>5. CASE TimedOut(n) \/ AcceptFails(n) \/ Panic(n)
  BY <1>1, <1>5, GivesUpStep, ReturnKeeps
<1> QED
  BY <1>2, <1>3, <1>4, <1>5 DEF Work

LEMMA ShiftKeepsSlot ==
  ASSUME SlotInv, NEW n \in Numbers, Shift(n), UNCHANGED <<signing_in, clicks>>
  PROVE  SlotInv'
<1>1. \A m \in Numbers : Active(m)' => Active(m) /\ worker'[m].provider = worker[m].provider
  BY DEF Shift, Active
<1>2. \A m \in Numbers : m > clicks' => worker'[m].pc = "none"
  BY DEF Shift, SlotInv, Active
<1>3. \A m \in Numbers : Active(m)' => worker'[m].provider \in signing_in'
  BY <1>1 DEF SlotInv
<1>4. \A k, m \in Numbers : k # m /\ Active(k)' /\ Active(m)'
                             => worker'[k].provider # worker'[m].provider
  BY <1>1 DEF SlotInv
<1> QED
  BY <1>2, <1>3, <1>4 DEF SlotInv

LEMMA SlotNext == TInv /\ SlotInv /\ [Next]_vars => TInv' /\ SlotInv'
<1> SUFFICES ASSUME TInv, SlotInv, [Next]_vars PROVE TInv' /\ SlotInv'
  OBVIOUS
<1>1. ASSUME NEW n \in Numbers, Work(n) PROVE TInv' /\ SlotInv'
  BY <1>1, WorkShifts, ShiftKeepsSlot
<1>2. ASSUME NEW n \in Numbers, Release(n) PROVE TInv' /\ SlotInv'
  <2>1. /\ TInv' /\ Shift(n) /\ worker'[n].pc = "ended" /\ clicks' = clicks
        /\ signing_in' = signing_in \ {worker[n].provider}
    BY <1>2, ReleaseStep
  <2>2. \A m \in Numbers : Active(m)' => m # n /\ Active(m) /\ worker'[m] = worker[m]
    BY <2>1 DEF Shift, Active
  <2>3. Active(n)
    BY <2>1 DEF Shift
  <2>4. \A m \in Numbers : m > clicks' => worker'[m].pc = "none"
    BY <2>1 DEF Shift, SlotInv, Active
  <2>5. \A m \in Numbers : Active(m)' => worker'[m].provider \in signing_in'
    BY <2>1, <2>2, <2>3 DEF SlotInv
  <2>6. \A k, m \in Numbers : k # m /\ Active(k)' /\ Active(m)'
                               => worker'[k].provider # worker'[m].provider
    BY <2>2 DEF SlotInv
  <2> QED BY <2>1, <2>4, <2>5, <2>6 DEF SlotInv
<1>3. ASSUME NEW p \in Providers, Click(p) PROVE TInv' /\ SlotInv'
  <2> DEFINE n == clicks + 1
  <2>1. /\ TInv' /\ n \in Numbers /\ clicks' = n /\ clicks \in 0..MaxSignIns
        /\ \A m \in Numbers \ {n} : worker'[m] = worker[m]
        /\ \/ worker' = worker /\ signing_in' = signing_in
           \/ /\ p \notin signing_in /\ signing_in' = signing_in \cup {p}
              /\ worker'[n].pc = "documents" /\ worker'[n].provider = p
    BY <1>3, ClickStep DEF TInv, RegistryTyped
  <2>2. \A m \in Numbers : m > n => m > clicks /\ m # n
    BY <2>1, BoundsAssumption DEF Numbers
  <2> HIDE DEF n
  <2>3. \A m \in Numbers : m > clicks' => worker'[m].pc = "none"
    BY <2>1, <2>2 DEF SlotInv
  <2>4. \A m \in Numbers \ {n} : Active(m)' => worker'[m].provider \in signing_in /\ Active(m)
    BY <2>1 DEF SlotInv, Active
  <2>5. CASE worker' = worker /\ signing_in' = signing_in
    BY <2>1, <2>3, <2>5 DEF SlotInv, Active
  <2>6. CASE /\ p \notin signing_in /\ signing_in' = signing_in \cup {p}
             /\ worker'[n].pc = "documents" /\ worker'[n].provider = p
    <3>1. \A m \in Numbers : Active(m)' => worker'[m].provider \in signing_in'
      BY <2>4, <2>6
    <3>2. ASSUME NEW k \in Numbers, NEW m \in Numbers, k # m, Active(k)', Active(m)'
          PROVE  worker'[k].provider # worker'[m].provider
      <4>1. CASE k # n /\ m # n
        BY <2>1, <2>4, <3>2, <4>1 DEF SlotInv
      <4>2. CASE k = n \/ m = n
        BY <2>4, <2>6, <3>2, <4>2
      <4> QED BY <4>1, <4>2
    <3> QED BY <2>1, <2>3, <3>1, <3>2 DEF SlotInv
  <2> QED BY <2>1, <2>5, <2>6
<1>4. ASSUME (\E t \in tabs : Approve(t) \/ Decline(t))
             \/ (\E q \in PORTS, silent \in BOOLEAN : Stray(q, silent))
             \/ (\E r \in redirects : Reload(r))
      PROVE  TInv' /\ SlotInv'
  <2>1. TInv' /\ UNCHANGED <<signing_in, clicks, worker>>
    BY <1>4, ApproveStep, DeclineStep, AgainStep
  <2> QED BY <2>1 DEF SlotInv, Active
<1>5. ASSUME Tick \/ (\E i \in Ids : SignOut(i)) \/ UNCHANGED vars PROVE TInv' /\ SlotInv'
  <2>1. TInv' /\ (\A n \in Numbers : Same(n)) /\ UNCHANGED <<signing_in, clicks>>
    BY <1>5, IdleStep
  <2> QED BY <2>1 DEF SlotInv, Active, Same
<1> QED
  BY <1>1, <1>2, <1>3, <1>4, <1>5 DEF Next, Step, Work

(* A port that changes hands is bound by its new owner alone.              *)
LEMMA ReturnFreesPorts ==
  ASSUME TInv, PortInv, NEW n \in Numbers, Active(n), Return(n)
  PROVE  PortInv'
<1>1. /\ \A q \in PORTS : bound'[q] \in {bound[q], Free} /\ bound'[q] # n
      /\ \A m \in Numbers \ {n} : worker'[m] = worker[m]
  <2>1. Free # n
    BY BoundsAssumption DEF Numbers, Free
  <2>2. /\ Shift(n)
        /\ \A q \in PORTS : IF bound[q] = n THEN bound'[q] = Free ELSE bound'[q] = bound[q]
    BY ReturnKeeps
  <2> QED BY <2>1, <2>2 DEF Shift
<1>2. Free \notin Numbers
  BY BoundsAssumption DEF Numbers, Free
<1> QED
  BY <1>1, <1>2 DEF PortInv

LEMMA PortNext == TInv /\ SlotInv /\ PortInv /\ [Next]_vars => PortInv'
<1> SUFFICES ASSUME TInv, SlotInv, PortInv, [Next]_vars PROVE PortInv'
  OBVIOUS
<1>a. Free \notin Numbers
  BY BoundsAssumption DEF Numbers, Free
<1>b. ASSUME NEW n \in Numbers, Shift(n), bound' = bound,
             worker[n].pc \in Holding => worker'[n].pc \in Holding /\ worker'[n].port = worker[n].port
      PROVE  PortInv'
  BY <1>b DEF Shift, PortInv
<1>1. ASSUME NEW n \in Numbers, NEW d \in Documents, Discover(n, d) PROVE PortInv'
  <2>1. Shift(n) /\ worker[n].pc = "documents" /\ bound' = bound
    BY <1>1, DiscoverStep DEF Discover, ports
  <2> QED BY <2>1, <1>b DEF Holding
<1>2. ASSUME NEW n \in Numbers, Register(n) \/ KnownClient(n) PROVE PortInv'
  <2>1. Shift(n) /\ worker[n].pc = "client" /\ bound' = bound
    BY <1>2, ClientStep DEF Register, KnownClient, ports
  <2> QED BY <2>1, <1>b DEF Holding
<1>3. ASSUME NEW n \in Numbers, Bind(n) PROVE PortInv'
  <2>1. Shift(n) /\ worker[n].pc = "bind" /\ Active(n)
    BY <1>3, BindStep DEF Shift
  <2>2. CASE Return(n)
    BY <2>1, <2>2, ReturnFreesPorts
  <2>3. CASE /\ worker'[n].pc = "open"
             /\ \E q \in PORTS : bound' = [bound EXCEPT ![q] = n] /\ worker'[n].port = q
    <3>1. PICK q \in PORTS : bound' = [bound EXCEPT ![q] = n] /\ worker'[n].port = q
      BY <2>3
    <3>2. bound'[q] = n /\ \A s \in PORTS \ {q} : bound'[s] = bound[s]
      BY <3>1 DEF TInv, PortsTyped
    <3>3. \A s \in PORTS : bound[s] # n
      BY <2>1 DEF PortInv, Holding
    <3> QED BY <2>1, <2>3, <3>1, <3>2, <3>3 DEF PortInv, Shift, Holding
  <2> QED BY <1>3, <2>2, <2>3, BindStep
<1>4. ASSUME NEW n \in Numbers, OpenBrowser(n) PROVE PortInv'
  <2>1. Shift(n) /\ Active(n)
    BY <1>4, OpenBrowserStep DEF Shift
  <2>2. CASE Return(n)
    BY <2>1, <2>2, ReturnFreesPorts
  <2>3. CASE worker'[n].pc = "wait" /\ UNCHANGED ports /\ worker'[n].port = worker[n].port
    BY <2>1, <2>3, <1>b DEF ports, Holding
  <2> QED BY <1>4, <2>2, <2>3, OpenBrowserStep
<1>5. ASSUME NEW n \in Numbers, Accept(n) PROVE PortInv'
  BY <1>5, <1>b, AcceptStep DEF Holding
<1>6. ASSUME NEW n \in Numbers, Serve(n) PROVE PortInv'
  <2>1. Shift(n) /\ worker[n].pc = "serve" /\ worker[n].port \in PORTS
    BY <1>6, ServeStep DEF TInv, ThreadsTyped, Sound, Holding
  <2>2. CASE worker'[n].pc \in {"wait", "exchange"} /\ UNCHANGED ports
             /\ worker'[n].port = worker[n].port
    BY <2>1, <2>2, <1>b DEF ports, Holding
  <2>3. CASE bound' = [bound EXCEPT ![worker[n].port] = Free]
    <3>1. \A q \in PORTS : bound'[q] \in {bound[q], Free} /\ bound'[q] # n
      BY <2>1, <2>3, <1>a DEF TInv, PortsTyped, PortInv
    <3> QED BY <2>1, <3>1, <1>a DEF Shift, PortInv
  <2> QED BY <1>6, <2>2, <2>3, ServeStep
<1>7. ASSUME NEW n \in Numbers, ExchangeCode(n) \/ ListIngests(n) \/ Store(n) PROVE PortInv'
  <2>1. Shift(n) /\ Active(n) /\ worker[n] \in Thread
    BY <1>7, ExchangeStep DEF Shift, TInv, ThreadsTyped
  <2>2. CASE Return(n)
    BY <2>1, <2>2, ReturnFreesPorts
  <2>3. CASE /\ worker'[n].pc \in {"list", "store"} /\ UNCHANGED ports
             /\ worker'[n] = [worker[n] EXCEPT !.pc = worker'[n].pc]
    <3>1. worker'[n].port = worker[n].port
      BY <2>1, <2>3 DEF Thread
    <3> QED BY <2>1, <2>3, <3>1, <1>b DEF ports, Holding
  <2> QED BY <1>7, <2>2, <2>3, ExchangeStep
<1>8. ASSUME NEW n \in Numbers, TimedOut(n) \/ AcceptFails(n) \/ Panic(n) PROVE PortInv'
  BY <1>8, GivesUpStep, ReturnFreesPorts
<1>9. ASSUME NEW n \in Numbers, Release(n) PROVE PortInv'
  <2>1. Shift(n) /\ worker[n].pc = "returned" /\ bound' = bound
    BY <1>9, ReleaseStep DEF ports
  <2> QED BY <2>1, <1>b DEF Holding
<1>10. ASSUME NEW p \in Providers, Click(p) PROVE PortInv'
  <2>1. /\ \A m \in Numbers \ {clicks + 1} : worker'[m] = worker[m]
        /\ clicks + 1 \in Numbers /\ bound' = bound
    BY <1>10, ClickStep DEF ports
  <2>2. worker[clicks + 1].pc = "none"
    <3>1. clicks + 1 > clicks
      BY DEF TInv, RegistryTyped
    <3> QED BY <1>10, <2>1, <3>1 DEF SlotInv
  <2> QED BY <2>1, <2>2 DEF PortInv, Holding
<1>11. ASSUME (\E t \in tabs : Approve(t) \/ Decline(t))
              \/ (\E q \in PORTS, silent \in BOOLEAN : Stray(q, silent))
              \/ (\E r \in redirects : Reload(r))
       PROVE  PortInv'
  <2>1. UNCHANGED <<worker, bound>>
    BY <1>11, ApproveStep, DeclineStep, AgainStep
  <2> QED BY <2>1 DEF PortInv
<1>12. ASSUME Tick \/ (\E i \in Ids : SignOut(i)) \/ UNCHANGED vars PROVE PortInv'
  <2>1. (\A n \in Numbers : Same(n)) /\ bound' = bound
    BY <1>12, IdleStep DEF ports
  <2> QED BY <2>1 DEF PortInv, Same
<1> QED
  BY <1>1, <1>2, <1>3, <1>4, <1>5, <1>6, <1>7, <1>8, <1>9, <1>10, <1>11, <1>12 DEF Next, Step

-----------------------------------------------------------------------------
(* What was said of a sign-in stays said: codes and refusals only grow,    *)
(* and a thread keeps what it told its tab until it returns.               *)
Kept(n) ==
  /\ worker[n].pc \in Opened => worker'[n].pc \in Opened
  /\ worker[n].pc \in Opened /\ worker'[n].pc \in Using =>
       /\ worker[n].pc \in Using /\ worker'[n].provider = worker[n].provider
       /\ worker'[n].client = worker[n].client /\ worker'[n].port = worker[n].port

Grown ==
  /\ declined \subseteq declined'
  /\ \A k \in 1..Len(codes) : k \in 1..Len(codes') /\ codes'[k] = codes[k]
  /\ \A n \in Numbers : Kept(n)

LEMMA GrownByShift ==
  ASSUME NEW n \in Numbers, Shift(n), UNCHANGED <<declined, codes>>
  PROVE  Grown
BY DEF Shift, Grown, Kept

LEMMA TabStill ==
  ASSUME TInv, OwnInv, Grown, NEW t \in tabs
  PROVE  Ours(t.state, t)'
<1>1. t.state \in Numbers /\ Ours(t.state, t)
  BY DEF TInv, OutsideTyped, Tab, OwnInv, TabInv
<1> QED
  BY <1>1 DEF Ours, Grown, Kept

LEMMA GenuineStill ==
  ASSUME Grown
  PROVE  Genuine \subseteq Genuine'
<1> SUFFICES ASSUME NEW r \in Genuine PROVE r \in Genuine'
  OBVIOUS
<1>1. r \in Request /\ (r.error => r.state \in declined')
  BY DEF Genuine, Grown
<1>2. ASSUME ~r.error, r.code # 0
      PROVE  r.state \in Numbers /\ r.code \in 1..Len(codes') /\ Ours(r.state, codes[r.code])'
  <2>1. r.state \in Numbers /\ r.code \in 1..Len(codes) /\ Ours(r.state, codes[r.code])
    BY <1>2 DEF Genuine
  <2>2. r.code \in 1..Len(codes') /\ codes'[r.code] = codes[r.code] /\ Kept(r.state)
    BY <2>1 DEF Grown
  <2> QED BY <2>1, <2>2 DEF Ours, Kept
<1> QED
  BY <1>1, <1>2 DEF Genuine

LEMMA AnsweredStill ==
  ASSUME Grown, NEW n \in Numbers, Addressed(n),
         worker'[n].pc = "serve" => worker[n].pc = "serve" /\ worker'[n].conn = worker[n].conn,
         worker'[n].pc \in Redeeming =>
           worker[n].pc \in Redeeming /\ worker'[n].code = worker[n].code,
         worker'[n].denied => worker[n].denied
  PROVE  Addressed(n)'
<1>1. worker'[n].pc = "serve" => worker'[n].conn \in Genuine'
  BY GenuineStill DEF Addressed
<1>2. worker'[n].denied => n \in declined'
  BY DEF Addressed, Grown
<1>3. ASSUME worker'[n].pc \in Redeeming
      PROVE  worker'[n].code \in 1..Len(codes') /\ Ours(n, codes[worker[n].code])'
  <2>1. worker[n].code \in 1..Len(codes) /\ Ours(n, codes[worker[n].code])
        /\ worker'[n].code = worker[n].code
    BY <1>3 DEF Addressed
  <2>2. worker[n].code \in 1..Len(codes') /\ codes'[worker[n].code] = codes[worker[n].code]
        /\ Kept(n)
    BY <2>1 DEF Grown
  <2> QED BY <2>1, <2>2 DEF Ours, Kept
<1> QED
  BY <1>1, <1>2, <1>3 DEF Addressed

(* A connection is lost with its listener, or there is one more.           *)
LEMMA BacklogStill ==
  ASSUME TInv, OwnInv, Grown, NEW q \in PORTS,
         \/ backlog'[q] \in {backlog[q], <<>>}
         \/ backlog[q] # <<>> /\ backlog'[q] = Tail(backlog[q])
         \/ \E r \in Request : r \in Genuine' /\ backlog'[q] = Append(backlog[q], r)
  PROVE  \A k \in 1..Len(backlog'[q]) : backlog'[q][k] \in Genuine'
<1>1. backlog[q] \in Seq(Request) /\ Len(backlog[q]) \in Nat
      /\ \A k \in 1..Len(backlog[q]) : backlog[q][k] \in Genuine'
  BY GenuineStill, LenProperties DEF TInv, PortsTyped, OwnInv, RequestInv
<1>2. CASE backlog'[q] \in {backlog[q], <<>>}
  BY <1>1, <1>2
<1>3. CASE backlog[q] # <<>> /\ backlog'[q] = Tail(backlog[q])
  <2>1. /\ Len(backlog'[q]) = Len(backlog[q]) - 1
        /\ \A k \in 1..Len(backlog'[q]) : backlog'[q][k] = backlog[q][k + 1]
    BY <1>1, <1>3, HeadTailProperties
  <2> QED BY <1>1, <2>1
<1>4. CASE \E r \in Request : r \in Genuine' /\ backlog'[q] = Append(backlog[q], r)
  <2>1. PICK r \in Request : r \in Genuine' /\ backlog'[q] = Append(backlog[q], r)
    BY <1>4
  <2>2. /\ Len(backlog'[q]) = Len(backlog[q]) + 1 /\ backlog'[q][Len(backlog[q]) + 1] = r
        /\ \A k \in 1..Len(backlog[q]) : backlog'[q][k] = backlog[q][k]
    BY <1>1, <2>1, AppendProperties
  <2> QED BY <1>1, <2>1, <2>2
<1> QED
  BY <1>2, <1>3, <1>4

(* A step of sign-in n that opens no tab.                                  *)
LEMMA OwnShift ==
  ASSUME TInv, OwnInv, NEW n \in Numbers, Shift(n), Addressed(n)',
         UNCHANGED <<tabs, redirects, declined, codes>>,
         \A q \in PORTS : \/ backlog'[q] \in {backlog[q], <<>>}
                          \/ backlog[q] # <<>> /\ backlog'[q] = Tail(backlog[q])
  PROVE  OwnInv'
<1>1. Grown
  BY GrownByShift
<1>2. TabInv'
  BY <1>1, TabStill DEF TabInv
<1>3. RequestInv'
  BY <1>1, GenuineStill, BacklogStill DEF RequestInv, OwnInv
<1>4. ASSUME NEW m \in Numbers \ {n} PROVE Addressed(m)'
  BY <1>1, AnsweredStill DEF Shift, OwnInv, ThreadInv
<1> QED
  BY <1>2, <1>3, <1>4 DEF OwnInv, ThreadInv

(* A sign-in that gives up says nothing and leaves an empty backlog.       *)
LEMMA OwnReturn ==
  ASSUME TInv, OwnInv, NEW n \in Numbers, Active(n), Return(n),
         UNCHANGED <<tabs, redirects, declined, codes>>
  PROVE  OwnInv'
<1>1. Shift(n) /\ worker'[n].pc = "returned" /\ worker'[n].denied = FALSE
      /\ \A q \in PORTS : backlog'[q] \in {backlog[q], <<>>}
  BY ReturnKeeps
<1>2. Addressed(n)'
  BY <1>1 DEF Addressed, Redeeming
<1> QED
  BY <1>1, <1>2, OwnShift

LEMMA OwnServe ==
  ASSUME TInv, OwnInv, NEW n \in Numbers, Serve(n)
  PROVE  OwnInv'
<1> DEFINE r == worker[n].conn
<1>1. /\ Shift(n) /\ worker[n].pc = "serve" /\ worker[n].port \in PORTS
      /\ UNCHANGED <<tabs, redirects, declined, codes>>
  BY ServeStep DEF TInv, ThreadsTyped, Sound, Holding
<1>2. r \in Genuine /\ (worker[n].denied => n \in declined) /\ Grown
  BY <1>1, GrownByShift DEF OwnInv, ThreadInv, Addressed
<1>3. CASE /\ worker'[n].pc = "wait" /\ UNCHANGED ports /\ worker'[n].denied = worker[n].denied
  <2>1. Addressed(n)'
    BY <1>1, <1>2, <1>3 DEF Addressed, Redeeming
  <2> QED BY <1>1, <1>3, <2>1, OwnShift DEF ports
<1>4. CASE /\ classify(r, n) = "code" /\ UNCHANGED ports
           /\ worker'[n].pc = "exchange" /\ worker'[n].code = r.code
           /\ worker'[n].denied = worker[n].denied
  <2>1. r.state = n /\ ~r.error /\ r.code # 0
    BY <1>4 DEF classify
  <2>2. r.code \in 1..Len(codes) /\ Ours(n, codes[r.code])
    BY <1>2, <2>1 DEF Genuine
  <2>3. codes' = codes /\ Kept(n) /\ worker'[n].code = r.code
    BY <1>1, <1>2, <1>4 DEF Grown
  <2>a. worker'[n].code \in 1..Len(codes') /\ Ours(n, codes[worker[n].code])'
    BY <2>2, <2>3 DEF Ours, Kept
  <2>4. Addressed(n)'
    BY <1>1, <1>2, <1>4, <2>a DEF Addressed, Redeeming
  <2> QED BY <1>1, <1>4, <2>4, OwnShift DEF ports
<1>5. CASE /\ classify(r, n) = "denied" /\ worker'[n].pc = "returned"
           /\ backlog' = [backlog EXCEPT ![worker[n].port] = <<>>]
  <2>1. r.state = n /\ r.error
    BY <1>5 DEF classify
  <2>2. n \in declined
    BY <1>2, <2>1 DEF Genuine
  <2>3. Addressed(n)'
    BY <1>1, <1>5, <2>2 DEF Addressed, Redeeming
  <2>4. \A q \in PORTS : backlog'[q] \in {backlog[q], <<>>}
    BY <1>1, <1>5 DEF TInv, PortsTyped
  <2> QED BY <1>1, <2>3, <2>4, OwnShift
<1> QED
  BY <1>3, <1>4, <1>5, ServeStep

LEMMA OwnAccept ==
  ASSUME TInv, OwnInv, NEW n \in Numbers, Accept(n)
  PROVE  OwnInv'
<1> DEFINE q == worker[n].port
<1>1. /\ Shift(n) /\ worker[n].pc = "wait" /\ worker'[n].pc = "serve" /\ q \in PORTS
      /\ UNCHANGED <<tabs, redirects, declined, codes>>
      /\ worker'[n].denied = worker[n].denied /\ backlog[q] # <<>>
      /\ worker'[n].conn = Head(backlog[q]) /\ backlog' = [backlog EXCEPT ![q] = Tail(@)]
  BY AcceptStep
<1>2. Head(backlog[q]) = backlog[q][1] /\ 1 \in 1..Len(backlog[q])
  BY <1>1, HeadTailProperties, LenProperties DEF TInv, PortsTyped
<1>3. worker'[n].conn \in Genuine'
  BY <1>1, <1>2, GenuineStill, GrownByShift DEF OwnInv, RequestInv
<1>4. Addressed(n)'
  BY <1>1, <1>3 DEF Addressed, Redeeming, OwnInv, ThreadInv
<1>5. \A s \in PORTS : \/ backlog'[s] = backlog[s]
                       \/ backlog[s] # <<>> /\ backlog'[s] = Tail(backlog[s])
  <2> HIDE DEF q
  <2> QED BY <1>1 DEF TInv, PortsTyped
<1> QED
  BY <1>1, <1>4, <1>5, OwnShift

LEMMA OwnOpen ==
  ASSUME TInv, OwnInv, NEW n \in Numbers, OpenBrowser(n)
  PROVE  OwnInv'
<1>1. Shift(n) /\ Active(n) /\ UNCHANGED <<redirects, declined, codes>> /\ TInv'
  BY OpenBrowserStep DEF Shift, OpenBrowser, server
<1>2. CASE Return(n) /\ tabs' = tabs
  BY <1>1, <1>2, OwnReturn
<1>3. CASE /\ worker'[n].pc = "wait" /\ UNCHANGED ports /\ worker'[n].denied = worker[n].denied
           /\ \E t \in Tab : tabs' = tabs \cup {t} /\ Ours(t.state, t)'
  <2>1. Grown
    BY <1>1, GrownByShift
  <2>2. TabInv'
    BY <1>3, <2>1, TabStill DEF TabInv
  <2>3. RequestInv'
    BY <1>1, <1>3, <2>1, GenuineStill, BacklogStill DEF RequestInv, OwnInv, ports
  <2>4. ASSUME NEW m \in Numbers PROVE Addressed(m)'
    <3>1. CASE m = n
      BY <1>1, <1>3, <3>1 DEF Addressed, Redeeming, OwnInv, ThreadInv
    <3>2. CASE m # n
      BY <1>1, <2>1, <3>2, AnsweredStill DEF Shift, OwnInv, ThreadInv
    <3> QED BY <3>1, <3>2
  <2> QED BY <2>2, <2>3, <2>4 DEF OwnInv, ThreadInv
<1> QED
  BY <1>2, <1>3, OpenBrowserStep

(* The user answers, on a page that was told only what is its own.         *)
LEMMA OwnAnswer ==
  ASSUME TInv, OwnInv, worker' = worker, tabs' \subseteq tabs, Grown,
         NEW r \in Request, r \in Genuine', redirects' \subseteq redirects \cup {r},
         \A q \in PORTS : backlog'[q] \in {backlog[q], Append(backlog[q], r)}
  PROVE  OwnInv'
<1>1. TabInv'
  BY TabStill DEF TabInv
<1>2. RequestInv'
  <2>1. redirects' \subseteq Genuine'
    BY GenuineStill DEF OwnInv, RequestInv
  <2>2. ASSUME NEW q \in PORTS
        PROVE  \A k \in 1..Len(backlog'[q]) : backlog'[q][k] \in Genuine'
    BY BacklogStill
  <2> QED BY <2>1, <2>2 DEF RequestInv
<1>3. ThreadInv'
  BY AnsweredStill DEF OwnInv, ThreadInv
<1> QED
  BY <1>1, <1>2, <1>3 DEF OwnInv

LEMMA OwnApprove ==
  ASSUME TInv, OwnInv, NEW t \in tabs, Approve(t)
  PROVE  OwnInv'
<1> DEFINE r == [port |-> t.port, state |-> t.state, error |-> FALSE,
                 code |-> Len(codes) + 1, silent |-> FALSE]
           issued == [provider |-> t.provider, client |-> t.client, port |-> t.port,
                      challenge |-> t.challenge]
<1>1. /\ UNCHANGED <<worker, declined>> /\ tabs' \subseteq tabs
      /\ redirects' = redirects \cup {r} /\ codes' = Append(codes, issued)
      /\ issued \in Code /\ r \in Request
      /\ \A q \in PORTS : backlog'[q] \in {backlog[q], Append(backlog[q], r)}
  BY ApproveStep
<1>2. /\ Len(codes) \in Nat /\ Len(codes') = Len(codes) + 1
      /\ \A k \in 1..Len(codes) : codes'[k] = codes[k]
      /\ codes'[Len(codes) + 1] = issued
  <2> HIDE DEF issued
  <2> QED BY <1>1, AppendProperties, LenProperties DEF TInv, OutsideTyped
<1>3. Grown
  BY <1>1, <1>2 DEF Grown, Kept
<1>4. t \in Tab /\ Ours(t.state, t)
  BY DEF TInv, OutsideTyped, OwnInv, TabInv
<1>5. r \in Genuine'
  <2>1. r.state = t.state /\ r.code = Len(codes) + 1 /\ ~r.error /\ t.state \in Numbers
    BY <1>4 DEF Tab
  <2>2. r.code \in 1..Len(codes')
    BY <1>2
  <2>3. PICK c : c = Len(codes) + 1
    OBVIOUS
  <2>4. Ours(t.state, codes[c])'
    <3>1. codes'[c] = issued /\ worker' = worker
      BY <1>1, <1>2, <2>3
    <3>2. /\ codes'[c].challenge = t.challenge /\ codes'[c].provider = t.provider
          /\ codes'[c].client = t.client /\ codes'[c].port = t.port
      BY <3>1
    <3> HIDE DEF r, issued
    <3>3. worker'[t.state] = worker[t.state]
      BY <3>1
    <3> QED BY <1>4, <3>2, <3>3 DEF Ours
  <2> HIDE DEF r
  <2> QED BY <1>1, <2>1, <2>2, <2>3, <2>4 DEF Genuine
<1> HIDE DEF r
<1> QED
  BY <1>1, <1>3, <1>5, OwnAnswer

LEMMA OwnDecline ==
  ASSUME TInv, OwnInv, NEW t \in tabs, Decline(t)
  PROVE  OwnInv'
<1> DEFINE r == [port |-> t.port, state |-> t.state, error |-> TRUE, code |-> 0,
                 silent |-> FALSE]
<1>1. /\ UNCHANGED <<worker, codes>> /\ tabs' \subseteq tabs
      /\ redirects' = redirects \cup {r} /\ declined' = declined \cup {t.state}
      /\ r \in Request
      /\ \A q \in PORTS : backlog'[q] \in {backlog[q], Append(backlog[q], r)}
  BY DeclineStep
<1>2. Grown
  BY <1>1 DEF Grown, Kept
<1>3. r \in Genuine'
  BY <1>1 DEF Genuine
<1> HIDE DEF r
<1> QED
  BY <1>1, <1>2, <1>3, OwnAnswer

LEMMA OwnAgain ==
  ASSUME TInv, OwnInv,
         (\E q \in PORTS, silent \in BOOLEAN : Stray(q, silent)) \/ \E r \in redirects : Reload(r)
  PROVE  OwnInv'
<1>1. /\ UNCHANGED <<worker, tabs, redirects, declined, codes>>
      /\ \E r \in Request : /\ r \in redirects \/ (~r.error /\ r.code = 0)
                            /\ \A q \in PORTS : backlog'[q] \in {backlog[q], Append(backlog[q], r)}
  BY AgainStep
<1>2. Grown
  BY <1>1 DEF Grown, Kept
<1>3. PICK r \in Request : /\ r \in redirects \/ (~r.error /\ r.code = 0)
                           /\ \A q \in PORTS : backlog'[q] \in {backlog[q], Append(backlog[q], r)}
  BY <1>1
<1>4. r \in Genuine
  BY <1>3 DEF Genuine, OwnInv, RequestInv
<1>5. r \in Genuine'
  BY <1>2, <1>4, GenuineStill
<1> QED
  BY <1>1, <1>2, <1>3, <1>5, OwnAnswer

LEMMA OwnNext == TInv /\ SlotInv /\ OwnInv /\ [Next]_vars => OwnInv'
<1> SUFFICES ASSUME TInv, SlotInv, OwnInv, [Next]_vars PROVE OwnInv'
  OBVIOUS
<1>a. ASSUME NEW n \in Numbers, Shift(n), worker'[n].pc \notin Redeeming \cup {"serve"},
             worker'[n].denied \in {worker[n].denied, FALSE},
             UNCHANGED <<ports, browser, codes>>
      PROVE  OwnInv'
  <2>1. Addressed(n)'
    BY <1>a DEF Addressed, browser, OwnInv, ThreadInv
  <2> QED BY <1>a, <2>1, OwnShift DEF ports, browser
<1>1. ASSUME NEW n \in Numbers, NEW d \in Documents, Discover(n, d) PROVE OwnInv'
  <2>1. UNCHANGED <<ports, browser, codes>>
    BY <1>1 DEF Discover, server
  <2> QED BY <1>1, <2>1, <1>a, DiscoverStep DEF Redeeming
<1>2. ASSUME NEW n \in Numbers, Register(n) \/ KnownClient(n) PROVE OwnInv'
  <2>1. UNCHANGED <<ports, browser, codes>>
    BY <1>2 DEF Register, KnownClient, server
  <2> QED BY <1>2, <2>1, <1>a, ClientStep DEF Redeeming
<1>3. ASSUME NEW n \in Numbers, Bind(n) PROVE OwnInv'
  <2>1. Shift(n) /\ Active(n) /\ UNCHANGED <<tabs, redirects, declined, codes>>
    BY <1>3, BindStep DEF Shift, Bind, browser, server
  <2>2. CASE Return(n)
    BY <2>1, <2>2, OwnReturn
  <2>3. CASE worker'[n].pc = "open" /\ backlog' = backlog /\ worker'[n].denied = worker[n].denied
    <3>1. Addressed(n)'
      BY <2>1, <2>3 DEF Addressed, Redeeming, OwnInv, ThreadInv
    <3> QED BY <2>1, <2>3, <3>1, OwnShift
  <2> QED BY <1>3, <2>2, <2>3, BindStep
<1>4. ASSUME NEW n \in Numbers, OpenBrowser(n) \/ Accept(n) \/ Serve(n) PROVE OwnInv'
  BY <1>4, OwnOpen, OwnAccept, OwnServe
<1>5. ASSUME NEW n \in Numbers, ExchangeCode(n) \/ ListIngests(n) \/ Store(n) PROVE OwnInv'
  <2>1. Shift(n) /\ Active(n) /\ worker[n] \in Thread /\ worker[n].pc \in Redeeming
        /\ UNCHANGED <<tabs, redirects, declined, codes>>
    BY <1>5, ExchangeStep DEF Shift, TInv, ThreadsTyped, Redeeming
  <2>2. CASE Return(n)
    BY <2>1, <2>2, OwnReturn
  <2>3. CASE /\ worker'[n].pc \in {"list", "store"} /\ UNCHANGED ports
             /\ worker'[n] = [worker[n] EXCEPT !.pc = worker'[n].pc]
    <3>1. worker'[n].code = worker[n].code /\ worker'[n].denied = worker[n].denied
      BY <2>1, <2>3 DEF Thread
    <3>2. Addressed(n)'
      BY <2>1, <2>3, <3>1, GrownByShift, AnsweredStill DEF OwnInv, ThreadInv
    <3> QED BY <2>1, <2>3, <3>2, OwnShift DEF ports
  <2> QED BY <1>5, <2>2, <2>3, ExchangeStep
<1>6. ASSUME NEW n \in Numbers, TimedOut(n) \/ AcceptFails(n) \/ Panic(n) PROVE OwnInv'
  BY <1>6, GivesUpStep, OwnReturn DEF browser, server
<1>7. ASSUME NEW n \in Numbers, Release(n) PROVE OwnInv'
  BY <1>7, <1>a, ReleaseStep DEF browser, Redeeming
<1>8. ASSUME NEW p \in Providers, Click(p) PROVE OwnInv'
  <2> DEFINE n == clicks + 1
  <2>1. /\ UNCHANGED <<ports, tabs, redirects, declined, codes>> /\ n \in Numbers
        /\ \A m \in Numbers \ {n} : worker'[m] = worker[m]
        /\ \/ worker' = worker
           \/ worker'[n].pc = "documents" /\ worker'[n].denied = worker[n].denied
    BY <1>8, ClickStep
  <2>2. worker[n].pc = "none"
    <3>1. n > clicks
      BY DEF TInv, RegistryTyped
    <3> QED BY <2>1, <3>1 DEF SlotInv
  <2> HIDE DEF n
  <2>3. Grown
    BY <2>1, <2>2 DEF Grown, Kept, Opened, Using, Holding
  <2>4. TabInv'
    BY <2>1, <2>3, TabStill DEF TabInv
  <2>5. RequestInv'
    BY <2>1, <2>3, GenuineStill, BacklogStill DEF RequestInv, OwnInv, ports
  <2>6. ASSUME NEW m \in Numbers PROVE Addressed(m)'
    BY <2>1, <2>3, AnsweredStill DEF OwnInv, ThreadInv, Redeeming
  <2> QED BY <2>4, <2>5, <2>6 DEF OwnInv, ThreadInv
<1>9. ASSUME \E t \in tabs : Approve(t) \/ Decline(t) PROVE OwnInv'
  BY <1>9, OwnApprove, OwnDecline
<1>10. ASSUME (\E q \in PORTS, silent \in BOOLEAN : Stray(q, silent))
              \/ (\E r \in redirects : Reload(r))
       PROVE  OwnInv'
  BY <1>10, OwnAgain
<1>11. ASSUME Tick \/ (\E i \in Ids : SignOut(i)) \/ UNCHANGED vars PROVE OwnInv'
  <2>1. /\ \A n \in Numbers : Same(n)
        /\ UNCHANGED <<ports, tabs, redirects, declined, codes>>
    BY <1>11, IdleStep
  <2>2. Grown
    BY <2>1 DEF Grown, Kept, Same
  <2>3. TabInv'
    BY <2>1, <2>2, TabStill DEF TabInv
  <2>4. RequestInv'
    BY <2>1, <2>2, GenuineStill, BacklogStill DEF RequestInv, OwnInv, ports
  <2>5. ASSUME NEW m \in Numbers PROVE Addressed(m)'
    BY <2>1, <2>2, AnsweredStill DEF OwnInv, ThreadInv, Same
  <2> QED BY <2>3, <2>4, <2>5 DEF OwnInv, ThreadInv
<1> QED
  BY <1>1, <1>2, <1>3, <1>4, <1>5, <1>6, <1>7, <1>8, <1>9, <1>10, <1>11 DEF Next, Step

-----------------------------------------------------------------------------
LEMMA OthersInit == Init => SlotInv /\ PortInv /\ OwnInv
<1> SUFFICES ASSUME Init PROVE SlotInv /\ PortInv /\ OwnInv
  OBVIOUS
<1> USE BoundsAssumption
<1>1. \A n \in Numbers : worker[n].pc = "none" /\ worker[n].denied = FALSE
  BY DEF Init, NoWorker
<1>2. SlotInv
  BY <1>1 DEF SlotInv, Active
<1>3. PortInv
  <2>1. \A q \in PORTS : bound[q] \in {Other, Free}
    BY DEF Init
  <2>2. Other \notin Numbers /\ Free \notin Numbers
    BY DEF Other, Free, Numbers
  <2> QED BY <2>1, <2>2 DEF PortInv
<1>4. TabInv /\ redirects \subseteq Genuine
  BY DEF Init, TabInv
<1>5. RequestInv
  <2>1. \A q \in PORTS : backlog[q] = <<>>
    BY DEF Init
  <2> QED BY <1>4, <2>1, EmptySeq DEF RequestInv
<1>6. ThreadInv
  BY <1>1 DEF ThreadInv, Addressed, Redeeming
<1> QED
  BY <1>2, <1>3, <1>4, <1>5, <1>6 DEF OwnInv

IInv == TInv /\ SlotInv /\ PortInv /\ OwnInv

LEMMA Inductive == Spec => []IInv
<1>1. Init => IInv
  BY TInit, OthersInit DEF IInv
<1>2. IInv /\ [Next]_vars => IInv'
  BY SlotNext, PortNext, OwnNext DEF IInv
<1> QED
  BY <1>1, <1>2, PTL DEF Spec

(* A sign-in exchanges the code of its own tab and no other, and is ended  *)
(* by its own user's refusal only, whatever connects to its port.          *)
THEOREM OwnTabOnly == Spec => []OnlyItsOwnTab
<1>1. IInv => OnlyItsOwnTab
  <2> SUFFICES ASSUME IInv, NEW n \in Numbers
               PROVE  /\ worker[n].pc \in Redeeming =>
                           codes[worker[n].code] =
                             [provider |-> worker[n].provider, client |-> worker[n].client,
                              port |-> worker[n].port, challenge |-> challenge_for(n)]
                      /\ worker[n].denied => n \in declined
    BY DEF OnlyItsOwnTab, Redeeming
  <2>1. Addressed(n) /\ codes \in Seq(Code)
    BY DEF IInv, OwnInv, ThreadInv, TInv, OutsideTyped
  <2>2. ASSUME worker[n].pc \in Redeeming
        PROVE  codes[worker[n].code] =
                 [provider |-> worker[n].provider, client |-> worker[n].client,
                  port |-> worker[n].port, challenge |-> challenge_for(n)]
    <3>1. codes[worker[n].code] \in Code /\ Ours(n, codes[worker[n].code])
      BY <2>1, <2>2, ElementOfSeq DEF Addressed
    <3>2. worker[n].pc \in Using
      BY <2>2 DEF Redeeming, Using, Holding
    <3> QED BY <3>1, <3>2 DEF Ours, Code
  <2> QED BY <2>1, <2>2 DEF Addressed
<1> QED
  BY <1>1, Inductive, PTL

(* However the sign-in before it ended, a provider has one listener.       *)
THEOREM OneListener == Spec => []OneListenerEach
<1>1. IInv => OneListenerEach
  <2> SUFFICES ASSUME IInv, NEW q \in PORTS, NEW r \in PORTS, q # r,
                      bound[q] \in Numbers, bound[r] \in Numbers
               PROVE  worker[bound[q]].provider # worker[bound[r]].provider
    BY DEF OneListenerEach
  <2>1. /\ worker[bound[q]].pc \in Holding /\ worker[bound[q]].port = q
        /\ worker[bound[r]].pc \in Holding /\ worker[bound[r]].port = r
    BY DEF IInv, PortInv
  <2>2. bound[q] # bound[r] /\ Active(bound[q]) /\ Active(bound[r])
    BY <2>1 DEF Active, Holding
  <2> QED BY <2>2 DEF IInv, SlotInv
<1> QED
  BY <1>1, Inductive, PTL
=============================================================================
