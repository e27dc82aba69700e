---------------------------- MODULE SessionProofs ----------------------------
(***************************************************************************)
(* Proofs about Session: its types, the sign-in slot, that a refresh token *)
(* in force is one the provider accepts, what ends a session, and that the *)
(* file follows memory.                                                    *)
(***************************************************************************)
EXTENDS Session, TLAPS

(* The tokens of one id, of the first n issued.                            *)
Of(i, n) == {NoToken} \cup ({i} \X (1..n))

(* A worker looks and acts for one id, and goes where its kind may go.     *)
Sound(r, n) ==
  /\ r \in Worker
  /\ r.held \in Of(r.id, n) /\ r.fresh \in Of(r.id, n) /\ r.snap.token \in Of(r.id, n)
  /\ r.pc = "idle" <=> r.kind = "none"
  /\ r.pc = "target" => r.kind # "signin"
  /\ r.pc \in {"idle", "target", "documents"} => r.held = NoToken
  /\ r.pc \in {"snapshot", "save"} => r.next \in {"finish", "browser", "call"}
  /\ r.pc = "exchange" => r.held # NoToken
  /\ r.pc = "revoke" => r.kind = "signout"
  /\ r.fresh # NoToken => r.pc \in {"store", "install"}
  /\ r.pc # "save" => r.snap = NoFile
  /\ ~r.snap.known => r.snap.token = NoToken

WorkersSound ==
  /\ worker \in [Workers -> Worker]
  /\ \A w \in Workers : Sound(worker[w], issued)

(* An entry holds a token of its own id, and none once it is removed.      *)
EntriesSound(m, n) ==
  /\ m \in [Ids -> Entry]
  /\ \A i \in Ids : m[i].token \in Of(i, n) /\ (~m[i].known => m[i].token = NoToken)

FilesSound(f, n) ==
  /\ f \in [Ids -> Stored]
  /\ \A i \in Ids : f[i].token \in Of(i, n) /\ (~f[i].known => f[i].token = NoToken)

ServerSound ==
  /\ issued \in 0..MaxTokens
  /\ valid \subseteq Tokens /\ withdrawn \subseteq Tokens
  /\ \A t \in valid : t[2] <= issued

RestSound ==
  /\ signing_in \in BOOLEAN
  /\ view \in View /\ rebuild \in BOOLEAN
  /\ behind \in BOOLEAN /\ silent \in BOOLEAN /\ signed_out \in BOOLEAN
  /\ starts \in 0..MaxStarts /\ restarts \in 0..MaxRestarts /\ failures \in 0..MaxFailures

TInv ==
  /\ EntriesSound(memory, issued) /\ FilesSound(file, issued)
  /\ WorkersSound /\ ServerSound /\ RestSound

(* A token just issued is known to the worker it was issued to only.       *)
Private ==
  \A w \in Workers : worker[w].fresh # NoToken =>
    /\ worker[w].fresh \in valid \cup withdrawn
    /\ \A i \in Ids : memory[i].token # worker[w].fresh
    /\ \A v \in Workers : worker[v].held # worker[w].fresh
    /\ \A v \in Workers \ {w} : worker[v].fresh # worker[w].fresh

IInv == TInv /\ Private /\ StoredTokenAccepted

-----------------------------------------------------------------------------
(* One worker changes; more tokens may have been issued by then.           *)
LEMMA SoundLater ==
  ASSUME NEW r, NEW n \in Nat, NEW m \in Nat, n <= m, Sound(r, n)
  PROVE  Sound(r, m)
<1>1. ASSUME NEW i PROVE Of(i, n) \subseteq Of(i, m)
  BY DEF Of
<1> QED
  BY <1>1 DEF Sound

(* One worker changes, to something sound.                                 *)
LEMMA BecomesSound ==
  ASSUME NEW w \in Workers, NEW r, TInv, Becomes(w, r),
         issued' \in Nat, issued <= issued', Sound(r, issued')
  PROVE  WorkersSound'
<1>1. worker' = [worker EXCEPT ![w] = r] /\ r \in Worker /\ worker \in [Workers -> Worker]
  BY DEF Becomes, Sound, TInv, WorkersSound
<1>2. issued \in Nat
  BY BoundsAssumption DEF TInv, ServerSound
<1>3. ASSUME NEW v \in Workers PROVE Sound(worker'[v], issued')
  <2>1. CASE v = w
    BY <2>1, <1>1
  <2>2. CASE v # w
    <3>1. worker'[v] = worker[v]
      BY <2>2, <1>1
    <3>2. Sound(worker[v], issued)
      BY DEF TInv, WorkersSound
    <3>3. Sound(worker[v], issued')
      BY <3>2, <1>2, SoundLater
    <3> QED
      BY <3>1, <3>3
  <2> QED
    BY <2>1, <2>2
<1>4. worker' \in [Workers -> Worker]
  BY <1>1
<1> QED
  BY <1>3, <1>4 DEF WorkersSound

(* What a worker becomes in each kind of step.                             *)
LEMMA SnapSound ==
  ASSUME NEW n \in Nat, NEW r, Sound(r, n), r.pc = "snapshot",
         NEW f \in Stored, f.known, f.token \in Of(r.id, n)
  PROVE  Sound([r EXCEPT !.pc = "save", !.snap = f], n)
BY ZenonT(30), NoTokenAssumption DEF Sound, Worker, Places, Kinds, NoFile, Stored, Optional, Tokens, Of

LEMMA SaveSound ==
  ASSUME NEW n \in Nat, NEW r, Sound(r, n), r.pc = "save"
  PROVE  Sound([r EXCEPT !.pc = r.next, !.snap = NoFile], n)
BY ZenonT(30), NoTokenAssumption DEF Sound, Worker, Places, Kinds, NoFile, Stored, Optional, Tokens, Of

LEMMA GoToSound ==
  ASSUME NEW n \in Nat, NEW r, Sound(r, n), r.pc \notin {"idle", "save"}, r.fresh = NoToken,
         NEW pc \in {"browser", "token", "call", "list", "grant", "store", "forget", "finish"}
  PROVE  Sound([r EXCEPT !.pc = pc], n)
<1>1. r \in Worker /\ r.kind # "none" /\ r.snap = NoFile /\ (r.pc \notin {"store", "install"} => r.fresh = NoToken)
      /\ r.held \in Of(r.id, n) /\ r.fresh \in Of(r.id, n)
  BY DEF Sound
<1>2. NoFile.token = NoToken /\ ~NoFile.known /\ NoToken \in Of(r.id, n) /\ NoToken \in Optional
  BY DEF NoFile, Of, Optional
<1>3. Sound([r EXCEPT !.pc = pc], n)
  <2> DEFINE s == [r EXCEPT !.pc = pc]
  <2>1. s \in Worker /\ s.kind = r.kind /\ s.pc = pc /\ s.next = r.next /\ s.id = r.id
        /\ s.held = r.held /\ s.fresh = r.fresh /\ s.snap = r.snap
    BY <1>1, <1>2 DEF Worker, Places
  <2> HIDE DEF s
  <2>2. Sound(s, n)
    BY <2>1, <1>1, <1>2 DEF Sound
  <2> QED
    BY <2>2 DEF s
<1> QED
  BY <1>3

LEMMA ThenSaveSound ==
  ASSUME NEW n \in Nat, NEW r, Sound(r, n), r.pc \notin {"idle", "save"},
         NEW next \in {"finish", "browser", "call"}
  PROVE  /\ r.fresh = NoToken => Sound([r EXCEPT !.pc = "snapshot", !.next = next], n)
         /\ Sound([r EXCEPT !.pc = "snapshot", !.next = next, !.fresh = NoToken], n)
<1>1. r \in Worker /\ r.kind # "none" /\ r.snap = NoFile /\ (r.pc \notin {"store", "install"} => r.fresh = NoToken)
      /\ r.held \in Of(r.id, n) /\ r.fresh \in Of(r.id, n)
  BY DEF Sound
<1>2. NoFile.token = NoToken /\ ~NoFile.known /\ NoToken \in Of(r.id, n) /\ NoToken \in Optional
  BY DEF NoFile, Of, Optional
<1>3. ASSUME r.fresh = NoToken PROVE Sound([r EXCEPT !.pc = "snapshot", !.next = next], n)
  <2> DEFINE s == [r EXCEPT !.pc = "snapshot", !.next = next]
  <2>1. s \in Worker /\ s.kind = r.kind /\ s.pc = "snapshot" /\ s.next = next /\ s.id = r.id
        /\ s.held = r.held /\ s.fresh = r.fresh /\ s.snap = r.snap
    BY <1>1, <1>2 DEF Worker, Places
  <2> HIDE DEF s
  <2>2. Sound(s, n)
    BY <1>3, <2>1, <1>1, <1>2 DEF Sound
  <2> QED
    BY <2>2 DEF s
<1>4. Sound([r EXCEPT !.pc = "snapshot", !.next = next, !.fresh = NoToken], n)
  <2> DEFINE s == [r EXCEPT !.pc = "snapshot", !.next = next, !.fresh = NoToken]
  <2>1. s \in Worker /\ s.kind = r.kind /\ s.pc = "snapshot" /\ s.next = next /\ s.id = r.id
        /\ s.held = r.held /\ s.fresh = NoToken /\ s.snap = r.snap
    BY <1>1, <1>2 DEF Worker, Places
  <2> HIDE DEF s
  <2>2. Sound(s, n)
    BY <2>1, <1>1, <1>2 DEF Sound
  <2> QED
    BY <2>2 DEF s
<1> QED
  BY <1>3, <1>4

LEMMA FlagSound ==
  ASSUME NEW n \in Nat, NEW r, Sound(r, n), r.pc \notin {"idle", "save"}, r.fresh = NoToken,
         NEW pc \in {"call", "grant", "forget"}, NEW b \in BOOLEAN
  PROVE  /\ Sound([r EXCEPT !.pc = pc, !.again = b], n)
         /\ Sound([r EXCEPT !.pc = pc, !.refused = b], n)
         /\ Sound([r EXCEPT !.pc = pc, !.outdated = b], n)
<1>1. r \in Worker /\ r.kind # "none" /\ r.snap = NoFile /\ (r.pc \notin {"store", "install"} => r.fresh = NoToken)
      /\ r.held \in Of(r.id, n) /\ r.fresh \in Of(r.id, n)
  BY DEF Sound
<1>2. NoFile.token = NoToken /\ ~NoFile.known /\ NoToken \in Of(r.id, n) /\ NoToken \in Optional
  BY DEF NoFile, Of, Optional
<1>3. Sound([r EXCEPT !.pc = pc, !.again = b], n)
  <2> DEFINE s == [r EXCEPT !.pc = pc, !.again = b]
  <2>1. s \in Worker /\ s.kind = r.kind /\ s.pc = pc /\ s.next = r.next /\ s.id = r.id
        /\ s.held = r.held /\ s.fresh = r.fresh /\ s.snap = r.snap
    BY <1>1, <1>2 DEF Worker, Places
  <2> HIDE DEF s
  <2>2. Sound(s, n)
    BY <2>1, <1>1, <1>2 DEF Sound
  <2> QED
    BY <2>2 DEF s
<1>4. Sound([r EXCEPT !.pc = pc, !.refused = b], n)
  <2> DEFINE s == [r EXCEPT !.pc = pc, !.refused = b]
  <2>1. s \in Worker /\ s.kind = r.kind /\ s.pc = pc /\ s.next = r.next /\ s.id = r.id
        /\ s.held = r.held /\ s.fresh = r.fresh /\ s.snap = r.snap
    BY <1>1, <1>2 DEF Worker, Places
  <2> HIDE DEF s
  <2>2. Sound(s, n)
    BY <2>1, <1>1, <1>2 DEF Sound
  <2> QED
    BY <2>2 DEF s
<1>5. Sound([r EXCEPT !.pc = pc, !.outdated = b], n)
  <2> DEFINE s == [r EXCEPT !.pc = pc, !.outdated = b]
  <2>1. s \in Worker /\ s.kind = r.kind /\ s.pc = pc /\ s.next = r.next /\ s.id = r.id
        /\ s.held = r.held /\ s.fresh = r.fresh /\ s.snap = r.snap
    BY <1>1, <1>2 DEF Worker, Places
  <2> HIDE DEF s
  <2>2. Sound(s, n)
    BY <2>1, <1>1, <1>2 DEF Sound
  <2> QED
    BY <2>2 DEF s
<1> QED
  BY <1>3, <1>4, <1>5

LEMMA OutdatedSound ==
  ASSUME NEW n \in Nat, NEW r, Sound(r, n), NEW b \in BOOLEAN
  PROVE  Sound([r EXCEPT !.outdated = b], n)
BY DEF Sound, Worker

LEMMA BeginSound ==
  ASSUME NEW n \in Nat, NEW r, Sound(r, n), r.pc = "idle",
         NEW kind \in Kinds \ {"none"}, NEW pc \in {"target", "documents"},
         pc = "target" => kind # "signin"
  PROVE  Sound([r EXCEPT !.kind = kind, !.pc = pc], n)
BY ZenonT(30), NoTokenAssumption DEF Sound, Worker, Places, Kinds, NoFile, Stored, Optional, Tokens, Of

LEMMA DocsSound ==
  ASSUME NEW n \in Nat, NEW r, Sound(r, n), r.pc = "documents", NEW i \in Ids,
         NEW p \in {"finish", "snapshot"}, NEW q \in {"finish", "browser"}
  PROVE  Sound([r EXCEPT !.id = i, !.pc = p, !.next = q], n)
<1> DEFINE s == [r EXCEPT !.id = i, !.pc = p, !.next = q]
<1>1. r.held = NoToken /\ r.fresh = NoToken /\ r.snap = NoFile /\ r \in Worker
  BY DEF Sound
<1>2. /\ s \in Worker /\ s.held = NoToken /\ s.fresh = NoToken /\ s.snap = NoFile
      /\ s.pc = p /\ s.next = q /\ s.id = i /\ s.kind = r.kind
  BY <1>1 DEF Worker, Places
<1>3. NoFile.token = NoToken /\ ~NoFile.known
  BY DEF NoFile
<1>4. r.kind # "none"
  BY DEF Sound
<1> HIDE DEF s
<1>5. Sound(s, n)
  BY <1>2, <1>3, <1>4 DEF Sound, Of
<1> QED
  BY <1>5 DEF s

LEMMA TargetSound ==
  ASSUME NEW n \in Nat, NEW r, Sound(r, n), r.pc = "target", NEW i \in Ids,
         NEW t \in Of(i, n), t \in Optional
  PROVE  /\ r.kind = "signout" => Sound([r EXCEPT !.pc = "revoke", !.id = i, !.held = t], n)
         /\ Sound([r EXCEPT !.pc = "token", !.id = i], n)
<1>1. r.held = NoToken /\ r.fresh = NoToken /\ r.snap = NoFile /\ r \in Worker /\ r.kind # "none"
  BY DEF Sound
<1>2. NoFile.token = NoToken /\ ~NoFile.known /\ NoToken \in Of(i, n)
  BY DEF NoFile, Of
<1>3. ASSUME r.kind = "signout" PROVE Sound([r EXCEPT !.pc = "revoke", !.id = i, !.held = t], n)
  <2> DEFINE s == [r EXCEPT !.pc = "revoke", !.id = i, !.held = t]
  <2>1. /\ s \in Worker /\ s.held = t /\ s.fresh = NoToken /\ s.snap = NoFile
        /\ s.pc = "revoke" /\ s.id = i /\ s.kind = r.kind
    BY <1>1 DEF Worker, Places
  <2> HIDE DEF s
  <2>2. Sound(s, n)
    BY <1>3, <2>1, <1>1, <1>2 DEF Sound
  <2> QED
    BY <2>2 DEF s
<1>4. Sound([r EXCEPT !.pc = "token", !.id = i], n)
  <2> DEFINE s == [r EXCEPT !.pc = "token", !.id = i]
  <2>1. /\ s \in Worker /\ s.held = NoToken /\ s.fresh = NoToken /\ s.snap = NoFile
        /\ s.pc = "token" /\ s.id = i /\ s.kind = r.kind
    BY <1>1 DEF Worker, Places
  <2> HIDE DEF s
  <2>2. Sound(s, n)
    BY <2>1, <1>1, <1>2 DEF Sound
  <2> QED
    BY <2>2 DEF s
<1> QED
  BY <1>3, <1>4

LEMMA GrantSound ==
  ASSUME NEW n \in Nat, NEW r, Sound(r, n), r.pc = "grant", NEW t \in Of(r.id, n), t \in Optional
  PROVE  /\ t # NoToken => Sound([r EXCEPT !.pc = "exchange", !.held = t, !.outdated = FALSE], n)
         /\ Sound([r EXCEPT !.pc = "forget", !.held = t, !.refused = r.again], n)
<1>1. r \in Worker /\ r.kind # "none" /\ r.snap = NoFile /\ (r.pc \notin {"store", "install"} => r.fresh = NoToken)
      /\ r.held \in Of(r.id, n) /\ r.fresh \in Of(r.id, n)
  BY DEF Sound
<1>2. NoFile.token = NoToken /\ ~NoFile.known /\ NoToken \in Of(r.id, n) /\ NoToken \in Optional
  BY DEF NoFile, Of, Optional
<1>3. ASSUME t # NoToken PROVE Sound([r EXCEPT !.pc = "exchange", !.held = t, !.outdated = FALSE], n)
  <2> DEFINE s == [r EXCEPT !.pc = "exchange", !.held = t, !.outdated = FALSE]
  <2>1. s \in Worker /\ s.kind = r.kind /\ s.pc = "exchange" /\ s.next = r.next /\ s.id = r.id
        /\ s.held = t /\ s.fresh = r.fresh /\ s.snap = r.snap
    BY <1>1, <1>2 DEF Worker, Places
  <2> HIDE DEF s
  <2>2. Sound(s, n)
    BY <1>3, <2>1, <1>1, <1>2 DEF Sound
  <2> QED
    BY <2>2 DEF s
<1>4. Sound([r EXCEPT !.pc = "forget", !.held = t, !.refused = r.again], n)
  <2> DEFINE s == [r EXCEPT !.pc = "forget", !.held = t, !.refused = r.again]
  <2>1. s \in Worker /\ s.kind = r.kind /\ s.pc = "forget" /\ s.next = r.next /\ s.id = r.id
        /\ s.held = t /\ s.fresh = r.fresh /\ s.snap = r.snap
    BY <1>1, <1>2 DEF Worker, Places
  <2> HIDE DEF s
  <2>2. Sound(s, n)
    BY <2>1, <1>1, <1>2 DEF Sound
  <2> QED
    BY <2>2 DEF s
<1> QED
  BY <1>3, <1>4

LEMMA FreshSound ==
  ASSUME NEW n \in Nat, NEW r, Sound(r, n), r.pc \notin {"idle", "save"},
         NEW t \in Of(r.id, n), t \in Optional, NEW lists \in BOOLEAN
  PROVE  /\ Sound([r EXCEPT !.pc = "store", !.fresh = t], n)
         /\ Sound([r EXCEPT !.pc = "install", !.lists = lists, !.fresh = t], n)
         /\ r.fresh = NoToken => Sound([r EXCEPT !.pc = "install", !.lists = lists], n)
<1>1. r \in Worker /\ r.kind # "none" /\ r.snap = NoFile /\ (r.pc \notin {"store", "install"} => r.fresh = NoToken)
      /\ r.held \in Of(r.id, n) /\ r.fresh \in Of(r.id, n)
  BY DEF Sound
<1>2. NoFile.token = NoToken /\ ~NoFile.known /\ NoToken \in Of(r.id, n) /\ NoToken \in Optional
  BY DEF NoFile, Of, Optional
<1>3. Sound([r EXCEPT !.pc = "store", !.fresh = t], n)
  <2> DEFINE s == [r EXCEPT !.pc = "store", !.fresh = t]
  <2>1. s \in Worker /\ s.kind = r.kind /\ s.pc = "store" /\ s.next = r.next /\ s.id = r.id
        /\ s.held = r.held /\ s.fresh = t /\ s.snap = r.snap
    BY <1>1, <1>2 DEF Worker, Places
  <2> HIDE DEF s
  <2>2. Sound(s, n)
    BY <2>1, <1>1, <1>2 DEF Sound
  <2> QED
    BY <2>2 DEF s
<1>4. Sound([r EXCEPT !.pc = "install", !.lists = lists, !.fresh = t], n)
  <2> DEFINE s == [r EXCEPT !.pc = "install", !.lists = lists, !.fresh = t]
  <2>1. s \in Worker /\ s.kind = r.kind /\ s.pc = "install" /\ s.next = r.next /\ s.id = r.id
        /\ s.held = r.held /\ s.fresh = t /\ s.snap = r.snap
    BY <1>1, <1>2 DEF Worker, Places
  <2> HIDE DEF s
  <2>2. Sound(s, n)
    BY <2>1, <1>1, <1>2 DEF Sound
  <2> QED
    BY <2>2 DEF s
<1>5. ASSUME r.fresh = NoToken PROVE Sound([r EXCEPT !.pc = "install", !.lists = lists], n)
  <2> DEFINE s == [r EXCEPT !.pc = "install", !.lists = lists]
  <2>1. s \in Worker /\ s.kind = r.kind /\ s.pc = "install" /\ s.next = r.next /\ s.id = r.id
        /\ s.held = r.held /\ s.fresh = r.fresh /\ s.snap = r.snap
    BY <1>1, <1>2 DEF Worker, Places
  <2> HIDE DEF s
  <2>2. Sound(s, n)
    BY <1>5, <2>1, <1>1, <1>2 DEF Sound
  <2> QED
    BY <2>2 DEF s
<1> QED
  BY <1>3, <1>4, <1>5

LEMMA IdleSound ==
  ASSUME NEW n \in Nat PROVE Sound(Idle, n)
BY IdsAssumption DEF Idle, SomeId, Sound, Worker, Places, Kinds, NoFile, Stored, Optional, Tokens, Of

(* More tokens leave what was sound sound.                                 *)
LEMMA FewerTokens ==
  ASSUME NEW n \in Nat, NEW m \in Nat, n <= m
  PROVE  /\ \A e : EntriesSound(e, n) => EntriesSound(e, m)
         /\ \A f : FilesSound(f, n) => FilesSound(f, m)
         /\ \A i : Of(i, n) \subseteq Of(i, m)
<1>1. \A i : Of(i, n) \subseteq Of(i, m)
  BY DEF Of
<1> QED
  BY <1>1 DEF EntriesSound, FilesSound

(* What provider_for answers is a view.                                    *)
LEMMA ViewsAreViews ==
  ASSUME NEW m \in [Ids -> Entry] PROVE Views(m) \subseteq View
<1>1. \A e \in Entry : ViewOf(e) \in View
  BY DEF ViewOf, View, Entry, signed_in
<1>2. Unknown \in Entry
  BY DEF Unknown, Entry, Optional
<1> QED
  BY <1>1, <1>2 DEF Views

(* One entry changes.                                                      *)
LEMMA EntryBecomes ==
  ASSUME NEW m, NEW n \in Nat, EntriesSound(m, n), NEW i \in Ids, NEW e \in Entry,
         e.token \in Of(i, n), ~e.known => e.token = NoToken
  PROVE  EntriesSound([m EXCEPT ![i] = e], n)
BY DEF EntriesSound

(* What the changes of an entry leave in it.                               *)
LEMMA ForgottenEntry ==
  ASSUME NEW e \in Entry
  PROVE  Forgotten(e) \in Entry /\ Forgotten(e).token = NoToken /\ Forgotten(e).known = e.known
BY DEF Forgotten, Entry, Optional

LEMMA RenewedEntry ==
  ASSUME NEW e \in Entry, NEW t \in Optional
  PROVE  /\ Renewed(e, t) \in Entry /\ Renewed(e, t).known = e.known
         /\ Renewed(e, t).token = IF t = NoToken THEN e.token ELSE t
BY DEF Renewed, Entry, Optional

(* The invariant bounds what TypeOK bounds.                                *)
LEMMA Types == TInv => TypeOK
<1> SUFFICES ASSUME TInv PROVE TypeOK
  OBVIOUS
<1>1. \A i : Of(i, issued) \subseteq {NoToken} \cup ({i} \X (1..MaxTokens))
  BY BoundsAssumption DEF Of, TInv, ServerSound
<1>2. memory \in [Ids -> Entry] /\ file \in [Ids -> Stored]
  BY DEF TInv, EntriesSound, FilesSound
<1>3. \A i \in Ids : /\ memory[i].token \in {NoToken} \cup ({i} \X (1..MaxTokens))
                     /\ file[i].token \in {NoToken} \cup ({i} \X (1..MaxTokens))
  BY <1>1 DEF TInv, EntriesSound, FilesSound
<1>4. worker \in [Workers -> Worker]
  BY DEF TInv, WorkersSound
<1>5. \A w \in Workers : worker[w].pc = "exchange" => worker[w].held # NoToken
  BY DEF TInv, WorkersSound, Sound
<1> QED
  BY <1>2, <1>3, <1>4, <1>5 DEF TInv, ServerSound, RestSound, TypeOK

(* No tokens, no entries, and nobody at work.                              *)
LEMMA TInit == Init => TInv
<1> SUFFICES ASSUME Init PROVE TInv
  OBVIOUS
<1>1. Unknown \in Entry /\ Unknown.token = NoToken /\ NoFile \in Stored /\ NoFile.token = NoToken
  BY DEF Unknown, Entry, NoFile, Stored, Optional
<1>2. \A i : NoToken \in Of(i, 0)
  BY DEF Of
<1>3. EntriesSound(memory, 0) /\ FilesSound(file, 0)
  BY <1>1, <1>2 DEF Init, EntriesSound, FilesSound
<1>4. Sound(Idle, 0)
  BY IdleSound
<1>5. WorkersSound
  BY <1>4 DEF Init, WorkersSound, Sound
<1>6. RestSound
  <2>1. view \in View
    BY <1>1 DEF Init, View, ViewOf, Entry, signed_in
  <2>2. starts \in 0..MaxStarts /\ restarts \in 0..MaxRestarts /\ failures \in 0..MaxFailures
    BY BoundsAssumption DEF Init
  <2> QED
    BY <2>1, <2>2 DEF Init, RestSound
<1> QED
  BY <1>3, <1>5, <1>6, BoundsAssumption DEF Init, TInv, ServerSound

(* Every step keeps the types.                                             *)
LEMMA TNext == TInv /\ [Next]_vars => TInv'
<1> SUFFICES ASSUME TInv, [Next]_vars PROVE TInv'
  OBVIOUS
<1> USE BoundsAssumption
<1>a. /\ EntriesSound(memory, issued) /\ FilesSound(file, issued) /\ WorkersSound /\ ServerSound /\ RestSound
      /\ issued \in 0..MaxTokens /\ issued \in Nat
      /\ memory \in [Ids -> Entry] /\ file \in [Ids -> Stored]
  BY DEF TInv, ServerSound, EntriesSound, FilesSound
<1>b. \A w \in Workers : Sound(worker[w], issued) /\ worker[w].id \in Ids
  BY DEF TInv, WorkersSound, Sound, Worker
<1>c. \A w \in Workers : memory[worker[w].id] \in Entry /\ memory[worker[w].id].token \in Of(worker[w].id, issued)
  BY <1>a, <1>b DEF EntriesSound
<1>1. ASSUME NEW w \in Workers, ClickSignIn(w) PROVE TInv'
  <2>2. \/ Begin(w, "refresh", "target")
        \/ Begin(w, "signin", "documents")
    BY <1>1 DEF ClickSignIn
  <2>3. signing_in' \in BOOLEAN
    BY <1>1, <1>a DEF ClickSignIn, RestSound
  <2>4. PICK kind \in Kinds \ {"none"}, pc \in {"target", "documents"} :
          Begin(w, kind, pc) /\ (pc = "target" => kind # "signin")
    BY <2>2 DEF Kinds
  <2>5. UNCHANGED <<memory, file, issued, valid, withdrawn>>
    BY <2>4 DEF Begin, server, history
  <2>6. Sound([worker[w] EXCEPT !.kind = kind, !.pc = pc], issued)
    BY <2>4, <1>a, <1>b, BeginSound DEF Begin
  <2>7. WorkersSound'
    BY <2>4, <2>5, <2>6, <1>a, BecomesSound DEF Begin
  <2>8. RestSound'
    BY <2>3, <2>4, <1>a DEF RestSound, Begin, dialog, history
  <2> QED
    BY <2>5, <2>7, <2>8, <1>a DEF TInv, EntriesSound, FilesSound, ServerSound
<1>2. ASSUME NEW w \in Workers, ClickSignOut(w) PROVE TInv'
  <2>2. Begin(w, "signout", "target")
    BY <1>2 DEF ClickSignOut
  <2>3. signing_in' \in BOOLEAN
    BY <1>2, <1>a DEF ClickSignOut, RestSound
  <2>4. PICK kind \in Kinds \ {"none"}, pc \in {"target", "documents"} :
          Begin(w, kind, pc) /\ (pc = "target" => kind # "signin")
    BY <2>2 DEF Kinds
  <2>5. UNCHANGED <<memory, file, issued, valid, withdrawn>>
    BY <2>4 DEF Begin, server, history
  <2>6. Sound([worker[w] EXCEPT !.kind = kind, !.pc = pc], issued)
    BY <2>4, <1>a, <1>b, BeginSound DEF Begin
  <2>7. WorkersSound'
    BY <2>4, <2>5, <2>6, <1>a, BecomesSound DEF Begin
  <2>8. RestSound'
    BY <2>3, <2>4, <1>a DEF RestSound, Begin, dialog, history
  <2> QED
    BY <2>5, <2>7, <2>8, <1>a DEF TInv, EntriesSound, FilesSound, ServerSound
<1>3. ASSUME NEW w \in Workers, PickIngest(w) PROVE TInv'
  <2>2. Begin(w, "pick", "target")
    BY <1>3 DEF PickIngest
  <2>3. signing_in' \in BOOLEAN
    BY <1>3, <1>a DEF PickIngest, RestSound
  <2>4. PICK kind \in Kinds \ {"none"}, pc \in {"target", "documents"} :
          Begin(w, kind, pc) /\ (pc = "target" => kind # "signin")
    BY <2>2 DEF Kinds
  <2>5. UNCHANGED <<memory, file, issued, valid, withdrawn>>
    BY <2>4 DEF Begin, server, history
  <2>6. Sound([worker[w] EXCEPT !.kind = kind, !.pc = pc], issued)
    BY <2>4, <1>a, <1>b, BeginSound DEF Begin
  <2>7. WorkersSound'
    BY <2>4, <2>5, <2>6, <1>a, BecomesSound DEF Begin
  <2>8. RestSound'
    BY <2>3, <2>4, <1>a DEF RestSound, Begin, dialog, history
  <2> QED
    BY <2>5, <2>7, <2>8, <1>a DEF TInv, EntriesSound, FilesSound, ServerSound
<1>4. ASSUME NEW w \in Workers, WatchResolves(w) PROVE TInv'
  <2>2. Begin(w, "watch", "target")
    BY <1>4 DEF WatchResolves
  <2>3. signing_in' \in BOOLEAN
    BY <1>4, <1>a DEF WatchResolves, RestSound
  <2>4. PICK kind \in Kinds \ {"none"}, pc \in {"target", "documents"} :
          Begin(w, kind, pc) /\ (pc = "target" => kind # "signin")
    BY <2>2 DEF Kinds
  <2>5. UNCHANGED <<memory, file, issued, valid, withdrawn>>
    BY <2>4 DEF Begin, server, history
  <2>6. Sound([worker[w] EXCEPT !.kind = kind, !.pc = pc], issued)
    BY <2>4, <1>a, <1>b, BeginSound DEF Begin
  <2>7. WorkersSound'
    BY <2>4, <2>5, <2>6, <1>a, BecomesSound DEF Begin
  <2>8. RestSound'
    BY <2>3, <2>4, <1>a DEF RestSound, Begin, dialog, history
  <2> QED
    BY <2>5, <2>7, <2>8, <1>a DEF TInv, EntriesSound, FilesSound, ServerSound
<1>5. ASSUME NEW w \in Workers, Snapshot(w) PROVE TInv'
  <2>1. UNCHANGED <<memory, file, issued, valid, withdrawn>>
    BY <1>5 DEF Snapshot, server, dialog, history, bounds
  <2>5. WorkersSound'
    <3>1. worker[w].fresh = NoToken /\ worker[w].pc = "snapshot" /\ worker[w].next \in {"finish", "browser", "call"}
      BY <1>5, <1>b DEF Snapshot, at, Sound
    <3>2. CASE memory[worker[w].id].known /\ Becomes(w, [worker[w] EXCEPT !.pc = "save", !.snap = ToFile(memory[worker[w].id])])
      <4>1. ToFile(memory[worker[w].id]) \in Stored /\ ToFile(memory[worker[w].id]).known
            /\ ToFile(memory[worker[w].id]).token = memory[worker[w].id].token
        BY <3>2, <1>c DEF ToFile, Stored, Entry
      <4>2. Sound([worker[w] EXCEPT !.pc = "save", !.snap = ToFile(memory[worker[w].id])], issued)
        BY <4>1, <3>1, <1>a, <1>b, <1>c, SnapSound
      <4> QED
        BY <4>2, <3>2, <2>1, <1>a, BecomesSound
    <3>3. CASE GoTo(w, worker[w].next)
      <4>1. Sound([worker[w] EXCEPT !.pc = worker[w].next], issued)
        BY <3>1, <1>a, <1>b, GoToSound
      <4> QED
        BY <3>3, <4>1, <2>1, <1>a, BecomesSound DEF GoTo
    <3> QED
      BY <1>5, <3>2, <3>3 DEF Snapshot
  <2>6. RestSound'
    BY <1>5, <1>a DEF RestSound, Snapshot, server, dialog, history, bounds
  <2> QED
    BY <2>1, <2>5, <2>6, <1>a DEF TInv, EntriesSound, FilesSound, ServerSound
<1>6. ASSUME NEW w \in Workers, Save(w) PROVE TInv'
  <2>1. UNCHANGED <<memory, issued, valid, withdrawn>>
    BY <1>6 DEF Save, server
  <2>2. worker[w].pc = "save" /\ worker[w].snap \in Stored /\ worker[w].snap.token \in Of(worker[w].id, issued)
        /\ (~worker[w].snap.known => worker[w].snap.token = NoToken)
    BY <1>6, <1>b DEF Save, at, Sound, Worker
  <2>3. Sound([worker[w] EXCEPT !.pc = worker[w].next, !.snap = NoFile], issued)
    BY <2>2, <1>a, <1>b, SaveSound
  <2>4. WorkersSound'
    BY <1>6, <2>1, <2>3, <1>a, BecomesSound DEF Save
  <2>5. FilesSound(file', issued)
    BY <1>6, <2>2, <1>a, <1>b DEF Save, FilesSound
  <2>6. RestSound'
    <3>1. failures' \in 0..MaxFailures
      BY <1>6, <1>a DEF Save, RestSound
    <3>2. behind' \in BOOLEAN
      BY <1>6, <1>a DEF Save, RestSound
    <3> QED
      BY <1>6, <3>1, <3>2, <1>a DEF Save, RestSound, dialog
  <2> QED
    BY <2>1, <2>4, <2>5, <2>6, <1>a DEF TInv, EntriesSound, ServerSound
<1>7. ASSUME NEW w \in Workers, Forget(w) PROVE TInv'
  <2>1. UNCHANGED <<file, issued, valid, withdrawn>>
    BY <1>7 DEF Forget, server
  <2>2. worker[w].fresh = NoToken /\ worker[w].pc \notin {"idle", "save"}
    BY <1>7, <1>b DEF Forget, at, Sound
  <2>3. Sound([worker[w] EXCEPT !.pc = "snapshot", !.next = "finish"], issued)
    BY <2>2, <1>a, <1>b, ThenSaveSound
  <2>4. WorkersSound'
    BY <1>7, <2>1, <2>3, <1>a, BecomesSound DEF Forget
  <2>5. EntriesSound(memory', issued)
    <3>1. memory' = [memory EXCEPT ![worker[w].id] = Forgotten(memory[worker[w].id])]
      BY <1>7, <1>a, <1>b DEF Forget, Change
    <3>2. NoToken \in Of(worker[w].id, issued)
      BY DEF Of
    <3> QED
      BY <3>1, <3>2, <1>a, <1>b, <1>c, ForgottenEntry, EntryBecomes
  <2>6. RestSound'
    BY <1>7, <1>a DEF Forget, Change, RestSound, bounds
  <2> QED
    BY <2>1, <2>4, <2>5, <2>6, <1>a DEF TInv, FilesSound, ServerSound
<1>8. ASSUME NEW w \in Workers, Finish(w) PROVE TInv'
  <2>1. UNCHANGED <<memory, file, issued, valid, withdrawn>>
    BY <1>8 DEF Finish, server, dialog, history, bounds
  <2>5. WorkersSound'
    BY <1>8, <2>1, <1>a, IdleSound, BecomesSound DEF Finish
  <2>6. RestSound'
    BY <1>8, <1>a DEF RestSound, Finish, server, dialog, history, bounds
  <2> QED
    BY <2>1, <2>5, <2>6, <1>a DEF TInv, EntriesSound, FilesSound, ServerSound
<1>9. ASSUME NEW w \in Workers, DiscoveryFails(w) PROVE TInv'
  <2>1. UNCHANGED <<memory, file, issued, valid, withdrawn>>
    BY <1>9 DEF DiscoveryFails, server, dialog, history, bounds
  <2>5. WorkersSound'
    <3>1. worker[w].fresh = NoToken /\ worker[w].pc \notin {"idle", "save"}
      BY <1>9, <1>b DEF DiscoveryFails, at, Sound
    <3>2. Sound([worker[w] EXCEPT !.pc = "finish"], issued)
      BY <3>1, <1>a, <1>b, GoToSound
    <3> QED
      BY <1>9, <3>2, <2>1, <1>a, BecomesSound DEF DiscoveryFails, GoTo
  <2>6. RestSound'
    BY <1>9, <1>a DEF RestSound, DiscoveryFails, server, dialog, history, bounds
  <2> QED
    BY <2>1, <2>5, <2>6, <1>a DEF TInv, EntriesSound, FilesSound, ServerSound
<1>10. ASSUME NEW w \in Workers, Documents(w) PROVE TInv'
  <2>1. UNCHANGED <<issued, valid, withdrawn>>
    BY <1>10 DEF Documents, server, history
  <2>2. PICK i \in Ids, way \in {<<"finish", "finish">>, <<"snapshot", "finish">>, <<"snapshot", "browser">>} :
          /\ Change(w, [j \in Ids |-> IF j = i THEN Remembered(i) ELSE Unknown])
          /\ file' = [j \in Ids |-> IF j # i /\ memory[j].known THEN NoFile ELSE file[j]]
          /\ Becomes(w, [worker[w] EXCEPT !.id = i, !.pc = way[1], !.next = way[2]])
    BY <1>10 DEF Documents
  <2>3. Sound([worker[w] EXCEPT !.id = i, !.pc = way[1], !.next = way[2]], issued)
    <3>1. worker[w].pc = "documents" /\ way[1] \in {"finish", "snapshot"} /\ way[2] \in {"finish", "browser"}
      BY <1>10 DEF Documents, at
    <3> QED
      BY <3>1, <1>a, <1>b, DocsSound
  <2>4. WorkersSound'
    BY <2>1, <2>2, <2>3, <1>a, BecomesSound
  <2>5. EntriesSound(memory', issued)
    <3>1. /\ Remembered(i) \in Entry /\ Remembered(i).token = memory[i].token /\ Remembered(i).known
          /\ memory[i].token \in Of(i, issued)
      BY <1>a DEF Remembered, Entry, EntriesSound
    <3>2. Unknown \in Entry /\ Unknown.token = NoToken
      BY DEF Unknown, Entry, Optional
    <3>3. \A j : NoToken \in Of(j, issued)
      BY DEF Of
    <3> QED
      BY <2>2, <3>1, <3>2, <3>3 DEF Change, EntriesSound
  <2>6. FilesSound(file', issued)
    <3>1. NoFile \in Stored /\ NoFile.token = NoToken /\ \A j : NoToken \in Of(j, issued)
      BY DEF NoFile, Stored, Optional, Of
    <3> QED
      BY <2>2, <3>1, <1>a DEF FilesSound
  <2>7. RestSound'
    BY <1>10, <2>2, <1>a DEF Documents, Change, RestSound, bounds, history
  <2> QED
    BY <2>1, <2>4, <2>5, <2>6, <2>7, <1>a DEF TInv, ServerSound
<1>11. ASSUME NEW w \in Workers, SignInAbandoned(w) PROVE TInv'
  <2>1. UNCHANGED <<memory, file, issued, valid, withdrawn>>
    BY <1>11 DEF SignInAbandoned, server, dialog, history, bounds
  <2>5. WorkersSound'
    <3>1. worker[w].fresh = NoToken /\ worker[w].pc \notin {"idle", "save"}
      BY <1>11, <1>b DEF SignInAbandoned, at, Sound
    <3>2. Sound([worker[w] EXCEPT !.pc = "finish"], issued)
      BY <3>1, <1>a, <1>b, GoToSound
    <3> QED
      BY <1>11, <3>2, <2>1, <1>a, BecomesSound DEF SignInAbandoned, GoTo
  <2>6. RestSound'
    BY <1>11, <1>a DEF RestSound, SignInAbandoned, server, dialog, history, bounds
  <2> QED
    BY <2>1, <2>5, <2>6, <1>a DEF TInv, EntriesSound, FilesSound, ServerSound
<1>12. ASSUME NEW w \in Workers, CodeExchanged(w) PROVE TInv'
  <2>1. UNCHANGED <<memory, file, withdrawn>>
    BY <1>12 DEF CodeExchanged, history
  <2>9. RestSound'
    BY <1>12, <1>a DEF CodeExchanged, RestSound, dialog, bounds, history
  <2>3. worker[w].fresh = NoToken /\ worker[w].pc \notin {"idle", "save"}
    BY <1>12, <1>b DEF CodeExchanged, at, Sound
  <2>2. CASE Issue(worker[w].id, {})
    <3>1. issued' = issued + 1 /\ issued' \in 0..MaxTokens /\ issued \in Nat /\ issued' \in Nat /\ issued <= issued'
      BY <2>2, <1>a DEF Issue
    <3>2. <<worker[w].id, issued + 1>> \in Tokens /\ <<worker[w].id, issued + 1>> \in Optional
          /\ <<worker[w].id, issued + 1>> \in Of(worker[w].id, issued')
      BY <3>1, <1>b DEF Tokens, Optional, Of
    <3>3. Sound(worker[w], issued')
      BY <3>1, <1>a, <1>b, SoundLater
    <3>4. ServerSound'
      <4>1. \A t \in valid' : t[2] <= issued'
        <5>1. valid' \subseteq valid \cup {<<worker[w].id, issued + 1>>}
          BY <2>2 DEF Issue
        <5>2. \A t \in valid : t[2] \in Nat /\ t[2] <= issued
          BY <1>a DEF ServerSound, Tokens
        <5>3. \A t \in valid : t[2] <= issued'
          BY <5>2, <3>1
        <5>4. <<worker[w].id, issued + 1>>[2] <= issued'
          BY <3>1
        <5> QED
          BY <5>1, <5>3, <5>4
      <4>2. valid' \subseteq Tokens /\ withdrawn' \subseteq Tokens
        BY <2>1, <2>2, <3>2, <1>a DEF Issue, ServerSound
      <4> QED
        BY <4>1, <4>2, <3>1 DEF ServerSound
    <3>5. EntriesSound(memory', issued') /\ FilesSound(file', issued')
      BY <2>1, <3>1, <1>a, FewerTokens
    <3>6. WorkersSound'
      <4>1. PICK lists \in BOOLEAN :
              \/ Becomes(w, [worker[w] EXCEPT !.pc = "install", !.lists = lists, !.fresh = <<worker[w].id, issued + 1>>])
              \/ Becomes(w, [worker[w] EXCEPT !.pc = "install", !.lists = lists])
        BY <1>12 DEF CodeExchanged
      <4>2. /\ Sound([worker[w] EXCEPT !.pc = "install", !.lists = lists, !.fresh = <<worker[w].id, issued + 1>>], issued')
            /\ Sound([worker[w] EXCEPT !.pc = "install", !.lists = lists], issued')
        BY <3>1, <3>2, <3>3, <2>3, FreshSound
      <4> QED
        BY <4>1, <4>2, <3>1, BecomesSound
    <3> QED
      BY <3>4, <3>5, <3>6, <2>9 DEF TInv
  <2>4. CASE UNCHANGED server /\ \E lists \in BOOLEAN : Becomes(w, [worker[w] EXCEPT !.pc = "install", !.lists = lists])
    <3>1. PICK lists \in BOOLEAN : Becomes(w, [worker[w] EXCEPT !.pc = "install", !.lists = lists])
      BY <2>4
    <3>2. NoToken \in Of(worker[w].id, issued) /\ NoToken \in Optional
      BY DEF Of, Optional
    <3>3. Sound([worker[w] EXCEPT !.pc = "install", !.lists = lists], issued)
      BY <3>2, <2>3, <1>a, <1>b, FreshSound
    <3>4. WorkersSound' /\ issued' = issued
      BY <2>4, <3>1, <3>3, <1>a, BecomesSound DEF server
    <3> QED
      BY <2>1, <2>4, <2>9, <3>4, <1>a DEF TInv, EntriesSound, FilesSound, ServerSound, server
  <2> QED
    BY <1>12, <2>2, <2>4 DEF CodeExchanged
<1>13. ASSUME NEW w \in Workers, Install(w) PROVE TInv'
  <2>1. UNCHANGED <<file, issued, valid, withdrawn>>
    BY <1>13 DEF Install, server, history
  <2>2. worker[w].pc \notin {"idle", "save"}
    BY <1>13 DEF Install, at
  <2>3. Sound([worker[w] EXCEPT !.pc = "snapshot", !.next = "finish", !.fresh = NoToken], issued)
    BY <2>2, <1>a, <1>b, ThenSaveSound
  <2>4. WorkersSound'
    <3>1. \A v \in Workers : worker'[v] = IF v = w THEN [worker[w] EXCEPT !.pc = "snapshot", !.next = "finish", !.fresh = NoToken]
                                          ELSE [worker[v] EXCEPT !.outdated = @ \/ worker[v].id = [worker[w] EXCEPT !.pc = "snapshot", !.next = "finish", !.fresh = NoToken].id]
      BY <1>13 DEF Install, Renew
    <3>2. \A v \in Workers : Sound(worker'[v], issued)
      <4> TAKE v \in Workers
      <4>1. CASE v = w
        BY <4>1, <3>1, <2>3
      <4>2. CASE v # w
        <5>1. worker[v].outdated \in BOOLEAN
          BY <1>b DEF Sound, Worker
        <5>2. PICK b \in BOOLEAN : worker'[v] = [worker[v] EXCEPT !.outdated = b]
          BY <4>2, <3>1, <5>1
        <5> QED
          BY <5>2, <1>a, <1>b, OutdatedSound
      <4> QED
        BY <4>1, <4>2
    <3>3. worker' \in [Workers -> Worker]
      BY <1>13, <3>2 DEF Install, Renew, Sound
    <3> QED
      BY <3>2, <3>3, <2>1 DEF WorkersSound
  <2>5. EntriesSound(memory', issued)
    <3>1. CASE memory[worker[w].id].known
      <4> DEFINE e == [known |-> TRUE, token |-> worker[w].fresh, listed |-> worker[w].lists, access |-> TRUE]
      <4>1. memory' = [memory EXCEPT ![worker[w].id] = e]
        BY <1>13, <3>1 DEF Install, Change
      <4>2. e \in Entry /\ e.token \in Of(worker[w].id, issued) /\ e.known
        BY <1>b DEF Entry, Sound, Worker
      <4> HIDE DEF e
      <4> QED
        BY <4>1, <4>2, <1>a, <1>b, EntryBecomes
    <3>2. CASE ~memory[worker[w].id].known
      BY <1>13, <3>2, <1>a DEF Install, Change
    <3> QED
      BY <3>1, <3>2
  <2>6. RestSound'
    BY <1>13, <1>a DEF Install, Change, RestSound, bounds, history
  <2> QED
    BY <2>1, <2>4, <2>5, <2>6, <1>a DEF TInv, FilesSound, ServerSound
<1>14. ASSUME NEW w \in Workers, Store(w) PROVE TInv'
  <2>1. UNCHANGED <<file, issued, valid, withdrawn>>
    BY <1>14 DEF Store, server, history
  <2>2. worker[w].pc \notin {"idle", "save"}
    BY <1>14 DEF Store, at
  <2>3. Sound([worker[w] EXCEPT !.pc = "snapshot", !.next = "call", !.fresh = NoToken], issued)
    BY <2>2, <1>a, <1>b, ThenSaveSound
  <2>4. WorkersSound'
    <3>1. \A v \in Workers : worker'[v] = IF v = w THEN [worker[w] EXCEPT !.pc = "snapshot", !.next = "call", !.fresh = NoToken]
                                          ELSE [worker[v] EXCEPT !.outdated = @ \/ worker[v].id = [worker[w] EXCEPT !.pc = "snapshot", !.next = "call", !.fresh = NoToken].id]
      BY <1>14 DEF Store, Renew
    <3>2. \A v \in Workers : Sound(worker'[v], issued)
      <4> TAKE v \in Workers
      <4>1. CASE v = w
        BY <4>1, <3>1, <2>3
      <4>2. CASE v # w
        <5>1. worker[v].outdated \in BOOLEAN
          BY <1>b DEF Sound, Worker
        <5>2. PICK b \in BOOLEAN : worker'[v] = [worker[v] EXCEPT !.outdated = b]
          BY <4>2, <3>1, <5>1
        <5> QED
          BY <5>2, <1>a, <1>b, OutdatedSound
      <4> QED
        BY <4>1, <4>2
    <3>3. worker' \in [Workers -> Worker]
      BY <1>14, <3>2 DEF Store, Renew, Sound
    <3> QED
      BY <3>2, <3>3, <2>1 DEF WorkersSound
  <2>5. EntriesSound(memory', issued)
    <3>1. CASE memory[worker[w].id].known
      <4> DEFINE e == Renewed(memory[worker[w].id], worker[w].fresh)
      <4>1. memory' = [memory EXCEPT ![worker[w].id] = e]
        BY <1>14, <3>1, <1>a, <1>b DEF Store, Change
      <4>2. worker[w].fresh \in Optional /\ worker[w].fresh \in Of(worker[w].id, issued)
        BY <1>b DEF Sound, Worker
      <4>3. e \in Entry /\ e.token \in Of(worker[w].id, issued) /\ e.known
        BY <3>1, <4>2, <1>c, RenewedEntry
      <4> HIDE DEF e
      <4> QED
        BY <4>1, <4>3, <1>a, <1>b, EntryBecomes
    <3>2. CASE ~memory[worker[w].id].known
      BY <1>14, <3>2, <1>a DEF Store, Change
    <3> QED
      BY <3>1, <3>2
  <2>6. RestSound'
    BY <1>14, <1>a DEF Store, Change, RestSound, bounds, history
  <2> QED
    BY <2>1, <2>4, <2>5, <2>6, <1>a DEF TInv, FilesSound, ServerSound
<1>15. ASSUME NEW w \in Workers, TargetFound(w) PROVE TInv'
  <2>1. UNCHANGED <<memory, file, issued, valid, withdrawn>>
    BY <1>15 DEF TargetFound, server, dialog, history, bounds
  <2>5. WorkersSound'
    <3>1. PICK i \in Ids :
            \/ worker[w].kind = "signout" /\ Becomes(w, [worker[w] EXCEPT !.pc = "revoke", !.id = i, !.held = memory[i].token])
            \/ Becomes(w, [worker[w] EXCEPT !.pc = "token", !.id = i])
      BY <1>15 DEF TargetFound
    <3>2. memory[i].token \in Of(i, issued) /\ memory[i].token \in Optional
      BY <1>a DEF EntriesSound, Entry
    <3>3. worker[w].pc = "target"
      BY <1>15 DEF TargetFound, at
    <3>4. /\ worker[w].kind = "signout" =>
               Sound([worker[w] EXCEPT !.pc = "revoke", !.id = i, !.held = memory[i].token], issued)
          /\ Sound([worker[w] EXCEPT !.pc = "token", !.id = i], issued)
      BY <3>2, <3>3, <1>a, <1>b, TargetSound
    <3> QED
      BY <3>1, <3>4, <2>1, <1>a, BecomesSound
  <2>6. RestSound'
    BY <1>15, <1>a DEF RestSound, TargetFound, server, dialog, history, bounds
  <2> QED
    BY <2>1, <2>5, <2>6, <1>a DEF TInv, EntriesSound, FilesSound, ServerSound
<1>16. ASSUME NEW w \in Workers, TargetMissing(w) PROVE TInv'
  <2>1. UNCHANGED <<memory, file, issued, valid, withdrawn>>
    BY <1>16 DEF TargetMissing, server, dialog, history, bounds
  <2>5. WorkersSound'
    BY <1>16, <2>1, <1>a, IdleSound, BecomesSound DEF TargetMissing
  <2>6. RestSound'
    BY <1>16, <1>a DEF RestSound, TargetMissing, server, dialog, history, bounds
  <2> QED
    BY <2>1, <2>5, <2>6, <1>a DEF TInv, EntriesSound, FilesSound, ServerSound
<1>17. ASSUME NEW w \in Workers, Revoke(w) PROVE TInv'
  <2>1. UNCHANGED <<memory, file, issued, withdrawn>> /\ valid' \subseteq valid
    BY <1>17 DEF Revoke, history
  <2>2. worker[w].fresh = NoToken /\ worker[w].pc \notin {"idle", "save"}
    BY <1>17, <1>b DEF Revoke, at, Sound
  <2>3. WorkersSound'
    <3>1. Sound([worker[w] EXCEPT !.pc = "forget"], issued)
      BY <2>2, <1>a, <1>b, GoToSound
    <3> QED
      BY <1>17, <3>1, <2>1, <1>a, BecomesSound DEF Revoke, GoTo
  <2>4. RestSound'
    BY <1>17, <1>a DEF Revoke, RestSound, dialog, bounds, history
  <2>5. ServerSound'
    BY <2>1, <1>a DEF ServerSound
  <2> QED
    BY <2>1, <2>3, <2>4, <2>5, <1>a DEF TInv, EntriesSound, FilesSound
<1>18. ASSUME NEW w \in Workers, CurrentToken(w) PROVE TInv'
  <2>1. UNCHANGED <<memory, file, issued, valid, withdrawn>>
    BY <1>18 DEF CurrentToken, server, dialog, history, bounds
  <2>5. WorkersSound'
    <3>1. worker[w].fresh = NoToken /\ worker[w].pc \notin {"idle", "save"}
      BY <1>18, <1>b DEF CurrentToken, at, Sound
    <3>2. PICK pc \in {"call", "grant", "forget"} : Becomes(w, [worker[w] EXCEPT !.pc = pc, !.outdated = FALSE])
      BY <1>18 DEF CurrentToken
    <3> QED
      <4>1. Sound([worker[w] EXCEPT !.pc = pc, !.outdated = FALSE], issued)
        BY <3>1, <1>a, <1>b, FlagSound
      <4> QED
        BY <3>2, <4>1, <2>1, <1>a, BecomesSound
  <2>6. RestSound'
    BY <1>18, <1>a DEF RestSound, CurrentToken, server, dialog, history, bounds
  <2> QED
    BY <2>1, <2>5, <2>6, <1>a DEF TInv, EntriesSound, FilesSound, ServerSound
<1>19. ASSUME NEW w \in Workers, Call(w) PROVE TInv'
  <2>1. UNCHANGED <<memory, file, issued, valid, withdrawn>>
    BY <1>19 DEF Call, server, dialog, history, bounds
  <2>5. WorkersSound'
    <3>1. worker[w].fresh = NoToken /\ worker[w].pc \notin {"idle", "save"}
      BY <1>19, <1>b DEF Call, at, Sound
    <3>2. CASE GoTo(w, "finish") \/ GoTo(w, "list")
      <4>1. Sound([worker[w] EXCEPT !.pc = "finish"], issued) /\ Sound([worker[w] EXCEPT !.pc = "list"], issued)
        BY <3>1, <1>a, <1>b, GoToSound
      <4> QED
        BY <3>2, <4>1, <2>1, <1>a, BecomesSound DEF GoTo
    <3>3. CASE Becomes(w, [worker[w] EXCEPT !.pc = "grant", !.again = TRUE])
      <4>1. Sound([worker[w] EXCEPT !.pc = "grant", !.again = TRUE], issued)
        BY <3>1, <1>a, <1>b, FlagSound
      <4> QED
        BY <4>1, <3>3, <2>1, <1>a, BecomesSound
    <3>4. CASE Becomes(w, [worker[w] EXCEPT !.pc = "forget", !.refused = TRUE])
      <4>1. Sound([worker[w] EXCEPT !.pc = "forget", !.refused = TRUE], issued)
        BY <3>1, <1>a, <1>b, FlagSound
      <4> QED
        BY <4>1, <3>4, <2>1, <1>a, BecomesSound
    <3> QED
      BY <1>19, <3>2, <3>3, <3>4 DEF Call
  <2>6. RestSound'
    BY <1>19, <1>a DEF RestSound, Call, server, dialog, history, bounds
  <2> QED
    BY <2>1, <2>5, <2>6, <1>a DEF TInv, EntriesSound, FilesSound, ServerSound
<1>20. ASSUME NEW w \in Workers, SetList(w) PROVE TInv'
  <2>1. UNCHANGED <<file, issued, valid, withdrawn>>
    BY <1>20 DEF SetList, server, history
  <2>2. worker[w].fresh = NoToken /\ worker[w].pc \notin {"idle", "save"}
    BY <1>20, <1>b DEF SetList, at, Sound
  <2>3. Sound([worker[w] EXCEPT !.pc = "snapshot", !.next = "finish"], issued)
    BY <2>2, <1>a, <1>b, ThenSaveSound
  <2>4. WorkersSound'
    BY <1>20, <2>1, <2>3, <1>a, BecomesSound DEF SetList
  <2>5. EntriesSound(memory', issued)
    <3>0. PICK lists \in BOOLEAN :
            Change(w, [memory EXCEPT ![worker[w].id].listed = lists /\ memory[worker[w].id].known])
      BY <1>20 DEF SetList
    <3> DEFINE e == [memory[worker[w].id] EXCEPT !.listed = lists /\ memory[worker[w].id].known]
    <3>1. memory' = [memory EXCEPT ![worker[w].id] = e]
      BY <3>0, <1>a, <1>b DEF Change
    <3>2. e \in Entry /\ e.token = memory[worker[w].id].token /\ e.known = memory[worker[w].id].known
      BY <1>c DEF Entry
    <3>3. ~e.known => e.token = NoToken
      BY <3>2, <1>a, <1>b DEF EntriesSound
    <3> HIDE DEF e
    <3> QED
      BY <3>1, <3>2, <3>3, <1>a, <1>b, <1>c, EntryBecomes
  <2>6. RestSound'
    BY <1>20, <1>a DEF SetList, Change, RestSound, bounds, history
  <2> QED
    BY <2>1, <2>4, <2>5, <2>6, <1>a DEF TInv, FilesSound, ServerSound
<1>21. ASSUME NEW w \in Workers, ReadGrant(w) PROVE TInv'
  <2>1. UNCHANGED <<memory, file, issued, valid, withdrawn>>
    BY <1>21 DEF ReadGrant, server, dialog, history, bounds
  <2>5. WorkersSound'
    <3> DEFINE t == memory[worker[w].id].token
    <3>1. worker[w].pc = "grant"
      BY <1>21 DEF ReadGrant, at
    <3>2. t \in Of(worker[w].id, issued) /\ t \in Optional
      BY <1>c DEF Entry
    <3>3. \/ t # NoToken /\ Becomes(w, [worker[w] EXCEPT !.pc = "exchange", !.held = t, !.outdated = FALSE])
          \/ Becomes(w, [worker[w] EXCEPT !.pc = "forget", !.held = t, !.refused = worker[w].again])
      BY <1>21 DEF ReadGrant
    <3> HIDE DEF t
    <3>4. /\ t # NoToken => Sound([worker[w] EXCEPT !.pc = "exchange", !.held = t, !.outdated = FALSE], issued)
          /\ Sound([worker[w] EXCEPT !.pc = "forget", !.held = t, !.refused = worker[w].again], issued)
      BY <3>1, <3>2, <1>a, <1>b, GrantSound
    <3> QED
      BY <3>3, <3>4, <2>1, <1>a, BecomesSound
  <2>6. RestSound'
    BY <1>21, <1>a DEF RestSound, ReadGrant, server, dialog, history, bounds
  <2> QED
    BY <2>1, <2>5, <2>6, <1>a DEF TInv, EntriesSound, FilesSound, ServerSound
<1>22. ASSUME NEW w \in Workers, Exchanged(w) PROVE TInv'
  <2>1. UNCHANGED <<memory, file, withdrawn>>
    BY <1>22 DEF Exchanged, history
  <2>9. RestSound'
    BY <1>22, <1>a DEF Exchanged, RestSound, dialog, bounds, history
  <2>3. worker[w].fresh = NoToken /\ worker[w].pc \notin {"idle", "save"}
    BY <1>22, <1>b DEF Exchanged, at, Sound
  <2>2. CASE Issue(worker[w].id, {worker[w].held})
    <3>1. issued' = issued + 1 /\ issued' \in 0..MaxTokens /\ issued \in Nat /\ issued' \in Nat /\ issued <= issued'
      BY <2>2, <1>a DEF Issue
    <3>2. <<worker[w].id, issued + 1>> \in Tokens /\ <<worker[w].id, issued + 1>> \in Optional
          /\ <<worker[w].id, issued + 1>> \in Of(worker[w].id, issued')
      BY <3>1, <1>b DEF Tokens, Optional, Of
    <3>3. Sound(worker[w], issued')
      BY <3>1, <1>a, <1>b, SoundLater
    <3>4. ServerSound'
      <4>1. \A t \in valid' : t[2] <= issued'
        <5>1. valid' \subseteq valid \cup {<<worker[w].id, issued + 1>>}
          BY <2>2 DEF Issue
        <5>2. \A t \in valid : t[2] \in Nat /\ t[2] <= issued
          BY <1>a DEF ServerSound, Tokens
        <5>3. \A t \in valid : t[2] <= issued'
          BY <5>2, <3>1
        <5>4. <<worker[w].id, issued + 1>>[2] <= issued'
          BY <3>1
        <5> QED
          BY <5>1, <5>3, <5>4
      <4>2. valid' \subseteq Tokens /\ withdrawn' \subseteq Tokens
        BY <2>1, <2>2, <3>2, <1>a DEF Issue, ServerSound
      <4> QED
        BY <4>1, <4>2, <3>1 DEF ServerSound
    <3>5. EntriesSound(memory', issued') /\ FilesSound(file', issued')
      BY <2>1, <3>1, <1>a, FewerTokens
    <3>6. WorkersSound'
      <4>1. \/ Becomes(w, [worker[w] EXCEPT !.pc = "store", !.fresh = <<worker[w].id, issued + 1>>])
            \/ GoTo(w, "store")
        BY <1>22 DEF Exchanged
      <4>2. /\ Sound([worker[w] EXCEPT !.pc = "store", !.fresh = <<worker[w].id, issued + 1>>], issued')
            /\ Sound([worker[w] EXCEPT !.pc = "store"], issued')
        BY <3>1, <3>2, <3>3, <2>3, FreshSound, GoToSound
      <4> QED
        BY <4>1, <4>2, <3>1, BecomesSound DEF GoTo
    <3> QED
      BY <3>4, <3>5, <3>6, <2>9 DEF TInv
  <2>4. CASE GoTo(w, "store") /\ UNCHANGED server
    <3>1. Sound([worker[w] EXCEPT !.pc = "store"], issued)
      BY <2>3, <1>a, <1>b, GoToSound
    <3>2. WorkersSound' /\ issued' = issued
      BY <2>4, <3>1, <1>a, BecomesSound DEF server, GoTo
    <3> QED
      BY <2>1, <2>4, <2>9, <3>2, <1>a DEF TInv, EntriesSound, FilesSound, ServerSound, server
  <2> QED
    BY <1>22, <2>2, <2>4 DEF Exchanged
<1>23. ASSUME NEW w \in Workers, ExchangeRefused(w) PROVE TInv'
  <2>1. UNCHANGED <<memory, file, issued, valid, withdrawn>>
    BY <1>23 DEF ExchangeRefused, server, dialog, history, bounds
  <2>5. WorkersSound'
    <3>1. worker[w].fresh = NoToken /\ worker[w].pc \notin {"idle", "save"}
      BY <1>23, <1>b DEF ExchangeRefused, at, Sound
    <3>2. Sound([worker[w] EXCEPT !.pc = "forget", !.refused = TRUE], issued)
      BY <3>1, <1>a, <1>b, FlagSound
    <3> QED
      BY <1>23, <3>2, <2>1, <1>a, BecomesSound DEF ExchangeRefused
  <2>6. RestSound'
    BY <1>23, <1>a DEF RestSound, ExchangeRefused, server, dialog, history, bounds
  <2> QED
    BY <2>1, <2>5, <2>6, <1>a DEF TInv, EntriesSound, FilesSound, ServerSound
<1>24. ASSUME NEW w \in Workers, ExchangeFails(w) PROVE TInv'
  <2>1. UNCHANGED <<memory, file>>
    BY <1>24 DEF ExchangeFails
  <2>9. RestSound'
    BY <1>24, <1>a DEF ExchangeFails, RestSound, dialog, bounds
  <2>3. worker[w].fresh = NoToken /\ worker[w].pc \notin {"idle", "save"}
    BY <1>24, <1>b DEF ExchangeFails, at, Sound
  <2>2. CASE worker[w].held \in valid /\ Issue(worker[w].id, {worker[w].held}) /\ withdrawn' = withdrawn \cup {worker[w].held}
    <3>1. issued' = issued + 1 /\ issued' \in 0..MaxTokens /\ issued \in Nat /\ issued' \in Nat /\ issued <= issued'
      BY <2>2, <1>a DEF Issue
    <3>2. <<worker[w].id, issued + 1>> \in Tokens
      BY <3>1, <1>b DEF Tokens
    <3>3. Sound(worker[w], issued')
      BY <3>1, <1>a, <1>b, SoundLater
    <3>4. ServerSound'
      <4>1. \A t \in valid' : t[2] <= issued'
        <5>1. valid' \subseteq valid \cup {<<worker[w].id, issued + 1>>}
          BY <2>2 DEF Issue
        <5>2. \A t \in valid : t[2] \in Nat /\ t[2] <= issued
          BY <1>a DEF ServerSound, Tokens
        <5>3. \A t \in valid : t[2] <= issued'
          BY <5>2, <3>1
        <5>4. <<worker[w].id, issued + 1>>[2] <= issued'
          BY <3>1
        <5> QED
          BY <5>1, <5>3, <5>4
      <4>2. valid' \subseteq Tokens /\ withdrawn' \subseteq Tokens
        BY <2>2, <3>2, <1>a DEF Issue, ServerSound
      <4> QED
        BY <4>1, <4>2, <3>1 DEF ServerSound
    <3>5. EntriesSound(memory', issued') /\ FilesSound(file', issued')
      BY <2>1, <3>1, <1>a, FewerTokens
    <3>6. WorkersSound'
      BY <1>24, <3>1, <3>3, <2>3, GoToSound, BecomesSound DEF ExchangeFails, GoTo
    <3> QED
      BY <3>4, <3>5, <3>6, <2>9 DEF TInv
  <2>4. CASE UNCHANGED <<server, withdrawn>>
    <3>1. Sound([worker[w] EXCEPT !.pc = "finish"], issued)
      BY <2>3, <1>a, <1>b, GoToSound
    <3>2. WorkersSound' /\ issued' = issued
      BY <1>24, <2>4, <3>1, <1>a, BecomesSound DEF server, GoTo, ExchangeFails
    <3> QED
      BY <2>1, <2>4, <2>9, <3>2, <1>a DEF TInv, EntriesSound, FilesSound, ServerSound, server
  <2> QED
    BY <1>24, <2>2, <2>4 DEF ExchangeFails
<1>25. ASSUME Rebuild PROVE TInv'
  <2>1. UNCHANGED <<memory, file, worker, issued, valid, withdrawn>>
    BY <1>25 DEF Rebuild, server, history
  <2>2. RestSound'
    BY <1>25, <1>a, ViewsAreViews DEF Rebuild, RestSound, history, bounds
  <2> QED
    BY <2>1, <2>2, <1>a DEF TInv, EntriesSound, FilesSound, ServerSound, WorkersSound
<1>26. ASSUME Withdraw PROVE TInv'
  <2>1. UNCHANGED <<memory, file, worker, issued>>
    BY <1>26 DEF Withdraw
  <2>2. RestSound'
    BY <1>26, <1>a DEF Withdraw, RestSound, dialog, bounds
  <2>3. ServerSound'
    BY <1>26, <1>a DEF Withdraw, ServerSound
  <2> QED
    BY <2>1, <2>2, <2>3, <1>a DEF TInv, EntriesSound, FilesSound, WorkersSound
<1>27. ASSUME Restart PROVE TInv'
  <2>1. UNCHANGED <<file, issued, valid>>
    BY <1>27 DEF Restart, server
  <2>2. memory' = [i \in Ids |-> FromFile(file[i])] /\ worker' = [w \in Workers |-> Idle]
    BY <1>27 DEF Restart
  <2>3. \A i \in Ids : /\ FromFile(file[i]) \in Entry /\ FromFile(file[i]).token = file[i].token
                       /\ FromFile(file[i]).known = file[i].known
    BY <1>a DEF FromFile, Entry, Stored
  <2>4. EntriesSound(memory', issued)
    BY <2>2, <2>3, <1>a DEF EntriesSound, FilesSound
  <2>5. WorkersSound'
    BY <2>1, <2>2, <1>a, IdleSound DEF WorkersSound, Sound
  <2>6. RestSound'
    <3>1. [i \in Ids |-> FromFile(file[i])] \in [Ids -> Entry]
      BY <2>3
    <3>2. view' \in View
      BY <1>27, <3>1, ViewsAreViews DEF Restart
    <3> QED
      <4>1. restarts' \in 0..MaxRestarts
        BY <1>27, <1>a DEF Restart, RestSound
      <4> QED
        BY <1>27, <3>2, <4>1, <1>a DEF Restart, RestSound
  <2>7. ServerSound'
    <3>1. \A w \in Workers : worker[w].held \in Optional
      BY <1>b DEF Sound, Worker
    <3>2. \A i \in Ids : file[i].token \in Optional
      BY <1>a DEF Stored
    <3>3. withdrawn' \subseteq Tokens
      BY <1>27, <3>1, <3>2, <1>a DEF Restart, ServerSound, Optional
    <3> QED
      BY <2>1, <3>3, <1>a DEF ServerSound
  <2> QED
    BY <2>1, <2>4, <2>5, <2>6, <2>7, <1>a DEF TInv, FilesSound
<1>28. CASE UNCHANGED vars
  BY <1>28, <1>a DEF vars, server, dialog, history, bounds, TInv, EntriesSound, FilesSound, WorkersSound, ServerSound, RestSound
<1> QED
  BY <1>1, <1>2, <1>3, <1>4, <1>5, <1>6, <1>7, <1>8, <1>9, <1>10, <1>11, <1>12, <1>13, <1>14, <1>15, <1>16, <1>17, <1>18, <1>19, <1>20, <1>21, <1>22, <1>23, <1>24, <1>25, <1>26, <1>27, <1>28
     DEF Next, WorkerStep

-----------------------------------------------------------------------------
(* The refresh token in force.                                             *)

(* A step of w that issues and ends no token, and leaves or drops the ones *)
(* in the entries.                                                         *)
Minor(w) ==
  /\ \A v \in Workers \ {w} : /\ worker'[v].kind = worker[v].kind /\ worker'[v].pc = worker[v].pc
                              /\ worker'[v].held = worker[v].held /\ worker'[v].fresh = worker[v].fresh
  /\ worker'[w].fresh = NoToken
  /\ worker'[w].held \in {worker[w].held, NoToken} \cup {memory[i].token : i \in Ids}
  /\ \A i \in Ids : /\ memory'[i].token \in {memory[i].token, NoToken}
                    /\ Ending(w) => memory'[i].token = NoToken \/ memory[i].token # worker[w].held
  /\ UNCHANGED <<valid, withdrawn>>

(* Such a step keeps both facts about the tokens.                          *)
LEMMA MinorKeeps ==
  ASSUME IInv, NEW w \in Workers, Minor(w)
  PROVE  Private' /\ StoredTokenAccepted'
<1>1. Private'
  <2> SUFFICES ASSUME NEW v \in Workers, worker'[v].fresh # NoToken
               PROVE  /\ worker'[v].fresh \in valid' \cup withdrawn'
                      /\ \A i \in Ids : memory'[i].token # worker'[v].fresh
                      /\ \A u \in Workers : worker'[u].held # worker'[v].fresh
                      /\ \A u \in Workers \ {v} : worker'[u].fresh # worker'[v].fresh
    BY DEF Private
  <2>1. v # w /\ worker'[v].fresh = worker[v].fresh
    BY DEF Minor
  <2>2. /\ worker[v].fresh \in valid \cup withdrawn
        /\ \A i \in Ids : memory[i].token # worker[v].fresh
        /\ \A u \in Workers : worker[u].held # worker[v].fresh
        /\ \A u \in Workers \ {v} : worker[u].fresh # worker[v].fresh
    BY <2>1 DEF IInv, Private
  <2>3. \A i \in Ids : memory'[i].token # worker'[v].fresh
    BY <2>1, <2>2 DEF Minor
  <2>4. \A u \in Workers : worker'[u].held # worker'[v].fresh
    BY <2>1, <2>2 DEF Minor
  <2>5. \A u \in Workers \ {v} : worker'[u].fresh # worker'[v].fresh
    BY <2>1, <2>2 DEF Minor
  <2> QED
    BY <2>1, <2>2, <2>3, <2>4, <2>5 DEF Minor
<1>2. StoredTokenAccepted'
  <2> SUFFICES ASSUME NEW i \in Ids, memory'[i].token \notin valid' \cup withdrawn' \cup {NoToken}
               PROVE  \E v \in Workers : Ending(v)' /\ worker'[v].held = memory'[i].token
    BY DEF StoredTokenAccepted
  <2>1. memory'[i].token = memory[i].token /\ memory[i].token # NoToken
        /\ memory[i].token \notin valid \cup withdrawn \cup {NoToken}
    BY DEF Minor
  <2>2. PICK v \in Workers : Ending(v) /\ worker[v].held = memory[i].token
    BY <2>1 DEF IInv, StoredTokenAccepted
  <2>3. v # w
    BY <2>1, <2>2 DEF Minor
  <2>4. Ending(v)' /\ worker'[v].held = worker[v].held
    BY <2>2, <2>3 DEF Minor, Ending, at
  <2> QED
    BY <2>1, <2>2, <2>4
<1> QED
  BY <1>1, <1>2

(* A step that leaves the entries and the tokens, of a worker that holds   *)
(* nothing back.                                                           *)
Only(w) == \A v \in Workers \ {w} : worker'[v] = worker[v]

(* Such a step is a minor one.                                             *)
LEMMA PlainKeeps ==
  ASSUME IInv, NEW w \in Workers, Only(w), ~Ending(w), worker'[w].fresh = NoToken,
         worker'[w].held \in {worker[w].held, NoToken} \cup {memory[i].token : i \in Ids},
         UNCHANGED <<memory, valid, withdrawn>>
  PROVE  Private' /\ StoredTokenAccepted'
<1>1. Minor(w)
  BY DEF Minor, Only
<1> QED
  BY <1>1, MinorKeeps

(* A token about to be issued is none that anyone has.                     *)
LEMMA NewToken ==
  ASSUME TInv, NEW i
  PROVE  /\ <<i, issued + 1>> # NoToken \/ i \notin Ids \/ issued + 1 \notin 1..MaxTokens
         /\ \A j \in Ids : memory[j].token # NoToken => memory[j].token # <<i, issued + 1>>
         /\ \A w \in Workers : /\ worker[w].held # NoToken => worker[w].held # <<i, issued + 1>>
                               /\ worker[w].fresh # NoToken => worker[w].fresh # <<i, issued + 1>>
<1>1. issued \in Nat
  BY BoundsAssumption DEF TInv, ServerSound
<1>2. ASSUME NEW j, NEW t \in Of(j, issued), t # NoToken PROVE t # <<i, issued + 1>>
  <2>1. t \in {j} \X (1..issued)
    BY <1>2 DEF Of
  <2>2. t[2] \in 1..issued
    BY <2>1
  <2>3. t[2] # issued + 1
    BY <2>2, <1>1
  <2> QED
    BY <2>3
<1>3. <<i, issued + 1>> # NoToken \/ i \notin Ids \/ issued + 1 \notin 1..MaxTokens
  BY NoTokenAssumption DEF Tokens
<1> QED
  BY <1>2, <1>3 DEF TInv, EntriesSound, WorkersSound, Sound

(* A token is issued to w, or lost on the way to it.                       *)
LEMMA IssueKeeps ==
  ASSUME IInv, NEW w \in Workers, Only(w), ~Ending(w), NEW i \in Ids, NEW ends, Issue(i, ends),
         ends \subseteq {worker[w].held}, ends \subseteq withdrawn' \/ Ending(w)',
         worker'[w].held = worker[w].held, worker'[w].fresh \in {NoToken, <<i, issued + 1>>},
         UNCHANGED memory, withdrawn \subseteq withdrawn'
  PROVE  Private' /\ StoredTokenAccepted'
<1> DEFINE latest == <<i, issued + 1>>
<1> HIDE DEF latest
<1>1. /\ latest # NoToken
      /\ \A j \in Ids : memory[j].token # latest
      /\ \A v \in Workers : worker[v].held # latest /\ worker[v].fresh # latest
  <2>1. issued + 1 \in 1..MaxTokens
    BY BoundsAssumption DEF IInv, TInv, ServerSound, Issue
  <2>2. latest # NoToken
    BY <2>1, NewToken DEF IInv, latest
  <2>3. /\ \A j \in Ids : memory[j].token # NoToken => memory[j].token # latest
        /\ \A v \in Workers : /\ worker[v].held # NoToken => worker[v].held # latest
                              /\ worker[v].fresh # NoToken => worker[v].fresh # latest
    BY NewToken DEF IInv, latest
  <2> QED
    BY <2>2, <2>3
<1>2. latest \in valid' /\ valid \subseteq valid' \cup ends
  BY DEF Issue, latest
<1>3. Private'
  <2> SUFFICES ASSUME NEW v \in Workers, worker'[v].fresh # NoToken
               PROVE  /\ worker'[v].fresh \in valid' \cup withdrawn'
                      /\ \A j \in Ids : memory'[j].token # worker'[v].fresh
                      /\ \A u \in Workers : worker'[u].held # worker'[v].fresh
                      /\ \A u \in Workers \ {v} : worker'[u].fresh # worker'[v].fresh
    BY DEF Private
  <2>1. \A u \in Workers : worker'[u].held = worker[u].held
    BY DEF Only
  <2>2. CASE v = w
    <3>1. worker'[v].fresh = latest
      BY <2>2 DEF latest
    <3>2. \A u \in Workers \ {v} : worker'[u].fresh = worker[u].fresh
      BY <2>2 DEF Only
    <3> QED
      BY <3>1, <3>2, <2>1, <1>1, <1>2
  <2>3. CASE v # w
    <3>1. worker'[v].fresh = worker[v].fresh
      BY <2>3 DEF Only
    <3>2. /\ worker[v].fresh \in valid \cup withdrawn
          /\ \A j \in Ids : memory[j].token # worker[v].fresh
          /\ \A u \in Workers : worker[u].held # worker[v].fresh
          /\ \A u \in Workers \ {v} : worker[u].fresh # worker[v].fresh
      BY <3>1 DEF IInv, Private
    <3>3. worker[v].fresh \in valid' \cup withdrawn'
      BY <3>2, <1>2
    <3>4. \A u \in Workers \ {v} : worker'[u].fresh # worker[v].fresh
      <4>1. worker'[w].fresh # worker[v].fresh
        BY <3>1, <1>1 DEF latest
      <4> QED
        BY <4>1, <3>2 DEF Only
    <3> QED
      BY <3>1, <3>2, <3>3, <3>4, <2>1
  <2> QED
    BY <2>2, <2>3
<1>4. StoredTokenAccepted'
  <2> SUFFICES ASSUME NEW j \in Ids, memory'[j].token \notin valid' \cup withdrawn' \cup {NoToken}
               PROVE  \E v \in Workers : Ending(v)' /\ worker'[v].held = memory'[j].token
    BY DEF StoredTokenAccepted
  <2>1. CASE memory[j].token \in ends
    BY <2>1
  <2>2. CASE memory[j].token \notin ends
    <3>1. memory[j].token \notin valid \cup withdrawn \cup {NoToken}
      BY <2>2, <1>2
    <3>2. PICK v \in Workers : Ending(v) /\ worker[v].held = memory[j].token
      BY <3>1 DEF IInv, StoredTokenAccepted
    <3>3. v # w
      BY <3>2
    <3>4. Ending(v)' /\ worker'[v].held = memory'[j].token
      BY <3>2, <3>3 DEF Only, Ending, at
    <3> QED
      BY <3>4
  <2> QED
    BY <2>1, <2>2
<1> QED
  BY <1>3, <1>4

(* w puts the token it was issued into its entry, or finds it gone.        *)
PassesOn(w) ==
  /\ \A v \in Workers \ {w} : /\ worker'[v].kind = worker[v].kind /\ worker'[v].pc = worker[v].pc
                              /\ worker'[v].held = worker[v].held /\ worker'[v].fresh = worker[v].fresh
  /\ worker'[w].fresh = NoToken /\ worker'[w].held = worker[w].held
  /\ \A i \in Ids : \/ memory'[i].token = memory[i].token
                    \/ i = worker[w].id /\ memory'[i].token \in {NoToken, worker[w].fresh}
  /\ Ending(w) => memory'[worker[w].id].token \in {NoToken, worker[w].fresh}
  /\ UNCHANGED <<valid, withdrawn>>

(* The entries of two ids share no token.                                  *)
LEMMA Owned ==
  ASSUME NEW i, NEW j, i # j, NEW n, NEW t \in Of(i, n), t \in Of(j, n)
  PROVE  t = NoToken
BY DEF Of

(* What the entry gets is the token w was issued, or none.                 *)
LEMMA PassesOnKeeps ==
  ASSUME IInv, NEW w \in Workers, PassesOn(w)
  PROVE  Private' /\ StoredTokenAccepted'
<1>1. \A i \in Ids : memory'[i].token \in {memory[i].token, NoToken, worker[w].fresh}
  BY DEF PassesOn
<1>2. Private'
  <2> SUFFICES ASSUME NEW v \in Workers, worker'[v].fresh # NoToken
               PROVE  /\ worker'[v].fresh \in valid' \cup withdrawn'
                      /\ \A j \in Ids : memory'[j].token # worker'[v].fresh
                      /\ \A u \in Workers : worker'[u].held # worker'[v].fresh
                      /\ \A u \in Workers \ {v} : worker'[u].fresh # worker'[v].fresh
    BY DEF Private
  <2>1. v # w /\ worker'[v].fresh = worker[v].fresh
    BY DEF PassesOn
  <2>2. /\ worker[v].fresh \in valid \cup withdrawn
        /\ \A j \in Ids : memory[j].token # worker[v].fresh
        /\ \A u \in Workers : worker[u].held # worker[v].fresh
        /\ \A u \in Workers \ {v} : worker[u].fresh # worker[v].fresh
    BY <2>1 DEF IInv, Private
  <2>3. \A j \in Ids : memory'[j].token # worker'[v].fresh
    BY <2>1, <2>2, <1>1
  <2>4. \A u \in Workers : worker'[u].held = worker[u].held
    BY DEF PassesOn
  <2>5. \A u \in Workers \ {v} : worker'[u].fresh # worker'[v].fresh
    BY <2>1, <2>2 DEF PassesOn
  <2> QED
    BY <2>1, <2>2, <2>3, <2>4, <2>5 DEF PassesOn
<1>3. StoredTokenAccepted'
  <2> SUFFICES ASSUME NEW i \in Ids, memory'[i].token \notin valid' \cup withdrawn' \cup {NoToken}
               PROVE  \E v \in Workers : Ending(v)' /\ worker'[v].held = memory'[i].token
    BY DEF StoredTokenAccepted
  <2>1. memory'[i].token # NoToken /\ memory'[i].token # worker[w].fresh
    BY DEF IInv, Private, PassesOn
  <2>2. memory'[i].token = memory[i].token
    BY <2>1, <1>1
  <2>3. PICK v \in Workers : Ending(v) /\ worker[v].held = memory[i].token
    BY <2>2 DEF IInv, StoredTokenAccepted, PassesOn
  <2>4. v # w
    <3> SUFFICES ASSUME v = w PROVE FALSE
      OBVIOUS
    <3>1. i # worker[w].id
      BY <2>1, <2>3 DEF PassesOn
    <3>2. worker[w].held \in Of(worker[w].id, issued) /\ memory[i].token \in Of(i, issued)
      BY DEF IInv, TInv, WorkersSound, Sound, EntriesSound
    <3> QED
      BY <3>1, <3>2, <2>1, <2>2, <2>3, Owned
  <2>5. Ending(v)' /\ worker'[v].held = memory'[i].token
    BY <2>2, <2>3, <2>4 DEF PassesOn, Ending, at
  <2> QED
    BY <2>5
<1> QED
  BY <1>2, <1>3

(* Every step keeps the tokens in force accepted.                          *)
LEMMA TokensNext == IInv /\ [Next]_vars => Private' /\ StoredTokenAccepted'
<1> SUFFICES ASSUME IInv, [Next]_vars PROVE Private' /\ StoredTokenAccepted'
  OBVIOUS
<1>a. /\ worker \in [Workers -> Worker] /\ memory \in [Ids -> Entry]
      /\ \A w \in Workers : worker[w] \in Worker /\ Sound(worker[w], issued) /\ worker[w].id \in Ids
  BY DEF IInv, TInv, WorkersSound, EntriesSound, Worker
<1>b. \A w \in Workers : worker[w].pc \notin {"store", "install"} => worker[w].fresh = NoToken
  BY <1>a DEF Sound
<1>1. ASSUME NEW w \in Workers, ClickSignIn(w) PROVE Private' /\ StoredTokenAccepted'
  <2>1. PICK kind, pc : Begin(w, kind, pc)
    BY <1>1 DEF ClickSignIn
  <2>2. worker[w].pc = "idle" /\ UNCHANGED <<memory, valid, withdrawn>> /\ Only(w)
    BY <2>1, <1>a DEF Begin, Becomes, server, history, Only
  <2>3. worker'[w].fresh = worker[w].fresh /\ worker'[w].held = worker[w].held
    BY <2>1, <1>a DEF Begin, Becomes, Worker
  <2>4. ~Ending(w)
    BY <2>2 DEF Ending, at
  <2> QED
    BY <2>2, <2>3, <2>4, <1>b, PlainKeeps
<1>2. ASSUME NEW w \in Workers, ClickSignOut(w) PROVE Private' /\ StoredTokenAccepted'
  <2>1. PICK kind, pc : Begin(w, kind, pc)
    BY <1>2 DEF ClickSignOut
  <2>2. worker[w].pc = "idle" /\ UNCHANGED <<memory, valid, withdrawn>> /\ Only(w)
    BY <2>1, <1>a DEF Begin, Becomes, server, history, Only
  <2>3. worker'[w].fresh = worker[w].fresh /\ worker'[w].held = worker[w].held
    BY <2>1, <1>a DEF Begin, Becomes, Worker
  <2>4. ~Ending(w)
    BY <2>2 DEF Ending, at
  <2> QED
    BY <2>2, <2>3, <2>4, <1>b, PlainKeeps
<1>3. ASSUME NEW w \in Workers, PickIngest(w) PROVE Private' /\ StoredTokenAccepted'
  <2>1. PICK kind, pc : Begin(w, kind, pc)
    BY <1>3 DEF PickIngest
  <2>2. worker[w].pc = "idle" /\ UNCHANGED <<memory, valid, withdrawn>> /\ Only(w)
    BY <2>1, <1>a DEF Begin, Becomes, server, history, Only
  <2>3. worker'[w].fresh = worker[w].fresh /\ worker'[w].held = worker[w].held
    BY <2>1, <1>a DEF Begin, Becomes, Worker
  <2>4. ~Ending(w)
    BY <2>2 DEF Ending, at
  <2> QED
    BY <2>2, <2>3, <2>4, <1>b, PlainKeeps
<1>4. ASSUME NEW w \in Workers, WatchResolves(w) PROVE Private' /\ StoredTokenAccepted'
  <2>1. PICK kind, pc : Begin(w, kind, pc)
    BY <1>4 DEF WatchResolves
  <2>2. worker[w].pc = "idle" /\ UNCHANGED <<memory, valid, withdrawn>> /\ Only(w)
    BY <2>1, <1>a DEF Begin, Becomes, server, history, Only
  <2>3. worker'[w].fresh = worker[w].fresh /\ worker'[w].held = worker[w].held
    BY <2>1, <1>a DEF Begin, Becomes, Worker
  <2>4. ~Ending(w)
    BY <2>2 DEF Ending, at
  <2> QED
    BY <2>2, <2>3, <2>4, <1>b, PlainKeeps
<1>5. ASSUME NEW w \in Workers, Snapshot(w) PROVE Private' /\ StoredTokenAccepted'
  <2>1. UNCHANGED <<memory, valid, withdrawn>> /\ ~Ending(w) /\ worker[w].fresh = NoToken
    BY <1>5, <1>b DEF Snapshot, Ending, at, server, dialog, history
  <2>2. Only(w)
    BY <1>5, <1>a DEF Snapshot, Becomes, GoTo, Only
  <2>3. /\ worker'[w].fresh = NoToken
        /\ worker'[w].held \in {worker[w].held, NoToken} \cup {memory[i].token : i \in Ids}
    <3>1. CASE Becomes(w, [worker[w] EXCEPT !.pc = "save", !.snap = ToFile(memory[worker[w].id])])
      BY <3>1, <2>1, <1>a DEF Becomes, Worker
    <3>2. CASE GoTo(w, worker[w].next)
      BY <3>2, <2>1, <1>a DEF Becomes, GoTo, Worker
    <3> QED
      BY <1>5, <3>1, <3>2 DEF Snapshot
  <2> QED
    BY <2>1, <2>2, <2>3, PlainKeeps
<1>6. ASSUME NEW w \in Workers, Save(w) PROVE Private' /\ StoredTokenAccepted'
  <2>1. UNCHANGED <<memory, valid, withdrawn>> /\ ~Ending(w) /\ worker[w].fresh = NoToken
    BY <1>6, <1>b DEF Save, Ending, at, server, dialog, history
  <2>2. Only(w)
    BY <1>6, <1>a DEF Save, Becomes, GoTo, Only
  <2>3. /\ worker'[w].fresh = NoToken
        /\ worker'[w].held \in {worker[w].held, NoToken} \cup {memory[i].token : i \in Ids}
    BY <1>6, <2>1, <1>a DEF Save, Becomes, GoTo, Worker
  <2> QED
    BY <2>1, <2>2, <2>3, PlainKeeps
<1>7. ASSUME NEW w \in Workers, Finish(w) PROVE Private' /\ StoredTokenAccepted'
  <2>1. UNCHANGED <<memory, valid, withdrawn>> /\ ~Ending(w) /\ worker[w].fresh = NoToken
    BY <1>7, <1>b DEF Finish, Ending, at, server, dialog, history
  <2>2. Only(w)
    BY <1>7, <1>a DEF Finish, Becomes, GoTo, Only
  <2>3. /\ worker'[w].fresh = NoToken
        /\ worker'[w].held \in {worker[w].held, NoToken} \cup {memory[i].token : i \in Ids}
    BY <1>7, <2>1, <1>a DEF Finish, Becomes, GoTo, Worker, Idle
  <2> QED
    BY <2>1, <2>2, <2>3, PlainKeeps
<1>8. ASSUME NEW w \in Workers, DiscoveryFails(w) PROVE Private' /\ StoredTokenAccepted'
  <2>1. UNCHANGED <<memory, valid, withdrawn>> /\ ~Ending(w) /\ worker[w].fresh = NoToken
    BY <1>8, <1>b DEF DiscoveryFails, Ending, at, server, dialog, history
  <2>2. Only(w)
    BY <1>8, <1>a DEF DiscoveryFails, Becomes, GoTo, Only
  <2>3. /\ worker'[w].fresh = NoToken
        /\ worker'[w].held \in {worker[w].held, NoToken} \cup {memory[i].token : i \in Ids}
    BY <1>8, <2>1, <1>a DEF DiscoveryFails, Becomes, GoTo, Worker
  <2> QED
    BY <2>1, <2>2, <2>3, PlainKeeps
<1>9. ASSUME NEW w \in Workers, SignInAbandoned(w) PROVE Private' /\ StoredTokenAccepted'
  <2>1. UNCHANGED <<memory, valid, withdrawn>> /\ ~Ending(w) /\ worker[w].fresh = NoToken
    BY <1>9, <1>b DEF SignInAbandoned, Ending, at, server, dialog, history
  <2>2. Only(w)
    BY <1>9, <1>a DEF SignInAbandoned, Becomes, GoTo, Only
  <2>3. /\ worker'[w].fresh = NoToken
        /\ worker'[w].held \in {worker[w].held, NoToken} \cup {memory[i].token : i \in Ids}
    BY <1>9, <2>1, <1>a DEF SignInAbandoned, Becomes, GoTo, Worker
  <2> QED
    BY <2>1, <2>2, <2>3, PlainKeeps
<1>10. ASSUME NEW w \in Workers, TargetFound(w) PROVE Private' /\ StoredTokenAccepted'
  <2>1. UNCHANGED <<memory, valid, withdrawn>> /\ ~Ending(w) /\ worker[w].fresh = NoToken
    BY <1>10, <1>b DEF TargetFound, Ending, at, server, dialog, history
  <2>2. Only(w)
    BY <1>10, <1>a DEF TargetFound, Becomes, GoTo, Only
  <2>3. /\ worker'[w].fresh = NoToken
        /\ worker'[w].held \in {worker[w].held, NoToken} \cup {memory[i].token : i \in Ids}
    <3>1. PICK i \in Ids :
            \/ Becomes(w, [worker[w] EXCEPT !.pc = "revoke", !.id = i, !.held = memory[i].token])
            \/ Becomes(w, [worker[w] EXCEPT !.pc = "token", !.id = i])
      BY <1>10 DEF TargetFound
    <3>2. CASE Becomes(w, [worker[w] EXCEPT !.pc = "revoke", !.id = i, !.held = memory[i].token])
      <4>1. worker'[w].held = memory[i].token /\ worker'[w].fresh = NoToken
        BY <3>2, <2>1, <1>a DEF Becomes, Worker
      <4> QED
        BY <4>1
    <3>3. CASE Becomes(w, [worker[w] EXCEPT !.pc = "token", !.id = i])
      BY <3>3, <2>1, <1>a DEF Becomes, Worker
    <3> QED
      BY <3>1, <3>2, <3>3
  <2> QED
    BY <2>1, <2>2, <2>3, PlainKeeps
<1>11. ASSUME NEW w \in Workers, TargetMissing(w) PROVE Private' /\ StoredTokenAccepted'
  <2>1. UNCHANGED <<memory, valid, withdrawn>> /\ ~Ending(w) /\ worker[w].fresh = NoToken
    BY <1>11, <1>b DEF TargetMissing, Ending, at, server, dialog, history
  <2>2. Only(w)
    BY <1>11, <1>a DEF TargetMissing, Becomes, GoTo, Only
  <2>3. /\ worker'[w].fresh = NoToken
        /\ worker'[w].held \in {worker[w].held, NoToken} \cup {memory[i].token : i \in Ids}
    BY <1>11, <2>1, <1>a DEF TargetMissing, Becomes, GoTo, Worker, Idle
  <2> QED
    BY <2>1, <2>2, <2>3, PlainKeeps
<1>12. ASSUME NEW w \in Workers, CurrentToken(w) PROVE Private' /\ StoredTokenAccepted'
  <2>1. UNCHANGED <<memory, valid, withdrawn>> /\ ~Ending(w) /\ worker[w].fresh = NoToken
    BY <1>12, <1>b DEF CurrentToken, Ending, at, server, dialog, history
  <2>2. Only(w)
    BY <1>12, <1>a DEF CurrentToken, Becomes, GoTo, Only
  <2>3. /\ worker'[w].fresh = NoToken
        /\ worker'[w].held \in {worker[w].held, NoToken} \cup {memory[i].token : i \in Ids}
    BY <1>12, <2>1, <1>a DEF CurrentToken, Becomes, GoTo, Worker
  <2> QED
    BY <2>1, <2>2, <2>3, PlainKeeps
<1>13. ASSUME NEW w \in Workers, Call(w) PROVE Private' /\ StoredTokenAccepted'
  <2>1. UNCHANGED <<memory, valid, withdrawn>> /\ ~Ending(w) /\ worker[w].fresh = NoToken
    BY <1>13, <1>b DEF Call, Ending, at, server, dialog, history
  <2>2. Only(w)
    BY <1>13, <1>a DEF Call, Becomes, GoTo, Only
  <2>3. /\ worker'[w].fresh = NoToken
        /\ worker'[w].held \in {worker[w].held, NoToken} \cup {memory[i].token : i \in Ids}
    <3>1. CASE GoTo(w, "finish") \/ GoTo(w, "list")
      BY <3>1, <2>1, <1>a DEF Becomes, GoTo, Worker
    <3>2. CASE Becomes(w, [worker[w] EXCEPT !.pc = "grant", !.again = TRUE])
      BY <3>2, <2>1, <1>a DEF Becomes, Worker
    <3>3. CASE Becomes(w, [worker[w] EXCEPT !.pc = "forget", !.refused = TRUE])
      BY <3>3, <2>1, <1>a DEF Becomes, Worker
    <3> QED
      BY <1>13, <3>1, <3>2, <3>3 DEF Call
  <2> QED
    BY <2>1, <2>2, <2>3, PlainKeeps
<1>14. ASSUME NEW w \in Workers, ReadGrant(w) PROVE Private' /\ StoredTokenAccepted'
  <2>1. UNCHANGED <<memory, valid, withdrawn>> /\ ~Ending(w) /\ worker[w].fresh = NoToken
    BY <1>14, <1>b DEF ReadGrant, Ending, at, server, dialog, history
  <2>2. Only(w)
    BY <1>14, <1>a DEF ReadGrant, Becomes, GoTo, Only
  <2>3. /\ worker'[w].fresh = NoToken
        /\ worker'[w].held \in {worker[w].held, NoToken} \cup {memory[i].token : i \in Ids}
    <3> DEFINE t == memory[worker[w].id].token
    <3>1. \/ Becomes(w, [worker[w] EXCEPT !.pc = "exchange", !.held = t, !.outdated = FALSE])
          \/ Becomes(w, [worker[w] EXCEPT !.pc = "forget", !.held = t, !.refused = worker[w].again])
      BY <1>14 DEF ReadGrant
    <3>2. t \in {memory[i].token : i \in Ids}
      BY <1>a
    <3> HIDE DEF t
    <3>3. worker'[w].fresh = NoToken /\ worker'[w].held = t
      BY <3>1, <2>1, <1>a DEF Becomes, Worker
    <3> QED
      BY <3>2, <3>3
  <2> QED
    BY <2>1, <2>2, <2>3, PlainKeeps
<1>15. ASSUME NEW w \in Workers, ExchangeRefused(w) PROVE Private' /\ StoredTokenAccepted'
  <2>1. UNCHANGED <<memory, valid, withdrawn>> /\ ~Ending(w) /\ worker[w].fresh = NoToken
    BY <1>15, <1>b DEF ExchangeRefused, Ending, at, server, dialog, history
  <2>2. Only(w)
    BY <1>15, <1>a DEF ExchangeRefused, Becomes, GoTo, Only
  <2>3. /\ worker'[w].fresh = NoToken
        /\ worker'[w].held \in {worker[w].held, NoToken} \cup {memory[i].token : i \in Ids}
    BY <1>15, <2>1, <1>a DEF ExchangeRefused, Becomes, GoTo, Worker
  <2> QED
    BY <2>1, <2>2, <2>3, PlainKeeps
<1>16. ASSUME NEW w \in Workers, Forget(w) PROVE Private' /\ StoredTokenAccepted'
  <2>1. UNCHANGED <<valid, withdrawn>> /\ worker[w].fresh = NoToken
    BY <1>16, <1>b DEF Forget, at, server
  <2>2. Only(w) /\ worker'[w].fresh = NoToken /\ worker'[w].held = worker[w].held
    BY <1>16, <2>1, <1>a DEF Forget, Becomes, Only, Worker
  <2>3. \A i \in Ids : memory'[i].token = IF i = worker[w].id THEN NoToken ELSE memory[i].token
    BY <1>16, <1>a, ForgottenEntry DEF Forget, Change
  <2>4. \A i \in Ids : i # worker[w].id /\ memory[i].token = worker[w].held => memory[i].token = NoToken
    BY <1>a, Owned DEF Sound, IInv, TInv, EntriesSound
  <2>5. Minor(w)
    BY <2>1, <2>2, <2>3, <2>4 DEF Minor, Only
  <2> QED
    BY <2>5, MinorKeeps
<1>17. ASSUME NEW w \in Workers, Documents(w) PROVE Private' /\ StoredTokenAccepted'
  <2>1. UNCHANGED <<valid, withdrawn>> /\ worker[w].fresh = NoToken /\ ~Ending(w)
    BY <1>17, <1>b DEF Documents, at, server, history, Ending
  <2>2. Only(w) /\ worker'[w].fresh = NoToken /\ worker'[w].held = worker[w].held
    BY <1>17, <2>1, <1>a DEF Documents, Becomes, Only, Worker
  <2>3. PICK i \in Ids : memory' = [j \in Ids |-> IF j = i THEN Remembered(i) ELSE Unknown]
    BY <1>17 DEF Documents, Change
  <2>4. Remembered(i).token = memory[i].token /\ Unknown.token = NoToken
    BY <1>a DEF Remembered, Unknown, Entry
  <2>5. \A j \in Ids : memory'[j].token \in {memory[j].token, NoToken}
    BY <2>3, <2>4
  <2>6. Minor(w)
    BY <2>1, <2>2, <2>5 DEF Minor, Only
  <2> QED
    BY <2>6, MinorKeeps
<1>18. ASSUME NEW w \in Workers, SetList(w) PROVE Private' /\ StoredTokenAccepted'
  <2>1. UNCHANGED <<valid, withdrawn>> /\ worker[w].fresh = NoToken /\ ~Ending(w)
    BY <1>18, <1>b DEF SetList, at, server, history, Ending
  <2>2. Only(w) /\ worker'[w].fresh = NoToken /\ worker'[w].held = worker[w].held
    BY <1>18, <2>1, <1>a DEF SetList, Becomes, Only, Worker
  <2>3. \A i \in Ids : memory'[i].token = memory[i].token
    BY <1>18, <1>a DEF SetList, Change, Entry
  <2>4. Minor(w)
    BY <2>1, <2>2, <2>3 DEF Minor, Only
  <2> QED
    BY <2>4, MinorKeeps
<1>19. ASSUME NEW w \in Workers, CodeExchanged(w) PROVE Private' /\ StoredTokenAccepted'
  <2>1. UNCHANGED <<memory, withdrawn>> /\ worker[w].fresh = NoToken /\ ~Ending(w)
    BY <1>19, <1>b DEF CodeExchanged, at, history, Ending
  <2>2. Only(w) /\ worker'[w].held = worker[w].held
    BY <1>19, <1>a DEF CodeExchanged, Becomes, Only, Worker
  <2>3. worker'[w].fresh \in {NoToken, <<worker[w].id, issued + 1>>}
    BY ZenonT(30), <1>19, <2>1, <1>a DEF CodeExchanged, Becomes, Worker
  <2>4. CASE Issue(worker[w].id, {})
    BY <2>1, <2>2, <2>3, <2>4, <1>a, IssueKeeps
  <2>5. CASE UNCHANGED server /\ worker'[w].fresh = NoToken
    BY <2>1, <2>2, <2>5, PlainKeeps DEF server
  <2> QED
    BY <1>19, <2>1, <2>4, <2>5, <1>a DEF CodeExchanged, Becomes, Worker
<1>20. ASSUME NEW w \in Workers, Exchanged(w) PROVE Private' /\ StoredTokenAccepted'
  <2>1. UNCHANGED <<memory, withdrawn>> /\ worker[w].fresh = NoToken /\ ~Ending(w)
    BY <1>20, <1>b DEF Exchanged, at, history, Ending
  <2>2. Only(w) /\ worker'[w].held = worker[w].held
    BY <1>20, <1>a DEF Exchanged, Becomes, GoTo, Only, Worker
  <2>4. CASE /\ Issue(worker[w].id, {worker[w].held})
             /\ Becomes(w, [worker[w] EXCEPT !.pc = "store", !.fresh = <<worker[w].id, issued + 1>>])
    <3>1. worker'[w].fresh = <<worker[w].id, issued + 1>> /\ worker'[w].pc = "store"
      BY <2>4, <1>a DEF Becomes, Worker
    <3>2. <<worker[w].id, issued + 1>> # NoToken
      <4>1. issued + 1 \in 1..MaxTokens
        BY <2>4, BoundsAssumption DEF IInv, TInv, ServerSound, Issue
      <4> QED
        BY <4>1, <1>a, NewToken DEF IInv
    <3>3. Ending(w)'
      BY <3>1, <3>2 DEF Ending, at
    <3> QED
      BY <2>1, <2>2, <2>4, <3>1, <3>3, <1>a, IssueKeeps
  <2>5. CASE GoTo(w, "store") /\ UNCHANGED server
    <3>1. worker'[w].fresh = NoToken
      BY <2>1, <2>5, <1>a DEF GoTo, Becomes, Worker
    <3> QED
      BY <2>1, <2>2, <2>5, <3>1, PlainKeeps DEF server
  <2> QED
    BY <1>20, <2>4, <2>5 DEF Exchanged
<1>21. ASSUME NEW w \in Workers, ExchangeFails(w) PROVE Private' /\ StoredTokenAccepted'
  <2>1. UNCHANGED memory /\ worker[w].fresh = NoToken /\ ~Ending(w)
    BY <1>21, <1>b DEF ExchangeFails, at, Ending
  <2>2. Only(w) /\ worker'[w].held = worker[w].held /\ worker'[w].fresh = NoToken
    BY <1>21, <2>1, <1>a DEF ExchangeFails, Becomes, GoTo, Only, Worker
  <2>3. CASE Issue(worker[w].id, {worker[w].held}) /\ withdrawn' = withdrawn \cup {worker[w].held}
    BY <2>1, <2>2, <2>3, <1>a, IssueKeeps
  <2>4. CASE UNCHANGED <<server, withdrawn>>
    BY <2>1, <2>2, <2>4, PlainKeeps DEF server
  <2> QED
    BY <1>21, <2>3, <2>4 DEF ExchangeFails
<1>22. ASSUME NEW w \in Workers, Install(w) PROVE Private' /\ StoredTokenAccepted'
  <2> DEFINE rec == [worker[w] EXCEPT !.pc = "snapshot", !.next = "finish", !.fresh = NoToken]
  <2>1. UNCHANGED <<valid, withdrawn>> /\ worker[w].pc = "install"
    BY <1>22 DEF Install, server, history, at
  <2>2. worker' = Renew(w, rec)
    BY <1>22 DEF Install
  <2>3. rec.fresh = NoToken /\ rec.held = worker[w].held
    BY <1>a DEF Worker
  <2> HIDE DEF rec
  <2>4. worker'[w].fresh = NoToken /\ worker'[w].held = worker[w].held
    BY <2>2, <2>3 DEF Renew
  <2>5. \A v \in Workers \ {w} :
          /\ worker'[v].kind = worker[v].kind /\ worker'[v].pc = worker[v].pc
          /\ worker'[v].held = worker[v].held /\ worker'[v].fresh = worker[v].fresh
    BY <2>2, <1>a DEF Renew, Worker
  <2>6. /\ ~memory[worker[w].id].known => memory' = memory /\ memory[worker[w].id].token = NoToken
        /\ \A i \in Ids \ {worker[w].id} : memory'[i] = memory[i]
    BY <1>22, <1>a DEF Install, Change, IInv, TInv, EntriesSound
  <2>7. memory[worker[w].id].known => memory'[worker[w].id].token = worker[w].fresh
    BY <1>22, <1>a DEF Install, Change
  <2>8. PassesOn(w)
    BY <2>1, <2>4, <2>5, <2>6, <2>7 DEF PassesOn, Ending, at
  <2> QED
    BY <2>8, PassesOnKeeps
<1>23. ASSUME NEW w \in Workers, Store(w) PROVE Private' /\ StoredTokenAccepted'
  <2> DEFINE rec == [worker[w] EXCEPT !.pc = "snapshot", !.next = "call", !.fresh = NoToken]
  <2>1. UNCHANGED <<valid, withdrawn>> /\ worker[w].pc = "store"
    BY <1>23 DEF Store, server, history, at
  <2>2. worker' = Renew(w, rec)
    BY <1>23 DEF Store
  <2>3. rec.fresh = NoToken /\ rec.held = worker[w].held
    BY <1>a DEF Worker
  <2> HIDE DEF rec
  <2>4. worker'[w].fresh = NoToken /\ worker'[w].held = worker[w].held
    BY <2>2, <2>3 DEF Renew
  <2>5. \A v \in Workers \ {w} :
          /\ worker'[v].kind = worker[v].kind /\ worker'[v].pc = worker[v].pc
          /\ worker'[v].held = worker[v].held /\ worker'[v].fresh = worker[v].fresh
    BY <2>2, <1>a DEF Renew, Worker
  <2>6. /\ ~memory[worker[w].id].known => memory' = memory /\ memory[worker[w].id].token = NoToken
        /\ \A i \in Ids \ {worker[w].id} : memory'[i] = memory[i]
    BY <1>23, <1>a DEF Store, Change, IInv, TInv, EntriesSound
  <2>7. memory[worker[w].id].known =>
           memory'[worker[w].id].token = IF worker[w].fresh = NoToken THEN memory[worker[w].id].token
                                                                       ELSE worker[w].fresh
    <3>1. worker[w].fresh \in Optional /\ memory[worker[w].id] \in Entry
      BY <1>a DEF Worker
    <3>2. memory[worker[w].id].known =>
            memory'[worker[w].id] = Renewed(memory[worker[w].id], worker[w].fresh)
      BY <1>23, <1>a DEF Store, Change
    <3> QED
      BY <3>1, <3>2, RenewedEntry
  <2>8. PassesOn(w)
    BY <2>1, <2>4, <2>5, <2>6, <2>7 DEF PassesOn, Ending, at
  <2> QED
    BY <2>8, PassesOnKeeps
<1>24. ASSUME NEW w \in Workers, Revoke(w) PROVE Private' /\ StoredTokenAccepted'
  <2>1. /\ UNCHANGED <<memory, withdrawn>> /\ valid \subseteq valid' \cup {worker[w].held}
        /\ worker[w].pc = "revoke" /\ worker[w].fresh = NoToken
    BY <1>24, <1>b DEF Revoke, at, history
  <2>2. Only(w) /\ worker'[w].held = worker[w].held /\ worker'[w].fresh = NoToken
        /\ worker'[w].pc = "forget" /\ worker'[w].kind = worker[w].kind
    BY <1>24, <2>1, <1>a DEF Revoke, Becomes, GoTo, Only, Worker
  <2>3. Ending(w)'
    BY <2>1, <2>2, <1>a DEF Ending, at, Sound
  <2>4. \A v \in Workers : worker'[v].held = worker[v].held /\ worker'[v].fresh = worker[v].fresh
    BY <2>1, <2>2 DEF Only
  <2>5. Private'
    BY <2>1, <2>4 DEF IInv, Private
  <2>6. StoredTokenAccepted'
    <3> SUFFICES ASSUME NEW i \in Ids, memory'[i].token \notin valid' \cup withdrawn' \cup {NoToken}
                 PROVE  \E v \in Workers : Ending(v)' /\ worker'[v].held = memory'[i].token
      BY DEF StoredTokenAccepted
    <3>1. CASE memory[i].token = worker[w].held
      BY <3>1, <2>1, <2>2, <2>3
    <3>2. CASE memory[i].token # worker[w].held
      <4>1. PICK v \in Workers : Ending(v) /\ worker[v].held = memory[i].token
        BY <3>2, <2>1 DEF IInv, StoredTokenAccepted
      <4>2. v # w
        BY <4>1, <3>2
      <4> QED
        BY <4>1, <4>2, <2>1, <2>2 DEF Only, Ending, at
    <3> QED
      BY <3>1, <3>2
  <2> QED
    BY <2>5, <2>6
<1>25. ASSUME Rebuild \/ UNCHANGED vars PROVE Private' /\ StoredTokenAccepted'
  <2>1. UNCHANGED <<memory, worker, valid, withdrawn>>
    BY <1>25 DEF Rebuild, vars, server, history
  <2> QED
    BY <2>1 DEF IInv, Private, StoredTokenAccepted, Ending, at
<1>26. ASSUME Withdraw PROVE Private' /\ StoredTokenAccepted'
  <2>1. UNCHANGED <<memory, worker>> /\ valid \cup withdrawn \subseteq valid' \cup withdrawn'
    BY <1>26 DEF Withdraw
  <2>2. Private'
    BY <2>1 DEF IInv, Private
  <2>3. StoredTokenAccepted'
    BY <2>1 DEF IInv, StoredTokenAccepted, Ending, at
  <2> QED
    BY <2>2, <2>3
<1>27. ASSUME Restart PROVE Private' /\ StoredTokenAccepted'
  <2>1. /\ memory' = [i \in Ids |-> FromFile(file[i])] /\ worker' = [w \in Workers |-> Idle]
        /\ UNCHANGED valid
    BY <1>27 DEF Restart, server
  <2>2. Private'
    BY <2>1 DEF Private, Idle
  <2>3. ASSUME NEW i \in Ids PROVE memory'[i].token \in valid' \cup withdrawn' \cup {NoToken}
    <3>1. memory'[i].token = file[i].token
      BY <2>1 DEF FromFile
    <3>2. CASE file[i].token # memory[i].token /\ file[i].token # NoToken
      BY <1>27, <3>1, <3>2 DEF Restart
    <3>3. CASE file[i].token = memory[i].token /\ file[i].token # NoToken
      <4>1. \/ memory[i].token \in valid \cup withdrawn
            \/ \E v \in Workers : Ending(v) /\ worker[v].held = memory[i].token
        BY <3>3 DEF IInv, StoredTokenAccepted
      <4>2. withdrawn \subseteq withdrawn' /\ \A v \in Workers : Ending(v) /\ worker[v].held # NoToken
                                                              => worker[v].held \in withdrawn'
        BY <1>27 DEF Restart
      <4> QED
        BY <4>1, <4>2, <3>1, <3>3, <2>1
    <3> QED
      BY <3>1, <3>2, <3>3
  <2> QED
    BY <2>2, <2>3 DEF StoredTokenAccepted
<1> QED
  BY <1>1, <1>2, <1>3, <1>4, <1>5, <1>6, <1>7, <1>8, <1>9, <1>10, <1>11, <1>12, <1>13, <1>14, <1>15, <1>16, <1>17, <1>18, <1>19, <1>20, <1>21, <1>22, <1>23, <1>24, <1>25, <1>26, <1>27
     DEF Next, WorkerStep

(* The first state, and every step, has the invariant.                     *)
LEMMA IInvInductive == (Init => IInv) /\ (IInv /\ [Next]_vars => IInv')
<1>1. Init => IInv
  <2> SUFFICES ASSUME Init PROVE IInv
    OBVIOUS
  <2>1. \A w \in Workers : worker[w].fresh = NoToken
    BY DEF Init, Idle
  <2>2. \A i \in Ids : memory[i].token = NoToken
    BY DEF Init, Unknown
  <2> QED
    BY <2>1, <2>2, TInit DEF IInv, Private, StoredTokenAccepted
<1>2. IInv /\ [Next]_vars => IInv'
  BY TNext, TokensNext DEF IInv
<1> QED
  BY <1>1, <1>2

-----------------------------------------------------------------------------
(* The state stays within its types.                                       *)
THEOREM TypeCorrect == Spec => []TypeOK
<1>1. Spec => []TInv
  BY TInit, TNext, PTL DEF Spec
<1> QED
  BY <1>1, Types, PTL

(* Whatever workers run at the same time, whatever the provider rotates,   *)
(* refuses or withdraws, and wherever OBS ends: the refresh token that an  *)
(* entry holds is one the provider accepts, unless something outside ended *)
(* it or the worker that did is about to say so.                           *)
THEOREM StoredTokensAccepted == Spec => []StoredTokenAccepted
<1>1. IInv => StoredTokenAccepted
  BY DEF IInv
<1> QED
  BY <1>1, IInvInductive, PTL DEF Spec

-----------------------------------------------------------------------------
(* The sign-in slot.                                                       *)

(* A step in which no sign-in starts or ends.                              *)
LEMMA KindsKeepSlot ==
  ASSUME SlotHeld, UNCHANGED signing_in,
         \A w \in Workers : worker'[w].kind = "signin" <=> worker[w].kind = "signin"
  PROVE  SlotHeld'
BY DEF SlotHeld

(* Every step keeps the slot with the sign-in.                             *)
LEMMA SlotNext == TInv /\ SlotHeld /\ [Next]_vars => SlotHeld'
<1> SUFFICES ASSUME TInv, SlotHeld, [Next]_vars PROVE SlotHeld'
  OBVIOUS
<1>a. /\ worker \in [Workers -> Worker]
      /\ \A w \in Workers : worker[w] \in Worker /\ Sound(worker[w], issued)
  BY DEF TInv, WorkersSound, Worker
<1>b. \A w \in Workers : /\ worker[w].pc = "idle" => worker[w].kind # "signin"
                         /\ worker[w].pc = "target" => worker[w].kind # "signin"
  BY <1>a DEF Sound
<1>1. ASSUME NEW w \in Workers, NEW kind, NEW pc, Begin(w, kind, pc), kind # "signin", UNCHANGED signing_in
      PROVE  SlotHeld'
  <2>1. worker[w].kind # "signin" /\ worker'[w].kind # "signin" /\ Only(w)
    BY <1>1, <1>a, <1>b DEF Begin, Becomes, Worker, Only
  <2> QED
    BY <1>1, <2>1, KindsKeepSlot DEF Only
<1>2. ASSUME NEW w \in Workers, Begin(w, "signin", "documents"), ~signing_in, signing_in' = TRUE
      PROVE  SlotHeld'
  <2>1. worker'[w].kind = "signin" /\ Only(w)
    BY <1>2, <1>a DEF Begin, Becomes, Worker, Only
  <2>2. \A v \in Workers \ {w} : worker'[v].kind # "signin"
    BY <1>2, <2>1 DEF SlotHeld, Only
  <2> QED
    BY <1>2, <2>1, <2>2 DEF SlotHeld
<1>3. ASSUME NEW w \in Workers, ClickSignIn(w) PROVE SlotHeld'
  BY <1>1, <1>2, <1>3 DEF ClickSignIn
<1>4. ASSUME NEW w \in Workers, ClickSignOut(w) \/ PickIngest(w) \/ WatchResolves(w) PROVE SlotHeld'
  BY <1>1, <1>4 DEF ClickSignOut, PickIngest, WatchResolves
<1>5. ASSUME NEW w \in Workers, Finish(w) PROVE SlotHeld'
  <2>1. worker'[w].kind = "none" /\ Only(w) /\ signing_in' = (signing_in /\ worker[w].kind # "signin")
    BY <1>5, <1>a DEF Finish, Becomes, Idle, Only
  <2>2. CASE worker[w].kind = "signin"
    <3>1. \A v \in Workers : worker'[v].kind # "signin"
      BY <2>1, <2>2 DEF SlotHeld, Only
    <3> QED
      BY <2>1, <2>2, <3>1 DEF SlotHeld
  <2>3. CASE worker[w].kind # "signin"
    <3>1. \A v \in Workers : worker'[v].kind = "signin" <=> worker[v].kind = "signin"
      BY <2>1, <2>3 DEF Only
    <3> QED
      BY <2>1, <2>3, <3>1 DEF SlotHeld
  <2> QED
    BY <2>2, <2>3
<1>6. ASSUME NEW w \in Workers, TargetMissing(w) PROVE SlotHeld'
  <2>1. worker'[w].kind # "signin" /\ worker[w].kind # "signin" /\ Only(w) /\ UNCHANGED signing_in
    BY <1>6, <1>a, <1>b DEF TargetMissing, Becomes, Idle, Only, at
  <2> QED
    BY <2>1, KindsKeepSlot DEF Only
<1>7. ASSUME NEW w \in Workers, Only(w), worker'[w].kind = worker[w].kind, UNCHANGED signing_in PROVE SlotHeld'
  BY <1>7, KindsKeepSlot DEF Only
<1>8. ASSUME NEW w \in Workers, Snapshot(w) PROVE SlotHeld'
  <2>1. Only(w) /\ UNCHANGED signing_in
    BY <1>8, <1>a DEF Snapshot, Becomes, GoTo, Only
  <2>2. worker'[w].kind = worker[w].kind
    BY <1>8, <1>a DEF Snapshot, Becomes, GoTo, Worker
  <2> QED
    BY <2>1, <2>2, <1>7
<1>9. ASSUME NEW w \in Workers, Save(w) PROVE SlotHeld'
  <2>1. Only(w) /\ UNCHANGED signing_in
    BY <1>9, <1>a DEF Save, Becomes, GoTo, Only
  <2>2. worker'[w].kind = worker[w].kind
    BY <1>9, <1>a DEF Save, Becomes, GoTo, Worker
  <2> QED
    BY <2>1, <2>2, <1>7
<1>10. ASSUME NEW w \in Workers, Forget(w) PROVE SlotHeld'
  <2>1. Only(w) /\ UNCHANGED signing_in
    BY <1>10, <1>a DEF Forget, Becomes, GoTo, Only
  <2>2. worker'[w].kind = worker[w].kind
    BY <1>10, <1>a DEF Forget, Becomes, GoTo, Worker
  <2> QED
    BY <2>1, <2>2, <1>7
<1>11. ASSUME NEW w \in Workers, DiscoveryFails(w) PROVE SlotHeld'
  <2>1. Only(w) /\ UNCHANGED signing_in
    BY <1>11, <1>a DEF DiscoveryFails, Becomes, GoTo, Only
  <2>2. worker'[w].kind = worker[w].kind
    BY <1>11, <1>a DEF DiscoveryFails, Becomes, GoTo, Worker
  <2> QED
    BY <2>1, <2>2, <1>7
<1>12. ASSUME NEW w \in Workers, Documents(w) PROVE SlotHeld'
  <2>1. Only(w) /\ UNCHANGED signing_in
    BY <1>12, <1>a DEF Documents, Becomes, GoTo, Only
  <2>2. worker'[w].kind = worker[w].kind
    BY <1>12, <1>a DEF Documents, Becomes, GoTo, Worker
  <2> QED
    BY <2>1, <2>2, <1>7
<1>13. ASSUME NEW w \in Workers, SignInAbandoned(w) PROVE SlotHeld'
  <2>1. Only(w) /\ UNCHANGED signing_in
    BY <1>13, <1>a DEF SignInAbandoned, Becomes, GoTo, Only
  <2>2. worker'[w].kind = worker[w].kind
    BY <1>13, <1>a DEF SignInAbandoned, Becomes, GoTo, Worker
  <2> QED
    BY <2>1, <2>2, <1>7
<1>14. ASSUME NEW w \in Workers, CodeExchanged(w) PROVE SlotHeld'
  <2>1. Only(w) /\ UNCHANGED signing_in
    BY <1>14, <1>a DEF CodeExchanged, Becomes, GoTo, Only
  <2>2. worker'[w].kind = worker[w].kind
    BY <1>14, <1>a DEF CodeExchanged, Becomes, GoTo, Worker
  <2> QED
    BY <2>1, <2>2, <1>7
<1>15. ASSUME NEW w \in Workers, TargetFound(w) PROVE SlotHeld'
  <2>1. Only(w) /\ UNCHANGED signing_in
    BY <1>15, <1>a DEF TargetFound, Becomes, GoTo, Only
  <2>2. worker'[w].kind = worker[w].kind
    BY <1>15, <1>a DEF TargetFound, Becomes, GoTo, Worker
  <2> QED
    BY <2>1, <2>2, <1>7
<1>16. ASSUME NEW w \in Workers, Revoke(w) PROVE SlotHeld'
  <2>1. Only(w) /\ UNCHANGED signing_in
    BY <1>16, <1>a DEF Revoke, Becomes, GoTo, Only
  <2>2. worker'[w].kind = worker[w].kind
    BY <1>16, <1>a DEF Revoke, Becomes, GoTo, Worker
  <2> QED
    BY <2>1, <2>2, <1>7
<1>17. ASSUME NEW w \in Workers, CurrentToken(w) PROVE SlotHeld'
  <2>1. Only(w) /\ UNCHANGED signing_in
    BY <1>17, <1>a DEF CurrentToken, Becomes, GoTo, Only
  <2>2. worker'[w].kind = worker[w].kind
    BY <1>17, <1>a DEF CurrentToken, Becomes, GoTo, Worker
  <2> QED
    BY <2>1, <2>2, <1>7
<1>18. ASSUME NEW w \in Workers, Call(w) PROVE SlotHeld'
  <2>1. Only(w) /\ UNCHANGED signing_in
    BY <1>18, <1>a DEF Call, Becomes, GoTo, Only
  <2>2. worker'[w].kind = worker[w].kind
    BY <1>18, <1>a DEF Call, Becomes, GoTo, Worker
  <2> QED
    BY <2>1, <2>2, <1>7
<1>19. ASSUME NEW w \in Workers, SetList(w) PROVE SlotHeld'
  <2>1. Only(w) /\ UNCHANGED signing_in
    BY <1>19, <1>a DEF SetList, Becomes, GoTo, Only
  <2>2. worker'[w].kind = worker[w].kind
    BY <1>19, <1>a DEF SetList, Becomes, GoTo, Worker
  <2> QED
    BY <2>1, <2>2, <1>7
<1>20. ASSUME NEW w \in Workers, ReadGrant(w) PROVE SlotHeld'
  <2>1. Only(w) /\ UNCHANGED signing_in
    BY <1>20, <1>a DEF ReadGrant, Becomes, GoTo, Only
  <2>2. worker'[w].kind = worker[w].kind
    BY <1>20, <1>a DEF ReadGrant, Becomes, GoTo, Worker
  <2> QED
    BY <2>1, <2>2, <1>7
<1>21. ASSUME NEW w \in Workers, Exchanged(w) PROVE SlotHeld'
  <2>1. Only(w) /\ UNCHANGED signing_in
    BY <1>21, <1>a DEF Exchanged, Becomes, GoTo, Only
  <2>2. worker'[w].kind = worker[w].kind
    BY <1>21, <1>a DEF Exchanged, Becomes, GoTo, Worker
  <2> QED
    BY <2>1, <2>2, <1>7
<1>22. ASSUME NEW w \in Workers, ExchangeRefused(w) PROVE SlotHeld'
  <2>1. Only(w) /\ UNCHANGED signing_in
    BY <1>22, <1>a DEF ExchangeRefused, Becomes, GoTo, Only
  <2>2. worker'[w].kind = worker[w].kind
    BY <1>22, <1>a DEF ExchangeRefused, Becomes, GoTo, Worker
  <2> QED
    BY <2>1, <2>2, <1>7
<1>23. ASSUME NEW w \in Workers, ExchangeFails(w) PROVE SlotHeld'
  <2>1. Only(w) /\ UNCHANGED signing_in
    BY <1>23, <1>a DEF ExchangeFails, Becomes, GoTo, Only
  <2>2. worker'[w].kind = worker[w].kind
    BY <1>23, <1>a DEF ExchangeFails, Becomes, GoTo, Worker
  <2> QED
    BY <2>1, <2>2, <1>7
<1>24. ASSUME NEW w \in Workers, Install(w) PROVE SlotHeld'
  <2>1. \A v \in Workers : worker'[v].kind = worker[v].kind
    BY <1>24, <1>a DEF Install, Renew, Worker
  <2> QED
    BY <1>24, <2>1, KindsKeepSlot DEF Install
<1>25. ASSUME NEW w \in Workers, Store(w) PROVE SlotHeld'
  <2>1. \A v \in Workers : worker'[v].kind = worker[v].kind
    BY <1>25, <1>a DEF Store, Renew, Worker
  <2> QED
    BY <1>25, <2>1, KindsKeepSlot DEF Store
<1>26. ASSUME Rebuild \/ Withdraw \/ UNCHANGED vars PROVE SlotHeld'
  BY <1>26, KindsKeepSlot DEF Rebuild, Withdraw, vars
<1>27. ASSUME Restart PROVE SlotHeld'
  BY <1>27 DEF Restart, SlotHeld, Idle
<1> QED
  BY <1>3, <1>4, <1>5, <1>6, <1>8, <1>9, <1>10, <1>11, <1>12, <1>13, <1>14, <1>15, <1>16, <1>17, <1>18, <1>19, <1>20, <1>21, <1>22, <1>23, <1>24, <1>25, <1>26, <1>27
     DEF Next, WorkerStep

(* The button is taken exactly while a sign-in runs, and only one runs: a  *)
(* fact about every way out of run_sign_in.                                *)
THEOREM SlotIsHeld == Spec => []SlotHeld
<1>1. Init => SlotHeld
  BY DEF Init, SlotHeld, Idle
<1>2. TInv /\ SlotHeld /\ [Next]_vars => TInv' /\ SlotHeld'
  BY TNext, SlotNext
<1> QED
  BY TInit, <1>1, <1>2, PTL DEF Spec

-----------------------------------------------------------------------------
(* Who may end a session.                                                  *)

(* A worker about to look for a grant, or to forget the session, for want  *)
(* of tokens alone has an entry without them, or has been overtaken.       *)
FindsNone(r, m) ==
  /\ r.pc = "grant" /\ ~r.again /\ ~r.outdated => ~m[r.id].access
  /\ r.pc = "forget" /\ r.kind # "signout" /\ ~r.refused /\ ~r.outdated => ~signed_in(m[r.id])

Excused == \A w \in Workers : FindsNone(worker[w], memory)

(* The body of SessionKept.                                                *)
Kept == \A i \in Ids : signed_in(memory[i]) /\ ~signed_in(memory'[i]) => LosesSession(i)

(* A step after which an entry has no token that it did not have.          *)
NoGain == \A i \in Ids : /\ memory'[i].access => memory[i].access
                         /\ signed_in(memory'[i]) => signed_in(memory[i])

(* Losing tokens outdates nobody.                                          *)
LEMMA ExcusedStill ==
  ASSUME TInv, Excused, NEW w \in Workers, Only(w), NoGain, FindsNone(worker'[w], memory')
  PROVE  Excused'
<1>1. \A v \in Workers : worker[v].id \in Ids
  BY DEF TInv, WorkersSound, Worker
<1>2. ASSUME NEW v \in Workers \ {w} PROVE FindsNone(worker'[v], memory')
  <2>1. worker'[v] = worker[v] /\ worker[v].id \in Ids /\ FindsNone(worker[v], memory)
    BY <1>1 DEF Only, Excused
  <2> QED
    BY <2>1 DEF FindsNone, NoGain
<1> QED
  BY <1>2 DEF Excused

(* Nothing changes in the entries, and w neither looks nor forgets next.   *)
LEMMA QuietStep ==
  ASSUME TInv, Excused, NEW w \in Workers, Only(w), UNCHANGED memory, worker'[w].pc \notin {"grant", "forget"}
  PROVE  Excused' /\ Kept
<1>1. NoGain /\ Kept
  BY DEF NoGain, Kept
<1>2. FindsNone(worker'[w], memory')
  BY DEF FindsNone
<1> QED
  BY <1>1, <1>2, ExcusedStill

(* w gives its entry a session, and outdates the others that read it.      *)
LEMMA RenewStep ==
  ASSUME TInv, Excused, NEW w \in Workers, NEW rec, worker' = Renew(w, rec), rec.id = worker[w].id,
         rec.pc = "snapshot", \A i \in Ids \ {rec.id} : memory'[i] = memory[i],
         memory'[rec.id] = memory[rec.id] \/ signed_in(memory'[rec.id])
  PROVE  Excused' /\ Kept
<1>1. Kept
  BY DEF Kept
<1>2. ASSUME NEW v \in Workers PROVE FindsNone(worker'[v], memory')
  <2>0. /\ worker[v] \in Worker /\ worker[v].id \in Ids /\ FindsNone(worker[v], memory)
    BY DEF TInv, WorkersSound, Worker, Excused
  <2>1. CASE v = w
    BY <2>1 DEF Renew, FindsNone
  <2>2. CASE v # w
    <3>1. worker'[v] = [worker[v] EXCEPT !.outdated = worker[v].outdated \/ worker[v].id = rec.id]
      BY <2>2 DEF Renew
    <3>2. /\ worker'[v].pc = worker[v].pc /\ worker'[v].kind = worker[v].kind /\ worker'[v].id = worker[v].id
          /\ worker'[v].again = worker[v].again /\ worker'[v].refused = worker[v].refused
      BY <3>1, <2>0 DEF Worker
    <3>3. worker'[v].outdated = (worker[v].outdated \/ worker[v].id = rec.id)
      BY <3>1, <2>0 DEF Worker
    <3>4. CASE worker[v].id = rec.id
      <4>1. worker'[v].outdated = TRUE
        BY <3>3, <3>4
      <4> QED
        BY <4>1 DEF FindsNone
    <3>5. CASE worker[v].id # rec.id
      <4>1. memory'[worker[v].id] = memory[worker[v].id]
        BY <3>5, <2>0
      <4>2. ~worker'[v].outdated => ~worker[v].outdated
        BY <3>3
      <4> QED
        BY <4>1, <4>2, <3>2, <2>0 DEF FindsNone
    <3> QED
      BY <3>4, <3>5
  <2> QED
    BY <2>1, <2>2
<1> QED
  BY <1>1, <1>2 DEF Excused

(* Every step ends sessions for a reason only.                             *)
LEMMA KeptNext == TInv /\ Excused /\ [Next]_vars => Excused' /\ Kept
<1> SUFFICES ASSUME TInv, Excused, [Next]_vars PROVE Excused' /\ Kept
  OBVIOUS
<1>a. /\ worker \in [Workers -> Worker] /\ memory \in [Ids -> Entry]
      /\ \A w \in Workers : worker[w] \in Worker /\ Sound(worker[w], issued) /\ worker[w].id \in Ids
      /\ \A w \in Workers : FindsNone(worker[w], memory)
  BY DEF TInv, WorkersSound, EntriesSound, Worker, Excused
<1>1. ASSUME NEW w \in Workers, ClickSignIn(w) PROVE Excused' /\ Kept
  <2>1. PICK kind, pc : Begin(w, kind, pc) /\ pc \in {"target", "documents"}
    <3>1. Begin(w, "refresh", "target") \/ Begin(w, "signin", "documents")
      BY <1>1 DEF ClickSignIn
    <3> QED
      BY <3>1
  <2>2. Only(w) /\ UNCHANGED memory /\ worker'[w].pc = pc
    BY <2>1, <1>a DEF Begin, Becomes, Only, Worker
  <2> QED
    BY <2>1, <2>2, QuietStep
<1>2. ASSUME NEW w \in Workers, ClickSignOut(w) PROVE Excused' /\ Kept
  <2>1. PICK kind, pc : Begin(w, kind, pc) /\ pc \in {"target", "documents"}
    <3>1. Begin(w, "signout", "target")
      BY <1>2 DEF ClickSignOut
    <3> QED
      BY <3>1
  <2>2. Only(w) /\ UNCHANGED memory /\ worker'[w].pc = pc
    BY <2>1, <1>a DEF Begin, Becomes, Only, Worker
  <2> QED
    BY <2>1, <2>2, QuietStep
<1>3. ASSUME NEW w \in Workers, PickIngest(w) PROVE Excused' /\ Kept
  <2>1. PICK kind, pc : Begin(w, kind, pc) /\ pc \in {"target", "documents"}
    <3>1. Begin(w, "pick", "target")
      BY <1>3 DEF PickIngest
    <3> QED
      BY <3>1
  <2>2. Only(w) /\ UNCHANGED memory /\ worker'[w].pc = pc
    BY <2>1, <1>a DEF Begin, Becomes, Only, Worker
  <2> QED
    BY <2>1, <2>2, QuietStep
<1>4. ASSUME NEW w \in Workers, WatchResolves(w) PROVE Excused' /\ Kept
  <2>1. PICK kind, pc : Begin(w, kind, pc) /\ pc \in {"target", "documents"}
    <3>1. Begin(w, "watch", "target")
      BY <1>4 DEF WatchResolves
    <3> QED
      BY <3>1
  <2>2. Only(w) /\ UNCHANGED memory /\ worker'[w].pc = pc
    BY <2>1, <1>a DEF Begin, Becomes, Only, Worker
  <2> QED
    BY <2>1, <2>2, QuietStep
<1>5. ASSUME NEW w \in Workers, Snapshot(w) PROVE Excused' /\ Kept
  <2>1. Only(w) /\ UNCHANGED memory
    BY <1>5, <1>a DEF Snapshot, Becomes, GoTo, Only
  <2>2. worker'[w].pc \notin {"grant", "forget"}
    <3>1. worker[w].pc = "snapshot" /\ worker[w].next \in {"finish", "browser", "call"}
      BY <1>5, <1>a DEF Snapshot, at, Sound
    <3>2. CASE Becomes(w, [worker[w] EXCEPT !.pc = "save", !.snap = ToFile(memory[worker[w].id])])
      BY <3>2, <1>a DEF Becomes, Worker
    <3>3. CASE GoTo(w, worker[w].next)
      BY <3>1, <3>3, <1>a DEF Becomes, GoTo, Worker
    <3> QED
      BY <1>5, <3>2, <3>3 DEF Snapshot
  <2> QED
    BY <2>1, <2>2, QuietStep
<1>6. ASSUME NEW w \in Workers, Save(w) PROVE Excused' /\ Kept
  <2>1. Only(w) /\ UNCHANGED memory
    BY <1>6, <1>a DEF Save, Becomes, GoTo, Only
  <2>2. worker'[w].pc \notin {"grant", "forget"}
    BY <1>6, <1>a DEF Save, Becomes, GoTo, Worker, at, Sound
  <2> QED
    BY <2>1, <2>2, QuietStep
<1>7. ASSUME NEW w \in Workers, Finish(w) PROVE Excused' /\ Kept
  <2>1. Only(w) /\ UNCHANGED memory
    BY <1>7, <1>a DEF Finish, Becomes, GoTo, Only
  <2>2. worker'[w].pc \notin {"grant", "forget"}
    BY <1>7, <1>a DEF Finish, Becomes, GoTo, Worker, Idle
  <2> QED
    BY <2>1, <2>2, QuietStep
<1>8. ASSUME NEW w \in Workers, DiscoveryFails(w) PROVE Excused' /\ Kept
  <2>1. Only(w) /\ UNCHANGED memory
    BY <1>8, <1>a DEF DiscoveryFails, Becomes, GoTo, Only
  <2>2. worker'[w].pc \notin {"grant", "forget"}
    BY <1>8, <1>a DEF DiscoveryFails, Becomes, GoTo, Worker
  <2> QED
    BY <2>1, <2>2, QuietStep
<1>9. ASSUME NEW w \in Workers, SignInAbandoned(w) PROVE Excused' /\ Kept
  <2>1. Only(w) /\ UNCHANGED memory
    BY <1>9, <1>a DEF SignInAbandoned, Becomes, GoTo, Only
  <2>2. worker'[w].pc \notin {"grant", "forget"}
    BY <1>9, <1>a DEF SignInAbandoned, Becomes, GoTo, Worker
  <2> QED
    BY <2>1, <2>2, QuietStep
<1>10. ASSUME NEW w \in Workers, CodeExchanged(w) PROVE Excused' /\ Kept
  <2>1. Only(w) /\ UNCHANGED memory
    BY <1>10, <1>a DEF CodeExchanged, Becomes, GoTo, Only
  <2>2. worker'[w].pc \notin {"grant", "forget"}
    <3>1. PICK lists \in BOOLEAN :
            \/ Becomes(w, [worker[w] EXCEPT !.pc = "install", !.lists = lists, !.fresh = <<worker[w].id, issued + 1>>])
            \/ Becomes(w, [worker[w] EXCEPT !.pc = "install", !.lists = lists])
      BY <1>10 DEF CodeExchanged
    <3>2. worker'[w].pc = "install"
      BY <3>1, <1>a DEF Becomes, Worker
    <3> QED
      BY <3>2
  <2> QED
    BY <2>1, <2>2, QuietStep
<1>11. ASSUME NEW w \in Workers, TargetFound(w) PROVE Excused' /\ Kept
  <2>1. Only(w) /\ UNCHANGED memory
    BY <1>11, <1>a DEF TargetFound, Becomes, GoTo, Only
  <2>2. worker'[w].pc \notin {"grant", "forget"}
    BY ZenonT(30), <1>11, <1>a DEF TargetFound, Becomes, GoTo, Worker
  <2> QED
    BY <2>1, <2>2, QuietStep
<1>12. ASSUME NEW w \in Workers, TargetMissing(w) PROVE Excused' /\ Kept
  <2>1. Only(w) /\ UNCHANGED memory
    BY <1>12, <1>a DEF TargetMissing, Becomes, GoTo, Only
  <2>2. worker'[w].pc \notin {"grant", "forget"}
    BY <1>12, <1>a DEF TargetMissing, Becomes, GoTo, Worker, Idle
  <2> QED
    BY <2>1, <2>2, QuietStep
<1>13. ASSUME NEW w \in Workers, Exchanged(w) PROVE Excused' /\ Kept
  <2>1. Only(w) /\ UNCHANGED memory
    BY <1>13, <1>a DEF Exchanged, Becomes, GoTo, Only
  <2>2. worker'[w].pc \notin {"grant", "forget"}
    <3>1. \/ Becomes(w, [worker[w] EXCEPT !.pc = "store", !.fresh = <<worker[w].id, issued + 1>>])
          \/ GoTo(w, "store")
      BY <1>13 DEF Exchanged
    <3>2. worker'[w].pc = "store"
      BY <3>1, <1>a DEF Becomes, GoTo, Worker
    <3> QED
      BY <3>2
  <2> QED
    BY <2>1, <2>2, QuietStep
<1>14. ASSUME NEW w \in Workers, ExchangeFails(w) PROVE Excused' /\ Kept
  <2>1. Only(w) /\ UNCHANGED memory
    BY <1>14, <1>a DEF ExchangeFails, Becomes, GoTo, Only
  <2>2. worker'[w].pc \notin {"grant", "forget"}
    BY <1>14, <1>a DEF ExchangeFails, Becomes, GoTo, Worker
  <2> QED
    BY <2>1, <2>2, QuietStep
<1>15. ASSUME NEW w \in Workers, Revoke(w) PROVE Excused' /\ Kept
  <2>1. Only(w) /\ UNCHANGED memory
    BY <1>15, <1>a DEF Revoke, Becomes, GoTo, Only
  <2>2. FindsNone(worker'[w], memory')
    <3>1. worker'[w].pc = "forget" /\ worker'[w].kind = "signout"
      BY <1>15, <1>a DEF Revoke, Becomes, GoTo, Worker, at, Sound
    <3> QED
      BY <3>1 DEF FindsNone
  <2>3. NoGain /\ Kept
    BY <2>1 DEF NoGain, Kept
  <2> QED
    BY <2>1, <2>2, <2>3, ExcusedStill
<1>16. ASSUME NEW w \in Workers, ExchangeRefused(w) PROVE Excused' /\ Kept
  <2>1. Only(w) /\ UNCHANGED memory
    BY <1>16, <1>a DEF ExchangeRefused, Becomes, GoTo, Only
  <2>2. FindsNone(worker'[w], memory')
    <3>1. worker'[w].pc = "forget" /\ worker'[w].refused = TRUE
      BY <1>16, <1>a DEF ExchangeRefused, Becomes, Worker
    <3> QED
      BY <3>1 DEF FindsNone
  <2>3. NoGain /\ Kept
    BY <2>1 DEF NoGain, Kept
  <2> QED
    BY <2>1, <2>2, <2>3, ExcusedStill
<1>17. ASSUME NEW w \in Workers, CurrentToken(w) PROVE Excused' /\ Kept
  <2>1. Only(w) /\ UNCHANGED memory
    BY <1>17, <1>a DEF CurrentToken, Becomes, GoTo, Only
  <2>2. FindsNone(worker'[w], memory')
    <3>1. /\ worker'[w].pc = IF memory[worker[w].id].access THEN "call" ELSE "grant"
          /\ worker'[w].id = worker[w].id
      BY <1>17, <1>a DEF CurrentToken, Becomes, Worker
    <3> QED
      BY <2>1, <3>1 DEF FindsNone
  <2>3. NoGain /\ Kept
    BY <2>1 DEF NoGain, Kept
  <2> QED
    BY <2>1, <2>2, <2>3, ExcusedStill
<1>18. ASSUME NEW w \in Workers, Call(w) PROVE Excused' /\ Kept
  <2>1. Only(w) /\ UNCHANGED memory
    BY <1>18, <1>a DEF Call, Becomes, GoTo, Only
  <2>2. FindsNone(worker'[w], memory')
    <3>1. CASE GoTo(w, "finish") \/ GoTo(w, "list")
      <4>1. worker'[w].pc \in {"finish", "list"}
        BY <3>1, <1>a DEF GoTo, Becomes, Worker
      <4> QED
        BY <4>1 DEF FindsNone
    <3>2. CASE Becomes(w, [worker[w] EXCEPT !.pc = "grant", !.again = TRUE])
      <4>1. worker'[w].pc = "grant" /\ worker'[w].again = TRUE
        BY <3>2, <1>a DEF Becomes, Worker
      <4> QED
        BY <4>1 DEF FindsNone
    <3>3. CASE Becomes(w, [worker[w] EXCEPT !.pc = "forget", !.refused = TRUE])
      <4>1. worker'[w].pc = "forget" /\ worker'[w].refused = TRUE
        BY <3>3, <1>a DEF Becomes, Worker
      <4> QED
        BY <4>1 DEF FindsNone
    <3> QED
      BY <1>18, <3>1, <3>2, <3>3 DEF Call
  <2>3. NoGain /\ Kept
    BY <2>1 DEF NoGain, Kept
  <2> QED
    BY <2>1, <2>2, <2>3, ExcusedStill
<1>19. ASSUME NEW w \in Workers, ReadGrant(w) PROVE Excused' /\ Kept
  <2>1. Only(w) /\ UNCHANGED memory
    BY <1>19, <1>a DEF ReadGrant, Becomes, GoTo, Only
  <2>2. FindsNone(worker'[w], memory')
    <3> DEFINE t == memory[worker[w].id].token
    <3>1. CASE t # NoToken /\ Becomes(w, [worker[w] EXCEPT !.pc = "exchange", !.held = t, !.outdated = FALSE])
      <4>1. worker'[w].pc = "exchange"
        BY <3>1, <1>a DEF Becomes, Worker
      <4> QED
        BY <4>1 DEF FindsNone
    <3>2. CASE t = NoToken /\ Becomes(w, [worker[w] EXCEPT !.pc = "forget", !.held = t, !.refused = worker[w].again])
      <4>1. /\ worker'[w].pc = "forget" /\ worker'[w].refused = worker[w].again
            /\ worker'[w].outdated = worker[w].outdated /\ worker'[w].id = worker[w].id
        BY <3>2, <1>a DEF Becomes, Worker
      <4>2. ~worker[w].again /\ ~worker[w].outdated => ~memory[worker[w].id].access
        BY <1>19, <1>a DEF ReadGrant, at, FindsNone
      <4> QED
        BY <4>1, <4>2, <3>2, <2>1 DEF FindsNone, signed_in
    <3> QED
      BY <1>19, <3>1, <3>2 DEF ReadGrant
  <2>3. NoGain /\ Kept
    BY <2>1 DEF NoGain, Kept
  <2> QED
    BY <2>1, <2>2, <2>3, ExcusedStill
<1>20. ASSUME NEW w \in Workers, Forget(w) PROVE Excused' /\ Kept
  <2>1. Only(w) /\ worker'[w].pc = "snapshot" /\ worker[w].pc = "forget"
    BY <1>20, <1>a DEF Forget, Becomes, Only, Worker, at
  <2>2. memory' = [memory EXCEPT ![worker[w].id] = Forgotten(memory[worker[w].id])]
    BY <1>20, <1>a DEF Forget, Change
  <2>3. ~signed_in(memory'[worker[w].id]) /\ ~memory'[worker[w].id].access
    BY <2>2, <1>a DEF Forgotten, signed_in, Entry
  <2>4. \A i \in Ids \ {worker[w].id} : memory'[i] = memory[i]
    BY <2>2, <1>a
  <2>5. NoGain
    BY <2>3, <2>4 DEF NoGain
  <2>6. Excused'
    BY <2>1, <2>5, ExcusedStill DEF FindsNone
  <2>7. Kept
    <3> SUFFICES ASSUME NEW i \in Ids, signed_in(memory[i]), ~signed_in(memory'[i]) PROVE LosesSession(i)
      BY DEF Kept
    <3>1. i = worker[w].id
      BY <2>4
    <3>2. worker[w].kind = "signout" \/ worker[w].refused \/ worker[w].outdated
      BY <3>1, <2>1, <1>a DEF FindsNone
    <3> QED
      BY <3>1, <3>2, <2>1 DEF LosesSession, at
  <2> QED
    BY <2>6, <2>7
<1>21. ASSUME NEW w \in Workers, Documents(w) PROVE Excused' /\ Kept
  <2>1. Only(w) /\ worker'[w].pc \in {"finish", "snapshot"} /\ worker[w].pc = "documents"
    BY <1>21, <1>a DEF Documents, Becomes, Only, Worker, at
  <2>2. PICK i \in Ids : memory' = [j \in Ids |-> IF j = i THEN Remembered(i) ELSE Unknown]
    BY <1>21 DEF Documents, Change
  <2>3. Remembered(i).access = memory[i].access /\ Remembered(i).token = memory[i].token
    BY <1>a DEF Remembered, Entry
  <2>4. ~Unknown.known /\ ~Unknown.access /\ ~signed_in(Unknown)
    BY DEF Unknown, signed_in
  <2>5. \A j \in Ids \ {i} : memory'[j] = Unknown
    BY <2>2
  <2>6. memory'[i].access = memory[i].access /\ signed_in(memory'[i]) = signed_in(memory[i])
    BY <2>2, <2>3 DEF signed_in
  <2>7. NoGain
    BY <2>4, <2>5, <2>6 DEF NoGain
  <2>8. Excused'
    BY <2>1, <2>7, ExcusedStill DEF FindsNone
  <2>9. Kept
    <3> SUFFICES ASSUME NEW j \in Ids, signed_in(memory[j]), ~signed_in(memory'[j]) PROVE LosesSession(j)
      BY DEF Kept
    <3>1. ~memory'[j].known
      BY <2>4, <2>5, <2>6
    <3> QED
      BY <3>1, <2>1 DEF LosesSession, at
  <2> QED
    BY <2>8, <2>9
<1>22. ASSUME NEW w \in Workers, SetList(w) PROVE Excused' /\ Kept
  <2>1. Only(w) /\ worker'[w].pc = "snapshot"
    BY <1>22, <1>a DEF SetList, Becomes, Only, Worker
  <2>2. \A i \in Ids : memory'[i].token = memory[i].token /\ memory'[i].access = memory[i].access
    BY <1>22, <1>a DEF SetList, Change, Entry
  <2>3. NoGain /\ Kept
    BY <2>2 DEF NoGain, Kept, signed_in
  <2> QED
    BY <2>1, <2>3, ExcusedStill DEF FindsNone
<1>23. ASSUME NEW w \in Workers, Install(w) PROVE Excused' /\ Kept
  <2> DEFINE rec == [worker[w] EXCEPT !.pc = "snapshot", !.next = "finish", !.fresh = NoToken]
  <2>1. worker' = Renew(w, rec)
    BY <1>23 DEF Install
  <2>2. rec.id = worker[w].id /\ rec.pc = "snapshot"
    BY <1>a DEF Worker
  <2> HIDE DEF rec
  <2>3. \A i \in Ids \ {worker[w].id} : memory'[i] = memory[i]
    BY <1>23, <1>a DEF Install, Change
  <2>4. memory'[worker[w].id] = memory[worker[w].id] \/ signed_in(memory'[worker[w].id])
    BY <1>23, <1>a DEF Install, Change, signed_in
  <2> QED
    BY <2>1, <2>2, <2>3, <2>4, RenewStep
<1>24. ASSUME NEW w \in Workers, Store(w) PROVE Excused' /\ Kept
  <2> DEFINE rec == [worker[w] EXCEPT !.pc = "snapshot", !.next = "call", !.fresh = NoToken]
  <2>1. worker' = Renew(w, rec)
    BY <1>24 DEF Store
  <2>2. rec.id = worker[w].id /\ rec.pc = "snapshot"
    BY <1>a DEF Worker
  <2> HIDE DEF rec
  <2>3. \A i \in Ids \ {worker[w].id} : memory'[i] = memory[i]
    BY <1>24, <1>a DEF Store, Change
  <2>4. memory'[worker[w].id] = memory[worker[w].id] \/ signed_in(memory'[worker[w].id])
    <3>1. memory[worker[w].id] \in Entry
      BY <1>a
    <3>2. \/ memory'[worker[w].id] = memory[worker[w].id]
          \/ memory'[worker[w].id] = Renewed(memory[worker[w].id], worker[w].fresh)
      BY <1>24, <1>a DEF Store, Change
    <3>3. Renewed(memory[worker[w].id], worker[w].fresh).access
      BY <3>1 DEF Renewed, Entry
    <3> QED
      BY <3>2, <3>3 DEF signed_in
  <2> QED
    BY <2>1, <2>2, <2>3, <2>4, RenewStep
<1>25. ASSUME Rebuild \/ Withdraw \/ UNCHANGED vars PROVE Excused' /\ Kept
  <2>1. UNCHANGED <<memory, worker>>
    BY <1>25 DEF Rebuild, Withdraw, vars
  <2> QED
    BY <2>1 DEF Excused, Kept, FindsNone
<1>26. ASSUME Restart PROVE Excused' /\ Kept
  <2>1. \A w \in Workers : worker'[w].pc = "idle"
    BY <1>26 DEF Restart, Idle
  <2>2. restarts' > restarts
    BY <1>26, BoundsAssumption DEF Restart, TInv, RestSound
  <2>3. Excused'
    BY <2>1 DEF Excused, FindsNone
  <2>4. Kept
    BY <2>2 DEF Kept, LosesSession
  <2> QED
    BY <2>3, <2>4
<1> QED
  BY <1>1, <1>2, <1>3, <1>4, <1>5, <1>6, <1>7, <1>8, <1>9, <1>10, <1>11, <1>12, <1>13, <1>14, <1>15, <1>16, <1>17, <1>18, <1>19, <1>20, <1>21, <1>22, <1>23, <1>24, <1>25, <1>26
     DEF Next, WorkerStep

(* Signed in stays signed in: only a sign-out, a refusal, another id at    *)
(* the base URL, a restart, or a worker that a renewal overtook ends a     *)
(* session, whatever else fails.                                           *)
THEOREM SessionIsKept == Spec => SessionKept
<1>1. Init => Excused
  BY DEF Init, Excused, FindsNone, Idle
<1>2. TInv /\ Excused /\ [Next]_vars => TInv' /\ Excused' /\ Kept
  BY TNext, KeptNext
<1>3. TInv /\ Excused /\ [Next]_vars => [Kept]_vars
  BY <1>2
<1>4. Spec => [][Kept]_vars
  BY TInit, <1>1, <1>2, <1>3, PTL DEF Spec
<1> QED
  BY <1>4 DEF SessionKept, Kept

-----------------------------------------------------------------------------
(* Where the file differs from the entry, somebody is about to save it;    *)
(* and what the base URL no longer has, has no session on file.            *)
Saving(i) == \E w \in Workers : worker[w].id = i /\ worker[w].pc \in {"snapshot", "save"}

Follows ==
  ~behind => \A i \in Ids : /\ file[i].token = memory[i].token \/ Saving(i)
                            /\ memory[i].known \/ file[i].token = NoToken

(* A worker that is not saving changes, or sets out to save.               *)
LEMMA SavingStill ==
  ASSUME TInv, NEW w \in Workers, Only(w), worker[w].pc \notin {"snapshot", "save"}
  PROVE  \A i \in Ids : Saving(i) => Saving(i)'
<1> SUFFICES ASSUME NEW i \in Ids, NEW v \in Workers,
                    worker[v].id = i, worker[v].pc \in {"snapshot", "save"}
             PROVE  Saving(i)'
  BY DEF Saving
<1>1. v # w
  OBVIOUS
<1>2. worker'[v] = worker[v]
  BY <1>1 DEF Only
<1> QED
  BY <1>2 DEF Saving

(* A step of the request path, which neither entry nor file takes part in. *)
LEMMA AsideFollows ==
  ASSUME TInv, Follows, NEW w \in Workers, Only(w), worker[w].pc \notin {"snapshot", "save"},
         UNCHANGED <<memory, file, behind>>
  PROVE  Follows'
BY SavingStill DEF Follows

(* A change of one entry by a worker that goes on to save it.              *)
LEMMA ChangeFollows ==
  ASSUME TInv, Follows, NEW w \in Workers, UNCHANGED <<file, behind>>,
         \A i \in Ids : Saving(i) => Saving(i)',
         worker'[w].id = worker[w].id, worker'[w].pc = "snapshot",
         \A i \in Ids \ {worker[w].id} : memory'[i] = memory[i],
         memory'[worker[w].id].known = memory[worker[w].id].known
  PROVE  Follows'
<1>1. Saving(worker[w].id)'
  BY DEF Saving
<1> QED
  BY <1>1 DEF Follows

LEMMA RenewSaves ==
  ASSUME TInv, NEW w \in Workers, NEW rec, worker' = Renew(w, rec),
         worker[w].pc \notin {"snapshot", "save"}
  PROVE  \A i \in Ids : Saving(i) => Saving(i)'
<1> SUFFICES ASSUME NEW i \in Ids, NEW v \in Workers,
                    worker[v].id = i, worker[v].pc \in {"snapshot", "save"}
             PROVE  Saving(i)'
  BY DEF Saving
<1>1. v # w /\ worker[v] \in Worker
  BY DEF TInv, WorkersSound
<1>2. worker'[v] = [worker[v] EXCEPT !.outdated = worker[v].outdated \/ worker[v].id = rec.id]
  BY <1>1 DEF Renew
<1>3. worker'[v].id = i /\ worker'[v].pc = worker[v].pc
  BY <1>1, <1>2 DEF Worker
<1> QED
  BY <1>3 DEF Saving

LEMMA FollowsNext == TInv /\ Follows /\ [Next]_vars => Follows'
<1> SUFFICES ASSUME TInv, Follows, [Next]_vars PROVE Follows'
  OBVIOUS
<1>a. /\ worker \in [Workers -> Worker] /\ memory \in [Ids -> Entry] /\ file \in [Ids -> Stored]
      /\ \A w \in Workers : worker[w] \in Worker /\ worker[w].id \in Ids
      /\ \A i \in Ids : memory[i].known \/ memory[i].token = NoToken
  BY DEF TInv, WorkersSound, EntriesSound, FilesSound, Sound, Worker
<1>1. ASSUME NEW w \in Workers,
             \/ ClickSignIn(w) \/ ClickSignOut(w) \/ PickIngest(w) \/ WatchResolves(w)
      PROVE  Follows'
  <2>1. PICK kind \in Kinds, pc \in Places : Begin(w, kind, pc)
    BY <1>1 DEF ClickSignIn, ClickSignOut, PickIngest, WatchResolves, Kinds, Places
  <2>2. Only(w) /\ worker[w].pc = "idle" /\ UNCHANGED <<memory, file, behind>>
    BY <2>1, <1>a DEF Begin, Becomes, Only, history
  <2> QED
    BY <2>2, AsideFollows
<1>2. ASSUME NEW w \in Workers,
             \/ Finish(w) \/ DiscoveryFails(w) \/ SignInAbandoned(w) \/ CodeExchanged(w)
             \/ TargetFound(w) \/ TargetMissing(w) \/ Revoke(w) \/ CurrentToken(w)
      PROVE  Follows'
  <2>1. Only(w) /\ worker[w].pc \notin {"snapshot", "save"}
    BY <1>2, <1>a DEF Finish, DiscoveryFails, SignInAbandoned, CodeExchanged, TargetFound,
                      TargetMissing, Revoke, CurrentToken, GoTo, Becomes, Only, at
  <2>2. UNCHANGED <<memory, file, behind>>
    BY <1>2 DEF Finish, DiscoveryFails, SignInAbandoned, CodeExchanged, TargetFound,
                TargetMissing, Revoke, CurrentToken, history
  <2> QED
    BY <2>1, <2>2, AsideFollows
<1>3. ASSUME NEW w \in Workers,
             \/ Call(w) \/ ReadGrant(w) \/ Exchanged(w) \/ ExchangeRefused(w) \/ ExchangeFails(w)
      PROVE  Follows'
  <2>1. Only(w) /\ worker[w].pc \notin {"snapshot", "save"}
    BY <1>3, <1>a DEF Call, ReadGrant, Exchanged, ExchangeRefused, ExchangeFails, GoTo, Becomes, Only, at
  <2>2. UNCHANGED <<memory, file, behind>>
    BY <1>3 DEF Call, ReadGrant, Exchanged, ExchangeRefused, ExchangeFails, history
  <2> QED
    BY <2>1, <2>2, AsideFollows
<1>4. ASSUME NEW w \in Workers, Snapshot(w) PROVE Follows'
  <2>1. UNCHANGED <<memory, file, behind>> /\ worker[w].pc = "snapshot" /\ Only(w)
    BY <1>4, <1>a DEF Snapshot, GoTo, Becomes, Only, history, at
  <2>2. worker'[w].id = worker[w].id
        /\ (memory[worker[w].id].known => worker'[w].pc = "save")
    BY <1>4, <1>a DEF Snapshot, GoTo, Becomes, Worker
  <2>3. ASSUME NEW i \in Ids, Saving(i), memory[i].known \/ i # worker[w].id
        PROVE  Saving(i)'
    <3>1. PICK v \in Workers : worker[v].id = i /\ worker[v].pc \in {"snapshot", "save"}
      BY <2>3 DEF Saving
    <3>2. CASE v = w
      BY <2>2, <2>3, <3>1, <3>2 DEF Saving
    <3>3. CASE v # w
      BY <2>1, <3>1, <3>3 DEF Saving, Only
    <3> QED BY <3>2, <3>3
  <2>4. ~behind /\ ~memory[worker[w].id].known
          => file[worker[w].id].token = memory[worker[w].id].token
    BY <1>a DEF Follows
  <2> QED
    BY <2>1, <2>3, <2>4, <1>a DEF Follows
<1>5. ASSUME NEW w \in Workers, Save(w) PROVE Follows'
  <2> DEFINE i == worker[w].id
  <2>1. Only(w) /\ memory' = memory /\ worker[w].pc = "save" /\ i \in Ids
    BY <1>5, <1>a DEF Save, Becomes, Only, at
  <2> SUFFICES ASSUME ~behind' PROVE Follows'
    BY DEF Follows
  <2>2. ~behind /\ worker[w].snap = ToFile(memory[i]) /\ file' = [file EXCEPT ![i] = worker[w].snap]
    BY <1>5 DEF Save
  <2>3. file'[i].token = memory'[i].token
    BY <2>1, <2>2, <1>a DEF ToFile
  <2>4. memory'[i].known \/ file'[i].token = NoToken
    BY <2>1, <2>3, <1>a
  <2>5. ASSUME NEW j \in Ids \ {i}, Saving(j) PROVE Saving(j)'
    <3>1. PICK v \in Workers : worker[v].id = j /\ worker[v].pc \in {"snapshot", "save"}
      BY <2>5 DEF Saving
    <3>2. v # w
      BY <3>1, <2>5
    <3> QED
      BY <2>1, <3>1, <3>2 DEF Saving, Only
  <2>6. \A j \in Ids \ {i} : file'[j] = file[j]
    BY <2>2, <1>a
  <2> HIDE DEF i
  <2> QED
    BY <2>1, <2>2, <2>3, <2>4, <2>5, <2>6 DEF Follows
<1>6. ASSUME NEW w \in Workers, Forget(w) PROVE Follows'
  <2>1. /\ Only(w) /\ worker[w].pc = "forget" /\ worker'[w].pc = "snapshot"
        /\ worker'[w].id = worker[w].id /\ UNCHANGED <<file, behind>>
    BY <1>6, <1>a DEF Forget, Becomes, Only, Worker, at
  <2>2. memory' = [memory EXCEPT ![worker[w].id] = Forgotten(memory[worker[w].id])]
    BY <1>6, <1>a DEF Forget, Change
  <2>3. \A i \in Ids \ {worker[w].id} : memory'[i] = memory[i]
    BY <2>2, <1>a
  <2>4. memory'[worker[w].id].known = memory[worker[w].id].known
    BY <2>2, <1>a, ForgottenEntry
  <2> QED
    BY <2>1, <2>3, <2>4, SavingStill, ChangeFollows
<1>7. ASSUME NEW w \in Workers, SetList(w) PROVE Follows'
  <2>1. /\ Only(w) /\ worker[w].pc = "list" /\ worker'[w].pc = "snapshot"
        /\ worker'[w].id = worker[w].id /\ UNCHANGED <<file, behind>>
    BY <1>7, <1>a DEF SetList, Becomes, Only, Worker, at, history
  <2>2. PICK b : memory' = [memory EXCEPT ![worker[w].id].listed = b]
    BY <1>7 DEF SetList, Change
  <2>3. \A i \in Ids \ {worker[w].id} : memory'[i] = memory[i]
    BY <2>2, <1>a
  <2>4. memory'[worker[w].id].known = memory[worker[w].id].known
    BY <2>2, <1>a DEF Entry
  <2> QED
    BY <2>1, <2>3, <2>4, SavingStill, ChangeFollows
<1>8. ASSUME NEW w \in Workers, Install(w) PROVE Follows'
  <2> DEFINE rec == [worker[w] EXCEPT !.pc = "snapshot", !.next = "finish", !.fresh = NoToken]
  <2>1. worker' = Renew(w, rec) /\ worker[w].pc = "install" /\ UNCHANGED <<file, behind>>
    BY <1>8 DEF Install, at
  <2>2. worker'[w].id = worker[w].id /\ worker'[w].pc = "snapshot"
    BY <2>1, <1>a DEF Renew, Worker
  <2> HIDE DEF rec
  <2>3. \A i \in Ids \ {worker[w].id} : memory'[i] = memory[i]
    BY <1>8, <1>a DEF Install, Change
  <2>4. memory'[worker[w].id].known = memory[worker[w].id].known
    BY <1>8, <1>a DEF Install, Change, Entry
  <2>5. \A i \in Ids : Saving(i) => Saving(i)'
    BY <2>1, RenewSaves
  <2> QED
    BY <2>1, <2>2, <2>3, <2>4, <2>5, ChangeFollows
<1>9. ASSUME NEW w \in Workers, Store(w) PROVE Follows'
  <2> DEFINE rec == [worker[w] EXCEPT !.pc = "snapshot", !.next = "call", !.fresh = NoToken]
  <2>1. worker' = Renew(w, rec) /\ worker[w].pc = "store" /\ UNCHANGED <<file, behind>>
    BY <1>9 DEF Store, at, history
  <2>2. worker'[w].id = worker[w].id /\ worker'[w].pc = "snapshot"
    BY <2>1, <1>a DEF Renew, Worker
  <2> HIDE DEF rec
  <2>3. \A i \in Ids \ {worker[w].id} : memory'[i] = memory[i]
    BY <1>9, <1>a DEF Store, Change
  <2>4. memory'[worker[w].id].known = memory[worker[w].id].known
    <3>1. \/ memory'[worker[w].id] = memory[worker[w].id]
          \/ memory'[worker[w].id] = Renewed(memory[worker[w].id], worker[w].fresh)
      BY <1>9, <1>a DEF Store, Change
    <3> QED BY <3>1, <1>a, RenewedEntry DEF Worker
  <2>5. \A i \in Ids : Saving(i) => Saving(i)'
    BY <2>1, RenewSaves
  <2> QED
    BY <2>1, <2>2, <2>3, <2>4, <2>5, ChangeFollows
<1>10. ASSUME NEW w \in Workers, Documents(w) PROVE Follows'
  <2>1. Only(w) /\ worker[w].pc = "documents" /\ behind' = behind
    BY <1>10, <1>a DEF Documents, Becomes, Only, at, history
  <2>2. PICK i \in Ids :
          /\ memory' = [j \in Ids |-> IF j = i THEN Remembered(i) ELSE Unknown]
          /\ file' = [j \in Ids |-> IF j # i /\ memory[j].known THEN NoFile ELSE file[j]]
    BY <1>10 DEF Documents, Change
  <2>3. /\ Remembered(i).known /\ Remembered(i).token = memory[i].token
        /\ Unknown.token = NoToken /\ NoFile.token = NoToken
    BY <1>a DEF Remembered, Entry, Unknown, NoFile
  <2>4. memory'[i].known /\ memory'[i].token = memory[i].token /\ file'[i] = file[i]
    BY <2>2, <2>3
  <2>5. ASSUME NEW j \in Ids \ {i}, ~behind
        PROVE  memory'[j].token = NoToken /\ file'[j].token = NoToken
    BY <2>2, <2>3, <2>5 DEF Follows
  <2>6. \A j \in Ids : Saving(j) => Saving(j)'
    BY <2>1, SavingStill
  <2> QED
    BY <2>1, <2>4, <2>5, <2>6 DEF Follows
<1>11. ASSUME Rebuild \/ Withdraw \/ UNCHANGED vars PROVE Follows'
  <2>1. UNCHANGED <<memory, file, worker, behind>>
    BY <1>11 DEF Rebuild, Withdraw, vars, history
  <2> QED
    BY <2>1 DEF Follows, Saving
<1>12. ASSUME Restart PROVE Follows'
  <2>1. file' = file /\ \A i \in Ids : memory'[i] = FromFile(file[i])
    BY <1>12 DEF Restart
  <2>2. \A i \in Ids : memory'[i].token = file[i].token /\ memory'[i].known = file[i].known
    <3>1. \A s : FromFile(s).token = s.token /\ FromFile(s).known = s.known
      BY DEF FromFile
    <3> QED BY <2>1, <3>1, Zenon
  <2>3. \A i \in Ids : file[i].known \/ file[i].token = NoToken
    BY DEF TInv, FilesSound
  <2> QED
    BY <2>1, <2>2, <2>3 DEF Follows
<1> QED
  BY <1>1, <1>2, <1>3, <1>4, <1>5, <1>6, <1>7, <1>8, <1>9, <1>10, <1>11, <1>12 DEF Next, WorkerStep

(* When no worker is left, the file holds the refresh token of each entry, *)
(* unless a save failed or was overtaken (persist_entry).                  *)
THEOREM FileIsFollowed == Spec => []FileFollowsMemory
<1>1. Init => Follows
  <2> SUFFICES ASSUME Init, NEW i \in Ids
               PROVE  file[i].token = memory[i].token /\ file[i].token = NoToken
    BY DEF Follows
  <2>1. Unknown.token = NoToken /\ NoFile.token = NoToken
    BY DEF Unknown, NoFile
  <2> QED
    BY <2>1 DEF Init
<1>2. Follows => FileFollowsMemory
  BY DEF Follows, Saving, FileFollowsMemory, at
<1>3. TInv /\ Follows /\ [Next]_vars => TInv' /\ Follows'
  BY TNext, FollowsNext
<1> QED
  BY TInit, <1>1, <1>2, <1>3, PTL DEF Spec
=============================================================================
