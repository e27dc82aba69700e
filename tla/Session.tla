------------------------------- MODULE Session -------------------------------
(***************************************************************************)
(* The sign-in sessions of one provider (irl-provider/src/registry.rs):    *)
(* the registry's entries, their state files, and the workers that sign    *)
(* in, refresh the list, sign out and resolve a URL.  A worker takes the   *)
(* registry's mutex for a moment, lets it go to talk to the provider or to *)
(* write a file, and takes it again: one action is one hold of the mutex,  *)
(* one request, or one save.                                               *)
(*                                                                         *)
(* There is one provider base URL; the document found there may change its *)
(* id.  The provider is external.  It may rotate the refresh token at each *)
(* use, withdraw one at any time, refuse any access token, and be out of   *)
(* reach before or after it acted on a request.  The client id is left     *)
(* out: an entry without one has no session.                               *)
(***************************************************************************)
EXTENDS Integers

CONSTANTS
  Ids,            (* ids the provider's document may carry                *)
  Workers,        (* BOUND: workers that run at the same time             *)
  NoToken,        (* no refresh token                                     *)
  MaxTokens,      (* BOUND: refresh tokens the provider issues            *)
  MaxStarts,      (* BOUND: clicks, picks and checks by the URL watch     *)
  MaxRestarts,    (* BOUND: restarts of OBS                               *)
  MaxFailures     (* BOUND: saves that fail                               *)

(* A token and the id of the document it was issued under.                 *)
Tokens == Ids \X (1..MaxTokens)

ASSUME BoundsAssumption ==
  /\ MaxTokens \in Nat /\ MaxStarts \in Nat /\ MaxRestarts \in Nat /\ MaxFailures \in Nat
ASSUME NoTokenAssumption == NoToken \notin Tokens
ASSUME IdsAssumption == Ids # {}

VARIABLES
  memory,         (* Registry::by_id, as far as the session goes          *)
  signing_in,     (* Registry::signing_in holds the base URL              *)
  file,           (* the state files                                      *)
  worker,         (* what each worker does next, and what it carries      *)
  valid,          (* the refresh tokens the provider accepts              *)
  issued,         (* how many it has issued                               *)
  view,           (* what the open properties dialog shows                *)
  rebuild,        (* update_properties was signalled and not yet served   *)
  withdrawn,      (* history: tokens lost to the provider's own doing, to a lost answer or to a restart *)
  behind,         (* history: a save failed, or wrote an older state than memory's *)
  silent,         (* history: a resolve changed what a dialog would show  *)
  signed_out,     (* history: the last sign-in or sign-out to touch an entry was a sign-out *)
  starts, restarts, failures   (* counters that bound the model           *)

server  == <<valid, issued>>
dialog  == <<view, rebuild, silent>>
bounds  == <<starts, restarts, failures>>
history == <<withdrawn, behind, signed_out>>
vars == <<memory, signing_in, file, worker, server, dialog, history, bounds>>

Optional == Tokens \cup {NoToken}
Entry   == [known : BOOLEAN, token : Optional, listed : BOOLEAN, access : BOOLEAN]
Stored  == [known : BOOLEAN, token : Optional, listed : BOOLEAN]
View    == [signed_in : BOOLEAN, listed : BOOLEAN]
Kinds   == {"none", "signin", "refresh", "signout", "pick", "watch"}
Places  == {"idle", "documents", "browser", "install", "target", "token", "call", "list",
            "grant", "exchange", "store", "revoke", "forget", "snapshot", "save", "finish"}
Worker  == [kind : Kinds, pc : Places, next : Places, id : Ids, held : Optional,
            fresh : Optional, snap : Stored, again : BOOLEAN, lists : BOOLEAN,
            refused : BOOLEAN, outdated : BOOLEAN]

Unknown  == [known |-> FALSE, token |-> NoToken, listed |-> FALSE, access |-> FALSE]
NoFile   == [known |-> FALSE, token |-> NoToken, listed |-> FALSE]
SomeId   == CHOOSE i \in Ids : TRUE
Idle     == [kind |-> "none", pc |-> "idle", next |-> "idle", id |-> SomeId,
             held |-> NoToken, fresh |-> NoToken, snap |-> NoFile, again |-> FALSE,
             lists |-> FALSE, refused |-> FALSE, outdated |-> FALSE]

ToFile(e)   == [known |-> e.known, token |-> e.token, listed |-> e.listed]
FromFile(s) == [known |-> s.known, token |-> s.token, listed |-> s.listed, access |-> FALSE]
signed_in(e) == e.token # NoToken \/ e.access

TypeOK ==
  /\ memory \in [Ids -> Entry]
  /\ file \in [Ids -> Stored]
  /\ \A i \in Ids : /\ memory[i].token \in {NoToken} \cup ({i} \X (1..MaxTokens))
                    /\ file[i].token \in {NoToken} \cup ({i} \X (1..MaxTokens))
  /\ signing_in \in BOOLEAN
  /\ worker \in [Workers -> Worker]
  /\ \A w \in Workers : worker[w].pc = "exchange" => worker[w].held # NoToken
  /\ valid \subseteq Tokens /\ withdrawn \subseteq Tokens
  /\ issued \in 0..MaxTokens
  /\ view \in View /\ rebuild \in BOOLEAN
  /\ behind \in BOOLEAN /\ silent \in BOOLEAN /\ signed_out \in BOOLEAN
  /\ starts \in 0..MaxStarts /\ restarts \in 0..MaxRestarts /\ failures \in 0..MaxFailures

(* id_for finds any entry of the base URL, in no particular order.         *)
id_for(i) == memory[i].known

ViewOf(e) == [signed_in |-> signed_in(e), listed |-> e.listed]

(* What provider_for may answer, given these entries.                      *)
Views(m) == IF \E i \in Ids : m[i].known THEN {ViewOf(m[i]) : i \in {j \in Ids : m[j].known}}
                                         ELSE {ViewOf(Unknown)}

Init ==
  /\ memory = [i \in Ids |-> Unknown] /\ file = [i \in Ids |-> NoFile]
  /\ signing_in = FALSE
  /\ worker = [w \in Workers |-> Idle]
  /\ valid = {} /\ issued = 0 /\ withdrawn = {}
  /\ view = ViewOf(Unknown) /\ rebuild = FALSE
  /\ behind = FALSE /\ silent = FALSE /\ signed_out = FALSE
  /\ starts = 0 /\ restarts = 0 /\ failures = 0

-----------------------------------------------------------------------------
(* The UI thread starts workers.  A pick runs on it, and occupies it.      *)

Picking == \E w \in Workers : worker[w].kind = "pick"

Becomes(w, r) == worker' = [worker EXCEPT ![w] = r]

GoTo(w, pc) == Becomes(w, [worker[w] EXCEPT !.pc = pc])

Begin(w, kind, pc) ==
  /\ worker[w].pc = "idle" /\ starts < MaxStarts
  /\ Becomes(w, [worker[w] EXCEPT !.kind = kind, !.pc = pc])
  /\ starts' = starts + 1
  /\ UNCHANGED <<memory, file, server, dialog, history, restarts, failures>>

(* The button refreshes once signed in.  A second sign-in is turned away,  *)
(* and a thread that does not start gives the slot back.                   *)
ClickSignIn(w) ==
  /\ ~Picking
  /\ \E v \in Views(memory) :
       \/ v.signed_in /\ Begin(w, "refresh", "target") /\ UNCHANGED signing_in
       \/ /\ ~v.signed_in /\ ~signing_in
          /\ Begin(w, "signin", "documents")
          /\ signing_in' = TRUE

ClickSignOut(w) ==
  /\ ~Picking /\ view.signed_in
  /\ Begin(w, "signout", "target")
  /\ UNCHANGED signing_in

PickIngest(w) ==
  /\ ~Picking /\ view.signed_in
  /\ Begin(w, "pick", "target")
  /\ UNCHANGED signing_in

(* The URL watch is one thread and resolves one pick at a time.            *)
WatchResolves(w) ==
  /\ \A v \in Workers : worker[v].kind # "watch"
  /\ Begin(w, "watch", "target")
  /\ UNCHANGED signing_in

(* The frontend reloads the dialog, which builds it from the registry.     *)
Rebuild ==
  /\ rebuild /\ ~Picking
  /\ view' \in Views(memory)
  /\ rebuild' = FALSE /\ silent' = FALSE
  /\ UNCHANGED <<memory, signing_in, file, worker, server, history, bounds>>

-----------------------------------------------------------------------------
(* What workers have in common.                                            *)

at(w, pc) == worker[w].pc = pc
resolves(w) == worker[w].kind \in {"pick", "watch"}

(* A change of the entries: only a resolve makes one without waking the    *)
(* dialogs afterwards.                                                     *)
Change(w, m) ==
  /\ memory' = m
  /\ silent' = (silent \/ (resolves(w) /\ Views(m) # Views(memory)))
  /\ UNCHANGED <<view, rebuild>>

(* w renews the session of its entry, and rec is what w does then: what    *)
(* the other workers have read of that entry is outdated.                  *)
Renew(w, rec) ==
  [v \in Workers |-> IF v = w THEN rec
                     ELSE [worker[v] EXCEPT !.outdated = @ \/ worker[v].id = rec.id]]

(* persist_entry: the snapshot under the mutex, ...                        *)
Snapshot(w) ==
  /\ at(w, "snapshot")
  /\ LET e == memory[worker[w].id] IN
     \/ e.known /\ Becomes(w, [worker[w] EXCEPT !.pc = "save", !.snap = ToFile(e)])
     \/ ~e.known /\ GoTo(w, worker[w].next)
  /\ UNCHANGED <<memory, signing_in, file, server, dialog, history, bounds>>

(* ... the file outside it.  The rename makes it all or nothing.           *)
Save(w) ==
  /\ at(w, "save")
  /\ \/ /\ file' = [file EXCEPT ![worker[w].id] = worker[w].snap]
        /\ behind' = (behind \/ worker[w].snap # ToFile(memory[worker[w].id]))
        /\ UNCHANGED failures
     \/ /\ failures < MaxFailures
        /\ failures' = failures + 1
        /\ behind' = TRUE
        /\ UNCHANGED file
  /\ Becomes(w, [worker[w] EXCEPT !.pc = worker[w].next, !.snap = NoFile])
  /\ UNCHANGED <<memory, signing_in, server, dialog, withdrawn, signed_out, starts, restarts>>

(* forget_session: drop the session, keep the documents, persist.          *)
Forgotten(e) == [e EXCEPT !.token = NoToken, !.listed = FALSE, !.access = FALSE]

(* Mutant: the file keeps the session.                                     *)
ForgetUnsaved(w) ==
  /\ at(w, "forget")
  /\ Change(w, [memory EXCEPT ![worker[w].id] = Forgotten(@)])
  /\ GoTo(w, "finish")
  /\ signed_out' = (signed_out \/ worker[w].kind = "signout")
  /\ UNCHANGED <<signing_in, file, server, withdrawn, behind, bounds>>

Forget(w) ==
  /\ at(w, "forget")
  /\ Change(w, [memory EXCEPT ![worker[w].id] = Forgotten(@)])
  /\ Becomes(w, [worker[w] EXCEPT !.pc = "snapshot", !.next = "finish"])
  /\ signed_out' = (signed_out \/ worker[w].kind = "signout")
  /\ UNCHANGED <<signing_in, file, server, withdrawn, behind, bounds>>

(* Every thread but the watch and the pick ends by waking the dialogs.     *)
wake_dialogs(w) == ~resolves(w)

(* A sign-in gives its slot back last.                                     *)
Finish(w) ==
  /\ at(w, "finish")
  /\ Becomes(w, Idle)
  /\ rebuild' = (rebuild \/ wake_dialogs(w))
  /\ signing_in' = (signing_in /\ worker[w].kind # "signin")
  /\ UNCHANGED <<memory, file, server, view, silent, history, bounds>>

-----------------------------------------------------------------------------
(* run_sign_in.                                                            *)

DiscoveryFails(w) ==
  /\ at(w, "documents")
  /\ GoTo(w, "finish")
  /\ UNCHANGED <<memory, signing_in, file, server, dialog, history, bounds>>

(* The session of the same id survives the new documents.                  *)
Remembered(i) == [memory[i] EXCEPT !.known = TRUE]

(* The documents are remembered under their id, the session that id had is *)
(* kept, and what the base URL had under another id is removed, its file   *)
(* included.  Then: a refused registration, the version gate, or on.       *)
Documents(w) ==
  /\ at(w, "documents")
  /\ \E i \in Ids, way \in {<<"finish", "finish">>, <<"snapshot", "finish">>, <<"snapshot", "browser">>} :
       /\ Change(w, [j \in Ids |-> IF j = i THEN Remembered(i) ELSE Unknown])
       /\ file' = [j \in Ids |-> IF j # i /\ memory[j].known THEN NoFile ELSE file[j]]
       /\ Becomes(w, [worker[w] EXCEPT !.id = i, !.pc = way[1], !.next = way[2]])
  /\ UNCHANGED <<signing_in, server, history, bounds>>

(* No port, no browser, denied, timed out, code or new session refused.    *)
SignInAbandoned(w) ==
  /\ at(w, "browser")
  /\ GoTo(w, "finish")
  /\ UNCHANGED <<memory, signing_in, file, server, dialog, history, bounds>>

(* The provider issues the next token, and with rotation ends another.     *)
Issue(i, ends) ==
  /\ issued < MaxTokens
  /\ issued' = issued + 1
  /\ valid' = (valid \ ends) \cup {<<i, issued + 1>>}

(* The code is exchanged, for a session with or without a refresh token.   *)
CodeExchanged(w) ==
  /\ at(w, "browser")
  /\ \E lists \in BOOLEAN :
       \/ /\ Issue(worker[w].id, {})
          /\ Becomes(w, [worker[w] EXCEPT !.pc = "install", !.lists = lists,
                                      !.fresh = <<worker[w].id, issued + 1>>])
       \/ /\ Becomes(w, [worker[w] EXCEPT !.pc = "install", !.lists = lists])
          /\ UNCHANGED server
  /\ UNCHANGED <<memory, signing_in, file, dialog, history, bounds>>

(* The tokens and the list go into the entry, if it is still there.        *)
Install(w) ==
  /\ at(w, "install")
  /\ LET i == worker[w].id
         r == worker[w] IN
     /\ Change(w, IF memory[i].known
                  THEN [memory EXCEPT ![i] = [known |-> TRUE, token |-> r.fresh,
                                              listed |-> r.lists, access |-> TRUE]]
                  ELSE memory)
     /\ worker' = Renew(w, [r EXCEPT !.pc = "snapshot", !.next = "finish", !.fresh = NoToken])
     /\ signed_out' = (signed_out /\ ~memory[i].known)
  /\ UNCHANGED <<signing_in, file, server, withdrawn, behind, bounds>>

-----------------------------------------------------------------------------
(* refresh, sign_out and resolve begin by looking the provider up.         *)

TargetFound(w) ==
  /\ at(w, "target")
  /\ \E i \in Ids :
       /\ id_for(i)
       /\ resolves(w) => signed_in(memory[i])
       /\ \/ /\ worker[w].kind = "signout"
             /\ Becomes(w, [worker[w] EXCEPT !.pc = "revoke", !.id = i, !.held = memory[i].token])
          \/ /\ worker[w].kind # "signout"
             /\ Becomes(w, [worker[w] EXCEPT !.pc = "token", !.id = i])
  /\ UNCHANGED <<memory, signing_in, file, server, dialog, history, bounds>>

(* Nothing to do: the thread ends without a word to the dialogs.           *)
TargetMissing(w) ==
  /\ at(w, "target")
  /\ \/ \A i \in Ids : ~id_for(i)
     \/ resolves(w) /\ \E i \in Ids : id_for(i) /\ ~signed_in(memory[i])
  /\ Becomes(w, Idle)
  /\ UNCHANGED <<memory, signing_in, file, server, dialog, history, bounds>>

(* Best effort: without a token or an endpoint, or when the request does   *)
(* not arrive, the token stays valid.                                      *)
Revoke(w) ==
  /\ at(w, "revoke")
  /\ valid' \in {valid, valid \ {worker[w].held}}
  /\ GoTo(w, "forget")
  /\ UNCHANGED <<memory, signing_in, file, issued, dialog, history, bounds>>

-----------------------------------------------------------------------------
(* with_token and refresh_access_token.                                    *)

(* The access token in force, or a refresh for want of one.                *)
CurrentToken(w) ==
  /\ at(w, "token")
  /\ Becomes(w, [worker[w] EXCEPT !.pc = IF memory[worker[w].id].access THEN "call" ELSE "grant",
                              !.outdated = FALSE])
  /\ UNCHANGED <<memory, signing_in, file, server, dialog, history, bounds>>

(* The first 401 costs a refresh, the second the session.  Another error   *)
(* is only reported.                                                       *)
Call(w) ==
  /\ at(w, "call")
  /\ \/ GoTo(w, IF resolves(w) THEN "finish" ELSE "list")
     \/ GoTo(w, "finish")
     \/ ~worker[w].again /\ Becomes(w, [worker[w] EXCEPT !.pc = "grant", !.again = TRUE])
     \/ worker[w].again /\ Becomes(w, [worker[w] EXCEPT !.pc = "forget", !.refused = TRUE])
  /\ UNCHANGED <<memory, signing_in, file, server, dialog, history, bounds>>

(* The list, empty or not, goes into the entry, if it is still there.      *)
SetList(w) ==
  /\ at(w, "list")
  /\ \E lists \in BOOLEAN :
       Change(w, [memory EXCEPT ![worker[w].id].listed = lists /\ memory[worker[w].id].known])
  /\ Becomes(w, [worker[w] EXCEPT !.pc = "snapshot", !.next = "finish"])
  /\ UNCHANGED <<signing_in, file, server, history, bounds>>

(* Without a refresh token the session is over: refused is set when that   *)
(* follows a 401, outdated when another worker made the session meanwhile. *)
ReadGrant(w) ==
  /\ at(w, "grant")
  /\ LET t == memory[worker[w].id].token IN
     \/ /\ t # NoToken
        /\ Becomes(w, [worker[w] EXCEPT !.pc = "exchange", !.held = t, !.outdated = FALSE])
     \/ /\ t = NoToken
        /\ Becomes(w, [worker[w] EXCEPT !.pc = "forget", !.held = t, !.refused = worker[w].again])
  /\ UNCHANGED <<memory, signing_in, file, server, dialog, history, bounds>>

(* The provider accepts the token, and may rotate it.                      *)
Exchanged(w) ==
  /\ at(w, "exchange") /\ worker[w].held \in valid
  /\ \/ /\ Issue(worker[w].id, {worker[w].held})
        /\ Becomes(w, [worker[w] EXCEPT !.pc = "store", !.fresh = <<worker[w].id, issued + 1>>])
     \/ GoTo(w, "store") /\ UNCHANGED server
  /\ UNCHANGED <<memory, signing_in, file, dialog, history, bounds>>

(* invalid_grant.                                                          *)
ExchangeRefused(w) ==
  /\ at(w, "exchange") /\ worker[w].held \notin valid
  /\ Becomes(w, [worker[w] EXCEPT !.pc = "forget", !.refused = TRUE])
  /\ UNCHANGED <<memory, signing_in, file, server, dialog, history, bounds>>

(* Mutant: any failure ends the session.                                   *)
ExchangeFailsForgets(w) ==
  /\ at(w, "exchange")
  /\ GoTo(w, "forget")
  /\ UNCHANGED <<memory, signing_in, file, server, dialog, history, bounds>>

(* Out of reach: the request is lost, or its answer and with it the token  *)
(* a rotation issued.  Any other refusal is reported the same way.         *)
ExchangeFails(w) ==
  /\ at(w, "exchange")
  /\ \/ UNCHANGED <<server, withdrawn>>
     \/ /\ worker[w].held \in valid
        /\ Issue(worker[w].id, {worker[w].held})
        /\ withdrawn' = withdrawn \cup {worker[w].held}
  /\ GoTo(w, "finish")
  /\ UNCHANGED <<memory, signing_in, file, dialog, behind, signed_out, bounds>>

(* Mutant: the rotated token is not kept.                                  *)
RenewedKeepsOld(e, fresh) == [e EXCEPT !.access = TRUE]

(* The new access token, and the new refresh token if there is one.        *)
Renewed(e, fresh) ==
  [e EXCEPT !.access = TRUE, !.token = IF fresh = NoToken THEN @ ELSE fresh]

Store(w) ==
  /\ at(w, "store")
  /\ LET i == worker[w].id
         r == worker[w] IN
     /\ Change(w, IF memory[i].known THEN [memory EXCEPT ![i] = Renewed(@, r.fresh)] ELSE memory)
     /\ worker' = Renew(w, [r EXCEPT !.pc = "snapshot", !.next = "call", !.fresh = NoToken])
  /\ UNCHANGED <<signing_in, file, server, history, bounds>>

-----------------------------------------------------------------------------
(* What nobody here decides.                                               *)

Withdraw ==
  /\ \E t \in valid : valid' = valid \ {t} /\ withdrawn' = withdrawn \cup {t}
  /\ UNCHANGED <<memory, signing_in, file, worker, issued, dialog, behind, signed_out, bounds>>

(* The provider has ended the token w holds, by rotation or revocation, or *)
(* may have, and the entry is about to learn of it.                        *)
Ending(w) ==
  \/ at(w, "store") /\ worker[w].fresh # NoToken
  \/ at(w, "forget") /\ worker[w].kind = "signout"

(* OBS ends, at any point of any worker, and starts again.  A token that   *)
(* was being exchanged or revoked, or whose successor had not reached the  *)
(* file, may be lost by that.                                              *)
Restart ==
  /\ restarts < MaxRestarts
  /\ restarts' = restarts + 1
  /\ memory' = [i \in Ids |-> FromFile(file[i])]
  /\ worker' = [w \in Workers |-> Idle]
  /\ signing_in' = FALSE
  /\ view' \in Views([i \in Ids |-> FromFile(file[i])]) /\ rebuild' = FALSE /\ silent' = FALSE
  /\ behind' = FALSE
  /\ withdrawn' = withdrawn \cup ({worker[w].held : w \in {v \in Workers : Ending(v)}} \ {NoToken})
                            \cup {file[i].token : i \in {j \in Ids : /\ file[j].token # NoToken
                                                                     /\ file[j].token # memory[j].token}}
  /\ UNCHANGED <<file, server, signed_out, starts, failures>>

WorkerStep(w) ==
  \/ Snapshot(w) \/ Save(w) \/ Forget(w) \/ Finish(w)
  \/ DiscoveryFails(w) \/ Documents(w) \/ SignInAbandoned(w) \/ CodeExchanged(w) \/ Install(w)
  \/ TargetFound(w) \/ TargetMissing(w) \/ Revoke(w)
  \/ CurrentToken(w) \/ Call(w) \/ SetList(w)
  \/ ReadGrant(w) \/ Exchanged(w) \/ ExchangeRefused(w) \/ ExchangeFails(w) \/ Store(w)

Next ==
  \/ \E w \in Workers : \/ ClickSignIn(w) \/ ClickSignOut(w) \/ PickIngest(w) \/ WatchResolves(w)
                        \/ WorkerStep(w)
  \/ Rebuild \/ Withdraw \/ Restart

Spec == Init /\ [][Next]_vars

-----------------------------------------------------------------------------
(* Properties.                                                             *)

(* A refresh token that the entry holds is one the provider accepts, with  *)
(* rotation and any number of refreshes at the same time, unless the       *)
(* provider withdrew it, an answer or a restart lost its successor, or the *)
(* worker that ended it is about to say so: refresh_access_token keeps the *)
(* old token only when no new one came, and no late store undoes a newer.  *)
StoredTokenAccepted ==
  \A i \in Ids : \/ memory[i].token \in valid \cup withdrawn \cup {NoToken}
                 \/ \E w \in Workers : Ending(w) /\ worker[w].held = memory[i].token

(* A session is lost only by a sign-out, by a refusal of the provider, by  *)
(* the base URL's turning to another id, by a restart, or to a worker that *)
(* had read the entry before another one renewed it: never by a sign-in    *)
(* that is given up, nor by a provider out of reach.                       *)
LosesSession(i) ==
  \/ \E w \in Workers :
       \/ /\ at(w, "forget") /\ worker[w].id = i
          /\ worker[w].kind = "signout" \/ worker[w].refused \/ worker[w].outdated
       \/ at(w, "documents") /\ ~memory'[i].known
  \/ restarts' > restarts

SessionKept ==
  [][\A i \in Ids : signed_in(memory[i]) /\ ~signed_in(memory'[i]) => LosesSession(i)]_vars

(* oauth.rs:124 takes an invalid_grant to mean that the session is gone:   *)
(* where the token a worker presents is no longer accepted, neither is the *)
(* one in the entry that this answer makes it forget.                      *)
RefusedMeansGone ==
  \A w \in Workers :
    at(w, "exchange") /\ worker[w].held \notin valid => memory[worker[w].id].token \notin valid

(* When no worker is left, the next start of OBS finds the refresh token   *)
(* that memory holds, unless a save failed or was overtaken by a newer one *)
(* of another worker.                                                      *)
FileFollowsMemory ==
  (\A w \in Workers : at(w, "idle")) /\ ~behind
     => \A i \in Ids : file[i].token = memory[i].token

(* When no worker is left and no reload is under way, the open dialog      *)
(* shows what a new one would, unless a resolve was what changed it.       *)
DialogCurrent ==
  (\A w \in Workers : at(w, "idle")) /\ ~rebuild /\ ~silent => view \in Views(memory)

(* The button is taken exactly while a sign-in runs: every way out of      *)
(* run_sign_in gives it back, and no two run.                              *)
SlotHeld ==
  /\ signing_in <=> \E w \in Workers : worker[w].kind = "signin"
  /\ \A v, w \in Workers : worker[v].kind = "signin" /\ worker[w].kind = "signin" => v = w

(* docs/provider-protocol.md:84 says of a sign-out "Deleting the state     *)
(* file always happens, so the token is gone from the machine either way": *)
(* once no worker is left, no file holds a token.                          *)
SignOutErases ==
  (\A w \in Workers : at(w, "idle")) /\ signed_out => \A i \in Ids : file[i].token = NoToken

=============================================================================
