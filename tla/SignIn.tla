-------------------------------- MODULE SignIn --------------------------------
(***************************************************************************)
(* One sign-in from the click to the stored session: the documents, the    *)
(* client registration, the listener on a loopback port, the browser tab,  *)
(* the redirect it ends in, and the exchange of the code                   *)
(* (irl-provider/src/registry.rs, discovery.rs, loopback.rs, oauth.rs,     *)
(* api.rs, browser.rs).  Session follows the tokens of one provider and    *)
(* takes the browser as one step; here the browser, the user and other     *)
(* programs on the machine act between the worker's steps, and sign-ins to *)
(* different providers share the ports.                                    *)
(*                                                                         *)
(* The authorization server is external.  It redirects only for a client   *)
(* it knows, and redeems a code once, for the client, the redirect URI and *)
(* the verifier it was issued for.  The n-th click is sign-in n; `n' also  *)
(* stands for what that sign-in draws at random, its state and its         *)
(* verifier.                                                               *)
(***************************************************************************)
EXTENDS Integers, Sequences, FiniteSets

CONSTANTS
  Providers,      (* base URLs of the dropdown                            *)
  IdOf,           (* the id each one's document carries                   *)
  Documents,      (* what a request for the two documents may return; one that fails is one that parse_doc refuses *)
  MaxPort,        (* PORTS is 1..MaxPort                                  *)
  Held,           (* ports another program may hold: the sets to start from *)
  PluginVersion,  (* this build, <<major, minor, patch>>                  *)
  None,
  Timeout,        (* SIGN_IN_TIMEOUT, in ticks                            *)
  MaxSignIns,     (* BOUND: clicks                                        *)
  MaxStrays       (* BOUND: requests on a port that no tab was sent to make, and reloads *)

PORTS == 1..MaxPort
Numbers == 1..MaxSignIns

ASSUME PortsAssumption == MaxPort \in Nat \ {0} /\ Held \subseteq SUBSET PORTS
ASSUME BoundsAssumption == MaxSignIns \in Nat /\ MaxStrays \in Nat /\ Timeout \in Nat \ {0}
ASSUME IdsAssumption == DOMAIN IdOf = Providers

Ids == {IdOf[p] : p \in Providers}

VARIABLES
  signing_in,     (* Registry::signing_in                                 *)
  entries,        (* Registry::by_id: base URL, client id, and whose session *)
  worker,         (* what the thread of each sign-in does next            *)
  bound,          (* who listens on each port                             *)
  backlog,        (* connections each listener has not accepted yet       *)
  tabs,           (* authorization pages open in the browser              *)
  redirects,      (* redirects the browser was sent on so far             *)
  declined,       (* sign-ins the user declined                           *)
  codes,          (* the codes issued, in order                           *)
  redeemed,       (* those the server has redeemed                        *)
  registered,     (* how many clients each server has registered          *)
  clicks, strays  (* counters that bound the model                        *)

registry == <<signing_in, entries>>
browser  == <<tabs, redirects, declined>>
server   == <<codes, redeemed, registered>>
vars == <<registry, worker, bound, backlog, browser, server, clicks, strays>>

Running == {"documents", "client", "bind", "open", "wait", "serve", "exchange", "list", "store"}

Client == (Providers \X Nat) \cup {None}
Request == [port : PORTS, state : 0..MaxSignIns, error : BOOLEAN, code : Nat, silent : BOOLEAN]

(* Another program may hold a port.                                        *)
Other == MaxSignIns + 1
Free  == 0

TypeOK ==
  /\ signing_in \subseteq Providers
  /\ \A i \in Ids : /\ entries[i].base \in Providers \cup {None}
                    /\ entries[i].client \in Client
                    /\ entries[i].session \in 0..MaxSignIns
  /\ \A n \in Numbers : /\ worker[n].pc \in Running \cup {"none", "returned", "ended"}
                        /\ worker[n].client \in Client
                        /\ worker[n].port \in PORTS \cup {0}
                        /\ worker[n].left \in 0..Timeout
  /\ bound \in [PORTS -> 0..Other]
  /\ \A q \in PORTS : \A k \in 1..Len(backlog[q]) : backlog[q][k] \in Request
  /\ redirects \subseteq Request /\ declined \subseteq Numbers
  /\ redeemed \subseteq 1..Len(codes)
  /\ registered \in [Providers -> 0..MaxSignIns]
  /\ clicks \in 0..MaxSignIns /\ strays \in 0..MaxStrays

NoEntry  == [base |-> None, client |-> None, session |-> 0]
NoWorker == [pc |-> "none", provider |-> None, registers |-> FALSE, client |-> None, port |-> 0,
             left |-> 0, conn |-> None, code |-> 0, denied |-> FALSE]

Init ==
  /\ signing_in = {} /\ entries = [i \in Ids |-> NoEntry]
  /\ worker = [n \in Numbers |-> NoWorker]
  /\ bound \in {[x \in PORTS |-> IF x \in h THEN Other ELSE Free] : h \in Held}
  /\ backlog = [q \in PORTS |-> <<>>]
  /\ tabs = {} /\ redirects = {} /\ declined = {}
  /\ codes = <<>> /\ redeemed = {} /\ registered = [p \in Providers |-> 0]
  /\ clicks = 0 /\ strays = 0

-----------------------------------------------------------------------------
(* The documents (discovery.rs).  A URL is "https", "loopback" (http to    *)
(* this machine), "plain" (any other), or None where the field is absent.  *)

normalize_base_url(url) == url \in {"https", "loopback"}

parse_doc(d) ==
  /\ d.protocol_version = 1
  /\ d.well_formed                 (* JSON, a valid id, a name and a scope *)
  /\ normalize_base_url(d.issuer) /\ normalize_base_url(d.ingests_endpoint)

parse_oidc(d) ==
  /\ \A url \in {d.authorization_endpoint, d.token_endpoint} : normalize_base_url(url)
  /\ \A url \in {d.registration_endpoint, d.revocation_endpoint} \ {None} : normalize_base_url(url)

fetch(d) == parse_doc(d) /\ parse_oidc(d)

(* A minimum that does not parse (None) locks nobody out.                  *)
at_least(have, need) ==
  \/ need = None
  \/ \E k \in 1..3 : have[k] > need[k] /\ \A j \in 1..(k - 1) : have[j] = need[j]
  \/ have = need

-----------------------------------------------------------------------------
(* What goes over the network (oauth.rs, api.rs).  What the server does    *)
(* and what the plugin learns of it differ where an answer is lost.        *)

challenge_for(verifier) == <<"S256", verifier>>

new_pkce(n) == [verifier |-> n, challenge |-> challenge_for(n)]

nonce(n) == n

AuthorizeRequest(n) ==
  [provider |-> worker[n].provider, client |-> worker[n].client, port |-> worker[n].port,
   state |-> nonce(n), challenge |-> new_pkce(n).challenge]

(* The form of exchange_code, with the redirect URI it repeats.            *)
exchange_code(n) ==
  [provider |-> worker[n].provider, client |-> worker[n].client, port |-> worker[n].port,
   code |-> worker[n].code, verifier |-> new_pkce(n).verifier]

(* A status other than 200 and a body that is no token response are the    *)
(* same to the caller, but after the latter the code is used up.           *)
token_request ==
  {[redeems |-> TRUE, tokens |-> TRUE], [redeems |-> TRUE, tokens |-> FALSE],
   [redeems |-> FALSE, tokens |-> FALSE]}

register_client ==
  {[registers |-> TRUE, client_id |-> TRUE], [registers |-> TRUE, client_id |-> FALSE],
   [registers |-> FALSE, client_id |-> FALSE]}

(* authed_get: a 401; a 403, a 404, any other status or a body that does   *)
(* not parse; or the list.                                                 *)
list_ingests == {"unauthorized", "failed", "list"}

-----------------------------------------------------------------------------
(* The worker's steps.                                                     *)

GoTo(n, pc) == worker' = [worker EXCEPT ![n].pc = pc]

(* Every return of run_sign_in drops its locals: the listener, if there is *)
(* one, and with it the connections nobody accepted.                       *)
Returned(n) == [NoWorker EXCEPT !.pc = "returned", !.provider = worker[n].provider]

Return(n) ==
  /\ worker' = [worker EXCEPT ![n] = Returned(n)]
  /\ bound' = [q \in PORTS |-> IF bound[q] = n THEN Free ELSE bound[q]]
  /\ backlog' = [q \in PORTS |-> IF bound[q] = n THEN <<>> ELSE backlog[q]]

ports == <<bound, backlog>>

(* Mutant: the slot is taken whether or not it is free.                    *)
Click_AnyTime(p) ==
  /\ clicks < MaxSignIns /\ clicks' = clicks + 1
  /\ signing_in' = signing_in \cup {p}
  /\ worker' = [worker EXCEPT ![clicks + 1].pc = "documents", ![clicks + 1].provider = p]
  /\ UNCHANGED <<entries, ports, browser, server, strays>>

(* sign_in: the slot is taken on the UI thread.  A thread that does not    *)
(* start drops its closure, and the slot in it.                            *)
Click(p) ==
  /\ clicks < MaxSignIns /\ clicks' = clicks + 1
  /\ IF p \in signing_in
       THEN UNCHANGED <<signing_in, worker>>
       ELSE \/ /\ signing_in' = signing_in \cup {p}
               /\ worker' = [worker EXCEPT ![clicks + 1].pc = "documents",
                                           ![clicks + 1].provider = p]
            \/ UNCHANGED <<signing_in, worker>>
  /\ UNCHANGED <<entries, ports, browser, server, strays>>

(* fetch, then the entry is written before anything else can fail.  A      *)
(* session stays only if it was begun at this base URL; the client id is   *)
(* kept in any case.                                                       *)
Discover(n, d) ==
  LET p == worker[n].provider
      previous == entries[IdOf[p]]
      client == IF d.client_id THEN <<p, 0>> ELSE previous.client
  IN
  /\ worker[n].pc = "documents"
  /\ IF fetch(d)
       THEN /\ entries' = [entries EXCEPT ![IdOf[p]] =
                 [base |-> p, client |-> client,
                  session |-> IF previous.base = p THEN previous.session ELSE 0]]
            /\ worker' = [worker EXCEPT ![n] =
                 IF at_least(PluginVersion, d.min_plugin_version)
                   THEN [@ EXCEPT !.pc = "client", !.client = client,
                                  !.registers = d.registration_endpoint # None]
                   ELSE Returned(n)]
       ELSE GoTo(n, "returned") /\ UNCHANGED entries
  /\ UNCHANGED <<signing_in, ports, browser, server, clicks, strays>>

set_client_id(i, client) ==
  entries' = IF entries[i].base = None THEN entries ELSE [entries EXCEPT ![i].client = client]

(* register_client, for a document without a client id and an entry that   *)
(* remembers none.                                                         *)
Register(n) ==
  LET p == worker[n].provider
      new == <<p, registered[p] + 1>>
  IN
  /\ worker[n].pc = "client" /\ worker[n].client = None
  /\ \E answer \in register_client :
       /\ answer.registers => worker[n].registers
       /\ registered' = IF answer.registers THEN [registered EXCEPT ![p] = @ + 1] ELSE registered
       /\ IF answer.client_id
            THEN /\ worker' = [worker EXCEPT ![n].client = new, ![n].pc = "bind"]
                 /\ set_client_id(IdOf[p], new)
            ELSE GoTo(n, "returned") /\ UNCHANGED entries
  /\ UNCHANGED <<signing_in, ports, browser, codes, redeemed, clicks, strays>>

KnownClient(n) ==
  /\ worker[n].pc = "client" /\ worker[n].client # None
  /\ GoTo(n, "bind") /\ set_client_id(IdOf[worker[n].provider], worker[n].client)
  /\ UNCHANGED <<signing_in, ports, browser, server, clicks, strays>>

(* Handoff::bind: the first port of the list that is free.                 *)
Bind(n) ==
  LET open == {q \in PORTS : bound[q] = Free}
      first == CHOOSE q \in open : \A r \in open : q <= r
  IN
  /\ worker[n].pc = "bind"
  /\ IF open = {}
       THEN Return(n)
       ELSE /\ bound' = [bound EXCEPT ![first] = n]
            /\ worker' = [worker EXCEPT ![n].pc = "open", ![n].port = first]
            /\ UNCHANGED backlog
  /\ UNCHANGED <<registry, browser, server, clicks, strays>>

(* browser::open, which refuses some URLs and may find no browser.         *)
OpenBrowser(n) ==
  /\ worker[n].pc = "open"
  /\ \/ /\ tabs' = tabs \cup {AuthorizeRequest(n)}
        /\ worker' = [worker EXCEPT ![n].pc = "wait", ![n].left = Timeout]
        /\ UNCHANGED ports
     \/ Return(n) /\ UNCHANGED tabs
  /\ UNCHANGED <<registry, redirects, declined, server, clicks, strays>>

(* Handoff::wait.                                                          *)
Accept(n) ==
  LET q == worker[n].port IN
  /\ worker[n].pc = "wait" /\ worker[n].left > 0 /\ backlog[q] # <<>>
  /\ worker' = [worker EXCEPT ![n].pc = "serve", ![n].conn = Head(backlog[q])]
  /\ backlog' = [backlog EXCEPT ![q] = Tail(@)]
  /\ UNCHANGED <<registry, bound, browser, server, clicks, strays>>

TimedOut(n) ==
  /\ worker[n].pc = "wait" /\ worker[n].left = 0
  /\ Return(n) /\ UNCHANGED <<registry, browser, server, clicks, strays>>

(* accept fails with anything but WouldBlock.                              *)
AcceptFails(n) ==
  /\ worker[n].pc = "wait" /\ worker[n].left > 0
  /\ Return(n) /\ UNCHANGED <<registry, browser, server, clicks, strays>>

(* Mutant: any redirect will do.                                           *)
classify_AnyState(r, state) ==
  IF r.error THEN "denied" ELSE IF r.code # 0 THEN "code" ELSE "other"

(* "other": not ours, answer the request and keep waiting.                 *)
classify(r, state) ==
  CASE r.state # state -> "other"
    [] r.state = state /\ r.error -> "denied"
    [] r.state = state /\ ~r.error /\ r.code # 0 -> "code"
    [] OTHER -> "other"

(* Mutant: a connection is read without a timeout.                         *)
Serve_NoReadTimeout(n) ==
  LET outcome == classify(worker[n].conn, n) IN
  /\ worker[n].pc = "serve" /\ ~worker[n].conn.silent
  /\ \/ /\ outcome = "other"
        /\ worker' = [worker EXCEPT ![n].pc = "wait", ![n].conn = None]
        /\ UNCHANGED ports
     \/ /\ outcome = "code"
        /\ worker' = [worker EXCEPT ![n].pc = "exchange", ![n].code = worker[n].conn.code,
                                    ![n].conn = None, ![n].left = 0]
        /\ UNCHANGED ports
     \/ /\ outcome = "denied"
        /\ worker' = [worker EXCEPT ![n] = [Returned(n) EXCEPT !.denied = TRUE]]
        /\ bound' = [bound EXCEPT ![worker[n].port] = Free]
        /\ backlog' = [backlog EXCEPT ![worker[n].port] = <<>>]
  /\ UNCHANGED <<registry, browser, server, clicks, strays>>

(* Handoff::serve.  A connection that sends nothing, or closes, ends in an *)
(* error of read, after two seconds at the most.                           *)
Serve(n) ==
  LET outcome == classify(worker[n].conn, n) IN
  /\ worker[n].pc = "serve"
  /\ \/ /\ worker[n].conn.silent \/ outcome = "other"
        /\ worker' = [worker EXCEPT ![n].pc = "wait", ![n].conn = None]
        /\ UNCHANGED ports
     \/ /\ ~worker[n].conn.silent /\ outcome = "code"
        /\ worker' = [worker EXCEPT ![n].pc = "exchange", ![n].code = worker[n].conn.code,
                                    ![n].conn = None, ![n].left = 0]
        /\ UNCHANGED ports
     \/ /\ ~worker[n].conn.silent /\ outcome = "denied"
        /\ worker' = [worker EXCEPT ![n] = [Returned(n) EXCEPT !.denied = TRUE]]
        /\ bound' = [bound EXCEPT ![worker[n].port] = Free]
        /\ backlog' = [backlog EXCEPT ![worker[n].port] = <<>>]
  /\ UNCHANGED <<registry, browser, server, clicks, strays>>

(* The server redeems a code for the request it issued it on.              *)
Redeems(form) ==
  LET issued == codes[form.code] IN
  /\ form.code \notin redeemed
  /\ <<issued.provider, issued.client, issued.port>> = <<form.provider, form.client, form.port>>
  /\ issued.challenge = challenge_for(form.verifier)

ExchangeCode(n) ==
  LET form == exchange_code(n) IN
  /\ worker[n].pc = "exchange"
  /\ \E answer \in token_request :
       /\ answer.redeems => Redeems(form)
       /\ redeemed' = IF answer.redeems THEN redeemed \cup {form.code} ELSE redeemed
       /\ IF answer.tokens THEN GoTo(n, "list") /\ UNCHANGED ports ELSE Return(n)
  /\ UNCHANGED <<registry, browser, codes, registered, clicks, strays>>

(* Only a 401 gives the new session up; a list that could not be loaded is *)
(* empty.                                                                  *)
ListIngests(n) ==
  /\ worker[n].pc = "list"
  /\ \E answer \in list_ingests :
       IF answer = "unauthorized" THEN Return(n) ELSE GoTo(n, "store") /\ UNCHANGED ports
  /\ UNCHANGED <<registry, browser, server, clicks, strays>>

(* The tokens go to the entry of the document's id, if there still is one. *)
Store(n) ==
  LET i == IdOf[worker[n].provider] IN
  /\ worker[n].pc = "store"
  /\ entries' = IF entries[i].base = None THEN entries ELSE [entries EXCEPT ![i].session = n]
  /\ Return(n)
  /\ UNCHANGED <<signing_in, browser, server, clicks, strays>>

(* SignInSlot: dropped when the thread's closure is, after a panic too.    *)
Release(n) ==
  /\ worker[n].pc = "returned"
  /\ GoTo(n, "ended")
  /\ signing_in' = signing_in \ {worker[n].provider}
  /\ UNCHANGED <<entries, ports, browser, server, clicks, strays>>

Panic(n) ==
  /\ worker[n].pc \in Running
  /\ Return(n) /\ UNCHANGED <<registry, browser, server, clicks, strays>>

(* sign_out, at its end: the session goes, the client id stays.            *)
SignOut(i) ==
  /\ entries[i].session # 0
  /\ entries' = [entries EXCEPT ![i].session = 0]
  /\ UNCHANGED <<signing_in, worker, ports, browser, server, clicks, strays>>

-----------------------------------------------------------------------------
(* The browser, the user, other programs, and time.                        *)

(* A request reaches whoever listens; with nobody there it is refused.     *)
Connect(r) ==
  backlog' = IF bound[r.port] \in Numbers
               THEN [backlog EXCEPT ![r.port] = Append(@, r)] ELSE backlog

ClientKnown(p, client) == client[1] = p /\ client[2] <= registered[p]

Answer(t, r) ==
  /\ t \in tabs /\ ClientKnown(t.provider, t.client)
  /\ tabs' = tabs \ {t} /\ redirects' = redirects \cup {r} /\ Connect(r)

Approve(t) ==
  /\ Answer(t, [port |-> t.port, state |-> t.state, error |-> FALSE,
                code |-> Len(codes) + 1, silent |-> FALSE])
  /\ codes' = Append(codes, [provider |-> t.provider, client |-> t.client,
                             port |-> t.port, challenge |-> t.challenge])
  /\ UNCHANGED <<registry, worker, bound, declined, redeemed, registered, clicks, strays>>

Decline(t) ==
  /\ Answer(t, [port |-> t.port, state |-> t.state, error |-> TRUE, code |-> 0, silent |-> FALSE])
  /\ declined' = declined \cup {t.state}
  /\ UNCHANGED <<registry, worker, bound, server, clicks, strays>>

(* A probe that says nothing, one without parameters, and a tab whose user *)
(* asks for the same page again.                                           *)
Stray(q, silent) ==
  /\ strays < MaxStrays /\ strays' = strays + 1
  /\ Connect([port |-> q, state |-> 0, error |-> FALSE, code |-> 0, silent |-> silent])
  /\ UNCHANGED <<registry, worker, bound, browser, server, clicks>>

Reload(r) ==
  /\ strays < MaxStrays /\ strays' = strays + 1
  /\ r \in redirects /\ Connect(r)
  /\ UNCHANGED <<registry, worker, bound, browser, server, clicks>>

Tick ==
  /\ \E n \in Numbers : worker[n].left > 0
  /\ worker' = [n \in Numbers |-> IF worker[n].left > 0
                                    THEN [worker[n] EXCEPT !.left = @ - 1] ELSE worker[n]]
  /\ UNCHANGED <<registry, ports, browser, server, clicks, strays>>

Step(n) ==
  \/ \E d \in Documents : Discover(n, d)
  \/ Register(n) \/ KnownClient(n) \/ Bind(n) \/ OpenBrowser(n)
  \/ Accept(n) \/ TimedOut(n) \/ Serve(n)
  \/ ExchangeCode(n) \/ ListIngests(n) \/ Store(n) \/ Release(n)

Next ==
  \/ \E n \in Numbers : Step(n) \/ AcceptFails(n) \/ Panic(n)
  \/ \E p \in Providers : Click(p)
  \/ \E i \in Ids : SignOut(i)
  \/ \E t \in tabs : Approve(t) \/ Decline(t)
  \/ \E q \in PORTS, silent \in BOOLEAN : Stray(q, silent)
  \/ \E r \in redirects : Reload(r)
  \/ Tick

Spec == Init /\ [][Next]_vars

(* Every request has a deadline of its own (five seconds), so the worker   *)
(* always takes its next step; and time passes.                            *)
FairSpec == Spec /\ WF_vars(Tick) /\ \A n \in Numbers : WF_vars(Step(n))

-----------------------------------------------------------------------------
(* A sign-in exchanges only the code its own tab was given, for its own    *)
(* client, port and verifier, and takes only its own user's refusal for    *)
(* one: a tab left over from an earlier sign-in on the same port, a        *)
(* reload, or another program's probe never ends it.                       *)
OnlyItsOwnTab ==
  \A n \in Numbers :
    /\ worker[n].pc \in {"exchange", "list", "store"} =>
         codes[worker[n].code] = [provider |-> worker[n].provider, client |-> worker[n].client,
                                  port |-> worker[n].port, challenge |-> challenge_for(n)]
    /\ worker[n].denied => n \in declined

(* A second click opens no second tab: a provider has at most one sign-in  *)
(* that holds a port, whatever ended the one before.                       *)
OneListenerEach ==
  \A q, r \in PORTS :
    q # r /\ {bound[q], bound[r]} \subseteq Numbers
      => worker[bound[q]].provider # worker[bound[r]].provider

(* A sign-in the user does not finish times out, the port is released and  *)
(* the button works again, whatever else connects to the port.             *)
SignInEnds ==
  \A n \in Numbers :
    (worker[n].pc \in Running) ~>
      (worker[n].pc = "ended" /\ \A q \in PORTS : bound[q] # n)
=============================================================================
