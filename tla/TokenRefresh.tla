---------------------------- MODULE TokenRefresh ----------------------------
(***************************************************************************)
(* How the commands of one host renew its OAuth token (pkg/runtime:        *)
(* hostOptions, oauth.go and the 401 branch of doRawFullConsume).  Several *)
(* processes read hosts.yml, send requests with the token they read, and   *)
(* exchange the refresh token when it is about to expire or is rejected,   *)
(* while others log in and out.  A service that rotates refresh tokens     *)
(* takes each of them once.  An update of hosts.yml is one step here:      *)
(* that is what HostStore implements.                                      *)
(***************************************************************************)
EXTENDS Integers

CONSTANTS
    Procs,        \* CLI processes
    Absent,       \* the host is not in hosts.yml
    Failed,       \* the exchange brought an error
    Rotations,    \* whether an exchange rotates the refresh token: {TRUE}, {FALSE} or both
    Garbled,      \* the exchange brought a 200 without an access token
    MaxTokens,    \* bound on tokens the service issues
    MaxCommands,  \* bound on commands started
    MaxLogins,    \* bound on logins and logouts together, the first login included
    MaxFaults,    \* bound on lost messages, failing updates and kills together
    MaxRequests   \* bound on the requests of one command (pages, polls)

Tokens == 1 .. MaxTokens

NoToken == 0

\* Token n is the n-th the service issued; a refresh token has the number of
\* the access token it came with.
Entry == [type: {"bearer", "apikey"}, access: Tokens \cup {NoToken},
          refresh: Tokens \cup {NoToken}]

\* refresh is NoToken when the service keeps the old refresh token.
Reply == [access: Tokens, refresh: Tokens \cup {NoToken}]

ASSUME TokenRefreshAssumption ==
    /\ Absent \notin Entry
    /\ Failed \notin Reply /\ Garbled \notin Reply /\ Failed # Garbled
    /\ Rotations \subseteq BOOLEAN /\ Rotations # {}
    /\ MaxTokens \in Nat \ {0} /\ MaxLogins \in Nat \ {0}
    /\ MaxCommands \in Nat /\ MaxFaults \in Nat
    /\ MaxRequests \in Nat \ {0}

VARIABLES
    store,    \* the host's entry in hosts.yml
    issued,   \* how many tokens the service has issued
    live,     \* refresh tokens the service still exchanges
    valid,    \* access tokens it still accepts
    fresh,    \* access tokens stored without an expiry time or with one beyond the skew
    mate,     \* access token -> the refresh token it goes with
    family,   \* access token -> the login it descends from
    pc,       \* per process: where it is in its command
    lenient,  \* per process: its operation also runs without a credential
    auth,     \* per process: the entry behind its requests
    held,     \* per process: the entry it is refreshing, then the outcome
    after,    \* per process: the refresh answers a 401
    reply,    \* per process: what the exchange brought
    sent,     \* per process: requests answered so far
    outcome,  \* per process: how its last command ended
    logins, started, faults,  \* what MaxLogins, MaxCommands, MaxFaults bound
    stored,   \* history: access tokens hosts.yml has held
    excused   \* history, per process: something happened that a refresh cannot mend

service == <<issued, live, valid, fresh, mate, family>>
history == <<stored, excused>>
vars == <<store, service, pc, lenient, auth, held, after, reply, sent, outcome,
          logins, started, faults, history>>

Points == {"idle", "posting", "answered", "ready", "reloading", "resending"}

TypeOK ==
    /\ store \in Entry \cup {Absent}
    /\ issued \in Nat /\ issued <= MaxTokens
    /\ live \subseteq 1 .. issued /\ valid \subseteq 1 .. issued /\ fresh \subseteq 1 .. issued
    /\ mate \in [Tokens -> Tokens \cup {NoToken}]
    /\ family \in [Tokens -> Nat]
    /\ pc \in [Procs -> Points]
    /\ lenient \in [Procs -> BOOLEAN] /\ after \in [Procs -> BOOLEAN]
    /\ auth \in [Procs -> Entry \cup {Absent}] /\ held \in [Procs -> Entry \cup {Absent}]
    /\ reply \in [Procs -> Reply \cup {Failed, Garbled}]
    /\ sent \in [Procs -> 0 .. MaxRequests]
    /\ outcome \in [Procs -> {"none", "ok", "failed", "rejected", "killed"}]
    /\ logins \in Nat /\ started \in Nat /\ faults \in Nat
    /\ stored \subseteq Tokens
    /\ excused \in [Procs -> BOOLEAN]

\* The user has logged in with the device flow, some time ago.
Init ==
    /\ store = [type |-> "bearer", access |-> 1, refresh |-> 1]
    /\ issued = 1 /\ live = {1} /\ valid \in SUBSET {1} /\ fresh \in SUBSET valid
    /\ mate = [n \in Tokens |-> IF n = 1 THEN 1 ELSE NoToken]
    /\ family = [n \in Tokens |-> IF n = 1 THEN 1 ELSE 0]
    /\ pc = [p \in Procs |-> "idle"]
    /\ lenient = [p \in Procs |-> FALSE] /\ after = [p \in Procs |-> FALSE]
    /\ auth = [p \in Procs |-> Absent] /\ held = [p \in Procs |-> Absent]
    /\ reply = [p \in Procs |-> Failed]
    /\ sent = [p \in Procs |-> 0]
    /\ outcome = [p \in Procs |-> "none"]
    /\ logins = 1 /\ started = 0 /\ faults = 0
    /\ stored = {1}
    /\ excused = [p \in Procs |-> FALSE]

\* The access token a request with entry e carries.
TokenOf(e) == IF e = Absent THEN NoToken ELSE e.access

\* canRefreshHostAuth
CanRefresh(e) == e # Absent /\ e.refresh # NoToken

\* The expiry check of refreshHostAuthIfNeeded.
Expiring(e) == e.access \notin fresh

\* The comparison in refreshHostAuth and refreshedByAnotherProcess.
SameTokens(d, e) == d.access = e.access /\ d.refresh = e.refresh

Fault == faults < MaxFaults /\ faults' = faults + 1

Note(who) == excused' = [p \in Procs |-> excused[p] \/ (p \in who /\ pc[p] # "idle")]

-----------------------------------------------------------------------------
(* Ends of a step of process p *)

End(p, how) ==
    /\ pc' = [pc EXCEPT ![p] = "idle"]
    /\ outcome' = [outcome EXCEPT ![p] = how]
    /\ auth' = [auth EXCEPT ![p] = Absent]
    /\ held' = [held EXCEPT ![p] = Absent]

\* The request is answered with data: the next one, or the end.
Answered(p) ==
    /\ sent' = [sent EXCEPT ![p] = @ + 1]
    /\ \/ sent[p] + 1 < MaxRequests /\ pc' = [pc EXCEPT ![p] = "ready"] /\ UNCHANGED <<auth, held, outcome>>
       \/ End(p, "ok")

\* refreshHostAuth returns entry e: the credential of the command, or of the one
\* request that was rejected.
Refreshed(p, e) ==
    /\ IF after[p]
       THEN /\ held' = [held EXCEPT ![p] = e] /\ UNCHANGED auth
            /\ pc' = [pc EXCEPT ![p] = "resending"]
       ELSE /\ auth' = [auth EXCEPT ![p] = e] /\ UNCHANGED held
            /\ pc' = [pc EXCEPT ![p] = "ready"]
    /\ UNCHANGED outcome

\* refreshHostAuth returns an error: fatal, except before a lenient command,
\* which goes on with the entry it has.
RefreshFails(p) ==
    IF lenient[p] /\ ~after[p] THEN Refreshed(p, held[p]) ELSE End(p, "failed")

-----------------------------------------------------------------------------
(* hostOptions *)

Load(p) ==
    /\ pc[p] = "idle"
    /\ started < MaxCommands
    /\ started' = started + 1
    /\ \E optional \in BOOLEAN :
         /\ store # Absent \/ optional
         /\ lenient' = [lenient EXCEPT ![p] = optional]
    /\ held' = [held EXCEPT ![p] = store]
    /\ after' = [after EXCEPT ![p] = FALSE]
    /\ sent' = [sent EXCEPT ![p] = 0]
    /\ outcome' = [outcome EXCEPT ![p] = "none"]
    /\ excused' = [excused EXCEPT ![p] = ~CanRefresh(store)]
    /\ IF CanRefresh(store) /\ Expiring(store)
       THEN pc' = [pc EXCEPT ![p] = "posting"] /\ UNCHANGED auth
       ELSE pc' = [pc EXCEPT ![p] = "ready"] /\ auth' = [auth EXCEPT ![p] = store]
    /\ UNCHANGED <<store, service, reply, logins, faults, stored>>

-----------------------------------------------------------------------------
(* refreshHostAuth *)

Answer(p, r) ==
    /\ pc[p] = "posting"
    /\ pc' = [pc EXCEPT ![p] = "answered"]
    /\ reply' = [reply EXCEPT ![p] = r]
    /\ UNCHANGED <<store, lenient, auth, held, after, sent, outcome, logins, started, stored>>

\* The service issues token n to login l, with refresh token r or none.
Issue(n, l, r) ==
    /\ n <= MaxTokens
    /\ issued' = n
    /\ valid' = valid \cup {n} /\ fresh' = fresh \cup {n}
    /\ mate' = [mate EXCEPT ![n] = r] /\ family' = [family EXCEPT ![n] = l]

\* The service exchanges the refresh token.
Exchange(p, rotates) ==
    LET n == issued + 1
        old == held[p].refresh
    IN /\ pc[p] = "posting"
       /\ old \in live
       /\ live' = IF rotates THEN (live \ {old}) \cup {n} ELSE live
       /\ Issue(n, family[held[p].access], IF rotates THEN n ELSE old)

Granted(p) ==
    \E rotates \in Rotations :
       /\ Exchange(p, rotates)
       /\ Answer(p, [access |-> issued + 1,
                     refresh |-> IF rotates THEN issued + 1 ELSE NoToken])
       /\ UNCHANGED <<faults, excused>>

\* (At the bound MaxTokens the service answers with an error.)
Refused(p) ==
    /\ Answer(p, Failed)
    /\ held[p].refresh \notin live \/ issued = MaxTokens
    /\ Note(IF issued = MaxTokens THEN Procs ELSE {})
    /\ UNCHANGED <<service, faults>>

\* The request or its answer is lost, is cut short, or times out after 10 s.
Lost(p) ==
    /\ \/ UNCHANGED service
       \/ \E rotates \in Rotations : Exchange(p, rotates)
    /\ \E r \in {Failed, Garbled} : Answer(p, r)
    /\ Fault
    /\ UNCHANGED excused

\* What another process may have stored meanwhile (refreshedByAnotherProcess).
Renewed(p) ==
    store # Absent /\ store.type = "bearer" /\ store.access # NoToken /\ ~SameTokens(store, held[p])

\* A grant for the same tokens has been answered and is not stored yet.
Overtaken(p) ==
    \E q \in Procs \ {p} : /\ pc[q] = "answered" /\ reply[q] \in Reply
                           /\ held[q] # Absent /\ SameTokens(held[q], held[p])

UnusedUpdate == UNCHANGED <<service, lenient, after, reply, sent, logins, started>>

\* A refresh that takes its own failure for the last word.
RecheckNothing(p) ==
    /\ pc[p] = "answered" /\ reply[p] \in {Failed, Garbled}
    /\ RefreshFails(p)
    /\ Note(IF Overtaken(p) THEN {p} ELSE {})
    /\ UNCHANGED <<store, faults, stored>> /\ UnusedUpdate

\* The exchange failed: the error stands, unless the entry has changed.
Recheck(p) ==
    /\ pc[p] = "answered" /\ reply[p] \in {Failed, Garbled}
    /\ IF reply[p] = Failed /\ Renewed(p) THEN Refreshed(p, store) ELSE RefreshFails(p)
    /\ Note(IF Overtaken(p) THEN {p} ELSE {})
    /\ UNCHANGED <<store, faults, stored>> /\ UnusedUpdate

\* Keeping the stored refresh token although the service rotated it.
RenewalUnrotated(r, e) == [type |-> "bearer", access |-> r.access, refresh |-> e.refresh]

\* The entry the closure of refreshHostAuth makes of the reply.
Renewal(r, e) ==
    [type |-> "bearer", access |-> r.access,
     refresh |-> IF r.refresh # NoToken THEN r.refresh ELSE e.refresh]

Write(e) == store' = e /\ stored' = stored \cup ({e.access} \ {NoToken})

\* The closure without its comparison.
StoreBlindly(p) ==
    /\ pc[p] = "answered" /\ reply[p] \in Reply
    /\ IF store = Absent THEN RefreshFails(p) /\ UNCHANGED <<store, stored>>
       ELSE Refreshed(p, Renewal(reply[p], store)) /\ Write(Renewal(reply[p], store))
    /\ UNCHANGED <<faults, excused>> /\ UnusedUpdate

\* MutateHosts with the closure of refreshHostAuth: the host has logged out, the
\* entry has changed, or it is still the one that was sent.
Store(p) ==
    /\ pc[p] = "answered" /\ reply[p] \in Reply
    /\ \/ store = Absent /\ RefreshFails(p) /\ UNCHANGED <<store, stored>>
       \/ /\ store # Absent /\ ~SameTokens(store, held[p])
          /\ Refreshed(p, store) /\ UNCHANGED <<store, stored>>
       \/ /\ store # Absent /\ SameTokens(store, held[p])
          /\ Refreshed(p, Renewal(reply[p], store)) /\ Write(Renewal(reply[p], store))
    /\ UNCHANGED <<faults, excused>> /\ UnusedUpdate

\* MutateHosts fails, before it has replaced the file or after.
StoreFails(p) ==
    /\ pc[p] = "answered" /\ reply[p] \in Reply
    /\ \/ UNCHANGED <<store, stored>>
       \/ store # Absent /\ SameTokens(store, held[p]) /\ Write(Renewal(reply[p], store))
    /\ RefreshFails(p)
    /\ Fault
    /\ UNCHANGED excused /\ UnusedUpdate

-----------------------------------------------------------------------------
(* doRawFullConsume *)

\* The service takes the credential: no credential and an API key are not the
\* refresh's concern.
Accepted(e) == TokenOf(e) \in valid \cup {NoToken}

RestUnchanged == UNCHANGED <<store, service, lenient, reply, logins, started, faults, history>>

Request(p) ==
    /\ pc[p] = "ready"
    /\ \/ Accepted(auth[p]) /\ Answered(p)
       \/ /\ ~Accepted(auth[p]) /\ CanRefresh(auth[p])
          /\ pc' = [pc EXCEPT ![p] = "reloading"]
          /\ UNCHANGED <<auth, held, sent, outcome>>
       \/ ~Accepted(auth[p]) /\ ~CanRefresh(auth[p]) /\ End(p, "failed") /\ UNCHANGED sent
    /\ UNCHANGED after /\ RestUnchanged

\* refreshAuthFunc taking the stored token as it is.
ReloadTrusting(p) ==
    /\ pc[p] = "reloading"
    /\ \/ store = Absent /\ End(p, "failed") /\ UNCHANGED after
       \/ /\ store # Absent
          /\ held' = [held EXCEPT ![p] = store]
          /\ pc' = [pc EXCEPT ![p] = "resending"]
          /\ UNCHANGED <<auth, after, outcome>>
    /\ UNCHANGED sent /\ RestUnchanged

\* refreshAuthFunc: a token other than the rejected one is used as it is.
Reload(p) ==
    /\ pc[p] = "reloading"
    /\ \/ store = Absent /\ End(p, "failed") /\ UNCHANGED after
       \/ /\ store # Absent /\ store.access \notin {NoToken, auth[p].access}
          /\ held' = [held EXCEPT ![p] = store]
          /\ pc' = [pc EXCEPT ![p] = "resending"]
          /\ UNCHANGED <<auth, after, outcome>>
       \/ /\ store # Absent /\ store.access \in {NoToken, auth[p].access} /\ CanRefresh(store)
          /\ held' = [held EXCEPT ![p] = store]
          /\ after' = [after EXCEPT ![p] = TRUE]
          /\ pc' = [pc EXCEPT ![p] = "posting"]
          /\ UNCHANGED <<auth, outcome>>
       \/ /\ store # Absent /\ store.access \in {NoToken, auth[p].access} /\ ~CanRefresh(store)
          /\ End(p, "failed") /\ UNCHANGED after
    /\ UNCHANGED sent /\ RestUnchanged

\* Once, with RefreshAuth cleared.  The next request starts again from auth: the
\* options are passed by value.
Resend(p) ==
    /\ pc[p] = "resending"
    /\ \/ Accepted(held[p]) /\ Answered(p)
       \/ ~Accepted(held[p]) /\ End(p, "rejected") /\ UNCHANGED sent
    /\ UNCHANGED after /\ RestUnchanged

-----------------------------------------------------------------------------
(* Other commands, time and death *)

OthersUnchanged == UNCHANGED <<pc, lenient, auth, held, after, reply, sent, outcome, started>>

\* auth login: the device flow, with or without a refresh token, or an API key.
Login ==
    /\ logins < MaxLogins
    /\ logins' = logins + 1
    /\ \/ \E r \in {issued + 1, NoToken} :
            /\ Issue(issued + 1, logins + 1, r)
            /\ live' = live \cup ({r} \ {NoToken})
            /\ Write([type |-> "bearer", access |-> issued + 1, refresh |-> r])
       \/ /\ Write([type |-> "apikey", access |-> NoToken, refresh |-> NoToken])
          /\ UNCHANGED service
    /\ Note(Procs)
    /\ UNCHANGED faults /\ OthersUnchanged

Logout ==
    /\ store # Absent
    /\ logins < MaxLogins
    /\ logins' = logins + 1
    /\ store' = Absent
    /\ Note(Procs)
    /\ UNCHANGED <<service, faults, stored>> /\ OthersUnchanged

\* The expiry time comes within the skew of the local clock.
Age ==
    /\ \E n \in fresh : fresh' = fresh \ {n}
    /\ UNCHANGED <<store, issued, live, valid, mate, family, logins, faults, history>>
    /\ OthersUnchanged

\* The service stops accepting token n, whatever the local clock says.
Expire ==
    /\ \E n \in valid : valid' = valid \ {n}
    /\ UNCHANGED <<store, issued, live, fresh, mate, family, logins, faults, history>>
    /\ OthersUnchanged

\* The process is killed or cancelled.
Kill(p) ==
    /\ pc[p] # "idle"
    /\ End(p, "killed")
    /\ Fault
    /\ UNCHANGED <<store, history>> /\ UnusedUpdate

-----------------------------------------------------------------------------

Progress(p) ==
    \/ Granted(p) \/ Refused(p) \/ Recheck(p) \/ Store(p)
    \/ Request(p) \/ Reload(p) \/ Resend(p)

Next ==
    \/ \E p \in Procs : Load(p) \/ Progress(p) \/ Lost(p) \/ StoreFails(p) \/ Kill(p)
    \/ Login \/ Logout \/ Age \/ Expire

Spec == Init /\ [][Next]_vars

-----------------------------------------------------------------------------
(* Properties *)

\* The stored refresh token is the one that goes with the stored access token,
\* however the refreshes of several processes and the logins interleave.
PairCoherent ==
    TokenOf(store) # NoToken => store.refresh = mate[store.access]

FamilyOf(e) == IF TokenOf(e) = NoToken THEN 0 ELSE family[e.access]

\* A refresh never undoes a login or a logout: what is stored descends from the
\* last one.
LoginWins ==
    [][store' # store => \/ logins' > logins
                         \/ /\ store # Absent /\ store' # Absent
                            /\ FamilyOf(store)' = FamilyOf(store)]_vars

\* No request carries a token that hosts.yml has not held: a grant that could not
\* be stored is not used.
SendsStoredTokens ==
    \A p \in Procs :
        /\ pc[p] = "ready" => TokenOf(auth[p]) \in stored \cup {NoToken}
        /\ pc[p] = "resending" => TokenOf(held[p]) \in stored \cup {NoToken}

\* A rejected request is sent again only with another token.
ResendsAnotherToken ==
    \A p \in Procs : pc[p] = "resending" => TokenOf(held[p]) # TokenOf(auth[p])

\* A command that finds a refresh token fails on its credential only if a renewed
\* token is rejected too, a message, an update or a process was lost, somebody
\* logged in or out meanwhile, or another process had not stored its grant yet.
RefreshRescues == \A p \in Procs : outcome[p] = "failed" => faults > 0 \/ excused[p]
=============================================================================
