--------------------------- MODULE AccessSession ----------------------------
(***************************************************************************)
(* The Cloudflare Access session of a command (pkg/runtime:                *)
(* cloudflare_access.go).  Its requests, one after another or in           *)
(* goroutines, share one lookup per origin: the first one starts it in a   *)
(* goroutine, the others wait for it, and each may give up by itself.      *)
(***************************************************************************)
EXTENDS Integers

CONSTANTS
    Requests,   \* requests that share the session
    Origins,
    Missing,    \* no lookup for the origin
    Nothing,    \* no token and no error: the zero accessLookup
    Failed,     \* cloudflared failed, timed out after 8 s or printed no valid token
    Cancelled,  \* the error of a context
    Expired,    \* the token had expired when it was to be used
    NoAnswer,   \* token has not returned
    MaxCalls,   \* bound on calls
    MaxClock    \* bound on the clock

\* A token, by the origin and the run of cloudflared that brought it.
Token == [origin : Origins, run : 1 .. MaxCalls, expires : 1 .. MaxClock + 1]

Errors == {Failed, Cancelled}

ASSUME AccessSessionAssumption ==
    /\ MaxCalls \in Nat /\ MaxClock \in Nat
    /\ Missing \notin [done : BOOLEAN, result : Token \cup Errors \cup {Nothing}]
    /\ {Nothing, Failed, Cancelled, Expired, NoAnswer} \cap Token = {}
    /\ Nothing \notin Errors /\ Expired \notin Errors /\ Failed # Cancelled
    /\ NoAnswer \notin {Nothing, Failed, Cancelled, Expired}

VARIABLES
    clock,    \* time.Now().Unix()
    lookups,  \* accessSession.lookups
    reader,   \* per origin: the goroutine that reads its token
    found,    \* per origin: what that goroutine has read
    parents,  \* per origin: the requests whose cancellation reaches that goroutine
    pc,       \* per request: where it is
    origin,   \* per request: the origin it goes to
    done,     \* per request: its context is cancelled or past its deadline
    answer,   \* per request: what token returned
    shown,    \* per request: tokens in the error body handed to the caller
    calls,    \* bounded by MaxCalls
    runs,     \* history, per origin: how often cloudflared was run
    seen      \* history, per origin: tokens the origin has received

request == <<pc, origin, answer, shown>>
lookup == <<lookups, reader, found, parents>>
vars == <<clock, lookup, request, done, calls, runs, seen>>

Pending == [done |-> FALSE, result |-> Nothing]

Lookup == {Pending} \cup [done : {TRUE}, result : Token \cup Errors]

TypeOK ==
    /\ clock \in 0 .. MaxClock
    /\ lookups \in [Origins -> Lookup \cup {Missing}]
    /\ reader \in [Origins -> {"none", "running", "read", "over"}]
    /\ found \in [Origins -> Token \cup Errors \cup {Nothing}]
    /\ parents \in [Origins -> SUBSET Requests]
    /\ pc \in [Requests -> {"idle", "entering", "creating", "waiting", "checking", "sending", "failing"}]
    /\ origin \in [Requests -> Origins]
    /\ done \in [Requests -> BOOLEAN]
    /\ answer \in [Requests -> Token \cup Errors \cup {Expired, NoAnswer}]
    /\ shown \in [Requests -> SUBSET Token]
    /\ calls \in 0 .. MaxCalls
    /\ runs \in [Origins -> 0 .. MaxCalls]
    /\ seen \in [Origins -> SUBSET Token]

Init ==
    /\ clock = 0
    /\ lookups = [o \in Origins |-> Missing]
    /\ reader = [o \in Origins |-> "none"]
    /\ found = [o \in Origins |-> Nothing]
    /\ parents = [o \in Origins |-> {}]
    /\ pc = [r \in Requests |-> "idle"]
    /\ origin \in [Requests -> Origins]
    /\ done = [r \in Requests |-> FALSE]
    /\ answer = [r \in Requests |-> NoAnswer]
    /\ shown = [r \in Requests |-> {}]
    /\ calls = 0
    /\ runs = [o \in Origins |-> 0]
    /\ seen = [o \in Origins |-> {}]

-----------------------------------------------------------------------------
(* accessTransport.RoundTrip and token *)

\* A request, or an attempt of its retries, with its context.
Call(r) ==
    /\ pc[r] = "idle"
    /\ calls < MaxCalls /\ calls' = calls + 1
    /\ \E o \in Origins : origin' = [origin EXCEPT ![r] = o]
    /\ done' = [done EXCEPT ![r] = FALSE]
    /\ pc' = [pc EXCEPT ![r] = "entering"]
    /\ answer' = [answer EXCEPT ![r] = NoAnswer]
    /\ shown' = [shown EXCEPT ![r] = {}]
    /\ UNCHANGED <<clock, lookup, runs, seen>>

RestUnchanged == UNCHANGED <<clock, origin, done, calls, runs, seen>>

Return(r, a) ==
    /\ answer' = [answer EXCEPT ![r] = a]
    /\ pc' = [pc EXCEPT ![r] = IF a \in Token THEN "sending" ELSE "idle"]

\* A session that looks a token up again when it has expired.
EnterAfterExpiry(r) ==
    LET known == lookups[origin[r]]
        kept == known # Missing /\ ~(known.result \in Token /\ known.result.expires <= clock)
    IN /\ pc[r] = "entering"
       /\ \/ done[r] /\ Return(r, Cancelled) /\ UNCHANGED lookups
          \/ ~done[r] /\ kept /\ pc' = [pc EXCEPT ![r] = "waiting"] /\ UNCHANGED <<lookups, answer>>
          \/ /\ ~done[r] /\ ~kept
             /\ lookups' = [lookups EXCEPT ![origin[r]] = Pending]
             /\ pc' = [pc EXCEPT ![r] = "creating"] /\ UNCHANGED answer
       /\ UNCHANGED <<reader, found, parents, shown>> /\ RestUnchanged

\* The check of the context, then get or create the lookup under the mutex.
Enter(r) ==
    /\ pc[r] = "entering"
    /\ \/ done[r] /\ Return(r, Cancelled) /\ UNCHANGED lookups
       \/ /\ ~done[r] /\ lookups[origin[r]] # Missing
          /\ pc' = [pc EXCEPT ![r] = "waiting"] /\ UNCHANGED <<lookups, answer>>
       \/ /\ ~done[r] /\ lookups[origin[r]] = Missing
          /\ lookups' = [lookups EXCEPT ![origin[r]] = Pending]
          /\ pc' = [pc EXCEPT ![r] = "creating"] /\ UNCHANGED answer
    /\ UNCHANGED <<reader, found, parents, shown>> /\ RestUnchanged

\* context.WithoutCancel: no request's cancellation reaches the lookup.
LookupParents(r) == {}

\* A request that gives up before it has started the goroutine.
StartUnlessDone(r) ==
    /\ pc[r] = "creating"
    /\ \/ done[r] /\ Return(r, Cancelled) /\ UNCHANGED <<reader, parents, runs>>
       \/ /\ ~done[r]
          /\ reader' = [reader EXCEPT ![origin[r]] = "running"]
          /\ runs' = [runs EXCEPT ![origin[r]] = @ + 1]
          /\ pc' = [pc EXCEPT ![r] = "waiting"]
          /\ UNCHANGED <<parents, answer>>
    /\ UNCHANGED <<clock, lookups, found, origin, done, shown, calls, seen>>

\* The goroutine starts, whatever has become of the context.
Start(r) ==
    /\ pc[r] = "creating"
    /\ reader' = [reader EXCEPT ![origin[r]] = "running"]
    /\ parents' = [parents EXCEPT ![origin[r]] = LookupParents(r)]
    /\ runs' = [runs EXCEPT ![origin[r]] = @ + 1]
    /\ pc' = [pc EXCEPT ![r] = "waiting"]
    /\ UNCHANGED <<clock, lookups, found, origin, done, answer, shown, calls, seen>>

\* readAccessToken: a token that is valid for some time yet, or an error.
Read(o) ==
    /\ reader[o] = "running"
    /\ \E t \in {t \in Token : t.origin = o /\ t.run = runs[o] /\ t.expires > clock}
                \cup {Failed}
                \cup (IF \E r \in parents[o] : done[r] THEN {Cancelled} ELSE {}) :
         found' = [found EXCEPT ![o] = t]
    /\ reader' = [reader EXCEPT ![o] = "read"]
    /\ UNCHANGED <<lookups, parents, pc, answer, shown>> /\ RestUnchanged

\* The assignment and the close, under the mutex.
Publish(o) ==
    /\ reader[o] = "read"
    /\ lookups' = [lookups EXCEPT ![o] = [done |-> TRUE, result |-> found[o]]]
    /\ reader' = [reader EXCEPT ![o] = "over"]
    /\ UNCHANGED <<found, parents, pc, answer, shown>> /\ RestUnchanged

\* The select: both channels may be ready.
Wake(r) ==
    /\ pc[r] = "waiting"
    /\ \/ done[r] /\ Return(r, Cancelled)
       \/ /\ lookups[origin[r]].done
          /\ pc' = [pc EXCEPT ![r] = "checking"] /\ UNCHANGED answer
    /\ UNCHANGED <<lookup, shown>> /\ RestUnchanged

ExpiryOf(t) == IF t = Nothing THEN 0 ELSE t.expires

\* The checks after the select.
Check(r) ==
    LET result == lookups[origin[r]].result
    IN /\ pc[r] = "checking"
       /\ \/ done[r] /\ Return(r, Cancelled)
          \/ ~done[r] /\ result \in Errors /\ Return(r, result)
          \/ ~done[r] /\ result \notin Errors /\ clock >= ExpiryOf(result) /\ Return(r, Expired)
          \/ ~done[r] /\ result \notin Errors /\ clock < ExpiryOf(result) /\ Return(r, result)
       /\ UNCHANGED <<lookup, shown>> /\ RestUnchanged

\* The request is sent with its token: it fails on the way, is redirected to the
\* Access login or answered with data, or the answer is an error whose body may
\* repeat tokens that the origin has received.
Send(r) ==
    /\ pc[r] = "sending"
    /\ \/ pc' = [pc EXCEPT ![r] = "idle"] /\ UNCHANGED <<seen, shown>>
       \/ /\ seen' = [seen EXCEPT ![origin[r]] = @ \cup {answer[r]}]
          /\ \/ pc' = [pc EXCEPT ![r] = "idle"] /\ UNCHANGED shown
             \/ /\ pc' = [pc EXCEPT ![r] = "failing"]
                /\ \E body \in SUBSET seen'[origin[r]] : shown' = [shown EXCEPT ![r] = body]
    /\ UNCHANGED <<clock, lookup, origin, done, answer, calls, runs>>

\* Leaving out tokens that have expired.
KnownFresh ==
    {t \in {lookups[o].result : o \in {o \in Origins : lookups[o] # Missing}} \ ({Nothing} \cup Errors) :
        t.expires > clock}

\* Tokens the session can replace in a text (redact).
Known == {lookups[o].result : o \in {o \in Origins : lookups[o] # Missing}} \ ({Nothing} \cup Errors)

Redact(r) ==
    /\ pc[r] = "failing"
    /\ shown' = [shown EXCEPT ![r] = @ \ Known]
    /\ pc' = [pc EXCEPT ![r] = "idle"]
    /\ UNCHANGED <<lookup, answer>> /\ RestUnchanged

-----------------------------------------------------------------------------
(* The world *)

Cancel(r) ==
    /\ pc[r] # "idle" /\ ~done[r]
    /\ done' = [done EXCEPT ![r] = TRUE]
    /\ UNCHANGED <<clock, lookup, request, calls, runs, seen>>

Tick ==
    /\ clock < MaxClock /\ clock' = clock + 1
    /\ UNCHANGED <<lookup, request, done, calls, runs, seen>>

Step(r) == Enter(r) \/ Start(r) \/ Wake(r) \/ Check(r) \/ Send(r) \/ Redact(r)

Reading(o) == Read(o) \/ Publish(o)

Next ==
    \/ \E r \in Requests : Call(r) \/ Step(r) \/ Cancel(r)
    \/ \E o \in Origins : Reading(o)
    \/ Tick

Spec == Init /\ [][Next]_vars

\* Goroutines are scheduled, cloudflared is killed after 8 s and its output is
\* closed one second later.
FairSpec == /\ Spec
            /\ \A r \in Requests : WF_vars(Step(r))
            /\ \A o \in Origins : WF_vars(Reading(o))

-----------------------------------------------------------------------------
(* Properties *)

\* cloudflared is run once per origin at most, however requests interleave, are
\* cancelled or come after a failure.
OneRun == \A o \in Origins : runs[o] <= 1

\* An origin receives one token, its own.
OneTokenPerOrigin ==
    \A o \in Origins : \A s, t \in seen[o] : s = t /\ t.origin = o

\* A request fails with a context's error only when its own context is done: who
\* started the lookup may give up without failing the others.
OwnCancellation ==
    \A r \in Requests : answer[r] = Cancelled => done[r]

\* No error body handed to the caller repeats a token the session has sent.
NothingShown == \A r \in Requests : pc[r] = "idle" => shown[r] = {}

Cell == INSTANCE AccessCell WITH
          cell <- [o \in Origins |-> IF lookups[o] # Missing /\ lookups[o].done
                                     THEN lookups[o].result ELSE Nothing],
          cancelled <- done, Unset <- Nothing, MaxRuns <- MaxCalls

\* Requests that share a session behave as if each origin had one cell that is
\* filled once.
ImplementsCell == Cell!Spec

\* Every call ends.
CallsEnd == \A r \in Requests : pc[r] # "idle" ~> pc[r] = "idle"
=============================================================================
