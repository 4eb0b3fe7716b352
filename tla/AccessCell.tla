----------------------------- MODULE AccessCell -----------------------------
(***************************************************************************)
(* What the Cloudflare Access session of a command promises the requests   *)
(* that share it: per origin a cell that is filled once, and every request *)
(* gets the content of the cell of its origin, unless it is cancelled      *)
(* itself or the token has expired by then.                                *)
(***************************************************************************)
EXTENDS Integers

CONSTANTS Requests, Origins, MaxClock, MaxRuns,
          Unset,      \* the cell has not been filled
          Failed,     \* the lookup failed
          Cancelled,  \* a context's own error
          Expired,    \* the token had expired
          NoAnswer    \* the request has not been answered

\* A token, by the origin and the run of cloudflared that brought it.
Token == [origin : Origins, run : 1 .. MaxRuns, expires : 1 .. MaxClock + 1]

VARIABLES
    clock,      \* Unix time
    cell,       \* per origin: unset, a token of that origin, or a failure
    origin,     \* per request: where it goes
    cancelled,  \* per request: its context is done
    answer      \* per request: what it got

vars == <<clock, cell, origin, cancelled, answer>>

Init ==
    /\ clock = 0
    /\ cell = [o \in Origins |-> Unset]
    /\ origin \in [Requests -> Origins]
    /\ cancelled = [r \in Requests |-> FALSE]
    /\ answer = [r \in Requests |-> NoAnswer]

\* A new call of request r, with a context of its own.
Ask(r) ==
    /\ \E o \in Origins : origin' = [origin EXCEPT ![r] = o]
    /\ cancelled' = [cancelled EXCEPT ![r] = FALSE]
    /\ answer' = [answer EXCEPT ![r] = NoAnswer]
    /\ UNCHANGED <<clock, cell>>

Fill(o) ==
    /\ cell[o] = Unset
    /\ \E c \in {t \in Token : t.origin = o} \cup {Failed} : cell' = [cell EXCEPT ![o] = c]
    /\ UNCHANGED <<clock, origin, cancelled, answer>>

Reply(r) ==
    /\ answer[r] = NoAnswer
    /\ \/ cancelled[r] /\ answer' = [answer EXCEPT ![r] = Cancelled]
       \/ cell[origin[r]] # Unset /\ answer' = [answer EXCEPT ![r] = cell[origin[r]]]
       \/ /\ cell[origin[r]] \in Token /\ cell[origin[r]].expires <= clock
          /\ answer' = [answer EXCEPT ![r] = Expired]
    /\ UNCHANGED <<clock, cell, origin, cancelled>>

Cancel(r) ==
    /\ cancelled' = [cancelled EXCEPT ![r] = TRUE]
    /\ UNCHANGED <<clock, cell, origin, answer>>

Tick == clock' = clock + 1 /\ UNCHANGED <<cell, origin, cancelled, answer>>

Next ==
    \/ \E r \in Requests : Ask(r) \/ Reply(r) \/ Cancel(r)
    \/ \E o \in Origins : Fill(o)
    \/ Tick

Spec == Init /\ [][Next]_vars
=============================================================================
