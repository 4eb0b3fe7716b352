---------------------------- MODULE HostRecords ----------------------------
(***************************************************************************)
(* The contents of hosts.yml (pkg/config/hosts.go) and what each command   *)
(* of the generated CLI does to them: auth login, auth logout, use, context *)
(* set, context unset, an operation that stores a context, and the refresh *)
(* of an OAuth token.  Everything here is a function of a host map; the    *)
(* locking, the file and the processes are in HostStore.                   *)
(***************************************************************************)
EXTENDS Integers

CONSTANTS
    HostNames,   \* normalised hostnames; numbers, ordered as sort.Strings orders the names
    Creds,       \* credentials: auth type, token, refresh token and connection choices
    CtxNames,    \* names of the manifest's contexts
    CtxValues,   \* values a context can hold
    Absent,      \* what the map holds for a host that is not in it
    Unset,       \* what an entry holds for a context without a value
    NoHost,      \* no --hostname flag and no host variable
    CodegenHost  \* the default_hostname compiled into the operations, or NoHost

Contexts == [CtxNames -> CtxValues \cup {Unset}]

NoContexts == [n \in CtxNames |-> Unset]

\* HostEntry: the credential, the Cloudflare Access choice, the selection and
\* the stored context values.
Entry == [cred: Creds, access: BOOLEAN, selected: BOOLEAN, ctx: Contexts]

ASSUME HostRecordsAssumption ==
    /\ HostNames \subseteq Nat
    /\ Absent \notin Entry
    /\ Unset \notin CtxValues
    /\ NoHost \notin HostNames
    /\ CodegenHost \in HostNames \cup {NoHost}

\* Hosts.entries: a map from normalised hostnames, Absent outside its domain.
HostMap == [HostNames -> Entry \cup {Absent}]

\* A missing hosts.yml loads as an empty map.
EmptyMap == [h \in HostNames |-> Absent]

Names(m) == {h \in HostNames : m[h] # Absent}

SelectedHosts(m) == {h \in Names(m) : m[h].selected}

\* Hosts.Selected: the first name, in sorted order, whose entry is selected.
FirstSelected(m) == {h \in SelectedHosts(m) : \A g \in SelectedHosts(m) : h <= g}

Selected(m) ==
    IF FirstSelected(m) = {} THEN NoHost ELSE CHOOSE h \in FirstSelected(m) : TRUE

-----------------------------------------------------------------------------
(* Host resolution *)

\* resolveConfiguredHost: the selected host, else the compiled-in one, else the
\* only one logged in; NoHost when there is none or the choice is ambiguous.
ResolveConfiguredHost(m, default) ==
    IF Selected(m) # NoHost THEN Selected(m)
    ELSE IF default # NoHost THEN default
    ELSE IF \E h \in HostNames : Names(m) = {h} THEN CHOOSE h \in HostNames : Names(m) = {h}
    ELSE NoHost

\* auth logout without --hostname takes the only name, and never the selection.
ResolveLogoutHost(m) ==
    IF \E h \in HostNames : Names(m) = {h} THEN CHOOSE h \in HostNames : Names(m) = {h}
    ELSE NoHost

\* The host auth status reports: it resolves without the compiled-in default.
StatusHost(m) == ResolveConfiguredHost(m, NoHost)

\* The host an operation is sent to.
OperationHost(m) == ResolveConfiguredHost(m, CodegenHost)

-----------------------------------------------------------------------------
(* Commands.  ctx holds the contexts a login or a set stores, and marks    *)
(* with any value the ones an unset removes; access is the                 *)
(* --cloudflare-access flag of a login.                                    *)

ContextOps == {"setContext", "unsetContext"}

Ops == {"login", "logout", "use", "persistContext", "refresh"} \cup ContextOps

Command == [op: Ops, host: HostNames \cup {NoHost}, cred: Creds,
            access: {"keep", "on", "off"}, ctx: Contexts]

\* The host a command acts on: its --hostname or argument, else the resolution
\* of the command.  Only operations know the compiled-in default.
Target(c, m) ==
    CASE c.host # NoHost -> c.host
      [] c.op = "logout" -> ResolveLogoutHost(m)
      [] c.op \in ContextOps -> ResolveConfiguredHost(m, NoHost)
      [] OTHER -> OperationHost(m)

\* What a command keeps from its read of hosts.yml before it takes the lock: the
\* Access choice of a login and the credential a refresh sends.
Sight == [access: BOOLEAN, cred: Creds]

\* What a command keeps of host h's entry in the map it reads.
Seen(m, c, h, before) ==
    [access |-> IF c.access = "keep" THEN m[h] # Absent /\ m[h].access ELSE c.access = "on",
     cred |-> IF m[h] # Absent THEN m[h].cred ELSE before.cred]

MergeContexts(old, new) ==
    [n \in CtxNames |-> IF new[n] = Unset THEN old[n] ELSE new[n]]

RemoveContexts(old, marked) ==
    [n \in CtxNames |-> IF marked[n] = Unset THEN old[n] ELSE Unset]

\* Hosts.Select forgetting to clear the other entries.
SelectKeepingOthers(m, h) ==
    [g \in HostNames |-> IF g = h /\ m[g] # Absent
                         THEN [m[g] EXCEPT !.selected = TRUE] ELSE m[g]]

\* Hosts.Select: the entry named h becomes selected, every other one is cleared.
Select(m, h) ==
    [g \in HostNames |-> IF m[g] = Absent THEN Absent
                         ELSE [m[g] EXCEPT !.selected = (g = h)]]

\* A login that stores its entry as built, with only its own contexts.
LoginEntryFresh(m, c, sight) ==
    [cred |-> c.cred, access |-> sight.access,
     selected |-> m[c.host] # Absent /\ m[c.host].selected, ctx |-> c.ctx]

\* The entry a login stores: its own credential and Access choice, the selection
\* and the contexts of the entry it finds under the lock, its contexts over them.
LoginEntry(m, c, sight) ==
    [cred |-> c.cred, access |-> sight.access,
     selected |-> m[c.host] # Absent /\ m[c.host].selected,
     ctx |-> MergeContexts(IF m[c.host] = Absent THEN NoContexts ELSE m[c.host].ctx, c.ctx)]

Login(m, c, sight) ==
    LET stored == [m EXCEPT ![c.host] = LoginEntry(m, c, sight)]
    IN IF Selected(stored) = NoHost THEN Select(stored, c.host) ELSE stored

\* The refreshed token replaces only the credential that was sent.
Refresh(m, c, sight) ==
    IF m[c.host].cred = sight.cred THEN [m EXCEPT ![c.host].cred = c.cred] ELSE m

\* The closure each command passes to MutateHosts returns an error ...
Accepts(m, c) == c.op = "login" \/ m[c.host] # Absent

\* ... or leaves this map.
Mutate(m, c, sight) ==
    CASE c.op = "login" -> Login(m, c, sight)
      [] c.op = "logout" -> [m EXCEPT ![c.host] = Absent]
      [] c.op = "use" -> Select(m, c.host)
      [] c.op \in {"setContext", "persistContext"} -> [m EXCEPT ![c.host].ctx = MergeContexts(@, c.ctx)]
      [] c.op = "unsetContext" -> [m EXCEPT ![c.host].ctx = RemoveContexts(@, c.ctx)]
      [] c.op = "refresh" -> Refresh(m, c, sight)
=============================================================================
