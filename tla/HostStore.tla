----------------------------- MODULE HostStore -----------------------------
(***************************************************************************)
(* Concurrent processes of one generated CLI sharing hosts.yml.            *)
(* config.MutateHosts takes an advisory lock, loads the file, applies the  *)
(* command's closure and publishes the result: temporary file, fsync,      *)
(* rename, fsync of the directory, unlock.  A process can be cancelled     *)
(* while it waits for the lock, fail at each step, or be killed; the       *)
(* machine can lose power, which leaves what had reached the disk.         *)
(***************************************************************************)
EXTENDS HostRecords

CONSTANTS
    Procs,        \* CLI processes (a dead process's name is reused by the next)
    Commands,     \* the commands they may run
    InitialMaps,  \* what hosts.yml may hold at first: no command selects two hosts
    MaxCommands,  \* bound on commands started
    MaxCrashes,   \* bound on kills and power losses together
    Nobody,       \* the lock is free
    Torn          \* a file some of whose data never reached the disk

ASSUME HostStoreAssumption ==
    /\ Commands \subseteq Command /\ Commands # {}
    /\ InitialMaps \subseteq HostMap
    /\ \A m \in InitialMaps : \A g, h \in SelectedHosts(m) : g = h
    /\ \A c \in Commands : c.op \in {"login", "use"} => c.host # NoHost
    /\ MaxCommands \in Nat /\ MaxCrashes \in Nat
    /\ Nobody \notin Procs
    /\ Torn \notin HostMap

VARIABLES
    file,     \* the map in hosts.yml, as processes read it
    synced,   \* the data of that file has reached the disk
    disk,     \* what a power loss leaves of hosts.yml
    lock,     \* holder of hosts.yml.lock
    pc,       \* per process: where it is in its command
    cmd,      \* per process: its command, with the host it resolved
    sight,    \* per process: what it read before taking the lock
    draft,    \* per process: the map it is about to publish
    temp,     \* per process: its temporary file
    result,   \* per process: how its last command ended
    started, crashes  \* what MaxCommands and MaxCrashes bound

mapVars == <<file, synced, disk>>
procVars == <<pc, cmd, sight, draft, temp, result>>
bounds == <<started, crashes>>
vars == <<file, synced, disk, lock, pc, cmd, sight, draft, temp, result,
          started, crashes>>

\* The points of a command at which its process holds the lock.
Holding == {"locked", "mutated", "written", "flushed", "renamed", "releasing"}

Points == {"idle", "resolving", "checking", "locking"} \cup Holding

\* Types; and hosts.yml is a complete map at every instant, for the processes and
\* for what a power loss would leave: a reader never meets half a file.
TypeOK ==
    /\ file \in HostMap
    /\ synced \in BOOLEAN
    /\ disk \in HostMap
    /\ lock \in Procs \cup {Nobody}
    /\ pc \in [Procs -> Points]
    /\ cmd \in [Procs -> Command]
    /\ sight \in [Procs -> Sight]
    /\ draft \in [Procs -> HostMap]
    /\ temp \in [Procs -> {"none", "written", "flushed"}]
    /\ result \in [Procs -> {"none", "ok", "error", "killed"}]
    /\ started \in Nat /\ crashes \in Nat

Init ==
    /\ file \in InitialMaps
    /\ synced = TRUE
    /\ disk = file
    /\ lock = Nobody
    /\ pc = [p \in Procs |-> "idle"]
    /\ cmd = [p \in Procs |-> CHOOSE c \in Commands : TRUE]
    /\ sight = [p \in Procs |-> CHOOSE s \in Sight : TRUE]
    /\ draft = [p \in Procs |-> EmptyMap]
    /\ temp = [p \in Procs |-> "none"]
    /\ result = [p \in Procs |-> "none"]
    /\ started = 0 /\ crashes = 0

-----------------------------------------------------------------------------
(* Before the lock: the command resolves its host and looks at its entry.  *)

Start(p) ==
    /\ pc[p] = "idle"
    /\ started < MaxCommands
    /\ \E c \in Commands : cmd' = [cmd EXCEPT ![p] = c]
    /\ pc' = [pc EXCEPT ![p] = "resolving"]
    /\ result' = [result EXCEPT ![p] = "none"]
    /\ started' = started + 1
    /\ UNCHANGED <<mapVars, lock, sight, draft, temp, crashes>>

\* The command returns before it holds the lock.
Quit(p) ==
    /\ pc' = [pc EXCEPT ![p] = "idle"]
    /\ result' = [result EXCEPT ![p] = "error"]
    /\ UNCHANGED <<mapVars, lock, cmd, sight, draft, temp, bounds>>

\* A command other than login and use needs the host it acts on to be logged in.
Known(c, h) == c.op \in {"login", "use"} \/ file[h] # Absent

Remember(p, h) ==
    /\ cmd' = [cmd EXCEPT ![p].host = h]
    /\ sight' = [sight EXCEPT ![p] = Seen(file, cmd[p], h, sight[p])]
    /\ UNCHANGED <<mapVars, lock, draft, temp, result, bounds>>

\* No host is named, selected, compiled in or alone in the file.
Unresolved(p) ==
    /\ pc[p] = "resolving"
    /\ Target(cmd[p], file) = NoHost
    /\ Quit(p)

\* LoadHosts.  context set and unset load again in selectedHostEntry; the other
\* commands find host and entry in this one read.  A public operation goes on
\* without an entry.
Resolve(p) ==
    /\ pc[p] = "resolving"
    /\ Target(cmd[p], file) # NoHost
    /\ LET h == Target(cmd[p], file)
           rereads == cmd[p].op \in ContextOps
       IN \/ /\ ~rereads /\ ~Known(cmd[p], h)
             /\ Quit(p)
          \/ /\ rereads \/ Known(cmd[p], h) \/ cmd[p].op = "persistContext"
             /\ pc' = [pc EXCEPT ![p] = IF rereads THEN "checking" ELSE "locking"]
             /\ Remember(p, h)

Check(p) ==
    /\ pc[p] = "checking"
    /\ \/ /\ ~Known(cmd[p], cmd[p].host)
          /\ Quit(p)
       \/ /\ Known(cmd[p], cmd[p].host)
          /\ pc' = [pc EXCEPT ![p] = "locking"]
          /\ Remember(p, cmd[p].host)

\* A read fails, a prompt or a request before the update fails, or the context
\* is cancelled while TryLockContext polls for the lock.
GiveUp(p) ==
    /\ pc[p] \in {"resolving", "checking", "locking"}
    /\ Quit(p)

-----------------------------------------------------------------------------
(* MutateHosts *)

\* flock.TryLockContext.
Acquire(p) ==
    /\ pc[p] = "locking"
    /\ lock = Nobody
    /\ lock' = p
    /\ pc' = [pc EXCEPT ![p] = "locked"]
    /\ UNCHANGED <<mapVars, cmd, sight, draft, temp, result, bounds>>

\* The closure runs on the map loaded under the lock.
Apply(p) ==
    /\ pc[p] = "locked"
    /\ file # Torn
    /\ Accepts(file, cmd[p])
    /\ draft' = [draft EXCEPT ![p] = Mutate(file, cmd[p], sight[p])]
    /\ pc' = [pc EXCEPT ![p] = "mutated"]
    /\ UNCHANGED <<mapVars, lock, cmd, sight, temp, result, bounds>>

WriteTemp(p) ==
    /\ pc[p] = "mutated"
    /\ temp' = [temp EXCEPT ![p] = "written"]
    /\ pc' = [pc EXCEPT ![p] = "written"]
    /\ UNCHANGED <<mapVars, lock, cmd, sight, draft, result, bounds>>

\* tmp.Sync and tmp.Close.
SyncTemp(p) ==
    /\ pc[p] = "written"
    /\ temp' = [temp EXCEPT ![p] = "flushed"]
    /\ pc' = [pc EXCEPT ![p] = "flushed"]
    /\ UNCHANGED <<mapVars, lock, cmd, sight, draft, result, bounds>>

\* os.Rename in replaceFile: the new map is visible, and not yet durable.
Rename(p) ==
    /\ pc[p] = "flushed"
    /\ file' = draft[p]
    /\ synced' = (temp[p] = "flushed")
    /\ temp' = [temp EXCEPT ![p] = "none"]
    /\ pc' = [pc EXCEPT ![p] = "renamed"]
    /\ UNCHANGED <<disk, lock, cmd, sight, draft, result, bounds>>

\* What the disk holds once the directory entry reaches it.
OnDisk == IF synced THEN file ELSE Torn

\* replaceFile returning without dir.Sync.
SkipSyncDir(p) ==
    /\ pc[p] = "renamed"
    /\ pc' = [pc EXCEPT ![p] = "releasing"]
    /\ result' = [result EXCEPT ![p] = "ok"]
    /\ UNCHANGED <<mapVars, lock, cmd, sight, draft, temp, bounds>>

\* dir.Sync in replaceFile; MutateHosts then returns nil.
SyncDir(p) ==
    /\ pc[p] = "renamed"
    /\ disk' = OnDisk
    /\ pc' = [pc EXCEPT ![p] = "releasing"]
    /\ result' = [result EXCEPT ![p] = "ok"]
    /\ UNCHANGED <<file, synced, lock, cmd, sight, draft, temp, bounds>>

\* The load or the closure returns an error, or a file operation does: the
\* deferred os.Remove takes the temporary file away.  After the rename only the
\* sync of the directory can fail, and the new map stays published.
Fail(p) ==
    /\ pc[p] \in {"locked", "mutated", "written", "flushed", "renamed"}
    /\ temp' = [temp EXCEPT ![p] = "none"]
    /\ result' = [result EXCEPT ![p] = "error"]
    /\ pc' = [pc EXCEPT ![p] = "releasing"]
    /\ UNCHANGED <<mapVars, lock, cmd, sight, draft, bounds>>

\* The deferred Unlock; the command returns.
Release(p) ==
    /\ pc[p] = "releasing"
    /\ lock' = Nobody
    /\ pc' = [pc EXCEPT ![p] = "idle"]
    /\ UNCHANGED <<mapVars, cmd, sight, draft, temp, result, bounds>>

-----------------------------------------------------------------------------
(* The environment *)

KillKeepingLock(p) ==
    /\ pc[p] # "idle"
    /\ crashes < MaxCrashes
    /\ crashes' = crashes + 1
    /\ temp' = [temp EXCEPT ![p] = "none"]
    /\ pc' = [pc EXCEPT ![p] = "idle"]
    /\ result' = [result EXCEPT ![p] = "killed"]
    /\ UNCHANGED <<mapVars, lock, cmd, sight, draft, started>>

\* The process dies: no deferred call runs, and the kernel drops its flock.  The
\* temporary file stays in the directory under a name no other process uses.
Kill(p) ==
    /\ pc[p] # "idle"
    /\ crashes < MaxCrashes
    /\ crashes' = crashes + 1
    /\ lock' = IF lock = p THEN Nobody ELSE lock
    /\ temp' = [temp EXCEPT ![p] = "none"]
    /\ pc' = [pc EXCEPT ![p] = "idle"]
    /\ result' = [result EXCEPT ![p] = "killed"]
    /\ UNCHANGED <<mapVars, cmd, sight, draft, started>>

\* The kernel writes the directory back when it likes.
WriteBack ==
    /\ disk # OnDisk
    /\ disk' = OnDisk
    /\ UNCHANGED <<file, synced, lock, procVars, bounds>>

\* Every process dies and hosts.yml is what the disk holds.  (The temporary
\* files that reached the disk are not counted.)
PowerLoss ==
    /\ crashes < MaxCrashes
    /\ crashes' = crashes + 1
    /\ file' = disk
    /\ synced' = TRUE
    /\ lock' = Nobody
    /\ temp' = [p \in Procs |-> "none"]
    /\ pc' = [p \in Procs |-> "idle"]
    /\ result' = [p \in Procs |-> IF pc[p] = "idle" THEN result[p] ELSE "killed"]
    /\ UNCHANGED <<disk, cmd, sight, draft, started>>

-----------------------------------------------------------------------------

\* What a process does when nothing stops it.
Progress(p) ==
    \/ Unresolved(p) \/ Resolve(p) \/ Check(p)
    \/ Acquire(p) \/ Apply(p) \/ WriteTemp(p) \/ SyncTemp(p) \/ Rename(p) \/ SyncDir(p)
    \/ Release(p)

\* MutateHosts can only fail here, and does.
Refuse(p) == pc[p] = "locked" /\ (file = Torn \/ ~Accepts(file, cmd[p])) /\ Fail(p)

Next ==
    \/ \E p \in Procs : Start(p) \/ Progress(p) \/ GiveUp(p) \/ Fail(p) \/ Kill(p)
    \/ WriteBack
    \/ PowerLoss

Spec == Init /\ [][Next]_vars

\* A process that is not stopped keeps running.  TryLockContext polls without a
\* queue, so only commands that are finite in number make every one end.
FairSpec == Spec /\ \A p \in Procs : WF_vars(Progress(p) \/ Refuse(p))

-----------------------------------------------------------------------------
(* Properties *)

\* Every command takes effect at one instant on the current map, and what is
\* reported as done is durable (MutateHosts as its callers rely on it).
PhaseOf(point) ==
    CASE point = "idle" -> "idle"
      [] point = "renamed" -> "stored"
      [] point = "releasing" -> "done"
      [] OTHER -> "pending"

phase == [p \in Procs |-> PhaseOf(pc[p])]

Abstract == INSTANCE HostStoreSpec WITH hosts <- file, durable <- disk

Atomic == Abstract!Spec

\* The map a process is about to publish is its command applied to the map in
\* the file at that moment, whoever else wrote in between: no update is lost.
DraftIsCurrent ==
    \A p \in Procs :
        pc[p] \in {"mutated", "written", "flushed"} =>
            /\ lock = p
            /\ draft[p] = Mutate(file, cmd[p], sight[p])

\* At most one host is selected, in the file and in what the disk would leave.
OneSelected(m) == \A g, h \in HostNames :
    m[g] # Absent /\ m[h] # Absent /\ m[g].selected /\ m[h].selected => g = h

AtMostOneSelected == OneSelected(file) /\ OneSelected(disk)

\* Process p publishes its map in this step.
Publishes(p) == pc[p] = "flushed" /\ pc'[p] = "renamed"

HasSelection(m, h) == m[h] # Absent /\ m[h].selected

\* Another host's login, a refresh or a context command never takes the
\* selection away: only use of another host, logout, or a power loss does.
SelectionIsExplicit ==
    [][\A h \in HostNames : HasSelection(file, h) /\ ~HasSelection(file', h) =>
         \/ crashes' > crashes
         \/ \E p \in Procs : /\ Publishes(p)
                             /\ \/ cmd[p].op = "use" /\ cmd[p].host # h
                                \/ cmd[p].op = "logout" /\ cmd[p].host = h]_vars

\* A stored context value goes only when a command names it on that host, the
\* host logs out, or power is lost: a login that races a context set keeps it.
ContextsSurvive ==
    [][\A h \in HostNames, n \in CtxNames :
         /\ file[h] # Absent
         /\ file[h].ctx[n] # Unset
         /\ file'[h] = Absent \/ file'[h].ctx[n] # file[h].ctx[n]
         => \/ crashes' > crashes
            \/ \E p \in Procs :
                 /\ Publishes(p)
                 /\ cmd[p].host = h
                 /\ cmd[p].op = "logout" \/ cmd[p].ctx[n] # Unset]_vars

\* A refreshed credential is stored only over the very credential that was sent,
\* never over a login made meanwhile and never for a host that logged out.
RefreshSwaps ==
    [][\A p \in Procs : Publishes(p) /\ cmd[p].op = "refresh" =>
         LET h == cmd[p].host IN
         /\ file[h] # Absent
         /\ file' = file \/ file[h].cred = sight[p].cred]_vars

\* A caller that asks auth status for the host (as the generated skill tells it to)
\* has the next operation sent to that host.
ReportedHostIsUsed == StatusHost(file) # NoHost => OperationHost(file) = StatusHost(file)

\* Every command ends, killed lock holders or not.
CommandsEnd == \A p \in Procs : pc[p] # "idle" ~> pc[p] = "idle"
=============================================================================
