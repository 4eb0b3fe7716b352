--------------------------- MODULE HostStoreProof ---------------------------
(***************************************************************************)
(* Proofs about HostStore for any processes, hosts, commands and bounds:   *)
(* hosts.yml is a complete map at every instant, at most one host is       *)
(* selected, no update is lost, the whole implements HostStoreSpec, and    *)
(* selection, contexts and credentials change only by the commands that    *)
(* mean to change them.                                                    *)
(***************************************************************************)
EXTENDS HostStore, TLAPS

-----------------------------------------------------------------------------
(* What the commands do to a map *)

\* A host map has an entry or Absent for each host, never both.
LEMMA EntryOrAbsent ==
    ASSUME NEW m \in HostMap, NEW h \in HostNames, m[h] # Absent
    PROVE  m[h] \in Entry
BY DEF HostMap

LEMMA SelectType ==
    ASSUME NEW m \in HostMap, NEW h \in HostNames
    PROVE  Select(m, h) \in HostMap
<1>1. ASSUME NEW g \in HostNames, m[g] # Absent
      PROVE  [m[g] EXCEPT !.selected = (g = h)] \in Entry
  BY <1>1, EntryOrAbsent DEF Entry
<1>2. QED
  BY <1>1 DEF Select, HostMap

\* Selecting a host leaves at most that one selected, whatever came before.
LEMMA SelectOne ==
    ASSUME NEW m \in HostMap, NEW h \in HostNames
    PROVE  OneSelected(Select(m, h))
<1>1. ASSUME NEW g \in HostNames, m[g] # Absent
      PROVE  /\ Select(m, h)[g] = [m[g] EXCEPT !.selected = (g = h)]
             /\ Select(m, h)[g].selected = (g = h)
  BY <1>1, EntryOrAbsent DEF Select, Entry
<1>2. ASSUME NEW g \in HostNames, m[g] = Absent
      PROVE  Select(m, h)[g] = Absent
  BY <1>2 DEF Select
<1>3. QED
  BY <1>1, <1>2 DEF OneSelected

LEMMA MergeType ==
    ASSUME NEW old \in Contexts, NEW new \in Contexts
    PROVE  MergeContexts(old, new) \in Contexts /\ RemoveContexts(old, new) \in Contexts
BY DEF MergeContexts, RemoveContexts, Contexts

LEMMA LoginEntryType ==
    ASSUME NEW m \in HostMap, NEW c \in Command, c.host \in HostNames, NEW s \in Sight
    PROVE  /\ LoginEntry(m, c, s) \in Entry
           /\ LoginEntry(m, c, s).selected = (m[c.host] # Absent /\ m[c.host].selected)
<1>1. (IF m[c.host] = Absent THEN NoContexts ELSE m[c.host].ctx) \in Contexts
  BY EntryOrAbsent DEF NoContexts, Contexts, Entry
<1>2. (m[c.host] # Absent /\ m[c.host].selected) \in BOOLEAN
  OBVIOUS
<1>3. QED
  BY <1>1, <1>2, MergeType DEF LoginEntry, Entry, Command, Sight

\* The stored map of an accepted command is a host map.
LEMMA MutateType ==
    ASSUME NEW m \in HostMap, NEW c \in Command, c.host \in HostNames, NEW s \in Sight,
           Accepts(m, c)
    PROVE  Mutate(m, c, s) \in HostMap
<1>1. CASE c.op = "login"
  <2>1. [m EXCEPT ![c.host] = LoginEntry(m, c, s)] \in HostMap
    BY LoginEntryType DEF HostMap
  <2>2. QED
    BY <1>1, <2>1, SelectType DEF Mutate, Login
<1>2. ASSUME c.op # "login" PROVE m[c.host] \in Entry
  BY <1>2, EntryOrAbsent DEF Accepts
<1>3. CASE c.op = "logout"
  BY <1>3 DEF Mutate, HostMap
<1>4. CASE c.op = "use"
  BY <1>4, SelectType DEF Mutate
<1>5. CASE c.op \in {"setContext", "persistContext", "unsetContext"}
  <2>1. m[c.host] \in Entry /\ m[c.host].ctx \in Contexts /\ c.ctx \in Contexts
    BY <1>2, <1>5 DEF Entry, Command
  <2>2. /\ [m[c.host] EXCEPT !.ctx = MergeContexts(@, c.ctx)] \in Entry
        /\ [m[c.host] EXCEPT !.ctx = RemoveContexts(@, c.ctx)] \in Entry
    BY <2>1, MergeType DEF Entry
  <2>3. QED
    BY <1>5, <2>2 DEF Mutate, HostMap
<1>6. CASE c.op = "refresh"
  <2>1. [m[c.host] EXCEPT !.cred = c.cred] \in Entry
    BY <1>2, <1>6 DEF Entry, Command
  <2>2. QED
    BY <1>6, <2>1 DEF Mutate, Refresh, HostMap
<1>7. QED
  BY <1>1, <1>3, <1>4, <1>5, <1>6 DEF Command, Ops, ContextOps

\* No command makes a second host selected.
LEMMA MutateOne ==
    ASSUME NEW m \in HostMap, NEW c \in Command, c.host \in HostNames, NEW s \in Sight,
           Accepts(m, c), OneSelected(m)
    PROVE  OneSelected(Mutate(m, c, s))
<1>1. CASE c.op = "login"
  <2> DEFINE stored == [m EXCEPT ![c.host] = LoginEntry(m, c, s)]
  <2>1. stored \in HostMap
    BY LoginEntryType DEF HostMap
  <2>2. ASSUME NEW g \in HostNames, stored[g] # Absent, stored[g].selected
        PROVE  m[g] # Absent /\ m[g].selected
    <3>1. CASE g = c.host
      BY <2>2, <3>1, LoginEntryType DEF HostMap
    <3>2. CASE g # c.host
      BY <2>2, <3>2 DEF HostMap
    <3>3. QED
      BY <3>1, <3>2
  <2>3. OneSelected(stored)
    BY <2>2 DEF OneSelected
  <2>4. OneSelected(Select(stored, c.host))
    BY <2>1, SelectOne
  <2> HIDE DEF stored
  <2>5. Login(m, c, s) = stored \/ Login(m, c, s) = Select(stored, c.host)
    BY DEF Login, stored
  <2>6. QED
    BY <1>1, <2>3, <2>4, <2>5 DEF Mutate
<1>2. ASSUME c.op # "login" PROVE m[c.host] \in Entry
  BY <1>2, EntryOrAbsent DEF Accepts
<1>3. CASE c.op = "use"
  BY <1>3, SelectOne DEF Mutate
<1>4. CASE c.op \in {"logout", "setContext", "persistContext", "unsetContext", "refresh"}
  <2> DEFINE new == Mutate(m, c, s)
  <2>1. ASSUME NEW g \in HostNames, new[g] # Absent, new[g].selected
        PROVE  m[g] # Absent /\ m[g].selected
    <3>1. CASE c.op = "logout"
      BY <2>1, <3>1 DEF Mutate, HostMap
    <3>2. CASE c.op \in {"setContext", "persistContext"}
      BY <1>2, <2>1, <3>2, HostRecordsAssumption DEF Mutate, HostMap, Entry
    <3>3. CASE c.op = "unsetContext"
      BY <1>2, <2>1, <3>3, HostRecordsAssumption DEF Mutate, HostMap, Entry
    <3>4. CASE c.op = "refresh"
      BY <1>2, <2>1, <3>4, HostRecordsAssumption DEF Mutate, Refresh, HostMap, Entry
    <3>5. QED
      BY <1>4, <3>1, <3>2, <3>3, <3>4
  <2>2. QED
    BY <2>1 DEF OneSelected
<1>5. QED
  BY <1>1, <1>3, <1>4 DEF Command, Ops, ContextOps

\* Resolution finds a host of the CLI or none.
LEMMA TargetType ==
    ASSUME NEW m \in HostMap, NEW c \in Command
    PROVE  Target(c, m) \in HostNames \cup {NoHost}
<1>1. Selected(m) \in HostNames \cup {NoHost}
  <2>1. FirstSelected(m) \subseteq HostNames
    BY DEF FirstSelected, SelectedHosts, Names
  <2>2. QED
    BY <2>1 DEF Selected
<1>2. ASSUME NEW d \in HostNames \cup {NoHost}
      PROVE  ResolveConfiguredHost(m, d) \in HostNames \cup {NoHost}
  BY <1>1 DEF ResolveConfiguredHost
<1>3. ResolveLogoutHost(m) \in HostNames \cup {NoHost}
  BY DEF ResolveLogoutHost
<1>4. CodegenHost \in HostNames \cup {NoHost}
  BY HostRecordsAssumption
<1>5. QED
  BY <1>2, <1>3, <1>4 DEF Target, OperationHost, Command

-----------------------------------------------------------------------------
(* The inductive invariant *)

LockHeld == \A p \in Procs : pc[p] \in Holding => lock = p

\* A temporary file is renamed only once it is flushed, so the file always is.
Flushed == synced /\ \A p \in Procs : pc[p] = "flushed" => temp[p] = "flushed"

\* A command past its first read knows its host.
HostResolved ==
    \A p \in Procs : pc[p] \notin {"idle", "resolving"} => cmd[p].host \in HostNames

\* A closure that returned no error was accepted on the map in the file.
DraftAccepted ==
    \A p \in Procs : pc[p] \in {"mutated", "written", "flushed"} => Accepts(file, cmd[p])

IInv ==
    /\ TypeOK
    /\ LockHeld
    /\ Flushed
    /\ HostResolved
    /\ DraftAccepted
    /\ DraftIsCurrent
    /\ AtMostOneSelected

LEMMA InitIInv == Init => IInv
<1> SUFFICES ASSUME Init PROVE IInv
  OBVIOUS
<1>1. PICK c \in Commands : c = CHOOSE d \in Commands : TRUE
  BY HostStoreAssumption
<1>2. (CHOOSE d \in Commands : TRUE) \in Command
  BY <1>1, HostStoreAssumption
<1>3. PICK s \in Sight : TRUE
  <2>1. [access |-> TRUE, cred |-> c.cred] \in Sight
    BY <1>1, HostStoreAssumption DEF Command, Sight
  <2>2. QED
    BY <2>1
<1>4. (CHOOSE d \in Sight : TRUE) \in Sight
  BY <1>3
<1>5. TypeOK
  <2>1. file \in HostMap /\ disk \in HostMap
    BY HostStoreAssumption DEF Init
  <2>2. EmptyMap \in HostMap
    BY DEF EmptyMap, HostMap
  <2>3. cmd \in [Procs -> Command] /\ sight \in [Procs -> Sight]
    BY <1>2, <1>4 DEF Init
  <2>4. draft \in [Procs -> HostMap]
    BY <2>2 DEF Init
  <2>5. QED
    BY <2>1, <2>3, <2>4 DEF Init, TypeOK, Points
<1>6. OneSelected(file)
  BY HostStoreAssumption DEF Init, OneSelected, SelectedHosts, Names
<1>7. QED
  BY <1>5, <1>6 DEF Init, IInv, LockHeld, Holding, Flushed, HostResolved, DraftAccepted,
                    DraftIsCurrent, AtMostOneSelected

\* Only the lock holder is between Acquire and Release.
LEMMA OthersOutside ==
    ASSUME LockHeld, NEW p \in Procs, pc[p] \in Holding, NEW q \in Procs, q # p
    PROVE  pc[q] \notin Holding
BY DEF LockHeld

\* A step that touches neither the files nor the lock, and moves p among the
\* points before the lock, or to the end, keeps the invariant.
LEMMA OutsideStep ==
    ASSUME IInv, NEW p \in Procs, UNCHANGED <<file, synced, disk, lock, draft, temp>>,
           NEW there \in Points \ Holding, pc' = [pc EXCEPT ![p] = there],
           TypeOK', there = "idle" \/ there = "resolving" \/ cmd'[p].host \in HostNames,
           \A q \in Procs : q # p => cmd'[q] = cmd[q] /\ sight'[q] = sight[q]
    PROVE  IInv'
<1> USE DEF IInv
<1>1. \A q \in Procs : q # p => pc'[q] = pc[q]
  BY DEF TypeOK
<1>2. pc'[p] = there
  BY DEF TypeOK
<1>3. LockHeld'
  BY <1>1, <1>2 DEF LockHeld
<1>4. Flushed'
  BY <1>1, <1>2 DEF Flushed, Points, Holding
<1>5. HostResolved'
  BY <1>1, <1>2 DEF HostResolved
<1>6. DraftAccepted'
  BY <1>1, <1>2 DEF DraftAccepted, Holding
<1>7. DraftIsCurrent'
  BY <1>1, <1>2 DEF DraftIsCurrent, Holding
<1>8. AtMostOneSelected'
  BY DEF AtMostOneSelected
<1>9. QED
  BY <1>3, <1>4, <1>5, <1>6, <1>7, <1>8

LEMMA SeenType ==
    ASSUME NEW m \in HostMap, NEW c \in Command, NEW h \in HostNames, NEW s \in Sight
    PROVE  Seen(m, c, h, s) \in Sight
<1>1. (IF m[h] # Absent THEN m[h].cred ELSE s.cred) \in Creds
  BY EntryOrAbsent DEF Entry, Sight
<1>2. (IF c.access = "keep" THEN m[h] # Absent /\ m[h].access ELSE c.access = "on") \in BOOLEAN
  BY EntryOrAbsent DEF Entry
<1>3. QED
  BY <1>1, <1>2 DEF Seen, Sight

LEMMA QuitStep == ASSUME IInv, NEW p \in Procs, Quit(p) PROVE IInv'
<1>1. TypeOK'
  BY DEF IInv, TypeOK, Quit, mapVars, bounds, Points
<1>2. QED
  BY <1>1, OutsideStep DEF IInv, Quit, mapVars, bounds, Points, Holding

LEMMA RememberStep ==
    ASSUME IInv, NEW p \in Procs, NEW h \in HostNames, Remember(p, h),
           NEW there \in {"checking", "locking"}, pc' = [pc EXCEPT ![p] = there]
    PROVE  IInv'
<1>1. [cmd[p] EXCEPT !.host = h] \in Command
  BY DEF IInv, TypeOK, Command
<1>2. Seen(file, cmd[p], h, sight[p]) \in Sight
  BY SeenType DEF IInv, TypeOK
<1>3. TypeOK'
  BY <1>1, <1>2 DEF IInv, TypeOK, Remember, mapVars, bounds, Points
<1>4. cmd'[p].host = h
  BY DEF IInv, TypeOK, Command, Remember
<1>5. \A q \in Procs : q # p => cmd'[q] = cmd[q] /\ sight'[q] = sight[q]
  BY DEF IInv, TypeOK, Remember
<1>6. there \in Points \ Holding
  BY DEF Points, Holding
<1>7. QED
  BY <1>3, <1>4, <1>5, <1>6, OutsideStep DEF Remember, mapVars

LEMMA StartStep == ASSUME IInv, NEW p \in Procs, Start(p) PROVE IInv'
<1>1. PICK c \in Commands : cmd' = [cmd EXCEPT ![p] = c]
  BY DEF Start
<1>2. c \in Command
  BY HostStoreAssumption
<1>3. TypeOK'
  BY <1>1, <1>2 DEF IInv, TypeOK, Start, mapVars, Points
<1>4. \A q \in Procs : q # p => cmd'[q] = cmd[q] /\ sight'[q] = sight[q]
  BY <1>1 DEF IInv, TypeOK, Start
<1>5. QED
  BY <1>3, <1>4, OutsideStep DEF Start, mapVars, Points, Holding

LEMMA BeforeLockStep ==
    ASSUME IInv, NEW p \in Procs, Unresolved(p) \/ Resolve(p) \/ Check(p) \/ GiveUp(p)
    PROVE  IInv'
<1>1. CASE Unresolved(p)
  BY <1>1, QuitStep DEF Unresolved
<1>2. CASE Resolve(p)
  <2>1. Target(cmd[p], file) \in HostNames
    BY <1>2, TargetType DEF IInv, TypeOK, Resolve
  <2>2. QED
    BY <1>2, <2>1, QuitStep, RememberStep DEF Resolve
<1>3. CASE Check(p)
  <2>1. cmd[p].host \in HostNames
    BY <1>3 DEF IInv, HostResolved, Check
  <2>2. QED
    BY <1>3, <2>1, QuitStep, RememberStep DEF Check
<1>4. CASE GiveUp(p)
  BY <1>4, QuitStep DEF GiveUp
<1>5. QED
  BY <1>1, <1>2, <1>3, <1>4

\* A free lock has no process between Acquire and Release.
LEMMA AcquireStep == ASSUME IInv, NEW p \in Procs, Acquire(p) PROVE IInv'
<1> USE DEF IInv, Acquire, mapVars, bounds
<1>1. TypeOK'
  BY DEF TypeOK, Points, Holding
<1>2. \A q \in Procs : pc[q] \notin Holding
  BY HostStoreAssumption DEF LockHeld
<1>3. \A q \in Procs : q # p => pc'[q] = pc[q]
  BY DEF TypeOK
<1>4. LockHeld'
  BY <1>2, <1>3 DEF LockHeld
<1>5. Flushed' /\ HostResolved' /\ AtMostOneSelected'
  BY DEF TypeOK, Flushed, HostResolved, AtMostOneSelected
<1>6. DraftAccepted' /\ DraftIsCurrent'
  BY <1>2, <1>3 DEF TypeOK, DraftAccepted, DraftIsCurrent, Holding
<1>7. QED
  BY <1>1, <1>4, <1>5, <1>6

LEMMA ApplyStep == ASSUME IInv, NEW p \in Procs, Apply(p) PROVE IInv'
<1> USE DEF IInv, Apply, mapVars, bounds
<1>1. cmd[p] \in Command /\ cmd[p].host \in HostNames /\ sight[p] \in Sight /\ file \in HostMap
  BY DEF TypeOK, HostResolved
<1>2. Mutate(file, cmd[p], sight[p]) \in HostMap
  BY <1>1, MutateType
<1>3. TypeOK'
  BY <1>2 DEF TypeOK, Points, Holding
<1>4. LockHeld' /\ lock = p
  BY DEF TypeOK, LockHeld, Holding
<1>5. Flushed' /\ HostResolved' /\ AtMostOneSelected'
  BY DEF TypeOK, Flushed, HostResolved, AtMostOneSelected
<1>6. DraftAccepted' /\ DraftIsCurrent'
  BY <1>4 DEF TypeOK, DraftAccepted, DraftIsCurrent
<1>7. QED
  BY <1>3, <1>4, <1>5, <1>6

LEMMA TempStep ==
    ASSUME IInv, NEW p \in Procs, WriteTemp(p) \/ SyncTemp(p)
    PROVE  IInv'
<1> USE DEF IInv, WriteTemp, SyncTemp, mapVars, bounds
<1>1. TypeOK'
  BY DEF TypeOK, Points, Holding
<1>2. LockHeld'
  BY DEF TypeOK, LockHeld, Holding
<1>3. Flushed' /\ HostResolved' /\ AtMostOneSelected'
  BY DEF TypeOK, Flushed, HostResolved, AtMostOneSelected
<1>4. DraftAccepted' /\ DraftIsCurrent'
  BY DEF TypeOK, DraftAccepted, DraftIsCurrent
<1>5. QED
  BY <1>1, <1>2, <1>3, <1>4

\* The rename publishes the command applied to the file it replaces.
LEMMA RenameStep == ASSUME IInv, NEW p \in Procs, Rename(p) PROVE IInv'
<1> USE DEF IInv, Rename, mapVars, bounds
<1>1. /\ draft[p] = Mutate(file, cmd[p], sight[p])
      /\ cmd[p] \in Command /\ cmd[p].host \in HostNames /\ sight[p] \in Sight
      /\ Accepts(file, cmd[p])
  BY DEF TypeOK, HostResolved, DraftIsCurrent, DraftAccepted
<1>2. TypeOK'
  BY DEF TypeOK, Points, Holding
<1>3. LockHeld'
  BY DEF TypeOK, LockHeld, Holding
<1>4. \A q \in Procs : q # p => pc'[q] = pc[q] /\ pc[q] \notin Holding
  BY OthersOutside DEF TypeOK, Holding
<1>5. Flushed'
  BY <1>4 DEF TypeOK, Flushed, Holding
<1>6. HostResolved'
  BY DEF TypeOK, HostResolved
<1>7. OneSelected(file')
  BY <1>1, MutateOne DEF TypeOK, AtMostOneSelected
<1>8. AtMostOneSelected'
  BY <1>7 DEF AtMostOneSelected
<1>9. DraftAccepted' /\ DraftIsCurrent'
  BY <1>4 DEF TypeOK, DraftAccepted, DraftIsCurrent, Holding
<1>10. QED
  BY <1>2, <1>3, <1>5, <1>6, <1>8, <1>9

LEMMA SyncDirStep == ASSUME IInv, NEW p \in Procs, SyncDir(p) PROVE IInv'
<1> USE DEF IInv, SyncDir, bounds
<1>1. disk' = file
  BY DEF Flushed, OnDisk
<1>2. TypeOK'
  BY <1>1 DEF TypeOK, Points, Holding
<1>3. LockHeld'
  BY DEF TypeOK, LockHeld, Holding
<1>4. Flushed' /\ HostResolved'
  BY DEF TypeOK, Flushed, HostResolved
<1>5. AtMostOneSelected'
  BY <1>1 DEF AtMostOneSelected
<1>6. DraftAccepted' /\ DraftIsCurrent'
  BY DEF TypeOK, DraftAccepted, DraftIsCurrent
<1>7. QED
  BY <1>2, <1>3, <1>4, <1>5, <1>6

\* A process that leaves the locked section, with the lock or without it, leaves
\* the files and the other processes alone.
LEMMA LeaveStep ==
    ASSUME IInv, NEW p \in Procs, Fail(p) \/ Release(p) \/ Kill(p)
    PROVE  IInv'
<1> USE DEF IInv, Fail, Release, Kill, mapVars, bounds
<1>1. TypeOK'
  BY DEF TypeOK, Points, Holding
<1>2. \A q \in Procs : q # p => pc'[q] = pc[q] /\ temp'[q] = temp[q]
  BY DEF TypeOK
<1>3. pc'[p] \in {"idle", "releasing"}
  BY DEF TypeOK
<1>4. LockHeld'
  <2>1. CASE Fail(p)
    BY <2>1 DEF TypeOK, LockHeld, Holding
  <2>2. CASE Release(p) \/ Kill(p)
    <3>1. pc'[p] = "idle"
      BY <2>2 DEF TypeOK
    <3>2. ASSUME NEW q \in Procs, q # p, pc[q] \in Holding PROVE lock' = q
      BY <2>2, <3>2 DEF LockHeld, Holding
    <3>3. QED
      BY <1>2, <3>1, <3>2 DEF LockHeld, Holding
  <2>3. QED
    BY <2>1, <2>2
<1>5. Flushed' /\ AtMostOneSelected'
  BY <1>2, <1>3 DEF Flushed, AtMostOneSelected
<1>6. HostResolved'
  BY <1>2, <1>3 DEF TypeOK, HostResolved
<1>7. DraftAccepted'
  BY <1>2, <1>3 DEF DraftAccepted
<1>8. DraftIsCurrent'
  <2>1. ASSUME NEW q \in Procs, pc'[q] \in {"mutated", "written", "flushed"}
        PROVE  lock' = q
    BY <1>4, <2>1 DEF LockHeld, Holding
  <2>2. QED
    BY <1>2, <1>3, <2>1 DEF DraftIsCurrent
<1>9. QED
  BY <1>1, <1>4, <1>5, <1>6, <1>7, <1>8

LEMMA EnvironmentStep == ASSUME IInv, WriteBack \/ PowerLoss PROVE IInv'
<1>1. CASE WriteBack
  <2> USE DEF IInv, WriteBack, procVars, bounds
  <2>1. disk' = file
    BY <1>1 DEF Flushed, OnDisk
  <2>2. TypeOK'
    BY <1>1, <2>1 DEF TypeOK
  <2>3. AtMostOneSelected'
    BY <1>1, <2>1 DEF AtMostOneSelected
  <2>4. QED
    BY <1>1, <2>2, <2>3 DEF LockHeld, Flushed, HostResolved, DraftAccepted, DraftIsCurrent
<1>2. CASE PowerLoss
  <2> USE DEF IInv, PowerLoss
  <2>1. TypeOK'
    BY <1>2 DEF TypeOK, Points
  <2>2. AtMostOneSelected'
    BY <1>2 DEF AtMostOneSelected
  <2>3. \A p \in Procs : pc'[p] = "idle"
    BY <1>2
  <2>4. QED
    BY <1>2, <2>1, <2>2, <2>3 DEF LockHeld, Flushed, HostResolved, DraftAccepted,
                                  DraftIsCurrent, Holding
<1>3. QED
  BY <1>1, <1>2

LEMMA NextIInv == IInv /\ [Next]_vars => IInv'
<1> SUFFICES ASSUME IInv, [Next]_vars PROVE IInv'
  OBVIOUS
<1>1. ASSUME NEW p \in Procs, Start(p) \/ Progress(p) \/ GiveUp(p) \/ Fail(p) \/ Kill(p)
      PROVE  IInv'
  BY <1>1, StartStep, BeforeLockStep, AcquireStep, ApplyStep, TempStep, RenameStep,
     SyncDirStep, LeaveStep DEF Progress
<1>2. CASE UNCHANGED vars
  BY <1>2 DEF IInv, TypeOK, LockHeld, Flushed, HostResolved, DraftAccepted,
              DraftIsCurrent, AtMostOneSelected, vars
<1>3. QED
  BY <1>1, <1>2, EnvironmentStep DEF Next

-----------------------------------------------------------------------------
(* The theorems *)

\* At every instant hosts.yml, and what a power loss would leave of it, is a
\* complete map: MutateHosts never exposes or persists part of a file.
THEOREM TypeCorrect == Spec => []TypeOK
<1>1. IInv => TypeOK
  BY DEF IInv
<1>2. QED
  BY <1>1, InitIInv, NextIInv, PTL DEF Spec

\* The map a process publishes is its command applied to the file it replaces, so
\* no command run by another process in between is lost.
THEOREM NoLostUpdate == Spec => []DraftIsCurrent
<1>1. IInv => DraftIsCurrent
  BY DEF IInv
<1>2. QED
  BY <1>1, InitIInv, NextIInv, PTL DEF Spec

\* No interleaving of login, logout, use, context and refresh commands, kills and
\* power losses selects two hosts.
THEOREM SingleSelection == Spec => []AtMostOneSelected
<1>1. IInv => AtMostOneSelected
  BY DEF IInv
<1>2. QED
  BY <1>1, InitIInv, NextIInv, PTL DEF Spec

-----------------------------------------------------------------------------
(* The refinement *)

\* The abstract specification means the same maps and the same commands.
LEMMA SameRecords ==
    /\ Abstract!HostMap = HostMap /\ Abstract!Command = Command /\ Abstract!Sight = Sight
    /\ \A m, c : Abstract!Accepts(m, c) = Accepts(m, c)
    /\ \A m, c, s : Abstract!Mutate(m, c, s) = Mutate(m, c, s)
    /\ \A m, c, h, s : Abstract!Seen(m, c, h, s) = Seen(m, c, h, s)
<1>1. /\ Abstract!HostMap = HostMap /\ Abstract!Command = Command /\ Abstract!Sight = Sight
  BY DEF Abstract!HostMap, HostMap, Abstract!Entry, Entry, Abstract!Contexts, Contexts,
         Abstract!Command, Command, Abstract!Ops, Ops, Abstract!ContextOps, ContextOps,
         Abstract!Sight, Sight
<1>2. \A m, c : Abstract!Accepts(m, c) = Accepts(m, c)
  BY DEF Abstract!Accepts, Accepts
<1>3. \A m, c, h, s : Abstract!Seen(m, c, h, s) = Seen(m, c, h, s)
  BY DEF Abstract!Seen, Seen
<1>4. \A m, c, s : Abstract!Mutate(m, c, s) = Mutate(m, c, s)
  <2>1. \A m, h : Abstract!Select(m, h) = Select(m, h)
    BY DEF Abstract!Select, Select
  <2>2. \A old, new : /\ Abstract!MergeContexts(old, new) = MergeContexts(old, new)
                      /\ Abstract!RemoveContexts(old, new) = RemoveContexts(old, new)
    BY DEF Abstract!MergeContexts, MergeContexts, Abstract!RemoveContexts, RemoveContexts
  <2>3. \A m, c, s : Abstract!LoginEntry(m, c, s) = LoginEntry(m, c, s)
    BY <2>2 DEF Abstract!LoginEntry, LoginEntry, Abstract!NoContexts, NoContexts
  <2>4. \A m : Abstract!Selected(m) = Selected(m)
    BY DEF Abstract!Selected, Selected, Abstract!FirstSelected, FirstSelected,
           Abstract!SelectedHosts, SelectedHosts, Abstract!Names, Names
  <2>5. \A m, c, s : Abstract!Login(m, c, s) = Login(m, c, s)
    BY <2>1, <2>3, <2>4 DEF Abstract!Login, Login
  <2>6. \A m, c, s : Abstract!Refresh(m, c, s) = Refresh(m, c, s)
    BY DEF Abstract!Refresh, Refresh
  <2>7. QED
    BY <2>1, <2>2, <2>5, <2>6, ZenonT(60) DEF Abstract!Mutate, Mutate
<1>5. QED
  BY <1>1, <1>2, <1>3, <1>4

LEMMA PhaseValues ==
    /\ PhaseOf("idle") = "idle" /\ PhaseOf("renamed") = "stored" /\ PhaseOf("releasing") = "done"
    /\ PhaseOf("resolving") = "pending" /\ PhaseOf("checking") = "pending"
    /\ PhaseOf("locking") = "pending" /\ PhaseOf("locked") = "pending"
    /\ PhaseOf("mutated") = "pending" /\ PhaseOf("written") = "pending"
    /\ PhaseOf("flushed") = "pending"
BY DEF PhaseOf

LEMMA PhaseStep ==
    ASSUME TypeOK, NEW p \in Procs, NEW x, pc' = [pc EXCEPT ![p] = x]
    PROVE  /\ phase[p] = PhaseOf(pc[p])
           /\ phase' = [phase EXCEPT ![p] = PhaseOf(x)]
<1>1. \A q \in Procs : PhaseOf(pc[q])' = IF q = p THEN PhaseOf(x) ELSE PhaseOf(pc[q])
  BY DEF TypeOK, PhaseOf
<1>2. QED
  BY <1>1 DEF phase

\* The steps before the lock begin the command, look at the map or end it.
LEMMA BeforeLockRefines ==
    ASSUME IInv, NEW p \in Procs,
           Start(p) \/ Unresolved(p) \/ Resolve(p) \/ Check(p) \/ GiveUp(p)
    PROVE  Abstract!Next
<1> USE DEF IInv, mapVars, bounds
<1>1. CASE Start(p)
  <2>1. phase[p] = "idle" /\ phase' = [phase EXCEPT ![p] = "pending"]
    <3>1. pc[p] = "idle" /\ pc' = [pc EXCEPT ![p] = "resolving"]
      BY <1>1 DEF Start
    <3>2. phase[p] = PhaseOf(pc[p]) /\ phase' = [phase EXCEPT ![p] = PhaseOf("resolving")]
      BY <3>1, PhaseStep
    <3>3. QED
      BY <3>1, <3>2, PhaseValues
  <2>2. \E c \in Abstract!Command : cmd' = [cmd EXCEPT ![p] = c]
    BY <1>1, SameRecords, HostStoreAssumption DEF Start
  <2>3. QED
    BY <1>1, <2>1, <2>2 DEF Start, Abstract!Begin, Abstract!Next
<1>2. ASSUME Quit(p), pc[p] \in {"resolving", "checking", "locking"}
      PROVE  Abstract!Next
  <2>1. phase[p] = "pending" /\ phase' = [phase EXCEPT ![p] = "idle"]
    <3>1. pc' = [pc EXCEPT ![p] = "idle"]
      BY <1>2 DEF Quit
    <3>2. phase[p] = PhaseOf(pc[p]) /\ phase' = [phase EXCEPT ![p] = PhaseOf("idle")]
      BY <3>1, PhaseStep
    <3>3. QED
      BY <1>2, <3>2, PhaseValues
  <2>2. QED
    BY <1>2, <2>1 DEF Quit, Abstract!Err, Abstract!Next
<1>3. ASSUME NEW h \in HostNames, Remember(p, h),
             pc[p] \in {"resolving", "checking"},
             NEW x \in {"checking", "locking"}, pc' = [pc EXCEPT ![p] = x]
      PROVE  Abstract!Next
  <2>1. phase[p] = "pending" /\ phase' = [phase EXCEPT ![p] = "pending"]
    <3>1. phase[p] = PhaseOf(pc[p]) /\ phase' = [phase EXCEPT ![p] = PhaseOf(x)]
      BY <1>3, PhaseStep
    <3>2. PhaseOf(pc[p]) = "pending" /\ PhaseOf(x) = "pending"
      BY <1>3, PhaseValues
    <3>3. QED
      BY <3>1, <3>2
  <2>2. phase' = phase
    BY <2>1 DEF phase
  <2>3. QED
    BY <1>3, <2>1, <2>2, SameRecords DEF Remember, Abstract!Look, Abstract!Next
<1>4. CASE Resolve(p)
  <2>1. Target(cmd[p], file) \in HostNames
    BY <1>4, TargetType DEF TypeOK, Resolve
  <2>2. QED
    BY <1>2, <1>3, <1>4, <2>1 DEF Resolve
<1>5. CASE Check(p)
  <2>1. cmd[p].host \in HostNames
    BY <1>5 DEF HostResolved, Check
  <2>2. QED
    BY <1>2, <1>3, <1>5, <2>1 DEF Check
<1>6. QED
  BY <1>1, <1>2, <1>4, <1>5 DEF Unresolved, GiveUp

\* Taking the lock, applying the closure and writing the temporary file are
\* invisible.
LEMMA InvisibleSteps ==
    ASSUME IInv, NEW p \in Procs, Acquire(p) \/ Apply(p) \/ WriteTemp(p) \/ SyncTemp(p)
    PROVE  UNCHANGED Abstract!absVars
<1> USE DEF IInv, mapVars, bounds
<1>1. \A q \in Procs : PhaseOf(pc[q])' = PhaseOf(pc[q])
  BY DEF TypeOK, PhaseOf, Acquire, Apply, WriteTemp, SyncTemp
<1>2. phase' = phase
  BY <1>1 DEF phase
<1>3. QED
  BY <1>2 DEF Abstract!absVars, Acquire, Apply, WriteTemp, SyncTemp

\* The rename is the instant at which the command takes effect.
LEMMA RenameRefines == ASSUME IInv, NEW p \in Procs, Rename(p) PROVE Abstract!Next
<1> USE DEF IInv, mapVars, bounds
<1>1. phase[p] = "pending" /\ phase' = [phase EXCEPT ![p] = "stored"]
  <2>1. pc[p] = "flushed" /\ pc' = [pc EXCEPT ![p] = "renamed"]
    BY DEF Rename
  <2>2. phase[p] = PhaseOf(pc[p]) /\ phase' = [phase EXCEPT ![p] = PhaseOf("renamed")]
    BY <2>1, PhaseStep
  <2>3. QED
    BY <2>1, <2>2, PhaseValues
<1>2. cmd[p].host \in HostNames /\ Accepts(file, cmd[p])
      /\ file' = Mutate(file, cmd[p], sight[p])
  BY DEF Rename, HostResolved, DraftAccepted, DraftIsCurrent
<1>3. Abstract!Commit(p)
  BY <1>1, <1>2, SameRecords DEF Rename, Abstract!Commit
<1>4. QED
  BY <1>3 DEF Abstract!Next

\* Success is reported of a durable map, errors and deaths change nothing.
LEMMA EndRefines ==
    ASSUME IInv, NEW p \in Procs, SyncDir(p) \/ Fail(p) \/ Release(p) \/ Kill(p)
    PROVE  Abstract!Next
<1> USE DEF IInv, mapVars, bounds
<1>1. CASE SyncDir(p)
  <2>1. phase[p] = "stored" /\ phase' = [phase EXCEPT ![p] = "done"]
    <3>1. pc[p] = "renamed" /\ pc' = [pc EXCEPT ![p] = "releasing"]
      BY <1>1 DEF SyncDir
    <3>2. phase[p] = PhaseOf(pc[p]) /\ phase' = [phase EXCEPT ![p] = PhaseOf("releasing")]
      BY <3>1, PhaseStep
    <3>3. QED
      BY <3>1, <3>2, PhaseValues
  <2>2. disk' = file
    BY <1>1 DEF SyncDir, Flushed, OnDisk
  <2>3. QED
    BY <1>1, <2>1, <2>2 DEF SyncDir, Abstract!Succeed, Abstract!Next
<1>2. CASE Fail(p)
  <2>1. phase[p] \in {"pending", "stored"} /\ phase' = [phase EXCEPT ![p] = "done"]
    <3>1. /\ pc[p] \in {"locked", "mutated", "written", "flushed", "renamed"}
          /\ pc' = [pc EXCEPT ![p] = "releasing"]
      BY <1>2 DEF Fail
    <3>2. phase[p] = PhaseOf(pc[p]) /\ phase' = [phase EXCEPT ![p] = PhaseOf("releasing")]
      BY <3>1, PhaseStep
    <3>3. QED
      BY <3>1, <3>2, PhaseValues
  <2>2. QED
    BY <1>2, <2>1 DEF Fail, Abstract!Err, Abstract!Next
<1>3. CASE Release(p)
  <2>1. phase[p] = "done" /\ phase' = [phase EXCEPT ![p] = "idle"]
    <3>1. pc[p] = "releasing" /\ pc' = [pc EXCEPT ![p] = "idle"]
      BY <1>3 DEF Release
    <3>2. phase[p] = PhaseOf(pc[p]) /\ phase' = [phase EXCEPT ![p] = PhaseOf("idle")]
      BY <3>1, PhaseStep
    <3>3. QED
      BY <3>1, <3>2, PhaseValues
  <2>2. QED
    BY <1>3, <2>1 DEF Release, Abstract!Return, Abstract!Next
<1>4. CASE Kill(p)
  <2>1. phase[p] # "idle" /\ phase' = [phase EXCEPT ![p] = "idle"]
    <3>1. pc[p] \in Points \ {"idle"} /\ pc' = [pc EXCEPT ![p] = "idle"]
      BY <1>4 DEF Kill, TypeOK
    <3>2. PhaseOf(pc[p]) # "idle"
      BY <3>1, PhaseValues DEF Points, Holding
    <3>3. phase[p] = PhaseOf(pc[p]) /\ phase' = [phase EXCEPT ![p] = PhaseOf("idle")]
      BY <3>1, PhaseStep
    <3>4. QED
      BY <3>2, <3>3, PhaseValues
  <2>2. QED
    BY <1>4, <2>1 DEF Kill, Abstract!Die, Abstract!Next
<1>5. QED
  BY <1>1, <1>2, <1>3, <1>4

LEMMA EnvironmentRefines == ASSUME IInv, WriteBack \/ PowerLoss PROVE Abstract!Next
<1> USE DEF IInv
<1>1. CASE WriteBack
  <2>1. phase' = phase /\ disk' = file
    BY <1>1 DEF WriteBack, procVars, phase, PhaseOf, Flushed, OnDisk
  <2>2. QED
    BY <1>1, <2>1 DEF WriteBack, procVars, bounds, Abstract!WriteBack, Abstract!Next
<1>2. CASE PowerLoss
  <2>1. \A p \in Procs : pc[p] = "idle" <=> phase[p] = "idle"
    BY DEF phase, PhaseOf
  <2>2. phase' = [p \in Procs |-> "idle"]
    BY <1>2 DEF PowerLoss, phase, PhaseOf
  <2>3. result' = [p \in Procs |-> IF phase[p] = "idle" THEN result[p] ELSE "killed"]
    BY <1>2, <2>1 DEF PowerLoss
  <2>4. QED
    BY <1>2, <2>2, <2>3 DEF PowerLoss, Abstract!PowerLoss, Abstract!Next
<1>3. QED
  BY <1>1, <1>2

\* Every command of every process takes effect at one instant on the current map,
\* or not at all, and what it reports as stored is durable.
THEOREM ImplementsAtomicStore == Spec => Atomic
<1>1. Init => Abstract!Init
  <2> SUFFICES ASSUME Init PROVE Abstract!Init
    OBVIOUS
  <2>1. phase = [p \in Procs |-> "idle"]
    BY DEF Init, phase, PhaseOf
  <2>2. TypeOK
    BY InitIInv DEF IInv
  <2>3. QED
    BY <2>1, <2>2, SameRecords DEF Init, TypeOK, Abstract!Init
<1>2. IInv /\ [Next]_vars => [Abstract!Next]_(Abstract!absVars)
  <2> SUFFICES ASSUME IInv, [Next]_vars PROVE [Abstract!Next]_(Abstract!absVars)
    OBVIOUS
  <2>1. CASE UNCHANGED vars
    BY <2>1 DEF vars, Abstract!absVars, phase
  <2>2. CASE Next
    BY <2>2, BeforeLockRefines, InvisibleSteps, RenameRefines, EndRefines,
       EnvironmentRefines DEF Next, Progress
  <2>3. QED
    BY <2>1, <2>2
<1>3. QED
  BY <1>1, <1>2, InitIInv, NextIInv, PTL DEF Spec, Atomic, Abstract!Spec

-----------------------------------------------------------------------------
(* What a command keeps of the map it finds *)

\* What a command leaves of the entry of host h, if it accepts the map.
LEMMA MutateEntry ==
    ASSUME NEW m \in HostMap, NEW c \in Command, c.host \in HostNames, NEW s \in Sight,
           Accepts(m, c), NEW h \in HostNames, m[h] # Absent,
           c.op \notin {"login", "use"}, ~(c.op = "logout" /\ c.host = h)
    PROVE  /\ Mutate(m, c, s)[h] \in Entry
           /\ Mutate(m, c, s)[h].selected = m[h].selected
           /\ \A n \in CtxNames : \/ Mutate(m, c, s)[h].ctx[n] = m[h].ctx[n]
                                  \/ c.host = h /\ c.ctx[n] # Unset
<1>1. m[h] \in Entry
  BY EntryOrAbsent
<1>2. CASE c.host # h
  <2>1. Mutate(m, c, s)[h] = m[h]
    BY <1>2 DEF Mutate, Refresh, HostMap, Command, Ops, ContextOps
  <2>2. QED
    BY <1>1, <2>1
<1>3. CASE c.host = h /\ c.op \in {"setContext", "persistContext"}
  <2> DEFINE new == MergeContexts(m[h].ctx, c.ctx)
  <2>1. Mutate(m, c, s)[h] = [m[h] EXCEPT !.ctx = new]
    BY <1>3 DEF Mutate, HostMap
  <2>2. new \in Contexts /\ \A n \in CtxNames : new[n] = m[h].ctx[n] \/ c.ctx[n] # Unset
    BY <1>1, MergeType DEF MergeContexts, Entry, Command
  <2>3. QED
    BY <1>1, <1>3, <2>1, <2>2 DEF Entry
<1>4. CASE c.host = h /\ c.op = "unsetContext"
  <2> DEFINE new == RemoveContexts(m[h].ctx, c.ctx)
  <2>1. Mutate(m, c, s)[h] = [m[h] EXCEPT !.ctx = new]
    BY <1>4 DEF Mutate, HostMap
  <2>2. new \in Contexts /\ \A n \in CtxNames : new[n] = m[h].ctx[n] \/ c.ctx[n] # Unset
    BY <1>1, MergeType DEF RemoveContexts, Entry, Command
  <2>3. QED
    BY <1>1, <1>4, <2>1, <2>2 DEF Entry
<1>5. CASE c.host = h /\ c.op = "refresh"
  <2>1. Mutate(m, c, s)[h] = m[h] \/ Mutate(m, c, s)[h] = [m[h] EXCEPT !.cred = c.cred]
    BY <1>5 DEF Mutate, Refresh, HostMap
  <2>2. QED
    BY <1>1, <1>5, <2>1 DEF Entry, Command
<1>6. QED
  BY <1>2, <1>3, <1>4, <1>5 DEF Command, Ops, ContextOps

\* What a login leaves of the entry of a host that was logged in.
LEMMA LoginKeeps ==
    ASSUME NEW m \in HostMap, NEW c \in Command, c.host \in HostNames, NEW s \in Sight,
           NEW h \in HostNames, m[h] # Absent
    PROVE  /\ OneSelected(m) /\ m[h].selected => Login(m, c, s)[h] # Absent /\ Login(m, c, s)[h].selected
           /\ Login(m, c, s)[h] # Absent
           /\ \A n \in CtxNames : \/ Login(m, c, s)[h].ctx[n] = m[h].ctx[n]
                                  \/ c.host = h /\ c.ctx[n] # Unset
<1> DEFINE entry == LoginEntry(m, c, s)
           stored == [m EXCEPT ![c.host] = entry]
<1>1. /\ entry \in Entry
      /\ entry.selected = (m[c.host] # Absent /\ m[c.host].selected)
  BY LoginEntryType
<1>2. stored \in HostMap /\ stored[h] = IF h = c.host THEN entry ELSE m[h]
  BY <1>1 DEF HostMap
<1>3. m[h] \in Entry /\ stored[h] \in Entry
  BY <1>1, <1>2, EntryOrAbsent
<1>4. ASSUME NEW n \in CtxNames
      PROVE  stored[h].ctx[n] = m[h].ctx[n] \/ (c.host = h /\ c.ctx[n] # Unset)
  <2>1. CASE h # c.host
    BY <1>2, <2>1
  <2>2. CASE h = c.host
    <3>1. entry.ctx = MergeContexts(m[h].ctx, c.ctx)
      BY <2>2 DEF LoginEntry
    <3>2. QED
      BY <1>2, <2>2, <3>1 DEF MergeContexts
  <2>3. QED
    BY <2>1, <2>2
<1>5. /\ Select(stored, c.host)[h] \in Entry
      /\ Select(stored, c.host)[h].ctx = stored[h].ctx
  <2>1. Select(stored, c.host)[h] = [stored[h] EXCEPT !.selected = (h = c.host)]
    BY <1>3, HostRecordsAssumption DEF Select
  <2>2. QED
    BY <1>3, <2>1 DEF Entry
<1>6. ASSUME OneSelected(m), m[h].selected
      PROVE  stored[h].selected /\ Selected(stored) # NoHost
  <2>1. stored[h].selected
    BY <1>1, <1>2, <1>6
  <2>2. ASSUME NEW g \in HostNames, stored[g] # Absent, stored[g].selected
        PROVE  m[g] # Absent /\ m[g].selected
    BY <1>1, <2>2 DEF HostMap
  <2>3. SelectedHosts(stored) = {h}
    BY <1>3, <1>6, <2>1, <2>2, HostRecordsAssumption DEF SelectedHosts, Names, OneSelected
  <2>4. FirstSelected(stored) = {h}
    <3>1. FirstSelected(stored) = {k \in {h} : \A g \in {h} : k <= g}
      BY <2>3 DEF FirstSelected
    <3>2. h <= h
      BY HostRecordsAssumption
    <3>3. QED
      BY <3>1, <3>2
  <2>5. QED
    BY <2>1, <2>4, HostRecordsAssumption DEF Selected
<1>7. Login(m, c, s) = stored \/ (Selected(stored) = NoHost /\ Login(m, c, s) = Select(stored, c.host))
  BY DEF Login
<1>8. \A n \in CtxNames : \/ Login(m, c, s)[h].ctx[n] = m[h].ctx[n]
                          \/ c.host = h /\ c.ctx[n] # Unset
  BY <1>4, <1>5, <1>7
<1>9. Login(m, c, s)[h] # Absent
  BY <1>3, <1>5, <1>7, HostRecordsAssumption
<1>10. QED
  BY <1>6, <1>7, <1>8, <1>9

LEMMA SelectKeeps ==
    ASSUME NEW m \in HostMap, NEW h \in HostNames, NEW g \in HostNames, m[g] # Absent
    PROVE  /\ Select(m, h)[g] \in Entry
           /\ Select(m, h)[g].ctx = m[g].ctx
           /\ Select(m, h)[g].selected = (g = h)
<1>1. m[g] \in Entry
  BY EntryOrAbsent
<1>2. Select(m, h)[g] = [m[g] EXCEPT !.selected = (g = h)]
  BY DEF Select
<1>3. QED
  BY <1>1, <1>2 DEF Entry

-----------------------------------------------------------------------------
(* What a step may never do to the stored entries *)

\* Only a rename and a power loss change what the processes read, and a rename
\* installs the command's map.
LEMMA OnlyCommandsWrite ==
    ASSUME IInv, [Next]_vars, file' # file
    PROVE  \/ crashes' > crashes
           \/ \E p \in Procs : /\ Publishes(p)
                               /\ cmd[p] \in Command /\ cmd[p].host \in HostNames
                               /\ Accepts(file, cmd[p])
                               /\ file' = Mutate(file, cmd[p], sight[p])
<1> USE DEF IInv, mapVars, procVars, bounds
<1>1. CASE UNCHANGED vars
  BY <1>1 DEF vars
<1>2. CASE PowerLoss
  BY <1>2 DEF PowerLoss, TypeOK
<1>3. ASSUME NEW p \in Procs, Rename(p)
      PROVE  /\ Publishes(p)
             /\ cmd[p] \in Command /\ cmd[p].host \in HostNames
             /\ Accepts(file, cmd[p])
             /\ file' = Mutate(file, cmd[p], sight[p])
  BY <1>3 DEF Rename, Publishes, TypeOK, HostResolved, DraftAccepted, DraftIsCurrent
<1>4. QED
  BY <1>1, <1>2, <1>3 DEF Next, Progress, Start, Unresolved, Resolve, Check, Quit, Remember,
     GiveUp, Acquire, Apply, WriteTemp, SyncTemp, SyncDir, Fail, Release, Kill, WriteBack

\* The credential of a refresh is stored only over the one that was sent, whatever
\* logins, logouts and refreshes other processes make meanwhile.
THEOREM RefreshIsCompareAndSwap == Spec => RefreshSwaps
<1>1. ASSUME IInv, [Next]_vars, NEW p \in Procs, Publishes(p), cmd[p].op = "refresh"
      PROVE  /\ file[cmd[p].host] # Absent
             /\ file' = file \/ file[cmd[p].host].cred = sight[p].cred
  <2>1. Rename(p)
    <3>1. pc[p] = "flushed" /\ pc'[p] = "renamed"
      BY <1>1 DEF Publishes
    <3>2. ASSUME NEW q \in Procs, q # p, Start(q) \/ Progress(q) \/ GiveUp(q) \/ Fail(q) \/ Kill(q)
          PROVE  pc'[p] = pc[p]
      BY <3>2, <1>1 DEF IInv, TypeOK, Start, Progress, Unresolved, Resolve, Check, Quit, GiveUp,
         Acquire, Apply, WriteTemp, SyncTemp, Rename, SyncDir, Fail, Release, Kill
    <3>3. CASE UNCHANGED vars \/ WriteBack
      BY <3>1, <3>3 DEF vars, WriteBack, procVars
    <3>4. CASE PowerLoss
      BY <3>1, <3>4 DEF PowerLoss
    <3>5. CASE Start(p) \/ Progress(p) \/ GiveUp(p) \/ Fail(p) \/ Kill(p)
      BY <3>1, <3>5, <1>1 DEF IInv, TypeOK, Start, Progress, Unresolved, Resolve, Check, Quit, GiveUp,
         Acquire, Apply, WriteTemp, SyncTemp, SyncDir, Fail, Release, Kill
    <3>6. QED
      BY <1>1, <3>1, <3>2, <3>3, <3>4, <3>5 DEF Next
  <2>2. Accepts(file, cmd[p]) /\ file' = Mutate(file, cmd[p], sight[p])
    BY <1>1, <2>1 DEF IInv, Rename, DraftAccepted, DraftIsCurrent
  <2>3. QED
    BY <1>1, <2>2 DEF Accepts, Mutate, Refresh, ContextOps
<1>2. IInv /\ [Next]_vars =>
        \A p \in Procs : Publishes(p) /\ cmd[p].op = "refresh" =>
          LET h == cmd[p].host IN
          /\ file[h] # Absent
          /\ file' = file \/ file[h].cred = sight[p].cred
  BY <1>1
<1>3. QED
  BY <1>2, InitIInv, NextIInv, PTL DEF Spec, RefreshSwaps

\* No login, refresh or context command of another process takes a selection away.
THEOREM SelectionIsKept == Spec => SelectionIsExplicit
<1>1. ASSUME IInv, [Next]_vars, NEW h \in HostNames,
             HasSelection(file, h), ~HasSelection(file', h), ~(crashes' > crashes)
      PROVE  \E p \in Procs : /\ Publishes(p)
                              /\ \/ cmd[p].op = "use" /\ cmd[p].host # h
                                 \/ cmd[p].op = "logout" /\ cmd[p].host = h
  <2>1. PICK p \in Procs : /\ Publishes(p)
                           /\ cmd[p] \in Command /\ cmd[p].host \in HostNames
                           /\ Accepts(file, cmd[p])
                           /\ file' = Mutate(file, cmd[p], sight[p])
    BY <1>1, OnlyCommandsWrite
  <2>2. /\ file \in HostMap /\ file[h] # Absent /\ file[h].selected /\ OneSelected(file)
        /\ sight[p] \in Sight
    BY <1>1, <2>1 DEF IInv, TypeOK, AtMostOneSelected, HasSelection
  <2>3. CASE cmd[p].op = "login"
    <3>1. file' = Login(file, cmd[p], sight[p])
      BY <2>1, <2>3 DEF Mutate
    <3>2. HasSelection(Login(file, cmd[p], sight[p]), h)
      BY <2>1, <2>2, LoginKeeps DEF HasSelection
    <3>3. QED
      BY <1>1, <3>1, <3>2
  <2>4. CASE cmd[p].op = "use" /\ cmd[p].host = h
    <3>1. file' = Select(file, h)
      BY <2>1, <2>4 DEF Mutate
    <3>2. HasSelection(Select(file, h), h)
      <4>1. Select(file, h)[h] \in Entry /\ Select(file, h)[h].selected = (h = h)
        BY <2>2, SelectKeeps
      <4>2. QED
        BY <4>1, HostRecordsAssumption DEF HasSelection
    <3>3. QED
      BY <1>1, <3>1, <3>2
  <2>5. CASE cmd[p].op \notin {"login", "use"} /\ ~(cmd[p].op = "logout" /\ cmd[p].host = h)
    <3>1. HasSelection(Mutate(file, cmd[p], sight[p]), h)
      BY <2>1, <2>2, <2>5, MutateEntry, HostRecordsAssumption DEF HasSelection
    <3>2. QED
      BY <1>1, <2>1, <3>1
  <2>6. QED
    BY <2>1, <2>3, <2>4, <2>5
<1>2. IInv /\ [Next]_vars =>
        \A h \in HostNames : HasSelection(file, h) /\ ~HasSelection(file', h) =>
         \/ crashes' > crashes
         \/ \E p \in Procs : /\ Publishes(p)
                             /\ \/ cmd[p].op = "use" /\ cmd[p].host # h
                                \/ cmd[p].op = "logout" /\ cmd[p].host = h
  BY <1>1
<1>3. QED
  BY <1>2, InitIInv, NextIInv, PTL DEF Spec, SelectionIsExplicit

\* A login, a refresh or another host's command never loses a stored context.
THEOREM ContextsAreKept == Spec => ContextsSurvive
<1>1. ASSUME IInv, [Next]_vars, NEW h \in HostNames, NEW n \in CtxNames,
             file[h] # Absent, file[h].ctx[n] # Unset,
             file'[h] = Absent \/ file'[h].ctx[n] # file[h].ctx[n],
             ~(crashes' > crashes)
      PROVE  \E p \in Procs : /\ Publishes(p)
                              /\ cmd[p].host = h
                              /\ cmd[p].op = "logout" \/ cmd[p].ctx[n] # Unset
  <2>1. PICK p \in Procs : /\ Publishes(p)
                           /\ cmd[p] \in Command /\ cmd[p].host \in HostNames
                           /\ Accepts(file, cmd[p])
                           /\ file' = Mutate(file, cmd[p], sight[p])
    BY <1>1, OnlyCommandsWrite
  <2>2. file \in HostMap /\ sight[p] \in Sight
    BY <1>1, <2>1 DEF IInv, TypeOK
  <2> DEFINE Kept(m) == /\ m[h] # Absent
                        /\ m[h].ctx[n] = file[h].ctx[n] \/ (cmd[p].host = h /\ cmd[p].ctx[n] # Unset)
  <2>3. CASE cmd[p].op = "login"
    <3>1. file' = Login(file, cmd[p], sight[p])
      BY <2>1, <2>3 DEF Mutate
    <3>2. Kept(Login(file, cmd[p], sight[p]))
      BY <1>1, <2>1, <2>2, LoginKeeps
    <3>3. QED
      BY <1>1, <2>1, <3>1, <3>2
  <2>4. CASE cmd[p].op = "use"
    <3>1. file' = Select(file, cmd[p].host)
      BY <2>1, <2>4 DEF Mutate
    <3>2. Kept(Select(file, cmd[p].host))
      BY <1>1, <2>1, <2>2, SelectKeeps, HostRecordsAssumption
    <3>3. QED
      BY <1>1, <2>1, <3>1, <3>2
  <2>5. CASE cmd[p].op \notin {"login", "use"} /\ ~(cmd[p].op = "logout" /\ cmd[p].host = h)
    <3>1. Kept(Mutate(file, cmd[p], sight[p]))
      BY <1>1, <2>1, <2>2, <2>5, MutateEntry, HostRecordsAssumption
    <3>2. QED
      BY <1>1, <2>1, <3>1
  <2>6. QED
    BY <2>1, <2>3, <2>4, <2>5
<1>2. IInv /\ [Next]_vars =>
        \A h \in HostNames, n \in CtxNames :
         /\ file[h] # Absent
         /\ file[h].ctx[n] # Unset
         /\ file'[h] = Absent \/ file'[h].ctx[n] # file[h].ctx[n]
         => \/ crashes' > crashes
            \/ \E p \in Procs :
                 /\ Publishes(p)
                 /\ cmd[p].host = h
                 /\ cmd[p].op = "logout" \/ cmd[p].ctx[n] # Unset
  BY <1>1
<1>3. QED
  BY <1>2, InitIInv, NextIInv, PTL DEF Spec, ContextsSurvive
=============================================================================
