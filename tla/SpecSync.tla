------------------------------ MODULE SpecSync ------------------------------
(***************************************************************************)
(* How `lathe specsync`, `lathe codegen` and `lathe bootstrap` share one   *)
(* cache root (internal/specsync; internal/lathecmd: generate.go).  A sync *)
(* clones each pinned repository once, copies the specs of each source     *)
(* into a directory and records their revision there; codegen checks the   *)
(* record and reads the specs.  Several of them run at once, and each may  *)
(* stop anywhere.  Proto sources are left out: their staging and protoc.   *)
(***************************************************************************)
EXTENDS Integers

CONSTANTS
    Procs,        \* runs of lathe
    SourceCount,  \* sources in sources.yaml, numbered in the order of their names
    FileCount,    \* files of a source, numbered in the order they are listed
    Repos, Tags,
    FixedRefs,    \* refs that are commit ids
    Address,      \* per repository: its address without credentials (PublicRepoURL)
    NoAddress,    \* the address left out for a path of the filesystem
    Revisions,    \* commit ids
    Local,        \* the local_path of a source that has one
    Working,      \* what the working tree behind Local holds
    NoSHA,        \* the resolved_sha of a local source
    Configs,      \* contents of sources.yaml: per source, a ref or Local
    Missing,      \* no such file, or no such checkout
    Torn,         \* a file that is created but not yet written
    MaxCommands,  \* bound on commands started
    MaxMoves,     \* bound on tags moved upstream
    MaxStops      \* bound on errors and kills together

Sources == 1 .. SourceCount

Files == 1 .. FileCount

Ref == [repo : Repos, tag : Tags]

Pin == Ref \cup {Local}

Content == Revisions \cup {Working}

\* sync-state.yaml; source_kind is told by the kind of from.
State == [from : Tags \cup {Local}, address : {Address[r] : r \in Repos} \cup {NoAddress},
          sha : Revisions \cup {NoSHA}]

ASSUME SpecSyncAssumption ==
    /\ SourceCount \in Nat \ {0} /\ FileCount \in Nat \ {0}
    /\ FixedRefs \subseteq Ref /\ Configs \subseteq [Sources -> Pin]
    /\ Local \notin Tags \cup Ref
    /\ {Missing, Torn} \cap (Content \cup State) = {} /\ Missing # Torn
    /\ NoSHA \notin Revisions /\ Working \notin Revisions
    \* Addresses that differ in credentials alone are one repository.
    /\ \A a, b \in Repos : Address[a] = Address[b] /\ Address[a] # NoAddress => a = b
    /\ MaxCommands \in Nat /\ MaxMoves \in Nat /\ MaxStops \in Nat

VARIABLES
    remote,     \* per ref: the revision it has upstream
    checkout,   \* per ref: the revision of the checkout published for it
    files,      \* per source: the specs in its sync directory
    state,      \* per source: its sync-state.yaml
    proc,       \* per process: its place, arguments and local variables
    commands, moves, stops,
    ever,       \* history, per ref: revisions it has had
    disturbed   \* history, per source: its directory has been used by a sync and by
                \* another command at once

upstream == <<remote, ever, moves>>
directories == <<files, state>>
vars == <<upstream, checkout, directories, proc, commands, stops, disturbed>>

Syncing == {"clearing", "looking", "cloning", "publishing", "comparing",
            "copying", "writing", "recording", "saving"}

Generating == {"verifying", "loading", "parsing", "parsed", "rejected"}

Process == [
    pc : Syncing \cup Generating,
    command : {"specsync", "codegen", "bootstrap"},
    config : Configs,                                 \* the sources.yaml it has read
    first : Sources, last : Sources,                  \* sources the command is for
    source : Sources,                                 \* the source at hand
    known : [Ref -> Revisions \cup {Missing}],        \* the checkouts map of Sync
    clone : Revisions \cup {Missing},                 \* the revision of its temporary clone
    sha : Revisions \cup {NoSHA},                     \* what ensureRepo has returned
    done : 0 .. FileCount,                            \* files of the source copied or read
    state : State \cup {Missing, Torn},               \* what LoadState has returned
    read : [Files -> Content \cup {Missing, Torn}],   \* the specs codegen has read
    during : [Ref -> SUBSET Revisions]]               \* history: what refs were since it began

ASSUME NoProcess == Missing \notin Process

TypeOK ==
    /\ remote \in [Ref -> Revisions]
    /\ checkout \in [Ref -> Revisions \cup {Missing}]
    /\ files \in [Sources -> [Files -> Content \cup {Missing, Torn}]]
    /\ state \in [Sources -> State \cup {Missing, Torn}]
    /\ proc \in [Procs -> Process \cup {Missing}]
    /\ commands \in 0 .. MaxCommands /\ moves \in 0 .. MaxMoves /\ stops \in 0 .. MaxStops
    /\ ever \in [Ref -> SUBSET Revisions]
    /\ disturbed \in [Sources -> BOOLEAN]

NothingRead == [f \in Files |-> Missing]

Init ==
    /\ remote \in [Ref -> Revisions]
    /\ checkout = [r \in Ref |-> Missing]
    /\ files = [s \in Sources |-> NothingRead]
    /\ state = [s \in Sources |-> Missing]
    /\ proc = [p \in Procs |-> Missing]
    /\ commands = 0 /\ moves = 0 /\ stops = 0
    /\ ever = [r \in Ref |-> {remote[r]}]
    /\ disturbed = [s \in Sources |-> FALSE]

-----------------------------------------------------------------------------
(* RunSpecsync, RunCodegen, RunBootstrap *)

Runs(p) == proc[p] # Missing

At(p, place) == Runs(p) /\ proc[p].pc = place

\* The command of p goes through source s.
Uses(p, s) == Runs(p) /\ s \in proc[p].first .. proc[p].last

Source(p) == proc[p].source

PinOf(p) == proc[p].config[proc[p].source]

Go(p, place) == proc' = [proc EXCEPT ![p].pc = place]

End(p) == proc' = [proc EXCEPT ![p] = Missing]

Begin(p) ==
    /\ ~Runs(p)
    /\ commands < MaxCommands /\ commands' = commands + 1
    /\ \E cmd \in {"specsync", "codegen", "bootstrap"}, c \in Configs :
       \E first, last \in Sources :
         /\ \/ first = 1 /\ last = SourceCount
            \/ cmd = "specsync" /\ first = last
         /\ proc' = [proc EXCEPT ![p] =
              [pc |-> IF cmd = "codegen" THEN "verifying" ELSE "clearing",
               command |-> cmd, config |-> c,
               first |-> first, last |-> last, source |-> first,
               known |-> [r \in Ref |-> Missing], clone |-> Missing, sha |-> NoSHA,
               done |-> 0, state |-> Missing, read |-> NothingRead,
               during |-> [r \in Ref |-> {remote[r]}]]]
         /\ disturbed' = [s \in Sources |->
              \/ disturbed[s]
              \/ /\ s \in first .. last
                 /\ \E q \in Procs : Uses(q, s) /\ ~(cmd = "codegen" /\ proc[q].command = "codegen")]
    /\ UNCHANGED <<upstream, checkout, directories, stops>>

\* An error of the filesystem, git or a parser, or a kill: directories stay as they are.
Stop(p) ==
    /\ Runs(p)
    /\ stops < MaxStops /\ stops' = stops + 1
    /\ End(p)
    /\ UNCHANGED <<upstream, checkout, directories, commands, disturbed>>

OutsideUnchanged == UNCHANGED <<upstream, commands, stops>>

-----------------------------------------------------------------------------
(* Sync: RemoveAll *)

\* os.RemoveAll takes the entries of the directory one by one, in any order.
RemoveEntry(p) ==
    LET s == Source(p)
    IN /\ At(p, "clearing")
       /\ \/ \E f \in Files : /\ files[s][f] # Missing
                              /\ files' = [files EXCEPT ![s][f] = Missing] /\ UNCHANGED state
          \/ /\ state[s] # Missing
             /\ state' = [state EXCEPT ![s] = Missing] /\ UNCHANGED files
       /\ UNCHANGED <<checkout, proc, disturbed>> /\ OutsideUnchanged

Empty(s) == state[s] = Missing /\ \A f \in Files : files[s][f] = Missing

\* A ref that this sync has resolved for another source is not looked at again.
Cleared(p) ==
    LET s == Source(p)
    IN /\ At(p, "clearing") /\ Empty(s)
       /\ disturbed' = [disturbed EXCEPT ![s] =
                          @ /\ \E q \in Procs \ {p} : Uses(q, s)]
       /\ \/ PinOf(p) = Local /\ proc' = [proc EXCEPT ![p].pc = "copying", ![p].sha = NoSHA]
          \/ /\ PinOf(p) # Local /\ proc[p].known[PinOf(p)] # Missing
             /\ proc' = [proc EXCEPT ![p].pc = "copying", ![p].sha = proc[p].known[PinOf(p)]]
          \/ /\ PinOf(p) # Local /\ proc[p].known[PinOf(p)] = Missing
             /\ Go(p, "looking")
       /\ UNCHANGED <<checkout, directories>> /\ OutsideUnchanged

-----------------------------------------------------------------------------
(* ensureRepo *)

\* ensureRepo returns r, which Sync keeps for other sources with the same ref.
Ensured(p, r) ==
    proc' = [proc EXCEPT ![p].pc = "copying", ![p].clone = Missing, ![p].sha = r,
                         ![p].known[PinOf(p)] = r]

\* The stat of .git.
Look(p) ==
    /\ At(p, "looking")
    /\ Go(p, IF checkout[PinOf(p)] = Missing THEN "cloning" ELSE "comparing")
    /\ UNCHANGED <<checkout, directories, disturbed>> /\ OutsideUnchanged

\* git clone and checkout into a temporary directory.
Clone(p) ==
    /\ At(p, "cloning")
    /\ proc' = [proc EXCEPT ![p].pc = "publishing", ![p].clone = remote[PinOf(p)]]
    /\ UNCHANGED <<checkout, directories, disturbed>> /\ OutsideUnchanged

\* A clone that takes the place of another.
PublishOver(p) ==
    /\ At(p, "publishing")
    /\ checkout' = [checkout EXCEPT ![PinOf(p)] = proc[p].clone]
    /\ Ensured(p, proc[p].clone)
    /\ UNCHANGED <<directories, disturbed>> /\ OutsideUnchanged

\* The loser of the race returns the revision of its own clone.
PublishOwn(p) ==
    /\ At(p, "publishing")
    /\ checkout' = [checkout EXCEPT ![PinOf(p)] = IF @ = Missing THEN proc[p].clone ELSE @]
    /\ Ensured(p, proc[p].clone)
    /\ UNCHANGED <<directories, disturbed>> /\ OutsideUnchanged

\* The rename fails when another process has published its clone meanwhile.
Publish(p) ==
    /\ At(p, "publishing")
    /\ \/ /\ checkout[PinOf(p)] = Missing
          /\ checkout' = [checkout EXCEPT ![PinOf(p)] = proc[p].clone]
          /\ Ensured(p, proc[p].clone)
       \/ /\ checkout[PinOf(p)] # Missing
          /\ proc' = [proc EXCEPT ![p].pc = "comparing", ![p].clone = Missing]
          /\ UNCHANGED checkout
    /\ UNCHANGED <<directories, disturbed>> /\ OutsideUnchanged

\* A checkout is taken as it is.
CompareNothing(p) ==
    /\ At(p, "comparing")
    /\ Ensured(p, checkout[PinOf(p)])
    /\ UNCHANGED <<checkout, directories, disturbed>> /\ OutsideUnchanged

\* verifiedRepoSHA: the published checkout against what the ref is upstream now.
Compare(p) ==
    /\ At(p, "comparing")
    /\ \/ checkout[PinOf(p)] = remote[PinOf(p)] /\ Ensured(p, checkout[PinOf(p)])
       \/ checkout[PinOf(p)] # remote[PinOf(p)] /\ End(p)
    /\ UNCHANGED <<checkout, directories, disturbed>> /\ OutsideUnchanged

-----------------------------------------------------------------------------
(* syncFiles and SaveState *)

\* os.Create of the next file.
Create(p) ==
    /\ At(p, "copying")
    /\ files' = [files EXCEPT ![Source(p)][proc[p].done + 1] = Torn]
    /\ Go(p, "writing")
    /\ UNCHANGED <<checkout, state, disturbed>> /\ OutsideUnchanged

SpecsOf(p) == IF PinOf(p) = Local THEN Working ELSE checkout[PinOf(p)]

\* io.Copy.  A file that another process has removed stays so, and two writers of one
\* file may leave a mixture.
Write(p) ==
    LET s == Source(p)
        f == proc[p].done + 1
    IN /\ At(p, "writing")
       /\ \/ files[s][f] = Missing /\ UNCHANGED files
          \/ files[s][f] # Missing /\ files' = [files EXCEPT ![s][f] = SpecsOf(p)]
          \/ files[s][f] # Missing /\ disturbed[s] /\ files' = [files EXCEPT ![s][f] = Torn]
       /\ proc' = [proc EXCEPT ![p].done = f,
                               ![p].pc = IF f = FileCount THEN "recording" ELSE "copying"]
       /\ UNCHANGED <<checkout, state, disturbed>> /\ OutsideUnchanged

\* os.WriteFile of the state creates the file first.
Record(p) ==
    /\ At(p, "recording")
    /\ state' = [state EXCEPT ![Source(p)] = Torn]
    /\ Go(p, "saving")
    /\ UNCHANGED <<checkout, files, disturbed>> /\ OutsideUnchanged

StateOf(pin, revision) ==
    IF pin = Local
    THEN [from |-> Local, address |-> NoAddress, sha |-> NoSHA]
    ELSE [from |-> pin.tag, address |-> Address[pin.repo], sha |-> revision]

\* The next source; after the last one a bootstrap generates, and a command ends.
Advance(p) ==
    LET me == proc[p]
        syncing == me.pc = "saving"
        Goes(place, next) ==
            proc' = [proc EXCEPT ![p].pc = place, ![p].source = next, ![p].done = 0, ![p].sha = NoSHA,
                                 ![p].state = Missing, ![p].read = NothingRead]
    IN \/ me.source # me.last /\ Goes(IF syncing THEN "clearing" ELSE "verifying", me.source + 1)
       \/ me.source = me.last /\ syncing /\ me.command = "bootstrap" /\ Goes("verifying", me.first)
       \/ me.source = me.last /\ ~(syncing /\ me.command = "bootstrap") /\ End(p)

Save(p) ==
    /\ At(p, "saving")
    /\ state' = [state EXCEPT ![Source(p)] =
                   IF @ = Missing THEN Missing ELSE StateOf(PinOf(p), proc[p].sha)]
    /\ Advance(p)
    /\ UNCHANGED <<checkout, files, disturbed>> /\ OutsideUnchanged

-----------------------------------------------------------------------------
(* buildGeneratedApp *)

\* VerifyState.
Accepts(pin, st) ==
    /\ st \notin {Missing, Torn}
    /\ st.from = IF pin = Local THEN Local ELSE pin.tag
    /\ pin # Local => /\ st.address = NoAddress \/ st.address = Address[pin.repo]
                      /\ st.sha # NoSHA

Verify(p) ==
    /\ At(p, "verifying")
    /\ Go(p, IF Accepts(PinOf(p), state[Source(p)]) THEN "loading" ELSE "rejected")
    /\ UNCHANGED <<checkout, directories, disturbed>> /\ OutsideUnchanged

\* LoadState reads the file again; an empty one is read as a state without fields.
Load(p) ==
    /\ At(p, "loading") /\ state[Source(p)] # Missing
    /\ proc' = [proc EXCEPT ![p].pc = "parsing", ![p].state = state[Source(p)]]
    /\ UNCHANGED <<checkout, directories, disturbed>> /\ OutsideUnchanged

\* parseSource: a file that is not there is an error, one that is cut off may be.
Parse(p) ==
    LET f == proc[p].done + 1
    IN /\ At(p, "parsing") /\ files[Source(p)][f] # Missing
       /\ proc' = [proc EXCEPT ![p].read[f] = files[Source(p)][f], ![p].done = f,
                               ![p].pc = IF f = FileCount THEN "parsed" ELSE "parsing"]
       /\ UNCHANGED <<checkout, directories, disturbed>> /\ OutsideUnchanged

\* LoadState or parseSource finds no file, or cannot parse a part of one; or the state
\* does not match.
Refuse(p) ==
    /\ \/ At(p, "loading") /\ state[Source(p)] = Missing
       \/ At(p, "parsing") /\ files[Source(p)][proc[p].done + 1] \in {Missing, Torn}
       \/ At(p, "rejected")
    /\ End(p)
    /\ UNCHANGED <<checkout, directories, disturbed>> /\ OutsideUnchanged

\* The module is collected; after the last one the program is written.
Collect(p) ==
    /\ At(p, "parsed")
    /\ Advance(p)
    /\ UNCHANGED <<checkout, directories, disturbed>> /\ OutsideUnchanged

-----------------------------------------------------------------------------
(* Upstream *)

MoveTag ==
    /\ moves < MaxMoves /\ moves' = moves + 1
    /\ \E r \in Ref \ FixedRefs, new \in Revisions :
         /\ new # remote[r]
         /\ remote' = [remote EXCEPT ![r] = new]
         /\ ever' = [ever EXCEPT ![r] = @ \cup {new}]
         /\ proc' = [p \in Procs |->
                       IF Runs(p) THEN [proc[p] EXCEPT !.during[r] = @ \cup {new}] ELSE Missing]
    /\ UNCHANGED <<checkout, directories, commands, stops, disturbed>>

Step(p) ==
    \/ RemoveEntry(p) \/ Cleared(p) \/ Look(p) \/ Clone(p) \/ Publish(p) \/ Compare(p)
    \/ Create(p) \/ Write(p) \/ Record(p) \/ Save(p)
    \/ Verify(p) \/ Load(p) \/ Parse(p) \/ Refuse(p) \/ Collect(p)

Next == (\E p \in Procs : Begin(p) \/ Step(p) \/ Stop(p)) \/ MoveTag

Spec == Init /\ [][Next]_vars

-----------------------------------------------------------------------------
(* Properties *)

\* p copies from, or records, a checkout.
Copying(p) ==
    Runs(p) /\ proc[p].pc \in {"copying", "writing", "recording", "saving"} /\ PinOf(p) # Local

\* A published checkout is never touched again, however many processes clone the same
\* ref at once (git.go:12).
CheckoutFixed ==
    [][\A r \in Ref : checkout[r] # Missing => checkout'[r] = checkout[r]]_vars

\* A sync copies and records only a revision that its ref had upstream while the command
\* ran: a tag moved since the checkout was made stops it.
MovedTagRefused ==
    \A p \in Procs : Copying(p) => proc[p].sha \in proc[p].during[PinOf(p)]

\* What a sync is about to record is the revision of the checkout it copies from, even
\* when another process has published it.
RecordsCheckout ==
    \A p \in Procs : Copying(p) => proc[p].sha = checkout[PinOf(p)]

\* Unless a sync and another command have used the directory at once, the specs codegen
\* has read are whole and of the revision it compiles into the program as their
\* provenance, whatever stopped the syncs before it.
ProvenanceTrue ==
    \A p \in Procs : At(p, "parsed") /\ ~disturbed[Source(p)] =>
        \A f \in Files :
            proc[p].read[f] = IF PinOf(p) = Local THEN Working ELSE proc[p].state.sha

\* That revision is one the pinned ref of the configured repository has had; for a
\* repository in the filesystem, whose address is not recorded, it may be another's.
PinGenerated ==
    \A p \in Procs : At(p, "parsed") /\ PinOf(p) # Local /\ ~disturbed[Source(p)] =>
        \/ proc[p].state.sha \in ever[PinOf(p)]
        \/ proc[p].state.address = NoAddress

\* The codegen of a bootstrap accepts what its sync has left.
BootstrapAccepted ==
    \A p \in Procs : At(p, "rejected") /\ proc[p].command = "bootstrap" => disturbed[Source(p)]
=============================================================================
