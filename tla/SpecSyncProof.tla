---------------------------- MODULE SpecSyncProof ----------------------------
(***************************************************************************)
(* Proofs about SpecSync for any processes, sources, files, refs, configs  *)
(* and bounds.  The invariant says what each process may rely on in the    *)
(* directory it works in as long as nothing has disturbed it.              *)
(***************************************************************************)
EXTENDS SpecSync, TLAPS

Pinned == {"copying", "writing", "recording", "saving"}

Resolving == {"looking", "cloning", "publishing", "comparing"}

\* What the specs beside a state are.
Held(st) == IF st.from = Local THEN Working ELSE st.sha

\* Refs and checkouts.
Resolved ==
    \A r \in Ref : /\ remote[r] \in ever[r]
                   /\ checkout[r] # Missing => checkout[r] \in ever[r]

\* A state that can be read was written by a sync of a pin.
StatesWritten ==
    \A s \in Sources : state[s] \notin {Missing, Torn} =>
        \E pin \in Pin : \E r \in Revisions \cup {NoSHA} :
            /\ state[s] = StateOf(pin, r)
            /\ pin # Local => r \in ever[pin]

\* Specs beside such a state are of its revision, or are not there.
SpecsHeld ==
    \A s \in Sources : ~disturbed[s] /\ state[s] \notin {Missing, Torn} =>
        \A f \in Files : files[s][f] \in {Missing, Held(state[s])}

\* A sync shares its sources with nobody, or they are disturbed.
Alone ==
    \A p, q \in Procs : \A s \in Sources :
        p # q /\ Uses(p, s) /\ Uses(q, s) /\ ~disturbed[s] =>
            proc[p].command = "codegen" /\ proc[q].command = "codegen"

\* Where a process may be.
Placed(p) ==
    LET m == proc[p]
    IN /\ m.source \in m.first .. m.last
       /\ m.command = "codegen" => m.pc \in Generating
       /\ m.command = "specsync" => m.pc \in Syncing
       /\ m.pc \in Resolving => PinOf(p) # Local
       /\ m.pc \in Syncing \ Pinned => m.done = 0
       /\ m.pc \in {"copying", "writing", "parsing"} => m.done < FileCount
       /\ m.pc \in {"recording", "saving", "parsed"} => m.done = FileCount
       /\ m.pc \in {"verifying", "loading", "rejected"} => m.done = 0

\* What a sync knows of refs.
Knows(p) ==
    LET m == proc[p]
    IN /\ \A r \in Ref : /\ remote[r] \in m.during[r] /\ m.during[r] \subseteq ever[r]
                         /\ m.known[r] # Missing => /\ m.known[r] = checkout[r]
                                                    /\ m.known[r] \in m.during[r]
       /\ m.pc = "publishing" => m.clone \in m.during[PinOf(p)]
       /\ m.pc = "comparing" => checkout[PinOf(p)] # Missing
       /\ m.pc \in Pinned /\ PinOf(p) # Local =>
            m.sha = checkout[PinOf(p)] /\ m.sha \in m.during[PinOf(p)]

\* What a sync has left of its directory, and put in it.
Writes(p) ==
    LET m == proc[p]
        s == m.source
    IN ~disturbed[s] =>
       /\ m.pc \in Resolving => Empty(s)
       /\ m.pc \in {"copying", "writing", "recording"} => state[s] = Missing
       /\ m.pc \in Pinned => \A f \in 1 .. m.done : files[s][f] = SpecsOf(p)
       /\ m.pc = "writing" => files[s][m.done + 1] # Missing
       /\ m.pc = "saving" => state[s] = Torn

\* What codegen has accepted and read.
Reads(p) ==
    LET m == proc[p]
        s == m.source
    IN ~disturbed[s] =>
       /\ m.pc = "loading" => Accepts(PinOf(p), state[s])
       /\ m.pc \in {"parsing", "parsed"} =>
            /\ m.state = state[s] /\ Accepts(PinOf(p), m.state)
            /\ \A f \in 1 .. m.done : m.read[f] = Held(m.state)

\* Sources the sync of a command has finished.
Settled(p) ==
    LET m == proc[p]
    IN IF m.pc \in Generating THEN m.first .. m.last ELSE m.first .. m.source - 1

\* A bootstrap's sync leaves what its codegen accepts.
Leaves(p) ==
    proc[p].command = "bootstrap" =>
        /\ \A s \in Settled(p) : ~disturbed[s] => Accepts(proc[p].config[s], state[s])
        /\ ~disturbed[proc[p].source] => proc[p].pc # "rejected"

ProcessSound(p) == Placed(p) /\ Knows(p) /\ Writes(p) /\ Reads(p) /\ Leaves(p)

IInv ==
    /\ TypeOK /\ Resolved /\ StatesWritten /\ SpecsHeld /\ Alone
    /\ \A p \in Procs : Runs(p) => ProcessSound(p)

USE SpecSyncAssumption

-----------------------------------------------------------------------------
(* Processes *)

LEMMA InitIInv == Init => IInv
<1> SUFFICES ASSUME Init PROVE IInv
  OBVIOUS
<1>1. TypeOK
  BY DEF Init, TypeOK, NothingRead
<1>2. Resolved
  BY DEF Init, Resolved
<1>3. StatesWritten /\ SpecsHeld
  BY DEF Init, StatesWritten, SpecsHeld
<1>4. Alone /\ \A p \in Procs : ~Runs(p)
  BY DEF Init, Alone, Uses, Runs
<1>5. QED
  BY <1>1, <1>2, <1>3, <1>4 DEF IInv

LEMMA Distinct ==
    /\ Missing \notin Revisions /\ Missing # Working /\ Missing # Torn
    /\ Torn \notin Revisions /\ Torn # Working
    /\ NoSHA \notin Revisions
    /\ Local \notin Ref /\ Local \notin Tags
BY DEF Content

LEMMA PinType ==
    ASSUME TypeOK, NEW p \in Procs, Runs(p)
    PROVE  /\ proc[p] \in Process
           /\ Source(p) \in Sources /\ proc[p].source \in Sources
           /\ PinOf(p) \in Pin
           /\ PinOf(p) # Local => PinOf(p) \in Ref
<1>1. proc[p] \in Process
  BY DEF TypeOK, Runs
<1>2. proc[p].source \in Sources /\ proc[p].config \in [Sources -> Pin]
  BY <1>1 DEF Process
<1>3. QED
  BY <1>1, <1>2 DEF Source, PinOf, Pin

\* What an action of p does to what others rely on: checkouts stay, and p changes only
\* directories that its sync goes through.
Neutral(p) ==
    /\ UNCHANGED upstream
    /\ \A q \in Procs \ {p} : proc'[q] = proc[q]
    /\ \A r \in Ref : checkout[r] # Missing => checkout'[r] = checkout[r]
    /\ \A s \in Sources :
         /\ ~disturbed'[s] => ~disturbed[s] \/ \A q \in Procs \ {p} : ~Uses(q, s)
         /\ \/ files'[s] = files[s] /\ state'[s] = state[s]
            \/ Uses(p, s) /\ proc[p].command # "codegen"

\* What another process relies on stays.
LEMMA OthersKept ==
    ASSUME IInv, NEW p \in Procs, Neutral(p), NEW q \in Procs, q # p, Runs(q)
    PROVE  Runs(q)' /\ ProcessSound(q)'
<1> DEFINE m == proc[q]
<1>1. m \in Process /\ m.source \in Sources /\ m.first \in Sources /\ m.last \in Sources
      /\ proc'[q] = m /\ (PinOf(q) # Local => PinOf(q) \in Ref) /\ PinOf(q)' = PinOf(q)
      /\ Runs(q)'
  BY PinType DEF IInv, Neutral, Process, PinOf, Runs
<1>2. ProcessSound(q)
  BY DEF IInv
<1>3. ASSUME NEW s \in Sources, s \in m.first .. m.last, ~disturbed'[s]
      PROVE  ~disturbed[s] /\ files'[s] = files[s] /\ state'[s] = state[s]
  <2>1. Uses(q, s)
    BY <1>3 DEF Uses
  <2>2. ~disturbed[s]
    BY <1>3, <2>1 DEF Neutral
  <2>3. ~(Uses(p, s) /\ proc[p].command # "codegen")
    BY <2>1, <2>2 DEF IInv, Alone
  <2>4. QED
    BY <2>2, <2>3 DEF Neutral
<1>4. m.source \in m.first .. m.last /\ Placed(q)'
  BY <1>1, <1>2 DEF ProcessSound, Placed
<1>11. m.pc \in Pinned /\ PinOf(q) # Local => checkout[PinOf(q)] \in Revisions
  <2>1. m.during \in [Ref -> SUBSET Revisions]
    BY <1>1 DEF Process
  <2>2. QED
    BY <1>1, <1>2, <2>1 DEF ProcessSound, Knows
<1>5. Knows(q)'
  <2>1. \A r \in Ref : remote'[r] = remote[r] /\ ever'[r] = ever[r]
    BY DEF Neutral, upstream
  <2>2. \A r \in Ref : checkout[r] # Missing => checkout'[r] = checkout[r]
    BY DEF Neutral
  <2>3. Knows(q)
    BY <1>2 DEF ProcessSound
  <2>4. \A r \in Ref : m.known[r] # Missing => m.known[r] = checkout'[r]
    BY <2>2, <2>3 DEF Knows
  <2>5. m.pc = "comparing" => checkout'[PinOf(q)] # Missing
    <3>1. m.pc = "comparing" => PinOf(q) \in Ref
      BY <1>1, <1>2 DEF ProcessSound, Placed, Resolving
    <3>2. QED
      BY <2>2, <2>3, <3>1 DEF Knows
  <2>6. m.pc \in Pinned /\ PinOf(q) # Local => m.sha = checkout'[PinOf(q)]
    BY <1>1, <1>11, <2>2, <2>3, Distinct DEF Knows
  <2>7. QED
    BY <1>1, <2>1, <2>3, <2>4, <2>5, <2>6 DEF Knows
<1>6. m.pc \in Pinned => SpecsOf(q)' = SpecsOf(q)
  BY <1>1, <1>11, Distinct DEF Neutral, SpecsOf
<1>7. Writes(q)'
  <2> SUFFICES ASSUME ~disturbed'[m.source] PROVE Writes(q)'
    BY <1>1 DEF Writes
  <2>1. ~disturbed[m.source] /\ files'[m.source] = files[m.source] /\ state'[m.source] = state[m.source]
    BY <1>1, <1>3, <1>4
  <2>2. Empty(m.source)' <=> Empty(m.source)
    BY <1>1, <2>1 DEF Empty
  <2>3. QED
    BY <1>1, <1>2, <1>6, <2>1, <2>2 DEF ProcessSound, Writes
<1>8. Reads(q)'
  <2> SUFFICES ASSUME ~disturbed'[m.source] PROVE Reads(q)'
    BY <1>1 DEF Reads
  <2>1. ~disturbed[m.source] /\ state'[m.source] = state[m.source]
    BY <1>1, <1>3, <1>4
  <2>2. QED
    BY <1>1, <1>2, <2>1 DEF ProcessSound, Reads
<1>9. Leaves(q)'
  <2>1. Settled(q)' = Settled(q) /\ Settled(q) \subseteq (m.first .. m.last) \cap Sources
    BY <1>1, <1>4 DEF Settled, Sources
  <2>2. ASSUME NEW s \in Settled(q), ~disturbed'[s] PROVE ~disturbed[s] /\ state'[s] = state[s]
    BY <2>1, <2>2, <1>3
  <2>3. ~disturbed'[m.source] => ~disturbed[m.source]
    BY <1>1, <1>3, <1>4
  <2>4. QED
    BY <1>1, <1>2, <2>1, <2>2, <2>3 DEF ProcessSound, Leaves
<1>10. QED
  BY <1>1, <1>4, <1>5, <1>7, <1>8, <1>9 DEF ProcessSound

\* The command of p ends, or goes on through its sources.
GoesOn(p) ==
    \/ proc'[p] = Missing
    \/ /\ proc'[p].command = proc[p].command
       /\ proc'[p].first = proc[p].first /\ proc'[p].last = proc[p].last
       /\ ProcessSound(p)'

LEMMA StepKept ==
    ASSUME IInv, NEW p \in Procs, Runs(p), TypeOK', Neutral(p), GoesOn(p),
           Resolved', StatesWritten', SpecsHeld'
    PROVE  IInv'
<1>1. Alone'
  <2> SUFFICES ASSUME NEW a \in Procs, NEW b \in Procs, NEW s \in Sources,
                      a # b, Uses(a, s)', Uses(b, s)', ~disturbed'[s]
               PROVE  proc'[a].command = "codegen" /\ proc'[b].command = "codegen"
    BY DEF Alone
  <2>1. \A q \in Procs : Uses(q, s)' => Uses(q, s) /\ proc'[q].command = proc[q].command
    BY DEF Neutral, GoesOn, Uses, Runs
  <2>2. ~disturbed[s]
    BY <2>1 DEF Neutral
  <2>3. QED
    BY <2>1, <2>2 DEF IInv, Alone
<1>2. ASSUME NEW q \in Procs, Runs(q)' PROVE ProcessSound(q)'
  <2>1. CASE q = p
    BY <1>2, <2>1 DEF GoesOn, Runs
  <2>2. CASE q # p
    BY <1>2, <2>2, OthersKept DEF Neutral, Runs
  <2>3. QED
    BY <2>1, <2>2
<1>3. QED
  BY <1>1, <1>2 DEF IInv

\* An action that leaves directories and checkouts alone.
LEMMA LocalKept ==
    ASSUME IInv, NEW p \in Procs, Runs(p), TypeOK', GoesOn(p),
           UNCHANGED <<upstream, checkout, directories, disturbed>>,
           \A q \in Procs \ {p} : proc'[q] = proc[q]
    PROVE  IInv'
<1>1. Neutral(p)
  BY DEF Neutral, directories
<1>2. Resolved' /\ StatesWritten' /\ SpecsHeld'
  BY DEF IInv, Resolved, StatesWritten, SpecsHeld, upstream, directories
<1>3. QED
  BY <1>1, <1>2, StepKept

-----------------------------------------------------------------------------
(* Ends and errors *)

LEMMA EndKept ==
    ASSUME IInv, NEW p \in Procs, Runs(p), End(p), commands' \in 0 .. MaxCommands, stops' \in 0 .. MaxStops,
           UNCHANGED <<upstream, checkout, directories, disturbed>>
    PROVE  IInv'
<1>1. TypeOK'
  BY DEF IInv, TypeOK, End, upstream, directories
<1>2. GoesOn(p) /\ \A q \in Procs \ {p} : proc'[q] = proc[q]
  BY DEF End, GoesOn, IInv, TypeOK
<1>3. QED
  BY <1>1, <1>2, LocalKept

LEMMA StopStep == ASSUME IInv, NEW p \in Procs, Stop(p) PROVE IInv'
<1>1. Runs(p) /\ End(p) /\ stops' \in 0 .. MaxStops /\ commands' \in 0 .. MaxCommands
      /\ UNCHANGED <<upstream, checkout, directories, disturbed>>
  BY DEF Stop, IInv, TypeOK
<1>2. QED
  BY <1>1, EndKept

LEMMA RefuseStep == ASSUME IInv, NEW p \in Procs, Refuse(p) PROVE IInv'
<1>1. Runs(p) /\ End(p) /\ stops' \in 0 .. MaxStops /\ commands' \in 0 .. MaxCommands
      /\ UNCHANGED <<upstream, checkout, directories, disturbed>>
  BY DEF Refuse, At, OutsideUnchanged, IInv, TypeOK
<1>2. QED
  BY <1>1, EndKept

-----------------------------------------------------------------------------
(* ensureRepo *)

LEMMA LookStep == ASSUME IInv, NEW p \in Procs, Look(p) PROVE IInv'
<1> DEFINE m == proc[p]
<1> USE DEF At
<1>1. Runs(p) /\ m.pc = "looking" /\ m \in Process /\ ProcessSound(p)
  BY PinType DEF Look, IInv
<1>2. PICK place \in {"cloning", "comparing"} :
        /\ Go(p, place)
        /\ place = "comparing" => checkout[PinOf(p)] # Missing
  BY DEF Look
<1>3. UNCHANGED <<upstream, checkout, directories, disturbed, commands, stops>>
  BY DEF Look, OutsideUnchanged
<1>4. /\ proc'[p] = [m EXCEPT !.pc = place]
      /\ \A q \in Procs \ {p} : proc'[q] = proc[q]
      /\ proc' \in [Procs -> Process \cup {Missing}]
  BY <1>1, <1>2, ZenonT(60) DEF Go, IInv, TypeOK, Process, Syncing
<1>5. TypeOK'
  BY <1>3, <1>4 DEF IInv, TypeOK, upstream, directories
<1>6. /\ proc'[p].pc = place /\ proc'[p].source = m.source /\ PinOf(p)' = PinOf(p)
      /\ proc'[p].command = m.command /\ proc'[p].first = m.first /\ proc'[p].last = m.last
  BY <1>1, <1>4 DEF Process, PinOf
<1>7. Placed(p)'
  BY <1>1, <1>2, <1>4, <1>6 DEF ProcessSound, Placed, Process, Syncing, Generating, Resolving, Pinned
<1>8. Knows(p)'
  BY <1>1, <1>2, <1>3, <1>4, <1>6 DEF ProcessSound, Knows, Process, Pinned, upstream
<1>9. Writes(p)'
  BY <1>1, <1>2, <1>3, <1>4, <1>6 DEF ProcessSound, Writes, Process, Pinned, Resolving, directories, Empty
<1>10. Reads(p)' /\ Leaves(p)'
  BY <1>1, <1>2, <1>3, <1>4, <1>6
     DEF ProcessSound, Reads, Leaves, Settled, Process, Generating, directories
<1>11. QED
  BY <1>1, <1>3, <1>4, <1>5, <1>6, <1>7, <1>8, <1>9, <1>10, LocalKept DEF GoesOn, ProcessSound

LEMMA CloneStep == ASSUME IInv, NEW p \in Procs, Clone(p) PROVE IInv'
<1> DEFINE m == proc[p]
<1> USE DEF At
<1>1. Runs(p) /\ m.pc = "cloning" /\ m \in Process /\ ProcessSound(p)
  BY PinType DEF Clone, IInv
<1>2. PinOf(p) \in Ref /\ remote[PinOf(p)] \in Revisions /\ remote[PinOf(p)] \in m.during[PinOf(p)]
  BY <1>1, PinType DEF IInv, TypeOK, ProcessSound, Placed, Resolving, Knows
<1>3. UNCHANGED <<upstream, checkout, directories, disturbed, commands, stops>>
  BY DEF Clone, OutsideUnchanged
<1>4. /\ proc'[p] = [m EXCEPT !.pc = "publishing", !.clone = remote[PinOf(p)]]
      /\ \A q \in Procs \ {p} : proc'[q] = proc[q]
      /\ proc' \in [Procs -> Process \cup {Missing}]
  BY <1>1, <1>2, ZenonT(60) DEF Clone, IInv, TypeOK, Process, Syncing
<1>5. TypeOK'
  BY <1>3, <1>4 DEF IInv, TypeOK, upstream, directories
<1>6. /\ proc'[p].pc = "publishing" /\ proc'[p].source = m.source /\ PinOf(p)' = PinOf(p)
      /\ proc'[p].command = m.command /\ proc'[p].first = m.first /\ proc'[p].last = m.last
  BY <1>1, <1>4 DEF Process, PinOf
<1>7. Placed(p)'
  BY <1>1, <1>4, <1>6 DEF ProcessSound, Placed, Process, Syncing, Generating, Resolving, Pinned
<1>8. Knows(p)'
  BY <1>1, <1>2, <1>3, <1>4, <1>6 DEF ProcessSound, Knows, Process, Pinned, upstream
<1>9. Writes(p)'
  BY <1>1, <1>3, <1>4, <1>6 DEF ProcessSound, Writes, Process, Pinned, Resolving, directories, Empty
<1>10. Reads(p)' /\ Leaves(p)'
  BY <1>1, <1>3, <1>4, <1>6
     DEF ProcessSound, Reads, Leaves, Settled, Process, Generating, directories
<1>11. QED
  BY <1>1, <1>3, <1>4, <1>5, <1>6, <1>7, <1>8, <1>9, <1>10, LocalKept DEF GoesOn, ProcessSound

\* A sync goes on with revision r of the checkout of its ref.
LEMMA EnsuredKept ==
    ASSUME IInv, NEW p \in Procs, NEW r \in Revisions, Runs(p), proc[p].pc \in {"publishing", "comparing"},
           Ensured(p, r), r \in proc[p].during[PinOf(p)], checkout'[PinOf(p)] = r,
           \A q \in Ref : checkout[q] # Missing => checkout'[q] = checkout[q],
           checkout' \in [Ref -> Revisions \cup {Missing}], Resolved',
           UNCHANGED <<upstream, directories, disturbed, commands, stops>>
    PROVE  IInv'
<1> DEFINE m == proc[p]
<1>1. m \in Process /\ ProcessSound(p) /\ PinOf(p) \in Ref
  BY PinType DEF IInv, ProcessSound, Placed, Resolving
<1>2. /\ proc'[p] = [m EXCEPT !.pc = "copying", !.clone = Missing, !.sha = r,
                              !.known = [m.known EXCEPT ![PinOf(p)] = r]]
      /\ \A q \in Procs \ {p} : proc'[q] = proc[q]
      /\ proc' \in [Procs -> Process \cup {Missing}]
  BY <1>1, ZenonT(60) DEF Ensured, IInv, TypeOK, Process, Syncing
<1>3. TypeOK'
  BY <1>2 DEF IInv, TypeOK, upstream, directories
<1>4. /\ proc'[p].pc = "copying" /\ proc'[p].source = m.source /\ PinOf(p)' = PinOf(p)
      /\ proc'[p].command = m.command /\ proc'[p].first = m.first /\ proc'[p].last = m.last
      /\ proc'[p].done = m.done /\ proc'[p].sha = r /\ proc'[p].during = m.during
      /\ \A q \in Ref : proc'[p].known[q] = IF q = PinOf(p) THEN r ELSE m.known[q]
  BY <1>1, <1>2 DEF Process, PinOf
<1>5. m.done = 0 /\ Placed(p)'
  BY <1>1, <1>4 DEF ProcessSound, Placed, Process, Syncing, Generating, Resolving, Pinned
<1>6. Knows(p)'
  <2>1. \A q \in Ref : remote'[q] = remote[q] /\ ever'[q] = ever[q]
    BY DEF upstream
  <2>2. Knows(p)
    BY <1>1 DEF ProcessSound
  <2>3. \A q \in Ref : proc'[p].known[q] # Missing => /\ proc'[p].known[q] = checkout'[q]
                                                     /\ proc'[p].known[q] \in m.during[q]
    BY <1>4, <2>2 DEF Knows
  <2>4. QED
    BY <1>1, <1>4, <2>1, <2>2, <2>3 DEF Knows
<1>7. Writes(p)'
  BY <1>1, <1>4, <1>5 DEF ProcessSound, Writes, Pinned, Resolving, directories, Empty
<1>8. Reads(p)' /\ Leaves(p)'
  <2>1. Settled(p)' = Settled(p) /\ proc'[p].config = m.config
    BY <1>1, <1>2, <1>4 DEF Settled, Generating, Process
  <2>2. QED
    BY <1>1, <1>4, <2>1 DEF ProcessSound, Reads, Leaves, directories
<1>9. Neutral(p) /\ StatesWritten' /\ SpecsHeld'
  BY <1>2 DEF Neutral, IInv, StatesWritten, SpecsHeld, directories, upstream
<1>10. QED
  BY <1>1, <1>3, <1>4, <1>5, <1>6, <1>7, <1>8, <1>9, StepKept DEF GoesOn, ProcessSound

LEMMA PublishStep == ASSUME IInv, NEW p \in Procs, Publish(p) PROVE IInv'
<1> DEFINE m == proc[p]
<1> USE DEF At
<1>1. Runs(p) /\ m.pc = "publishing" /\ m \in Process /\ ProcessSound(p)
      /\ UNCHANGED <<upstream, directories, disturbed, commands, stops>>
  BY PinType DEF Publish, IInv, OutsideUnchanged
<1>2. PinOf(p) \in Ref /\ m.clone \in m.during[PinOf(p)] /\ m.clone \in ever[PinOf(p)] /\ m.clone \in Revisions
  BY <1>1, PinType DEF IInv, TypeOK, ProcessSound, Placed, Resolving, Knows, Process
<1>3. CASE /\ checkout[PinOf(p)] = Missing
           /\ checkout' = [checkout EXCEPT ![PinOf(p)] = m.clone]
           /\ Ensured(p, m.clone)
  <2>1. checkout' \in [Ref -> Revisions \cup {Missing}] /\ checkout'[PinOf(p)] = m.clone
        /\ \A q \in Ref : checkout[q] # Missing => checkout'[q] = checkout[q]
    BY <1>2, <1>3 DEF IInv, TypeOK
  <2>2. Resolved'
    BY <1>1, <1>2, <1>3 DEF IInv, TypeOK, Resolved, upstream
  <2>3. QED
    BY <1>1, <1>2, <1>3, <2>1, <2>2, EnsuredKept
<1>4. CASE /\ checkout[PinOf(p)] # Missing
           /\ proc' = [proc EXCEPT ![p].pc = "comparing", ![p].clone = Missing]
           /\ UNCHANGED checkout
  <2>1. /\ proc'[p] = [m EXCEPT !.pc = "comparing", !.clone = Missing]
        /\ \A q \in Procs \ {p} : proc'[q] = proc[q]
        /\ proc' \in [Procs -> Process \cup {Missing}]
    BY <1>1, <1>4, ZenonT(60) DEF IInv, TypeOK, Process, Syncing
  <2>2. TypeOK'
    BY <1>1, <1>4, <2>1 DEF IInv, TypeOK, upstream, directories
  <2>3. /\ proc'[p].pc = "comparing" /\ proc'[p].source = m.source /\ PinOf(p)' = PinOf(p)
        /\ proc'[p].command = m.command /\ proc'[p].first = m.first /\ proc'[p].last = m.last
    BY <1>1, <2>1 DEF Process, PinOf
  <2>4. Placed(p)'
    BY <1>1, <2>1, <2>3 DEF ProcessSound, Placed, Process, Syncing, Generating, Resolving, Pinned
  <2>5. Knows(p)'
    BY <1>1, <1>4, <2>1, <2>3 DEF ProcessSound, Knows, Process, Pinned, upstream
  <2>6. Writes(p)'
    BY <1>1, <2>1, <2>3 DEF ProcessSound, Writes, Process, Pinned, Resolving, directories, Empty
  <2>7. Reads(p)' /\ Leaves(p)'
    BY <1>1, <2>1, <2>3 DEF ProcessSound, Reads, Leaves, Settled, Process, Generating, directories
  <2>8. QED
    BY <1>1, <1>4, <2>1, <2>2, <2>3, <2>4, <2>5, <2>6, <2>7, LocalKept DEF GoesOn, ProcessSound
<1>5. QED
  BY <1>3, <1>4 DEF Publish

LEMMA CompareStep == ASSUME IInv, NEW p \in Procs, Compare(p) PROVE IInv'
<1> USE DEF At
<1>1. Runs(p) /\ proc[p].pc = "comparing" /\ proc[p] \in Process /\ ProcessSound(p)
      /\ UNCHANGED <<upstream, checkout, directories, disturbed, commands, stops>>
  BY PinType DEF Compare, IInv, OutsideUnchanged
<1>2. CASE checkout[PinOf(p)] = remote[PinOf(p)] /\ Ensured(p, checkout[PinOf(p)])
  <2>1. PinOf(p) \in Ref
    BY <1>1, PinType DEF IInv, ProcessSound, Placed, Resolving
  <2>2. checkout[PinOf(p)] \in Revisions /\ checkout[PinOf(p)] \in proc[p].during[PinOf(p)]
    BY <1>1, <1>2, <2>1 DEF IInv, TypeOK, ProcessSound, Knows
  <2>3. Resolved' /\ checkout' = checkout /\ checkout \in [Ref -> Revisions \cup {Missing}]
    BY <1>1 DEF IInv, TypeOK, Resolved, upstream
  <2>4. QED
    BY <1>1, <1>2, <2>2, <2>3, EnsuredKept
<1>3. CASE End(p)
  BY <1>1, <1>3, EndKept DEF IInv, TypeOK
<1>4. QED
  BY <1>2, <1>3 DEF Compare

-----------------------------------------------------------------------------
(* The sync directory *)

\* A sync uses its source, and is not a codegen.
LEMMA SyncUses ==
    ASSUME IInv, NEW p \in Procs, Runs(p), proc[p].pc \in Syncing
    PROVE  /\ proc[p] \in Process /\ ProcessSound(p)
           /\ proc[p].source \in Sources /\ Uses(p, proc[p].source) /\ proc[p].command # "codegen"
           /\ proc[p].source \notin Settled(p)
<1>1. proc[p] \in Process /\ proc[p].source \in Sources /\ ProcessSound(p)
  BY PinType DEF IInv
<1>2. proc[p].pc \notin Generating
  BY DEF Syncing, Generating
<1>3. proc[p].source \in proc[p].first .. proc[p].last /\ proc[p].command # "codegen"
  BY <1>1, <1>2 DEF ProcessSound, Placed
<1>4. proc[p].source \notin proc[p].first .. proc[p].source - 1
  BY <1>1 DEF Process, Sources
<1>5. QED
  BY <1>1, <1>2, <1>3, <1>4 DEF Uses, Settled

LEMMA RemoveEntryStep == ASSUME IInv, NEW p \in Procs, RemoveEntry(p) PROVE IInv'
<1> DEFINE m == proc[p]
           s == proc[p].source
<1> USE DEF At
<1>1. Runs(p) /\ m.pc = "clearing"
      /\ UNCHANGED <<upstream, checkout, proc, disturbed, commands, stops>>
  BY DEF RemoveEntry, OutsideUnchanged
<1>2. m \in Process /\ ProcessSound(p) /\ s \in Sources /\ Uses(p, s) /\ m.command # "codegen" /\ s \notin Settled(p)
  BY <1>1, SyncUses DEF Syncing
<1>3. \/ \E f \in Files : files' = [files EXCEPT ![s][f] = Missing] /\ state' = state
      \/ state' = [state EXCEPT ![s] = Missing] /\ files' = files
  BY DEF RemoveEntry, Source
<1>4. /\ \A t \in Sources : t # s => files'[t] = files[t] /\ state'[t] = state[t]
      /\ state'[s] \in {state[s], Missing}
      /\ \A f \in Files : files'[s][f] \in {files[s][f], Missing}
      /\ files' \in [Sources -> [Files -> Content \cup {Missing, Torn}]]
      /\ state' \in [Sources -> State \cup {Missing, Torn}]
  <2>1. CASE \E f \in Files : files' = [files EXCEPT ![s][f] = Missing] /\ state' = state
    <3>1. PICK f \in Files : files' = [files EXCEPT ![s][f] = Missing] /\ state' = state
      BY <2>1
    <3>2. files \in [Sources -> [Files -> Content \cup {Missing, Torn}]]
          /\ state \in [Sources -> State \cup {Missing, Torn}]
      BY DEF IInv, TypeOK
    <3>3. QED
      BY <1>2, <3>1, <3>2
  <2>2. CASE state' = [state EXCEPT ![s] = Missing] /\ files' = files
    BY <1>2, <2>2 DEF IInv, TypeOK
  <2>3. QED
    BY <1>3, <2>1, <2>2
<1>5. TypeOK'
  BY <1>1, <1>4 DEF IInv, TypeOK, upstream
<1>6. Neutral(p)
  BY <1>1, <1>2, <1>4 DEF Neutral
<1>7. Resolved' /\ StatesWritten'
  BY <1>1, <1>4 DEF IInv, Resolved, StatesWritten, upstream
<1>8. SpecsHeld'
  BY <1>1, <1>4 DEF IInv, SpecsHeld
<1>9. Placed(p)' /\ Knows(p)' /\ PinOf(p)' = PinOf(p) /\ proc' = proc
  BY <1>1, <1>2 DEF ProcessSound, Placed, Knows, PinOf, upstream
<1>10. Writes(p)' /\ Reads(p)'
  BY <1>1, <1>9 DEF Writes, Reads, Pinned, Resolving
<1>11. Leaves(p)'
  <2>1. Settled(p)' = Settled(p) /\ Settled(p) \subseteq Sources
    BY <1>1, <1>2 DEF Settled, Process, Sources, Generating
  <2>2. QED
    BY <1>1, <1>2, <1>4, <2>1 DEF ProcessSound, Leaves
<1>12. QED
  BY <1>1, <1>5, <1>6, <1>7, <1>8, <1>9, <1>10, <1>11, StepKept DEF GoesOn, ProcessSound

LEMMA ClearedStep == ASSUME IInv, NEW p \in Procs, Cleared(p) PROVE IInv'
<1> DEFINE m == proc[p]
           s == proc[p].source
<1> USE DEF At
<1>1. Runs(p) /\ m.pc = "clearing" /\ Empty(s)
      /\ UNCHANGED <<upstream, checkout, directories, commands, stops>>
      /\ disturbed' = [disturbed EXCEPT ![s] = @ /\ \E q \in Procs \ {p} : Uses(q, s)]
  BY DEF Cleared, OutsideUnchanged, Source
<1>2. m \in Process /\ ProcessSound(p) /\ s \in Sources /\ Uses(p, s) /\ m.command # "codegen" /\ s \notin Settled(p)
  BY <1>1, SyncUses DEF Syncing
<1>3. PICK place \in {"copying", "looking"}, r \in Revisions \cup {NoSHA} :
        /\ proc' = [proc EXCEPT ![p].pc = place, ![p].sha = r]
        /\ place = "looking" => PinOf(p) # Local
        /\ place = "copying" /\ PinOf(p) # Local => r = m.known[PinOf(p)] /\ m.known[PinOf(p)] # Missing
  <2>1. CASE PinOf(p) = Local /\ proc' = [proc EXCEPT ![p].pc = "copying", ![p].sha = NoSHA]
    BY <2>1
  <2>2. CASE /\ PinOf(p) # Local /\ m.known[PinOf(p)] # Missing
             /\ proc' = [proc EXCEPT ![p].pc = "copying", ![p].sha = m.known[PinOf(p)]]
    <3>1. m.known[PinOf(p)] \in Revisions
      BY <1>1, <1>2, <2>2, PinType DEF IInv, Process
    <3>2. QED
      BY <2>2, <3>1
  <2>3. CASE PinOf(p) # Local /\ Go(p, "looking")
    <3>1. proc' = [proc EXCEPT ![p].pc = "looking", ![p].sha = m.sha] /\ m.sha \in Revisions \cup {NoSHA}
      BY <1>2, <2>3, ZenonT(60) DEF Go, Process, IInv, TypeOK
    <3>2. QED
      BY <2>3, <3>1
  <2>4. QED
    BY <2>1, <2>2, <2>3 DEF Cleared
<1>4. /\ proc'[p] = [m EXCEPT !.pc = place, !.sha = r]
      /\ \A q \in Procs \ {p} : proc'[q] = proc[q]
      /\ proc' \in [Procs -> Process \cup {Missing}]
  BY <1>2, <1>3, ZenonT(60) DEF IInv, TypeOK, Process, Syncing
<1>5. /\ proc'[p].pc = place /\ proc'[p].source = s /\ PinOf(p)' = PinOf(p)
      /\ proc'[p].command = m.command /\ proc'[p].first = m.first /\ proc'[p].last = m.last
      /\ proc'[p].done = m.done /\ proc'[p].sha = r /\ proc'[p].during = m.during
      /\ proc'[p].known = m.known /\ proc'[p].config = m.config
  BY <1>2, <1>4 DEF Process, PinOf
<1>6. disturbed' \in [Sources -> BOOLEAN]
      /\ \A t \in Sources : ~disturbed'[t] => ~disturbed[t] \/ (t = s /\ \A q \in Procs \ {p} : ~Uses(q, t))
  BY <1>1, <1>2 DEF IInv, TypeOK
<1>7. TypeOK'
  BY <1>1, <1>4, <1>6 DEF IInv, TypeOK, upstream, directories
<1>8. Neutral(p) /\ Resolved' /\ StatesWritten'
  BY <1>1, <1>4, <1>6 DEF IInv, Neutral, Resolved, StatesWritten, upstream, directories
<1>9. SpecsHeld'
  BY <1>1, <1>6 DEF IInv, SpecsHeld, directories, Empty
<1>10. Placed(p)'
  BY <1>1, <1>2, <1>3, <1>5 DEF ProcessSound, Placed, Syncing, Generating, Resolving, Pinned
<1>11. Knows(p)'
  <2>1. \A q \in Ref : remote'[q] = remote[q] /\ ever'[q] = ever[q]
    BY <1>1 DEF upstream
  <2>2. Knows(p) /\ (PinOf(p) # Local => PinOf(p) \in Ref)
    BY <1>1, <1>2, PinType DEF ProcessSound, IInv
  <2>3. QED
    BY <1>1, <1>3, <1>5, <2>1, <2>2, ZenonT(60) DEF Knows, Pinned
<1>12. Writes(p)' /\ Reads(p)'
  <2>1. m.done = 0 /\ Empty(s)'
    BY <1>1, <1>2, <1>5 DEF ProcessSound, Placed, Syncing, Pinned, Empty, directories
  <2>2. state'[s] = Missing /\ 1 .. m.done = {} /\ place # "writing"
    BY <1>1, <1>3, <2>1 DEF Empty, directories
  <2>3. Writes(p)'
    BY <1>3, <1>5, <2>1, <2>2 DEF Writes, Pinned, Resolving
  <2>4. Reads(p)'
    BY <1>3, <1>5 DEF Reads
  <2>5. QED
    BY <2>3, <2>4
<1>13. Leaves(p)'
  <2>1. Settled(p)' = Settled(p) /\ Settled(p) \subseteq Sources
    BY <1>1, <1>2, <1>5 DEF Settled, Process, Sources, Generating
  <2>2. QED
    BY <1>1, <1>2, <1>5, <1>6, <2>1 DEF ProcessSound, Leaves, directories
<1>14. QED
  BY <1>1, <1>5, <1>7, <1>8, <1>9, <1>10, <1>11, <1>12, <1>13, StepKept DEF GoesOn, ProcessSound

LEMMA CreateStep == ASSUME IInv, NEW p \in Procs, Create(p) PROVE IInv'
<1> DEFINE m == proc[p]
           s == proc[p].source
           n == proc[p].done + 1
<1> USE DEF At
<1>1. Runs(p) /\ m.pc = "copying"
      /\ UNCHANGED <<upstream, checkout, state, disturbed, commands, stops>>
      /\ files' = [files EXCEPT ![s][n] = Torn]
      /\ Go(p, "writing")
  BY DEF Create, OutsideUnchanged, Source
<1>2. m \in Process /\ ProcessSound(p) /\ s \in Sources /\ Uses(p, s) /\ m.command # "codegen" /\ s \notin Settled(p)
  BY <1>1, SyncUses DEF Syncing
<1>3. n \in Files /\ m.done \in Nat /\ m.done < FileCount
  BY <1>1, <1>2 DEF ProcessSound, Placed, Process, Files
<1>4. /\ proc'[p] = [m EXCEPT !.pc = "writing"]
      /\ \A q \in Procs \ {p} : proc'[q] = proc[q]
      /\ proc' \in [Procs -> Process \cup {Missing}]
  BY <1>1, <1>2, ZenonT(60) DEF Go, IInv, TypeOK, Process, Syncing
<1>5. /\ proc'[p].pc = "writing" /\ proc'[p].source = s /\ PinOf(p)' = PinOf(p)
      /\ proc'[p].command = m.command /\ proc'[p].first = m.first /\ proc'[p].last = m.last
      /\ proc'[p].done = m.done /\ proc'[p].sha = m.sha /\ proc'[p].during = m.during
      /\ proc'[p].known = m.known /\ proc'[p].config = m.config
  BY <1>2, <1>4 DEF Process, PinOf
<1>6. /\ \A t \in Sources : t # s => files'[t] = files[t]
      /\ \A f \in Files : files'[s][f] = IF f = n THEN Torn ELSE files[s][f]
      /\ files' \in [Sources -> [Files -> Content \cup {Missing, Torn}]]
  <2>1. files \in [Sources -> [Files -> Content \cup {Missing, Torn}]]
    BY DEF IInv, TypeOK
  <2>2. QED
    BY <1>1, <1>2, <1>3, <2>1
<1>7. TypeOK'
  BY <1>1, <1>4, <1>6 DEF IInv, TypeOK, upstream
<1>8. Neutral(p) /\ Resolved' /\ StatesWritten'
  BY <1>1, <1>2, <1>4, <1>6 DEF IInv, Neutral, Resolved, StatesWritten, upstream
<1>9. ~disturbed[s] => state[s] = Missing /\ \A f \in 1 .. m.done : files[s][f] = SpecsOf(p)
  BY <1>1, <1>2 DEF ProcessSound, Writes, Pinned
<1>10. SpecsHeld'
  BY <1>1, <1>6, <1>9 DEF IInv, SpecsHeld
<1>11. Placed(p)'
  BY <1>1, <1>2, <1>5 DEF ProcessSound, Placed, Syncing, Generating, Resolving, Pinned
<1>12. Knows(p)'
  BY <1>1, <1>2, <1>5 DEF ProcessSound, Knows, Pinned, upstream
<1>13. Writes(p)'
  <2>1. SpecsOf(p)' = SpecsOf(p)
    BY <1>1, <1>5 DEF SpecsOf
  <2>2. ~disturbed[s] => \A f \in 1 .. m.done : files'[s][f] = SpecsOf(p)
    BY <1>3, <1>6, <1>9 DEF Files
  <2>3. files'[s][n] # Missing
    BY <1>3, <1>6, Distinct
  <2>4. QED
    BY <1>1, <1>5, <1>9, <2>1, <2>2, <2>3 DEF Writes, Pinned, Resolving
<1>14. Reads(p)'
  BY <1>5 DEF Reads
<1>15. Leaves(p)'
  <2>1. Settled(p)' = Settled(p)
    BY <1>1, <1>5 DEF Settled, Generating
  <2>2. QED
    BY <1>1, <1>2, <1>5, <2>1 DEF ProcessSound, Leaves
<1>16. QED
  BY <1>1, <1>5, <1>7, <1>8, <1>10, <1>11, <1>12, <1>13, <1>14, <1>15, StepKept DEF GoesOn, ProcessSound

\* What a sync copies is of the revision it will record.
LEMMA SpecsType ==
    ASSUME IInv, NEW p \in Procs, Runs(p), proc[p].pc \in Pinned
    PROVE  /\ SpecsOf(p) \in Content
           /\ SpecsOf(p) = IF PinOf(p) = Local THEN Working ELSE proc[p].sha
           /\ PinOf(p) # Local => proc[p].sha \in Revisions /\ proc[p].sha \in ever[PinOf(p)]
<1>1. proc[p] \in Process /\ ProcessSound(p) /\ (PinOf(p) # Local => PinOf(p) \in Ref)
  BY PinType DEF IInv
<1>2. ASSUME PinOf(p) # Local
      PROVE  /\ proc[p].sha \in Revisions /\ proc[p].sha \in ever[PinOf(p)]
             /\ checkout[PinOf(p)] = proc[p].sha
  <2>1. proc[p].during \in [Ref -> SUBSET Revisions]
    BY <1>1 DEF Process
  <2>2. QED
    BY <1>1, <1>2, <2>1 DEF ProcessSound, Knows
<1>3. QED
  BY <1>2 DEF SpecsOf, Content

LEMMA WriteStep == ASSUME IInv, NEW p \in Procs, Write(p) PROVE IInv'
<1> DEFINE m == proc[p]
           s == proc[p].source
           n == proc[p].done + 1
           place == IF n = FileCount THEN "recording" ELSE "copying"
<1> USE DEF At
<1>1. Runs(p) /\ m.pc = "writing"
      /\ UNCHANGED <<upstream, checkout, state, disturbed, commands, stops>>
      /\ proc' = [proc EXCEPT ![p].done = n, ![p].pc = place]
  BY DEF Write, OutsideUnchanged, Source
<1>2. m \in Process /\ ProcessSound(p) /\ s \in Sources /\ Uses(p, s) /\ m.command # "codegen" /\ s \notin Settled(p)
  BY <1>1, SyncUses DEF Syncing
<1>3. n \in Files /\ m.done \in Nat /\ m.done < FileCount /\ n \in 0 .. FileCount
  BY <1>1, <1>2 DEF ProcessSound, Placed, Process, Files
<1>4. /\ proc'[p] = [m EXCEPT !.done = n, !.pc = place]
      /\ \A q \in Procs \ {p} : proc'[q] = proc[q]
      /\ proc' \in [Procs -> Process \cup {Missing}]
  BY <1>1, <1>2, <1>3 DEF IInv, TypeOK, Process, Syncing
<1>5. /\ proc'[p].pc = place /\ proc'[p].source = s /\ PinOf(p)' = PinOf(p)
      /\ proc'[p].command = m.command /\ proc'[p].first = m.first /\ proc'[p].last = m.last
      /\ proc'[p].done = n /\ proc'[p].sha = m.sha /\ proc'[p].during = m.during
      /\ proc'[p].known = m.known /\ proc'[p].config = m.config
  BY <1>2, <1>4, SMTT(60) DEF Process, PinOf
<1>6. /\ \A t \in Sources : t # s => files'[t] = files[t]
      /\ \A f \in Files : f # n => files'[s][f] = files[s][f]
      /\ files[s][n] # Missing /\ ~disturbed[s] => files'[s][n] = SpecsOf(p)
      /\ files' \in [Sources -> [Files -> Content \cup {Missing, Torn}]]
  <2>1. files \in [Sources -> [Files -> Content \cup {Missing, Torn}]] /\ SpecsOf(p) \in Content
    BY <1>1, SpecsType DEF IInv, TypeOK, Pinned
  <2>2. CASE files[s][n] = Missing /\ files' = files
    BY <2>1, <2>2
  <2>3. CASE files' = [files EXCEPT ![s][n] = SpecsOf(p)]
    BY <1>2, <1>3, <2>1, <2>3
  <2>4. CASE disturbed[s] /\ files' = [files EXCEPT ![s][n] = Torn]
    BY <1>2, <1>3, <2>1, <2>4
  <2>5. QED
    BY <2>2, <2>3, <2>4 DEF Write, Source
<1>7. TypeOK'
  BY <1>1, <1>4, <1>6 DEF IInv, TypeOK, upstream
<1>8. Neutral(p) /\ Resolved' /\ StatesWritten'
  BY <1>1, <1>2, <1>4, <1>6 DEF IInv, Neutral, Resolved, StatesWritten, upstream
<1>9. ~disturbed[s] => /\ state[s] = Missing /\ files[s][n] # Missing
                       /\ \A f \in 1 .. m.done : files[s][f] = SpecsOf(p)
  BY <1>1, <1>2 DEF ProcessSound, Writes, Pinned
<1>10. SpecsHeld'
  BY <1>1, <1>6, <1>9 DEF IInv, SpecsHeld
<1>11. Placed(p)'
  BY <1>1, <1>2, <1>3, <1>5 DEF ProcessSound, Placed, Syncing, Generating, Resolving, Pinned
<1>17. proc'[p].pc \in {"copying", "recording"}
  BY <1>5
<1>12. Knows(p)'
  <2>1. m.pc \in Pinned /\ proc'[p].pc \in Pinned /\ proc'[p].pc \notin {"publishing", "comparing"}
    BY <1>1, <1>17 DEF Pinned
  <2> HIDE DEF place
  <2>2. QED
    BY <1>1, <1>2, <1>5, <2>1 DEF ProcessSound, Knows, upstream
<1>13. Writes(p)'
  <2>1. SpecsOf(p)' = SpecsOf(p)
    BY <1>1, <1>5 DEF SpecsOf
  <2>2. ~disturbed[s] => \A f \in 1 .. n : files'[s][f] = SpecsOf(p)
    BY <1>3, <1>6, <1>9 DEF Files
  <2> HIDE DEF place
  <2>3. QED
    BY <1>1, <1>5, <1>9, <1>17, <2>1, <2>2 DEF Writes, Pinned, Resolving
<1>14. Reads(p)'
  BY <1>5 DEF Reads
<1>15. Leaves(p)'
  <2>1. Settled(p)' = Settled(p)
    BY <1>1, <1>5 DEF Settled, Generating
  <2>2. QED
    BY <1>1, <1>2, <1>5, <2>1 DEF ProcessSound, Leaves
<1>16. QED
  BY <1>1, <1>5, <1>7, <1>8, <1>10, <1>11, <1>12, <1>13, <1>14, <1>15, StepKept DEF GoesOn, ProcessSound

LEMMA RecordStep == ASSUME IInv, NEW p \in Procs, Record(p) PROVE IInv'
<1> DEFINE m == proc[p]
           s == proc[p].source
<1> USE DEF At
<1>1. Runs(p) /\ m.pc = "recording"
      /\ UNCHANGED <<upstream, checkout, files, disturbed, commands, stops>>
      /\ state' = [state EXCEPT ![s] = Torn]
      /\ Go(p, "saving")
  BY DEF Record, OutsideUnchanged, Source
<1>2. m \in Process /\ ProcessSound(p) /\ s \in Sources /\ Uses(p, s) /\ m.command # "codegen" /\ s \notin Settled(p)
  BY <1>1, SyncUses DEF Syncing
<1>3. /\ proc'[p] = [m EXCEPT !.pc = "saving"]
      /\ \A q \in Procs \ {p} : proc'[q] = proc[q]
      /\ proc' \in [Procs -> Process \cup {Missing}]
  BY <1>1, <1>2, ZenonT(60) DEF Go, IInv, TypeOK, Process, Syncing
<1>4. /\ proc'[p].pc = "saving" /\ proc'[p].source = s /\ PinOf(p)' = PinOf(p)
      /\ proc'[p].command = m.command /\ proc'[p].first = m.first /\ proc'[p].last = m.last
      /\ proc'[p].done = m.done /\ proc'[p].sha = m.sha /\ proc'[p].during = m.during
      /\ proc'[p].known = m.known /\ proc'[p].config = m.config
  BY <1>2, <1>3 DEF Process, PinOf
<1>5. /\ \A t \in Sources : t # s => state'[t] = state[t]
      /\ state'[s] = Torn
      /\ state' \in [Sources -> State \cup {Missing, Torn}]
  BY <1>1, <1>2 DEF IInv, TypeOK
<1>6. TypeOK'
  BY <1>1, <1>3, <1>5 DEF IInv, TypeOK, upstream
<1>7. Neutral(p) /\ Resolved' /\ StatesWritten'
  BY <1>1, <1>2, <1>3, <1>5 DEF IInv, Neutral, Resolved, StatesWritten, upstream
<1>8. SpecsHeld'
  BY <1>1, <1>5 DEF IInv, SpecsHeld
<1>9. Placed(p)'
  BY <1>1, <1>2, <1>4 DEF ProcessSound, Placed, Syncing, Generating, Resolving, Pinned
<1>10. Knows(p)'
  BY <1>1, <1>2, <1>4 DEF ProcessSound, Knows, Pinned, upstream
<1>11. Writes(p)'
  <2>1. SpecsOf(p)' = SpecsOf(p)
    BY <1>1, <1>4 DEF SpecsOf
  <2>2. QED
    BY <1>1, <1>2, <1>4, <1>5, <2>1 DEF ProcessSound, Writes, Pinned, Resolving
<1>12. Reads(p)'
  BY <1>4 DEF Reads
<1>13. Leaves(p)'
  <2>1. Settled(p)' = Settled(p) /\ Settled(p) \subseteq Sources
    BY <1>1, <1>2, <1>4 DEF Settled, Generating, Process, Sources
  <2>2. QED
    BY <1>1, <1>2, <1>4, <1>5, <2>1 DEF ProcessSound, Leaves
<1>14. QED
  BY <1>1, <1>4, <1>6, <1>7, <1>8, <1>9, <1>10, <1>11, <1>12, <1>13, StepKept DEF GoesOn, ProcessSound

-----------------------------------------------------------------------------
(* From source to source *)

\* What a sync writes for a pin, codegen accepts for it.
LEMMA StateAccepted ==
    ASSUME NEW pin \in Pin, NEW r \in Revisions \cup {NoSHA}, pin # Local => r \in Revisions
    PROVE  /\ StateOf(pin, r) \in State
           /\ Accepts(pin, StateOf(pin, r))
           /\ Held(StateOf(pin, r)) = IF pin = Local THEN Working ELSE r
<1>1. CASE pin = Local
  <2>1. StateOf(pin, r) = [from |-> Local, address |-> NoAddress, sha |-> NoSHA]
    BY <1>1 DEF StateOf
  <2>2. StateOf(pin, r) \in State
    BY <2>1 DEF State
  <2>3. QED
    BY <1>1, <2>1, <2>2 DEF Accepts, Held
<1>2. CASE pin # Local
  <2>1. /\ StateOf(pin, r) = [from |-> pin.tag, address |-> Address[pin.repo], sha |-> r]
        /\ pin.tag \in Tags /\ pin.repo \in Repos
    BY <1>2 DEF StateOf, Pin, Ref
  <2>2. StateOf(pin, r) \in State
    BY <2>1 DEF State
  <2>3. r # NoSHA /\ pin.tag # Local
    BY <1>2, <2>1, Distinct
  <2>4. QED
    BY <1>2, <2>1, <2>2, <2>3 DEF Accepts, Held
<1>3. QED
  BY <1>1, <1>2

\* p has dealt with its source: it goes on with the next one, generates or ends.
LEMMA AdvanceKept ==
    ASSUME IInv, NEW p \in Procs, Runs(p), proc[p].pc \in {"saving", "parsed"}, Advance(p),
           UNCHANGED <<upstream, checkout, disturbed>>,
           proc[p].command = "bootstrap" =>
               \A t \in Settled(p) \cup {proc[p].source} :
                   ~disturbed[t] => Accepts(proc[p].config[t], state'[t])
    PROVE  /\ proc' \in [Procs -> Process \cup {Missing}]
           /\ \A q \in Procs \ {p} : proc'[q] = proc[q]
           /\ GoesOn(p)
<1> DEFINE m == proc[p]
           Moved(place, next) == [m EXCEPT !.pc = place, !.source = next, !.done = 0, !.sha = NoSHA,
                                           !.state = Missing, !.read = NothingRead]
<1>1. m \in Process /\ ProcessSound(p) /\ m.source \in m.first .. m.last
      /\ m.first \in Sources /\ m.last \in Sources /\ m.source \in Sources
      /\ proc \in [Procs -> Process \cup {Missing}]
  BY PinType DEF IInv, TypeOK, ProcessSound, Placed, Process
<1>2. ASSUME NEW place \in {"clearing", "verifying"}, NEW next \in m.first .. m.last,
             proc' = [proc EXCEPT ![p].pc = place, ![p].source = next, ![p].done = 0, ![p].sha = NoSHA,
                                  ![p].state = Missing, ![p].read = NothingRead],
             m.pc = "saving" => m.command # "codegen",
             place = "verifying" => m.command # "specsync",
             \/ m.pc = "saving" /\ place = "clearing" /\ next = m.source + 1
             \/ m.pc = "saving" /\ place = "verifying" /\ m.source = m.last
             \/ m.pc = "parsed" /\ place = "verifying"
      PROVE  proc' \in [Procs -> Process \cup {Missing}] /\ GoesOn(p)
  <2>1. next \in Sources /\ NothingRead \in [Files -> Content \cup {Missing, Torn}]
    BY <1>1, <1>2 DEF Sources, NothingRead
  <2>2. Moved(place, next) \in Process
    <3>1. place \in Syncing \cup Generating
      BY <1>2 DEF Syncing, Generating
    <3>2. 0 \in 0 .. FileCount
      OBVIOUS
    <3>3. QED
      BY <1>1, <2>1, <3>1, <3>2 DEF Process
  <2>3. proc'[p] = Moved(place, next)
    BY <1>1, <1>2
  <2>4. /\ proc'[p].pc = place /\ proc'[p].source = next /\ proc'[p].done = 0
        /\ proc'[p].command = m.command /\ proc'[p].first = m.first /\ proc'[p].last = m.last
        /\ proc'[p].config = m.config /\ proc'[p].during = m.during /\ proc'[p].known = m.known
    BY <1>1, <2>3 DEF Process
  <2>5. m.pc = "parsed" => m.command # "specsync"
    BY <1>1 DEF ProcessSound, Placed, Syncing
  <2>6. m.pc = "parsed" => place = "verifying"
    BY <1>2, SMTT(60)
  <2>7. Placed(p)'
    <3>1. place = "clearing" => m.command # "codegen"
      BY <1>2
    <3>2. place = "verifying" => m.command # "specsync"
      BY <1>2
    <3>3. place \in {"clearing", "verifying"} /\ next \in m.first .. m.last
      BY <1>2
    <3> HIDE DEF m, Moved
    <3>4. QED
      BY <2>4, <3>1, <3>2, <3>3 DEF Placed, Syncing, Generating, Resolving, Pinned
  <2>8. Knows(p)'
    <3>1. Knows(p) /\ proc'[p].pc \notin Pinned \cup {"publishing", "comparing"}
      BY <1>1, <1>2, <2>4 DEF ProcessSound, Pinned
    <3> HIDE DEF m, Moved
    <3>2. proc'[p].during = proc[p].during /\ proc'[p].known = proc[p].known
      BY <2>4 DEF m
    <3>3. QED
      BY <3>1, <3>2 DEF Knows, upstream
  <2>9. Writes(p)' /\ Reads(p)'
    BY <1>2, <2>4 DEF Writes, Reads, Resolving, Pinned
  <2>10. Leaves(p)'
    <3>1. ASSUME NEW t \in Settled(p)' PROVE t \in Settled(p) \cup {m.source}
      BY <1>1, <1>2, <2>4, <3>1, SMTT(60) DEF Settled, Generating, Sources
    <3>2. QED
      BY <1>2, <2>4, <3>1 DEF Leaves
  <2>11. GoesOn(p)
    BY <2>4, <2>7, <2>8, <2>9, <2>10 DEF GoesOn, ProcessSound
  <2>12. QED
    BY <1>1, <1>2, <2>2, <2>11
<1>3. m.pc = "saving" => m.command # "codegen"
  BY <1>1 DEF ProcessSound, Placed, Generating
<1>4. m.pc = "parsed" => m.command # "specsync"
  BY <1>1 DEF ProcessSound, Placed, Syncing
<1>5. m.source # m.last => m.source + 1 \in m.first .. m.last
  BY <1>1 DEF Sources
<1>6. m.first \in m.first .. m.last
  BY <1>1 DEF Sources
<1>7. CASE End(p)
  BY <1>1, <1>7 DEF End, GoesOn
<1>8. CASE /\ m.source # m.last /\ m.pc = "saving"
           /\ proc' = [proc EXCEPT ![p].pc = "clearing", ![p].source = m.source + 1, ![p].done = 0,
                                   ![p].sha = NoSHA, ![p].state = Missing, ![p].read = NothingRead]
  BY <1>1, <1>2, <1>3, <1>5, <1>8
<1>9. CASE /\ m.source # m.last /\ m.pc = "parsed"
           /\ proc' = [proc EXCEPT ![p].pc = "verifying", ![p].source = m.source + 1, ![p].done = 0,
                                   ![p].sha = NoSHA, ![p].state = Missing, ![p].read = NothingRead]
  BY <1>1, <1>2, <1>4, <1>5, <1>9
<1>10. CASE /\ m.source = m.last /\ m.pc = "saving" /\ m.command = "bootstrap"
            /\ proc' = [proc EXCEPT ![p].pc = "verifying", ![p].source = m.first, ![p].done = 0,
                                    ![p].sha = NoSHA, ![p].state = Missing, ![p].read = NothingRead]
  BY <1>1, <1>2, <1>3, <1>6, <1>10
<1>11. QED
  BY <1>1, <1>7, <1>8, <1>9, <1>10 DEF Advance, End

LEMMA SaveStep == ASSUME IInv, NEW p \in Procs, Save(p) PROVE IInv'
<1> DEFINE m == proc[p]
           s == proc[p].source
           new == StateOf(PinOf(p), proc[p].sha)
<1> USE DEF At
<1>1. Runs(p) /\ m.pc = "saving" /\ Advance(p)
      /\ UNCHANGED <<upstream, checkout, files, disturbed, commands, stops>>
      /\ state' = [state EXCEPT ![s] = IF @ = Missing THEN Missing ELSE new]
  BY DEF Save, OutsideUnchanged, Source
<1>2. m \in Process /\ ProcessSound(p) /\ s \in Sources /\ Uses(p, s) /\ m.command # "codegen" /\ s \notin Settled(p)
  BY <1>1, SyncUses DEF Syncing
<1>3. /\ PinOf(p) \in Pin /\ m.sha \in Revisions \cup {NoSHA}
      /\ PinOf(p) # Local => m.sha \in Revisions /\ m.sha \in ever[PinOf(p)]
      /\ SpecsOf(p) = IF PinOf(p) = Local THEN Working ELSE m.sha
  BY <1>1, <1>2, PinType, SpecsType DEF Pinned, Process, IInv
<1>4. new \in State /\ Accepts(PinOf(p), new) /\ Held(new) = SpecsOf(p)
  BY <1>3, StateAccepted
<1>5. /\ \A t \in Sources : t # s => state'[t] = state[t]
      /\ state'[s] = IF state[s] = Missing THEN Missing ELSE new
      /\ state' \in [Sources -> State \cup {Missing, Torn}]
  BY <1>1, <1>2, <1>4 DEF IInv, TypeOK
<1>6. ~disturbed[s] => state'[s] = new /\ \A f \in Files : files[s][f] = Held(new)
  BY <1>1, <1>2, <1>4, <1>5, Distinct DEF ProcessSound, Placed, Writes, Pinned, Files
<1>7. m.command = "bootstrap" =>
        \A t \in Settled(p) \cup {s} : ~disturbed[t] => Accepts(m.config[t], state'[t])
  <2>1. Settled(p) \subseteq Sources
    BY <1>2 DEF Settled, Process, Sources
  <2>2. QED
    BY <1>2, <1>4, <1>5, <1>6, <2>1 DEF ProcessSound, Leaves, PinOf
<1>8. /\ proc' \in [Procs -> Process \cup {Missing}]
      /\ \A q \in Procs \ {p} : proc'[q] = proc[q]
      /\ GoesOn(p)
  BY <1>1, <1>7, AdvanceKept
<1>9. TypeOK'
  BY <1>1, <1>5, <1>8 DEF IInv, TypeOK, upstream
<1>10. Neutral(p) /\ Resolved'
  BY <1>1, <1>2, <1>5, <1>8 DEF IInv, Neutral, Resolved, upstream
<1>11. StatesWritten'
  BY <1>1, <1>3, <1>5 DEF IInv, StatesWritten, upstream
<1>12. SpecsHeld'
  BY <1>1, <1>5, <1>6 DEF IInv, SpecsHeld
<1>13. QED
  BY <1>1, <1>8, <1>9, <1>10, <1>11, <1>12, StepKept

-----------------------------------------------------------------------------
(* Codegen *)

LEMMA VerifyStep == ASSUME IInv, NEW p \in Procs, Verify(p) PROVE IInv'
<1> DEFINE m == proc[p]
           s == proc[p].source
<1> USE DEF At
<1>1. Runs(p) /\ m.pc = "verifying" /\ m \in Process /\ ProcessSound(p) /\ s \in Sources
      /\ UNCHANGED <<upstream, checkout, directories, disturbed, commands, stops>>
  BY PinType DEF Verify, IInv, OutsideUnchanged
<1>2. PICK place \in {"loading", "rejected"} :
        /\ Go(p, place)
        /\ place = "loading" <=> Accepts(PinOf(p), state[s])
  BY DEF Verify, Source
<1>3. /\ proc'[p] = [m EXCEPT !.pc = place]
      /\ \A q \in Procs \ {p} : proc'[q] = proc[q]
      /\ proc' \in [Procs -> Process \cup {Missing}]
  BY <1>1, <1>2, ZenonT(60) DEF Go, IInv, TypeOK, Process, Generating
<1>4. TypeOK'
  BY <1>1, <1>3 DEF IInv, TypeOK, upstream, directories
<1>5. /\ proc'[p].pc = place /\ proc'[p].source = m.source /\ PinOf(p)' = PinOf(p)
      /\ proc'[p].command = m.command /\ proc'[p].first = m.first /\ proc'[p].last = m.last
      /\ proc'[p].done = m.done /\ proc'[p].during = m.during
      /\ proc'[p].known = m.known /\ proc'[p].config = m.config
  BY <1>1, <1>3 DEF Process, PinOf
<1>6. Placed(p)'
  BY <1>1, <1>2, <1>5 DEF ProcessSound, Placed, Syncing, Generating, Resolving, Pinned
<1>7. Knows(p)'
  BY <1>1, <1>2, <1>5 DEF ProcessSound, Knows, Pinned, upstream
<1>8. Writes(p)' /\ Reads(p)'
  <2>1. Writes(p)'
    BY <1>2, <1>5 DEF Writes, Pinned, Resolving
  <2>2. place = "loading" => Accepts(PinOf(p)', state'[s])
    BY <1>1, <1>2, <1>5 DEF directories
  <2>3. proc'[p].pc \notin {"parsing", "parsed"} /\ (proc'[p].pc = "loading" => place = "loading")
    BY <1>2, <1>5
  <2>4. Reads(p)'
    <3>1. proc'[p].pc = "loading" => Accepts(PinOf(p)', state'[proc'[p].source])
      BY <1>5, <2>2, <2>3
    <3>2. QED
      BY <2>3, <3>1 DEF Reads
  <2>5. QED
    BY <2>1, <2>4
<1>9. Leaves(p)'
  <2>1. Settled(p)' = Settled(p) /\ s \in Settled(p)
    BY <1>1, <1>2, <1>5 DEF Settled, Generating, ProcessSound, Placed
  <2>2. QED
    BY <1>1, <1>2, <1>5, <2>1 DEF ProcessSound, Leaves, directories, PinOf
<1>10. QED
  BY <1>1, <1>3, <1>4, <1>5, <1>6, <1>7, <1>8, <1>9, LocalKept DEF GoesOn, ProcessSound

LEMMA LoadStep == ASSUME IInv, NEW p \in Procs, Load(p) PROVE IInv'
<1> DEFINE m == proc[p]
           s == proc[p].source
<1> USE DEF At
<1>1. Runs(p) /\ m.pc = "loading" /\ m \in Process /\ ProcessSound(p) /\ s \in Sources
      /\ UNCHANGED <<upstream, checkout, directories, disturbed, commands, stops>>
      /\ proc' = [proc EXCEPT ![p].pc = "parsing", ![p].state = state[s]]
  BY PinType DEF Load, IInv, OutsideUnchanged, Source
<1>2. /\ proc'[p] = [m EXCEPT !.pc = "parsing", !.state = state[s]]
      /\ \A q \in Procs \ {p} : proc'[q] = proc[q]
      /\ proc' \in [Procs -> Process \cup {Missing}]
  BY <1>1, ZenonT(60) DEF IInv, TypeOK, Process, Generating
<1>3. TypeOK'
  BY <1>1, <1>2 DEF IInv, TypeOK, upstream, directories
<1>4. /\ proc'[p].pc = "parsing" /\ proc'[p].source = m.source /\ PinOf(p)' = PinOf(p)
      /\ proc'[p].command = m.command /\ proc'[p].first = m.first /\ proc'[p].last = m.last
      /\ proc'[p].done = m.done /\ proc'[p].during = m.during
      /\ proc'[p].known = m.known /\ proc'[p].config = m.config /\ proc'[p].state = state[s]
  BY <1>1, <1>2 DEF Process, PinOf
<1>5. m.done = 0 /\ Placed(p)'
  BY <1>1, <1>4 DEF ProcessSound, Placed, Syncing, Generating, Resolving, Pinned
<1>6. Knows(p)'
  BY <1>1, <1>4, ZenonT(60) DEF ProcessSound, Knows, Pinned, upstream
<1>7. Writes(p)'
  BY <1>4 DEF Writes, Pinned, Resolving
<1>8. Reads(p)'
  <2>1. ~disturbed[s] => Accepts(PinOf(p), state[s])
    BY <1>1 DEF ProcessSound, Reads
  <2>2. disturbed'[s] = disturbed[s] /\ state'[s] = state[s]
    BY <1>1 DEF directories
  <2>3. ~disturbed'[s] => Accepts(PinOf(p)', proc'[p].state)
    BY <1>4, <2>1, <2>2
  <2>4. \A f \in 1 .. proc'[p].done : proc'[p].read[f] = Held(proc'[p].state)
    BY <1>4, <1>5
  <2>5. proc'[p].pc = "parsing" /\ proc'[p].source = s /\ proc'[p].state = state'[s]
    BY <1>4, <2>2
  <2>6. QED
    BY <2>3, <2>4, <2>5 DEF Reads
<1>9. Leaves(p)'
  <2>1. Settled(p)' = Settled(p)
    BY <1>1, <1>4, SMTT(60) DEF Settled, Generating
  <2>2. QED
    BY <1>1, <1>4, <2>1 DEF ProcessSound, Leaves, directories
<1>10. QED
  BY <1>1, <1>2, <1>3, <1>4, <1>5, <1>6, <1>7, <1>8, <1>9, LocalKept DEF GoesOn, ProcessSound

LEMMA ParseStep == ASSUME IInv, NEW p \in Procs, Parse(p) PROVE IInv'
<1> DEFINE m == proc[p]
           s == proc[p].source
           n == proc[p].done + 1
           place == IF n = FileCount THEN "parsed" ELSE "parsing"
<1> USE DEF At
<1>1. Runs(p) /\ m.pc = "parsing" /\ m \in Process /\ ProcessSound(p) /\ s \in Sources
      /\ UNCHANGED <<upstream, checkout, directories, disturbed, commands, stops>>
      /\ files[s][n] # Missing
      /\ proc' = [proc EXCEPT ![p].read[n] = files[s][n], ![p].done = n, ![p].pc = place]
  BY PinType DEF Parse, IInv, OutsideUnchanged, Source
<1>2. n \in Files /\ m.done \in Nat /\ m.done < FileCount /\ n \in 0 .. FileCount
  BY <1>1, SMTT(60) DEF ProcessSound, Placed, Process, Files
<1>3. files[s][n] \in Content \cup {Missing, Torn} /\ m.read \in [Files -> Content \cup {Missing, Torn}]
  BY <1>1, <1>2 DEF IInv, TypeOK, Process
<1>4. /\ proc'[p] = [m EXCEPT !.read = [m.read EXCEPT ![n] = files[s][n]], !.done = n, !.pc = place]
      /\ \A q \in Procs \ {p} : proc'[q] = proc[q]
      /\ proc' \in [Procs -> Process \cup {Missing}]
  BY <1>1, <1>2, <1>3, ZenonT(60) DEF IInv, TypeOK, Process, Generating
<1>5. TypeOK'
  BY <1>1, <1>4 DEF IInv, TypeOK, upstream, directories
<1>6. /\ proc'[p].pc = place /\ proc'[p].source = m.source /\ PinOf(p)' = PinOf(p)
      /\ proc'[p].command = m.command /\ proc'[p].first = m.first /\ proc'[p].last = m.last
      /\ proc'[p].done = n /\ proc'[p].during = m.during
      /\ proc'[p].known = m.known /\ proc'[p].config = m.config /\ proc'[p].state = m.state
  <2> HIDE DEF place, n
  <2>1. QED
    BY <1>1, <1>4, ZenonT(60) DEF Process, PinOf
<1>14. \A f \in Files : proc'[p].read[f] = IF f = n THEN files[s][n] ELSE m.read[f]
  <2>1. proc'[p].read = [m.read EXCEPT ![n] = files[s][n]]
    <3> HIDE DEF place, n
    <3>1. QED
      BY <1>1, <1>4, ZenonT(60) DEF Process
  <2>2. QED
    BY <1>3, <2>1
<1>7. Placed(p)'
  <2>1. Placed(p) /\ m.pc = "parsing"
    BY <1>1 DEF ProcessSound
  <2>2. \/ place = "parsed" /\ n = FileCount
        \/ place = "parsing" /\ n < FileCount
    BY <1>2 DEF Files
  <2> HIDE DEF place, n
  <2>3. QED
    BY <1>6, <2>1, <2>2 DEF Placed, Syncing, Generating, Resolving, Pinned
<1>8. proc'[p].pc \in {"parsing", "parsed"}
  BY <1>6
<1> HIDE DEF place
<1>9. Knows(p)'
  BY <1>1, <1>6, <1>8, ZenonT(60) DEF ProcessSound, Knows, Pinned, upstream
<1>10. Writes(p)'
  BY <1>8 DEF Writes, Pinned, Resolving
<1>11. Reads(p)'
  <2> SUFFICES ASSUME ~disturbed[s] PROVE Reads(p)'
    BY <1>1, <1>6 DEF Reads
  <2>1. m.state = state[s] /\ Accepts(PinOf(p), m.state) /\ \A f \in 1 .. m.done : m.read[f] = Held(m.state)
    BY <1>1 DEF ProcessSound, Reads
  <2>2. files[s][n] = Held(m.state)
    BY <1>1, <1>2, <2>1 DEF IInv, SpecsHeld, Accepts
  <2>3. \A f \in 1 .. n : proc'[p].read[f] = Held(m.state)
    BY <1>2, <1>14, <2>1, <2>2, SMTT(60) DEF Files
  <2>4. QED
    BY <1>1, <1>6, <1>8, <2>1, <2>3, ZenonT(60) DEF Reads, directories
<1>12. Leaves(p)'
  <2>1. Settled(p)' = Settled(p)
    BY <1>1, <1>6, <1>8 DEF Settled, Generating
  <2>2. Leaves(p) /\ UNCHANGED <<state, disturbed>>
    BY <1>1 DEF ProcessSound, directories
  <2>3. proc'[p].pc # "rejected"
    BY <1>8
  <2> HIDE DEF m, n, s
  <2>4. /\ proc'[p].command = proc[p].command /\ proc'[p].config = proc[p].config
        /\ proc'[p].source = proc[p].source
    BY <1>6 DEF m
  <2>5. QED
    BY <2>1, <2>2, <2>3, <2>4 DEF Leaves
<1>13. QED
  BY <1>1, <1>4, <1>5, <1>6, <1>7, <1>9, <1>10, <1>11, <1>12, LocalKept DEF GoesOn, ProcessSound

LEMMA CollectStep == ASSUME IInv, NEW p \in Procs, Collect(p) PROVE IInv'
<1>1. Runs(p) /\ proc[p].pc = "parsed" /\ Advance(p) /\ ProcessSound(p) /\ proc[p] \in Process
      /\ UNCHANGED <<upstream, checkout, directories, disturbed, commands, stops>>
  BY PinType DEF Collect, At, OutsideUnchanged, IInv
<1>2. proc[p].source \in Settled(p)
  BY <1>1 DEF ProcessSound, Placed, Settled, Generating
<1>3. proc[p].command = "bootstrap" =>
        \A t \in Settled(p) \cup {proc[p].source} :
            ~disturbed[t] => Accepts(proc[p].config[t], state'[t])
  BY <1>1, <1>2 DEF ProcessSound, Leaves, directories
<1>4. /\ proc' \in [Procs -> Process \cup {Missing}]
      /\ \A q \in Procs \ {p} : proc'[q] = proc[q]
      /\ GoesOn(p)
  BY <1>1, <1>3, AdvanceKept
<1>5. TypeOK'
  BY <1>1, <1>4 DEF IInv, TypeOK, upstream, directories
<1>6. QED
  BY <1>1, <1>4, <1>5, LocalKept

-----------------------------------------------------------------------------
(* Commands that begin, and tags that move *)

LEMMA BeginStep == ASSUME IInv, NEW p \in Procs, Begin(p) PROVE IInv'
<1> DEFINE Fresh(cmd, c, first, last) ==
             [pc |-> IF cmd = "codegen" THEN "verifying" ELSE "clearing",
              command |-> cmd, config |-> c,
              first |-> first, last |-> last, source |-> first,
              known |-> [r \in Ref |-> Missing], clone |-> Missing, sha |-> NoSHA,
              done |-> 0, state |-> Missing, read |-> NothingRead,
              during |-> [r \in Ref |-> {remote[r]}]]
           Clash(cmd, first, last, s) ==
             /\ s \in first .. last
             /\ \E q \in Procs : Uses(q, s) /\ ~(cmd = "codegen" /\ proc[q].command = "codegen")
<1>1. /\ ~Runs(p) /\ commands' \in 0 .. MaxCommands
      /\ UNCHANGED <<upstream, checkout, directories, stops>>
  BY DEF Begin, IInv, TypeOK
<1>2. PICK cmd \in {"specsync", "codegen", "bootstrap"}, c \in Configs, first \in Sources, last \in Sources :
        /\ \/ first = 1 /\ last = SourceCount
           \/ cmd = "specsync" /\ first = last
        /\ proc' = [proc EXCEPT ![p] = Fresh(cmd, c, first, last)]
        /\ disturbed' = [s \in Sources |-> disturbed[s] \/ Clash(cmd, first, last, s)]
  BY DEF Begin
<1> DEFINE me == Fresh(cmd, c, first, last)
<1>3. first \in first .. last
  BY <1>2 DEF Sources
<1>4. me \in Process
  <2>1. remote \in [Ref -> Revisions]
    BY DEF IInv, TypeOK
  <2>2. /\ [r \in Ref |-> Missing] \in [Ref -> Revisions \cup {Missing}]
        /\ [r \in Ref |-> {remote[r]}] \in [Ref -> SUBSET Revisions]
        /\ NothingRead \in [Files -> Content \cup {Missing, Torn}]
        /\ 0 \in 0 .. FileCount
        /\ (IF cmd = "codegen" THEN "verifying" ELSE "clearing") \in Syncing \cup Generating
    BY <2>1 DEF NothingRead, Syncing, Generating
  <2>3. QED
    BY <1>2, <2>2 DEF Process
<1>5. /\ me.pc = (IF cmd = "codegen" THEN "verifying" ELSE "clearing")
      /\ me.command = cmd /\ me.config = c /\ me.first = first /\ me.last = last /\ me.source = first
      /\ me.known = [r \in Ref |-> Missing] /\ me.done = 0
      /\ me.during = [r \in Ref |-> {remote[r]}]
  OBVIOUS
<1> HIDE DEF Fresh
<1>6. /\ proc'[p] = me
      /\ \A q \in Procs \ {p} : proc'[q] = proc[q]
      /\ proc' \in [Procs -> Process \cup {Missing}]
  BY <1>2, <1>4 DEF IInv, TypeOK
<1>7. TypeOK'
  <2>1. disturbed' \in [Sources -> BOOLEAN]
    <3>1. \A s \in Sources : (disturbed[s] \/ Clash(cmd, first, last, s)) \in BOOLEAN
      OBVIOUS
    <3> HIDE DEF Clash
    <3>2. QED
      BY <1>2, <3>1
  <2>2. QED
    BY <1>1, <1>6, <2>1 DEF IInv, TypeOK, upstream, directories
<1>8. \A s \in Sources : ~disturbed'[s] => ~disturbed[s] /\ ~Clash(cmd, first, last, s)
  <2> HIDE DEF Clash
  <2>1. QED
    BY <1>2
<1>9. Neutral(p)
  BY <1>1, <1>6, <1>8 DEF Neutral, directories
<1>10. Resolved' /\ StatesWritten'
  BY <1>1 DEF IInv, Resolved, StatesWritten, upstream, directories
<1>11. SpecsHeld'
  BY <1>1, <1>8 DEF IInv, SpecsHeld, directories
<1>12. Alone'
  <2> SUFFICES ASSUME NEW a \in Procs, NEW b \in Procs, NEW s \in Sources,
                      a # b, Uses(a, s)', Uses(b, s)', ~disturbed'[s]
               PROVE  proc'[a].command = "codegen" /\ proc'[b].command = "codegen"
    BY DEF Alone
  <2>1. ~disturbed[s] /\ ~Clash(cmd, first, last, s)
    BY <1>8
  <2>2. \A q \in Procs \ {p} : Uses(q, s)' => Uses(q, s) /\ proc'[q].command = proc[q].command
    BY <1>6 DEF Uses, Runs
  <2>3. Uses(p, s)' => s \in first .. last
    BY <1>5, <1>6 DEF Uses
  <2>4. proc'[p].command = cmd
    BY <1>5, <1>6
  <2>5. CASE a # p /\ b # p
    BY <2>1, <2>2, <2>5 DEF IInv, Alone
  <2>6. CASE a = p
    BY <2>1, <2>2, <2>3, <2>4, <2>6
  <2>7. CASE b = p
    BY <2>1, <2>2, <2>3, <2>4, <2>7
  <2>8. QED
    BY <2>5, <2>6, <2>7
<1>13. ProcessSound(p)'
  <2>1. Placed(p)'
    BY <1>3, <1>5, <1>6 DEF Placed, Syncing, Generating, Resolving, Pinned
  <2>2. Knows(p)'
    <3>1. remote' = remote /\ ever' = ever /\ \A r \in Ref : remote[r] \in ever[r]
      BY <1>1 DEF upstream, IInv, Resolved
    <3>2. \A r \in Ref : me.during[r] = {remote[r]} /\ me.known[r] = Missing
      BY <1>5
    <3>3. proc'[p].pc \in {"clearing", "verifying"}
      BY <1>5, <1>6
    <3>4. QED
      BY <1>6, <3>1, <3>2, <3>3 DEF Knows, Pinned
  <2>3. proc'[p].pc \in {"clearing", "verifying"}
    BY <1>5, <1>6
  <2>4. Writes(p)' /\ Reads(p)'
    BY <2>3 DEF Writes, Reads, Resolving, Pinned
  <2>5. Leaves(p)'
    <3>1. proc'[p].command = "bootstrap" => Settled(p)' = {}
      BY <1>5, <1>6 DEF Settled, Generating, Sources
    <3>2. QED
      BY <2>3, <3>1 DEF Leaves
  <2>6. QED
    BY <2>1, <2>2, <2>4, <2>5 DEF ProcessSound
<1>14. ASSUME NEW q \in Procs, Runs(q)' PROVE ProcessSound(q)'
  <2>1. CASE q = p
    BY <1>13, <2>1
  <2>2. CASE q # p
    BY <1>6, <1>9, <1>14, <2>2, OthersKept DEF Runs
  <2>3. QED
    BY <2>1, <2>2
<1>15. QED
  BY <1>7, <1>10, <1>11, <1>12, <1>14 DEF IInv

LEMMA MoveTagStep == ASSUME IInv, MoveTag PROVE IInv'
<1>1. /\ moves' \in 0 .. MaxMoves
      /\ UNCHANGED <<checkout, directories, commands, stops, disturbed>>
  BY DEF MoveTag, IInv, TypeOK
<1>2. PICK r \in Ref, new \in Revisions :
        /\ remote' = [remote EXCEPT ![r] = new]
        /\ ever' = [ever EXCEPT ![r] = @ \cup {new}]
        /\ proc' = [p \in Procs |->
                      IF Runs(p) THEN [proc[p] EXCEPT !.during[r] = @ \cup {new}] ELSE Missing]
  BY DEF MoveTag
<1>3. /\ remote \in [Ref -> Revisions] /\ ever \in [Ref -> SUBSET Revisions]
      /\ proc \in [Procs -> Process \cup {Missing}]
  BY DEF IInv, TypeOK
<1>4. /\ remote' \in [Ref -> Revisions] /\ ever' \in [Ref -> SUBSET Revisions]
      /\ \A u \in Ref : /\ ever'[u] = IF u = r THEN ever[u] \cup {new} ELSE ever[u]
                        /\ remote'[u] = IF u = r THEN new ELSE remote[u]
                        /\ ever[u] \subseteq ever'[u]
  BY <1>2, <1>3
<1>5. ASSUME NEW p \in Procs, Runs(p)
      PROVE  /\ proc'[p] = [proc[p] EXCEPT !.during = [proc[p].during EXCEPT ![r] = @ \cup {new}]]
             /\ proc'[p] \in Process
             /\ \A u \in Ref : proc'[p].during[u] =
                               IF u = r THEN proc[p].during[u] \cup {new} ELSE proc[p].during[u]
             /\ proc'[p].pc = proc[p].pc /\ proc'[p].command = proc[p].command
             /\ proc'[p].config = proc[p].config /\ proc'[p].first = proc[p].first
             /\ proc'[p].last = proc[p].last /\ proc'[p].source = proc[p].source
             /\ proc'[p].known = proc[p].known /\ proc'[p].clone = proc[p].clone
             /\ proc'[p].sha = proc[p].sha /\ proc'[p].done = proc[p].done
             /\ proc'[p].state = proc[p].state /\ proc'[p].read = proc[p].read
  <2>1. proc[p] \in Process /\ proc[p].during \in [Ref -> SUBSET Revisions]
    BY <1>3, <1>5 DEF Runs, Process
  <2> DEFINE grown == [proc[p].during EXCEPT ![r] = @ \cup {new}]
  <2>2. proc'[p] = [proc[p] EXCEPT !.during = grown]
    BY <1>2, <1>5
  <2>3. /\ grown \in [Ref -> SUBSET Revisions]
        /\ \A u \in Ref : grown[u] = IF u = r THEN proc[p].during[u] \cup {new} ELSE proc[p].during[u]
    BY <2>1
  <2> HIDE DEF grown
  <2>4. proc'[p] \in Process
    BY <2>1, <2>2, <2>3 DEF Process
  <2>5. proc'[p].during = grown
    BY <2>1, <2>2 DEF Process
  <2>6. /\ proc'[p].pc = proc[p].pc /\ proc'[p].command = proc[p].command
        /\ proc'[p].config = proc[p].config /\ proc'[p].first = proc[p].first
        /\ proc'[p].last = proc[p].last /\ proc'[p].source = proc[p].source
        /\ proc'[p].known = proc[p].known /\ proc'[p].clone = proc[p].clone
        /\ proc'[p].sha = proc[p].sha /\ proc'[p].done = proc[p].done
        /\ proc'[p].state = proc[p].state /\ proc'[p].read = proc[p].read
    BY <2>1, <2>2 DEF Process
  <2>7. QED
    BY <2>2, <2>3, <2>4, <2>5, <2>6 DEF grown
<1>6. ASSUME NEW p \in Procs PROVE Runs(p)' <=> Runs(p)
  <2>1. CASE Runs(p)
    BY <1>5, <2>1, NoProcess DEF Runs
  <2>2. CASE ~Runs(p)
    BY <1>2, <2>2 DEF Runs
  <2>3. QED
    BY <2>1, <2>2
<1>7. TypeOK'
  <2>1. proc' \in [Procs -> Process \cup {Missing}]
    <3>1. \A p \in Procs : (IF Runs(p) THEN [proc[p] EXCEPT !.during[r] = @ \cup {new}] ELSE Missing)
                             \in Process \cup {Missing}
      BY <1>2, <1>5
    <3>2. QED
      BY <1>2, <3>1
  <2>2. QED
    BY <1>1, <1>4, <2>1 DEF IInv, TypeOK, directories
<1>8. Resolved'
  BY <1>1, <1>4 DEF IInv, Resolved
<1>9. StatesWritten'
  <2> SUFFICES ASSUME NEW s \in Sources, state[s] \notin {Missing, Torn}
               PROVE  \E pin \in Pin : \E v \in Revisions \cup {NoSHA} :
                        /\ state[s] = StateOf(pin, v)
                        /\ pin # Local => v \in ever'[pin]
    BY <1>1 DEF StatesWritten, directories
  <2>1. PICK pin \in Pin, v \in Revisions \cup {NoSHA} :
          state[s] = StateOf(pin, v) /\ (pin # Local => v \in ever[pin])
    BY DEF IInv, StatesWritten
  <2>2. pin # Local => v \in ever'[pin]
    BY <1>4, <2>1 DEF Pin
  <2>3. QED
    BY <2>1, <2>2
<1>10. SpecsHeld'
  BY <1>1 DEF IInv, SpecsHeld, directories
<1>11. Alone'
  <2> SUFFICES ASSUME NEW a \in Procs, NEW b \in Procs, NEW s \in Sources,
                      a # b, Uses(a, s)', Uses(b, s)', ~disturbed'[s]
               PROVE  proc'[a].command = "codegen" /\ proc'[b].command = "codegen"
    BY DEF Alone
  <2>1. \A q \in Procs : Uses(q, s)' => Uses(q, s) /\ proc'[q].command = proc[q].command
    BY <1>5, <1>6 DEF Uses
  <2>2. QED
    BY <1>1, <2>1 DEF IInv, Alone
<1>12. ASSUME NEW p \in Procs, Runs(p)' PROVE ProcessSound(p)'
  <2>1. Runs(p) /\ ProcessSound(p) /\ proc[p] \in Process /\ PinOf(p)' = PinOf(p)
        /\ (PinOf(p) # Local => PinOf(p) \in Ref)
    BY <1>5, <1>6, <1>12, PinType DEF IInv, PinOf
  <2>2. Placed(p)'
    BY <1>5, <2>1 DEF ProcessSound, Placed
  <2>3. Knows(p)'
    <3>1. \A u \in Ref : /\ remote'[u] \in proc'[p].during[u] /\ proc'[p].during[u] \subseteq ever'[u]
                         /\ proc[p].during[u] \subseteq proc'[p].during[u]
      <4> SUFFICES ASSUME NEW u \in Ref
                   PROVE  /\ remote'[u] \in proc'[p].during[u]
                          /\ proc'[p].during[u] \subseteq ever'[u]
                          /\ proc[p].during[u] \subseteq proc'[p].during[u]
        OBVIOUS
      <4>1. remote[u] \in proc[p].during[u] /\ proc[p].during[u] \subseteq ever[u]
        BY <2>1 DEF ProcessSound, Knows
      <4>2. proc'[p].during[u] = IF u = r THEN proc[p].during[u] \cup {new} ELSE proc[p].during[u]
        BY <1>5, <2>1
      <4>3. CASE u = r
        BY <1>4, <4>1, <4>2, <4>3
      <4>4. CASE u # r
        BY <1>4, <4>1, <4>2, <4>4
      <4>5. QED
        BY <4>3, <4>4
    <3>2. proc[p].pc = "publishing" => PinOf(p) \in Ref
      BY <2>1 DEF ProcessSound, Placed, Resolving
    <3>3. QED
      BY <1>1, <1>5, <2>1, <3>1, <3>2 DEF ProcessSound, Knows
  <2>4. Writes(p)'
    <3>1. SpecsOf(p)' = SpecsOf(p)
      BY <1>1, <2>1 DEF SpecsOf
    <3>2. QED
      BY <1>1, <1>5, <2>1, <3>1 DEF ProcessSound, Writes, Empty, directories
  <2>5. Reads(p)'
    BY <1>1, <1>5, <2>1 DEF ProcessSound, Reads, directories
  <2>6. Leaves(p)'
    <3>1. Settled(p)' = Settled(p)
      BY <1>5, <2>1 DEF Settled
    <3>2. QED
      BY <1>1, <1>5, <2>1, <3>1 DEF ProcessSound, Leaves, directories
  <2>7. QED
    BY <2>2, <2>3, <2>4, <2>5, <2>6 DEF ProcessSound
<1>13. QED
  BY <1>7, <1>8, <1>9, <1>10, <1>11, <1>12 DEF IInv

-----------------------------------------------------------------------------
(* Theorems *)

LEMMA StutterStep == ASSUME IInv, UNCHANGED vars PROVE IInv'
<1>1. (TypeOK /\ Resolved /\ StatesWritten)'
  BY DEF IInv, vars, upstream, directories, TypeOK, Resolved, StatesWritten, PinOf
<1>2. (SpecsHeld /\ Alone)'
  BY DEF IInv, vars, upstream, directories, SpecsHeld, Alone, Runs, Uses, SpecsOf, Empty
<1>3. ASSUME NEW p \in Procs, Runs(p)' PROVE ProcessSound(p)'
  <2>1. ProcessSound(p)
    BY <1>3 DEF IInv, vars, Runs
  <2>2. (Placed(p) /\ Knows(p))'
    BY <2>1 DEF ProcessSound, vars, upstream, Placed, Knows, PinOf
  <2>3. Writes(p)'
    BY <2>1 DEF ProcessSound, vars, directories, Writes, SpecsOf, Empty, PinOf
  <2>4. Reads(p)' /\ Leaves(p)'
    BY <2>1 DEF ProcessSound, vars, directories, Reads, Leaves, Settled, PinOf
  <2>5. QED
    BY <2>2, <2>3, <2>4 DEF ProcessSound
<1>4. QED
  BY <1>1, <1>2, <1>3 DEF IInv

LEMMA NextIInv == IInv /\ [Next]_vars => IInv'
<1> SUFFICES ASSUME IInv, [Next]_vars PROVE IInv'
  OBVIOUS
<1>1. CASE UNCHANGED vars
  BY <1>1, StutterStep
<1>2. CASE MoveTag
  BY <1>2, MoveTagStep
<1>3. ASSUME NEW p \in Procs, Begin(p) \/ Step(p) \/ Stop(p) PROVE IInv'
  BY <1>3, BeginStep, StopStep, RemoveEntryStep, ClearedStep, LookStep, CloneStep, PublishStep,
     CompareStep, CreateStep, WriteStep, RecordStep, SaveStep, VerifyStep, LoadStep, ParseStep,
     RefuseStep, CollectStep
     DEF Step
<1>4. QED
  BY <1>1, <1>2, <1>3 DEF Next

LEMMA SpecIInv == Spec => []IInv
BY InitIInv, NextIInv, PTL DEF Spec

\* Every variable keeps its type.
THEOREM TypeCorrect == Spec => []TypeOK
<1>1. IInv => TypeOK
  BY DEF IInv
<1>2. QED
  BY <1>1, SpecIInv, PTL

\* A sync that finds its tag moved since the checkout was made copies nothing
\* (verifiedRepoSHA), for any number of sources that share checkouts.
THEOREM TagsHeld == Spec => []MovedTagRefused
<1>1. IInv => MovedTagRefused
  BY DEF IInv, MovedTagRefused, Copying, ProcessSound, Knows, Pinned
<1>2. QED
  BY <1>1, SpecIInv, PTL

\* Whoever publishes the checkout of a ref, the revision every sync records for it is
\* that of the checkout it copies from.
THEOREM RecordsKept == Spec => []RecordsCheckout
<1>1. IInv => RecordsCheckout
  BY SMTT(60) DEF IInv, RecordsCheckout, Copying, ProcessSound, Knows, Pinned
<1>2. QED
  BY <1>1, SpecIInv, PTL

\* The rename of a clone never replaces a checkout.
THEOREM CheckoutsFixed == Spec => CheckoutFixed
<1>1. ASSUME IInv, [Next]_vars, NEW r \in Ref, checkout[r] # Missing
      PROVE  checkout'[r] = checkout[r]
  <2>1. ASSUME NEW p \in Procs, Publish(p) PROVE checkout'[r] = checkout[r]
    BY <1>1, <2>1 DEF Publish, IInv, TypeOK
  <2>2. CASE UNCHANGED checkout
    BY <2>2
  <2>3. QED
    BY <1>1, <2>1, <2>2, ZenonT(60)
       DEF Next, vars, Begin, Stop, MoveTag, Step, RemoveEntry, Cleared, Look, Clone, Compare, Create,
           Write, Record, Save, Verify, Load, Parse, Refuse, Collect
<1>2. IInv /\ [Next]_vars => [\A r \in Ref : checkout[r] # Missing => checkout'[r] = checkout[r]]_vars
  BY <1>1
<1>3. QED
  BY <1>2, SpecIInv, PTL DEF Spec, CheckoutFixed

\* The specs codegen compiles in are of the revision it compiles in as their provenance.
THEOREM ProvenanceKept == Spec => []ProvenanceTrue
<1>1. ASSUME IInv, NEW p \in Procs, At(p, "parsed"), ~disturbed[Source(p)], NEW f \in Files
      PROVE  proc[p].read[f] = IF PinOf(p) = Local THEN Working ELSE proc[p].state.sha
  <2>1. ProcessSound(p) /\ PinOf(p) \in Pin
    BY <1>1, PinType DEF IInv, At
  <2>2. Accepts(PinOf(p), proc[p].state) /\ proc[p].read[f] = Held(proc[p].state)
    BY <1>1, <2>1 DEF At, Source, ProcessSound, Placed, Reads, Files
  <2>3. PinOf(p) # Local => PinOf(p).tag # Local
    BY <2>1, Distinct DEF Pin, Ref
  <2>4. QED
    BY <2>2, <2>3 DEF Accepts, Held
<1>2. IInv => ProvenanceTrue
  BY <1>1 DEF ProvenanceTrue
<1>3. QED
  BY <1>2, SpecIInv, PTL

\* That revision is one of the pinned ref of the configured repository, or comes from a
\* repository without a recorded address.
THEOREM PinsKept == Spec => []PinGenerated
<1>1. ASSUME IInv, NEW p \in Procs, At(p, "parsed"), PinOf(p) # Local, ~disturbed[Source(p)],
             proc[p].state.address # NoAddress
      PROVE  proc[p].state.sha \in ever[PinOf(p)]
  <2> DEFINE st == proc[p].state
  <2>1. ProcessSound(p) /\ PinOf(p) \in Ref /\ Source(p) \in Sources
    BY <1>1, PinType DEF IInv, At
  <2>2. Accepts(PinOf(p), st) /\ st = state[Source(p)]
    BY <1>1, <2>1 DEF At, Source, ProcessSound, Reads
  <2>3. PICK pin \in Pin : \E r \in Revisions \cup {NoSHA} :
          st = StateOf(pin, r) /\ (pin # Local => r \in ever[pin])
    <3>1. st \notin {Missing, Torn}
      BY <2>2 DEF Accepts
    <3>2. StatesWritten
      BY <1>1 DEF IInv
    <3>3. QED
      BY <2>1, <2>2, <3>1, <3>2 DEF StatesWritten
  <2>4. PICK r \in Revisions \cup {NoSHA} : st = StateOf(pin, r) /\ (pin # Local => r \in ever[pin])
    BY <2>3
  <2>5. PinOf(p).tag \in Tags /\ PinOf(p).repo \in Repos /\ PinOf(p).tag # Local
    BY <2>1, Distinct DEF Ref
  <2>6. pin # Local
    BY <1>1, <2>2, <2>4, <2>5 DEF Accepts, StateOf
  <2>7. /\ pin \in Ref /\ pin.tag \in Tags /\ pin.repo \in Repos
        /\ st.from = pin.tag /\ st.address = Address[pin.repo] /\ st.sha = r
    BY <2>4, <2>6 DEF Pin, Ref, StateOf
  <2>8. pin.tag = PinOf(p).tag /\ Address[pin.repo] = Address[PinOf(p).repo]
    BY <1>1, <2>2, <2>7 DEF Accepts
  <2>9. pin = PinOf(p)
    BY <1>1, <2>1, <2>5, <2>7, <2>8 DEF Ref
  <2>10. QED
    BY <2>4, <2>6, <2>7, <2>9
<1>2. IInv => PinGenerated
  BY <1>1 DEF PinGenerated
<1>3. QED
  BY <1>2, SpecIInv, PTL

\* A bootstrap that nothing disturbs does not refuse what it has just synced.
THEOREM BootstrapKept == Spec => []BootstrapAccepted
<1>1. IInv => BootstrapAccepted
  BY DEF IInv, BootstrapAccepted, At, Source, ProcessSound, Leaves
<1>2. QED
  BY <1>1, SpecIInv, PTL
=============================================================================
