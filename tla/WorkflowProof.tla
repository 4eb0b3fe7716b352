---------------------------- MODULE WorkflowProof ----------------------------
(***************************************************************************)
(* Proofs about Workflow for any operations, workflows, hosts, contexts    *)
(* and answers, and any number of changes of hosts.yml.                    *)
(***************************************************************************)
EXTENDS Workflow, WellFoundedInduction, TLAPS

-----------------------------------------------------------------------------
(* The first of several: the operators choose the least position that fails *)

LEMMA Least ==
    ASSUME NEW T, T \subseteq Nat, T # {}
    PROVE  \E x \in T : \A y \in T : x <= y
<1> DEFINE R == OpToRel(<, Nat)
<1>1. IsWellFoundedOn(R, Nat)
  BY NatLessThanWellFounded
<1>2. \E x \in T : \A y \in T : ~ (<<y, x>> \in R)
  BY <1>1, WFMin
<1>3. PICK x \in T : \A y \in T : ~ (<<y, x>> \in R)
  BY <1>2
<1>4. ASSUME NEW y \in T PROVE x <= y
  <2>1. ~ (<<y, x>> \in R)
    BY <1>3
  <2>2. ~ (y < x)
    BY <2>1 DEF OpToRel
  <2> QED
    BY <2>2
<1> QED
  BY <1>4

LEMMA FirstIsOne ==
    ASSUME NEW T, T \subseteq Nat, T # {}
    PROVE  (CHOOSE k \in T : \A j \in T : k <= j) \in T
BY Least

LEMMA ListShape ==
    ASSUME NEW s, IsList(s)
    PROVE  Len(s) \in Nat /\ DOMAIN s = 1 .. Len(s) /\ (s # <<>> => Len(s) >= 1)
BY DEF IsList

-----------------------------------------------------------------------------
(* Evaluation *)

\* What codegen lets a run fail for.
Reasons == {Skipped, "unknown input", "no path"}

Modes == {"strict", "condition", "output"}

\* Steps that an expression refers to.
StepsIn(e) == {e[k].name : k \in {j \in DOMAIN e : e[j].part = "ref" /\ e[j].kind = "steps"}}

LEMMA GivesFails == \A text : Gives(text).fails = ""
BY DEF Gives

LEMMA FailsFails == \A reason : Fails(reason).fails = reason
BY DEF Fails

\* The reference goes to an input or to a step that has run or was skipped.
LEMMA RefFails ==
    ASSUME NEW ref, NEW known,
           ref.kind = "input" \/ (ref.kind = "steps" /\ ref.name \in DOMAIN known.steps \cup known.skipped)
    PROVE  /\ RefValue(ref, known).fails \in Reasons \cup {""}
           /\ ref.kind = "steps" /\ ref.name \in known.skipped => RefValue(ref, known).fails = Skipped
<1>1. CASE ref.kind = "input"
  <2>1. CASE ref.name \in DOMAIN known.inputs
    BY <1>1, <2>1, GivesFails DEF RefValue
  <2>2. CASE ref.name \notin DOMAIN known.inputs
    BY <1>1, <2>2, FailsFails DEF RefValue, Reasons
  <2> QED
    BY <1>1, <2>1, <2>2
<1>2. CASE ref.kind = "steps" /\ ref.name \in known.skipped
  BY <1>2, FailsFails DEF RefValue, Reasons
<1>3. CASE ref.kind = "steps" /\ ref.name \notin known.skipped
  <2>1. RefValue(ref, known) =
          IF ~ref.path THEN Gives(known.steps[ref.name].whole)
          ELSE IF known.steps[ref.name].has THEN Gives(known.steps[ref.name].field)
          ELSE Fails("no path")
    BY <1>3 DEF RefValue
  <2> QED
    BY <1>3, <2>1, GivesFails, FailsFails DEF Reasons
<1> QED
  BY <1>1, <1>2, <1>3

LEMMA PartFails ==
    ASSUME NEW e, NEW ins, NEW known, NEW mode \in Modes,
           RefsKnown(e, ins, DOMAIN known.steps \cup known.skipped),
           NEW k \in DOMAIN e
    PROVE  /\ PartValue(e[k], known, mode).fails \in Reasons \cup {""}
           /\ mode # "output" /\ e[k].part = "ref" /\ e[k].kind = "steps" /\ e[k].name \in known.skipped =>
                PartValue(e[k], known, mode).fails = Skipped
<1>1. CASE e[k].part = "text"
  BY <1>1, GivesFails DEF PartValue
<1>2. CASE e[k].part = "ref"
  <2> DEFINE value == RefValue(e[k], known)
  <2>1. /\ e[k].kind = "input" \/ (e[k].kind = "steps" /\ e[k].name \in DOMAIN known.steps \cup known.skipped)
    BY <1>2 DEF RefsKnown
  <2>2. /\ value.fails \in Reasons \cup {""}
        /\ e[k].kind = "steps" /\ e[k].name \in known.skipped => value.fails = Skipped
    BY <2>1, RefFails
  <2>3. PartValue(e[k], known, mode) =
          IF value.fails = "" THEN value
          ELSE IF mode = "output" /\ value.fails = Skipped THEN Gives(<<"null">>)
          ELSE IF mode = "condition" /\ value.fails # Skipped THEN Gives(<<>>)
          ELSE value
    BY <1>2 DEF PartValue
  <2> HIDE DEF value
  <2> QED
    BY <2>2, <2>3, GivesFails DEF Skipped
<1> QED
  BY <1>1, <1>2 DEF RefsKnown

\* A text fails for what one of its parts fails for, and only then.
LEMMA StringFails ==
    ASSUME NEW e, IsList(e), NEW ins, NEW known, NEW mode \in Modes,
           RefsKnown(e, ins, DOMAIN known.steps \cup known.skipped)
    PROVE  /\ EvalString(e, known, mode).fails \in Reasons \cup {""}
           /\ mode # "output" /\ EvalString(e, known, mode).fails = "" => StepsIn(e) \cap known.skipped = {}
<1> DEFINE values == [k \in DOMAIN e |-> PartValue(e[k], known, mode)]
           failing == {k \in DOMAIN e : values[k].fails # ""}
           first == CHOOSE k \in failing : \A j \in failing : k <= j
<1>1. EvalString(e, known, mode) =
        IF failing = {} THEN Gives(FlattenSeq([k \in DOMAIN e |-> values[k].text])) ELSE values[first]
  BY DEF EvalString
<1>2. \A k \in DOMAIN e :
        /\ values[k].fails \in Reasons \cup {""}
        /\ mode # "output" /\ e[k].part = "ref" /\ e[k].kind = "steps" /\ e[k].name \in known.skipped =>
             values[k].fails = Skipped
  BY PartFails
<1>3. failing # {} => first \in failing
  <2>1. failing \subseteq DOMAIN e
    OBVIOUS
  <2> HIDE DEF failing
  <2>2. Len(e) \in Nat /\ DOMAIN e = 1 .. Len(e)
    BY ListShape
  <2>3. failing \subseteq Nat
    BY <2>1, <2>2
  <2> QED
    BY <2>3, FirstIsOne
<1> HIDE DEF values, first
<1>4. failing = {} => EvalString(e, known, mode).fails = ""
  BY <1>1, GivesFails
<1>5. failing # {} => EvalString(e, known, mode).fails \in Reasons
  BY <1>1, <1>2, <1>3
<1>6. mode # "output" /\ StepsIn(e) \cap known.skipped # {} => failing # {}
  BY <1>2 DEF StepsIn, Skipped
<1>7. "" \notin Reasons
  BY DEF Reasons, Skipped
<1> QED
  BY <1>4, <1>5, <1>6, <1>7

\* A value that is not misread fails for what its text or its one reference fails for;
\* one that is misread always fails.
LEMMA ValueFails ==
    ASSUME NEW e, IsList(e), NEW ins, NEW known, NEW mode \in {"strict", "output"},
           RefsKnown(e, ins, DOMAIN known.steps \cup known.skipped)
    PROVE  /\ WellRead(e) => EvalValue(e, known, mode).fails \in Reasons \cup {""}
           /\ mode = "strict" /\ EvalValue(e, known, mode).fails = "" => StepsIn(e) \cap known.skipped = {}
<1>1. CASE ~Sole(e)
  BY <1>1, StringFails DEF EvalValue, Modes
<1>2. CASE Sole(e) /\ Len(e) = 1
  <2>1. 1 \in DOMAIN e /\ DOMAIN e = {1} /\ e[1].part = "ref"
    BY <1>2, ListShape DEF Sole
  <2>2. e[1].kind = "input" \/ (e[1].kind = "steps" /\ e[1].name \in DOMAIN known.steps \cup known.skipped)
    BY <2>1 DEF RefsKnown
  <2>3. EvalValue(e, known, mode) = RefValue(e[1], known)
    BY <1>2 DEF EvalValue
  <2>4. /\ RefValue(e[1], known).fails \in Reasons \cup {""}
        /\ e[1].kind = "steps" /\ e[1].name \in known.skipped => RefValue(e[1], known).fails = Skipped
    BY <2>2, RefFails
  <2> QED
    BY <2>1, <2>3, <2>4 DEF StepsIn, Skipped
<1>3. CASE Sole(e) /\ Len(e) # 1
  <2>1. Len(e) > 1
    <3>1. Len(e) >= 1
      BY <1>3 DEF Sole
    <3>2. Len(e) \in Nat
      BY ListShape
    <3> DEFINE n == Len(e)
    <3> HIDE DEF n
    <3>3. n \in Nat /\ n >= 1 /\ n # 1
      BY <1>3, <3>1, <3>2 DEF n
    <3>4. n > 1
      BY <3>3
    <3> QED
      BY <3>4 DEF n
  <2>2. ~WellRead(e)
    BY <1>3, <2>1 DEF WellRead
  <2>3. EvalValue(e, known, mode) = Misread(e, known)
    BY <1>3 DEF EvalValue
  <2>4. Misread(e, known).fails # ""
    <3>1. CASE e[1].kind = "steps" /\ e[1].path
      BY <3>1, FailsFails DEF Misread
    <3>2. CASE ~(e[1].kind = "steps" /\ e[1].path)
      BY <3>2, FailsFails DEF Misread
    <3> QED
      BY <3>1, <3>2
  <2> QED
    BY <2>2, <2>3, <2>4
<1> QED
  BY <1>1, <1>2, <1>3

\* Conditions match only when all do.
LEMMA ConditionsMatch ==
    ASSUME NEW conditions, IsList(conditions), NEW ins, NEW known,
           \A k \in DOMAIN conditions :
             IsList(conditions[k].value) /\ RefsKnown(conditions[k].value, ins, DOMAIN known.steps \cup known.skipped),
           EvalConditions(conditions, known) = "matches"
    PROVE  \A k \in DOMAIN conditions : StepsIn(conditions[k].value) \cap known.skipped = {}
<1> DEFINE results == [k \in DOMAIN conditions |-> Condition(conditions[k], known)]
           stopping == {k \in DOMAIN conditions : results[k] # "matches"}
           first == CHOOSE k \in stopping : \A j \in stopping : k <= j
<1>1. EvalConditions(conditions, known) = IF stopping = {} THEN "matches" ELSE results[first]
  BY DEF EvalConditions
<1>2. stopping # {} => first \in stopping
  <2>1. stopping \subseteq DOMAIN conditions
    OBVIOUS
  <2> HIDE DEF stopping
  <2>2. Len(conditions) \in Nat /\ DOMAIN conditions = 1 .. Len(conditions)
    BY ListShape
  <2>3. stopping \subseteq Nat
    BY <2>1, <2>2
  <2> QED
    BY <2>3, FirstIsOne
<1>3. stopping = {}
  <2> HIDE DEF results, first
  <2> QED
    BY <1>1, <1>2
<1>4. ASSUME NEW k \in DOMAIN conditions PROVE StepsIn(conditions[k].value) \cap known.skipped = {}
  <2> DEFINE actual == EvalString(conditions[k].value, known, "condition")
  <2>1. Condition(conditions[k], known) = "matches"
    BY <1>3
  <2>2. actual.fails \in Reasons \cup {""}
    BY StringFails DEF Modes
  <2>3. actual.fails = ""
    BY <2>1, <2>2 DEF Condition, Reasons, Skipped
  <2> QED
    BY <2>3, StringFails DEF Modes
<1> QED
  BY <1>4

\* The input of an operation fails for a parameter or a set, or all of them are there.
LEMMA InputFails ==
    ASSUME NEW s, IsList(s.sets), NEW ins, NEW known,
           \A e \in Exprs(s) : IsList(e) /\ RefsKnown(e, ins, DOMAIN known.steps \cup known.skipped)
    PROVE  /\ (\A e \in Exprs(s) : WellRead(e)) => InputFailures(s, known) \subseteq Reasons
           /\ InputFailures(s, known) = {} =>
                /\ \A e \in ParamExprs(s) : StepsIn(e) \cap known.skipped = {}
                /\ \A k \in DOMAIN s.sets : StepsIn(s.sets[k]) \cap known.skipped = {}
<1> DEFINE params == {EvalValue(e, known, "strict").fails : e \in ParamExprs(s)} \ {""}
           sets == [k \in DOMAIN s.sets |-> EvalString(s.sets[k], known, "strict").fails]
           failing == {k \in DOMAIN s.sets : sets[k] # ""}
           first == CHOOSE k \in failing : \A j \in failing : k <= j
<1>1. InputFailures(s, known) = IF params # {} THEN params ELSE IF failing # {} THEN {sets[first]} ELSE {}
  BY DEF InputFailures
<1>2. failing # {} => first \in failing
  <2>1. failing \subseteq DOMAIN s.sets
    OBVIOUS
  <2> HIDE DEF failing
  <2>2. Len(s.sets) \in Nat /\ DOMAIN s.sets = 1 .. Len(s.sets)
    BY ListShape
  <2>3. failing \subseteq Nat
    BY <2>1, <2>2
  <2> QED
    BY <2>3, FirstIsOne
<1>3. ParamExprs(s) \subseteq Exprs(s) /\ \A k \in DOMAIN s.sets : s.sets[k] \in Exprs(s)
  BY DEF Exprs
<1>4. ASSUME NEW e \in ParamExprs(s)
      PROVE  /\ WellRead(e) => EvalValue(e, known, "strict").fails \in Reasons \cup {""}
             /\ EvalValue(e, known, "strict").fails = "" => StepsIn(e) \cap known.skipped = {}
  BY <1>3, ValueFails
<1>5. ASSUME NEW k \in DOMAIN s.sets
      PROVE  /\ sets[k] \in Reasons \cup {""}
             /\ sets[k] = "" => StepsIn(s.sets[k]) \cap known.skipped = {}
  BY <1>3, StringFails DEF Modes
<1>6. ASSUME \A e \in Exprs(s) : WellRead(e)
      PROVE  InputFailures(s, known) \subseteq Reasons
  <2>1. params \subseteq Reasons
    BY <1>3, <1>4, <1>6
  <2> HIDE DEF params, sets, first
  <2>2. failing # {} => sets[first] \in Reasons
    BY <1>2, <1>5
  <2> QED
    BY <1>1, <2>1, <2>2
<1>7. ASSUME InputFailures(s, known) = {}
      PROVE  /\ \A e \in ParamExprs(s) : StepsIn(e) \cap known.skipped = {}
             /\ \A k \in DOMAIN s.sets : StepsIn(s.sets[k]) \cap known.skipped = {}
  <2>1. params = {} /\ failing = {}
    <3> HIDE DEF params, failing, sets, first
    <3> QED
      BY <1>1, <1>7
  <2>2. \A e \in ParamExprs(s) : EvalValue(e, known, "strict").fails = ""
    BY <2>1
  <2>3. \A k \in DOMAIN s.sets : sets[k] = ""
    BY <2>1
  <2> HIDE DEF params, failing, sets, first
  <2> QED
    BY <1>4, <1>5, <2>2, <2>3
<1> QED
  BY <1>6, <1>7

-----------------------------------------------------------------------------
(* The inductive invariant *)

Working == {"evaluating", "resolving", "reading", "authorizing", "invoking", "saving"}

Entries ==
    [id : {command.steps[i].id : i \in DOMAIN command.steps},
     status : {"ok", "skipped", "failed", "paused"}]

Shapes ==
    /\ seen = [inputs |-> seen.inputs, steps |-> seen.steps, skipped |-> seen.skipped]
    /\ summary \in Seq(Entries)

HostsFile == hosts = [selected |-> hosts.selected, context |-> hosts.context]

\* What codegen has accepted of the command that runs.
Compiled ==
    pc # "refused" =>
        /\ Len(command.steps) >= 1
        /\ \A i, j \in DOMAIN command.steps : command.steps[i].id = command.steps[j].id => i = j
        /\ \A i \in DOMAIN command.steps : \A e \in Exprs(command.steps[i]) :
             RefsKnown(e, command.inputs, EarlierIds(command.steps, i))
        /\ RefsKnown(command.output, command.inputs, {command.steps[j].id : j \in DOMAIN command.steps})

\* How far the run is, by its steps and by what it has reported.
Position ==
    /\ pc = "refused" => step = 1 /\ summary = <<>> /\ status = "ok"
    /\ pc \in Working => step <= Len(command.steps) /\ Len(summary) = step - 1 /\ status = "ok"
    /\ pc = "output" => step = Len(command.steps) + 1 /\ Len(summary) = step - 1 /\ status = "ok"
    /\ pc = "over" /\ status = "ok" => step = Len(command.steps) + 1 /\ Len(summary) = step - 1
    /\ pc = "over" /\ status # "ok" =>
         step <= Len(command.steps) /\ Len(summary) = step /\ summary[step].status = status

\* Only the last step that is reported may have failed.
Listed ==
    /\ Len(summary) <= Len(command.steps)
    /\ \A i \in DOMAIN summary :
         /\ summary[i].id = command.steps[i].id
         /\ i < Len(summary) \/ status = "ok" => summary[i].status \in {"ok", "skipped"}

\* The steps that are reported ok are the ones with a value.
Reported(s) == {summary[i].id : i \in {j \in DOMAIN summary : summary[j].status = s}}

Remembered == DOMAIN seen.steps = Reported("ok") /\ seen.skipped = Reported("skipped")

Core == Shapes /\ Compiled /\ Position /\ Listed /\ Remembered

\* What the step at hand reads has run, and its request is only made once.
Ready ==
    /\ pc \in Working \ {"evaluating"} => Reads(step) \subseteq DOMAIN seen.steps
    /\ pc = "saving" => Call \in calls

Requested ==
    \A k \in calls :
        /\ k.step \in 1 .. step /\ k.step <= Len(command.steps)
        /\ k.step = step => pc \in {"saving", "over"}
        /\ k.step \in DOMAIN summary => summary[k.step].status # "skipped"

IInv == TypeOK /\ HostsFile /\ Core /\ Ready /\ Requested /\ ReadsRan /\ ReferencesKnown

LEMMA CommandLists ==
    ASSUME TypeOK
    PROVE  /\ Sequential(command)
           /\ Len(command.steps) \in Nat /\ DOMAIN command.steps = 1 .. Len(command.steps)
           /\ command.steps # <<>> => Len(command.steps) >= 1
           /\ step \in Nat
<1>1. Sequential(command)
  BY WorkflowAssumption DEF TypeOK
<1>2. IsList(command.steps)
  BY <1>1 DEF Sequential
<1>3. /\ Len(command.steps) \in Nat /\ DOMAIN command.steps = 1 .. Len(command.steps)
      /\ command.steps # <<>> => Len(command.steps) >= 1
  BY <1>2, ListShape
<1> HIDE DEF IsList
<1> QED
  BY <1>1, <1>3 DEF TypeOK

LEMMA Initially == Init => IInv
<1> SUFFICES ASSUME Init PROVE IInv
  OBVIOUS
<1>1. PICK file \in Commands : command = file[1] /\ pc = IF Compiles(file) THEN "evaluating" ELSE "refused"
  BY DEF Init
<1>2. Sequential(command) /\ 1 \in DOMAIN file
  BY <1>1, WorkflowAssumption
<1>3. Len(command.steps) \in Nat /\ DOMAIN command.steps = 1 .. Len(command.steps)
  BY <1>2, ListShape DEF Sequential
<1>30. command.steps # <<>> => Len(command.steps) >= 1
  BY <1>2, ListShape DEF Sequential
<1>4. step = 1 /\ status = "ok" /\ edits = 0 /\ calls = {}
  BY DEF Init
<1>44. why = ""
  BY DEF Init
<1>40. summary = <<>>
  BY DEF Init
<1>41. summary \in Seq(Entries) /\ Len(summary) = 0 /\ DOMAIN summary = {}
  BY <1>40
<1>42. /\ seen = [inputs |-> seen.inputs, steps |-> seen.steps, skipped |-> seen.skipped]
       /\ DOMAIN seen.steps = {} /\ seen.skipped = {}
  <2>1. seen = [inputs |-> inputs, steps |-> << >>, skipped |-> {}]
    BY DEF Init
  <2>2. /\ seen = [inputs |-> seen.inputs, steps |-> seen.steps, skipped |-> seen.skipped]
        /\ seen.steps = << >> /\ seen.skipped = {}
    BY <2>1
  <2> QED
    BY <2>2
<1>43. hosts \in [selected : Hosts, context : [Hosts -> Values \cup {Unset}]]
  BY DEF Init
<1>5. TypeOK
  <2>1. pc \in Places /\ explicit \in Hosts \cup {NoHost} /\ host \in Hosts \cup {NoHost}
           /\ answer \in Answers \cup {NoAnswer}
    BY <1>1 DEF Init, Places
  <2>2. command \in {c[1] : c \in Commands}
    BY <1>1
  <2>3. DOMAIN seen.steps \cap seen.skipped = {}
    BY <1>42
  <2>4. step \in 1 .. Len(command.steps) + 1
    BY <1>3, <1>4
  <2>6. hosts.selected \in Hosts /\ DOMAIN hosts.context = Hosts
    BY <1>43
  <2>7. status \in {"ok", "failed", "paused"}
    BY <1>4
  <2>5. edits \in 0 .. MaxEdits
    <3>1. MaxEdits \in Nat
      BY WorkflowAssumption
    <3> QED
      BY <1>4, <3>1
  <2> QED
    BY <2>1, <2>2, <2>3, <2>4, <2>5, <2>6, <2>7 DEF TypeOK
<1>6. HostsFile
  BY <1>43 DEF HostsFile
<1>7. Compiled
  <2> SUFFICES ASSUME Compiles(file) PROVE Compiled
    BY <1>1 DEF Compiled
  <2>1. command.steps # <<>> /\ \A i, j \in DOMAIN command.steps : command.steps[i].id = command.steps[j].id => i = j
    BY <1>1, <1>2 DEF Compiles, NormalizeWorkflow, NormalSteps, Injective
  <2>2. \A i \in DOMAIN command.steps : StepAccepted(command, i)
    BY <1>1, <1>2 DEF Compiles, BuildWorkflowSpecs
  <2>3. RefsKnown(command.output, command.inputs, {command.steps[j].id : j \in DOMAIN command.steps})
    BY <1>1, <1>2 DEF Compiles, BuildWorkflowSpecs
  <2> QED
    BY <1>30, <2>1, <2>2, <2>3 DEF Compiled, StepAccepted
<1>8. Shapes /\ Listed /\ Remembered
  <2>1. Shapes
    BY <1>41, <1>42 DEF Shapes
  <2>2. Listed
    BY <1>3, <1>41 DEF Listed
  <2>3. Remembered
    BY <1>41, <1>42 DEF Remembered, Reported
  <2> QED
    BY <2>1, <2>2, <2>3
<1>9. Position
  <2>1. pc \in {"evaluating", "refused"} /\ (pc = "evaluating" => Len(command.steps) >= 1)
    BY <1>1, <1>7 DEF Compiled
  <2> QED
    BY <1>3, <1>4, <1>40, <1>41, <2>1 DEF Position, Working
<1>10. Ready /\ Requested /\ ReadsRan /\ ReferencesKnown
  <2>1. pc \in {"evaluating", "refused"}
    BY <1>1
  <2>2. Ready
    BY <2>1 DEF Ready, Working
  <2>3. Requested /\ ReadsRan
    BY <1>4 DEF Requested, ReadsRan
  <2>4. ReferencesKnown
    BY <1>44 DEF ReferencesKnown
  <2> QED
    BY <2>2, <2>3, <2>4
<1> QED
  BY <1>5, <1>6, <1>7, <1>8, <1>9, <1>10 DEF IInv, Core

-----------------------------------------------------------------------------
(* What a step does to the result *)

\* Reporting adds the step at hand at the end.
LEMMA ReportAdds ==
    ASSUME TypeOK, Shapes, Position, pc \in Working,
           NEW s \in {"ok", "skipped", "failed", "paused"}, Report(s), command' = command
    PROVE  /\ step \in 1 .. Len(command.steps) /\ step \in DOMAIN command.steps
           /\ Len(summary) = step - 1 /\ Len(summary') = step
           /\ DOMAIN summary = 1 .. step - 1 /\ DOMAIN summary' = 1 .. step
           /\ \A i \in 1 .. step - 1 : summary'[i] = summary[i]
           /\ summary'[step].id = Step.id /\ summary'[step].status = s
           /\ (summary \in Seq(Entries))'
<1> DEFINE entry == [id |-> Step.id, status |-> s]
           n == Len(command.steps)
<1>1. n \in Nat /\ DOMAIN command.steps = 1 .. n /\ step \in 1 .. n + 1
  BY CommandLists DEF TypeOK
<1>2. step <= n /\ Len(summary) = step - 1
  BY DEF Position
<1> HIDE DEF n
<1>3. step \in 1 .. n /\ step \in DOMAIN command.steps
  BY <1>1, <1>2
<1>4. entry \in Entries
  BY <1>3 DEF Entries, Step
<1>5. summary \in Seq(Entries) /\ summary' = Append(summary, entry)
  BY DEF Shapes, Report
<1>6. entry.id = Step.id /\ entry.status = s
  OBVIOUS
<1> HIDE DEF entry
<1>7. /\ Len(summary') = Len(summary) + 1 /\ summary' \in Seq(Entries)
      /\ \A i \in 1 .. Len(summary) : summary'[i] = summary[i]
      /\ summary'[Len(summary) + 1] = entry
      /\ DOMAIN summary = 1 .. Len(summary) /\ DOMAIN summary' = 1 .. Len(summary')
  BY <1>4, <1>5
<1>8. Entries' = Entries
  BY DEF Entries
<1> QED
  BY <1>2, <1>3, <1>6, <1>7, <1>8 DEF n

LEMMA CompiledStays ==
    ASSUME Compiled, command' = command, pc # "refused"
    PROVE  Compiled'
BY DEF Compiled

\* A step that reports nothing.
LEMMA Quiet ==
    ASSUME TypeOK, Core, pc \in Working, pc' \in Working,
           command' = command, UNCHANGED <<step, seen, summary, status>>
    PROVE  Core'
<1>1. pc # "refused" /\ pc' # "refused" /\ pc' # "output" /\ pc' # "over"
  BY DEF Working
<1>2. Compiled'
  BY <1>1, CompiledStays DEF Core
<1>3. Position'
  BY <1>1 DEF Core, Position
<1>4. Shapes' /\ Listed' /\ Remembered'
  BY DEF Core, Shapes, Entries, Listed, Remembered, Reported
<1> QED
  BY <1>2, <1>3, <1>4 DEF Core

\* A step that ends the run.
LEMMA Stops ==
    ASSUME TypeOK, Core, pc \in Working, NEW s \in {"failed", "paused"}, Report(s),
           status' = s, pc' = "over", command' = command, UNCHANGED <<step, seen>>
    PROVE  Core'
<1>1. /\ step \in 1 .. Len(command.steps) /\ step \in DOMAIN command.steps
      /\ Len(summary) = step - 1 /\ Len(summary') = step
      /\ DOMAIN summary = 1 .. step - 1 /\ DOMAIN summary' = 1 .. step
      /\ \A i \in 1 .. step - 1 : summary'[i] = summary[i]
      /\ summary'[step].id = Step.id /\ summary'[step].status = s
      /\ (summary \in Seq(Entries))'
  BY ReportAdds DEF Core
<1>2. Len(command.steps) \in Nat /\ status = "ok"
  BY CommandLists DEF Core, Position
<1>3. Compiled'
  BY CompiledStays DEF Core, Working
<1>4. Shapes'
  BY <1>1 DEF Core, Shapes
<1>5. Position'
  BY <1>1, <1>2 DEF Position, Working
<1>6. Listed'
  <2>1. Len(summary') <= Len(command.steps)
    BY <1>1, <1>2
  <2>2. ASSUME NEW i \in DOMAIN summary'
        PROVE  /\ summary'[i].id = command.steps[i].id
               /\ i < Len(summary') \/ status' = "ok" => summary'[i].status \in {"ok", "skipped"}
    <3>1. CASE i = step
      BY <1>1, <3>1 DEF Step
    <3>2. CASE i # step
      <4>1. i \in DOMAIN summary /\ summary'[i] = summary[i]
        BY <1>1, <3>2
      <4> QED
        BY <1>2, <4>1 DEF Core, Listed
    <3> QED
      BY <3>1, <3>2
  <2> QED
    BY <2>1, <2>2 DEF Listed
<1>7. Remembered'
  <2>1. ASSUME NEW r \in {"ok", "skipped"} PROVE Reported(r)' = Reported(r)
    <3>1. {j \in DOMAIN summary' : summary'[j].status = r} = {j \in DOMAIN summary : summary[j].status = r}
      BY <1>1
    <3>2. \A j \in DOMAIN summary : summary'[j] = summary[j]
      BY <1>1
    <3> QED
      BY <3>1, <3>2 DEF Reported
  <2> QED
    BY <2>1 DEF Core, Remembered
<1> QED
  BY <1>3, <1>4, <1>5, <1>6, <1>7 DEF Core

\* A step after which the next one runs.
LEMMA Advances ==
    ASSUME TypeOK, Core, pc \in Working, NEW s \in {"ok", "skipped"}, Report(s), NextStep,
           UNCHANGED status, command' = command,
           seen' = [inputs |-> seen'.inputs, steps |-> seen'.steps, skipped |-> seen'.skipped],
           DOMAIN seen'.steps = DOMAIN seen.steps \cup (IF s = "ok" THEN {Step.id} ELSE {}),
           seen'.skipped = seen.skipped \cup (IF s = "skipped" THEN {Step.id} ELSE {})
    PROVE  Core'
<1>1. /\ step \in 1 .. Len(command.steps) /\ step \in DOMAIN command.steps
      /\ Len(summary) = step - 1 /\ Len(summary') = step
      /\ DOMAIN summary = 1 .. step - 1 /\ DOMAIN summary' = 1 .. step
      /\ \A i \in 1 .. step - 1 : summary'[i] = summary[i]
      /\ summary'[step].id = Step.id /\ summary'[step].status = s
      /\ (summary \in Seq(Entries))'
  BY ReportAdds DEF Core
<1>2. Len(command.steps) \in Nat /\ status = "ok"
  BY CommandLists DEF Core, Position
<1>3. step' = step + 1 /\ pc' = IF step = Len(command.steps) THEN "output" ELSE "evaluating"
  BY DEF NextStep
<1>4. Compiled'
  BY CompiledStays DEF Core, Working
<1>5. Shapes'
  BY <1>1 DEF Core, Shapes
<1>6. Position'
  BY <1>1, <1>2, <1>3 DEF Position, Working
<1>7. Listed'
  <2>1. Len(summary') <= Len(command.steps)
    BY <1>1, <1>2
  <2>2. ASSUME NEW i \in DOMAIN summary'
        PROVE  summary'[i].id = command.steps[i].id /\ summary'[i].status \in {"ok", "skipped"}
    <3>1. CASE i = step
      BY <1>1, <3>1 DEF Step
    <3>2. CASE i # step
      <4>1. i \in DOMAIN summary /\ summary'[i] = summary[i]
        BY <1>1, <3>2
      <4> QED
        BY <1>2, <4>1 DEF Core, Listed
    <3> QED
      BY <3>1, <3>2
  <2> QED
    BY <2>1, <2>2 DEF Listed
<1>8. Remembered'
  <2>1. ASSUME NEW r \in {"ok", "skipped"}
        PROVE  Reported(r)' = Reported(r) \cup (IF s = r THEN {Step.id} ELSE {})
    <3>1. {j \in DOMAIN summary' : summary'[j].status = r} =
            {j \in DOMAIN summary : summary[j].status = r} \cup (IF s = r THEN {step} ELSE {})
      BY <1>1
    <3>2. \A j \in DOMAIN summary : summary'[j] = summary[j]
      BY <1>1
    <3> QED
      BY <1>1, <3>1, <3>2 DEF Reported
  <2> QED
    BY <2>1 DEF Core, Remembered
<1> QED
  BY <1>4, <1>5, <1>6, <1>7, <1>8 DEF Core

-----------------------------------------------------------------------------
(* What a step may read *)

LEMMA Scope ==
    ASSUME TypeOK, Core, pc \in Working
    PROVE  /\ EarlierIds(command.steps, step) = DOMAIN seen.steps \cup seen.skipped
           /\ Step.id \notin DOMAIN seen.steps \cup seen.skipped
<1>1. /\ Len(command.steps) \in Nat /\ DOMAIN command.steps = 1 .. Len(command.steps) /\ step \in Nat
      /\ step <= Len(command.steps) /\ Len(summary) = step - 1 /\ status = "ok"
  BY CommandLists DEF Core, Position
<1>2. summary \in Seq(Entries)
  BY DEF Core, Shapes
<1>3. DOMAIN summary = 1 .. step - 1
  BY <1>1, <1>2
<1>4. \A i \in 1 .. step - 1 : summary[i].id = command.steps[i].id /\ summary[i].status \in {"ok", "skipped"}
  BY <1>1, <1>3 DEF Core, Listed
<1>5. EarlierIds(command.steps, step) = Reported("ok") \cup Reported("skipped")
  BY <1>3, <1>4 DEF EarlierIds, Reported
<1>6. Step.id \notin EarlierIds(command.steps, step)
  <2>1. \A j \in 1 .. step - 1 : command.steps[j].id # command.steps[step].id
    <3> SUFFICES ASSUME NEW j \in 1 .. step - 1 PROVE command.steps[j].id # command.steps[step].id
      OBVIOUS
    <3>1. j \in DOMAIN command.steps /\ step \in DOMAIN command.steps /\ j # step
      BY <1>1
    <3>2. pc # "refused"
      BY DEF Working
    <3> QED
      BY <3>1, <3>2 DEF Core, Compiled
  <2> QED
    BY <2>1 DEF EarlierIds, Step
<1> QED
  BY <1>5, <1>6 DEF Core, Remembered

LEMMA StepScope ==
    ASSUME TypeOK, Core, pc \in Working
    PROVE  /\ step \in DOMAIN command.steps
           /\ IsList(Step.when) /\ IsList(Step.sets)
           /\ \A e \in Exprs(Step) :
                IsList(e) /\ RefsKnown(e, command.inputs, DOMAIN seen.steps \cup seen.skipped)
<1>1. /\ Len(command.steps) \in Nat /\ DOMAIN command.steps = 1 .. Len(command.steps)
      /\ step \in 1 .. Len(command.steps) + 1 /\ step <= Len(command.steps)
  BY CommandLists DEF TypeOK, Core, Position
<1>2. step \in DOMAIN command.steps
  BY <1>1
<1>3. IsList(Step.when) /\ IsList(Step.sets) /\ \A e \in Exprs(Step) : IsList(e)
  BY <1>2, CommandLists DEF Sequential, Step
<1>4. \A e \in Exprs(Step) : RefsKnown(e, command.inputs, EarlierIds(command.steps, step))
  BY <1>2 DEF Core, Compiled, Working, Step
<1> QED
  BY <1>2, <1>3, <1>4, Scope

\* A request is only made when everything that its step reads has run.
LEMMA EvaluatedReads ==
    ASSUME TypeOK, Core, pc \in Working,
           EvalConditions(Step.when, seen) = "matches", InputFailures(Step, seen) = {}
    PROVE  Reads(step) \subseteq DOMAIN seen.steps
<1>1. /\ IsList(Step.when) /\ IsList(Step.sets)
      /\ \A e \in Exprs(Step) : IsList(e) /\ RefsKnown(e, command.inputs, DOMAIN seen.steps \cup seen.skipped)
  BY StepScope
<1>2. \A k \in DOMAIN Step.when : Step.when[k].value \in Exprs(Step)
  BY DEF Exprs
<1>3. \A k \in DOMAIN Step.when : StepsIn(Step.when[k].value) \cap seen.skipped = {}
  BY <1>1, <1>2, ConditionsMatch
<1>4. /\ \A e \in ParamExprs(Step) : StepsIn(e) \cap seen.skipped = {}
      /\ \A k \in DOMAIN Step.sets : StepsIn(Step.sets[k]) \cap seen.skipped = {}
  BY <1>1, InputFails
<1>5. \A e \in Exprs(Step) : StepsIn(e) \cap seen.skipped = {}
  BY <1>3, <1>4 DEF Exprs
<1>6. \A e \in Exprs(Step) : StepsIn(e) \subseteq DOMAIN seen.steps \cup seen.skipped
  BY <1>1 DEF RefsKnown, StepsIn
<1>7. Reads(step) = UNION {StepsIn(e) : e \in Exprs(Step)}
  BY DEF Reads, StepsIn, Step
<1> QED
  BY <1>5, <1>6, <1>7

LEMMA EvaluatedReasons ==
    ASSUME TypeOK, Core, pc \in Working, \A e \in Exprs(Step) : WellRead(e)
    PROVE  InputFailures(Step, seen) \subseteq Reasons
BY StepScope, InputFails

\* When all steps are done the output may refer to each.
LEMMA OutputReasons ==
    ASSUME TypeOK, Core, pc = "output", WellRead(command.output)
    PROVE  EvalValue(command.output, seen, "output").fails \in Reasons \cup {""}
<1>1. /\ Len(command.steps) \in Nat /\ DOMAIN command.steps = 1 .. Len(command.steps)
      /\ Len(summary) = Len(command.steps) /\ status = "ok"
  BY CommandLists DEF Core, Position
<1>2. summary \in Seq(Entries)
  BY DEF Core, Shapes
<1>3. DOMAIN summary = DOMAIN command.steps
  BY <1>1, <1>2
<1>4. \A i \in DOMAIN summary : summary[i].id = command.steps[i].id /\ summary[i].status \in {"ok", "skipped"}
  BY <1>1 DEF Core, Listed
<1>5. {command.steps[j].id : j \in DOMAIN command.steps} = Reported("ok") \cup Reported("skipped")
  BY <1>3, <1>4 DEF Reported
<1>6. RefsKnown(command.output, command.inputs, DOMAIN seen.steps \cup seen.skipped)
  BY <1>5 DEF Core, Compiled, Remembered
<1>7. IsList(command.output)
  BY CommandLists DEF Sequential
<1> QED
  BY <1>6, <1>7, ValueFails
-----------------------------------------------------------------------------
(* Requests *)

\* The steps that are reported ok are among the ones before the step at hand.
LEMMA RanBefore ==
    ASSUME TypeOK, Core, pc \in Working, NEW id \in DOMAIN seen.steps
    PROVE  \E j \in 1 .. step - 1 : summary[j] = [id |-> id, status |-> "ok"]
<1>1. Len(summary) = step - 1 /\ step \in Nat /\ summary \in Seq(Entries)
  BY CommandLists DEF Core, Shapes, Position
<1>2. PICK j \in DOMAIN summary : summary[j].status = "ok" /\ summary[j].id = id
  BY DEF Core, Remembered, Reported
<1>3. j \in 1 .. step - 1 /\ summary[j] \in Entries
  BY <1>1
<1>4. summary[j] = [id |-> id, status |-> "ok"]
  BY <1>2, <1>3 DEF Entries
<1> QED
  BY <1>3, <1>4

\* A request that was sent keeps what it has read.
LEMMA RanStays ==
    ASSUME TypeOK, Requested, ReadsRan, command' = command, NEW k \in calls,
           \A i \in 1 .. step - 1 : summary'[i] = summary[i]
    PROVE  \A id \in Reads(k.step)' : \E j \in 1 .. k.step - 1 : summary'[j] = [id |-> id, status |-> "ok"]
<1>1. Reads(k.step)' = Reads(k.step)
  BY DEF Reads
<1>2. k.step \in 1 .. step /\ step \in Nat
  BY CommandLists DEF Requested
<1>3. 1 .. k.step - 1 \subseteq 1 .. step - 1
  BY <1>2
<1> SUFFICES ASSUME NEW id \in Reads(k.step)
             PROVE  \E j \in 1 .. k.step - 1 : summary'[j] = [id |-> id, status |-> "ok"]
  BY <1>1
<1>4. PICK j \in 1 .. k.step - 1 : summary[j] = [id |-> id, status |-> "ok"]
  BY DEF ReadsRan
<1>5. summary'[j] = summary[j]
  BY <1>3
<1> QED
  BY <1>4, <1>5

\* The request at hand is one of a step that has run all it reads.
Sends == calls' = calls \/ (pc = "invoking" /\ calls' = calls \cup {Call})

LEMMA CallReads ==
    ASSUME TypeOK, Core, Ready, pc = "invoking"
    PROVE  /\ Call.step = step
           /\ \A id \in Reads(step) : \E j \in 1 .. step - 1 : summary[j] = [id |-> id, status |-> "ok"]
<1>1. Reads(step) \subseteq DOMAIN seen.steps
  BY DEF Ready, Working
<1> QED
  BY <1>1, RanBefore DEF Call, Working

LEMMA CallsQuiet ==
    ASSUME IInv, pc \in Working, pc' \in Working, UNCHANGED <<command, step, summary>>, Sends,
           calls' # calls \/ pc = "saving" => pc' = "saving"
    PROVE  Requested' /\ ReadsRan'
<1>1. /\ Len(command.steps) \in Nat /\ step \in 1 .. Len(command.steps)
      /\ Len(summary) = step - 1 /\ summary \in Seq(Entries)
  BY CommandLists DEF IInv, Core, Shapes, Position, TypeOK
<1>2. DOMAIN summary = 1 .. step - 1
  BY <1>1
<1>3. ASSUME NEW k \in calls
      PROVE  /\ k.step \in 1 .. step /\ k.step <= Len(command.steps)
             /\ k.step = step => pc \in {"saving", "over"}
             /\ k.step \in DOMAIN summary => summary[k.step].status # "skipped"
  BY DEF IInv, Requested
<1>4. Requested'
  <2> SUFFICES ASSUME NEW k \in calls'
               PROVE  /\ k.step \in 1 .. step /\ k.step <= Len(command.steps)
                      /\ k.step = step => pc' \in {"saving", "over"}
                      /\ k.step \in DOMAIN summary => summary[k.step].status # "skipped"
    BY DEF Requested
  <2>1. CASE k \in calls
    BY <1>3, <2>1 DEF Working
  <2>2. CASE k \notin calls
    <3>1. k.step = step /\ pc' = "saving"
      BY <2>2, CallReads DEF IInv, Sends
    <3> QED
      BY <1>1, <1>2, <3>1
  <2> QED
    BY <2>1, <2>2
<1>5. ReadsRan'
  <2> SUFFICES ASSUME NEW k \in calls'
               PROVE  \A id \in Reads(k.step)' : \E j \in 1 .. k.step - 1 : summary'[j] = [id |-> id, status |-> "ok"]
    BY DEF ReadsRan
  <2>1. CASE k \in calls
    BY <2>1, RanStays DEF IInv
  <2>2. CASE k \notin calls
    <3>1. Reads(step)' = Reads(step)
      BY DEF Reads
    <3> QED
      BY <2>2, <3>1, CallReads DEF IInv, Sends
  <2> QED
    BY <2>1, <2>2
<1> QED
  BY <1>4, <1>5

LEMMA CallsReport ==
    ASSUME IInv, pc \in Working, NEW s \in {"ok", "skipped", "failed", "paused"}, Report(s),
           command' = command, Sends,
           (step' = step /\ pc' = "over") \/ step' = step + 1,
           s = "skipped" => pc = "evaluating" /\ calls' = calls
    PROVE  Requested' /\ ReadsRan'
<1>1. /\ step \in 1 .. Len(command.steps) /\ Len(summary') = step
      /\ DOMAIN summary = 1 .. step - 1 /\ DOMAIN summary' = 1 .. step
      /\ \A i \in 1 .. step - 1 : summary'[i] = summary[i]
      /\ summary'[step].status = s
  BY ReportAdds DEF IInv, Core
<1>2. Len(command.steps) \in Nat
  BY CommandLists DEF IInv
<1>3. ASSUME NEW k \in calls
      PROVE  /\ k.step \in 1 .. step /\ k.step <= Len(command.steps)
             /\ k.step = step => pc \in {"saving", "over"}
             /\ k.step \in DOMAIN summary => summary[k.step].status # "skipped"
  BY DEF IInv, Requested
<1>4. ASSUME NEW k \in calls'
      PROVE  /\ k.step \in 1 .. step' /\ k.step <= Len(command.steps)
             /\ k.step = step' => pc' = "over"
             /\ k.step \in DOMAIN summary' => summary'[k.step].status # "skipped"
  <2>1. CASE k \in calls
    <3>1. k.step = step => s # "skipped"
      BY <1>3, <2>1
    <3> QED
      BY <1>1, <1>2, <1>3, <2>1, <3>1
  <2>2. CASE k \notin calls
    <3>1. k.step = step /\ s # "skipped"
      BY <2>2, CallReads DEF IInv, Sends
    <3> QED
      BY <1>1, <1>2, <3>1
  <2> QED
    BY <2>1, <2>2
<1>5. Requested'
  BY <1>4 DEF Requested
<1>6. ReadsRan'
  <2> SUFFICES ASSUME NEW k \in calls'
               PROVE  \A id \in Reads(k.step)' : \E j \in 1 .. k.step - 1 : summary'[j] = [id |-> id, status |-> "ok"]
    BY DEF ReadsRan
  <2>1. CASE k \in calls
    BY <1>1, <2>1, RanStays DEF IInv
  <2>2. CASE k \notin calls
    <3>1. Reads(k.step)' = Reads(k.step)
      BY DEF Reads
    <3>2. k.step = step
      BY <2>2, CallReads DEF IInv, Sends
    <3>3. \A id \in Reads(step) : \E j \in 1 .. step - 1 : summary[j] = [id |-> id, status |-> "ok"]
      BY <2>2, CallReads DEF IInv, Sends
    <3> QED
      BY <1>1, <3>1, <3>2, <3>3
  <2> QED
    BY <2>1, <2>2
<1> QED
  BY <1>5, <1>6

-----------------------------------------------------------------------------
(* The steps *)

\* The ways a step reports a failure or a pause.
LEMMA FailStep ==
    ASSUME IInv, pc \in Working, NEW reason, Fail(reason), Sends,
           command' = command, UNCHANGED <<step, seen>>
    PROVE  Core' /\ Ready' /\ Requested' /\ ReadsRan'
<1>1. Report("failed") /\ status' = "failed" /\ pc' = "over"
  BY DEF Fail
<1>2. Core'
  BY <1>1, Stops DEF IInv
<1>3. Requested' /\ ReadsRan'
  BY <1>1, CallsReport
<1>4. Ready'
  BY <1>1 DEF Ready, Working
<1> QED
  BY <1>2, <1>3, <1>4

\* What codegen has compiled stays, and with it what the texts of the command allow.
LEMMA ReasonStays ==
    ASSUME ReferencesKnown, command' = command,
           why' = why \/ why' \notin {"unknown step", "unknown reference", "unterminated"}
    PROVE  ReferencesKnown'
<1>1. (\A e \in {command.output} \cup UNION {Exprs(command.steps[i]) : i \in DOMAIN command.steps} : WellRead(e))' =
      (\A e \in {command.output} \cup UNION {Exprs(command.steps[i]) : i \in DOMAIN command.steps} : WellRead(e))
  OBVIOUS
<1> QED
  BY <1>1 DEF ReferencesKnown

LEMMA EditStep == IInv /\ Edit => IInv'
<1> SUFFICES ASSUME IInv, Edit PROVE IInv'
  OBVIOUS
<1>1. /\ pc \in Places \ {"refused", "over"} /\ edits < MaxEdits /\ edits' = edits + 1
      /\ UNCHANGED <<config, pc, step, context, host, answer, seen, summary, status, why, calls>>
  BY DEF Edit, IInv, TypeOK
<1>2. UNCHANGED <<command, explicit, pc, step, context, host, answer, seen, summary, status, why, calls>>
  BY <1>1 DEF config
<1>3. HostsFile' /\ hosts'.selected \in Hosts /\ DOMAIN hosts'.context = Hosts
  <2>1. hosts = [selected |-> hosts.selected, context |-> hosts.context]
           /\ hosts.selected \in Hosts /\ DOMAIN hosts.context = Hosts
    BY DEF IInv, TypeOK, HostsFile
  <2>2. CASE \E h \in Hosts : hosts' = [hosts EXCEPT !.selected = h]
    BY <2>1, <2>2 DEF HostsFile
  <2>3. CASE \E h \in Hosts, v \in Values \cup {Unset} : hosts' = [hosts EXCEPT !.context[h] = v]
    BY <2>1, <2>3 DEF HostsFile
  <2> QED
    BY <2>2, <2>3 DEF Edit
<1>4. edits' \in 0 .. MaxEdits
  <2>1. MaxEdits \in Nat /\ edits \in 0 .. MaxEdits
    BY WorkflowAssumption DEF IInv, TypeOK
  <2> QED
    BY <1>1, <2>1
<1>5. TypeOK'
  BY <1>2, <1>3, <1>4 DEF IInv, TypeOK
<1>6. Core'
  BY <1>2 DEF IInv, Core, Shapes, Entries, Compiled, Position, Listed, Remembered, Reported
<1>7. Ready' /\ Requested'
  BY <1>2 DEF IInv, Ready, Call, Reads, Requested
<1>8. ReadsRan'
  BY <1>2 DEF IInv, ReadsRan, Reads
<1>9. ReferencesKnown'
  BY <1>2, ReasonStays DEF IInv
<1> QED
  BY <1>3, <1>5, <1>6, <1>7, <1>8, <1>9 DEF IInv

LEMMA SkipStep ==
    ASSUME IInv, pc = "evaluating", Skip, command' = command, calls' = calls
    PROVE  /\ Core' /\ Ready' /\ Requested' /\ ReadsRan' /\ ReferencesKnown'
           /\ step' \in 1 .. Len(command.steps) + 1 /\ pc' \in Places /\ status' = status
           /\ DOMAIN seen'.steps \cap seen'.skipped = {}
<1>1. /\ Report("skipped") /\ NextStep /\ UNCHANGED <<status, why>>
      /\ seen' = [seen EXCEPT !.skipped = @ \cup {Step.id}]
  BY DEF Skip
<1>2. seen = [inputs |-> seen.inputs, steps |-> seen.steps, skipped |-> seen.skipped]
  BY DEF IInv, Core, Shapes
<1>3. /\ seen' = [inputs |-> seen'.inputs, steps |-> seen'.steps, skipped |-> seen'.skipped]
      /\ seen'.steps = seen.steps /\ seen'.skipped = seen.skipped \cup {Step.id}
  BY <1>1, <1>2
<1>4. Core'
  BY <1>1, <1>3, Advances DEF IInv, Working
<1>5. step' = step + 1 /\ pc' \in {"output", "evaluating"}
  BY <1>1 DEF NextStep
<1>6. Requested' /\ ReadsRan'
  BY <1>1, <1>5, CallsReport DEF Sends, Working
<1>7. Ready'
  BY <1>5 DEF Ready, Working
<1>8. ReferencesKnown'
  BY <1>1, ReasonStays DEF IInv
<1>9. step' \in 1 .. Len(command.steps) + 1
  <2>1. Len(command.steps) \in Nat /\ step \in Nat /\ step \in 1 .. Len(command.steps) + 1 /\ step <= Len(command.steps)
    BY CommandLists DEF IInv, TypeOK, Core, Position, Working
  <2> QED
    BY <1>5, <2>1
<1>10. DOMAIN seen'.steps \cap seen'.skipped = {}
  BY <1>3, Scope DEF IInv, TypeOK, Working
<1> QED
  BY <1>1, <1>4, <1>5, <1>6, <1>7, <1>8, <1>9, <1>10 DEF Places

\* A failure leaves what the type says of the rest.
LEMMA FailType ==
    ASSUME IInv, NEW reason, Fail(reason), UNCHANGED <<config, step, seen, edits>>,
           hosts' = hosts, host' \in Hosts \cup {NoHost}, answer' \in Answers \cup {NoAnswer}
    PROVE  TypeOK' /\ HostsFile'
<1>1. status' = "failed" /\ pc' = "over" /\ UNCHANGED <<command, explicit, step, seen, edits, hosts>>
  BY DEF Fail, config
<1>2. DOMAIN seen'.steps \cap seen'.skipped = {}
  BY <1>1 DEF IInv, TypeOK
<1>3. TypeOK'
  BY <1>1, <1>2 DEF IInv, TypeOK, Places
<1>4. HostsFile'
  BY <1>1 DEF IInv, HostsFile
<1> QED
  BY <1>3, <1>4

LEMMA EvaluateStep == IInv /\ Evaluate => IInv'
<1> SUFFICES ASSUME IInv, Evaluate PROVE IInv'
  OBVIOUS
<1> DEFINE matched == EvalConditions(Step.when, seen)
           failures == InputFailures(Step, seen)
<1>1. /\ pc = "evaluating" /\ host' = NoHost /\ answer' = NoAnswer
      /\ UNCHANGED <<config, hosts, edits, calls>>
  BY DEF Evaluate
<1>2. \/ Skip
      \/ matched = "matches" /\ (\E reason \in failures \ {Skipped} : Fail(reason)) /\ UNCHANGED <<step, seen>>
      \/ /\ matched = "matches" /\ failures = {}
         /\ pc' = "resolving" /\ UNCHANGED <<step, seen, summary, status, why>>
  BY DEF Evaluate
<1>3. UNCHANGED <<command, explicit, hosts, edits, calls>>
  BY <1>1 DEF config
<1>4. pc \in Working /\ HostsFile'
  BY <1>1, <1>3 DEF Working, IInv, HostsFile
<1>5. CASE Skip
  <2>1. /\ Core' /\ Ready' /\ Requested' /\ ReadsRan' /\ ReferencesKnown'
        /\ step' \in 1 .. Len(command.steps) + 1 /\ pc' \in Places /\ status' = status
        /\ DOMAIN seen'.steps \cap seen'.skipped = {}
    BY <1>1, <1>3, <1>5, SkipStep
  <2>2. TypeOK'
    BY <1>1, <1>3, <2>1 DEF IInv, TypeOK
  <2> QED
    BY <1>4, <2>1, <2>2 DEF IInv
<1>6. CASE (\E reason \in failures \ {Skipped} : Fail(reason)) /\ UNCHANGED <<step, seen>>
  <2>1. PICK reason \in failures \ {Skipped} : Fail(reason)
    BY <1>6
  <2>2. Core' /\ Ready' /\ Requested' /\ ReadsRan'
    BY <1>3, <1>4, <1>6, <2>1, FailStep DEF Sends
  <2>3. TypeOK'
    BY <1>1, <1>3, <1>6, <2>1, FailType
  <2>4. ReferencesKnown'
    <3>1. why' = reason
      BY <2>1 DEF Fail
    <3>2. step \in DOMAIN command.steps
      BY <1>4, StepScope DEF IInv
    <3>3. (\A e \in Exprs(Step) : WellRead(e)) => reason \in Reasons
      BY <1>4, EvaluatedReasons DEF IInv
    <3> HIDE DEF failures
    <3>4. (\A e \in {command.output} \cup UNION {Exprs(command.steps[i]) : i \in DOMAIN command.steps} : WellRead(e)) =>
            reason \in Reasons
      BY <3>2, <3>3 DEF Step
    <3> QED
      BY <1>3, <3>1, <3>4 DEF ReferencesKnown, Reasons, Skipped
  <2> QED
    BY <1>4, <2>2, <2>3, <2>4 DEF IInv
<1>7. CASE /\ matched = "matches" /\ failures = {}
           /\ pc' = "resolving" /\ UNCHANGED <<step, seen, summary, status, why>>
  <2>1. pc' \in Working
    BY <1>7 DEF Working
  <2>2. Core'
    BY <1>3, <1>4, <1>7, <2>1, Quiet DEF IInv
  <2>3. Requested' /\ ReadsRan'
    BY <1>1, <1>3, <1>4, <1>7, <2>1, CallsQuiet DEF Sends
  <2>4. Reads(step) \subseteq DOMAIN seen.steps
    BY <1>4, <1>7, EvaluatedReads DEF IInv
  <2>5. Ready'
    BY <1>3, <1>7, <2>4 DEF Ready, Reads
  <2>6. ReferencesKnown'
    BY <1>3, <1>7, ReasonStays DEF IInv
  <2>7. DOMAIN seen'.steps \cap seen'.skipped = {}
    BY <1>7 DEF IInv, TypeOK
  <2> HIDE DEF matched, failures
  <2>8. TypeOK'
    BY <1>1, <1>3, <1>7, <2>7 DEF IInv, TypeOK, Places
  <2> QED
    BY <1>4, <2>2, <2>3, <2>5, <2>6, <2>8 DEF IInv
<1> HIDE DEF matched, failures
<1> QED
  BY <1>2, <1>5, <1>6, <1>7

\* A step on the way to the request.
LEMMA Proceeds ==
    ASSUME IInv, pc \in Working \ {"evaluating", "saving"},
           pc' \in Working \ {"evaluating", "saving"},
           UNCHANGED <<config, hosts, step, answer, seen, summary, status, why, edits, calls>>,
           host' \in Hosts \cup {NoHost}
    PROVE  IInv'
<1>1. UNCHANGED <<command, explicit, hosts, step, answer, seen, summary, status, why, edits, calls>>
  BY DEF config
<1>2. Core'
  BY <1>1, Quiet DEF IInv
<1>3. Requested' /\ ReadsRan'
  BY <1>1, CallsQuiet DEF Sends
<1>4. Ready'
  BY <1>1 DEF IInv, Ready, Reads
<1>5. ReferencesKnown'
  BY <1>1, ReasonStays DEF IInv
<1>6. DOMAIN seen'.steps \cap seen'.skipped = {}
  BY <1>1 DEF IInv, TypeOK
<1>7. TypeOK'
  BY <1>1, <1>6 DEF IInv, TypeOK, Places, Working
<1>8. HostsFile'
  BY <1>1 DEF IInv, HostsFile
<1> QED
  BY <1>2, <1>3, <1>4, <1>5, <1>7, <1>8 DEF IInv

LEMMA HostType == IInv => ResolveHost \in Hosts
BY DEF IInv, TypeOK, ResolveHost

LEMMA ResolveContextHostStep == IInv /\ ResolveContextHost => IInv'
<1> SUFFICES ASSUME IInv, ResolveContextHost PROVE IInv'
  OBVIOUS
<1>1. /\ pc = "resolving" /\ pc' \in {"reading", "authorizing"} /\ host' \in {ResolveHost, host}
      /\ UNCHANGED <<config, hosts, step, answer, seen, summary, status, why, edits, calls>>
  BY DEF ResolveContextHost
<1>2. host' \in Hosts \cup {NoHost}
  BY <1>1, HostType DEF IInv, TypeOK
<1> QED
  BY <1>1, <1>2, Proceeds DEF Working

\* A failure that codegen could not have told ends the run.
LEMMA Ends ==
    ASSUME IInv, pc \in Working, NEW reason \in {"no context", "invalid input", "no credentials",
                                                 "refused", "service", "not stored"},
           Fail(reason), Sends, UNCHANGED <<config, hosts, step, seen, edits>>,
           host' = host, answer' = answer
    PROVE  IInv'
<1>1. command' = command /\ why' = reason
  BY DEF config, Fail
<1>2. Core' /\ Ready' /\ Requested' /\ ReadsRan'
  BY <1>1, FailStep
<1>3. TypeOK' /\ HostsFile'
  BY FailType DEF IInv, TypeOK
<1>4. ReferencesKnown'
  BY <1>1, ReasonStays DEF IInv
<1> QED
  BY <1>2, <1>3, <1>4 DEF IInv

LEMMA ReadContextStep == IInv /\ ReadContext => IInv'
<1> SUFFICES ASSUME IInv, ReadContext PROVE IInv'
  OBVIOUS
<1>1. pc = "reading" /\ UNCHANGED <<config, hosts, step, host, answer, seen, edits, calls>>
  BY DEF ReadContext
<1>2. CASE pc' = "authorizing" /\ UNCHANGED <<summary, status, why>>
  BY <1>1, <1>2, Proceeds DEF Working, IInv, TypeOK
<1>3. CASE Fail("no context")
  BY <1>1, <1>3, Ends DEF Working, Sends
<1> QED
  BY <1>2, <1>3 DEF ReadContext

LEMMA AuthorizeStep == IInv /\ Authorize => IInv'
<1> SUFFICES ASSUME IInv, Authorize PROVE IInv'
  OBVIOUS
<1>1. pc = "authorizing" /\ UNCHANGED <<config, hosts, step, context, answer, seen, edits, calls>>
  BY DEF Authorize
<1>2. CASE host' = ResolveHost /\ pc' = "invoking" /\ UNCHANGED <<summary, status, why>>
  BY <1>1, <1>2, HostType, Proceeds DEF Working
<1>3. CASE \E reason \in {"invalid input", "no credentials"} : Fail(reason) /\ UNCHANGED host
  BY <1>1, <1>3, Ends DEF Working, Sends
<1> QED
  BY <1>2, <1>3 DEF Authorize

LEMMA InvokeStep == IInv /\ Invoke => IInv'
<1> SUFFICES ASSUME IInv, Invoke PROVE IInv'
  OBVIOUS
<1>1. pc = "invoking" /\ pc \in Working /\ UNCHANGED <<config, hosts, step, context, host, seen, edits>>
  BY DEF Invoke, Working
<1>2. UNCHANGED <<command, explicit, hosts, step, context, host, seen, edits>>
  BY <1>1 DEF config
<1>3. CASE \E reason \in {"refused", "service"} : Fail(reason) /\ UNCHANGED answer /\ Sends
  BY <1>1, <1>3, Ends
<1>4. CASE /\ calls' = calls \cup {Call} /\ answer' \in Answers
           /\ pc' = "saving" /\ UNCHANGED <<summary, status, why>>
  <2>1. pc' \in Working /\ Sends
    BY <1>1, <1>4 DEF Working, Sends
  <2>2. Core'
    BY <1>1, <1>2, <1>4, <2>1, Quiet DEF IInv
  <2>3. Requested' /\ ReadsRan'
    BY <1>1, <1>2, <1>4, <2>1, CallsQuiet
  <2>4. Ready'
    <3>1. Reads(step) \subseteq DOMAIN seen.steps
      BY <1>1 DEF IInv, Ready
    <3> QED
      BY <1>2, <1>4, <3>1 DEF Ready, Reads, Call
  <2>5. DOMAIN seen'.steps \cap seen'.skipped = {}
    BY <1>2 DEF IInv, TypeOK
  <2>6. TypeOK'
    BY <1>2, <1>4, <2>5 DEF IInv, TypeOK, Places
  <2>7. HostsFile' /\ ReferencesKnown'
    BY <1>2, <1>4, ReasonStays DEF IInv, HostsFile
  <2> QED
    BY <2>2, <2>3, <2>4, <2>6, <2>7 DEF IInv
<1>5. CASE /\ calls' = calls \cup {Call} /\ answer' \in Answers
           /\ Report("paused") /\ status' = "paused" /\ pc' = "over" /\ UNCHANGED why
  <2>1. Sends
    BY <1>1, <1>5 DEF Sends
  <2>2. Core'
    BY <1>1, <1>2, <1>5, Stops DEF IInv
  <2>3. Requested' /\ ReadsRan'
    BY <1>1, <1>2, <1>5, <2>1, CallsReport
  <2>4. Ready'
    BY <1>5 DEF Ready, Working
  <2>5. DOMAIN seen'.steps \cap seen'.skipped = {}
    BY <1>2 DEF IInv, TypeOK
  <2>6. TypeOK'
    BY <1>2, <1>5, <2>5 DEF IInv, TypeOK, Places
  <2>7. HostsFile' /\ ReferencesKnown'
    BY <1>2, <1>5, ReasonStays DEF IInv, HostsFile
  <2> QED
    BY <2>2, <2>3, <2>4, <2>6, <2>7 DEF IInv
<1> QED
  BY <1>1, <1>3, <1>4, <1>5 DEF Invoke, Sends

\* The answer becomes the value of the step.
LEMMA FinishStep ==
    ASSUME IInv, pc = "saving", Finish, UNCHANGED <<config, context, host, answer, edits, calls>>,
           HostsFile', hosts'.selected \in Hosts, DOMAIN hosts'.context = Hosts
    PROVE  IInv'
<1>1. /\ Report("ok") /\ NextStep /\ UNCHANGED <<status, why>>
      /\ seen' = [seen EXCEPT !.steps = [id \in DOMAIN @ \cup {Step.id} |->
                                            IF id = Step.id THEN answer ELSE @[id]]]
  BY DEF Finish
<1>2. UNCHANGED <<command, explicit, context, host, answer, edits, calls>> /\ pc \in Working
  BY DEF config, Working
<1>3. /\ seen' = [inputs |-> seen'.inputs, steps |-> seen'.steps, skipped |-> seen'.skipped]
      /\ seen'.skipped = seen.skipped /\ DOMAIN seen'.steps = DOMAIN seen.steps \cup {Step.id}
  <2>1. seen = [inputs |-> seen.inputs, steps |-> seen.steps, skipped |-> seen.skipped]
    BY DEF IInv, Core, Shapes
  <2> DEFINE values == [id \in DOMAIN seen.steps \cup {Step.id} |->
                          IF id = Step.id THEN answer ELSE seen.steps[id]]
  <2>2. DOMAIN values = DOMAIN seen.steps \cup {Step.id}
    OBVIOUS
  <2>3. seen' = [seen EXCEPT !.steps = values]
    BY <1>1
  <2> HIDE DEF values
  <2>4. seen'.steps = values /\ seen'.skipped = seen.skipped
           /\ seen' = [inputs |-> seen'.inputs, steps |-> seen'.steps, skipped |-> seen'.skipped]
    BY <2>1, <2>3
  <2> QED
    BY <2>2, <2>4
<1>4. Core'
  BY <1>1, <1>2, <1>3, Advances DEF IInv
<1>5. step' = step + 1 /\ pc' \in {"output", "evaluating"}
  BY <1>1 DEF NextStep
<1>6. Requested' /\ ReadsRan'
  BY <1>1, <1>2, <1>5, CallsReport DEF Sends
<1>7. Ready'
  BY <1>5 DEF Ready, Working
<1>8. ReferencesKnown'
  BY <1>1, <1>2, ReasonStays DEF IInv
<1>9. step' \in 1 .. Len(command.steps) + 1
  <2>1. Len(command.steps) \in Nat /\ step \in Nat /\ step \in 1 .. Len(command.steps) + 1 /\ step <= Len(command.steps)
    BY <1>2, CommandLists DEF IInv, TypeOK, Core, Position
  <2> QED
    BY <1>5, <2>1
<1>10. DOMAIN seen'.steps \cap seen'.skipped = {}
  BY <1>2, <1>3, Scope DEF IInv, TypeOK
<1>11. TypeOK'
  BY <1>1, <1>2, <1>5, <1>9, <1>10 DEF IInv, TypeOK, Places
<1> QED
  BY <1>4, <1>6, <1>7, <1>8, <1>11 DEF IInv

LEMMA PersistStep == IInv /\ Persist => IInv'
<1> SUFFICES ASSUME IInv, Persist PROVE IInv'
  OBVIOUS
<1>1. pc = "saving" /\ UNCHANGED <<config, context, host, answer, edits, calls>>
  BY DEF Persist
<1>2. hosts = [selected |-> hosts.selected, context |-> hosts.context]
         /\ hosts.selected \in Hosts /\ DOMAIN hosts.context = Hosts
  BY DEF IInv, TypeOK, HostsFile
<1>3. CASE hosts' = [hosts EXCEPT !.context[host] = ContextToStore] /\ Finish
  <2> HIDE DEF ContextToStore
  <2>1. HostsFile' /\ hosts'.selected \in Hosts /\ DOMAIN hosts'.context = Hosts
    BY <1>2, <1>3 DEF HostsFile
  <2> QED
    BY <1>1, <1>3, <2>1, FinishStep
<1>4. CASE Finish /\ UNCHANGED hosts
  BY <1>1, <1>2, <1>4, FinishStep DEF HostsFile
<1>5. CASE Fail("not stored") /\ UNCHANGED <<hosts, step, seen>>
  BY <1>1, <1>5, Ends DEF Working, Sends
<1> QED
  BY <1>3, <1>4, <1>5 DEF Persist

LEMMA OutputStep == IInv /\ Output => IInv'
<1> SUFFICES ASSUME IInv, Output PROVE IInv'
  OBVIOUS
<1>1. /\ pc = "output" /\ pc' = "over"
      /\ UNCHANGED <<config, hosts, step, context, host, answer, seen, summary, status, edits, calls>>
  BY DEF Output
<1>2. UNCHANGED <<command, explicit, hosts, step, context, host, answer, seen, summary, status, edits, calls>>
  BY <1>1 DEF config
<1>3. Core'
  BY <1>1, <1>2 DEF IInv, Core, Shapes, Entries, Compiled, Position, Working, Listed, Remembered, Reported
<1>4. Ready'
  BY <1>1 DEF Ready, Working
<1>5. Requested'
  BY <1>1, <1>2 DEF IInv, Requested
<1>6. ReadsRan'
  BY <1>2 DEF IInv, ReadsRan, Reads
<1>7. ReferencesKnown'
  <2> DEFINE reason == EvalValue(command.output, seen, "output").fails
  <2>1. why' \in {"", reason}
    BY DEF Output
  <2>2. WellRead(command.output) => reason \in Reasons \cup {""}
    BY <1>1, OutputReasons DEF IInv
  <2> HIDE DEF reason
  <2>3. WellRead(command.output) => why' \in {Skipped, "unknown input", "no path", ""}
    BY <2>1, <2>2 DEF Reasons
  <2> QED
    BY <1>2, <2>3 DEF ReferencesKnown, Skipped
<1>8. DOMAIN seen'.steps \cap seen'.skipped = {}
  BY <1>2 DEF IInv, TypeOK
<1>9. TypeOK'
  BY <1>1, <1>2, <1>8 DEF IInv, TypeOK, Places
<1>10. HostsFile'
  BY <1>2 DEF IInv, HostsFile
<1> QED
  BY <1>3, <1>4, <1>5, <1>6, <1>7, <1>9, <1>10 DEF IInv

-----------------------------------------------------------------------------
(* Theorems *)

LEMMA Inductive == IInv /\ [Next]_vars => IInv'
<1> SUFFICES ASSUME IInv, [Next]_vars PROVE IInv'
  OBVIOUS
<1>1. CASE Edit
  BY <1>1, EditStep
<1>2. CASE Evaluate
  BY <1>2, EvaluateStep
<1>3. CASE ResolveContextHost
  BY <1>3, ResolveContextHostStep
<1>4. CASE ReadContext
  BY <1>4, ReadContextStep
<1>5. CASE Authorize
  BY <1>5, AuthorizeStep
<1>6. CASE Invoke
  BY <1>6, InvokeStep
<1>7. CASE Persist
  BY <1>7, PersistStep
<1>8. CASE Output
  BY <1>8, OutputStep
<1>9. CASE UNCHANGED vars
  <2>1. UNCHANGED <<command, explicit, hosts, pc, step, context, host, answer, seen, summary, status, why, edits, calls>>
    BY <1>9 DEF vars, config
  <2>2. TypeOK' /\ HostsFile'
    BY <2>1 DEF IInv, TypeOK, HostsFile
  <2>3. Core'
    BY <2>1 DEF IInv, Core, Shapes, Entries, Compiled, Position, Listed, Remembered, Reported
  <2>4. Ready' /\ Requested'
    BY <2>1 DEF IInv, Ready, Call, Reads, Requested
  <2>5. ReadsRan'
    BY <2>1 DEF IInv, ReadsRan, Reads
  <2>6. ReferencesKnown'
    BY <2>1, ReasonStays DEF IInv
  <2> QED
    BY <2>2, <2>3, <2>4, <2>5, <2>6 DEF IInv
<1> QED
  BY <1>1, <1>2, <1>3, <1>4, <1>5, <1>6, <1>7, <1>8, <1>9 DEF Next

LEMMA Invariance == Spec => []IInv
<1>1. Init => IInv
  BY Initially
<1>2. IInv /\ [Next]_vars => IInv'
  BY Inductive
<1> QED
  BY <1>1, <1>2, PTL DEF Spec

\* The command that runs, the step at hand and the values of the steps keep their types,
\* and no step is both among the ones with a value and among the skipped ones
\* (workflow.go: executeWorkflow).
THEOREM TypeCorrect == Spec => []TypeOK
<1>1. IInv => TypeOK
  BY DEF IInv
<1> QED
  BY <1>1, Invariance, PTL

LEMMA FailFastHolds == IInv => FailFast
<1> SUFFICES ASSUME IInv PROVE FailFast
  OBVIOUS
<1>1. /\ Len(command.steps) \in Nat /\ DOMAIN command.steps = 1 .. Len(command.steps)
      /\ step \in 1 .. Len(command.steps) + 1
  BY CommandLists DEF IInv, TypeOK
<1>2. summary \in Seq(Entries)
  BY DEF IInv, Core, Shapes
<1>3. Len(summary) \in Nat /\ DOMAIN summary = 1 .. Len(summary)
  BY <1>2
<1>4. /\ Len(summary) <= Len(command.steps)
      /\ \A i \in DOMAIN summary :
           /\ summary[i].id = command.steps[i].id
           /\ i < Len(summary) \/ status = "ok" => summary[i].status \in {"ok", "skipped"}
  BY DEF IInv, Core, Listed
<1>5. pc \in Places /\ status \in {"ok", "failed", "paused"}
  BY DEF IInv, TypeOK
<1>6. \A i \in DOMAIN summary : summary[i].id = Ids[i]
  BY <1>1, <1>3, <1>4 DEF Ids
<1>7. \A i \in 1 .. Len(summary) - 1 : summary[i].status \in {"ok", "skipped"}
  BY <1>3, <1>4
<1>8. status # "ok" => Len(summary) = step /\ step \in DOMAIN summary /\ summary[step].status = status
  <2> SUFFICES ASSUME status # "ok" PROVE Len(summary) = step /\ step \in DOMAIN summary /\ summary[step].status = status
    OBVIOUS
  <2>1. pc = "over"
    BY <1>5 DEF Places, IInv, Core, Position, Working
  <2>2. Len(summary) = step /\ summary[step].status = status
    BY <2>1 DEF IInv, Core, Position
  <2> QED
    BY <1>1, <1>3, <2>2
<1>9. status # "ok" <=> summary # <<>> /\ summary[Len(summary)].status \notin {"ok", "skipped"}
  <2>1. ASSUME status # "ok" PROVE summary # <<>> /\ summary[Len(summary)].status \notin {"ok", "skipped"}
    <3>1. summary # <<>>
      BY <1>8, <2>1
    <3> QED
      BY <1>5, <1>8, <2>1, <3>1
  <2>2. ASSUME status = "ok", summary # <<>> PROVE summary[Len(summary)].status \in {"ok", "skipped"}
    <3>1. Len(summary) \in DOMAIN summary
      BY <1>2, <2>2
    <3> QED
      BY <1>4, <2>2, <3>1
  <2> QED
    BY <2>1, <2>2
<1>10. ASSUME NEW c \in calls
       PROVE  /\ c.step \in 1 .. Len(summary) \/ (c.step = step /\ pc = "saving")
              /\ c.step <= Len(summary) => summary[c.step].status # "skipped"
  <2>1. /\ c.step \in 1 .. step /\ c.step <= Len(command.steps)
        /\ c.step = step => pc \in {"saving", "over"}
        /\ c.step \in DOMAIN summary => summary[c.step].status # "skipped"
    BY DEF IInv, Requested
  <2>2. step \in Nat
    BY <1>1
  <2>3. pc # "refused"
    BY <2>1 DEF IInv, Core, Position
  <2>4. /\ pc \in Working \cup {"output"} => Len(summary) = step - 1
        /\ pc = "over" => Len(summary) = step \/ (Len(summary) = step - 1 /\ step = Len(command.steps) + 1)
    BY DEF IInv, Core, Position
  <2>5. pc \in Working \cup {"output", "over"}
    BY <1>5, <2>3 DEF Places, Working
  <2>6. c.step \in 1 .. Len(summary) \/ (c.step = step /\ pc = "saving")
    <3>1. CASE c.step = step /\ pc = "over"
      <4>1. Len(summary) = step
        BY <1>1, <2>1, <2>4, <3>1
      <4> QED
        BY <2>1, <3>1, <4>1
    <3>2. CASE c.step < step
      <4>1. Len(summary) = step \/ Len(summary) = step - 1
        BY <2>4, <2>5
      <4> QED
        BY <2>1, <2>2, <3>2, <4>1
    <3> QED
      BY <2>1, <2>2, <3>1, <3>2
  <2>7. c.step <= Len(summary) => c.step \in DOMAIN summary
    BY <1>3, <2>1
  <2> QED
    BY <2>1, <2>6, <2>7
<1> QED
  BY <1>6, <1>7, <1>9, <1>10 DEF FailFast

\* The result lists the steps in order up to the one that failed or paused, and every
\* request that was sent belongs to a step of it that was not skipped (workflow.go:
\* executeWorkflow).
THEOREM FailsFast == Spec => []FailFast
BY Invariance, FailFastHolds, PTL

\* A request is sent only when every step it reads has run and ended well, however many
\* steps are skipped before it (workflow.go: executeWorkflow's two skips).
THEOREM ReadsHaveRun == Spec => []ReadsRan
<1>1. IInv => ReadsRan
  BY DEF IInv
<1> QED
  BY <1>1, Invariance, PTL

\* What codegen's validateWorkflowRefs accepts, the run's workflowRefValue finds: no run
\* fails for a step that comes later or does not exist.
THEOREM ReferencesAreKnown == Spec => []ReferencesKnown
<1>1. IInv => ReferencesKnown
  BY DEF IInv
<1> QED
  BY <1>1, Invariance, PTL

\* The workflow changes hosts.yml only by the context of a step that is reported ok, at
\* the host that its request went to (context.go: persistOperationContext).
THEOREM ContextsAfterSuccess == Spec => ContextsFollowSuccess
<1>1. IInv /\ [Next]_vars =>
        [edits' = edits /\ hosts' # hosts =>
           /\ [step |-> step, host |-> host, context |-> context] \in calls
           /\ summary' = Append(summary, [id |-> Step.id, status |-> "ok"])
           /\ \A h \in Hosts \ {host} : hosts'.context[h] = hosts.context[h]
           /\ hosts'.selected = hosts.selected]_vars
  <2> SUFFICES ASSUME IInv, Next, edits' = edits, hosts' # hosts
               PROVE  /\ [step |-> step, host |-> host, context |-> context] \in calls
                      /\ summary' = Append(summary, [id |-> Step.id, status |-> "ok"])
                      /\ \A h \in Hosts \ {host} : hosts'.context[h] = hosts.context[h]
                      /\ hosts'.selected = hosts.selected
    OBVIOUS
  <2>1. ~Edit
    <3>1. edits \in Int
      BY DEF IInv, TypeOK
    <3> QED
      BY <3>1 DEF Edit
  <2>2. ~Evaluate /\ ~ResolveContextHost /\ ~ReadContext /\ ~Authorize /\ ~Invoke /\ ~Output
    BY DEF Evaluate, ResolveContextHost, ReadContext, Authorize, Invoke, Output
  <2>3. pc = "saving" /\ hosts' = [hosts EXCEPT !.context[host] = ContextToStore] /\ Finish
    BY <2>1, <2>2 DEF Next, Persist
  <2>4. hosts = [selected |-> hosts.selected, context |-> hosts.context] /\ DOMAIN hosts.context = Hosts
    BY DEF IInv, TypeOK, HostsFile
  <2>5. hosts'.selected = hosts.selected /\ hosts'.context = [hosts.context EXCEPT ![host] = ContextToStore]
    <3> HIDE DEF ContextToStore
    <3> QED
      BY <2>3, <2>4
  <2>6. \A h \in Hosts \ {host} : hosts'.context[h] = hosts.context[h]
    BY <2>4, <2>5
  <2>7. [step |-> step, host |-> host, context |-> context] \in calls
    BY <2>3 DEF IInv, Ready, Call
  <2>8. summary' = Append(summary, [id |-> Step.id, status |-> "ok"])
    BY <2>3 DEF Finish, Report
  <2> QED
    BY <2>5, <2>6, <2>7, <2>8
<1> QED
  BY <1>1, Invariance, PTL DEF Spec, ContextsFollowSuccess
==============================================================================
