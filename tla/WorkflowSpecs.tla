--------------------------- MODULE WorkflowSpecs ---------------------------
(***************************************************************************)
(* What codegen makes of the workflows of cli.yaml (pkg/config/workflow.go *)
(* and internal/lathecmd/workflow.go), and the expressions their steps are *)
(* written in (pkg/runtime/workflow_expression.go).                        *)
(*                                                                         *)
(* A text is a sequence of atoms.  An expression is a sequence of parts:   *)
(* an atom, the two characters of a reference's start without its end, or  *)
(* a reference to an input, to a step or to anything else.                 *)
(***************************************************************************)
EXTENDS Integers, Sequences, SequencesExt

CONSTANTS
    Operations, \* sequence of generated operations, in the order of modules and specs
    RootNames   \* roots of the command tree: reserved ones, modules or groups, shortcuts

Plain(a) == [part |-> "text", atom |-> a]

Open == [part |-> "open"]

InputRef(name) == [part |-> "ref", kind |-> "input", name |-> name, path |-> FALSE]

\* path tells whether the reference goes on after the step's id; there is one path.
StepRef(id, path) == [part |-> "ref", kind |-> "steps", name |-> id, path |-> path]

OtherRef == [part |-> "ref", kind |-> "other", name |-> "", path |-> FALSE]

\* A text that ends in the character that ends a reference.
Brace == [part |-> "text", atom |-> "}"]

-----------------------------------------------------------------------------
(* normalizeWorkflow *)

Injective(s) == \A i, j \in DOMAIN s : s[i] = s[j] => i = j

\* name, and the flag made of it, are what a reference may call an input.
NormalInputs(inputs) ==
    /\ Injective([i \in DOMAIN inputs |-> inputs[i].name])
    /\ Injective([i \in DOMAIN inputs |-> inputs[i].flag])

NormalSteps(steps) ==
    /\ steps # <<>>
    /\ Injective([i \in DOMAIN steps |-> steps[i].id])
    /\ \A i \in DOMAIN steps :
         /\ steps[i].id # "" /\ ~steps[i].dotted /\ steps[i].uses # ""
         /\ \A k \in DOMAIN steps[i].when :
              /\ steps[i].when[k].value # <<>> /\ steps[i].when[k].values # {}
              /\ steps[i].when[k].operator \in {"in", "notin"}

NormalizeWorkflow(commands) ==
    /\ Injective([i \in DOMAIN commands |-> commands[i].use])
    /\ \A i \in DOMAIN commands : NormalInputs(commands[i].inputs) /\ NormalSteps(commands[i].steps)

-----------------------------------------------------------------------------
(* workflowOperationLookup *)

NotFound == [identity |-> "not found"]

Ambiguous == [identity |-> "ambiguous"]

\* Operations that a name stands for; keys are the forms of an operation's name.
Named(uses) == {o \in DOMAIN Operations : uses \in Operations[o].keys}

\* The first operation with the name, unless another one with it has another id,
\* method, path or command.
Resolve(uses) ==
    IF Named(uses) = {} THEN NotFound
    ELSE LET first == CHOOSE o \in Named(uses) : \A p \in Named(uses) : o <= p
         IN IF \E o \in Named(uses) : Operations[o].identity # Operations[first].identity
            THEN Ambiguous ELSE Operations[first]

-----------------------------------------------------------------------------
(* buildWorkflowSpecs *)

InputNames(inputs) == UNION {{inputs[i].name, inputs[i].flag} : i \in DOMAIN inputs}

\* validateWorkflowRefs: every reference is terminated and goes to an input or to a
\* step in seen.
RefsKnown(expr, inputs, seen) ==
    \A k \in DOMAIN expr :
        \/ expr[k].part = "text"
        \/ /\ expr[k].part = "ref"
           /\ \/ expr[k].kind = "input" /\ expr[k].name \in InputNames(inputs)
              \/ expr[k].kind = "steps" /\ expr[k].name \in seen

\* The expressions of a step: of its conditions, parameters, sets and set_strs.
ParamExprs(step) == {step.params[p] : p \in DOMAIN step.params}

Exprs(step) ==
    {step.when[k].value : k \in DOMAIN step.when} \cup ParamExprs(step)
    \cup {step.sets[k] : k \in DOMAIN step.sets}

\* Steps that may be named wherever they stand.
AllIds(steps, i) == {steps[j].id : j \in DOMAIN steps}

\* Steps before the i-th one.
EarlierIds(steps, i) == {steps[j].id : j \in 1 .. i - 1}

StepAccepted(command, i) ==
    LET step == command.steps[i]
        operation == Resolve(step.uses)
    IN /\ operation \notin {NotFound, Ambiguous}
       /\ ~operation.binary
       /\ DOMAIN step.params \subseteq operation.params
       /\ \A e \in Exprs(step) : RefsKnown(e, command.inputs, EarlierIds(command.steps, i))

\* A command's name and aliases.
NamesOf(command) == {command.use} \cup command.aliases

BuildWorkflowSpecs(commands) ==
    \A c \in DOMAIN commands :
        /\ \A name \in NamesOf(commands[c]) :
             name \notin RootNames \cup UNION {NamesOf(commands[b]) : b \in 1 .. c - 1}
        /\ \A i \in DOMAIN commands[c].steps : StepAccepted(commands[c], i)
        /\ RefsKnown(commands[c].output, commands[c].inputs,
                     {commands[c].steps[j].id : j \in DOMAIN commands[c].steps})

Compiles(commands) == NormalizeWorkflow(commands) /\ BuildWorkflowSpecs(commands)

-----------------------------------------------------------------------------
(* Evaluation.  A value is a text; what is not one is as a text of its own. *)
(* seen gives the values of the inputs and of the steps that have run, and *)
(* the set of steps that were skipped.                                     *)

Fails(why) == [fails |-> why, text |-> <<>>]

Gives(text) == [fails |-> "", text |-> text]

Skipped == "skipped"

\* workflowRefValue.  A step's output has one path, which it may lack.
RefValue(ref, seen) ==
    CASE ref.kind = "input" ->
           IF ref.name \in DOMAIN seen.inputs THEN Gives(seen.inputs[ref.name]) ELSE Fails("unknown input")
      [] ref.kind = "steps" ->
           IF ref.name \in seen.skipped THEN Fails(Skipped)
           ELSE IF ref.name \notin DOMAIN seen.steps THEN Fails("unknown step")
           ELSE IF ~ref.path THEN Gives(seen.steps[ref.name].whole)
           ELSE IF seen.steps[ref.name].has THEN Gives(seen.steps[ref.name].field)
           ELSE Fails("no path")
      [] OTHER -> Fails("unknown reference")

\* In a condition a skipped step reads as an empty text too.
PartValueBlank(part, seen, mode) ==
    IF part.part = "text" THEN Gives(<<part.atom>>)
    ELSE IF part.part = "open" THEN Gives(<<>>)
    ELSE LET value == RefValue(part, seen)
         IN IF value.fails # "" /\ mode # "strict" THEN Gives(<<>>) ELSE value

\* evalWorkflowString's loop: what a part adds to the text.
PartValue(part, seen, mode) ==
    IF part.part = "text" THEN Gives(<<part.atom>>)
    ELSE IF part.part = "open"
    THEN IF mode = "condition" THEN Gives(<<"${">>) ELSE Fails("unterminated")
    ELSE LET value == RefValue(part, seen)
         IN IF value.fails = "" THEN value
            ELSE IF mode = "output" /\ value.fails = Skipped THEN Gives(<<"null">>)
            ELSE IF mode = "condition" /\ value.fails # Skipped THEN Gives(<<>>)
            ELSE value

\* evalWorkflowString: the first part that fails decides.
EvalString(expr, seen, mode) ==
    LET values == [k \in DOMAIN expr |-> PartValue(expr[k], seen, mode)]
        failing == {k \in DOMAIN expr : values[k].fails # ""}
    IN IF failing = {} THEN Gives(FlattenSeq([k \in DOMAIN expr |-> values[k].text]))
       ELSE values[CHOOSE k \in failing : \A j \in failing : k <= j]

\* An expression that begins with a reference, ends in a brace and holds no second
\* reference is taken for one reference, which goes to the last brace.
Sole(expr) ==
    /\ Len(expr) >= 1 /\ expr[1].part = "ref"
    /\ \A k \in 2 .. Len(expr) : expr[k].part = "text"
    /\ Len(expr) = 1 \/ expr[Len(expr)] = Brace

\* Then a text after the first brace belongs to the name or to the path.
Misread(expr, seen) ==
    LET ref == expr[1]
    IN IF ref.kind = "steps" /\ ref.path THEN LET value == RefValue(ref, seen)
                                              IN IF value.fails = "" THEN Fails("no path") ELSE value
       ELSE Fails(CASE ref.kind = "steps" -> "unknown step"
                    [] ref.kind = "input" -> "unknown input"
                    [] OTHER -> "unknown reference")

\* evalWorkflowValue.
EvalValue(expr, seen, mode) ==
    IF ~Sole(expr) THEN EvalString(expr, seen, mode)
    ELSE IF Len(expr) = 1 THEN RefValue(expr[1], seen)
    ELSE Misread(expr, seen)

\* evalWorkflowConditions: the first condition that fails or does not match decides.
Condition(cond, seen) ==
    LET actual == EvalString(cond.value, seen, "condition")
        listed == actual.text \in cond.values
    IN IF actual.fails # "" THEN actual.fails
       ELSE IF listed = (cond.operator = "in") THEN "matches" ELSE "differs"

EvalConditions(conditions, seen) ==
    LET results == [k \in DOMAIN conditions |-> Condition(conditions[k], seen)]
        stopping == {k \in DOMAIN conditions : results[k] # "matches"}
    IN IF stopping = {} THEN "matches"
       ELSE results[CHOOSE k \in stopping : \A j \in stopping : k <= j]

\* workflowOperationInput: parameters first, in the order a map is ranged over, so any
\* one that fails may be the one that decides; then the sets in their order.
InputFailures(step, seen) ==
    LET params == {EvalValue(e, seen, "strict").fails : e \in ParamExprs(step)} \ {""}
        sets == [k \in DOMAIN step.sets |-> EvalString(step.sets[k], seen, "strict").fails]
        failing == {k \in DOMAIN step.sets : sets[k] # ""}
    IN IF params # {} THEN params
       ELSE IF failing # {} THEN {sets[CHOOSE k \in failing : \A j \in failing : k <= j]}
       ELSE {}
=============================================================================
