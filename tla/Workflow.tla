------------------------------ MODULE Workflow ------------------------------
(***************************************************************************)
(* A run of one workflow command (pkg/runtime: workflow.go, context.go and *)
(* the workflow's path through operation.go and ctx.go): its steps invoke  *)
(* operations in order, at the host that each step finds in hosts.yml,     *)
(* which other commands of the CLI change meanwhile.                       *)
(***************************************************************************)
EXTENDS WorkflowSpecs, FiniteSets, TLC

CONSTANTS
    Commands,    \* sequences of workflow commands that cli.yaml may hold; the first is run
    Hosts,       \* two hosts or more, all logged in
    NoHost,
    Values,      \* values that other commands give a context: texts
    Answers,     \* outputs of an operation: whole, has and field
    NoAnswer,
    MaxEdits     \* bound on changes of hosts.yml by other commands

\* A context without a value.
Unset == <<>>

IsList(s) == s \in Seq(Range(s))

\* What a command lists, and each expression, is listed in sequences.
Sequential(c) ==
    /\ IsList(c.steps) /\ IsList(c.output)
    /\ \A i \in DOMAIN c.steps :
         /\ IsList(c.steps[i].when) /\ IsList(c.steps[i].sets)
         /\ \A e \in Exprs(c.steps[i]) : IsList(e)

ASSUME WorkflowAssumption ==
    /\ NoHost \notin Hosts /\ Unset \notin Values
    /\ NoAnswer \notin Answers /\ MaxEdits \in Nat
    /\ \A a \in Answers : DOMAIN a = {"whole", "has", "field"}
    /\ \A file \in Commands : 1 \in DOMAIN file /\ Sequential(file[1])

VARIABLES
    command,   \* the workflow command
    explicit,  \* --hostname or the host variable, or NoHost
    inputs,    \* values of its inputs by name and by flag
    hosts,     \* hosts.yml: the selected host and the stored context of each
    pc,
    step,      \* the number of the step at hand
    context,   \* the context value for the request at hand
    host,      \* what the step has last resolved
    answer,    \* the output of its operation
    seen,      \* values of steps that have run, and the ones that were skipped
    summary,   \* WorkflowResult.Steps
    status,    \* WorkflowResult.Status
    why,       \* what failed
    edits,
    calls      \* history: requests that were sent

config == <<command, explicit, inputs>>
vars == <<config, hosts, pc, step, context, host, answer, seen, summary, status, why, edits, calls>>

Places == {"refused", "evaluating", "resolving", "reading", "authorizing",
           "invoking", "saving", "output", "over"}

TypeOK ==
    /\ command \in {c[1] : c \in Commands}
    /\ explicit \in Hosts \cup {NoHost}
    /\ hosts.selected \in Hosts /\ DOMAIN hosts.context = Hosts
    /\ pc \in Places
    /\ step \in 1 .. Len(command.steps) + 1
    /\ host \in Hosts \cup {NoHost} /\ answer \in Answers \cup {NoAnswer}
    /\ DOMAIN seen.steps \cap seen.skipped = {}
    /\ status \in {"ok", "failed", "paused"}
    /\ edits \in 0 .. MaxEdits

\* Inputs without a value are those with neither a flag nor a default; an input fills
\* its name and its flag, over an earlier one's.
InputValues(list, given) ==
    LET fill[i \in 0 .. Len(list)] ==
            IF i = 0 THEN << >>
            ELSE IF given[i] = <<>> THEN fill[i - 1]
            ELSE (list[i].name :> given[i]) @@ (list[i].flag :> given[i]) @@ fill[i - 1]
    IN fill[Len(list)]

Init ==
    /\ \E file \in Commands :
         /\ command = file[1]
         /\ pc = IF Compiles(file) THEN "evaluating" ELSE "refused"
    /\ explicit \in Hosts \cup {NoHost}
    /\ \E given \in [DOMAIN command.inputs -> {<<>>, <<"v">>}] :
         /\ \A i \in DOMAIN given : command.inputs[i].required => given[i] # <<>>
         /\ inputs = InputValues(command.inputs, given)
    /\ hosts \in [selected : Hosts, context : [Hosts -> Values \cup {Unset}]]
    /\ step = 1 /\ context = Unset /\ host = NoHost /\ answer = NoAnswer
    /\ seen = [inputs |-> inputs, steps |-> << >>, skipped |-> {}]
    /\ summary = <<>> /\ status = "ok" /\ why = "" /\ edits = 0 /\ calls = {}

-----------------------------------------------------------------------------
(* hosts.yml *)

\* Another command selects a host, or stores or removes a context.
Edit ==
    /\ pc \notin {"refused", "over"} /\ edits < MaxEdits /\ edits' = edits + 1
    /\ \/ \E h \in Hosts : hosts' = [hosts EXCEPT !.selected = h]
       \/ \E h \in Hosts, v \in Values \cup {Unset} : hosts' = [hosts EXCEPT !.context[h] = v]
    /\ UNCHANGED <<config, pc, step, context, host, answer, seen, summary, status, why, calls>>

\* resolveHostFrom: every host is logged in and one is selected.
ResolveHost == IF explicit # NoHost THEN explicit ELSE hosts.selected

-----------------------------------------------------------------------------
(* executeWorkflow *)

Step == command.steps[step]

Operation == Resolve(Step.uses)

Report(s) == summary' = Append(summary, [id |-> Step.id, status |-> s])

Fail(reason) ==
    /\ Report("failed") /\ status' = "failed" /\ why' = reason /\ pc' = "over"

NextStep == /\ step' = step + 1 /\ pc' = IF step = Len(command.steps) THEN "output" ELSE "evaluating"

Skip ==
    /\ Report("skipped") /\ NextStep
    /\ seen' = [seen EXCEPT !.skipped = @ \cup {Step.id}]
    /\ UNCHANGED <<status, why>>

\* Conditions and input.  A value that the operation does not accept, by its type, its
\* enumeration or its body's schema, fails the step later.
Evaluate ==
    LET matched == EvalConditions(Step.when, seen)
        failures == InputFailures(Step, seen)
    IN /\ pc = "evaluating"
       /\ context' = Unset /\ host' = NoHost /\ answer' = NoAnswer
       /\ \/ matched # "matches" /\ Skip
          \/ matched = "matches" /\ Skipped \in failures /\ Skip
          \/ /\ matched = "matches"
             /\ \E reason \in failures \ {Skipped} : Fail(reason)
             /\ UNCHANGED <<step, seen>>
          \/ /\ matched = "matches" /\ failures = {}
             /\ pc' = "resolving"
             /\ UNCHANGED <<step, seen, summary, status, why>>
       /\ UNCHANGED <<config, hosts, edits, calls>>

\* A context-bound parameter that the step does not set.
NeedsContext == Operation.context # "none" /\ ~("org" \in DOMAIN Step.params)

\* resolveCommandContexts: the host whose context is used ...
ResolveContextHost ==
    /\ pc = "resolving"
    /\ IF NeedsContext THEN pc' = "reading" /\ host' = ResolveHost
                       ELSE pc' = "authorizing" /\ UNCHANGED host
    /\ UNCHANGED <<config, hosts, step, context, answer, seen, summary, status, why, edits, calls>>

\* ... and, in a second read of hosts.yml, its value.
ReadContext ==
    /\ pc = "reading"
    /\ \/ /\ hosts.context[host] # Unset \/ Operation.context = "optional"
          /\ context' = hosts.context[host] /\ pc' = "authorizing"
          /\ UNCHANGED <<summary, status, why>>
       \/ /\ hosts.context[host] = Unset /\ Operation.context = "required"
          /\ Fail("no context") /\ UNCHANGED context
    /\ UNCHANGED <<config, hosts, step, host, answer, seen, edits, calls>>

\* validateOperationInput, and operationHostOptions, which resolves the host again.
Authorize ==
    /\ pc = "authorizing"
    /\ \/ host' = ResolveHost /\ pc' = "invoking" /\ UNCHANGED <<summary, status, why>>
       \/ Fail("invalid input") /\ UNCHANGED host
       \/ Fail("no credentials") /\ UNCHANGED host
    /\ UNCHANGED <<config, hosts, step, context, answer, seen, edits, calls>>

\* A request that reaches the service.
Call == [step |-> step, host |-> host, context |-> context]

\* A failure at the service after which the next step runs.
InvokeOn ==
    /\ pc = "invoking" /\ calls' = calls \cup {Call}
    /\ Report("failed") /\ status' = "failed" /\ NextStep
    /\ UNCHANGED <<config, hosts, context, host, answer, seen, why, edits>>

\* InvokeOperation: the operation is refused before it is sent, fails at the service or
\* on the way, or is answered, with all of its stream or up to a pause.
Invoke ==
    /\ pc = "invoking"
    /\ \/ Fail("refused") /\ UNCHANGED <<answer, calls>>
       \/ Fail("service") /\ calls' = calls \cup {Call} /\ UNCHANGED answer
       \/ /\ calls' = calls \cup {Call}
          /\ answer' \in Answers
          /\ \/ pc' = "saving" /\ UNCHANGED <<summary, status>>
             \/ /\ Operation.pauses
                /\ Report("paused") /\ status' = "paused" /\ pc' = "over"
          /\ UNCHANGED why
    /\ UNCHANGED <<config, hosts, step, context, host, seen, edits>>

\* The parameter that an operation takes the new value of a context from.
ContextToStore ==
    IF "org" \in DOMAIN Step.params THEN EvalValue(Step.params["org"], seen, "strict").text ELSE context

Finish ==
    /\ Report("ok") /\ NextStep
    /\ seen' = [seen EXCEPT !.steps = [id \in DOMAIN @ \cup {Step.id} |->
                                          IF id = Step.id THEN answer ELSE @[id]]]
    /\ UNCHANGED <<status, why>>

\* The context goes to the selected host.
PersistSelected ==
    /\ pc = "saving" /\ Operation.stores
    /\ hosts' = [hosts EXCEPT !.context[hosts.selected] = ContextToStore]
    /\ Finish
    /\ UNCHANGED <<config, context, host, answer, edits, calls>>

\* persistOperationContext.  Without a value, without an entry of the host and when
\* hosts.yml cannot be written the step fails although its operation did not.
Persist ==
    /\ pc = "saving"
    /\ \/ /\ Operation.stores /\ ContextToStore # Unset
          /\ hosts' = [hosts EXCEPT !.context[host] = ContextToStore]
          /\ Finish
       \/ ~Operation.stores /\ Finish /\ UNCHANGED hosts
       \/ Operation.stores /\ Fail("not stored") /\ UNCHANGED <<hosts, step, seen>>
    /\ UNCHANGED <<config, context, host, answer, edits, calls>>

\* output.from
Output ==
    /\ pc = "output"
    /\ pc' = "over"
    /\ why' = IF command.output = <<>> THEN ""
              ELSE LET value == EvalValue(command.output, seen, "output").fails
                   IN IF value = Skipped THEN "" ELSE value
    /\ UNCHANGED <<config, hosts, step, context, host, answer, seen, summary, status, edits, calls>>

Next ==
    \/ Edit \/ Evaluate \/ ResolveContextHost \/ ReadContext \/ Authorize
    \/ Invoke \/ Persist \/ Output

Spec == Init /\ [][Next]_vars
-----------------------------------------------------------------------------
(* Properties *)

Ids == [i \in DOMAIN command.steps |-> command.steps[i].id]

\* The result lists the steps in order up to the one that failed or paused, and every
\* request that was sent belongs to a step of it that was not skipped (workflow.go:
\* executeWorkflow; nothing is rolled back, so a reader must be able to tell).
FailFast ==
    /\ \A i \in DOMAIN summary : summary[i].id = Ids[i]
    /\ \A i \in 1 .. Len(summary) - 1 : summary[i].status \in {"ok", "skipped"}
    /\ status # "ok" <=> summary # <<>> /\ summary[Len(summary)].status \notin {"ok", "skipped"}
    /\ \A c \in calls :
         /\ c.step \in 1 .. Len(summary) \/ (c.step = step /\ pc = "saving")
         /\ c.step <= Len(summary) => summary[c.step].status # "skipped"

\* Expressions that are not misread.
WellRead(expr) == ~(Sole(expr) /\ Len(expr) > 1)

\* What codegen has compiled does not fail at run time for a reference to a step that
\* does not exist or comes later, for another unknown reference or for one without an
\* end (validateWorkflowRefs against workflowRefValue).
ReferencesKnown ==
    (\A e \in {command.output} \cup UNION {Exprs(command.steps[i]) : i \in DOMAIN command.steps} : WellRead(e)) =>
        why \notin {"unknown step", "unknown reference", "unterminated"}

\* Steps that a step reads in its conditions, parameters or sets.
Reads(i) ==
    UNION {{e[k].name : k \in {j \in DOMAIN e : e[j].part = "ref" /\ e[j].kind = "steps"}} :
             e \in Exprs(command.steps[i])}

\* A request is sent only when every step it reads has run and its operation ended well: a
\* skip spreads to whatever reads the skipped step, at any distance.
ReadsRan ==
    \A c \in calls : \A id \in Reads(c.step) :
        \E j \in 1 .. c.step - 1 : summary[j] = [id |-> id, status |-> "ok"]

\* The workflow changes hosts.yml only by the context of a step that is reported ok, at
\* the host its request went to; a paused or failed operation stores nothing.
ContextsFollowSuccess ==
    [][edits' = edits /\ hosts' # hosts =>
         /\ [step |-> step, host |-> host, context |-> context] \in calls
         /\ summary' = Append(summary, [id |-> Step.id, status |-> "ok"])
         /\ \A h \in Hosts \ {host} : hosts'.context[h] = hosts.context[h]
         /\ hosts'.selected = hosts.selected]_vars

\* "Any later step that reads the skipped step is also skipped" (docs/workflow.md:119).
SkipSpreads ==
    \A i \in DOMAIN summary : Reads(i) \cap seen.skipped # {} => summary[i].status = "skipped"

=============================================================================
