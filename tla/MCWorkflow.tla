----------------------------- MODULE MCWorkflow -----------------------------
(* Workflows of up to three steps for TLC. *)
EXTENDS Workflow

Op(names, id, file, params, ctx, stores, pauses) ==
    [keys |-> names, identity |-> id, binary |-> file, params |-> params,
     context |-> ctx, stores |-> stores, pauses |-> pauses]

mcOperations ==
    << Op({"get", "both"}, "get", FALSE, {"arg"}, "none", FALSE, FALSE),
       Op({"get", "other"}, "get", FALSE, {"arg"}, "none", FALSE, TRUE),
       Op({"stream", "both"}, "stream", FALSE, {"arg"}, "none", FALSE, TRUE),
       Op({"enter"}, "enter", FALSE, {"arg", "org"}, "optional", TRUE, TRUE),
       Op({"list"}, "list", FALSE, {"arg", "org"}, "required", FALSE, FALSE),
       Op({"file"}, "file", TRUE, {"arg"}, "none", FALSE, FALSE) >>

mcValues == {<<"acme">>}

mcAnswers == {[whole |-> <<"v">>, has |-> TRUE, field |-> <<"f">>],
              [whole |-> <<>>, has |-> FALSE, field |-> <<>>]}

Input(name, flag, required) == [name |-> name, flag |-> flag, required |-> required]

In(expr, values) == [value |-> expr, operator |-> "in", values |-> values]

NotIn(expr, values) == [value |-> expr, operator |-> "notin", values |-> values]

Do(id, uses, when, params, sets) ==
    [id |-> id, dotted |-> FALSE, uses |-> uses, when |-> when, params |-> params, sets |-> sets]

None == << >>

A == <<InputRef("a")>>
S1 == <<StepRef("s1", FALSE)>>
F1 == <<Plain("x"), StepRef("s1", TRUE)>>
S2 == <<StepRef("s2", FALSE)>>

First ==
    {Do("s1", "get", <<In(A, {<<"v">>})>>, None, <<>>),
     Do("s1", "enter", <<>>, "org" :> A, <<>>),
     Do("s1", "enter", <<>>, "org" :> <<Plain("o")>>, <<S2>>),
     Do("s1", "both", <<>>, None, <<>>), Do("s1", "file", <<>>, None, <<>>),
     Do("s1", "lost", <<>>, None, <<>>), Do("s1", "other", <<>>, "org" :> A, <<>>)}

Second ==
    {Do("s2", "get", <<>>, "arg" :> S1, <<>>),
     Do("s2", "stream", <<NotIn(F1, {<<"x", "f">>})>>, None, <<>>),
     Do("s2", "list", <<NotIn(A, {<<>>})>>, "arg" :> F1, <<S1>>),
     Do("s2", "enter", <<In(S1, {<<"v">>}), NotIn(A, {<<"w">>})>>, None, <<>>),
     Do("s1", "get", <<>>, None, <<>>)}

Third ==
    {Do("s3", "list", <<>>, None, <<>>),
     Do("s3", "list", <<>>, ("arg" :> S2) @@ ("org" :> F1), <<>>),
     Do("s3", "get", <<In(<<Plain("x"), Open>>, {<<"x", "${">>})>>, None, <<>>),
     Do("s3", "get", <<NotIn(<<StepRef("s3", FALSE)>>, {<<"v">>})>>, None, <<>>),
     Do("s3", "get", <<>>, "arg" :> <<InputRef("a"), Brace>>, <<S2 \o S1>>),
     Do("s3", "get", <<>>, None, << <<OtherRef>> >>)}

Outputs == {<<>>, S1 \o <<Plain(",")>> \o <<StepRef("s3", FALSE)>>}

Command(use, ins, steps, output) ==
    [use |-> use, aliases |-> {}, inputs |-> ins, steps |-> steps, output |-> output]

Sequences3 == {<<s, t, u>> : s \in First, t \in Second, u \in Third}

Inputs == {<<Input("a", "b", FALSE), Input("b", "c", FALSE)>>}

\* Names that are taken, inputs that are, a command without steps, and one whose output
\* goes to no step.
Refused ==
    LET good == Command("deploy", <<Input("a", "b", FALSE)>>, <<Do("s1", "get", <<>>, None, <<>>)>>, <<>>)
    IN {<<good, good>>, <<[good EXCEPT !.use = "auth"]>>,
        <<good, [good EXCEPT !.use = "roll", !.aliases = {"deploy"}]>>,
        <<[good EXCEPT !.inputs = @ \o @]>>, <<[good EXCEPT !.steps = <<>>]>>,
        <<[good EXCEPT !.output = S2]>>, <<[good EXCEPT !.steps[1].dotted = TRUE]>>,
        <<[good EXCEPT !.steps[1].when = <<In(A, {})>>]>>}

mcCommands ==
    {<<Command("deploy", i, s, o)>> : i \in Inputs, s \in Sequences3, o \in Outputs} \cup Refused

mcSymmetry == Permutations(Hosts)

mcRootNames == {"auth"}
=============================================================================
