---------------------------- MODULE MCOperation ----------------------------
(***************************************************************************)
(* Commands for OperationRun: every flag of every kind of response, and    *)
(* bodies and parameters over small sets.                                  *)
(***************************************************************************)
EXTENDS OperationRun

NoBody == [media |-> "none", template |-> NoTemplate, mergePath |-> <<>>, fields |-> << >>, required |-> FALSE]

NoInput == [set |-> <<>>, setStr |-> <<>>, vars |-> <<>>, fields |-> << >>, form |-> {}, file |-> NoFile]

Base ==
    [kind |-> "plain", flags |-> {}, strategy |-> "none", start |-> 0, heeds |-> TRUE,
     login |-> "valid", public |-> FALSE, schema |-> FALSE, setsContext |-> FALSE, links |-> TRUE,
     raws |-> <<>>, open |-> {}, given |-> <<>>, contexts |-> << >>, spec |-> NoBody, input |-> NoInput,
     policy |-> << >>]

JSONBody == [NoBody EXCEPT !.media = "json"]

NameSet == [NoInput EXCEPT !.set = <<[path |-> <<Field("a")>>, text |-> "7"]>>]

\* Logins, schemas, contexts, dry runs and waits.
Plain ==
    {[Base EXCEPT !.flags = flags, !.login = login, !.public = public, !.setsContext = sets] :
        flags \in {{}, {"dry-run"}, {"wait"}}, login \in {"none", "valid", "wrong"},
        public \in BOOLEAN, sets \in BOOLEAN}
    \cup {[Base EXCEPT !.schema = TRUE, !.spec = JSONBody, !.input = input] : input \in {NoInput, NameSet}}

Paged ==
    {[Base EXCEPT !.kind = "paged", !.flags = {"all"}, !.strategy = strategy, !.start = start, !.heeds = heeds] :
        strategy \in {"cursor", "body-cursor", "offset"}, start \in {0, 1, 9}, heeds \in BOOLEAN}

Binary ==
    {[Base EXCEPT !.kind = "binary", !.flags = flags, !.links = links] :
        flags \in {{}, {"to-file"}, {"to-stdout"}, {"to-file", "dry-run"}}, links \in BOOLEAN}

-----------------------------------------------------------------------------
(* Bodies *)

Places == {<<Field("a")>>, <<Field("b")>>, <<Field("a"), Field("b")>>, <<Item("a", 1)>>, <<>>}

Given == {[path |-> path, text |-> text] : path \in Places, text \in {"7", "null"}}

UpTo(S, n) == UNION {[1 .. k -> S] : k \in 0 .. n}

Documents == {NoFile, Garbage, EmptyFile, Object([a |-> Leaf("1"), c |-> Leaf("2")]), Array(<<Leaf("1")>>)}

Built ==
    {[NoBody EXCEPT !.media = media, !.fields = fields, !.required = required] :
        media \in {"json", "other"}, fields \in {<< >>, [a |-> TRUE]}, required \in {FALSE}}
    \cup {[JSONBody EXCEPT !.required = TRUE], [NoBody EXCEPT !.media = "multipart"]}

Templates ==
    {[JSONBody EXCEPT !.template = Object([q |-> Leaf("t"), v |-> Object(<< >>)]),
                           !.mergePath = path, !.fields = [a |-> TRUE]] :
            path \in {<<>>, <<Field("v")>>}}

Inputs ==
    {[NoInput EXCEPT !.set = set, !.setStr = setStr, !.file = file, !.fields = fields] :
        set \in UpTo(Given, 1), setStr \in UpTo({a \in Given : a.text = "7"}, 1), file \in Documents,
        fields \in {<< >>, [a |-> Leaf("1")]}}

Orders ==
    {[NoInput EXCEPT !.set = set, !.setStr = setStr] :
        set \in UpTo({a \in Given : a.text = "null"}, 2), setStr \in UpTo({a \in Given : a.text = "7"}, 1)}

\* A template has variables where other bodies have typed fields.
Generic(input) ==
    {[input EXCEPT !.fields = << >>, !.vars = given] :
        given \in {<<>>, <<[path |-> <<Field("a")>>, text |-> "x"]>>}}

Posted ==
    {[Base EXCEPT !.spec = spec, !.input = input] : spec \in Built, input \in Inputs}
    \cup {[Base EXCEPT !.spec = spec, !.input = input] :
            spec \in Templates, input \in UNION {Generic(i) : i \in Inputs}}
    \cup {[Base EXCEPT !.spec = JSONBody, !.input = input] : input \in Orders}

-----------------------------------------------------------------------------
(* Parameters *)

Raw(in, type, required, default) ==
    [name |-> "a", in |-> in, type |-> type, required |-> required, default |-> default]

\* A default may be missing, of its type, or of a form that is not read ("1e+06", as codegen
\* writes a million out of a JSON document).
Defaults(type) ==
    {NoText} \cup CASE type = "integer" -> {"7", "0", "1e+06"}
                     [] type = "boolean" -> {"true", "false"}
                     [] OTHER -> {"7"}

RawsOf(in, types) ==
    UNION {{Raw(in, type, required, default) : required \in BOOLEAN, default \in Defaults(type)} : type \in types}

Raws ==
    UNION {RawsOf(in, {"string", "integer", "boolean", "array", "number"}) : in \in {"path", "query", "header", "cookie", "formData"}}

\* Only shortcuts give variables defaults, and no lists.
Variables ==
    RawsOf("variable", {"string", "integer", "boolean", "number"})
    \cup {r \in RawsOf("variable", {"string-array", "integer-array", "number-array", "boolean-array"}) : r.default = NoText}

Values(raw) ==
    LET type == GoType(raw)
    IN CASE type \in Lists \ {"[]string"} -> {<<"7">>, <<"0", "0x7">>, <<"1", "false">>}
         [] type = "[]string" -> {<<>>, <<"x">>, <<"x", "y">>}
         [] type = "bool" -> {<<"true">>, <<"0">>, <<"x">>}
         [] type \in {"int64", "float64"} -> {<<"7">>, <<"0x7">>, <<"x">>}
         [] OTHER -> {<<"7">>, <<"x">>, <<"">>}

\* Arguments are for paths; values from the environment or standard input for texts.
WaysOf(raw) ==
    {"flag"} \cup (IF raw.in = "path" THEN {"argument"} ELSE {})
    \cup (IF raw.type = "string" /\ raw.in # "variable" THEN {"env", "stdin"} ELSE {})

Givens(raw) ==
    {<< >>} \cup {w :> v : w \in WaysOf(raw), v \in Values(raw)}
    \cup {[w \in WaysOf(raw) |-> <<"7">>]}

Contexts(raw) == IF GoType(raw) = "string" THEN {<< >>, <<"k">>, <<NoText>>} ELSE {<< >>}

Asked ==
    UNION {{[Base EXCEPT !.raws = <<raw>>, !.open = IF raw.in = "path" THEN {raw.name} ELSE {},
                         !.given = <<given>>, !.contexts = contexts] :
               given \in Givens(raw), contexts \in Contexts(raw)} :
           raw \in {r \in Raws : ~Unserializable(r)}}

\* A variable in the body of a GraphQL operation, where a file can have it too.
InBody(raw, given, contexts) ==
    LET bound == Bind(<<Parameter(raw)>>, <<given>>, contexts, TRUE)
    IN IF bound.fails # "" \/ bound.texts = << >> THEN <<>>
       ELSE <<[path |-> <<Field(raw.name)>>, text |-> IF Len(bound.texts[1]) = 1 THEN bound.texts[1][1] ELSE "list"]>>

AskedInBody ==
    UNION {{[Base EXCEPT !.raws = <<raw>>, !.given = <<given>>, !.contexts = contexts,
                         !.spec = [JSONBody EXCEPT !.template = Object([v |-> Object(<< >>)]), !.mergePath = <<Field("v")>>,
                                                   !.fields = raw.name :> (raw.required /\ raw.default = NoText)],
                         !.input = [NoInput EXCEPT !.vars = InBody(raw, given, contexts), !.file = file]] :
               given \in Givens(raw), contexts \in Contexts(raw), file \in {NoFile, Object([a |-> Leaf("1")])}} :
           raw \in Variables}

-----------------------------------------------------------------------------
(* Streams *)

Payload(name, text) == Object([e |-> Leaf(name), t |-> Leaf(text)])

CollectedField(events, from, to, reduce) ==
    [events |-> events, from |-> from, to |-> to, reduce |-> reduce, value |-> Leaf("seen")]

Policy(strategy, requireStop) ==
    [strategy |-> strategy, requireStop |-> requireStop, stops |-> {"done"}, pauses |-> {"ask"},
     errors |-> {"error"}, liveEvents |-> {"chunk", "done"}, liveFrom |-> <<Field("t")>>,
     namePath |-> <<Field("e")>>,
     fields |-> <<CollectedField({"chunk"}, <<Field("t")>>, <<Field("out"), Field("text")>>, "concat"),
                  CollectedField({"chunk", "ask"}, WholePayload, <<Field("all")>>, "append"),
                  CollectedField({"chunk", "done"}, <<Field("t")>>, <<Field("first")>>, "first"),
                  CollectedField({"chunk", "done"}, <<Field("t")>>, <<Field("out"), Field("last")>>, "last"),
                  CollectedField({"done", "ask"}, NoPath, <<Field("end")>>, "last")>>]

\* An event in one data line or in two, and with or without an event line.
Whole(event, name, payload) == [event |-> event, name |-> name, payload |-> payload, data |-> <<payload>>]

Split(event) == [event EXCEPT !.data = <<Half("left", event.payload), Half("right", event.payload)>>]

Events ==
    UNION {{Whole(event, name, Payload(name, "x")) : event \in {"", name}} : name \in {"chunk", "done", "ask", "error"}}
    \cup {Whole("chunk", "chunk", Payload("done", "y")), Split(Whole("", "chunk", Payload("chunk", "y"))),
          Whole("", "", Leaf("x")), Whole("chunk", "chunk", Object([t |-> Null])), Whole("chunk", "chunk", NotJSON),
          Whole("", "chunk", NotJSON), [Whole("chunk", "chunk", Absent) EXCEPT !.data = <<>>]}

Streamed ==
    {[Base EXCEPT !.kind = "stream", !.flags = flags, !.policy = Policy("sse", FALSE)] :
        flags \in {{"raw"}, {"stream", "wait"}, {"wait"}}}
    \cup {[Base EXCEPT !.kind = "stream", !.flags = flags, !.policy = Policy(strategy, requireStop),
                       !.setsContext = requireStop] :
            flags \in {{}, {"stream"}}, strategy \in {"sse", "ndjson"}, requireStop \in BOOLEAN}

-----------------------------------------------------------------------------
Listed == Plain \cup Paged \cup Streamed \cup Binary \cup Posted \cup Asked \cup AskedInBody

AllCommands == Listed
=============================================================================
