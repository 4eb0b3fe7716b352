--------------------------- MODULE RequestParams ---------------------------
(***************************************************************************)
(* Parameters of an operation on their way from the specification to the   *)
(* request: what normalize makes of them (internal/codegen/normalize:      *)
(* params.go, serialization.go), how a command's flags and arguments give  *)
(* them values (pkg/runtime: param_flags.go, operation_params.go,          *)
(* context.go) and where the values go (operation.go).                     *)
(***************************************************************************)
EXTENDS Integers, Sequences, FiniteSets, SequencesExt

NoText == "-none-"

\* Texts that a flag takes for an integer and for a boolean, each with the text that it
\* is sent as (pflag's Int64 and Bool, FormatInt, FormatBool).
Number == [text \in {"7", "0", "0x7"} |-> IF text = "0x7" THEN "7" ELSE text]

Truth == [text \in {"true", "1", "false", "0"} |-> IF text \in {"true", "1"} THEN "true" ELSE "false"]

\* Texts that are a number in base 10.
DecimalTexts == {"7", "0"}

\* The types of flags that can be repeated, and the type of each of their values.
Lists == {"[]string", "[]int64", "[]float64", "[]bool"}

ItemType(type) ==
    CASE type = "[]int64" -> "int64"
      [] type = "[]float64" -> "float64"
      [] type = "[]bool" -> "bool"
      [] type = "[]string" -> "string"
      [] OTHER -> type

-----------------------------------------------------------------------------
(* normalize *)

\* serialization: parameters that cannot be written into a request.
Unserializable(raw) ==
    /\ raw.in \in {"path", "query", "header", "cookie"}
    /\ raw.type = "object" \/ (raw.in = "cookie" /\ raw.type = "array")

\* Types of their own that only variables have.
VariableType ==
    [type \in {"number", "integer-array", "number-array", "boolean-array", "string-array"} |->
        CASE type = "number" -> "float64"
          [] type = "integer-array" -> "[]int64"
          [] type = "number-array" -> "[]float64"
          [] type = "boolean-array" -> "[]bool"
          [] OTHER -> "[]string"]

\* The type alone, wherever the parameter stands.
GoTypeByType(raw) ==
    CASE raw.type = "integer" -> "int64"
      [] raw.type = "boolean" -> "bool"
      [] raw.type = "array" -> "[]string"
      [] raw.type \in DOMAIN VariableType -> VariableType[raw.type]
      [] OTHER -> "string"

\* parameter: the type a parameter has in the generated command.
GoType(raw) ==
    CASE raw.in \in {"query", "formData", "variable"} /\ raw.type = "integer" -> "int64"
      [] raw.in \in {"query", "formData", "variable"} /\ raw.type = "boolean" -> "bool"
      [] raw.in \in {"path", "query", "variable"} /\ raw.type = "array" -> "[]string"
      [] raw.in = "variable" /\ raw.type \in DOMAIN VariableType -> VariableType[raw.type]
      [] OTHER -> "string"

Parameter(raw) ==
    [name |-> raw.name, in |-> raw.in, goType |-> GoType(raw),
     required |-> raw.required \/ raw.in = "path", default |-> raw.default,
     file |-> raw.in = "formData" /\ raw.type = "file"]

-----------------------------------------------------------------------------
(* Values.  given is, for each parameter, the ways the user has set it:     *)
(* "flag", "argument", "env", "file" or "stdin", with the texts of each.   *)

Ways(given, i) == DOMAIN given[i]

Unbound(why) == [fails |-> why, texts |-> << >>]

\* The type a flag has: that of a path parameter is a string.
FlagType(param) == IF param.in = "path" /\ param.goType # "[]string" THEN "string" ELSE param.goType

Takes(type, text) ==
    CASE type = "int64" -> text \in DOMAIN Number
      [] type = "float64" -> text \in DecimalTexts
      [] type = "bool" -> text \in DOMAIN Truth
      [] OTHER -> TRUE

Parses(param, texts) == \A k \in DOMAIN texts : Takes(ItemType(FlagType(param)), texts[k])

\* What a flag of a type makes of a text it takes.
ReadAs(type, text) ==
    CASE type = "int64" -> Number[text]
      [] type = "bool" -> Truth[text]
      [] OTHER -> text

\* bindParamFlag: the default a flag has.
DefaultText(param) ==
    CASE FlagType(param) \in {"int64", "float64"} -> IF param.default \in DecimalTexts THEN param.default ELSE "0"
      [] FlagType(param) = "bool" -> IF param.default = "true" THEN "true" ELSE "false"
      [] OTHER -> param.default

\* Who reads standard input first finds all of it, the others nothing.
StdinReaders(params, given) == {i \in DOMAIN params : "stdin" \in Ways(given, i)}

\* bindPositionalArgs, resolveSafeInputFlags.
BindRefusals(params, given) ==
    {why \in {"twice", "parse", "empty"} :
        \E i \in DOMAIN params :
            CASE why = "twice" -> Cardinality(Ways(given, i)) > 1
              [] why = "parse" -> \E w \in Ways(given, i) : ~Parses(params[i], given[i][w])
              [] OTHER -> \/ \E w \in Ways(given, i) \cap {"env", "file", "stdin"} : given[i][w] = <<"">>
                          \/ i \in StdinReaders(params, given)
                             /\ \E j \in StdinReaders(params, given) : j < i}

\* resolveOperationContexts: contexts holds the value of a context-bound parameter, from
\* the environment or from hosts.yml, or NoText.
FromContext(params, given, contexts, i) ==
    Ways(given, i) = {} /\ i \in DOMAIN contexts /\ contexts[i] # NoText

\* operationChanged.
Changed(params, given, contexts) ==
    {i \in DOMAIN params :
        params[i].default # NoText \/ Ways(given, i) # {} \/ FromContext(params, given, contexts, i)}

\* requiredFlagParam: variables of an operation with a body are looked for in the body.
RequiredFlagParam(param, hasBody) ==
    param.required /\ param.default = NoText /\ (param.in = "variable" => ~hasBody)

\* validateRequiredParams, and the required contexts without a value of
\* resolveOperationContexts, which no default makes up for.
Missing(params, given, contexts, hasBody) ==
    {i \in DOMAIN params :
        \/ RequiredFlagParam(params[i], hasBody) /\ i \notin Changed(params, given, contexts)
        \/ params[i].required /\ Ways(given, i) = {} /\ i \in DOMAIN contexts /\ contexts[i] = NoText}

\* operationValue: flags of lists have no default.
TextsOf(params, given, contexts, i) ==
    IF Ways(given, i) # {}
    THEN LET texts == given[i][CHOOSE w \in Ways(given, i) : TRUE]
         IN [k \in DOMAIN texts |-> ReadAs(ItemType(FlagType(params[i])), texts[k])]
    ELSE IF FromContext(params, given, contexts, i) THEN <<contexts[i]>>
    ELSE IF params[i].goType \in Lists THEN <<>>
    ELSE <<DefaultText(params[i])>>

\* The command's values, or why it ends in a usage error.
Bind(params, given, contexts, hasBody) ==
    LET refusals == BindRefusals(params, given)
    IN IF refusals # {} THEN Unbound(CHOOSE why \in refusals : TRUE)
       ELSE IF Missing(params, given, contexts, hasBody) # {} THEN Unbound("required")
       ELSE [fails |-> "",
             texts |-> [i \in Changed(params, given, contexts) |-> TextsOf(params, given, contexts, i)]]

-----------------------------------------------------------------------------
(* The request *)

Entry(param, texts) == [in |-> param.in, name |-> param.name, texts |-> texts]

\* queryParamPairs: types that have no form in a query add nothing to it.
QueryEntries(param, texts) ==
    IF param.goType \notin {"[]string", "int64", "bool", "string"} \/ texts = <<>> THEN {}
    ELSE {Entry(param, texts)}

\* pathParamValue, which writes an empty array as an empty text, and the rest of
\* resolveOperationRequest's switch: one value for a header or a cookie, a form field
\* or a file for each value.
Placed(param, texts) ==
    CASE param.in = "query" -> QueryEntries(param, texts)
      [] param.in \in {"header", "cookie"} -> {Entry(param, <<texts[1]>>)}
      [] param.in = "path" /\ texts = <<>> -> {Entry(param, <<"">>)}
      [] OTHER -> {Entry(param, texts)}

Sent(params, bound) == UNION {Placed(params[i], bound.texts[i]) : i \in DOMAIN bound.texts}

\* The parts of a path template that are still open in the request.
OpenPlaceholders(template, params, bound) ==
    {name \in template : ~\E e \in Sent(params, bound) : e.in = "path" /\ e.name = name}

-----------------------------------------------------------------------------
(* What should be in a request *)

\* The same number or the same truth, in the words of the specification's types.
Meaning(type, text) ==
    CASE type \in {"integer", "integer-array"} /\ text \in DOMAIN Number -> Number[text]
      [] type \in {"boolean", "boolean-array"} /\ text \in DOMAIN Truth -> Truth[text]
      [] OTHER -> text

MeansSame(type, sent, said) ==
    /\ DOMAIN sent = DOMAIN said
    /\ \A k \in DOMAIN said : Meaning(type, sent[k]) = Meaning(type, said[k])

\* A default that is one of its type.  A service has its own defaults for lists.
HasDefault(raw) ==
    /\ raw.default # NoText /\ raw.type \notin {"array"} \cup (DOMAIN VariableType \ {"number"})
    /\ CASE raw.type \in {"integer", "number"} -> raw.default \in DecimalTexts
         [] raw.type = "boolean" -> raw.default \in {"true", "false"}
         [] OTHER -> TRUE

\* The texts a parameter should be sent with, if any: those the user gave, an empty list
\* excepted, or else its context's, or else its default.
Said(raws, given, contexts, i) ==
    IF Ways(given, i) # {} THEN {given[i][w] : w \in Ways(given, i)} \ {<<>>}
    ELSE IF i \in DOMAIN contexts /\ contexts[i] # NoText THEN {<<contexts[i]>>}
    ELSE IF HasDefault(raws[i]) THEN {<<raws[i].default>>}
    ELSE {}

\* Values that are bound make a request without open placeholders, in which everything said
\* of a parameter stands where the specification has it, and in which nothing else stands.
Faithful(raws, template, given, contexts, hasBody) ==
    LET params == [i \in DOMAIN raws |-> Parameter(raws[i])]
        bound == Bind(params, given, contexts, hasBody)
    IN bound.fails = "" =>
         /\ OpenPlaceholders(template, params, bound) = {}
         /\ \A i \in DOMAIN raws : \A texts \in Said(raws, given, contexts, i) :
              \E e \in Sent(params, bound) :
                 e.in = raws[i].in /\ e.name = raws[i].name /\ MeansSame(raws[i].type, e.texts, texts)
         /\ \A e \in Sent(params, bound) :
              \E i \in DOMAIN raws : e.in = raws[i].in /\ e.name = raws[i].name
                  /\ (Ways(given, i) # {} \/ raws[i].default # NoText \/ FromContext(params, given, contexts, i))
=============================================================================
