---------------------------- MODULE CommandFlags ----------------------------
(***************************************************************************)
(* The parameters of a command with their flags, and those codegen gives   *)
(* the parts of a multipart body and the properties of a JSON body, and    *)
(* what it refuses of them (internal/codegen/normalize: normalize.go,      *)
(* params.go, body_flags.go; internal/codegen/app/app.go).                 *)
(***************************************************************************)
EXTENDS FlagNames

CONSTANTS
    Fields(_, _),         \* properties of a schema for an object and names it requires, or no properties
    ReadOnly(_, _),       \* whether a schema, with what it refers to, is read-only
    PartType(_, _),       \* type of the flag for a part of this schema, or NoPart
    FilePart(_, _),       \* whether such a part is a file
    RequiredNames(_, _),  \* names that the schema of a command requires
    ObjectSchema(_, _),   \* whether the schema of a command is one of an object
    JSONFlagType(_)       \* type of the flag for a property; "nested" is left to --set, "refused" has none

NoPart == ""

Writable(fields, defs) == {n \in DOMAIN fields.props : ~ReadOnly(fields.props[n], defs)}

\* multipartBodyParams: the parts that a flag can carry, those that none can.
MultipartBodyParams(body, defs) ==
    LET fields == Fields(body.schema, defs)
        typed == {n \in Writable(fields, defs) : PartType(fields.props[n], defs) # NoPart}
        names == SetToSeq(typed)
    IN [unsupported |-> Writable(fields, defs) \ typed,
        params |-> [i \in DOMAIN names |->
            [name |-> names[i], in |-> "formData", goType |-> PartType(fields.props[names[i]], defs),
             required |-> names[i] \in fields.required, default |-> NoText,
             file |-> FilePart(fields.props[names[i]], defs),
             flag |-> Kebab(names[i]), aliases |-> {}, part |-> TRUE]]]

NoBody == [media |-> "none"]

\* The parameters that stand for the parts of an operation's body.
PartParams(raw, defs) ==
    IF raw.body.media = "multipart" THEN MultipartBodyParams(raw.body, defs).params ELSE <<>>

\* Normalize: the parameters of an operation with their flags.
CommandParams(raw, defs) ==
    LET ours == [i \in DOMAIN raw.params |-> FlagParam(raw.params[i])]
        cookies == Disambiguate("cookie", ours, {i \in DOMAIN ours : ours[i].in = "cookie"})
        all == cookies \o PartParams(raw, defs)
    IN NormalizeParamFlags(Disambiguate("body", all, {i \in DOMAIN all : all[i].part}))

-----------------------------------------------------------------------------
(* What codegen asks of a multipart body *)

HasForm(params) == \E i \in DOMAIN params : params[i].in = "formData"

\* Parts are looked for, and not whether each required one has one.
AnyPart(body, params, defs) == HasForm(params) \/ ~body.required

\* validateMultipartBody
ValidateMultipartBody(body, params, defs) ==
    LET unsupported == MultipartBodyParams(body, defs).unsupported
    IN /\ RequiredNames(body.schema, defs) \cap unsupported = {}
       /\ \/ HasForm(params)
          \/ ~body.required /\ (unsupported # {} \/ ObjectSchema(body.schema, defs))

-----------------------------------------------------------------------------
(* Typed flags for the properties of a JSON body *)

ReservedBodyFlags == {Word(w) : w \in {"all", "debug", "file", "help", "hostname", "output", "set",
                                       "stream", "version", "wait"}}
                     \cup {Word("dry") \o Word("run"), Word("max") \o Word("pages"), Word("set") \o Word("str")}

\* What neither a property nor its flag may be.
TakenNames(params) ==
    UNION {{params[i].flag, params[i].name} \cup params[i].aliases : i \in DOMAIN params}

BodyFlag(body, n) ==
    [name |-> n, in |-> "body", goType |-> JSONFlagType(body.schema.props[n]),
     required |-> n \in body.schema.required, default |-> NoText, file |-> FALSE,
     flag |-> Kebab(n), aliases |-> {}, part |-> FALSE]

\* ExpandJSONBodyFlags: a flag for each property, but for those left to --set.
ExpandJSONBodyFlags(params, body) ==
    LET flags == {BodyFlag(body, n) : n \in DOMAIN body.schema.props}
        typed == {f \in flags : f.goType # "nested"}
    IN [ok |-> /\ body.media = "json" /\ ~body.template /\ ~HasForm(params)
               /\ body.schema.type = "object" /\ JSONFlagType(body.schema) = "nested"
               /\ typed # {}
               /\ \A f \in typed :
                    /\ f.goType # "refused"
                    /\ {f.flag, f.name} \cap TakenNames(params) = {}
                    /\ f.flag \notin ReservedBodyFlags
                    /\ \A g \in typed \ {f} : g.flag # f.flag,
        params |-> SetToSeq(typed)]

\* ValidateJSONBodyFlagParams, for codegen: only a command with typed body flags is asked.
ValidateJSONBodyFlagParams(params) ==
    (\E i \in DOMAIN params : params[i].in = "body") =>
        /\ ValidateParamFlags(params)
        /\ \A i \in DOMAIN params :
             params[i].in = "body" => ({params[i].flag} \cup params[i].aliases) \cap ReservedBodyFlags = {}
=============================================================================
