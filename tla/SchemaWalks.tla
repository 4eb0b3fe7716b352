---------------------------- MODULE SchemaWalks ----------------------------
(***************************************************************************)
(* What codegen finds in the schema of a request body, walking its         *)
(* references and allOf (internal/codegen/normalize: params.go, schema.go, *)
(* body_flags.go; internal/codegen/app/app.go): values for the constants   *)
(* of CommandFlags.                                                        *)
(***************************************************************************)
EXTENDS CommandFlags, TLC

-----------------------------------------------------------------------------
(* Schemas: a ref into defs or a schema of its own, or both. *)

Blank == [ref |-> "", type |-> "", binary |-> FALSE, props |-> <<>>, required |-> {}, items |-> <<>>,
          allOf |-> <<>>, anyOf |-> <<>>, oneOf |-> FALSE, map |-> FALSE, readOnly |-> FALSE]

Choice(s) == s.anyOf # <<>> \/ s.oneOf

\* multipartSchemaHasKeywords; with required it is rawSchemaHasRefSiblings.
HasKeywords(s) ==
    \/ s.type # "" \/ s.binary \/ DOMAIN s.props # {} \/ s.items # <<>> \/ Choice(s) \/ s.map

Structured(s) == DOMAIN s.props # {} \/ s.map

Refused == [ok |-> FALSE, props |-> <<>>, required |-> {}]

Empty == [ok |-> TRUE, props |-> <<>>, required |-> {}]

\* The first declaration of a property stands; any of them can require it.
MergeFields(a, b) ==
    IF a.ok /\ b.ok THEN [ok |-> TRUE, props |-> a.props @@ b.props, required |-> a.required \cup b.required]
    ELSE Refused

OwnFields(s) == [ok |-> TRUE, props |-> s.props, required |-> s.required]

\* multipartObjectFields: the properties of an object, through references and allOf.
RECURSIVE ObjectFields(_, _, _)
ObjectFields(s, defs, seen) ==
    IF s.ref # ""
    THEN IF s.ref \in seen \/ s.ref \notin DOMAIN defs THEN Refused
         ELSE LET base == ObjectFields(defs[s.ref], defs, seen \cup {s.ref})
                  siblings == ObjectFields([s EXCEPT !.ref = ""], defs, seen \cup {s.ref})
              IN IF HasKeywords(s) \/ s.allOf # <<>> THEN MergeFields(base, siblings) ELSE base
    ELSE CASE Choice(s) -> Refused
           [] s.allOf # <<>> /\ s.type \in {"", "object"} ->
                FoldLeft(MergeFields, IF s.type = "object" \/ Structured(s) THEN OwnFields(s) ELSE Empty,
                         [i \in DOMAIN s.allOf |-> ObjectFields(s.allOf[i], defs, seen)])
           [] s.allOf = <<>> /\ (s.type = "object" \/ (s.type = "" /\ Structured(s))) -> OwnFields(s)
           [] OTHER -> Refused

\* schemaReadOnly
RECURSIVE ReadOnlyIn(_, _, _)
ReadOnlyIn(s, defs, seen) ==
    \/ s.readOnly
    \/ s.ref \in DOMAIN defs \ seen /\ ReadOnlyIn(defs[s.ref], defs, seen \cup {s.ref})
    \/ \E i \in DOMAIN s.allOf : ReadOnlyIn(s.allOf[i], defs, seen)

\* multipartUnwrap: a bare reference, or an allOf of one schema, is what it stands for.
RECURSIVE Unwrap(_, _, _)
Unwrap(s, defs, seen) ==
    IF HasKeywords(s) THEN s
    ELSE IF s.ref # "" /\ s.allOf = <<>>
         THEN IF s.ref \in DOMAIN defs \ seen THEN Unwrap(defs[s.ref], defs, seen \cup {s.ref}) ELSE s
         ELSE IF s.ref = "" /\ Len(s.allOf) = 1 THEN Unwrap(s.allOf[1], defs, seen) ELSE s

\* What a part without a schema of its own carries is a file.
FileSchema(s) ==
    \/ s.binary /\ s.type \in {"", "string"}
    \/ s.ref = "" /\ s.allOf = <<>> /\ ~HasKeywords(s)

Scalar == ("string" :> "string") @@ ("number" :> "string") @@ ("integer" :> "int64") @@ ("boolean" :> "bool")

ListOf == ("string" :> "[]string") @@ ("int64" :> "[]int64") @@ ("float64" :> "[]float64") @@ ("bool" :> "[]bool")

\* multipartArrayPart
ArrayPart(items) ==
    CASE items.type \in {"array", "object"} \/ (items.type = "" /\ (Structured(items) \/ Choice(items)
            \/ items.allOf # <<>>)) -> NoPart
      [] FileSchema(items) -> "[]string"
      [] items.type \in DOMAIN Scalar -> ListOf[Scalar[items.type]]
      [] OTHER -> NoPart

\* multipartPart: the type of the flag for a part, or NoPart.
PartOf(s, defs) ==
    CASE FileSchema(s) -> "string"
      [] ~FileSchema(s) /\ s.type \in DOMAIN Scalar -> Scalar[s.type]
      [] s.type = "object" \/ (s.type = "" /\ ~FileSchema(s) /\ Structured(s)) -> "string"
      [] s.type = "array" /\ s.items # <<>> -> ArrayPart(Unwrap(s.items[1], defs, {}))
      [] OTHER -> NoPart

-----------------------------------------------------------------------------
(* Schemas as the validation sees them *)

\* collectReadOnlyProperties
RECURSIVE ReadOnlyNames(_, _, _)
ReadOnlyNames(s, defs, seen) ==
    {n \in DOMAIN s.props : ReadOnlyIn(s.props[n], defs, {})}
    \cup (IF s.ref \in DOMAIN defs \ seen THEN ReadOnlyNames(defs[s.ref], defs, seen \cup {s.ref}) ELSE {})
    \cup UNION {ReadOnlyNames(s.allOf[i], defs, seen) : i \in DOMAIN s.allOf}

\* multipartRequiredNames over runtimeSchema: every name a schema, its references and its
\* allOf require, but for those that are read-only.
RECURSIVE RequiredIn(_, _, _)
RequiredIn(s, defs, seen) ==
    LET referred == IF s.ref \in DOMAIN defs \ seen
                    THEN RequiredIn(defs[s.ref], defs, seen \cup {s.ref}) ELSE {}
        own == s.required \cup UNION {RequiredIn(s.allOf[i], defs, seen) : i \in DOMAIN s.allOf}
    IN (referred \cup own) \ ReadOnlyNames(s, defs, {})

\* multipartObjectSchema over runtimeSchema, where keywords beside a reference are a
\* schema of their own, required included.
RECURSIVE ObjectIn(_, _, _)
ObjectIn(s, defs, seen) ==
    IF s.ref \in DOMAIN defs \ seen
    THEN /\ ObjectIn(defs[s.ref], defs, seen \cup {s.ref})
         /\ HasKeywords(s) \/ s.required # {} \/ s.allOf # <<>> => ObjectIn([s EXCEPT !.ref = ""], defs, seen)
    ELSE /\ ~Choice(s) /\ s.type \in {"", "object"}
         /\ IF s.allOf = <<>> THEN s.type = "object" \/ Structured(s)
            ELSE \A i \in DOMAIN s.allOf : ObjectIn(s.allOf[i], defs, seen)

\* A text or a number, which has the flag of the first of the two.
TextOrNumber(s) ==
    /\ s.type = "" /\ Len(s.anyOf) = 2 /\ ~s.oneOf /\ s.allOf = <<>>
    /\ <<s.anyOf[1].type, s.anyOf[2].type>> \in {<<"string", "integer">>, <<"integer", "string">>, <<"number", "string">>}

\* jsonBodyFlagGoType, of a schema without references: "nested" is left to --set,
\* "refused" has no flag at all.
RECURSIVE FlagTypeOf(_)
FlagTypeOf(s) ==
    LET items == FlagTypeOf(s.items[1])
    IN IF TextOrNumber(s) THEN FlagTypeOf(s.anyOf[1])
       ELSE IF Choice(s) \/ s.allOf # <<>> \/ s.map THEN "refused"
       ELSE CASE s.type = "object" \/ DOMAIN s.props # {} -> "nested"
              [] s.type = "number" -> "float64"
              [] s.type \in DOMAIN Scalar \ {"number"} -> Scalar[s.type]
              [] s.type = "array" /\ s.items # <<>> ->
                   IF items \in DOMAIN ListOf THEN ListOf[items] ELSE IF items = "nested" THEN items ELSE "refused"
              [] OTHER -> "refused"

-----------------------------------------------------------------------------
(* The constants of CommandFlags *)

FieldsOf(s, defs) == LET f == ObjectFields(s, defs, {}) IN [props |-> f.props, required |-> f.required]

IsReadOnly(s, defs) == ReadOnlyIn(s, defs, {})

PartTypeOf(s, defs) == PartOf(Unwrap(s, defs, {}), defs)

IsFile(s, defs) == FileSchema(Unwrap(s, defs, {}))

RequiredOf(s, defs) == RequiredIn(s, defs, {})

IsObject(s, defs) == ObjectIn(s, defs, {})
=============================================================================
