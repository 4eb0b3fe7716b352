----------------------------- MODULE FlagNames -----------------------------
(***************************************************************************)
(* The names of flags: what codegen calls the flags of a command's         *)
(* parameters and of the parts of its body (internal/codegen/normalize:    *)
(* params.go, names.go, normalize.go), and what the generated CLI asks of  *)
(* them (pkg/runtime/param_flags.go).                                      *)
(*                                                                         *)
(* A name, like a flag, is a sequence of words, each with what joins it to *)
(* the word before: "-", "_", ".", or "" where only its capital tells it   *)
(* apart.  A first word has "-".                                           *)
(***************************************************************************)
EXTENDS RequestParams, Functions

CONSTANT Numerals    \* "1", "2", ...: as many as names need

ASSUME NumeralsAssumption ==
    /\ Numerals \in Seq(Range(Numerals))
    /\ \A m, n \in DOMAIN Numerals : m # n => Numerals[m] # Numerals[n]

\* What stands for one of these before a word becomes a dash.
WithDashesFor(marks, name) ==
    [i \in DOMAIN name |-> [word |-> name[i].word, by |-> IF name[i].by \in marks THEN "-" ELSE name[i].by]]

\* camelToKebab: underscores and dots stay.
Kebab(name) == WithDashesFor({""}, name)

\* variableFlagName: the dots of a field of a GraphQL argument do not.
VariableFlagName(name) == WithDashesFor({"."}, Kebab(name))

\* parameter: the flag a parameter has by its name.
OwnFlag(in, name) == IF in = "variable" THEN VariableFlagName(name) ELSE Kebab(name)

Word(w) == <<[word |-> w, by |-> "-"]>>

\* Underscores become dashes.
Dashed(flag) == WithDashesFor({"_"}, flag)

FlagParam(raw) ==
    LET p == Parameter(raw)
    IN [name |-> p.name, in |-> p.in, goType |-> p.goType, required |-> p.required, default |-> p.default,
        file |-> p.file, flag |-> OwnFlag(raw.in, raw.name), aliases |-> {}, part |-> FALSE]

-----------------------------------------------------------------------------
(* Flags of two places that share a name *)

Numbered(prefix, flag, n) == Word(prefix) \o flag \o (IF n = 1 THEN <<>> ELSE Word(Numerals[n]))

\* flag, with a prefix where it is taken, and with a number where that is taken too.
FreeFlag(prefix, flag, taken) ==
    LET free == {n \in DOMAIN Numerals : Numbered(prefix, flag, n) \notin taken}
    IN IF flag \notin taken THEN flag ELSE Numbered(prefix, flag, CHOOSE n \in free : \A m \in free : n <= m)

\* The flags of parameters of which some give way to the others, and to each other in
\* their order.
GivenFlags(prefix, params, giving) ==
    LET kept == {params[i].flag : i \in DOMAIN params \ giving}
        flag[i \in DOMAIN params] ==
            IF i \notin giving THEN params[i].flag
            ELSE FreeFlag(prefix, params[i].flag, kept \cup {flag[j] : j \in {k \in giving : k < i}})
    IN flag

\* disambiguateCookieParamFlags, disambiguateMultipartParamFlags
Disambiguate(prefix, params, giving) ==
    [i \in DOMAIN params |-> [params[i] EXCEPT !.flag = GivenFlags(prefix, params, giving)[i]]]

\* Every flag is dashed.
DashAll(params) ==
    [i \in DOMAIN params |->
        [params[i] EXCEPT !.aliases = @ \cup ({params[i].flag} \ {Dashed(params[i].flag)}),
                          !.flag = Dashed(@)]]

\* normalizeParamFlags: unless two flags would become one; the old flag is an alias.
NormalizeParamFlags(params) ==
    [i \in DOMAIN params |->
        LET wish == Dashed(params[i].flag)
        IN IF wish = params[i].flag \/ \E j \in DOMAIN params \ {i} : Dashed(params[j].flag) = wish
           THEN params[i]
           ELSE [params[i] EXCEPT !.aliases = {params[i].flag}, !.flag = wish]]

-----------------------------------------------------------------------------
(* What the generated command makes of its flags *)

\* The marks of one word.
Markers == {"password", "secret", "credential"}

\* isSensitiveStringParam
Sensitive(p) ==
    /\ p.goType = "string"
    /\ \/ {p.name[i].word : i \in DOMAIN p.name} \cap Markers # {}
       \/ {p.flag[i].word : i \in DOMAIN p.flag} \cap Markers # {}
       \/ Word("token") \in {p.name, p.flag}

\* paramFlagBindings: the names a parameter answers to.
Bindings(p) ==
    LET names == {p.flag} \cup p.aliases
    IN names \cup IF Sensitive(p) THEN {n \o Word(s) : n \in names, s \in {"env", "file", "stdin"}} ELSE {}

\* ValidateParamFlags, for every start of the generated CLI.
ValidateParamFlags(params) ==
    \A i, j \in DOMAIN params : i # j => Bindings(params[i]) \cap Bindings(params[j]) = {}
=============================================================================
