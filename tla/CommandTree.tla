---------------------------- MODULE CommandTree ----------------------------
(***************************************************************************)
(* From the operations of a source to its commands: their names            *)
(* (internal/codegen/normalize/names.go) and the overlays                  *)
(* (internal/codegen/render: overlay.go, overlay_validation.go).           *)
(*                                                                         *)
(* Names of commands are sequences of words joined by dashes; groups and   *)
(* modules have names of one word.                                         *)
(***************************************************************************)
EXTENDS CommandFlags, TLC

CONSTANTS
    LowerCase,   \* words with capitals, each with its lower-case form
    Singular     \* plurals, each without its final s

Lower(w) == IF w \in DOMAIN LowerCase THEN LowerCase[w] ELSE w

Stem(w) == IF Lower(w) \in DOMAIN Singular THEN Singular[Lower(w)] ELSE Lower(w)

-----------------------------------------------------------------------------
(* Names of operations.  An id is a sequence of tokens joined by underscores, *)
(* a token a sequence of words; a path is a sequence of segments.             *)

\* noiseSegment, of the segments here.
Noise == {"api", "v1"}

\* commonNoisePrefix: segments that all paths without an id begin with; the last
\* segment of a path always stays.
CommonNoisePrefix(operations) ==
    LET paths == {operations[i].path : i \in {j \in DOMAIN operations : operations[j].id = <<>>}}
        Common(n) == \A p \in paths : /\ Len(p) > n
                                      /\ \A k \in 1 .. n : p[k].word \in Noise /\ \A q \in paths : q[k] = p[k]
        lengths == {0} \cup UNION {{n \in DOMAIN p : Common(n)} : p \in paths}
    IN CHOOSE n \in lengths : \A m \in lengths : m <= n

\* synthUseName: the braces of a parameter are lost.
SynthUse(operation, trim) ==
    <<operation.method>> \o [k \in 1 .. Len(operation.path) - trim |-> operation.path[k + trim].word]

\* opNameFromID: a first token that repeats, or is the group's or the module's, is left out.
OpName(id, group, module) ==
    IF Len(id) > 1 /\ (IsPrefix(id[1], id[2])
                       \/ (Len(id[1]) = 1 /\ Stem(id[1][1]) \in {Stem(group), Stem(module)}))
    THEN Tail(id) ELSE id

\* Normalize: one command for each operation.  Operations come in the order of the
\* commands, which Normalize sorts by group, name, id, path and method.
Normalize(source) ==
    LET trim == CommonNoisePrefix(source.operations)
        Command(o) ==
            [op |-> [method |-> o.method, path |-> o.path], group |-> o.group,
             use |-> IF o.id = <<>> THEN SynthUse(o, trim) ELSE FlattenSeq(OpName(o.id, o.group, source.name)),
             aliases |-> {}, shortcuts |-> {}, arguments |-> <<>>, contexts |-> <<>>, sets |-> <<>>,
             params |-> CommandParams(o, source.defs), body |-> o.body,
             broken |-> \E i \in DOMAIN o.params : Unserializable(o.params[i])]
    IN [i \in DOMAIN source.operations |-> Command(source.operations[i])]

-----------------------------------------------------------------------------
(* Overlays: for the names of commands, what is changed of them. *)

NoMatch == [method |-> "", path |-> <<>>]

NoOverride == [match |-> NoMatch, ignore |-> FALSE, use |-> <<>>, group |-> "", aliases |-> {},
               shortcuts |-> {}, flags |-> <<>>, arguments |-> <<>>, contexts |-> <<>>, sets |-> <<>>,
               bodyFlags |-> FALSE]

NoOverlay == [commands |-> <<>>, groups |-> {}]

\* disambiguateUse: within a group the second command of a name is numbered.
DisambiguateUse(specs) ==
    LET WithNumber(i, n) == IF n = 1 THEN specs[i].use ELSE Append(specs[i].use, ToString(n))
        use[i \in DOMAIN specs] ==
            LET taken == {use[k] : k \in {j \in DOMAIN specs : j < i /\ specs[j].group = specs[i].group}}
                free == {n \in 1 .. Cardinality(taken) + 1 : WithNumber(i, n) \notin taken}
            IN WithNumber(i, CHOOSE n \in free : \A m \in free : n <= m)
    IN [i \in DOMAIN specs |-> [specs[i] EXCEPT !.use = use[i]]]

\* overrideMatches
Matches(spec, override) ==
    /\ override.match.method \in {"", spec.op.method}
    /\ override.match.path \in {<<>>, spec.op.path}

\* The override under a name, if it is the command's: a set of one or none.
Under(overlay, name, spec) ==
    IF name \in DOMAIN overlay.commands /\ Matches(spec, overlay.commands[name])
    THEN {overlay.commands[name]} ELSE {}

\* commandOverride: a numbered command's is the one under its number, or the one under
\* the name without it that says which operation it means.
CommandOverride(overlay, spec, numbered) ==
    IF Under(overlay, numbered, spec) # {} THEN Under(overlay, numbered, spec)
    ELSE {o \in Under(overlay, spec.use, spec) : o.match # NoMatch}

\* The overrides of all commands, by the numbers they have before any is ignored.
Overrides(specs, overlay) ==
    [i \in DOMAIN specs |-> CommandOverride(overlay, specs[i], DisambiguateUse(specs)[i].use)]

\* applyBodyFlags, then applyCommandOverride.
Apply(spec, o) ==
    LET params == IF o.bodyFlags THEN spec.params \o ExpandJSONBodyFlags(spec.params, spec.body).params
                  ELSE spec.params
    IN [spec EXCEPT
           !.use = IF o.use = <<>> THEN @ ELSE o.use,
           !.group = IF o.group = "" THEN @ ELSE o.group,
           !.aliases = @ \cup o.aliases, !.shortcuts = @ \cup o.shortcuts,
           !.arguments = o.arguments, !.contexts = o.contexts, !.sets = o.sets,
           !.params = [i \in DOMAIN params |->
                IF params[i].name \in DOMAIN o.flags THEN [params[i] EXCEPT !.flag = o.flags[params[i].name]]
                ELSE params[i]]]

\* mergeOverlaySpecs: numbers are given again once the ignored commands are gone; those
\* that stay keep the positions of their operations.
MergeOverlay(specs, overlay) ==
    LET found == Overrides(specs, overlay)
        kept == {i \in DOMAIN specs : \A o \in found[i] : ~o.ignore}
        named == DisambiguateUse([i \in kept |-> specs[i]])
    IN [i \in kept |-> IF found[i] = {} THEN named[i] ELSE Apply(named[i], CHOOSE o \in found[i] : TRUE)]

\* validateArguments
ArgumentsExist(spec, arguments) ==
    /\ \A n \in DOMAIN arguments : Cardinality({i \in DOMAIN spec.params : spec.params[i].name = n}) = 1
    /\ IsInjective(arguments)

\* ValidateOverlayModule
ValidateOverlay(specs, overlay) ==
    LET merged == MergeOverlay(specs, overlay)
    IN /\ \A i \in DOMAIN specs : \A o \in Overrides(specs, overlay)[i] :
             /\ ArgumentsExist(specs[i], o.arguments)
             /\ o.bodyFlags => ExpandJSONBodyFlags(specs[i].params, specs[i].body).ok
       /\ \A k \in DOMAIN merged : ValidateJSONBodyFlagParams(merged[k].params)
       /\ overlay.groups \subseteq {merged[k].group : k \in DOMAIN merged}

\* The commands of a source, and whether its overlay fits them.
Merged(source) == MergeOverlay(Normalize(source), source.overlay)

OverlayHolds(source) == ValidateOverlay(Normalize(source), source.overlay)
=============================================================================
