--------------------------- MODULE AcceptedCommands ---------------------------
(***************************************************************************)
(* The commands and flags of an application that codegen has accepted, in  *)
(* a run of CodegenRun (internal/codegen/app/app.go,                       *)
(* internal/lathecmd/generate.go).                                         *)
(***************************************************************************)
EXTENDS CommandPaths, CodegenRun

IsSequence(s) == s \in Seq(Range(s))

\* The shape of an operation of the specification; one more numeral than it has
\* parameters and parts is enough for their names.
OperationShaped(o, defs) ==
    /\ IsSequence(o.params) /\ \A i \in DOMAIN o.params : IsSequence(o.params[i].name)
    /\ o.body.media = "multipart" =>
         LET props == Fields(o.body.schema, defs).props
         IN IsFiniteSet(DOMAIN props) /\ \A n \in DOMAIN props : IsSequence(n)
    /\ Len(o.params) + Len(PartParams(o, defs)) < Len(Numerals)

ProjectShaped(p) ==
    /\ IsSequence(p.sources)
    /\ \A s \in DOMAIN p.sources : \A i \in DOMAIN p.sources[s].operations :
         OperationShaped(p.sources[s].operations[i], p.sources[s].defs)

ASSUME AcceptedAssumption ==
    \A p \in Projects : \A q \in {p} \cup Edits(p) : ProjectShaped(q) /\ Compiled(q) = GeneratedApp(q)

\* Of what codegen accepts, the generated CLI does not refuse the name of a module, group,
\* command, alias, shortcut or workflow when it starts (generate.go, paths.go, workflow.go
\* against build.go).  It may refuse flags before it comes to a name, and groups whose
\* names differ in case only are both mounted.
AcceptedMounts == pc = "modules" => Mount(project.workflows, built.modules) # "names"

\* What codegen does to the flags of a command - prefixes, numbers, dashes and aliases -
\* makes no two of them one: an overlay apart, parameters share a flag or an alias only if
\* the flags they have by their names are one, and neither is a cookie or a part of the
\* body (params.go:65-83, 373-414).  Names that differ can have one flag, as the variables
\* filter.name and filterName do, and codegen does not ask: that CLI does not start.
FlagsAddNoClash ==
    pc = "modules" =>
        \A s \in DOMAIN project.sources : \A i \in DOMAIN project.sources[s].operations :
            LET params == CommandParams(project.sources[s].operations[i], project.sources[s].defs)
                Names(p) == {p.flag} \cup p.aliases
            IN \A j, k \in DOMAIN params :
                 j # k /\ Names(params[j]) \cap Names(params[k]) # {} =>
                     /\ OwnFlag(params[j].in, params[j].name) = OwnFlag(params[k].in, params[k].name)
                     /\ params[j].in # "cookie" /\ ~params[j].part

\* In every command codegen accepts, each part of a multipart body that a request must
\* have, and that a client may write, has a flag, and a body that must be sent has a form
\* field (params.go, schema.go, app.go).
RequiredPartsSettable ==
    pc = "modules" =>
        \A m \in DOMAIN built.modules : \A i \in DOMAIN built.modules[m].specs :
            LET spec == built.modules[m].specs[i]
                defs == built.modules[m].defs
                needed == RequiredNames(spec.body.schema, defs) \cap Writable(Fields(spec.body.schema, defs), defs)
            IN spec.body.media = "multipart" =>
                 /\ \A n \in needed : \E k \in DOMAIN spec.params :
                        spec.params[k].part /\ spec.params[k].name = n
                 /\ spec.body.required => \E k \in DOMAIN spec.params : spec.params[k].in = "formData"
===============================================================================
