---------------------------- MODULE CommandPaths ----------------------------
(***************************************************************************)
(* Where commands stand: what codegen makes of the commands of the         *)
(* sources and what it refuses (internal/codegen/render/paths.go,          *)
(* internal/lathecmd: generate.go, workflow.go,                            *)
(* internal/codegen/app/app.go), and how the generated CLI mounts them     *)
(* when it starts (pkg/runtime: build.go, workflow.go).                    *)
(***************************************************************************)
EXTENDS CommandTree

Root(w) == <<Lower(w)>>

\* workflowLookupKey, and rootCommandName of a name.
Folded(name) == [i \in DOMAIN name |-> Lower(name[i])]

\* reservedRootCommands
ReservedWords == {"__lathe", "auth", "commands", "completion", "help", "login", "search", "skill", "update"}

ASSUME LowerCaseAssumption == ReservedWords \cap DOMAIN LowerCase = {}

Reserved == {<<w>> : w \in ReservedWords}

NamesOf(spec) == {spec.use} \cup spec.aliases

PathsOf(spec) == {Root(spec.group) \o <<"/">> \o n : n \in NamesOf(spec)}

\* Names are looked at, and not aliases.
UsesDiffer(specs) ==
    \A i, j \in DOMAIN specs : i # j => <<Root(specs[i].group), specs[i].use>> # <<Root(specs[j].group), specs[j].use>>

\* validateCommandPaths
ValidateCommandPaths(specs) ==
    \A i, j \in DOMAIN specs : i # j => PathsOf(specs[i]) \cap PathsOf(specs[j]) = {}

GroupRoots(specs) == {Root(specs[i].group) : i \in DOMAIN specs}

TwoGroupsOfAName(specs) ==
    \E i, j \in DOMAIN specs : Root(specs[j].group) = Root(specs[i].group) /\ specs[j].group # specs[i].group

\* flatPathConflict
FlatPathConflict(specs) == GroupRoots(specs) \cap Reserved # {} \/ TwoGroupsOfAName(specs)

\* ResolveFlatCommandPath: whether the commands stand at the root, or that this fails.
ResolveFlat(policy, count, specs) ==
    LET wanted == policy # "namespaced" /\ count = 1 /\ ~FlatPathConflict(specs)
    IN [ok |-> ValidateCommandPaths(specs) /\ (policy = "flat" => wanted), flat |-> wanted]

\* The parameter a shortcut's key stands for.
KeyParams(spec, key) == {i \in DOMAIN spec.params : key \in {spec.params[i].name, spec.params[i].flag}}

\* validateShortcutParamValue; values have the form of their type.
ShortcutTypeFits(param) ==
    /\ param.goType \notin Lists
    /\ param.in \in {"path", "header"} => param.goType = "string"
    /\ param.goType = "float64" => param.in \in {"variable", "body"}

\* shortcutSpec
ShortcutHolds(spec, shortcut) ==
    LET At(key) == CHOOSE i \in KeyParams(spec, key) : \A j \in KeyParams(spec, key) : i <= j
    IN \A key \in shortcut.keys :
         /\ KeyParams(spec, key) # {} /\ ShortcutTypeFits(spec.params[At(key)])
         /\ \A other \in shortcut.keys \ {key} : KeyParams(spec, other) # {} => At(other) # At(key)

Shortcuts(specs) == UNION {{[use |-> s.use, keys |-> s.keys, at |-> i] : s \in specs[i].shortcuts} : i \in DOMAIN specs}

ShortcutNames(specs) == {s.use : s \in Shortcuts(specs)}

\* ValidateShortcuts of pkg/runtime
ValidateShortcuts(specs, roots) ==
    /\ ShortcutNames(specs) \cap roots = {}
    /\ \A s, t \in Shortcuts(specs) : s.use = t.use => s = t
    /\ \A i \in DOMAIN specs : \A s \in specs[i].shortcuts : ShortcutHolds(specs[i], s)

\* validateCommandContexts
ValidateContexts(spec, contexts) ==
    LET Source(set) == {i \in DOMAIN spec.params :
                            set.param \in {spec.params[i].name, spec.params[i].flag}}
    IN /\ \A i \in DOMAIN spec.params : spec.params[i].name \in DOMAIN spec.contexts =>
             spec.contexts[spec.params[i].name] \in contexts /\ spec.params[i].goType = "string"
       /\ \A k \in DOMAIN spec.sets :
             /\ spec.sets[k].name \in contexts /\ Cardinality(Source(spec.sets[k])) = 1
             /\ \A i \in Source(spec.sets[k]) : spec.params[i].goType = "string"

-----------------------------------------------------------------------------
(* buildGeneratedApp.  A project has sources, workflows with their root      *)
(* names, contexts and a policy for command paths.                           *)

ModuleNames(project) == {<<project.sources[i].display>> : i \in DOMAIN project.sources}

Resolved(project, i) == ResolveFlat(project.policy, Len(project.sources), Merged(project.sources[i]))

\* The shortcuts of the sources before the i-th.
EarlierShortcuts(project, i) ==
    UNION {ShortcutNames(Merged(project.sources[j])) : j \in {k \in DOMAIN project.sources : k < i}}

\* What a source must be: synced, with an overlay that fits and commands that can be
\* written, called and reached.
SourceHolds(project, i) ==
    LET source == project.sources[i]
        specs == Merged(source)
        roots == IF Resolved(project, i).flat THEN GroupRoots(specs)
                 ELSE ModuleNames(project) \cup EarlierShortcuts(project, i)
    IN /\ source.synced /\ OverlayHolds(source)
       /\ specs # <<>> /\ \A k \in DOMAIN specs : ~specs[k].broken
       /\ Resolved(project, i).ok
       /\ ValidateShortcuts(specs, Reserved \cup roots)

Module(project, i) ==
    LET source == project.sources[i]
    IN [source |-> source.name, cli |-> source.display, specs |-> Merged(source),
        flat |-> Resolved(project, i).flat, defs |-> source.defs]

\* The names a module itself has at the root.
Planned(module) == IF module.flat THEN GroupRoots(module.specs) ELSE {<<module.cli>>}

ModuleRoots(module) == Planned(module) \cup ShortcutNames(module.specs)

\* workflowRootNames
RootsOfModules(modules) == {Folded(n) : n \in UNION {ModuleRoots(modules[i]) : i \in DOMAIN modules}}

\* buildWorkflowSpecs: the names of a workflow are new to the root.
WorkflowRoots(workflows, modules) ==
    \A i \in DOMAIN workflows : \A n \in workflows[i] :
        /\ Folded(n) \notin RootsOfModules(modules)
        /\ \A j \in DOMAIN workflows : j < i => \A o \in workflows[j] : Folded(o) # Folded(n)

\* ValidateModuleNames, for modules that are not flat and for workflows.
ValidateModuleNames(workflows, modules) ==
    LET mounted == {i \in DOMAIN modules : ~modules[i].flat}
    IN /\ \A i, j \in mounted : i # j => Root(modules[i].cli) # Root(modules[j].cli)
       /\ \A i \in mounted : Root(modules[i].cli) \notin Reserved
       /\ \A i \in DOMAIN workflows : \A n, o \in workflows[i] :
            Folded(n) \notin Reserved /\ (Folded(n) = Folded(o) => n = o)

\* App.Validate
ValidateApp(project, modules) ==
    /\ ValidateModuleNames(project.workflows, modules)
    /\ \A m \in DOMAIN modules : \A i \in DOMAIN modules[m].specs :
         LET spec == modules[m].specs[i]
         IN /\ ValidateContexts(spec, project.contexts)
            /\ spec.body.media = "multipart" => ValidateMultipartBody(spec.body, spec.params, modules[m].defs)

\* The application codegen is about to write, or why it is refused.
GeneratedApp(project) ==
    LET modules == [i \in DOMAIN project.sources |-> Module(project, i)]
        refused == IF ~\A i \in DOMAIN project.sources : SourceHolds(project, i) THEN "source"
                   ELSE IF ~WorkflowRoots(project.workflows, modules) THEN "workflows"
                   ELSE IF ~ValidateApp(project, modules) THEN "app" ELSE ""
    IN [refused |-> refused, modules |-> IF refused = "" THEN modules ELSE <<>>]

-----------------------------------------------------------------------------
(* Mount: what the generated CLI does with it when it starts. *)

\* NewApp, of a CLI that has updates.
OwnWords == {"auth", "login", "commands", "search", "update", "__lathe"}

Completion == <<"completion">>

\* What stands at the root once these modules are mounted; no command may be "completion".
RootsWith(modules, mounted) ==
    {Completion} \cup {<<w>> : w \in OwnWords} \cup UNION {ModuleRoots(modules[j]) : j \in mounted}

\* buildGroups: two commands of a group answer to one name.
PathTwice(specs) ==
    \E i, j \in DOMAIN specs : i # j /\ PathsOf(specs[i]) \cap PathsOf(specs[j]) # {}

\* Build, BuildFlat: why a module cannot be mounted, if it cannot.
Build(module, roots) ==
    LET specs == module.specs
        flags == \E i \in DOMAIN specs : ~ValidateParamFlags(specs[i].params)
        names == \/ PathTwice(specs)
                 \/ module.flat /\ (TwoGroupsOfAName(specs) \/ GroupRoots(specs) \cap roots # {})
                 \/ ~ValidateShortcuts(specs, roots \cup Planned(module))
    IN IF ~module.flat /\ <<module.cli>> \in roots THEN "names"
       ELSE IF flags THEN "flags" ELSE IF names THEN "names" ELSE ""

\* BuildWorkflows
BuildWorkflows(workflows, roots) == IF (UNION Range(workflows)) \cap roots # {} THEN "names" ELSE ""

\* MountModules, which ends at the first failure: why the CLI cannot start, if it cannot.
Mount(workflows, modules) ==
    LET Failure(k) == Build(modules[k], RootsWith(modules, {j \in DOMAIN modules : j < k}))
        failing == {k \in DOMAIN modules : Failure(k) # ""}
    IN IF failing # {} THEN Failure(CHOOSE k \in failing : \A l \in failing : k <= l)
       ELSE BuildWorkflows(workflows, RootsWith(modules, DOMAIN modules))
=============================================================================
