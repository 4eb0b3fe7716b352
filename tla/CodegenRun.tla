----------------------------- MODULE CodegenRun -----------------------------
(***************************************************************************)
(* lathe codegen, run after run on one working tree: what it refuses, what *)
(* it writes and in which order, and what a failing write or a crash       *)
(* leaves (internal/lathecmd/generate.go, internal/codegen/app/app.go,     *)
(* internal/codegen/render: render.go, skill.go).                          *)
(*                                                                         *)
(* A generated file is known by the run that wrote it.                     *)
(***************************************************************************)
EXTENDS Integers, Sequences, SkillFiles

CONSTANTS
    Projects,   \* projects the first run may find: sources, workflows, Skill configuration
    Edits(_),   \* what a project may have become before the next run
    Compiled(_),  \* the application compiled from a project: GeneratedApp of CommandPaths
    Trees,      \* Skill directories before the first run
    Sources,    \* names of sources
    MaxRuns,    \* runs, at most
    MaxFaults   \* failing writes and crashes, at most

\* App.Validate and the checks before it.
Accepted(app) == app.refused = ""

SourcesOf(p) == {p.sources[i].name : i \in DOMAIN p.sources}

ModulesOf(app) == {app.modules[i].source : i \in DOMAIN app.modules}

\* An accepted application has a list of modules, one for each source.
ModulePerSource(p) ==
    /\ SourcesOf(p) \subseteq Sources
    /\ \A app \in {Compiled(p)} : Accepted(app) =>
         /\ Len(app.modules) \in Nat /\ DOMAIN app.modules = 1 .. Len(app.modules)
         /\ ModulesOf(app) = SourcesOf(p)

ASSUME CodegenAssumption ==
    \A p \in Projects :
        /\ ModulePerSource(p)
        /\ \A q \in Edits(p) : ModulePerSource(q) /\ Edits(q) \subseteq Edits(p)

VARIABLES
    runs,       \* runs so far
    project,    \* what this run has read
    built,      \* the application it has compiled
    pc,         \* where it is
    written,    \* modules it has written
    disk,       \* generated files and the Skill directory
    temp,       \* the Skill directory it is writing, beside the old one
    faults      \* failing writes and crashes so far

codegenVars == <<runs, project, built, pc, written, disk, temp, faults>>

Gone == 0

Torn == -1

NoFiles == [run |-> Gone, files |-> <<>>]

NoMain == [run |-> Gone, modules |-> {}, workflows |-> FALSE, bundle |-> FALSE]

Nothing == [refused |-> "", modules |-> <<>>]

NoProject == [sources |-> <<>>]

Ended == {"done", "refused", "failed", "crashed"}

CodegenInit ==
    /\ runs = 0 /\ faults = 0 /\ written = 0
    /\ project = NoProject /\ built = Nothing /\ pc = "idle" /\ temp = NoFiles
    /\ \E skill \in Trees :
         disk = [modules |-> [s \in Sources |-> Gone], workflows |-> Gone, main |-> NoMain,
                 skill |-> skill, bundle |-> NoFiles]

-----------------------------------------------------------------------------
(* resolveSkillOutput: a bundle and an include need a Skill. *)

SkillOutput(p) ==
    IF p.skill THEN p.include.path => p.include.apart
    ELSE ~p.bundle /\ ~Configured(p.include)

\* runCodegen up to App.Validate, which writes nothing.
Compile ==
    /\ pc \in {"idle"} \cup Ended /\ runs < MaxRuns
    /\ \E p \in IF runs = 0 THEN Projects ELSE Edits(project) :
         /\ runs' = runs + 1 /\ project' = p /\ built' = Compiled(p) /\ written' = 0
         /\ pc' = IF SkillOutput(p) /\ Accepted(built') THEN "modules" ELSE "refused"
    /\ temp' = NoFiles
    /\ UNCHANGED <<disk, faults>>

Step(here, next, tree) ==
    /\ pc = here /\ pc' = next /\ disk' = tree
    /\ UNCHANGED <<runs, project, built, faults>>

\* RenderModule, one module after the other.
WriteModule ==
    /\ written < Len(built.modules)
    /\ Step("modules", "modules", [disk EXCEPT !.modules[built.modules[written + 1].source] = runs])
    /\ written' = written + 1
    /\ UNCHANGED temp

\* RenderWorkflows, RemoveWorkflowsPackage
WriteWorkflows ==
    /\ written = Len(built.modules)
    /\ Step("modules", "main", [disk EXCEPT !.workflows = IF project.workflows # <<>> THEN runs ELSE Gone])
    /\ UNCHANGED <<written, temp>>

MainFile ==
    [run |-> runs, modules |-> ModulesOf(built), workflows |-> project.workflows # <<>>,
     bundle |-> project.skill /\ project.bundle]

\* RenderModulesGenWithOptions: the file that mounts the modules.
WriteMain ==
    /\ Step("main", IF project.skill THEN "skill" ELSE "bundle", [disk EXCEPT !.main = MainFile])
    /\ UNCHANGED <<written, temp>>

Generated == Rendered({project.sources[i].display : i \in DOMAIN project.sources})

\* Whatever is there is overwritten.
OwnedOrAny(skill) == TRUE

\* verifySkillDirectoryOwned: a directory that is there has the owner file.
Owned(skill) == skill.run # Gone => Owner \in DOMAIN skill.files

\* renderSkillDirectory, which refuses a foreign directory and an include that does not
\* fit the files, and writeSkillDirectory up to the files in the temporary directory.
StageSkill ==
    /\ pc = "skill"
    /\ IF Owned(disk.skill) /\ PolicyHolds(project.include, Generated) /\ MergeHolds(project.include, Generated)
       THEN pc' = "clear" /\ temp' = [run |-> runs, files |-> SkillOf(project.include, Generated)]
       ELSE pc' = "refused" /\ UNCHANGED temp
    /\ UNCHANGED <<runs, project, built, written, disk, faults>>

\* writeSkillDirectory: os.RemoveAll of the old directory.
ClearSkill ==
    /\ Step("clear", "place", [disk EXCEPT !.skill = NoFiles])
    /\ UNCHANGED <<written, temp>>

\* writeSkillDirectory: os.Rename of the new one.
PlaceSkill ==
    /\ Step("place", "bundle", [disk EXCEPT !.skill = temp])
    /\ temp' = NoFiles
    /\ UNCHANGED written

\* RenderSkillBundlePackage, RemoveSkillBundlePackage
WriteBundle ==
    /\ Step("bundle", IF project.bundle THEN "tidy" ELSE "done",
            [disk EXCEPT !.bundle = IF project.bundle THEN [run |-> runs, files |-> Visible(disk.skill.files)]
                                    ELSE NoFiles])
    /\ UNCHANGED <<written, temp>>

\* tidySkillBundleDependencies
Tidy == Step("tidy", "done", disk) /\ UNCHANGED <<written, temp>>

-----------------------------------------------------------------------------
(* Failures *)

\* What is on the disk when the operation at hand ends half-way: a file that is not
\* whole, a directory that is not all removed, of which the owner file is the first or
\* the last to go.
HalfWay ==
    CASE pc = "modules" /\ written < Len(built.modules) ->
           {[disk EXCEPT !.modules[built.modules[written + 1].source] = Torn]}
      [] pc = "modules" /\ written = Len(built.modules) -> {[disk EXCEPT !.workflows = Torn]}
      [] pc = "main" -> {[disk EXCEPT !.main = [@ EXCEPT !.run = Torn]]}
      [] pc = "clear" -> {[disk EXCEPT !.skill.files = Restrict(@, rest)] :
                            rest \in {DOMAIN disk.skill.files \ {Owner}, DOMAIN disk.skill.files \cap {Owner}}}
      [] pc = "bundle" -> {[disk EXCEPT !.bundle = [run |-> Torn, files |-> <<>>]]}
      [] OTHER -> {}

\* An operation returns an error: the temporary directory is removed on the way out.
WriteFails ==
    /\ pc \notin {"idle"} \cup Ended /\ faults < MaxFaults
    /\ disk' \in {disk} \cup HalfWay
    /\ pc' = "failed" /\ faults' = faults + 1 /\ temp' = NoFiles
    /\ UNCHANGED <<runs, project, built, written>>

\* The process dies.  What it leaves in the temporary directory nobody reads.
Crash ==
    /\ pc \notin {"idle"} \cup Ended /\ faults < MaxFaults
    /\ disk' \in {disk} \cup HalfWay
    /\ pc' = "crashed" /\ faults' = faults + 1
    /\ UNCHANGED <<runs, project, built, written, temp>>

CodegenNext ==
    \/ Compile \/ WriteModule \/ WriteWorkflows \/ WriteMain
    \/ StageSkill \/ ClearSkill \/ PlaceSkill \/ WriteBundle \/ Tidy
    \/ WriteFails \/ Crash

CodegenSpec == CodegenInit /\ [][CodegenNext]_codegenVars

-----------------------------------------------------------------------------
\* Whatever earlier runs have left, a run that succeeds leaves what it was to generate:
\* all that modules_gen.go mounts is of this run, the Skill has every file of the
\* include directory and every file of codegen that is not omitted or replaced, and the
\* bundle is the Skill's (app.go:Write, skill.go, render.go).
SuccessIsWhole ==
    pc = "done" =>
        /\ disk.main.run = runs /\ disk.main.modules = SourcesOf(project)
        /\ \A s \in disk.main.modules : disk.modules[s] = runs
        /\ disk.workflows = IF disk.main.workflows THEN runs ELSE Gone
        /\ project.skill =>
             /\ disk.skill.run = runs /\ Owner \in DOMAIN disk.skill.files
             /\ \A rel \in project.include.present : "include" \in disk.skill.files[rel]
             /\ \A rel \in Generated :
                  rel \notin DOMAIN project.include.actions => "codegen" \in disk.skill.files[rel]
        /\ disk.bundle = IF disk.main.bundle THEN [run |-> runs, files |-> Visible(disk.skill.files)] ELSE NoFiles

\* A directory where the Skill is to be that codegen did not make, or of which it can no
\* longer tell, is left as it is (skill.go:verifySkillDirectoryOwned).
ForeignKept ==
    [][disk.skill.run # Gone /\ Owner \notin DOMAIN disk.skill.files => disk'.skill = disk.skill]_codegenVars

\* app.go:2-3: "Outputs are collected into an App first and written together, so a failing
\* input never leaves partially generated output behind."
RefusalWritesNothing ==
    pc = "refused" => disk.main.run # runs /\ \A s \in Sources : disk.modules[s] # runs
=============================================================================
