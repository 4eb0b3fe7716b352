----------------------------- MODULE SkillFiles -----------------------------
(***************************************************************************)
(* The files of a generated Skill: what codegen renders and what the       *)
(* user's include directory and its policy make of it                      *)
(* (internal/codegen/render: skill.go, skill_include.go;                   *)
(* internal/lathecmd/skill_output.go).                                     *)
(*                                                                         *)
(* A file is named by its directory and its name, and is a set of the      *)
(* places its text comes from.                                             *)
(***************************************************************************)
EXTENDS FiniteSets, Functions

Rel(dir, file) == [dir |-> dir, file |-> file]

SkillMD == Rel("", "SKILL.md")
Owner == Rel("", ".lathe-skill")
Agents == Rel("agents", "openai.yaml")
Catalog == Rel("references", "catalog.md")
ModuleRef(name) == Rel("references/modules", name)

\* renderSkillFiles, for the references of some modules.
Rendered(modules) == {SkillMD, Owner, Agents, Catalog} \cup {ModuleRef(m) : m \in modules}

\* defaultSkillFileAction, "" where a file has no place; files of references are markdown.
DefaultAction(rel) ==
    CASE rel = SkillMD \/ rel.dir \in {"references", "references/modules"} -> "append"
      [] rel.dir \in {"agents", "assets", "scripts"} -> "create"
      [] OTHER -> ""

\* normalizeSkillRel: the owner file and other dotfiles are reserved.
Includable(rel) == rel # Owner /\ DefaultAction(rel) # ""

CanReplace(rel) == rel \in {SkillMD, Agents, Catalog} \/ rel.dir = "references/modules"

CanOmit(rel) == rel = Agents \/ rel.dir = "references/modules"

-----------------------------------------------------------------------------
(* skill.include: a directory, the files in it, and what to do with some files. *)

NoInclude == [path |-> FALSE, apart |-> TRUE, present |-> {}, actions |-> <<>>]

Configured(include) == include.path \/ DOMAIN include.actions # {}

\* normalizeSkillInclude, validateSkillIncludePolicy
PolicyHolds(include, generated) ==
    \A rel \in DOMAIN include.actions :
        /\ Includable(rel)
        /\ CASE include.actions[rel] = "replace" -> CanReplace(rel) /\ rel \in generated
             [] include.actions[rel] = "omit" -> CanOmit(rel) /\ rel \in generated
             [] include.actions[rel] = "append" -> DefaultAction(rel) = "append"
             [] OTHER -> rel \notin generated

ActionOf(include, rel) ==
    IF rel \in DOMAIN include.actions THEN include.actions[rel] ELSE DefaultAction(rel)

\* mergeSkillIncludes, applySkillIncludeAction: what is to be added is there, and what
\* is omitted is not.
MergeHolds(include, generated) ==
    /\ \A rel \in include.present : Includable(rel)
    /\ \A rel \in include.present \cup DOMAIN include.actions :
         CASE ActionOf(include, rel) = "omit" -> rel \notin include.present
           [] ActionOf(include, rel) = "create" -> rel \in include.present /\ rel \notin generated
           [] OTHER -> rel \in include.present

Omitted(include) == {rel \in DOMAIN include.actions : include.actions[rel] = "omit"}

\* Whatever the include directory has takes the place of what was rendered.
IncludeOver(include, generated) ==
    [rel \in (generated \ Omitted(include)) \cup include.present |->
        IF rel \in include.present THEN {"include"} ELSE {"codegen"}]

\* The files of the Skill.
SkillOf(include, generated) ==
    [rel \in (generated \ Omitted(include)) \cup include.present |->
        (IF rel \in generated /\ ~(rel \in include.present /\ ActionOf(include, rel) = "replace")
         THEN {"codegen"} ELSE {})
        \cup (IF rel \in include.present THEN {"include"} ELSE {})]

\* copySkillBundleFiles leaves dotfiles out.
Visible(files) == Restrict(files, DOMAIN files \ {Owner})
=============================================================================
