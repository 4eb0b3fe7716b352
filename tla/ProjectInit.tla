---------------------------- MODULE ProjectInit ----------------------------
(***************************************************************************)
(* lathe init: a starter is cloned into a temporary directory beside the   *)
(* target, made into the user's project there, and renamed into place      *)
(* (internal/projectinit: init.go, template.go; internal/lathecmd/init.go).*)
(*                                                                         *)
(* A file is known by what it was in the starter, or by who wrote it, and  *)
(* by the starter's words that are still in it.  Git, `lathe bootstrap`    *)
(* and `go mod tidy` are other programs.                                   *)
(***************************************************************************)
EXTENDS Integers, Sequences, Functions

CONSTANTS
    Requested,  \* what the user asks for: language, license, version, template
    Starters    \* starters that may be cloned

IsList(s) == s \in Seq(Range(s))

\* The manifest has lists, and a file of a starter is itself or a symbolic link.
ASSUME ProjectInitAssumption ==
    \A s \in Starters :
        /\ IsList(s.manifest.replacements) /\ IsList(s.manifest.renames)
        /\ IsList(s.manifest.generated) /\ IsList(s.manifest.cleanup)
        /\ \A i \in DOMAIN s.manifest.replacements : IsList(s.manifest.replacements[i].files)
        /\ s.files = [name \in DOMAIN s.files |-> [was |-> s.files[name].was, words |-> s.files[name].words,
                                                   text |-> s.files[name].text]]
        /\ \A name \in DOMAIN s.files : s.files[name].was \in {name, "link"}

VARIABLES
    stage,      \* where the command is
    options,    \* what it was asked for
    starter,    \* the starter it has cloned
    item,       \* the item it has come to in a list of the manifest
    nth,        \* and in the files of a replacement
    tmp,        \* the temporary directory
    target,     \* the target
    outside     \* files of others that it has changed

initVars == <<stage, options, starter, item, nth, tmp, target, outside>>

NoDirectory == [kind |-> "none", git |-> "none", files |-> <<>>]

Settled == {"created", "refused", "dead"}

NoChoice == [language |-> "", license |-> "", version |-> "", template |-> FALSE]

NoManifest == [loads |-> FALSE, language |-> "", defaults |-> {}, replacements |-> <<>>,
               renames |-> <<>>, generated |-> <<>>, cleanup |-> <<>>]

NoStarter == [manifest |-> NoManifest, files |-> <<>>]

InitIdle ==
    /\ options = NoChoice /\ starter = NoStarter /\ item = 1 /\ nth = 1
    /\ tmp = NoDirectory /\ target = NoDirectory /\ outside = {}

InitInit ==
    /\ stage = "start" /\ options \in Requested /\ starter = NoStarter /\ item = 1 /\ nth = 1
    /\ tmp = NoDirectory /\ outside = {}
    /\ target \in {NoDirectory, [NoDirectory EXCEPT !.kind = "theirs"]}

-----------------------------------------------------------------------------
\* An error ends the command: a check that does not hold, a file that cannot be read or
\* written, a command that fails.  The deferred RemoveAll removes the temporary directory.
Refuse ==
    /\ stage \notin Settled /\ stage' = "refused" /\ tmp' = NoDirectory
    /\ UNCHANGED <<options, starter, item, nth, target, outside>>

Continue(from, next, tree) ==
    /\ stage = from /\ stage' = next /\ tmp' = tree /\ UNCHANGED options

\* resolveInitVersion, which fails where it finds no version, and resolveInputs.
Acceptable(o) == /\ o.language \in {"node", "go", "python", "rust"} /\ o.license \in {"mit", "none"}
            /\ o.version \in {"released", "dev"}

\* Init up to os.MkdirTemp.
Start ==
    /\ Acceptable(options) /\ options.template /\ target.kind = "none"
    /\ Continue("start", "clone", [NoDirectory EXCEPT !.kind = "empty"])
    /\ UNCHANGED <<starter, item, nth, target, outside>>

\* git clone, and git rev-parse HEAD
Clone ==
    /\ starter' \in Starters
    /\ Continue("clone", "strip", [kind |-> "starter", git |-> "starter's", files |-> starter'.files])
    /\ UNCHANGED <<item, nth, target, outside>>

\* os.RemoveAll of .git, rejectSymlinks, loadManifest
Strip ==
    /\ \A name \in DOMAIN tmp.files : tmp.files[name].was # "link"
    /\ starter.manifest.loads /\ starter.manifest.language = options.language
    /\ Continue("strip", "replace", [tmp EXCEPT !.git = "none"])
    /\ UNCHANGED <<starter, item, nth, target, outside>>

-----------------------------------------------------------------------------
(* renderTemplate, one file after the other.  A path that is not local begins  *)
(* with "../".                                                                 *)

Local(name) == name \notin {"../file", "."}

With(files, name, file) == [n \in DOMAIN files \cup {name} |-> IF n = name THEN file ELSE files[n]]

Without(files, name) == Restrict(files, DOMAIN files \ {name})

\* The words a project has: a version only if the command, or the starter, names one.
Values ==
    {"app_name", "cli_name", "go_module"}
    \cup (IF options.version = "released" \/ "lathe_version" \in starter.manifest.defaults
          THEN {"lathe_version"} ELSE {})

Replacements == starter.manifest.replacements

\* A replacement's word is its own or the default of its variable.
Replaceable(r) ==
    r.variable \in Values /\ (r.from \/ r.variable \in starter.manifest.defaults) /\ r.files # <<>>

\* A file of a replacement, which has the word and is text; writing through a link
\* would change what it points to.
ReplaceWord ==
    /\ stage = "replace" /\ item <= Len(Replacements) /\ Replaceable(Replacements[item])
    /\ LET r == Replacements[item]
           name == r.files[nth]
           file == tmp.files[name]
       IN /\ Local(name) /\ name \in DOMAIN tmp.files /\ r.variable \in file.words /\ file.text
          /\ IF file.was = "link"
             THEN outside' = outside \cup {name} /\ UNCHANGED tmp
             ELSE /\ tmp' = [tmp EXCEPT !.files = With(@, name, [file EXCEPT !.words = @ \ {r.variable}])]
                  /\ UNCHANGED outside
          /\ IF nth < Len(r.files) THEN nth' = nth + 1 /\ UNCHANGED item
             ELSE nth' = 1 /\ item' = item + 1
    /\ UNCHANGED <<stage, options, starter, target>>

\* A path takes the user's name.
RenamePath ==
    /\ stage = "rename" /\ item <= Len(starter.manifest.renames)
    /\ LET r == starter.manifest.renames[item]
       IN /\ r.variable \in Values /\ Local(r.path) /\ r.path \in DOMAIN tmp.files
          /\ tmp' = [tmp EXCEPT !.files = With(Without(@, r.path), r.variable, @[r.path])]
    /\ item' = item + 1
    /\ UNCHANGED <<stage, options, starter, nth, target, outside>>

\* removeLocalPath, for a path of a list
RemovePath(loop, list) ==
    /\ stage = loop /\ item <= Len(list) /\ Local(list[item])
    /\ tmp' = [tmp EXCEPT !.files = Without(@, list[item])] /\ item' = item + 1
    /\ UNCHANGED <<stage, options, starter, nth, target, outside>>

RemoveGenerated == RemovePath("generated", starter.manifest.generated)

\* A loop over a list of the manifest ends.
EndLoop ==
    /\ \/ Continue("replace", "rename", tmp) /\ item > Len(Replacements)
       \/ Continue("rename", "generated", tmp) /\ item > Len(starter.manifest.renames)
       \/ Continue("generated", "license", tmp) /\ item > Len(starter.manifest.generated)
    /\ item' = 1 /\ UNCHANGED <<starter, nth, target, outside>>

WrittenBy(author) == [was |-> author, words |-> {}, text |-> TRUE]

\* writeLicense
License(files) ==
    IF options.license = "mit" THEN With(files, "LICENSE", WrittenBy("license")) ELSE Without(files, "LICENSE")

WriteLicense ==
    /\ Continue("license", "bootstrap", [tmp EXCEPT !.files = License(@)])
    /\ UNCHANGED <<starter, item, nth, target, outside>>

\* `lathe bootstrap` writes generated paths, `go mod tidy` nothing of interest.
Bootstrap ==
    /\ Continue("bootstrap", "cleanup", [tmp EXCEPT !.files =
                    With(With(@, "generated", WrittenBy("bootstrap")), "cache", WrittenBy("bootstrap"))])
    /\ UNCHANGED <<starter, item, nth, target, outside>>

CleanUp == RemovePath("cleanup", starter.manifest.cleanup)

\* os.Remove of the manifest, which has to be there still.
RemoveManifest ==
    /\ item > Len(starter.manifest.cleanup) /\ "manifest" \in DOMAIN tmp.files
    /\ Continue("cleanup", "git", [tmp EXCEPT !.files = Without(@, "manifest")])
    /\ UNCHANGED <<starter, item, nth, target, outside>>

\* git init, which takes a repository of GIT_DIR for the project's if there is one.
Repositories == {"fresh", "commits", "remote", "staged", "empty"}

\* Whatever is found will do.
UnverifiedRepository(git) == TRUE

\* verifyRepository: no commits, no remote, nothing staged, and files to commit.
VerifyRepository(git) == git = "fresh"

GitInit ==
    /\ \E git \in Repositories :
         VerifyRepository(git) /\ Continue("git", "move", [tmp EXCEPT !.git = git])
    /\ UNCHANGED <<starter, item, nth, target, outside>>

\* os.Rename, which replaces nothing but an empty directory made while it looks.
Move ==
    /\ target.kind \in {"none", "empty"} /\ target' = [tmp EXCEPT !.kind = "project"]
    /\ Continue("move", "created", NoDirectory)
    /\ UNCHANGED <<starter, item, nth, outside>>

-----------------------------------------------------------------------------
\* The process is killed: the temporary directory stays.
Die ==
    /\ stage \notin Settled /\ stage' = "dead"
    /\ UNCHANGED <<options, starter, item, nth, tmp, target, outside>>

\* Another process takes the target.
Take ==
    /\ stage \notin Settled /\ target.kind = "none"
    /\ \E kind \in {"empty", "theirs"} : target' = [NoDirectory EXCEPT !.kind = kind]
    /\ UNCHANGED <<stage, options, starter, item, nth, tmp, outside>>

InitNext ==
    \/ Start \/ Clone \/ Strip \/ ReplaceWord \/ RenamePath \/ RemoveGenerated \/ EndLoop
    \/ WriteLicense \/ Bootstrap \/ CleanUp \/ RemoveManifest \/ GitInit \/ Move
    \/ Refuse \/ Die \/ Take

InitSpec == InitInit /\ [][InitNext]_initVars

-----------------------------------------------------------------------------
\* A project in the target is whole, and the user's own: a repository without history,
\* remote or staged files, no manifest, nothing of the starter where the starter says files
\* are generated (the license apart) or cleaned, none of its words in the files it lists,
\* and the license that was asked for (init.go:65-153, template.go;
\* docs/lathe-init-design.md:45).
ProjectWhole ==
    target.kind = "project" =>
        LET manifest == starter.manifest
            files == target.files
            Listed == UNION {{<<manifest.replacements[i].variable, f>> :
                                f \in Range(manifest.replacements[i].files)} : i \in DOMAIN manifest.replacements}
        IN /\ target.git = "fresh" /\ "manifest" \notin DOMAIN files
           /\ DOMAIN files \cap Range(manifest.cleanup) = {}
           /\ \A name \in DOMAIN files \cap Range(manifest.generated) : files[name].was = "bootstrap" \/ name = "LICENSE"
           /\ \A name \in DOMAIN files : \A variable \in files[name].words :
                <<variable, files[name].was>> \notin Listed
           /\ "LICENSE" \in DOMAIN files => options.license = "mit" /\ files["LICENSE"].was = "license"
           /\ options.license = "mit" => "LICENSE" \in DOMAIN files \cup Range(manifest.cleanup)

\* The command touches nothing but the target and its temporary directory, which is gone
\* unless the command was killed, whatever paths and links a starter has
\* (init.go:86-91, template.go:rejectSymlinks, localPath).
OnlyTheTarget ==
    /\ outside = {}
    /\ stage \in {"created", "refused"} => tmp = NoDirectory
    /\ stage = "created" => target.kind = "project"

\* What init leaves: both of these, whatever a starter holds and whatever step fails.
InitWhole == ProjectWhole /\ OnlyTheTarget
=============================================================================
