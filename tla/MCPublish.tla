----------------------------- MODULE MCPublish -----------------------------
(***************************************************************************)
(* The commands that publish files on the user's machine, one of them in   *)
(* each behavior: lathe codegen over small projects, the update of a       *)
(* generated CLI, and lathe init.                                          *)
(***************************************************************************)
EXTENDS AcceptedCommands, SchemaWalks, SelfUpdate, ProjectInit

VARIABLE command

vars == <<command, codegenVars, updateVars, initVars>>

-----------------------------------------------------------------------------
(* Sources and projects *)

Joined(a, by, b) == Append(Word(a), [word |-> b, by |-> by])

Camel(a, b) == Joined(a, "", b)

Snake(a, b) == Joined(a, "_", b)

Dotted(a, b) == Joined(a, ".", b)

Raw(in, name) == [name |-> name, in |-> in, type |-> "string", required |-> FALSE, default |-> NoText]

Segment(w) == [word |-> w, open |-> FALSE]

PetsPath == <<Segment("api"), Segment("v1"), Segment("pets")>>

Operation(id) ==
    [id |-> id, group |-> "pets", method |-> "get", path |-> PetsPath, params |-> <<>>, body |-> NoBody]

List == Operation(<<<<"list">>>>)

SourceOf(operations) ==
    [name |-> "a", display |-> "store", synced |-> TRUE, operations |-> operations, defs |-> <<>>,
     overlay |-> NoOverlay]

ProjectOf(sources) ==
    [sources |-> sources, workflows |-> <<>>, contexts |-> {"org"}, policy |-> "auto", skill |-> FALSE,
     bundle |-> FALSE, include |-> NoInclude]

\* Operations that would have one name, and names that numbers make.
Listings ==
    LET all == <<Operation(<<>>), List, [Operation(<<<<"pets">>, <<"list">>>>) EXCEPT !.method = "post"],
                 Operation(<<<<"list">>, <<"2">>>>)>>
    IN {[k \in 1 .. Cardinality(S) |-> all[CHOOSE i \in S : Cardinality({j \in S : j < i}) = k - 1]] :
            S \in SUBSET (1 .. 4) \ {{}}}

Use(name) == [NoOverride EXCEPT !.use = name]

Post == [method |-> "post", path |-> <<>>]

Overlays ==
    {NoOverlay}
    \cup {[NoOverlay EXCEPT !.commands = name :> o] :
            name \in {<<"list">>, <<"list", "2">>, <<"list", "3">>},
            o \in {[NoOverride EXCEPT !.ignore = TRUE], Use(<<"list", "2">>), Use(<<"show">>),
                   [NoOverride EXCEPT !.aliases = {<<"list">>}], [NoOverride EXCEPT !.group = "Pets"],
                   [Use(<<"show">>) EXCEPT !.match = Post],
                   [NoOverride EXCEPT !.shortcuts = {[use |-> <<"list">>, keys |-> {}], [use |-> <<"pets">>, keys |-> {}]}],
                   [NoOverride EXCEPT !.shortcuts = {[use |-> <<"ls">>, keys |-> {}]}]}}
    \cup {[NoOverlay EXCEPT !.commands = (<<"list">> :> Use(<<"show">>)) @@ (<<"list", "2">> :> Use(<<"show">>))]}

Named ==
    {[ProjectOf(<<[SourceOf(ops) EXCEPT !.overlay = overlay]>>) EXCEPT !.policy = policy] :
        ops \in Listings, overlay \in Overlays, policy \in {"auto", "flat"}}
    \cup {[ProjectOf(<<SourceOf(<<[List EXCEPT !.group = group], [List EXCEPT !.group = "pets"]>>)>>) EXCEPT !.policy = policy] :
            group \in {"Pets", "auth"}, policy \in {"auto", "namespaced"}}

Shortcut == [NoOverlay EXCEPT !.commands = <<"list">> :>
                [NoOverride EXCEPT !.shortcuts = {[use |-> <<"ls">>, keys |-> {}]}]]

Several ==
    {[ProjectOf(<<[SourceOf(<<List>>) EXCEPT !.overlay = first],
                  [SourceOf(<<List>>) EXCEPT !.name = "b", !.display = display, !.overlay = second]>>)
        EXCEPT !.workflows = workflows] :
            first \in {NoOverlay, Shortcut}, second \in {NoOverlay, Shortcut},
            display \in {"Store", "users", "ls", "auth", "completion"},
            workflows \in {<<>>, <<{<<"deploy">>, <<"ls">>}>>, <<{<<"deploy">>}, {<<"deploy">>}>>,
                           <<{<<"store">>}>>, <<{<<"Store">>}>>, <<{<<"help">>}>>, <<{<<"deploy">>}>>}}
    \cup {[ProjectOf(<<[SourceOf(<<List>>) EXCEPT !.synced = FALSE]>>) EXCEPT !.skill = TRUE]}

-----------------------------------------------------------------------------
(* Parameters and bodies *)

Pool ==
    {Raw("query", Word("id")), Raw("query", Camel("pet", "id")), Raw("query", Snake("pet", "id")),
     Raw("query", Camel("cookie", "id")), Raw("cookie", Word("id")), Raw("cookie", Snake("pet", "id")),
     Raw("header", Word("token")), Raw("header", Word("id")), [Raw("cookie", Camel("pet", "id")) EXCEPT !.type = "array"],
     Raw("query", Dotted("pet", "id"))}

\* A GraphQL operation has variables: arguments, and the fields of those that are objects.
Variables ==
    {Raw("variable", Word("id")), Raw("variable", Camel("pet", "id")), Raw("variable", Dotted("pet", "id")),
     Raw("variable", Snake("pet", "id")), [Raw("variable", Word("count")) EXCEPT !.type = "integer"]}

Prop(type) == [Blank EXCEPT !.type = type]

File == [Prop("string") EXCEPT !.binary = TRUE]

OneOf == [Blank EXCEPT !.oneOf = TRUE]

AnyOf(first, second) == [Blank EXCEPT !.anyOf = <<Prop(first), Prop(second)>>]

Props(schema, props, required) == [schema EXCEPT !.props = props, !.required = required]

ID == Word("id")

PetID == Snake("pet", "id")

Parts ==
    {Blank, Prop("string"), File, Prop("object"), Prop("array"), OneOf,
     [Prop("array") EXCEPT !.items = <<File>>], [Prop("array") EXCEPT !.items = <<Prop("array")>>],
     [Prop("string") EXCEPT !.readOnly = TRUE], [Blank EXCEPT !.ref = "file"], [Blank EXCEPT !.ref = "choice"]}

Defs == [file |-> File, choice |-> OneOf,
         form |-> Props(Prop("object"), ID :> File, {ID}), loop |-> [Blank EXCEPT !.ref = "loop"]]

Forms ==
    {Props(Prop("object"), (ID :> File) @@ (PetID :> part), required) : part \in Parts, required \in {{}, {PetID}}}
    \cup {Props(Prop("object"), ID :> part, {ID}) : part \in Parts}
    \cup {[Blank EXCEPT !.ref = "form"], [Blank EXCEPT !.ref = "loop"], OneOf,
          [Blank EXCEPT !.ref = "form", !.required = {PetID}],
          Props([Blank EXCEPT !.ref = "form"], PetID :> OneOf, {PetID}),
          [Blank EXCEPT !.allOf = <<[Blank EXCEPT !.ref = "form"], Props(Prop("object"), PetID :> Prop("string"), {PetID})>>],
          [Blank EXCEPT !.allOf = <<Props(Prop("object"), PetID :> OneOf, {}),
                                    [Blank EXCEPT !.required = {PetID}]>>]}

Body(media, schema, required) == [media |-> media, schema |-> schema, required |-> required, template |-> FALSE]

OfOperation(o, overlay) == ProjectOf(<<[SourceOf(<<o>>) EXCEPT !.defs = Defs, !.overlay = overlay]>>)

UpTo(S, n) == UNION {{f \in [1 .. k -> S] : \A i, j \in 1 .. k : i # j => f[i] # f[j]} : k \in 0 .. n}

Given ==
    {OfOperation([List EXCEPT !.params = params], NoOverlay) : params \in UpTo(Pool, 3)}
    \cup {OfOperation([List EXCEPT !.params = params, !.body = [Body("json", Blank, TRUE) EXCEPT !.template = TRUE]], NoOverlay) :
            params \in UpTo(Variables, 3)}
    \cup {OfOperation([List EXCEPT !.params = params, !.body = Body("multipart", form, required)], NoOverlay) :
            params \in {<<>>, <<Raw("query", Word("id"))>>, <<Raw("query", ID), Raw("query", Camel("body", "id"))>>},
            form \in Forms, required \in BOOLEAN}

BodyFlags(flags) == [NoOverlay EXCEPT !.commands = <<"list">> :>
                        [NoOverride EXCEPT !.bodyFlags = TRUE, !.flags = flags]]

Typed ==
    {OfOperation([List EXCEPT !.params = params, !.body = Body("json", Props(Prop("object"), props, {ID}), TRUE)],
                 BodyFlags(flags)) :
        params \in {<<>>, <<Raw("query", Snake("pet", "id"))>>, <<Raw("query", Word("id"))>>},
        props \in {ID :> Prop("string"), (ID :> Prop("object")) @@ (Camel("pet", "id") :> Prop("integer")),
                   (PetID :> Prop("string")) @@ (Camel("pet", "id") :> Prop("integer")), Word("output") :> Prop("string"),
                   ID :> OneOf, ID :> AnyOf("integer", "string"), ID :> AnyOf("boolean", "string"),
                   ID :> [Prop("array") EXCEPT !.items = <<AnyOf("string", "integer")>>]},
        flags \in {<<>>, ID :> Word("output"), ID :> Word("key")}}
    \cup {[OfOperation([List EXCEPT !.params = <<Raw("query", ID)>>],
            [NoOverlay EXCEPT !.commands = <<"list">> :> [NoOverride EXCEPT !.arguments = arguments,
                !.contexts = contexts, !.sets = sets, !.shortcuts = {[use |-> <<"ls">>, keys |-> keys]}]])
                    EXCEPT !.skill = TRUE] :
            arguments \in {<<>>, ID :> 1, PetID :> 1}, contexts \in {<<>>, ID :> "org", ID :> "team"},
            sets \in {<<>>, <<[name |-> "org", param |-> Word("id")]>>, <<[name |-> "org", param |-> Word("x")]>>},
            keys \in {{}, {Word("id")}, {Word("x")}}}
    \cup {OfOperation([List EXCEPT !.params = <<[Raw(in, ID) EXCEPT !.type = type]>>],
                       [NoOverlay EXCEPT !.commands = <<"list">> :>
                           [NoOverride EXCEPT !.shortcuts = {[use |-> <<"ls">>, keys |-> {ID}]}]]) :
            in \in {"path", "query", "header"}, type \in {"integer", "array"}}

-----------------------------------------------------------------------------
(* Files *)

Included(present, actions) == [path |-> TRUE, apart |-> TRUE, present |-> present, actions |-> actions]

Guide == Rel("references", "guide.md")

Includes ==
    {NoInclude, Included({}, <<>>), [Included({}, <<>>) EXCEPT !.apart = FALSE],
     Included({SkillMD, Guide}, <<>>), Included({SkillMD}, SkillMD :> "replace"),
     Included({}, Agents :> "omit"), Included({Agents}, Agents :> "replace"), Included({Agents}, <<>>),
     Included({Rel("", "notes.txt")}, <<>>), Included({Catalog}, Catalog :> "create"),
     Included({Guide}, Guide :> "omit"), Included({Guide}, Guide :> "append"),
     [Included({}, SkillMD :> "replace") EXCEPT !.path = FALSE]}

Files ==
    {[ProjectOf(sources) EXCEPT !.workflows = workflows, !.skill = skill, !.bundle = bundle, !.include = include] :
        sources \in {<<SourceOf(<<List>>)>>,
                     <<SourceOf(<<List>>), [SourceOf(<<List>>) EXCEPT !.name = "b", !.display = "users"]>>},
        workflows \in {<<>>, <<{<<"deploy">>}>>}, skill \in {TRUE}, bundle \in BOOLEAN,
        include \in {NoInclude, Included({SkillMD, Guide}, <<>>), Included({}, Agents :> "omit")}}
    \cup {ProjectOf(<<SourceOf(<<List>>)>>), [ProjectOf(<<SourceOf(<<List>>)>>) EXCEPT !.bundle = TRUE]}

WithIncludes ==
    {[ProjectOf(<<SourceOf(<<List>>)>>) EXCEPT !.skill = skill, !.include = include] :
        skill \in BOOLEAN, include \in Includes}

AllProjects == Named \cup Several \cup Given \cup Typed \cup Files \cup WithIncludes

\* Runs after the first are of interest for the files they find.
FilesAgain(p) == IF p \in Files THEN Files ELSE {}

User == -2

SkillTrees ==
    {NoFiles, [run |-> User, files |-> SkillMD :> {"user"}],
     [run |-> User, files |-> (Owner :> {"codegen"}) @@ (ModuleRef("gone") :> {"codegen"})]}

Lowered == [Pets |-> "pets", Store |-> "store"]

Singulars == [pets |-> "pet"]

Digits == <<"1", "2", "3", "4", "5", "6", "7", "8", "9">>

-----------------------------------------------------------------------------
(* Releases *)

Version(a, b, c, suffix) == [ok |-> TRUE, parts |-> <<a, b, c>>, suffix |-> suffix]

Dev == [ok |-> FALSE, parts |-> <<0, 0, 0>>, suffix |-> ""]

Runnings == {Version(1, 2, 0, ""), Version(1, 2, 0, "rc.9"), Version(2, 0, 0, ""), Dev}

Tags == {Version(1, 2, 0, ""), Version(1, 2, 0, "rc.10"), Version(1, 3, 0, "rc.9"), Version(2, 0, 1, ""), Dev}

\* The order of strings, not of numbers.
Ranks == <<"rc.10", "rc.9">>

Member(named, kind, bytes) == [named |-> named, kind |-> kind, bytes |-> bytes, mode |-> "x"]

AllArchives ==
    {[format |-> "plain", members |-> <<Member(TRUE, "file", "new")>>],
     [format |-> "tar", members |-> <<Member(TRUE, "dir", ""), Member(FALSE, "file", "doc"), Member(TRUE, "file", "new"), Member(TRUE, "file", "other")>>],
     [format |-> "zip", members |-> <<Member(FALSE, "file", "doc"), Member(TRUE, "link", "new"), Member(TRUE, "file", "other")>>],
     [format |-> "tar", members |-> <<Member(TRUE, "link", ""), Member(FALSE, "file", "doc")>>]}

AllReleases ==
    {[tag |-> tag, assets |-> assets] : tag \in Tags,
        assets \in {<<>>} \cup {<<[ours |-> FALSE, digest |-> NoArchive], [ours |-> TRUE, digest |-> digest]>> :
                                    digest \in AllArchives \cup {NoArchive}}}

-----------------------------------------------------------------------------
(* Starters *)

Of(was, words) == [was |-> was, words |-> words, text |-> TRUE]

Tree ==
    [manifest |-> Of("manifest", {}), doc |-> Of("doc", {"app_name", "lathe_version"}), cmd |-> Of("cmd", {"cli_name"}),
     logo |-> [Of("logo", {"app_name"}) EXCEPT !.text = FALSE], generated |-> Of("generated", {}), skills |-> Of("skills", {}),
     cache |-> Of("cache", {}), LICENSE |-> Of("LICENSE", {})]

Manifest ==
    [loads |-> TRUE, language |-> "go", defaults |-> {"app_name", "cli_name"},
     replacements |-> <<[variable |-> "app_name", from |-> FALSE, files |-> <<"doc">>],
                        [variable |-> "cli_name", from |-> FALSE, files |-> <<"cmd">>]>>,
     renames |-> <<[path |-> "cmd", variable |-> "cli_name"]>>,
     generated |-> <<"generated", "skills">>, cleanup |-> <<"cache">>]

Starter(manifest) == [manifest |-> manifest, files |-> Tree]

Replacing(r) == Starter([Manifest EXCEPT !.replacements = Append(@, r)])

AllStarters ==
    {Starter(Manifest), Starter([Manifest EXCEPT !.loads = FALSE]), Starter([Manifest EXCEPT !.language = "rust"]),
     Starter([Manifest EXCEPT !.renames = <<[path |-> "none", variable |-> "cli_name"]>>]),
     Starter([Manifest EXCEPT !.generated = <<"../file">>]), Starter([Manifest EXCEPT !.cleanup = <<".">>]),
     Starter([Manifest EXCEPT !.cleanup = <<"LICENSE">>]), Starter([Manifest EXCEPT !.cleanup = <<"manifest">>]),
     [Starter(Manifest) EXCEPT !.files.cmd.was = "link"], [Starter(Manifest) EXCEPT !.files.logo.was = "link"],
     Replacing([variable |-> "lathe_version", from |-> TRUE, files |-> <<"doc">>]),
     Replacing([variable |-> "go_module", from |-> FALSE, files |-> <<"doc">>]),
     Replacing([variable |-> "app_name", from |-> TRUE, files |-> <<"logo">>]),
     Replacing([variable |-> "app_name", from |-> TRUE, files |-> <<"../file">>])}

AllRequests ==
    {[language |-> language, license |-> license, version |-> version, template |-> template] :
        language \in {"go", "java"}, license \in {"mit", "none", "gpl"}, version \in {"released", "dev", "bad"},
        template \in BOOLEAN}

-----------------------------------------------------------------------------
CodegenOff ==
    /\ runs = 0 /\ project = NoProject /\ built = Nothing /\ pc = "off" /\ written = 0 /\ temp = NoFiles /\ faults = 0
    /\ disk = [modules |-> <<>>, workflows |-> Gone, main |-> NoMain, skill |-> NoFiles, bundle |-> NoFiles]

Init ==
    \/ command = "codegen" /\ CodegenInit /\ phase = "off" /\ UpdateIdle /\ stage = "off" /\ InitIdle
    \/ command = "update" /\ CodegenOff /\ UpdateInit /\ stage = "off" /\ InitIdle
    \/ command = "init" /\ CodegenOff /\ phase = "off" /\ UpdateIdle /\ InitInit

Next ==
    \/ command = "codegen" /\ CodegenNext /\ UNCHANGED <<command, updateVars, initVars>>
    \/ command = "update" /\ UpdateNext /\ UNCHANGED <<command, codegenVars, initVars>>
    \/ command = "init" /\ InitNext /\ UNCHANGED <<command, codegenVars, updateVars>>

Spec == Init /\ [][Next]_vars
=============================================================================
