---------------------------- MODULE RequestBody ----------------------------
(***************************************************************************)
(* The body of a request, out of --file, --set, --set-str, typed flags,    *)
(* form fields and the operation's template (pkg/runtime: body.go,         *)
(* operation_body.go).                                                     *)
(*                                                                         *)
(* An operation has a media type, typed body fields (names to whether they *)
(* are required), form fields, a template with a merge path, or none.  An  *)
(* input has assignments (a path and a text each; no path when the text    *)
(* is not key=value), values of typed fields, of form fields and of        *)
(* variables, and a file's content or NoFile.                              *)
(***************************************************************************)
EXTENDS JsonPaths

NoTemplate == Absent

NoFile == Absent

\* A file that is not JSON, and one that is empty.
Garbage == [kind |-> "garbage", at |-> ""]

EmptyFile == [kind |-> "blank", at |-> ""]

\* A body as the code generator makes it and what can be given to it: assignments have paths
\* and texts, typed fields are for bodies without a template and variables for those with one
\* (ExpandJSONBodyFlags refuses templates), and templates are objects.
WellFormedBody(spec, input) ==
    /\ spec.mergePath \in Paths
    /\ \A list \in {input.set, input.setStr, input.vars} : list \in Seq([path : Paths, text : STRING])
    /\ spec.template # NoTemplate => spec.template.kind = "object" /\ spec.media = "json" /\ DOMAIN input.fields = {}
    /\ spec.template = NoTemplate => input.vars = <<>>
    /\ \A doc \in {spec.template, input.file, Object(input.fields)} : doc.kind = "object" => DOMAIN doc.at \subseteq STRING

Refused(why) == [fails |-> why, kind |-> "none", doc |-> Absent]

Body(kind, doc) == [fails |-> "", kind |-> kind, doc |-> doc]

\* inferValue.
InferValue(text) ==
    CASE text = "null" -> Null
      [] text = "[]" -> Array(<<>>)
      [] text \in {"true", "7"} -> [kind |-> "typed", at |-> text]
      [] OTHER -> Leaf(text)

\* Assignments whose values are inferred, and those whose values are texts.
Inferred(list) == [i \in DOMAIN list |-> [path |-> list[i].path, doc |-> InferValue(list[i].text)]]

Quoted(list) == [i \in DOMAIN list |-> [path |-> list[i].path, doc |-> Leaf(list[i].text)]]

\* --set and --set-str of an input, in the order they take effect.
SetsLast(input) == Quoted(input.setStr) \o Inferred(input.set)

Assignments(input) == Inferred(input.set) \o Quoted(input.setStr)

HasSets(input) == input.set # <<>> \/ input.setStr # <<>>

\* A step of mergeJSONBodySets: nothing changes after the first refusal.
Assign(flags, prefix, body, assignment) ==
    IF body.fails # "" THEN body
    ELSE IF assignment.path = <<>> THEN Refused("not an assignment")
    ELSE IF assignment.path[1].key \in flags THEN Refused("flag and assignment")
    ELSE IF Conflict(body.doc, prefix \o assignment.path) THEN Refused("conflict")
    ELSE Body("json", SetNested(body.doc, prefix \o assignment.path, assignment.doc))

\* The body after each of the assignments.
Assigned(flags, prefix, doc, list) ==
    LET body[k \in 0 .. Len(list)] ==
            IF k = 0 THEN Body("json", doc) ELSE Assign(flags, prefix, body[k - 1], list[k])
    IN body

AssignAll(flags, prefix, doc, list) == Assigned(flags, prefix, doc, list)[Len(list)]

\* buildEnvelopeBody: the file at the merge path, then variables, then assignments.
Envelope(spec, input) ==
    IF input.file = NoFile THEN spec.template
    ELSE SetNested(spec.template, spec.mergePath, IF input.file = EmptyFile THEN Null ELSE input.file)

EnvelopeBody(spec, input) ==
    IF input.file # NoFile /\ spec.mergePath = <<>> THEN Refused("no place for a file")
    ELSE IF input.file = Garbage THEN Refused("not JSON")
    ELSE IF input.file # NoFile /\ Conflict(spec.template, spec.mergePath) THEN Refused("conflict")
    ELSE AssignAll({}, spec.mergePath, Envelope(spec, input), Quoted(input.vars) \o Assignments(input))

JSON(spec) == spec.media = "json"

\* A body of typed fields and assignments.
BuiltBody(spec, input) ==
    IF ~JSON(spec) THEN Refused("needs a file")
    ELSE AssignAll(DOMAIN input.fields, <<>>, Object(input.fields), Assignments(input))

\* resolveOperationBody.
ResolveBody(spec, input) ==
    CASE spec.media = "multipart" ->
           IF input.file # NoFile \/ HasSets(input) THEN Refused("parts only")
           ELSE IF input.form = {} /\ ~spec.required THEN Body("none", Absent)
           ELSE Body("multipart", Absent)
      [] spec.media # "multipart" /\ input.form # {} -> Body("form", Absent)
      [] spec.media = "none" /\ input.form = {} -> Body("none", Absent)
      [] OTHER ->
           IF spec.template # NoTemplate THEN EnvelopeBody(spec, input)
           ELSE IF DOMAIN spec.fields # {} /\ input.file # NoFile
                   /\ (HasSets(input) \/ DOMAIN input.fields # {})
           THEN Refused("file and flags")
           ELSE IF DOMAIN input.fields # {} \/ HasSets(input) THEN BuiltBody(spec, input)
           ELSE IF input.file # NoFile THEN Body("file", input.file)
           ELSE IF spec.required THEN Refused("body required")
           ELSE Body("none", Absent)

\* validateRequiredBodyParams, and validateRequiredVariableParams under the merge path:
\* required fields, and variables that are not null.
MissingFields(spec, body) ==
    IF spec.template # NoTemplate
    THEN {name \in DOMAIN spec.fields :
            spec.fields[name] /\ Blank(GetNested(body.doc, spec.mergePath \o <<Field(name)>>))}
    ELSE {name \in DOMAIN spec.fields : spec.fields[name] /\ Child(body.doc, Field(name)) = Absent}

\* resolveOperationRequest: the body it sends, or why it sends none.
RequestBody(spec, input) ==
    LET body == ResolveBody(spec, input)
        checked == body.kind \in {"json", "file"} /\ \E name \in DOMAIN spec.fields : spec.fields[name]
    IN IF body.fails # "" \/ ~checked THEN body
       ELSE IF body.doc.kind # "object" /\ spec.template = NoTemplate THEN Refused("not an object")
       ELSE IF MissingFields(spec, body) # {} THEN Refused("missing field")
       ELSE body
=============================================================================
