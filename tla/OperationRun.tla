---------------------------- MODULE OperationRun ----------------------------
(***************************************************************************)
(* One operation command from its flags to its output (pkg/runtime:        *)
(* command.go, operation.go, runtime_schema.go, paginate.go, poll.go,      *)
(* binary_output.go), against a service that answers as it likes, a user   *)
(* who interrupts, a kill, and another process that creates files.         *)
(*                                                                         *)
(* A command has a kind of response ("plain", "paged", "stream" or         *)
(* "binary"), the flags the user gave, the request they make (RequestBody, *)
(* RequestParams), and what surrounds it: the login of its host, whether   *)
(* it is public, needs a runtime schema or sets a context, and for pages   *)
(* their strategy, the offset of the first and whether the service heeds   *)
(* the position it is asked for.                                           *)
(***************************************************************************)
EXTENDS RequestBody, RequestParams, StreamCollect

CONSTANTS Commands,      \* the commands that are run
          StreamEvents,  \* the events of streamed responses
          MaxEvents,     \* how many of them a response has
          Items,         \* how many items the service has
          PageSize,      \* the longest page it returns
          MaxPages,      \* --max-pages
          PollTimeout,   \* DefaultPollTimeout, in pollInitBackoff units
          MaxBackoff     \* pollMaxBackoff, in the same units

\* The flags a command has: --all for pages, --wait for what is not binary, --stream for
\* streams, --output-file for binary responses.
FlagsOf(kind) ==
    {"dry-run", "raw"}
    \cup (IF kind = "paged" THEN {"all"} ELSE {})
    \cup (IF kind # "binary" THEN {"wait"} ELSE {"to-file", "to-stdout"})
    \cup (IF kind = "stream" THEN {"stream"} ELSE {})

\* A policy as validateStreamingOverride takes it.
IsPolicy(policy) ==
    /\ policy.strategy \in {"sse", "ndjson"}
    /\ policy.strategy = "ndjson" => policy.namePath # <<>>
    /\ Len(policy.fields) \in Nat
    /\ \A k \in 1 .. Len(policy.fields) :
         /\ policy.fields[k].to \in Paths /\ policy.fields[k].to # <<>>
         /\ policy.fields[k].reduce \in {"first", "last", "concat", "append"}

\* An event has a name and a payload, in one data line or in two; one without data is
\* none, and one may be no JSON.  Its event line has the name, or is missing.
IsEvent(e) ==
    /\ e.event \in {"", e.name}
    /\ \/ e.data = <<>>
       \/ e.data = <<NotJSON>> /\ e.payload = NotJSON
       \/ /\ e.payload.kind \notin NoDocument
          /\ e.data \in {<<e.payload>>, <<Half("left", e.payload), Half("right", e.payload)>>}

\* A command as it is mounted and called: it starts at a position, has flags of its kind, a
\* policy where it collects a stream, and a way for each parameter that was set, which gives
\* one text unless the parameter is a list; a placeholder of its path stands for a path
\* parameter, variables are of a body with a template (the GraphQL backend's, which has
\* their texts in the input), and only strings are bound to contexts
\* (validateCommandContexts).
WellFormed(c) ==
    /\ c.start \in Nat /\ c.flags \subseteq FlagsOf(c.kind)
    /\ DOMAIN c.given = DOMAIN c.raws
    /\ \A i \in DOMAIN c.given :
         /\ DOMAIN c.given[i] \subseteq {"flag", "argument", "env", "file", "stdin"}
         /\ \A w \in DOMAIN c.given[i] : c.given[i][w] \in Seq(STRING)
         /\ GoType(c.raws[i]) \notin Lists => \A w \in DOMAIN c.given[i] : Len(c.given[i][w]) = 1
         /\ c.raws[i].in = "variable" => c.spec.template # NoTemplate
    /\ \A i \in DOMAIN c.raws \cap DOMAIN c.contexts : GoType(c.raws[i]) = "string"
    /\ \A name \in c.open : \E i \in DOMAIN c.raws : c.raws[i].in = "path" /\ c.raws[i].name = name
    /\ WellFormedBody(c.spec, c.input)
    /\ c.kind = "stream" => IsPolicy(c.policy)

ASSUME OperationAssumption ==
    /\ {Items, PageSize, MaxPages, PollTimeout, MaxBackoff, MaxEvents} \subseteq Nat \ {0}
    /\ \A c \in Commands : WellFormed(c)
    /\ \A e \in StreamEvents : IsEvent(e)

VARIABLES cmd,          \* the command
          at,           \* the step of RunE that comes next, "done" or "killed"
          page,         \* pages: how many, the position asked for next and the items so far
          poll,         \* polling: the time, when the next poll is due and the last wait
          response,     \* a streamed response: the events written whole, the one being written and
                        \* its lines so far, how it ended, what the reader has of the event, and
                        \* what is collected
          sent,         \* the kinds of requests that left
          disk,         \* what is at --output-file and in the temporary file beside it
          stored,       \* whether the operation's context was stored
          interrupted,  \* the user pressed Ctrl-C
          result        \* how the command ended

fetched == <<page, poll, response>>

vars == <<cmd, at, page, poll, response, sent, disk, stored, interrupted, result>>

Flag(name) == name \in cmd.flags

NoEvent == [name |-> "", event |-> "", payload |-> Absent, data |-> <<>>]

NoResponse ==
    [events |-> <<>>, writing |-> NoEvent, line |-> 0, end |-> "open", reader |-> NothingRead,
     taken |-> [doc |-> Object(<< >>), live |-> <<>>, state |-> "on"]]

Init ==
    /\ cmd \in Commands
    /\ at = "start"
    /\ page = [count |-> 0, next |-> cmd.start, got |-> <<>>]
    /\ poll = [time |-> 0, due |-> 0, backoff |-> 1]
    /\ response = NoResponse
    /\ sent = {}
    /\ disk \in [path : IF Flag("to-file") THEN {"none", "other"} ELSE {"none"}, temp : {"none"}]
    /\ stored = FALSE
    /\ interrupted = FALSE
    /\ result = "none"

-----------------------------------------------------------------------------
(* How a command ends: with its temporary file left, and as it does, with   *)
(* the deferred abort that takes it away.                                   *)

StopLeavingFiles(how) ==
    /\ at' = "done"
    /\ result' = how
    /\ UNCHANGED disk

Stop(how) ==
    /\ at' = "done"
    /\ result' = how
    /\ disk' = [disk EXCEPT !.temp = "none"]

Go(step) == at' = step /\ UNCHANGED <<result, disk>>

-----------------------------------------------------------------------------
(* RunE up to the request *)

Optional == Flag("dry-run") \/ cmd.public

\* resolveOperationRequest: what the command would send, or why it cannot.
HasBody == cmd.spec.media # "none"

Bound == Bind([i \in DOMAIN cmd.raws |-> Parameter(cmd.raws[i])], cmd.given, cmd.contexts, HasBody)

Usage ==
    \/ Flag("stream") /\ (Flag("raw") \/ Flag("wait"))
    \/ Bound.fails # ""
    \/ RequestBody(cmd.spec, cmd.input).fails # ""
    \/ cmd.kind = "binary" /\ ~Flag("dry-run") /\ cmd.flags \cap {"to-file", "to-stdout"} = {}

Check ==
    /\ at = "start"
    /\ IF Usage THEN Stop("usage")
       ELSE IF cmd.login = "none" /\ ~Optional THEN Stop("not authenticated")
       ELSE Go(IF Flag("to-file") /\ ~Flag("dry-run") THEN "create" ELSE "invoke")
    /\ UNCHANGED <<cmd, fetched, sent, stored, interrupted>>

\* createBinaryFile, in a directory that may not be writable.
CreateFile ==
    /\ at = "create"
    /\ \/ disk.path # "none" /\ Stop("usage")
       \/ disk.path = "none" /\ Stop("usage")
       \/ disk.path = "none" /\ at' = "invoke" /\ disk' = [disk EXCEPT !.temp = "part"] /\ UNCHANGED result
    /\ UNCHANGED <<cmd, fetched, sent, stored, interrupted>>

\* invokeOperation up to its first request: the dry run, the security of the operation
\* and the schema that the service has for its body.
Invoke ==
    /\ at = "invoke"
    /\ IF Flag("dry-run") THEN Stop("dry-run")
       ELSE IF cmd.login # "valid" /\ ~cmd.public THEN Stop("not authenticated")
       ELSE Go(IF cmd.schema /\ RequestBody(cmd.spec, cmd.input).kind # "none" THEN "schema" ELSE "send")
    /\ UNCHANGED <<cmd, fetched, sent, stored, interrupted>>

\* A request that leaves and its answer: none leaves after an interrupt.
Leaves(kind) == ~interrupted /\ sent' = sent \cup {kind}

FailedRequest(step, kind) ==
    /\ at = step
    /\ \/ interrupted /\ Stop("canceled") /\ sent' \in {sent, sent \cup {kind}}
       \/ Leaves(kind) /\ Stop("failed")
    /\ UNCHANGED <<cmd, fetched, stored, interrupted>>

\* validateRuntimeSchemaBody where a schema that refuses the body is taken for advice.
CheckSchemaAdvisory ==
    /\ at = "schema"
    /\ \/ Leaves("schema accepted") /\ Go("send")
       \/ Leaves("schema refused") /\ Go("send")
    /\ UNCHANGED <<cmd, fetched, stored, interrupted>>

\* validateRuntimeSchemaBody: the schema that the service returns takes the body or refuses
\* it, and the request for it may have no value for a parameter it needs.
CheckSchema ==
    /\ at = "schema"
    /\ \/ Leaves("schema accepted") /\ Go("send")
       \/ Leaves("schema refused") /\ Stop("usage")
       \/ Stop("usage") /\ UNCHANGED sent
    /\ UNCHANGED <<cmd, fetched, stored, interrupted>>

\* The way the response is read: pages before a wait, a wait before a stream.
Mode ==
    CASE Flag("all") -> "pages"
      [] Flag("wait") /\ ~Flag("all") -> "wait"
      [] cmd.kind = "binary" -> "file"
      [] cmd.kind = "stream" /\ ~Flag("wait") -> IF Flag("raw") THEN "plain" ELSE "collect"
      [] OTHER -> "plain"

\* A response that is not streamed ends within the client's timeout.
Timed == Mode \in {"pages", "wait"} \/ (Mode = "plain" /\ cmd.kind # "stream")

Answered == IF cmd.setsContext THEN Go("persist") ELSE Go("commit")

SendPlain ==
    /\ at = "send" /\ Mode = "plain"
    /\ Leaves("target")
    /\ Answered
    /\ UNCHANGED <<cmd, fetched, stored, interrupted>>

-----------------------------------------------------------------------------
(* PaginateAll.  A page holds the items after a position, and a token for   *)
(* the position after them.  A service that does not heed positions returns *)
(* its first page each time.                                                *)

End == -1

After(pos, n) == [i \in 1 .. n |-> pos + i]

\* The pages the service may return for a position: their items, token and hasNextPage.
Pages(pos) ==
    LET left == IF pos < Items THEN Items - pos ELSE 0
        more(n) == n < left
        honest(n) == IF more(n) THEN pos + n ELSE End
    IN CASE cmd.strategy = "cursor" ->
              {[items |-> After(pos, n), token |-> honest(n), hasNext |-> "absent"] :
                  n \in 0 .. (IF PageSize < left THEN PageSize ELSE left)}
         [] cmd.strategy = "body-cursor" ->
              {[items |-> After(pos, n), token |-> IF told THEN pos + n ELSE honest(n),
                hasNext |-> IF ~told THEN "absent" ELSE IF more(n) THEN "yes" ELSE "no"] :
                  n \in 0 .. (IF PageSize < left THEN PageSize ELSE left), told \in BOOLEAN}
         [] OTHER ->
              {[items |-> After(pos, n), token |-> End, hasNext |-> "absent"] :
                  n \in (IF left = 0 THEN 0 ELSE 1) .. (IF PageSize < left THEN PageSize ELSE left)}

\* Where the next page starts, or End.  An offset counts pages instead of items.
NextOfPages(answer) ==
    CASE cmd.strategy = "cursor" -> answer.token
      [] cmd.strategy = "body-cursor" -> IF answer.hasNext = "no" THEN End ELSE answer.token
      [] OTHER -> IF answer.items = <<>> THEN End ELSE page.next + PageSize

NextPage(answer) ==
    CASE cmd.strategy = "cursor" -> answer.token
      [] cmd.strategy = "body-cursor" -> IF answer.hasNext = "no" THEN End ELSE answer.token
      [] OTHER -> IF answer.items = <<>> THEN End ELSE page.next + Len(answer.items)

FetchPage ==
    /\ at = "send" /\ Mode = "pages"
    /\ Leaves("target")
    /\ \E answer \in Pages(IF cmd.heeds THEN page.next ELSE cmd.start) :
         LET next == NextPage(answer)
         IN /\ page' = [count |-> page.count + 1, next |-> next, got |-> page.got \o answer.items]
            /\ IF next = End \/ page.count + 1 = MaxPages THEN Answered ELSE Go("send")
    /\ UNCHANGED <<cmd, poll, response, stored, interrupted>>

-----------------------------------------------------------------------------
(* --wait: a 202 with a Location is polled until another answer or until    *)
(* the timeout, which also cuts off a poll in flight.                       *)

\* The first answer: done, accepted without a Location, or accepted with one that is at
\* the host of the request or elsewhere.
Submit ==
    /\ at = "send" /\ Mode = "wait"
    /\ Leaves("target")
    /\ \/ Answered
       \/ Go("poll")
       \/ Stop("failed")
    /\ UNCHANGED <<cmd, fetched, stored, interrupted>>

Expired == poll.time >= PollTimeout

Poll ==
    /\ at = "poll"
    /\ IF interrupted THEN Stop("canceled") /\ UNCHANGED sent
       ELSE IF Expired THEN Stop("timed out") /\ UNCHANGED sent
       ELSE Go("polling") /\ sent' = sent \cup {"poll"}
    /\ UNCHANGED <<cmd, fetched, stored, interrupted>>

\* A poll is answered: the operation is done, it goes on, or the answer is an error or a
\* Location at another host.
PollAnswered ==
    /\ at = "polling"
    /\ \/ Answered /\ UNCHANGED poll
       \/ Go("backoff") /\ poll' = [poll EXCEPT !.due = poll.time + poll.backoff]
       \/ Stop("failed") /\ UNCHANGED poll
    /\ UNCHANGED <<cmd, page, response, sent, stored, interrupted>>

\* A timeout that is looked at only between polls.
PollCutByUser ==
    /\ at \in {"polling", "backoff"}
    /\ interrupted /\ Stop("canceled")
    /\ UNCHANGED <<cmd, fetched, sent, stored, interrupted>>

PollCut ==
    /\ at \in {"polling", "backoff"}
    /\ \/ interrupted /\ Stop("canceled")
       \/ ~interrupted /\ Expired /\ Stop("timed out")
    /\ UNCHANGED <<cmd, fetched, sent, stored, interrupted>>

Backoff ==
    /\ at = "backoff"
    /\ poll.time >= poll.due
    /\ Go("poll")
    /\ poll' = [poll EXCEPT !.backoff = IF 2 * @ > MaxBackoff THEN MaxBackoff ELSE 2 * @]
    /\ UNCHANGED <<cmd, page, response, sent, stored, interrupted>>

Tick ==
    /\ at \in {"polling", "backoff"} /\ ~Expired
    /\ poll' = [poll EXCEPT !.time = @ + 1]
    /\ UNCHANGED <<cmd, at, page, response, sent, disk, stored, interrupted, result>>

-----------------------------------------------------------------------------
(* Streamed responses.  They have no timeout: only what the service sends,  *)
(* or the user, ends them.                                                  *)

OpenStream ==
    /\ at = "send" /\ Mode = "collect"
    /\ Leaves("target")
    /\ Go("streaming")
    /\ UNCHANGED <<cmd, fetched, stored, interrupted>>

NDJSON == cmd.policy.strategy = "ndjson"

\* What has no event line is named by its payload, and is not named where that has no text.
Named(policy, e) ==
    \/ e.payload = NotJSON
    \/ e.event # ""
    \/ e.event = "" /\ policy.namePath = <<>> /\ e.name = ""
    \/ /\ e.event = "" /\ policy.namePath # <<>>
       /\ LET name == GetNested(e.payload, policy.namePath)
          IN name = Leaf(e.name) \/ (name.kind # "leaf" /\ e.name = "")

\* Lines of an event: of server-sent events its name, its data and an empty line, of NDJSON
\* its data.
LinesOf(e) == IF NDJSON THEN 1 ELSE Len(e.data) + 2

LineOf(e, k) ==
    [field |-> CASE NDJSON -> "data"
                 [] ~NDJSON /\ k = 1 -> "event"
                 [] ~NDJSON /\ k \in 2 .. Len(e.data) + 1 -> "data"
                 [] OTHER -> "blank",
     text |-> e.event,
     doc |-> IF NDJSON THEN e.data[1] ELSE IF k \in 2 .. Len(e.data) + 1 THEN e.data[k - 1] ELSE Absent]

\* What is collected after a line.
Taken(line) ==
    LET reader == response.reader
    IN IF NDJSON THEN Handle(cmd.policy, Flag("stream"), response.taken, "", <<line.doc>>)
       ELSE IF Completes(reader, line)
       THEN Handle(cmd.policy, Flag("stream"), response.taken, reader.event, reader.data)
       ELSE response.taken

\* A stream that is paused stores no context.
Proceed(state) ==
    CASE state = "on" -> Go("streaming")
      [] state = "failed" -> Stop("failed")
      [] state = "paused" -> Go("commit")
      [] OTHER -> Answered

\* The service writes a line of an event and the command reads it.
Transfer(e, k) ==
    LET line == LineOf(e, k)
        last == k = LinesOf(e)
    IN /\ response' = [events |-> IF last /\ e.data # <<>> THEN Append(response.events, e) ELSE response.events,
                       writing |-> IF last THEN NoEvent ELSE e,
                       line |-> IF last THEN 0 ELSE k,
                       end |-> "open",
                       reader |-> IF NDJSON THEN NothingRead ELSE ReadLine(response.reader, line),
                       taken |-> Taken(line)]
       /\ Proceed(Taken(line).state)

StreamLine ==
    /\ at = "streaming"
    /\ \/ /\ response.line = 0 /\ Len(response.events) < MaxEvents
          /\ \E e \in StreamEvents :
               /\ Named(cmd.policy, e) /\ (NDJSON => Len(e.data) = 1 /\ e.event = "")
               /\ Transfer(e, 1)
       \/ response.line # 0 /\ Transfer(response.writing, response.line + 1)
    /\ UNCHANGED <<cmd, page, poll, sent, stored, interrupted>>

\* The response ends or breaks, between lines or in one: what is left of a line of NDJSON
\* is taken for a line.  (A live output that cannot be written fails like a broken response.)
StreamEnds ==
    /\ at = "streaming"
    /\ \E end \in {"eof", "broken"}, cut \in {FALSE, NDJSON} :
         LET left == IF cut THEN Handle(cmd.policy, Flag("stream"), response.taken, "", <<Half("left", Absent)>>)
                     ELSE response.taken
             taken == AtEnd(cmd.policy, left, end)
         IN /\ response' = [response EXCEPT !.taken = taken, !.end = end]
            /\ Proceed(taken.state)
    /\ UNCHANGED <<cmd, page, poll, sent, stored, interrupted>>

CutStream ==
    /\ at = "streaming"
    /\ interrupted /\ Stop("canceled")
    /\ UNCHANGED <<cmd, fetched, sent, stored, interrupted>>

ReadFile ==
    /\ at = "send" /\ Mode = "file"
    /\ Leaves("target")
    /\ IF Flag("to-file")
       THEN /\ at' = IF cmd.setsContext THEN "persist" ELSE "commit"
            /\ disk' = [disk EXCEPT !.temp = "whole"]
            /\ UNCHANGED result
       ELSE Answered
    /\ UNCHANGED <<cmd, fetched, stored, interrupted>>

\* persistOperationContext, which may fail after the request took effect.
Persist ==
    /\ at = "persist"
    /\ \/ stored' = TRUE /\ Go("commit")
       \/ stored' = stored /\ Stop("failed")
    /\ UNCHANGED <<cmd, fetched, sent, interrupted>>

-----------------------------------------------------------------------------
(* binaryFile.commit: a link, or where the file system has none a rename to *)
(* a path found free; and the output of every other command.                *)

\* A commit that renames over whatever is at the path.
CommitByRename ==
    /\ at = "commit"
    /\ IF ~Flag("to-file") THEN Stop("ok")
       ELSE at' = "done" /\ result' = "ok" /\ disk' = [path |-> disk.temp, temp |-> "none"]
    /\ UNCHANGED <<cmd, fetched, sent, stored, interrupted>>

Commit ==
    /\ at = "commit"
    /\ \/ ~Flag("to-file") /\ Stop("ok")
       \/ Flag("to-file") /\ disk.path # "none" /\ Stop("not written")
       \/ Flag("to-file") /\ disk.path = "none" /\ cmd.links /\ at' = "unlink"
            /\ disk' = [disk EXCEPT !.path = disk.temp] /\ UNCHANGED result
       \/ Flag("to-file") /\ disk.path = "none" /\ ~cmd.links /\ Go("rename")
    /\ UNCHANGED <<cmd, fetched, sent, stored, interrupted>>

Unlink ==
    /\ at = "unlink"
    /\ Stop("ok")
    /\ UNCHANGED <<cmd, fetched, sent, stored, interrupted>>

Rename ==
    /\ at = "rename"
    /\ \/ at' = "done" /\ result' = "ok" /\ disk' = [path |-> disk.temp, temp |-> "none"]
       \/ Stop("not written")
    /\ UNCHANGED <<cmd, fetched, sent, stored, interrupted>>

-----------------------------------------------------------------------------
(* The user, the system and other processes                                 *)

Running == at \notin {"done", "killed"}

Interrupt ==
    /\ Running /\ ~interrupted
    /\ interrupted' = TRUE
    /\ UNCHANGED <<cmd, at, fetched, sent, disk, stored, result>>

Kill ==
    /\ Running
    /\ at' = "killed"
    /\ UNCHANGED <<cmd, fetched, sent, disk, stored, interrupted, result>>

OtherCreates ==
    /\ Running /\ Flag("to-file") /\ disk.path = "none"
    /\ disk' = [disk EXCEPT !.path = "other"]
    /\ UNCHANGED <<cmd, at, fetched, sent, stored, interrupted, result>>

Step ==
    \/ Check \/ CreateFile \/ Invoke
    \/ CheckSchema \/ FailedRequest("schema", "schema")
    \/ SendPlain \/ FetchPage \/ ReadFile \/ FailedRequest("send", "target")
    \/ OpenStream \/ StreamLine \/ StreamEnds \/ CutStream
    \/ Submit \/ Poll \/ PollAnswered \/ PollCut \/ Backoff
    \/ Persist \/ Commit \/ Unlink \/ Rename

Next == Step \/ Tick \/ Interrupt \/ Kill \/ OtherCreates

Spec == Init /\ [][Next]_vars

\* From its first request on the command goes on, time passes, and a request with a timeout
\* is answered or fails.  A poll need not be answered, and a streamed response need not end,
\* unless interrupted.
Fairness ==
    /\ WF_vars(Poll \/ PollCut \/ Backoff \/ Persist \/ Commit \/ Unlink \/ Rename)
    /\ WF_vars(Timed /\ (SendPlain \/ FetchPage \/ Submit \/ FailedRequest("send", "target")))
    /\ WF_vars(CheckSchema \/ FailedRequest("schema", "schema"))
    /\ WF_vars(interrupted /\ FailedRequest("send", "target"))
    /\ WF_vars(CutStream)
    /\ WF_vars(Tick)

FairSpec == Spec /\ Fairness

-----------------------------------------------------------------------------
(* Properties *)

TypeOK ==
    /\ page.count \in 0 .. MaxPages /\ page.next \in Nat \cup {End}
    /\ poll.time \in 0 .. PollTimeout /\ poll.backoff \in 1 .. MaxBackoff
    /\ sent \subseteq {"schema", "schema accepted", "schema refused", "target", "poll"}
    /\ disk.path \in {"none", "other", "part", "whole"} /\ disk.temp \in {"none", "part", "whole"}
    /\ <<stored, interrupted>> \in BOOLEAN \X BOOLEAN

Ended(how) == at = "done" /\ result = how

\* A command asks the service for something only after every check it can make before: a
\* usage error, a dry run and a login that does not satisfy the operation's security send
\* nothing, and a body goes out only after the schema the service has for it took it.
RequestsAllowed ==
    "target" \in sent =>
        /\ result \notin {"usage", "dry-run", "not authenticated"}
        /\ ~Usage /\ ~Flag("dry-run") /\ (cmd.public \/ cmd.login = "valid")
        /\ (cmd.schema /\ RequestBody(cmd.spec, cmd.input).kind # "none") => "schema accepted" \in sent

\* A JSON body that is sent holds what the user gave: every typed field, every variable
\* and every assignment unless one that goes later reaches into its place (--set-str goes
\* after --set, both after variables), and of the operation's template, with a file merged
\* into it, what no assignment reaches into.  (A file given with assignments to an operation
\* that has neither a template nor typed fields is left out of the body without a word.)
BodyHolds(spec, input) ==
    LET body == RequestBody(spec, input)
        prefix == IF spec.template = NoTemplate THEN <<>> ELSE spec.mergePath
        held(path, doc) == GetNested(body.doc, prefix \o path) = doc
        reached(list, from, path) == \E j \in from .. Len(list) : Overlap(list[j].path, path)
    IN body.kind = "json" =>
         /\ \A i \in DOMAIN input.setStr :
              \/ reached(input.setStr, i + 1, input.setStr[i].path)
              \/ held(input.setStr[i].path, Leaf(input.setStr[i].text))
         /\ \A i \in DOMAIN input.set :
              \/ reached(input.set, i + 1, input.set[i].path)
              \/ reached(input.setStr, 1, input.set[i].path)
              \/ held(input.set[i].path, InferValue(input.set[i].text))
         /\ \A i \in DOMAIN input.vars :
              \/ reached(input.vars, i + 1, input.vars[i].path)
              \/ reached(input.set, 1, input.vars[i].path)
              \/ reached(input.setStr, 1, input.vars[i].path)
              \/ held(input.vars[i].path, Leaf(input.vars[i].text))
         /\ \A name \in DOMAIN input.fields : held(<<Field(name)>>, input.fields[name])
         /\ spec.template # NoTemplate =>
              \A key \in DOMAIN spec.template.at \ {prefix[k].key : k \in DOMAIN prefix} :
                prefix = <<>> \/ Child(body.doc, Field(key)) = spec.template.at[key]
         /\ (input.file.kind = "object" /\ spec.template # NoTemplate) => \A key \in DOMAIN input.file.at :
              \/ reached(input.set, 1, <<Field(key)>>)
              \/ reached(input.setStr, 1, <<Field(key)>>)
              \/ reached(input.vars, 1, <<Field(key)>>)
              \/ held(<<Field(key)>>, input.file.at[key])

BodyHoldsInput == "target" \in sent => BodyHolds(cmd.spec, cmd.input)

\* A request that is sent says what the user, the contexts and the defaults say: each
\* value in its place, none lost on the way from the specification to the request, and no
\* placeholder of the path left open.
ParamsSent == "target" \in sent => Faithful(cmd.raws, cmd.open, cmd.given, cmd.contexts, HasBody)

\* --all that succeeds has every item from the first request's position on, each once and
\* in order, unless it fetched as many pages as it may; then it has all up to some item.
AllItems ==
    (Mode = "pages" /\ cmd.heeds /\ Ended("ok")) =>
        /\ page.got = After(cmd.start, Len(page.got))
        /\ page.count = MaxPages \/ cmd.start + Len(page.got) >= Items

\* The values of a list at the places of a set, in order.
Picked(list, places) ==
    LET picked[k \in 0 .. Len(list)] ==
            IF k = 0 THEN <<>> ELSE IF k \in places THEN Append(picked[k - 1], list[k]) ELSE picked[k - 1]
    IN picked[Len(list)]

\* The values that events have for a field, and what it collects of them.
ValuesFor(field, events) ==
    LET all == [i \in 1 .. Len(events) |-> FieldValue(field, events[i].payload)]
    IN Picked(all, {i \in 1 .. Len(events) : events[i].name \in field.events /\ all[i] # Absent})

Gathered(field, values) ==
    CASE values = <<>> -> Absent
      [] values # <<>> /\ field.reduce = "first" -> values[1]
      [] values # <<>> /\ field.reduce = "last" -> values[Len(values)]
      [] values # <<>> /\ field.reduce = "append" -> Array(values)
      [] OTHER -> Text([i \in 1 .. Len(values) |-> values[i].at])

\* The live output of events.
Shown(policy, events) ==
    LET all == [i \in 1 .. Len(events) |-> Value(events[i].payload, policy.liveFrom)]
    IN Picked(all, {i \in 1 .. Len(events) : events[i].name \in policy.liveEvents /\ all[i] # Absent})

\* Fields of which none is collected into what another collects, and places that no filling
\* up of an array makes.
Apart(fields) ==
    /\ \A j, k \in 1 .. Len(fields) : j # k => ~Overlap(fields[j].to, fields[k].to)
    /\ \A k \in 1 .. Len(fields) : fields[k].to[Len(fields[k].to)].index = NoIndex

\* A streamed command that succeeds has read every event the service wrote up to the first
\* that stops or pauses it, or up to the end of a response that needs none; none of them
\* reports an error, and the fields and the live output hold what these events say.
StreamWhole ==
    (Mode = "collect" /\ Ended("ok")) =>
        LET policy == cmd.policy
            events == response.events
            ends == {i \in 1 .. Len(events) : events[i].name \in policy.stops \cup policy.pauses}
        IN /\ ends = {Len(events)} \/ (ends = {} /\ response.end = "eof" /\ ~policy.requireStop)
           /\ \A i \in 1 .. Len(events) : events[i].payload # NotJSON /\ events[i].name \notin policy.errors
           /\ Apart(policy.fields) => \A k \in 1 .. Len(policy.fields) :
                GetNested(response.taken.doc, policy.fields[k].to) =
                  Gathered(policy.fields[k], ValuesFor(policy.fields[k], events))
           /\ response.taken.live = IF Flag("stream") THEN Shown(policy, events) ELSE <<>>

\* A downloaded file is at its path whole or not at all; only a command that says so put
\* it there, and a command that ends leaves no temporary file.
FilePublished ==
    /\ disk.path # "part"
    /\ (Ended("ok") /\ Flag("to-file")) => disk.path = "whole"
    /\ (at = "done" /\ result # "ok") => disk.path # "whole"
    /\ at = "done" => disk.temp = "none"

\* A download never replaces the file of another process, whenever that appears, on a
\* file system with hard links.
OthersFileKept == [][cmd.links /\ disk.path = "other" => disk'.path = "other"]_disk

\* A command that has come to its first request ends when its requests have a timeout, also
\* when a service answers 202 for ever or returns the same page each time; and every one
\* ends after an interrupt.
CommandEnds ==
    (at \notin {"start", "create", "invoke"} /\ (Timed \/ interrupted)) ~> ~Running
=============================================================================
