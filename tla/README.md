# TLA+ models of lathe

lathe (Go) generates command-line clients from API specifications. Its own code
falls in two halves: a code generator, run by a developer (`cmd/lathe`,
`internal/`), and a runtime library linked into every generated client (`pkg/`,
`internal/auth`). The generator is mostly a sequential translation of documents.
The runtime is where processes meet: every invocation of a client is a process of
its own, and they share one credentials file, one set of OAuth tokens and the
services they talk to. The models start there, and go on to the commands that talk to
no other process but can fail half-way: code generation, self update, project init.

## Inventory

| component (source) | state | operations | hard behaviour | what makes it correct |
|---|---|---|---|---|
| hosts file (`pkg/config/hosts.go`, `replace_unix.go`) | `hosts.yml`, its lock file, temporary files | `LoadHosts`, `MutateHosts` | several processes, kills, power loss, errors between rename and directory sync | updates are atomic, isolated and durable; readers never see part of a file |
| auth commands (`internal/auth`) | entries: credential, selection, contexts | login, logout, use, status, context set / unset | reads before the lock, used under it | selection and contexts change only by the command that means to |
| host resolution (`pkg/runtime/ctx.go`) | none (a function of the file) | flag, variable, selection, default, only host | the same question answered in two places | status and operations agree |
| OAuth refresh (`pkg/runtime/oauth.go`) | token pair in `hosts.yml`; the service's live tokens | refresh before a command, after a 401 | rotating refresh tokens, concurrent refreshes, logins meanwhile, lost answers | the stored pair is coherent and alive; a login wins; a command fails only when nothing could save it |
| HTTP client (`pkg/runtime/client.go`, `paginate.go`, `poll.go`) | options by value | one request, pages, polls, one resend | stale options on later pages, timeouts | a rejected request is resent once, with another token; loops end |
| Cloudflare Access (`pkg/runtime/cloudflare_access.go`) | one lookup per origin per command | token, round trip, redact | lookup shared by goroutines, cancellation, timeout | one lookup per origin, nobody waits for ever, the token goes to its origin only |
| retries, redirects (`retry.go`, `redirect.go`) | attempt counter, redirect chain | RoundTrip, redirectPolicy | bodies sent again, chains that leave the origin and return | bounded attempts; credentials never sent off the origin |
| device login (`internal/auth/login.go`, `oauth_device.go`, `validate.go`) | deadline, interval, the entry in hand | start, poll, validate, store | slow_down, expiry, late answers, interrupts | keeps the pace, ends by the deadline, stores only what was granted and validated |
| operations (`command.go`, `operation*.go`, `body.go`, `paginate.go`, `poll.go`) | flags, request, pages, polls | bind, check, send, page, poll, store a context | services that repeat cursors or accept for ever | what is sent is what was given; loops end with all items |
| workflows (`pkg/config/workflow.go`, `internal/lathecmd/workflow.go`, `pkg/runtime/workflow*.go`) | step results, contexts in `hosts.yml` | validate, evaluate, invoke | failure and pause in the middle, hosts changed between steps | no step runs after a failure; skipped steps are not read |
| streams (`stream.go`) | collected value | SSE, NDJSON events | end without terminal event, pause | an incomplete stream is not reported as complete |
| binary output (`binary_output.go`) | temporary file, target | create, commit, abort | a race for the target | never overwrites; leaves no partial target |
| self update (`pkg/lathe/update.go`) | the executable, temporary files | check, download, extract, replace | a release that changes, failures, kills | only a verified, complete executable is installed |
| spec sync (`internal/specsync`) | shared checkouts, sync directories, state files | sync, verify | concurrent syncs, kill in the middle, moved tags | a directory codegen accepts holds the pinned revision |
| generator driver (`internal/lathecmd`, `internal/codegen/app`) | generated tree | codegen | partial writes, what earlier runs left | a run that succeeds leaves one generation |
| names and flags (`internal/codegen/normalize`, `render/overlay*.go`, `paths.go`; `pkg/runtime/build.go`, `param_flags.go`) | none (functions of the sources) | normalise, override, validate, mount | the generator checks what the generated CLI does | what codegen accepts is not refused for a name, its rewriting of flags adds no clash, and required parts have flags |
| skill output (`render/skill.go`, `skill_include.go`) | the Skill's directory, its owner file | stage, clear, place | a foreign directory, a crash between removal and rename | nothing of the user's is replaced |
| project init (`internal/projectinit`) | temporary directory, target | clone, render, bootstrap, move | failure at each step, paths and links that lead out | the target appears complete or not at all |
| backends, texts and templates, most configuration, catalog, output | none over time | translations | none over time | functional correctness, for unit tests |

Interactions: every auth command and every operation reads `hosts.yml` with
`LoadHosts` and writes it only through `MutateHosts`; an operation refreshes its
token (a request, then `MutateHosts`) before and during its requests; requests go
through the Access and retry transports and the redirect policy; a workflow runs
operations in order and stores contexts like them; a login ends in one `MutateHosts`;
specsync writes what codegen reads, codegen what the generated CLI mounts at its start.

## Modules

| module | models | proved in |
|---|---|---|
| `HostRecords` | contents of `hosts.yml`, host resolution, what each command's closure does to the map | `HostStoreProof` |
| `HostStoreSpec` | abstract: commands take effect atomically and durably on one map | |
| `HostStore` | processes, lock, temporary file, fsync, rename, directory fsync, errors, kills, power loss | `HostStoreProof` |
| `TokenRefresh` | processes refreshing, using and replacing the token pair of one host, against a rotating service | `TokenRefreshProof` |
| `AccessCell` | abstract: one cell per origin, filled at most once, read by every request | |
| `AccessSession` | requests and lookup goroutines that share a Cloudflare Access session | `AccessSessionProof` |
| `RequestChain` | one API request: attempts, retries, redirects, the resend after a 401 | `RequestChainProof` |
| `SpecSync` | processes that sync, and generate from, one cache root | `SpecSyncProof` |
| `WorkflowSpecs` | what codegen accepts of a workflow, and expressions, as operators | |
| `Workflow` | a run of one workflow command beside other commands | `WorkflowProof` |
| `JsonPaths`, `RequestParams`, `RequestBody`, `StreamCollect` | paths into documents; parameters; bodies; what a line does to a stream's result | `OperationProof` |
| `OperationRun` | one operation command, from its flags to its output | `OperationProof` |
| `DeviceLogin` | `auth login`, with the service and the person | `CommandsProof` |
| `FlagNames` | flags of parameters and parts, and what the generated CLI asks of them | `CommandsProof` |
| `CommandFlags` | parameters of a command, multipart parts and body properties, and what codegen refuses of them | `CommandsProof` |
| `CommandTree` | command names, overlays | `CommandsProof` |
| `CommandPaths` | codegen's validation of command names, and the mounting of the generated CLI | `CommandsProof` |
| `SchemaWalks` | what is found in the schema of a body, through references and allOf | |
| `SkillFiles` | the files of a Skill and the include policy | |
| `CodegenRun` | codegen, run after run on one working tree | `CommandsProof` |
| `AcceptedCommands` | what the codegen of a run accepts, and what its generated CLI makes of it | `CommandsProof` |
| `SelfUpdate`, `ProjectInit` | the update command; lathe init | `CommandsProof` |
| `MCPublish` | `AcceptedCommands` with `SchemaWalks`, `SelfUpdate` and `ProjectInit` side by side | |
| `MCHostStore`, `MCTokenRefresh`, `MCRequestChain`, `MCSpecSync`, `MCWorkflow`, `MCOperation`, `MCDeviceLogin` | constants and symmetry for TLC | |

`HostStore` EXTENDS `HostRecords` and refines `HostStoreSpec` (`Atomic`).
`TokenRefresh` takes an update of `hosts.yml` as one step, which is what
`HostStore` is shown to implement; a failing `MutateHosts` there may have replaced
the file or not, as `Fail` after `Rename` does in `HostStore`. `AccessSession` refines `AccessCell` (`ImplementsCell`), and
`RequestChain` takes a token of the session as a capability of the request: that it is
the origin's own is what `AccessSession` shows. `TokenRefresh` has the exchange behind
the `Refresh` step of `RequestChain`. `OperationRun` takes a request of
`RequestChain` as one step with an answer or a failure, and `Workflow` an operation of
`OperationRun`. `CommandPaths` holds both sides of a promise: `GeneratedApp` is what
`internal/codegen` accepts, `Mount` what `pkg/runtime` does at each start of the CLI that was
generated. `CommandFlags`, `CommandTree` and `CommandPaths` extend each other in the order in which
codegen goes from an operation to its parameters, to a command of the source, to its place in the
CLI. Schemas are walked with RECURSIVE operators, which cannot be proved about, and what codegen does with what it finds
in a schema does not depend on how it is found: what `CommandFlags` asks of a schema are the constants
`Fields`, `ReadOnly`, `PartType`, `FilePart`, `RequiredNames`, `ObjectSchema` and `JSONFlagType`,
and the runs give them the walks of `SchemaWalks` as values. In the same way `CodegenRun`
EXTENDS `SkillFiles` and takes the application that a project compiles to as the constant
`Compiled`, in the runs `GeneratedApp`: what its steps do does not depend on how commands are
named. `AcceptedCommands` EXTENDS `CommandPaths` and `CodegenRun`. The sources a run reads are
`SpecSync`'s.

### HostStore

State: `file` is `hosts.yml` as processes read it, `synced` whether its data has
reached the disk, `disk` what a power loss leaves, `lock` the flock, and per process
`pc`, the command, `sight` (what it read before the lock), `draft` (the map it is
about to publish) and its temporary file. Commands are those that write: login,
logout, use, context set and unset, an operation that stores a context, and the
refresh of a token. An action is a step another process can come before:
`Resolve` and `Check` are the reads before the lock (`context set` has two),
`Acquire` the lock, `Apply` the load and the closure, then `WriteTemp`, `SyncTemp`,
`Rename`, `SyncDir`, `Release`. `GiveUp` and `Fail` are the error returns; `Kill`
drops the lock as the kernel does; `PowerLoss` restores `disk`.

A hostname is a number; the numbers are ordered as the names are. A credential is a
model value standing for type, tokens and connection choices, the Access choice
apart because a login copies it from an early read. Temporary files orphaned by a
kill are not counted: no process reads them.

### TokenRefresh

State: `store`, the entry of one host; the service's `live` refresh tokens and
`valid` access tokens; `fresh`, tokens whose stored expiry is not within the 60 s
skew; and per process the entry behind its requests (`auth`), the one being
refreshed (`held`), whether a 401 started the refresh (`after`), and the reply.
`Load` is `hostOptions`; `Granted`, `Refused` and `Lost` the exchange; `Recheck`,
`Store` and `StoreFails` the three ends of `refreshHostAuth`; `Request`, `Reload` and
`Resend` the 401 branch of `doRawFullConsume`. Options are passed by value, so every
page or poll starts from `auth` again. The n-th token issued is the number n and a
refresh token has the number of the access token it came with; `mate` and `family`
record, for the properties, which refresh token goes with an access token and which
login it descends from. Two things are simpler than the world: every login brings
tokens not seen before, and a service that revokes a whole family when an old
refresh token is reused is not modelled.

### AccessSession

A command that enables Cloudflare Access shares one `accessSession` among its
requests. State: `lookups`, the map under the mutex; per origin the goroutine that
reads the token (`reader`, `found`, and `parents`, the requests whose cancellation
reaches it); per request its place (`pc`), its context (`done`), what `token`
returned (`answer`), and the tokens left in an error body (`shown`). `Enter` is the
check of the context and the get-or-create under the mutex, `Start` the `go`
statement that comes after it, `Read` and `Publish` the goroutine, `Wake` the
`select` (both channels may be ready, and Go picks either), `Check` what follows it,
`Send` the round trip and `Redact` the error path. `Cancel` is a request's context and
`Tick` the clock, which may pass a token's expiry between any two steps. A token is
known by its origin and the run of `cloudflared` that printed it; parsing it, and
parsing an origin, are left out. `AccessCell` is what `docs/architecture.md:150`
promises: a cell per origin, filled once, and a caller that gives up gives up alone.

### RequestChain

One call of `doRawFullConsume`. `opts` is the request and its `ClientOptions`, `req` the
request at hand with its headers and the state of its body, `requests` and `via` the
chain behind it, `attempt` the retry loop, `resp` the answer. `Build` is `newRequest`,
`Answered` and `Unanswered` one attempt through `accessTransport`, `Retry` and `Backoff`
the loop of `retryTransport`, `Redirect` and `RedirectRefused` `redirectPolicy`, `Receive`
`doRawFullOnce` after the client, `Refresh` the 401 branch. The service answers anything:
302 stands for 301, 302 and 303, 307 for 308 too, 503 for the statuses that are retried
and 404 for the other errors. `http.Client.Do` is external: a redirect starts from the
first request's headers, some of which it leaves off, with a Referer; a 302 turns
the method to GET and loses the body for the rest of the chain, and a 307 replays the
body. Variables from `open` on are history: they count to one past what a property
allows.

### SpecSync

Runs of `lathe specsync`, `codegen` and `bootstrap` share a cache root. State: `remote`,
the revision of each ref upstream; `checkout`, the published clones under `specs-work`; `files`
and `state`, the sync directory of each source and its `sync-state.yaml`; and per process
`pc`, its configuration (each command reads `sources.yaml` once), the source at hand, the
`checkouts` map (`known`) and its other variables. `RemoveEntry` is one entry of the
`RemoveAll`, `Cleared` the lookup in the map after it; `Look`, `Clone`, `Publish` and
`Compare` are `ensureRepo`; `Create` and `Write` a file copied, `Record` and `Save` the
state file created and written; `Verify`, `Load` and `Parse` codegen's reading, `Advance`
the loops of both. `Stop` ends a process anywhere, for an error or a kill; `MoveTag` is
upstream. `ever` and `during` remember what a ref has been, `disturbed` that a directory
has been used by a sync and another command at once.

A file is the revision it was copied from, or `Torn` while it is written. The copy of a
file is one step after its creation. `sources.yaml` may be edited between commands, not
between the two readings of a bootstrap. A ref is a repository and a tag, or a commit id
(`FixedRefs`); `Address` is `PublicRepoURL`, which is empty for a path. A source
keeps its backend and its list of files, so the name and the backend in the state file are
left out; so are proto sources, which add staging and `protoc`.

### Workflow and WorkflowSpecs

An expression is a sequence of parts: texts and references. `NormalizeWorkflow` is
`pkg/config`, `Resolve` and `RefsKnown` are codegen's checks, `EvalValue` is
`evalWorkflowString`. `Workflow` starts with a command codegen has accepted. State: `inputs`,
`hosts` (`hosts.yml`: the selected host and each host's stored context), the `step` at hand,
`seen` (values of steps, and skipped ones), `summary`. `Evaluate` is the conditions and the
input of a step, in any order of its parameters since the code ranges over a map;
`ResolveContextHost`, `ReadContext` and `Authorize` each read `hosts.yml` again; `Invoke` is
the request, `Persist` its context stored. `Edit` is another command of the CLI, which may
come before each of these.

### OperationRun and what it is built from

`RequestParams` follows a parameter from the specification to its flag's Go type (`GoType`, with the
types that only variables have), its values from flags, arguments, environment, standard input,
contexts and defaults, and its place in the request. A flag takes the texts of its type (`Takes`) and
keeps what they mean (`ReadAs`: `0x7` is sent as `7`, `1` as `true`); a default goes through the
conversion of its flag (`DefaultText`), which turns what it cannot read into zero. A required
variable is not asked for where the operation has a body (`RequiredFlagParam`).
`ParamsSent` compares the request with the specification's own types: what the user gave a parameter,
or else its context, or else its default stands in its place and means the same, nothing else is in the
request, and no placeholder is open. It leaves out empty lists, defaults of lists (flags of lists have
none in the code) and defaults that are no text of their type. `RequestBody` builds a body out of a file, `--set` and `--set-str`, typed fields,
variables and the operation's template; `JsonPaths` has `getNested` and `setNested`, `Found` and
`Made` segment by segment as the code recurses. `StreamCollect` is what one line of a response does
to what has been read of its event, and an event to the result under a policy.
`OperationRun` runs one command: `Check` is `RunE` up to its errors,
`CreateFile` the temporary file, `Invoke` and `CheckSchema` what comes before the request, then
one of `SendPlain`, `FetchPage`, `Submit` and `Poll`, `ReadFile`, or `OpenStream` and
`StreamLine`, in which the service writes one line of an event and the command reads it, until an
event ends the stream or `StreamEnds` or `CutStream` does. `Persist` stores the context, `Commit`, `Unlink` and `Rename` publish the file. `Interrupt`, `Kill` and
`OtherCreates` come at any time. A document is a leaf, an object or an array; a file system
with or without hard links is part of the command.

### DeviceLogin

State: the place of the command (`at`), the clock and what it waits for (`now`, `due`), the
login's interval and deadline, the entry in hand, the service's `reply`, the device's `grant`, and
what was `stored`. Time counts in units of five seconds. The service answers a poll with pending,
`slow_down`, a token, an error, garbage or nothing; the person approves or denies at any time.
`pace` remembers what the service asked for, `accepted` what it answered to the validation.
Numbers of the token response are written as `fmt.Sprint` writes a float64.

### FlagNames, CommandFlags, CommandTree, CommandPaths, SchemaWalks

A name, like a flag, is a sequence of words, each with what joins it to the word before it (a dash,
an underscore, a dot, or only its capital): what the rewriting of names tells apart. `OwnFlag` is the
flag a parameter has by its name: `Kebab`, and for a GraphQL variable `VariableFlagName`, in which
dots become dashes too.
`CommandParams` is `Normalize` for parameters (their own flags, prefixes and numbers for cookies and
multipart parts, dashes with the old flag as an alias), `MultipartBodyParams` and
`ValidateMultipartBody` the two sides of a multipart body, `ExpandJSONBodyFlags` the typed
flags of a body, `FlagTypeOf` their types (`TextOrNumber` is the `anyOf` that has one). In `SchemaWalks` `ObjectFields` finds the properties that become parts and `RequiredIn`
the names that the validation requires: two walks over one schema that differ in what they
do with siblings of a reference and with read-only properties. `Normalize`, `MergeOverlay` and `ValidateOverlay` give the commands of a source;
`SourceHolds`, `WorkflowRoots` and `ValidateApp` are the refusals of `buildGeneratedApp` and
`App.Validate`. `Mount` is `Build`, `BuildFlat`, `BuildWorkflows` and the panics of
cobra and pflag, in their order, with the names at the root so far (`RootsWith`). A path is a
sequence of segments, a schema a record of its keywords. The values that a shortcut gives parameters
are left out, but for the types that take none (`ShortcutTypeFits`).

### CodegenRun, SelfUpdate, ProjectInit

A generated file is known by the run that wrote it; `Torn` is one a failure left half-way.
`Compile` is everything before `App.Write`, which then goes in its order: `WriteModule` once
per source, `WriteWorkflows`, `WriteMain` (`modules_gen.go`), `StageSkill`, `ClearSkill` (the
`RemoveAll`, one file after another in any order), `PlaceSkill`, `WriteBundle`, `Tidy`. `WriteFails`
is a failing write, `Crash` a kill, at each of them; the next run may find another project.
`SelfUpdate` is `runGitHubUpdate`: an archive stands for its bytes, and the service may put
others in their place between `FetchRelease` and `Download`. `ProjectInit` follows a starter's
files through `Clone`, `Strip`, the loops of `renderTemplate` (`ReplaceWord`, `RenamePath` and
`RemoveGenerated`, a file or a path at a time, and `EndLoop`), `WriteLicense`, `Bootstrap`,
`CleanUp` and `RemoveManifest`, `GitInit` and `Move`; `item` and `nth` are the places in the lists
of the manifest, and `Refuse` is an error in any of these steps, which removes the temporary
directory; a file is what
it came from and the words of the starter still in it; `outside` collects what a path or a
link reached outside the temporary directory; `Take` is another process at the target,
which makes `Move` fail.

## Runs

| run | bounds | states | shows |
|---|---|---|---|
| `host_store` | 2 processes, 2 hosts, 2 commands of 9, 2 crashes, 3 initial files | 0.2 M | `AtMostOneSelected`, `ContextsSurvive`; `Atomic`: `HostStore` implements `HostStoreSpec`, so no reader and no power loss meets part of a file or loses a command that reported success; `CommandsEnd` |
| `host_status` | 1 process, 1 command | | finding: `ReportedHostIsUsed` is violated |
| `token_refresh` | 2 processes, 2 requests each, 3 tokens, 2 logins, 1 fault | 4.8 M | `PairCoherent`, `ResendsAnotherToken`, `RefreshRescues`, `LoginWins` |
| `access_session` | 2 requests, 2 origins, 3 calls, clock to 2 | 0.25 M | `NothingShown`; `ImplementsCell`: `AccessSession` implements `AccessCell`; `CallsEnd` |
| `request_chain` | 2 hosts, 2 ports, chains of 3 requests, 1 retry | 3.7 M | `HeadersScoped`, `BodyWhole`, `ActedOnce`, `AttemptsBounded` |
| `spec_sync` | 2 processes, 2 commands, 1 stop, 1 moved tag; 2 sources of one repository, or one local, a file each | 2.7 M | `ProvenanceTrue`, `MovedTagRefused`, `CheckoutFixed` |
| `workflow` | 3 steps of 210 combinations and malformed ones; 2 hosts; 1 change of `hosts.yml` | 0.18 M | `FailFast`, `ReferencesKnown`, `ReadsRan`, `ContextsFollowSuccess` |
| `workflow_skips` | the same | | finding: `SkipSpreads` is violated |
| `operation` | 7753 commands; 4 items in pages of 2, 3 pages at most; a poll timeout of 6 units, backoff to 2; streams of 3 of 15 events, in 1 to 4 lines each, cut off anywhere | 0.14 M | `RequestsAllowed`, `BodyHoldsInput`, `ParamsSent`, `AllItems`, `StreamWhole`, `FilePublished`, `OthersFileKept`, `CommandEnds` |
| `device_login` | 47 invocations; codes of 1, 4 and 6 units; the clock to 16 | 0.65 M | `StoresWhatWasGranted`, `PacedPolls`, `LoginEnds` |
| `publish` | 2278 projects, 2 runs, 1 fault; 30 releases of 4 archives; 14 starters | 0.13 M | `SuccessIsWhole`, `AcceptedMounts`, `RequiredPartsSettable`, `FlagsAddNoClash`, `ForeignKept`, `UpdateWhole`, `InitWhole` |
| `publish_refusal` | the same | | finding: `RefusalWritesNothing` is violated |

Two processes and two commands let each step of one command come between any two of the
other, and the initial files are what an earlier command could have left; two crashes hit
a command and the recovery from it. Two hosts are what selection and resolution tell apart
(none, one, several). Three tokens are the first login, a refresh, and a second refresh or
login racing it. The service answers with an error when `MaxTokens` is reached;
`RefreshRescues` excuses that case by name. The service of the run always rotates the refresh
token; services that rotate at some exchanges only are left to the proofs. Two requests share a
lookup, and the third call finds an old one; two clock ticks let a token expire before and
after it is used. The code allows chains of 10 requests
and 3 retries: three requests let a chain leave its origin and come back, and one
retry meets every branch of the loop. The safety properties of all
components are proved for every bound
(`RefreshRescues` for a uniform service, see Proofs).

In `spec_sync` two sources share an entry of the `checkouts` map and two processes a clone,
the tag moves between any two of their steps, and one of them is killed; a codegen reads what
that left. Files of more than one name (a kill between two copies), three commands in a row and
an edited `sources.yaml` are covered by the proofs, which hold for every bound.

In `workflow` the first step can be skipped or fail, the second read it, and the third read
the second: a skip has to spread over two references. In `operation` the last page may be full,
short or missing and the third page is the limit; the poll timeout is more than three waits at the
longest backoff. Two assignments and a file or a template are the least that disagree about a
place of the body, and two arguments or two ways to give a parameter about its value. Three events
are two that a field combines and the one that ends the stream, or comes after it. In
`device_login` a code outlives several `slow_down`s or lapses before the first poll. In `publish`
up to four operations of one source have, or are given, clashing names, three parameters
clash in flags, and two sources and a workflow in roots; the second run finds all that a first one,
or a fault in it, can leave.

Fairness: weak fairness of the steps of a running process (`Progress`), and of the refusal of a
closure, because the operating system schedules runnable processes and every request has a timeout.
Logins, logouts, expiry, kills and faults are never fair. In `AccessSession` goroutines are
scheduled, and `cloudflared` is killed after 8 s and its pipes are closed one second later
(`WaitDelay`), so a lookup ends. In `OperationRun` the client's timeout bounds every wait of a
request that does not stream (`Timed`); a stream and a binary response have none
(`client.go:60-64`), so `CommandEnds` asks for an interrupt there. In `DeviceLogin` the process
runs, its timers fire and the clock advances; the service and the person owe nothing, and prompts
may never be answered, so `LoginEnds` begins when the device login does. The end of a request chain
and of a refresh is not run as liveness: `AttemptsBounded` bounds the attempts, and each is bounded
in time. The commands of `publish` wait for `git`, `go` and the network, without a timeout of their
own. `SpecSync` claims no liveness: git runs without a timeout. `TryLockContext` polls without a
queue, so a waiting command could lose the race for the lock for ever if new commands kept coming:
the bound `MaxCommands` stands for finitely many commands.

All runs allow deadlock: the system stops when its bounds are used up.

### Findings

`auth status` resolves the host without the default hostname compiled into the
operations, so it can report a host (source `unique`) that the next operation does
not use, although the generated skill tells callers to read the host there. See
`findings` in `PROJECT.json`; run `host_status`.

A workflow step evaluates its parameters in the random order of a map and returns the first
error, so a step that reads a skipped step fails instead of being skipped when another
parameter cannot be evaluated and comes first; run `workflow_skips`.

codegen refuses an include directory, its actions, or a foreign Skill directory, after it has
written the modules and `modules_gen.go`, although `app.go` promises that a failing input leaves no
generated output; run `publish_refusal`.

### Seen while modelling

The stored refresh token stays alive if the service rotates refresh tokens always or never. Against one
that rotates at some exchanges only, process A stores a grant that kept the refresh
token, process B's concurrent grant rotated it and is discarded because the stored
access token has changed: the stored refresh token is dead and the user has to log in.

`ActedOnce` names an exception. A POST that the service takes and answers with a 302
or 303 becomes a GET; if the page it leads to answers 401, `RefreshAuth` runs and the
call starts again at the POST. A 401 from the target of a redirect to another origin,
which never saw the credentials, starts the refresh too.

`PinGenerated` (`SpecSyncProof`) names another. A state file synced from a repository in the filesystem has no
`repo_url`, and `VerifyState` accepts it for any repository with the same tag.
`ProvenanceTrue`, `PinGenerated` and `BootstrapAccepted` leave out directories that a sync
and another command have used at once (`disturbed`): the checkouts are protected against
that, the directories are not. Codegen may then read files of two revisions, or a state
other than the one it has verified, since `VerifyState` and `LoadState` read the file
separately. No step of a sync is flushed to the disk, so power loss is not modelled there.

Also seen, and left as the models have it:

- Device login: the token response is decoded into float64 and written with `fmt.Sprint`
  (`oauth_device.go:219-257`), so an `expires_in` of 1000000 or more fails a granted login and a
  context value as large is stored as `1e+06`; `validate.go` decodes with `UseNumber`. An
  approval that comes while the client sleeps over its deadline is missed.
- Operations: the default of an integer in a JSON document is written with `fmt.Sprint` of a float64
  (`document/values.go:15-19`), so 1000000 becomes `1e+06`, which `ParseInt` refuses; the error is dropped
  and 0 is sent (`param_flags.go:21`). The default of a list is not sent at all. `maxPages` cuts `--all` without a word, and a page whose items cannot be found ends it;
  a `--file` is dropped when there are assignments but neither a template nor typed fields; a
  context is stored on a 202, and before a download is committed; `-` for two multipart parts reads
  standard input twice; `a[-1]` is a field name; polls of a POST are not retried.
- Streams: collected values are kept by reference and the overlay validation does not ask that fields'
  places lie apart: where one lies in what another collects, a later event changes a value the other has
  kept (`stream.go:40`); the proof of `StreamWhole` is about places apart (`Apart`).
- Workflows: the host is resolved again for every step; `${input.x}-{y}` is misread (`WellRead`).
- Names: codegen accepts two equal flags of one command when both parameters have the flag by their
  names, and the generated CLI then fails every start (`body_flags.go:131`, `build.go:77`). The names may
  differ: a GraphQL field with an input object `filter {name}` and an argument `filterName` has the
  variables `filter.name` and `filterName`, both `--filter-name` (`params.go:65`). `FlagsAddNoClash` says
  that the prefixes, numbers, dashes and aliases add no clash to these; `AcceptedMounts` is about the
  names of commands, and a CLI that fails for its flags may do so before it comes to a name. In namespaced mode a second group that differs in case only cannot be
  reached.
- Multipart: keywords beside a `$ref` are dropped, so a `required` there is neither checked nor sent.
- Skill: a crash while the old directory is removed can lose the owner file, and later runs
  refuse the directory; workflows are removed before `modules_gen.go` stops mounting them; Go files
  are not written atomically.
- Update: suffixes are compared as strings (`rc.10` is before `rc.9`); a symbolic link in a zip
  is taken for a binary, in a tar archive it is not; the copy is not synced before the rename.

## Proofs

`HostStoreProof` proves, for any processes, hosts, credentials, contexts, commands
and bounds that meet the named assumptions of `HostRecords` and `HostStore`:

| theorem | property |
|---|---|
| `TypeCorrect` | `[]TypeOK` |
| `NoLostUpdate` | `[]DraftIsCurrent` |
| `SingleSelection` | `[]AtMostOneSelected` |
| `ImplementsAtomicStore` | `Spec => Atomic` |
| `RefreshIsCompareAndSwap`, `SelectionIsKept`, `ContextsAreKept` | the action properties |

The inductive invariant `IInv` adds to the three invariants: a process past
`Acquire` holds the lock (`LockHeld`); the published file's data is on the disk, and a
temporary file about to be renamed has been synced (`Flushed`); a command past
`Resolve` has its host (`HostResolved`); and a closure that ran had accepted the file
(`DraftAccepted`). `LockHeld` makes the file stable between `Apply` and `Rename`,
which is what `DraftIsCurrent` rests on; `Flushed` keeps `Torn` out of `disk`;
`AtMostOneSelected` follows because every closure keeps a map with at most one
selection (`MutateOne`) and `DraftIsCurrent` says the rename publishes such a map.
The assumption that matters is that no initial map selects two hosts: a file edited
by hand may, and `Hosts.Selected` then takes the first name.

`TokenRefreshProof` proves `[]TypeOK`, `[]PairCoherent`, `LoginWins`,
`[]SendsStoredTokens` and `[]ResendsAnotherToken` for any processes and bounds and for
every kind of rotation. Its invariant: every entry in the store or in a process's hands
was issued and has the refresh token of its access token (`EntriesSound`, `Issued`); a
grant under way is newer than every entry (`GrantsNew`), so storing one never makes an
older pair look unchanged; and the entries of a process between a request and its
resend are the ones it read (`Refreshing`, `Requesting`).

`AccessSessionProof` proves `[]TypeOK`, `[]OneRun`, `[]OwnCancellation`, `[]NothingShown` and that
`Spec` implements `AccessCell`.
The invariant says where a lookup can be (`LookupSound`: missing, being created by
exactly one request, read, or published), that a published result is its origin's
token or an error that no context caused (`ResultSound`), that requests hold what the
lookup says (`RequestSound`), and that two requests never create one lookup
(`OneCreator`), which is what the mutex buys.

`RequestChainProof` proves every invariant of the run and `[]TokenStaysHome`,
`[]ResponsesClosed` and `[]NoPageAsData`. `via` holds every origin the
chain has been to (`Trail`), so once away the headers are scoped for the rest of it
(`AwayScoped`); bodies are closed at each step (`Closed`); the HTML flag covers every
redirect of a guarded call (`Flagged`); an unsafe request that a service may have acted
on is not at hand any more unless the call was restarted (`Acting`); and the attempts of
a call are counted by its rounds, chain and retries (`Counting`), a product bounded in
the lemmas `RoundCount` and `EarlierCount`.

`SpecSyncProof` proves every property of its run and `[]PinGenerated`,
`[]BootstrapAccepted` and `[]RecordsCheckout`. The heart of the invariant is what one
process may rely on in the directory it works in: `Writes` (how far a sync has cleared and
filled it, and that the state file is gone until all files are there), `Reads` (what codegen
has accepted and read is what is still there) and `Leaves` (sources a bootstrap has finished
are acceptable). `Knows` ties a process's `checkouts` map and clone to what the ref was while
it ran. `Alone` says an undisturbed directory has one user or readers only, so `OthersKept`
shows once, for every action that is `Neutral`, that other processes keep what they rely on.
`SpecsHeld` and `StatesWritten` carry a directory from one command to the next. That
addresses tell repositories apart (`SpecSyncAssumption`) is needed for `PinsKept`:
repositories that differ in credentials alone count as one.

`RefreshSuffices` (`TokenRefreshProof`) proves `[]RefreshRescues` for services that rotate the
refresh token always or never: its hypothesis is `Rotations # BOOLEAN`, and without it the
property is false (the case of two grants under "Seen while modelling" has no fault in it). Such a
service gives every access token its own refresh token or none (`RotatedMates`). Until the first
fault, `Calm` holds: the stored refresh token is alive unless its replacement is in the hands of a
process that will store it (`StoredLives`), the refresh token of a grant that is not stored yet has
not been used up (`GrantsLive`), no answer is unreadable (`NoneGarbled`), and a process that nothing
excuses has an entry that can be refreshed, as the stored one can, is refused only for a token that has
been used up, and has not failed (`Unexcused`). After a fault nothing is claimed, as in the property.

`WorkflowProof` proves every property of its run, for any commands codegen accepts. Its invariant
ties the step at hand to what has been reported: one entry per step behind it, all `ok` or
`skipped` but perhaps the last (`Position`, `Listed`); the values are those of the steps reported
`ok`, and the skipped ones are the others (`Remembered`); a step past its evaluation reads steps
with a value (`Ready`); and a request was made for a step at or behind the one at hand, never for
one that is skipped (`Requested`). `Compiled` is what codegen has checked of the command, from which
`ReferencesKnown` follows: the failures of an evaluation are the three in `Reasons`, and an unknown
step is none of them. What an evaluation returns is "the first part that fails": that a first one
exists is the lemma `Least`, by well-founded induction on the positions of a list.

`OperationProof` proves every safety property of its run: `TypeOK`, `RequestsAllowed`,
`BodyHoldsInput`, `ParamsSent`, `AllItems`, `StreamWhole`, `FilePublished` and `OthersFileKept`. The
invariant says what each place of the command rests on (`Requests`: no usage error, login or schema
check is still to come once the target has been asked), that the pages so far are the items before the
position asked for next and nothing is missing when the loop has ended (`PagesSoFar`), and where
the temporary and the target file are whole (`Files`). `ParamsSent` holds by the section on
parameters: a text that a flag takes means the same after it has been read (`ReadMeansSame`, by
type), and so does a default of its type (`DefaultKept`); no required parameter is without a value where
the binding succeeds (`BindSucceeds`); and each value bound is placed whole (`PlacedWhole`), so what
was said is sent (`SaidIsSent`).

`BodiesHoldInput` is about operators alone, and rests on what `JsonPaths` promises:

| lemma | says |
|---|---|
| `SetThenGet` | a path that does not conflict holds the value after `SetNested` |
| `SetKeepsOthers` | and every path that does not overlap it holds what it held |
| `PresentNoConflict` | a path that leads to something does not conflict |
| `AssignmentHeld` | after a list of assignments, one that no later one reaches into is held |
| `BodyHolding` | the same of a whole body: the document it starts from, variables, `--set`, `--set-str` |

A path is read from its first segment and written from its last, so the first two go by positions:
the objects along a path before and after an assignment agree off the path and lead to the new value
on it. What recursive functions compute is had by `Climb`: a set of positions that has 0 and with
each position the next has them all, by the well-founded order of the naturals. The induction is
over positions, a set, where an induction over documents would need an operator as its parameter.

For `StreamsAreWhole` the invariant has `Streams`. The event being written and the lines read of it
agree (`UnderWay`), so when a line completes it the collector has its name and its data, in one line or
two; what is collected is what the events so far say (`WholeStream`), field by field; and the state of
the collector follows from the last event (`Reading`), so nothing is read after an event that ends
the stream. `HandleHeard` follows one event through the loop over the fields, where
`GatheredNext` and `ReduceHolds` say that a field then has what it gathers of one value more and
that the others stay as they are, by `SetThenGet` and `SetKeepsOthers`. That needs `Apart`: no field is
collected into what another one collects. The overlay validation does not ask for it, and for
such a policy the property claims the order and the end of the events only.

`CommandsProof` has four commands of one process each, a section for each.

| theorem | property | the invariant behind it |
|---|---|---|
| `TypeCorrect`, `OnlyGrantedStored`, `PaceKept` | `[]TypeOK`, `[]StoresWhatWasGranted`, `PacedPolls` of `DeviceLogin` | the client's interval keeps up with the one the service asked for, and no timer ends before the next poll is due (`Paced`); a credential in hand is the used grant's or the user's (`Sourced`); what is about to be stored has passed the validation the manifest asks for (`Vetted`); nothing is stored before the end (`Unended`) |
| `VerifiedUpdates` | `[]UpdateWhole` of `SelfUpdate` | the archive to extract has the digest of the asset and the binary to install is the first in it (`InHand`); the executable and the temporary files follow from the phase (`OnDisk`) |
| `RunsAreWhole`, `ForeignSkillsKept` | `[]SuccessIsWhole`, `ForeignKept` of `CodegenRun` | what the run has compiled is what it writes (`Read`); modules, workflows and `modules_gen.go` are of this run once their place is passed (`CodeWritten`), and so are the Skill and its bundle, and a directory is cleared only if it is owned (`SkillWritten`) |
| `AcceptedCommandsMount`, `FlagsStayApart`, `RequiredPartsHaveFlags` | `[]AcceptedMounts`, `[]FlagsAddNoClash`, `[]RequiredPartsSettable` of `AcceptedCommands` | the same `Read`; the rest is about operators, below |
| `ProjectsAreWhole` | `[]InitWhole` of `ProjectInit` | how much of the starter's words, generated paths and cleanup paths is gone at each place of each loop (`Tree`, `Places`, `WordsGone`, `GoneUpTo`); that nothing outside the temporary directory changes and the target appears at the last step (`Outward`) |

In `RunsAreWhole` the hard part is what an earlier run left: a module that an earlier project
had and a module a failure tore are both still there when the next run starts, so each conjunct of
`CodeWritten` speaks of the sources written so far in this run. In `ProjectsAreWhole` it is that a later loop
keeps what an earlier one achieved: a rename moves files whose words are gone and can replace
others, the license is written after the generated paths are removed and may be one of them, and
the bootstrap brings files of its own.

`AcceptedCommandsMount` compares two validations written apart, in `internal/codegen` and in
`pkg/runtime`, and goes by modules in their order. `ModuleMounts` takes the roots at the time the k-th
module is mounted: the commands of the CLI itself, which are reserved (`OwnReserved`), and
what the modules before it have put there. A module that is flat is the only one
(`FlatAlone`), so no other module is before it, and its groups are no two of one name and none of
them reserved. One that is not is compared with the names of all modules and the shortcuts of
those before it; its own shortcuts have been compared with the same names (`ShortcutsApart`).
Codegen compares the names of modules and workflows in lower case and the runtime as they are written,
so names that codegen tells apart differ there too. `WorkflowsMount` does the same for workflows, and
`AcceptedAppMounts` puts them together: the first failure of `Mount` would be one of these.

`FlagsStayApart` follows a parameter through three renamings. `FreeIsFree` says that the loop over
candidates finds a flag that is not taken: the numbered flags differ (`NumberedDiffer`), so by the pigeonhole
principle one of more numerals than there are flags is free. `GivenFlagsAre` unfolds the
recursion over the parameters by `Climb`, and `GivenFlagsDiffer` says that one that gives way
ends with a flag of its own. `NormalizedApart` goes back through the dashes: a parameter whose
dashed flag would meet another's keeps its flag, so whoever meets another after them met it
before them. `CommandFlagsApart` is these in turn: neither is a part, neither is a cookie, and
their flags are those they have by their names, which the theorem does not claim to differ.

`RequiredPartsHaveFlags` follows a part of a body from its schema into the application. `PartsShaped` says
that each property a flag can carry becomes a parameter (`ListedWhole`: a finite set, listed, leaves none
out), `CommandParamsKeep` that telling the flags apart loses none, and `MergedCommand` that
an overlay keeps them: only an override with typed body flags adds parameters, and
`ValidateOverlay` has refused those where the body is not JSON. `AcceptedBodies` then
compares the two sides: a required part that has no parameter is one that no flag can carry,
and the validation has refused its command. The theorem holds for any two walks over the schema, so
what it says of a name is limited to names both walks find; what each walk finds is `SchemaWalks`.

### Assumptions on the constants

TLC evaluates each in the run of its module. They say what kind of data the constants are, and what an
earlier part of the code has made sure of:

- `WorkflowAssumption`: steps, conditions, assignments and expressions are lists, as Go's slices are;
  the markers for "no host", "unset" and "no answer" are none of the values they stand apart from,
  as the zero values the code tests for.
- `OperationAssumption`: bounds are positive, and a command is `WellFormed`: it has flags that `Build`
  mounts for its kind, only a parameter whose flag is a list is given more than one text (of another
  flag pflag keeps the last), variables come with a template, as the GraphQL backend makes them, only
  strings are bound to contexts (`validateCommandContexts`), and every placeholder of the path has a path parameter, as the specification formats
  ask of a document; lathe takes that for granted. A template is a JSON object and has no typed
  fields beside it, as the generator makes them, and the keys of documents are strings
  (`WellFormedBody`); a policy is what `validateStreamingOverride` takes (`IsPolicy`). An event has its
  payload in one data line or in two (`IsEvent`), and a service that names events by their payload
  names them so (`Named`).
- `DeviceLoginAssumption`: times are natural numbers; `startOAuthDevice` puts the default in place of
  an interval or a lifetime that is not positive.
- `SelfUpdateAssumption`: an archive's members are a list; an asset that is not an archive is the binary
  itself, so its first member has the name looked for; the release does not hold the very binary that
  runs, which would make a replacement invisible.
- `CodegenAssumption`: a project that is accepted has one module per source, which `app.Compile` makes;
  and the projects reachable by edits from one of `Projects` stay within its edits.
- `NumeralsAssumption`, `LowerCaseAssumption`: numerals are a list without repetitions; the reserved
  words are in lower case.
- `AcceptedAssumption`: the application a project compiles to is `GeneratedApp`; sources, parameters and the
  words of names are lists, a multipart body has finitely many properties, and there are more numerals
  than parameters and parts in any operation, as there always are in the code.
- `ProjectInitAssumption`: the lists of a manifest are lists; a file of a starter has its own name
  or is a symbolic link.

TLC ran these invariants on the instances of the table before they were proved. What the proof
of `ProjectsAreWhole` brought out: `os.Rename` replaces a file that has the new name, so a rename can
remove a file of the starter; and a starter may list LICENSE among its generated paths, where `writeLicense`
puts the project's own after their removal.

### What stays with TLC

Of what is proved the runs repeat the properties a small instance can break (the table above); the
rest, among them the eight type invariants, stand as theorems only. The other way round, these are
only model-checked:

- liveness (`CommandsEnd`, `CallsEnd`, `CommandEnds`, `LoginEnds`): fairness and ENABLED are
  beyond the provers here;
- the three findings, which are counterexamples;
- what the recursive walks of `SchemaWalks` find in a schema: in the proofs they are any
  operators, in the `publish` run they are evaluated on the schemas of its projects.

## Not modelled

- The spec backends (`internal/codegen/backends`): translations of OpenAPI, Swagger, protobuf and
  GraphQL documents, without state.
- Texts and Go templates, examples, tables and formatters, catalog and search, help and
  completion: layout of immutable metadata.
- Of overlays: columns, response paths, streaming and mutation checks, and group
  descriptions; of runtime schemas: their bindings at code generation.
- Proto sources of spec sync: staging, dependencies and `protoc`.
- Parsing of YAML and of origins and addresses; the rekeying of hostnames that earlier versions
  stored unnormalised, where two keys may meet in random order (`hosts.go:94`).
- The installation and status of a Skill bundle (`pkg/skillbundle`) and `verify`, which read and
  report, or copy files one command at a time.
- Power loss outside `hosts.yml`: no other file is synced by the code.
- The overflow of `expires_in` times a second in a `time.Duration`.

What would come next: the proto part of spec sync.
