# TLA+ models of om3-mcp

om3-mcp is a stateless MCP server in front of the OpenSVC v3 daemon API: an
agent calls a tool, the server sends a few daemon requests on the user's behalf
and shapes the answers. What is hard in it is not kept in variables of the
server. It is in the order of reads, posts and polls against a cluster that
other actors change, in deadlines and callers that end a call half way, and in
credentials that expire between two requests. The modules here model that; the
daemon, the cluster, the OpenID providers and the `mcpauth` library are
modelled as far as the server relies on them, and are marked external in
`PROJECT.json`.

Run a model with `tlc -config X.cfg MCX.tla`, the proofs with `tlapm XProofs.tla`.

## Inventory

| component | state | operations | what is hard | correct when |
|---|---|---|---|---|
| followed actions (`internal/core/execution_wait.go`, `node_action.go`, `cluster_action.go`, `instance_action.go`) | per call: ids, wait deadline, outcome so far | check, post, poll, read the journal or the target | a post without an answer, 410 before and after, a caller that leaves, a deadline during a read | the answer is true of the action, and there always is one |
| instance guards (`instance_action.go`, `instance.go`, `object_action.go`) | none: one read, then a post | start, restart, stop, shutdown, unprovision, clear; delete, purge, provision, unprovision of the object | other callers and the daemon act between the read and the end of the action | a failover service runs once, a running instance keeps its data, no monitor is set idle under an action, a shutdown is not undone at once, a delete leaves nothing behind |
| component restarts (`daemon_action.go`) | per call: status read before, last read | restart of daemon, listener, heartbeat; start of heartbeat | no id to follow the action by, late views, reads that fail during the restart | the restart told is the one asked |
| delegated calls (`internal/auth`, `internal/client/delegated.go`, `cmd/om3-mcp/identity.go`, `audit.go`) | request context: verified claims, token | verify, select, send, whoami, audit | shared clients, a token that expires during the call | a daemon sees only the live token of the call that asks it |
| delegated socket (`cmd/om3-mcp/listener.go`, `main.go`) | a path of the host | start, stop after the HTTPS server, crash | no lock between the system calls | a live socket stays reachable, a stale one is replaced |
| exchanged calls (`client/exchange.go`, `main.go`, `tools/registrar.go`) | cache of `mcpauth` | limit, exchange, call, forget | a token refused while others share it | a refused token is not used again, limits are released |
| configuration updates (`config_object_update.go`, `config_preview.go`, `config_object_create.go`) | none | preview, update, create | a 408 that is a write, two reads in one preview | what is told written is written |
| writes of objects (`object_data_key*.go`, `object_enable.go`, `object_certificate.go`, `config_object_create.go`) | none: a read, one request, a read | set and delete a key, enable, disable, create, create a certificate | others write between the three, a read of a late copy, a success with nothing written | what is told changed was, what is told made is what the write made |
| task runs, refreshes (`task_run.go`, `node_refresh.go`, `instance.go`, `instance_action.go`) | per call: what was read before, the deadline | run, refresh a status or a cache, clear | a run or a status published late, others that do the same, a deadline during a read | a run told is the one of the call, a second read is not older than the first |
| listings (22 tools that give a cursor, `catalog.go`, `object.go` to `schedule.go`) | none: a cursor held by the caller | read all again, sort, find the cursor, cut a page | the cluster changes between two pages, entries equal in all they are sorted by, the budget of a page | nothing that stays is missed, nothing is repeated, a listing ends |
| logs (`node.go`, `instance_logs.go`, `container_logs.go`, `client/sse.go`) | per call: entries, bytes and runes left | open, receive, cut | a journal that grows while it is read, a bound that ends a stream as its end does, budgets used up exactly | what is answered is the newest or the start, without a gap, and told cut exactly when it is |
| status projections (`instance_status.go`, `cluster.go`, `daemon.go`) | per call: the cuts made | project on a shape, cut, refuse | collections cut within collections, sorted or not | every cut is told at its path |
| daemon client, tools, skills, resources, configuration | none | one request, declarations, files | bounds | — |

Components interact by calls in one process. The state they share is that of
the cluster, behind the daemon API; in the server only the HTTP clients, the
token cache of `mcpauth` and the path of the socket are shared by calls.

## Modules

| module | models | state and actions |
|---|---|---|
| `FollowedAction` | the promise of the action tools to a caller | `ran`: what the node did of the action; `told`: the answer |
| `ActionFollow` | `runNodeExec`, `RunInstanceAction`, `DrainNode`, `AbortNode`, `RunClusterAction`, `waitExecution`, `waitNodeOrchestration` | see below |
| `InstanceGuards` | `refuseInstanceAction`, `refuseShutdownUnflagged`, `refuseUnprovisionUp`, `refuseLeakingDelete`, `ClearInstance`, `SubmitObjectAction` | the object and its instances (`avail`, `monitor`, `provisioned`, `frozen`), calls from their check to the end of their action |
| `RestartWatch` | `RestartDaemon`, `RestartDaemonListener`, `RunHeartbeatAction`, `pollNodeStatus` | components of one node, the late view of them, the calls |
| `Delegation` | `Middleware`, `Check`, `verify`, `DelegationFromContext`, `selected`, `RoundTrip`, `serveWhoAmI`, `auditToolCalls` | tokens, calls, the tokens daemons received, audit lines |
| `ConfigOps` | `applyConfigOperation`, `configUpdate.preview`, `secretsOfSection` | operators: what operations make of a configuration, what a preview tells of them |
| `ConfigEdit` | `PreviewObjectConfigUpdate`, `UpdateObjectConfig`, those of a node, `boundWait` | the configuration and its version, the calls, what the daemon did of each request, the seconds of each |
| `DelegatedSocket` | `listenDelegated`, `main`, `shutdownHTTPServer` | the path, who listens, the processes |
| `Listings` | every tool that lists by cursor, from `ListClusterObjects` to `ListConfiguredClusters` | the collection (copies of each key), the cursor, what the pages held |
| `BoundedReads` | `GetNodeLogs`, `GetInstanceLogs`, `GetContainerLogs`, `GetSSE`, `GetStream`, `GetFile`, `GetText`, `GetBlob` | the body of the daemon, what it sends of it, what the bounded reader still reads, the entries or the bytes kept |
| `StatusProjection` | `GetInstanceStatus`, `normalize`, `normalizeJSON` | the document published, the blocks projected one after the other, the cuts told |
| `SecondReads` | `refuseTaskRun`, `readTaskRuns`, `RunNodeRefresh`, `RefreshInstanceStatus`, `ClearInstance` | what is there and what is published of it, the read before, the reads after, the deadlines |
| `ObjectWrites` | `SetObjectDataKey`, `DeleteObjectDataKey`, `SetObjectEnabled`, `CreateObject`, `CreateObjectCertificate` | the states of the object and who made each, the copy read, the request |
| `SingleCalls` | one call of one of the tools of the four modules above | their composition: `tool` |
| `*Proofs` | theorems and proofs of the module they extend | |
| `MC*` | values of the constants for TLC | |

`FollowedAction` is the only abstract specification so far: `ActionFollow`
implements it (`Promise` in its run, `KeepsThePromise` in its proofs), with
`ran` the action on the node when it was forked, and `told` the answer computed
from where the call is and what it read.

**ActionFollow.** A call is of one of three kinds, by the way it follows its
action: an execution, an orchestration, or an orchestration after which the
target is read again. `CheckPasses`, `PostAccepted`, `PostRefused` and
`PostFails` are the returns before the wait; `Poll`, `ReadFails`,
`ReadInvalid`, `ReadRunning`, `ReadEnded` and `WaitEnds` the loop of the two
wait functions, which differ in what a 410 does; `Close` is the read that
follows. A read is three steps (request, answer built, answer used), so that a
deadline or the end of the action falls in between. A select with both the
timer and the context ready may take either, as in Go.

**InstanceGuards.** A check is one step, on what is; the code makes up to three
requests of it, which views may serve late, so the properties are about views up to
date and say nothing of a change no view shows yet. `OneRunsUnlessCrossed` is about a
service whose instances are all in the page read (`Page = Nodes`): the code looks at
nothing beyond its 100 instances, a hazard no property covers. The
post, the fork and the end of the action are separate. The daemon runs what it
is asked, one action at a time per instance, those of the object
(`OnObject`: provision, unprovision, purge, delete) on all of them. `crossed` is a
history variable: for a call, the calls and the daemon whose changes its check
could not see. The properties say that only those break what the guards protect.
"shutdown" is that of an object orchestrated ha, "stop" any other, "mark" stands
for the actions with `state_only`, which only record; an instance is `frozen`
alone or with its node. pg update, run and the like leave alone all that these
guards read, and are left out.

**RestartWatch.** Time is the number of the last event on a component of the
node; `view` is what the daemon asked serves, which lags. `doubt` is a history
variable: another restart fell in the window of the call, or the view was late
at its first read. A daemon that gives streams no creation time is left out.

**Delegation.** A token is named by the call that carries it. `expired` and
`caller` may change at any step: the credential is looked at where the code
looks at it. The signer of a token is a provider or nobody; the cluster named
by the header may be unknown.

**DelegatedSocket.** The system calls of `listenDelegated` are separate steps,
bind and listen included. `doubt` records that the path changed under a process
that was starting, or that a live listener did not answer the dial (its queue
full): what the properties promise is without it, and the model shows they fail
with it, which is the hazard listed.

A process asked to stop goes on answering (`stopping`) until the HTTPS server, shut
down first, is drained; then its listener closes (`Close`, the unlink and the close in one
step: between them the socket has no name).

**ConfigEdit.** The calls of a behaviour ask the same operations, so that a
preview meets the update it is of, and an update its repetition. A preview is
one or two reads (`ReadNamed`, `ReadWhole`) or none; between them others write
(`OtherWrites`, `Commit`). An update is sent; the daemon commits or refuses it,
may hold the answer while the nodes get it, and ends the wait with a 408; the
client times out. A value is a sequence of words, a key not set reads as an
empty one, as in the daemon. `AfterSets` (external) applies deletes, unsets and
sets in the order the code relies on; the operators are those of
`applyConfigOperation`, which says it follows om3. `Changes` is the preview's own
computation, which knows a value only as far as it was read. The values of the keys
named are given in their order (`Order`), each cut beyond `MaxWords`, and all of them
share one room of `MaxRead` (`Rooms`): a short value after long ones is cut as well,
to nothing when no room is left. `Given` is what a read gives of one, its mark left
out. `UncomputedForCause` states the cause from `Together`, the sum of what the
values would take alone, which the code does not compute. Of a configuration longer than `MaxKeys`, any keys may be the ones read.
Times are whole seconds, so that `boundWait` needs no truncation. `wrote` and
`fate` are history variables: the configuration around a commit, and what became
of its answer.

**Listings.** The tools differ in a few decisions only: how they resume, what
they do of entries that repeat or are not as expected (the metrics refuse only the
page that holds one, `RefusePage`), whether a page has a
budget and the collection a size, whether every cursor they give is one they
take. `Tools` holds these decisions for each of the 22; one behaviour is one
listing by one of them. A key stands for the fields a tool sorts by, `copies` for the
entries that have it; a place is a key and the rank of an entry among equals,
which is what an `occurrence` cursor names. `Shown` is the sorted answer after
the filters, `Rest` what comes after the cursor, `IsPage` the cut. A page is one
step, as it is one answer of the daemon; `Appears` and `Leaves` happen between
two pages. Of a page with a budget, `Runes` counts the text of an entry. That a
tool is marked "never" for repeats is external: the daemon has one instance by
node, one disk by type, id and path, and so on. Resuming after the key of such
an entry would skip its equals. A catalogue (`ListConfiguredClusters`) never
changes while a server runs; another one is that of a restarted server.
Its cursor is of the whole catalogue, what the query does not match included.
Paths of objects are compared as keys; the code looks for repeats in the path as the
daemon spells it. `steady` is a history variable, the keys that did not change since
the first page.

**BoundedReads.** A body is a sequence of parts: the entries of a journal, or
the chunks of a content, each with its bytes and its runes. The daemon sends from
`first` to `last`, while its journal may grow (`Grows`). The bounded reader has
one byte more than the bound (`left`), and when it has none it makes up an end of
stream: `End` is that end and the one of the body, as the code cannot tell them
apart, and `Exceeds` is what it concludes. `ReceiveData` and `Dispatch` are the data
line of an event and the blank line that ends it. `BoundMessage` cuts one message,
from the newest. An event that is not a log of the object asked (`Foreign`), or a
message that is empty, ends the read. A daemon that closes its stream early but
properly looks as one that had no more to send, and is not modelled.

**StatusProjection.** A value is a text of so many runes, a collection of items
or something else, a shape what the code's table says of a field. The recursive walk
is a function of the nesting left (`NormalizeTo`), `Normalized` that of a
collection: what is kept is sorted first, where the code sorts (`Arranged`). Each
level tells its cuts relative to itself, and the one above puts its name before
them (`Under`), as the code passes the path down. The items of a sorted list are
looked at before the cut (`Sortable`). Left out: two refusals of the whole read, for
keys of a map that are too long or not text and for monitor options that are no map,
and the null answered for a date that is missing. `MissingTo` recomputes from the
document and the answer what was left out; that it is what was told is the property.
`Trees[n]` is what nests no deeper than n, and a document no deeper than `Height`:
`encoding/json` decodes no deeper than a bound of its own. `Shape` is all the shapes
there are, closed under those of the fields and the elements (`ShapesAssumption`): in
the table an encapsulated status is always a field, and the shape of each block an
object, without which an omitted value could be answered.

**SecondReads.** A subject (a task, a cache, an instance) has what is there
(`actual`: who left it, its value, its date) and what the daemon publishes of it.
The execution acts on each subject, or not; others act as well, and write the
confirmation of a task. A keyword is read in its section and scoped to the node
(`Effective`), and whole: the code reads at most 64K characters of the
keywords of the tasks named, and one cut to nothing by those before it would read as
not set. `completed` is whether the end of the execution was read; how it is
followed is the matter of `ActionFollow`. `ours`, `configured` and `unconfirmed` are
history variables.

**ObjectWrites.** A new object is configured to orchestrate itself in what is read
back of its file ("on"), beyond it ("beyond"), or not. The file read again is cut at
64 KiB while 256 KiB are accepted, and the flag is told from what is read: `clipped`
is that the file was told truncated, and then a flag not told says nothing. (Of a
file of 64 KiB that is one line, which the scanner does not read, the model says
nothing.) `states` is the history of the object, of which only what the
tool is about is kept; `copy` is the state a read gives, which may be late;
`before`, `base`, `made` and `after` are the states read before, written on, made
and read again. A `create` asks for `wait_local`, a `create_at_once` does not.

**SingleCalls.** The server keeps nothing between two calls and those of these
modules share nothing in it, so one behaviour is one call; the modules of the
others stay as they were. What other callers do to the cluster is in the
environment of each module.

## Runs

| run | question | bounds and why they are enough |
|---|---|---|
| `ActionFollow` | is the answer true of the action, does each call get one, does it do what `FollowedAction` promises | one call, two endings (one a success): calls share nothing here; the proofs take any number |
| `InstanceGuards` | what do the guards still protect under interleaving | two calls, two nodes, both topologies: a property broken takes a call, another actor and two instances; the actions of a behaviour come from one of three sets (`Scenarios`), instance actions, actions of an object beside what raises its instances, shutdowns among freezes; the proofs take any number of calls and any sets |
| `RestartWatch` | when is a restart told completed the one asked | one call, 3 events (`MaxEvents`): one before it, its own and another's |
| `RestartWatchClaim` | is a daemon told restarted always started after the request | the same; expected to be violated |
| `Delegation` | are tokens mixed or used late, what do audit lines name | two calls, two clusters, a provider each, two requests a call: mixing takes two |
| `DelegationAudit` | does each audit line carry the identity | the same; expected to be violated |
| `ConfigEdit` | does a preview tell what the update does and compute what it can, does an update tell what the daemon did, does a wait leave time to hear of a write | a preview and an update of the same operations, two sections, a secret and its scope, six updates that use every operator and order; `MaxWords`, `MaxRead` and `MaxKeys` below what a configuration holds, so that values are cut alone and by those before them, one fits exactly, and keys are left out; a timeout at the margin and one beyond it, waits on both sides (`WaitMargin` 2); two writes (`MaxWrites`), so that a read, a write, a read and a commit follow each other |
| `ConfigSecrets` | does a preview count the secrets of a section it deletes | the same; expected to be violated |
| `DelegatedSocket` | what is at the path after starts, stops and crashes | three processes: one that left its socket, one that serves, one that starts |
| `Listings` | do pages cut from different answers make a whole listing | four keys, one unfit, one larger than a page; two copies of a key (`MaxCopies`), so that ranks shift; pages of one or two (`MaxLimit`), so that a listing takes up to eight; `MaxItems` 5 and `PageRunes` 2, so that both limits are met |
| `SingleCalls` | does one call tell the truth of what it left out, read again or wrote, beside others | bodies of up to four parts at, under and beyond each bound, a journal of up to 5 entries (`Grown`) of which 3 are asked (`Lines`); documents with each kind of shape, cut at two levels and in several places, two levels of encapsulated status for a bound of one; two tasks, with each kind of confirmation, two writes of others (`MaxOthers`), so that another runs before and after the call; four states of an object (`MaxStates`), so that another writes before, between and after, and objects orchestrated within and beyond what is read of their file |
| `ListingsCursor` | does a tool take the cursors it gives | the same; expected to be violated |

Every property of a passing run is broken by at least one mutant in
`PROJECT.json`: an operator of the module that has the bug in place of an
action or a guard. `TypeOK` is checked by TLC in the runs that list it, and proved
for all values in every module that has one (`RereadTypeOK` of `SecondReads` and
`WriteTypeOK` of `ObjectWrites` within their invariants).

Deadlock is not checked where calls end and nothing is left to do (all runs: calls are made
once, and a behaviour of the daemon may stop).

### Fairness

Weak fairness of the steps of a call in its code: returns, timers, and requests
the HTTP client bounds with its timeout (`RequestTimeout` of the cluster). Weak
fairness of `WaitExpires`, a context deadline. A daemon may never answer
usefully, an action may never end, a view may never arrive: no daemon step is
fair. In `ConfigEdit` time passes (`Tick`) and the client ends a request at its
timeout (`GivesUp`); the daemon may never commit, answer or propagate. In `DelegatedSocket` the system calls of a start return, the dial within
its one second, and the drain of each server within the deadline of `shutdownHTTPServer`. In `Listings` the caller asks
for the next page as long as there is one, and a call ends (`Answer`), the HTTP client
having a timeout; its read may fail instead (`ReadFails`, not fair), which ends
the listing as well. Entries may appear for ever.

### What the runs found

* `RestartWatchClaim`: `RestartDaemon` tells restarted a daemon that started
  before the request, when the first status read is late
  (`daemon_action.go:311`, against its comment and the tool's schema).
* `DelegationAudit`: the audit line is written after the tool returned, with
  the identity the context still gives then: none when the token expired or the
  caller left during the call (`audit.go:44`, against `docs/delegation.md`).

* `ConfigSecrets`: the preview of the deletion of a section that holds
  `cluster.secret` and `cluster.secret@n1` tells one secret where two are deleted:
  `secretsOfSection` counts the names of `secretKeywords`, which have no scope
  (`config_preview.go:406`, against the schema at `preview.go:65`).
* `ListingsCursor`: the cursors of `list_node_disks` and `list_pool_volumes` are
  made of texts kept up to 1024 characters each, and the tools refuse a cursor
  longer than 1024 (`node_disk.go:205`, `pool_volume.go:157`, against the schema of
  `next_cursor`). Other tools marked so in `Tools` have the same bound below what
  their keys allow.

`PreviewTellsUpdate` is stated for a preview whose reads saw one version: a
preview of two reads is dated by the second, so a write between the two is not
seen by its date, and what it told of the keys named is then not what the
update does. The code gives such a caller nothing to see it by, and this hazard
(`config_preview.go:261`) has no property.

Two more follow from the code and have no run of their own. `create_object` tells
`flagged_stopped` from the first 64 KiB of the file read again
(`config_object_create.go:98`): a configuration of up to 256 KiB that orchestrates the
object beyond them is told not flagged, and only `truncated` beside it says the file
was not all read. A confirmation keyword read after 64K characters of others is
cut to nothing, and taken for not set (`task_run.go:84`).

## Proofs

TLAPS proves, for any values of the constants:

* `ActionFollowProofs`: `AnswersAreTrue`, `CausesAreReal`, `CompletedAreWhole`,
  and `KeepsThePromise`, the safety part of the refinement. `TypeOK /\
  AnswerMatchesAction` is inductive. The other two need what the call read at
  each place of its code, before it answers: `EndInv` adds, for a call that is
  closing, what it will say once done.
* `InstanceGuardsProofs`: `FailoverRunsOnce`, `UnprovisionSparesRunning`,
  `ClearSparesActions`, `DeletesLeaveNothing`, `ShutdownsAreHeld`, from `GuardInv`. The strengthening is needed because
  the properties speak of two calls: `Acquainted`, of two open calls one has
  the other in what crossed it; `OneAction`, one action runs per instance;
  `StartersAlone`, beside an uncrossed starter no other instance runs.
* `DelegationProofs`: `Typed`, `TokensAreNotMixed`, `LinesAreTrue`, from `CallInv`, which
  adds that a call past the middleware was verified for its cluster
  (`Verified`), that a line is only there at the end (`LinesAtTheEnd`) and that the
  request a daemon is asked was sent with the token of its call (`AskedIsSent`). The
  last gives `VouchesAreLive`, a property of steps: an answer of `serveWhoAmI` is
  good only in a step that finds the token alive and sent.
* `RestartWatchProofs`: `Typed`, `RestartsAreOwn`, from `WatchInv`. The answer compares
  two reads, the property speaks of the action: `OnlyOwnNews` keeps between
  them that, while nothing casts doubt on the call, a component on the node or
  in the late view is the one read before, or the action ran and it is newer.
  `TimesPast` (no time is after the last event) makes what restarts newer.
  `ErrorsAreRight`, from `PostsTold`: of a call on its way, what its post left.
* `DelegatedSocketProofs`: `LiveIsReached`, `FilesAreKept`,
  `RefusalsHaveTheirCause`, from `SocketInv`: without doubt one process at most
  is starting (`StartsAlone`), so what a start learned of the path by one system
  call still holds at the next (`WhatAStartKnows`).

* `ConfigEditProofs`: `AnswersAreTrue`, `WaitsAreBounded`, from `ControlInv`, which
  is about the control alone: where a call is, what the daemon did, what was
  told (`ToldAsDone`) and the seconds of the request (`TimesBounded`). What the
  operations make of a configuration matters there only by being another one or
  not, so the theorems hold for any operations.

  `PreviewsAreTrue`, `UncomputedAreCaused` and `Typed` are about what the
  operations make. The preview and the daemon go through the same operations, one computing values from a cut
  read, with secrets left out, the other doing them. `Follows` says what the first
  n changes told have to do with the configuration the first n operations leave:
  a key told is one an operation named (`KeysTold`), a value known is the one it
  has (`KnownHold`), a key not named is as it was or went with its section
  (`RestKept`), and the last change of a key tells its value (`LastsHold`). An
  operation more keeps it (`UnsetsToldStep`, `SetFollows`), so it holds at the end
  (`ToldFollows`). On the calls, `PreviewsHold` and `WritesHold` keep that what a
  preview told is of the configuration of the version it read, and that an update
  of that version was done on the same one; two calls, which share no state but the
  configuration, are related through its version. `UncomputedForCause` needs of
  the same functions why a value is not known: `Caused` keeps, an operation after
  the other, that it is of a secret or of a key whose value was read cut and that
  no operation, unset or deleted section replaced (`SetCaused`). That a value cut alone is
  too long, or comes after values that leave it less room than it takes, is
  `RoomIsTheRest` and `GivenBounds`: as long as all fit, the room left is that of the
  read less what was taken. That the daemon
  took the update is used there: its operations have their indexes in range.
* `ListingsProofs`: `PagesInOrder`, `NothingStayingMissed`, `CatalogueWhole`,
  `StaleForAReason`, from `ListingInv`. While a listing goes on, what it told is, of
  the keys that did not change, exactly what comes up to the cursor
  (`ToldToCursor`); in a catalogue, its first entries (`ToldToOffset`). The
  lemma `RestAfterTold` gives from it that the rest is what was not told, for which
  the offset needs that ranks count the entries before (`RankPastPrefix`, by
  the cardinality theorems).

* `SingleCallsProofs`, of each module of `SingleCalls` under its own specification
  (a behaviour of `CallSpec` is one of the module called): of `BoundedReads`
  `Typed`, `NewestAndTold`, `ContentsAreTold`, from `IInv`. The answer is about the
  journal, the code sees one entry at a time: `Consecutive` keeps that the entries
  consumed are those sent so far, one after the other, so that with room left they
  are all; `SentEnough` that the daemon sent the whole journal or one entry more
  than asked, which is how the code knows that it is truncated; `Cutting` what each
  message kept and what was told of it. A stream of events shows no entry before
  its bounds are applied, on which the types depend. Of a content, `Contents` keeps
  that what was read is every byte and rune of the parts sent, or as many bytes as
  there was room for and fewer than those parts have (`ReadSoFar`, `Stopped`), so that
  an answer with room left is whole, and one without is short of what the parts sum
  up to (`SumsOfParts`, `BytesGrow`).

  Of `SecondReads` `HumansConfirm` and `RunsAreOwn`, from `RereadInv`: once an action
  is asked, a task a human confirms changed since the check (`Confirmed`), and
  whatever was read as left by this call is what it left (`OwnReads`); and
  `ReadsAreNewer`, from `NewerInv`, which keeps the reads of an instance in the order
  they were made (`InOrder`): of two readings the later is not older, and is the same
  if it has the same date, a relation that a later read of the same status passes on.

  Of `ObjectWrites` `WritesDone` and `ReadBacksAreOwn`, from `WriteInv`. The
  properties excuse a state somebody else made in between; since one state at most is
  of this call (`OthersMadeTheRest`), with none crossed the state read and the one
  written on, or made and read, are the same, or follow each other. `ReadBacksAreOwn`
  adds that what was read back is flagged as it was configured, but for a file
  clipped (`ReadAfterWrite`).

  Of `StatusProjection` `ReductionsTold`. A value projected is sound (`Sound`): it
  failed, or it is a value whose cuts are exactly those it misses and that keeps the
  least where it sorts, or it was left out as a whole, with one cut, which only a
  field can be. By the nesting left each value is (`Projects`): a text at once
  (`LeafValues`), a collection if its items are (`Collected`), from what sorting does
  (`Arrangement`: each item once, in the order of its rank) and what is kept of it
  (`KeptItems`). `StatusInv` adds the blocks up: the cuts are those of the blocks
  projected so far.

  Of `SingleCalls` `CallsTellTheTruth`: a behaviour of the calls is one of each of the
  four modules (`CallsApart`), so that the eight invariants of its run hold of it.

Induction. The induction theorems of the library take an operator as parameter,
which no prover here instantiates. `ConfigEditProofs` and `SingleCallsProofs` have
a form of it on sets instead: a set of numbers that has 0, and n + 1 with each n,
has all of them (`Induction`, from the pigeonhole theorem on finite sets: were m
left out, n -> n + 1 would map the numbers under m one to one into themselves but
0). From it comes that a function defined step by step exists (`Recursion`,
`Sums`). The definitions these proofs are about are recursive functions on
positions for that reason (`AfterSets`, `ToldSets`, `SumTo`), or, of trees, on the
nesting left (`Trees`, `NormalizeTo`, `MissingTo`, `KeepsTo`): `Levels`,
`Projections`, `Missings` and `Keepings` say what each is of one level.

Assumptions are those the modules name: that model values are distinct
(`EndingsAssumption`, `CallsAssumption`), that each cluster has a provider
(`ProviderAssumption`, which `config.go` requires of the clusters of the
socket), that `Page` is some of the nodes, that no process has the name of
what else can be at the path (`ProcessesAssumption`), and that `MaxEvents` is a
positive number (any: the theorem holds for each bound). `Listings` needs keys that
are numbers, finitely many (`KeysAssumption`, `BoundsAssumption`). `ConfigEdit` needs that times are
numbers and a timeout is not 0 (`TimesAssumption`), that what others write is a
configuration (`InitialsAssumption`), that the operations are those
`parseConfigUpdate` lets through (`UpdatesAssumption`), and that the secret keys are
keys, `Order` has each key once and the bounds of a read are numbers (`KeysAssumption`). `BoundedReads` needs the bounds to
be numbers, the lines asked and the runes of a message not 0, and the raw bytes of
a container log under those of a body, as the constants of the code are.
`StatusProjection` needs that documents nest no deeper than `Height` and have each
key once, as a decoded object has (two equal entries of a list have two places), no
two keys of one rank (`DocumentsAssumption`), and the closed shapes above (`ShapesAssumption`).
`SecondReads` needs that a refresh and a clear are of one instance
(`AsksAssumption`), as their arguments are; `ObjectWrites` only the names of its
tools (`ToolsAssumption`).

Only model-checked: everything under fairness (`Promise` as a whole,
`EveryCallAnswered`, `EveryToolCallAudited`, `StartsAndStopsEnd`,
`EveryCallEnds`, `EveryListingEnds`), which is beyond the prover. Every invariant and
every property of steps that a run checks is a theorem of its module.

## Plan

What is left, in the order of what it would add:

1. The calls on the HTTPS listener: the order of limiter, exchange, tool and audit
   line, once the cache of tokens is described by its library.
2. `ClearNode`, `SetDaemonLogLevel` and the renewal of a certificate, one post and one
   read each.

## Not modelled

The components above with no module, for the reason `PROJECT.json` gives. In
modelled components: texts, formats and the shape of results; the origin checks
of the transport; the delay between two polls; the HTTPS server beside the
socket, but for its being shut down first; files at the path removed by others; a
daemon that ends a stream early as if it were whole; instances beyond the page a guard
reads; the mark at the end of a
message that was cut. Of the status of an object, a cluster or a daemon, fields
are renamed and sorted and nothing is cut. The file of a resource is two reads,
the checksum first: a file written in between has the checksum of the earlier one.
