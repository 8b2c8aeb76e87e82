# Scenelith: verification project

This directory holds TLA+ specifications of the parts of Scenelith that keep
state and run concurrently, TLC configurations that check them on small
instances, and proofs of their invariants, for every instance, in the TLA+ proof
system. The modules are translated from the source. `PROJECT.json` names, for
every definition that models code, the lines it stands for; it lists the
system's components, the checks, the mutated definitions that show each property
can fail, the hazards of the code, the findings and the theorems.

Paths below are relative to the repository.

## 1. The system

Scenelith is a Next.js application over one PostgreSQL database and an object
store, with separate processes for background work (`src/worker.ts`), media
processing (`src/media-worker.ts`) and collaborative editing
(`collaboration/server.mjs`). Processes never call each other for durable work:
they meet in tables. The pattern is nearly always the same. A row is claimed
with a status and an owner; the owner works for minutes outside any transaction;
it comes back and writes, guarded by what it remembers of its claim. Meanwhile
the owner may have died or stalled, a sweep may have taken the row from it, a
user may have cancelled, and the outside world may have answered twice. The
browser repeats the pattern in small: a command is issued, a promise or an
update of a collaborator comes back later, and by then the screen shows
something else. This is what the models are about.

| Component | State it keeps | Operations | Meets | What makes it correct |
| --- | --- | --- | --- | --- |
| Media queue (`src/lib/media`) | `media_jobs`, `media_job_objects`, reservations, objects in the store | order, cancel, retry, claim, renew, stage, publish, fail, recover, collect | workers, collector, workspace quota | nothing published is lost or half visible; one owner writes; quota is exact; every job ends; leftovers are collected |
| Generation dispatch and lifecycle (`generation-dispatch.ts`, `-receipts`, `-state`, `-lifecycle`, the Kie webhook) | `generations`, `generation_dispatch_jobs`, `generation_provider_receipts` | claim, submit to a paid provider, recover, callbacks, polls, save, time out, cancel | the provider, the usage authority, canvas nodes | paid once, charged only for work, saved once, ended for good, everything ends |
| Generation admission and capacity | request keys, per-workspace limits | admit once per request key, reserve, refuse over the limit | usage authority, dispatch | a retry of a request is the same request; the limit holds |
| Automation runs (`automation-workflows/runs.ts`, `runtime.ts`) | `automation_runs`, node runs, budget reservations | enqueue with overlap policies, claim, execute the graph, retry steps, cancel trees, recover | generations, child runs, usage | limits hold; nothing is bought twice; a success is real; results fit the values they were computed from |
| Automation triggers and deliveries | triggers, schedules, product events, deliveries, alerts | fire, append, fan out, deliver, retry, replay, notify | runs, workflows | no event is lost, no delivery starts two runs; alerts are exact |
| Automation workflow documents | versions of graphs, drafts, pins, system templates | load, save, restore, publish, prune, upgrade, choose a model | runs, triggers, editor windows | what is referred to exists; one draft, one published; an upgrade keeps choices |
| Collaboration server (`collaboration/`) | CRDT documents, journal, epochs, projection outbox | open, load, merge, store, checkpoint, project, evict | canvases, database, replicas | no accepted edit is lost; the projection follows the document; deleted stays deleted |
| Collaboration client and canvas (`use-canvas-collaboration.ts`, `CanvasApp.tsx`) | screen, shared document, session, history | edit, drag, undo, switch, reconnect, paint | collaboration server | the screen shows the document |
| Editor player (`segmented-video-controller.ts`) | two decks, commands, operations | show, pause, stop, preload, segment ends | media elements | what plays is what the last command asked for |
| Storage and upload sessions | used and reserved bytes, sessions, deletion queue | prepare, complete, abort, expire, delete | media queue, assets | bytes are counted once; a file in use stays |
| MCP server and OAuth | clients, codes, tokens, edit receipts | authorize, exchange, rotate, revoke, edit with optimistic concurrency | canvases, generations | not modelled; see section 6 |
| Worker process, rate limits, migrations, usage hooks | heartbeats, counters, schema versions | tick, limit, migrate | all above | not modelled but for the order and fairness of the worker's loop |
| TikTok automation, media processing, other pages, launcher | drafts, none | | | not modelled; see section 6 |

## 2. Modules

| Module | Models | Checked in | Proved in |
| --- | --- | --- | --- |
| `MediaQueue` | the media queue | `services`, `media_dependencies` | `MediaQueueProofs` |
| `FencedJobs` | the contract of a durable job table with fenced owners; abstract | implemented by `MediaQueue` (`KeepsContract`) | `MediaQueueProofs` |
| `GenerationDispatch` | dispatch, receipts, callbacks, polls, saving, timeout, cancellation | `generation_safety`, `generation_submission` | `GenerationDispatchProofs` |
| `GenerationAdmission` | admission of generations under request keys and limits | `services` | `WorkspaceProofs` |
| `AutomationRuns` | admission, claims, executions, child runs, tree budget, cancellation, recovery of runs | `automation_recovery`, `_admission`, `_cancel` | `AutomationRunsProofs` |
| `GraphExecution` | the loop over one graph, Retry passes, restart | `services`, `graph_restart` | `WorkflowProofs` |
| `WorkflowDocuments` | versions of a user's workflow, editor windows, one trigger | `services` | `WorkflowProofs` |
| `SystemWorkflows` | upgrades of built-in workflows against choices of model | `services` | `WorkflowProofs` |
| `TriggerDeliveries` | triggers, the three outboxes, alerts | `trigger_outboxes` | `TriggerDeliveriesProofs` |
| `CanvasDocuments` | one collaborative canvas in the server's replicas | `services`, `canvas_replicas`, `canvas_crash` | `EditorProofs` |
| `CanvasWindow` | the canvas in the browser | `services` | `EditorProofs` |
| `SegmentedVideo` | the two-deck player | `services`, `video_pause` | `EditorProofs` |
| `StorageLifecycle` | uploads, quota, deletion of unused objects | `services` | `WorkspaceProofs` |
| `SumTheorems` | lemmas about sums over finite sets | | itself |

`MCMediaQueue`, `MCGenerationDispatch`, `MCAutomationRuns`, `MCCanvasDocuments`,
`MCTriggerDeliveries`, `MCGraphExecution` and `MCSegmentedVideo` hold the
instances. `MCServices` puts the nine components that share no state side by
side: which of them runs is chosen in the initial state (`running`), the others
keep theirs, and the `VIEW` leaves out what rests.

### MediaQueue

`job` is the `media_jobs` table: status, attempts, fence, worker and the lease,
which is `live` until the clock passes `lease_until` (action `Expire`) and never
becomes live again, as `renewMediaLease` demands an unexpired lease. An element
of `execs` is one `executeMediaJob` call with the snapshot of the job it was
given; its `stage` is the await it stands at. Every write of the call is an
action of its own (`Begin`, `Reserve`, `RenewForUpload`, `Register`, `Upload`,
`Publish`, `Fail`), so any other process may act between two of them. `Abandon`
is the death of the process, and a failed `failMediaJob`. `Register` and
`Upload` are not guarded by the lease, in the code as in the model: a stalled
executor keeps writing objects after its job was given to another.
`recoverMediaJobs` is three statements outside a transaction, and so three
actions. The collector's `claimMediaCleanup` reads jobs in the snapshot of its
statement without locking them; it is split into `CleanupScan` and
`CleanupClaim`, with a publication possibly between them.

Abstracted: back-off times (a claim may always happen late), the fair choice
among workspaces, contents of files, the heartbeat (a check of ownership whose
failure is `Fail`). A row may grow old (`Age`, ten minutes) while the upload of
its object is still to come: a process stalls before it writes, or the deadline
of transfers is set to the two hours the configuration allows. The history
`overdue` names the objects a collector deleted in that situation.

### GenerationDispatch

`gen`, `job` and `receipt` are rows of the three tables for each generation. An
element of `execs` is one `dispatchJob` call, named by the attempt that claimed
it; `locked_by` is left out since the `attempts` column alone tells claims
apart. Its `stage` is the await it stands at: before and after the submission
mark, before and after the answer of the provider, and each statement of the
catch block. A receipt exists for generations of execution version 1 only; the
initial state picks the version. An element of `calls` is one
`finalizeGenerationFromWebhook`, entered by a callback (`Notify`) or a poll
(`Poll`), which accepts the report in one transaction, saves the result in
another and then talks to the usage authority; a crash or error may fall between
any two (`CallFails`; the route answers 200 even then).

A call that failed stands where its last success left it until its handler reads
the receipt (`CatchBroken`, and `CatchRefused` for a refusal). A timeout and a
cancellation are two actions each: what they read (`BeginExpire`,
`BeginCancel`), with the row of the generation locked from there on (`ending`,
and `Free` in the guards of whoever updates that row), and what they write
(`Expire`, `Cancel`). Neither locks the receipt or the job, so the submission
may be marked in between; `overlooked` records that. The four statements of
`recoverProviderReceipts` commit together, but each sees what is committed when
it starts: its first statement has `seen` some of the tasks that the second acts
upon.

The provider is external: it accepts a request (`Answered`), may have accepted
one whose answer is lost (`Answered`, then `CatchBroken`), refuses some, ends
tasks in any outcome and reports them late, repeatedly and out of order. The
usage authority is external too: of several calls for one reservation the first
counts. `Stall` covers a dead owner and one that is paused or cut off for five
minutes while it still intends to go on.

### AutomationRuns

`run` is the `automation_runs` table. A root is a member of `Roots`; the child
that executes an item of its Map step is named by the root, the item and the
claim of the root that created it, so each interruption gets new children, as in
the code. `open` are the reservations still `reserved`; `reserved` and `charged`
are the columns of the row, which the code keeps beside them and sums over the
tree. `saved` holds what a later claim can reuse: node outputs and image
artifacts. `pending` are the prompts whose usage is uncertain. An element of
`execs` is one `processRun`, with the await every step of its work stands at.

`claimRun` is two actions: `Choose` is the `SELECT ... FOR UPDATE SKIP LOCKED`
on the snapshot of its statement, `Admit` what follows under the workspace's
lock. `cancelAutomationWorkflowRun` is a statement an action (`Cancel`,
`CancelChildren`, `CancelSelect`, `CancelRelease`), since it opens no
transaction; superseding a run (`Enqueue`) is one. `recoverStaleRuns` is a list
(`ListStale`), then for each entry a transaction (`Recover`) and the release of
its reservations (`RecoverRelease`); two workers may be in it at once. A
provider call is `Reserve`, `Call`, then for a prompt `SettlePrompt` and the
storing of the output, for an image `Save` and then `SettleImage`, the order of
the code; `LosePrompt` is the answer that never came.

Abstracted: workspaces (one is modelled, so the fair choice among them is not),
the order of the queue, deadlines (a timeout is `FailCall` or a failed step),
the waiting for generation capacity. A step consists of one call, or of one
image request or item per element; each costs one credit and is tried once.
Partial failures stop the run. Children do not nest. Not modelled:
`retryAutomationWorkflowRun` (a new root with copied outputs), node previews,
the counters of `reserveAutomationTreeUsage`, input snapshots.

`releaseOpenAutomationRunBudget` is one action (`ReleaseOpen`), except where
another transaction can come between its two statements. It holds the lock of
the run's own budget, `Reserve` that of the root's, so a child that is being
executed (`Overtakable`) goes through `midway`: its reservations are released,
its column not yet zeroed, which `FinishRelease` does; a reservation between the
two is lost from the column (`overtaken` remembers such children). `Enqueue` has
the same window for superseded children that had ended (`late`); the others it
locks with its first UPDATE. What a run has open is not committed while it is
`midway`, so no property speaks of it then, and a process that dies there has
not begun.

A worker's id is new at every start and there is no other fence. `Lapse` lets a
run become stale when its worker is dead, and, for the roots in `Stalling` and
their children, when it is alive and silent, its heartbeats failing
(`runs.ts:829`). `seized` remembers the roots that a recovery requeued although
their worker lived: it may claim the same run again (section 6).

### GenerationAdmission

One transaction of `admitGeneration` is split at its locks: the request key, the
workspace, the node. `admission` is the transaction of each request, `expiring`
what it has timed out and not yet committed, `answer` what its client was told.
A repeated request waits for the first one's key and finds its generation; a
transaction that dies or is aborted leaves nothing; the browser sends it again.
The usage authority reserves or refuses. A generation whose provider reports
success without a result is `blank`, which the count of active ones leaves out;
a poll or a later report turns it to `reopened`, active again, although its slot
or its node may have been given away meanwhile: `AdmittedOnceWithinLimits`
limits the others. Not modelled: the shape and price of a request.

### GraphExecution

`executeAutomationGraph` for one run. A graph is a record of nodes, ports and
edges, which may be invalid; `ValidGraph` has the structural rules of
`validation.ts`. A value is the number of the execution that produced it, so
that "computed from what its inputs hold now" can be said. A step is started,
finishes or fails (`StartStep`, `FinishStep`, `FailStep`, with its attempts), or
is passed over when a required input received nothing (`PassOver`); a gate
passes a value on (`PassGate`), and a value fed back to one clears the steps
below it and begins another pass (`RetryPass`). `LoseWorker` is the death of the
worker, `Execute` a claim: what the database kept (`savedResults`) is taken over
unless its epochs are older than the gates' (`Outdated`).

### WorkflowDocuments and SystemWorkflows

Every writer of `repository.ts` is one transaction under the workflow's advisory
lock, hence one action; what an editor window or `triggers.ts` reads before it
is an action of its own, and may be stale. Versions are numbers; pruning
(`Pruned`) is part of the writers that prune in the code. In `SystemWorkflows`
replicas of an older and a newer release upgrade the same workflow while users
choose its model; upgrades and choices hold different locks, and the unique
index on the published version makes one of two transactions abort.

### TriggerDeliveries

Product events, deliveries and notices share one leasing protocol: a lease is
status, attempts and owner of a row, and a claim requeues the expired ones first
(`Claimable`, `Requeued`, `Claimed`). `Work(w)` is what a worker may do next in
its cycle: the schedules, then the outboxes; `hand` is what it read and has not
written back. Users activate, pause, delete, rebind, publish, archive and
replay, events and webhook calls arrive (`Requests`); workers die and leases
expire (`Crash`, `LeaseExpires`). A schedule that is due throws (`FireSchedule`,
see the observations) or is passed over. `Alike` are the deliveries that have
the same `dedupe_key`: a run that may be active answers any of them, and whether
it still is active is left open. A retry's delay is abstracted; each trigger has
a workflow of its own; of a run only its admission is modelled.

### CanvasDocuments

One canvas: its row, journal, outbox, its copy in the web application, and the
rooms the replicas hold. A document is the set of edits it shows and the
lineages it was built from, since a checkpoint writes the same canvas into a
fresh Yjs document. `persistDocument` is `Encode`, `LockStore`, `CommitStore`:
the state is read before the transaction, the newest journal id within it. The
projection is claimed, sent and finished by any replica (`ClaimProjection`,
`SendProjection`, `FinishProjection`). Hocuspocus, Redis and Yjs are external
and appear as `server.mjs` uses them.

### CanvasWindow

A browser window: `page` has the nodes on the screen, the Yjs document, the
session (token, epoch, sync), the drag and the history. A canvas is a map from
fields to values; a Yjs entry keeps the writers of its value, so that merging
can be modelled by what it does. An edit on the screen becomes a patch of the
document by difference, a remote update is painted by a microtask before the
next event. A node is dropped at a new position or where it was picked up. A
switch without a cached copy waits for the document or, after a timer, for the
projection; if there is no project, the canvas before it is restored. Lost
connections, late tokens and checkpoints are the incidents. `unwritten` is
history: the fields a drag left where it began, until the next painting.

### SegmentedVideo

`deck` are the two media elements, `transport` and `current` the last command,
`operation` the asynchronous operations that have not returned. `play()`
unpauses at once and its promise settles later; `pause()` and `load()` reject
the open promises but not one that is settled already. What follows the end of a
wait runs before any other task and is the same step. Left out is a pause in the
very task that shows a segment, which no caller does: an operation that finds
its metadata there has not begun to wait, and would go on (line 376).

### StorageLifecycle

`upload` are the upload sessions, `reserved` and `used` the columns of
`workspace_storage_usage`, `files` the assets, `deletion` the queue of unused
objects, `request` and `drainer` what the processes are doing. Each upload has
an object key of its own. The object store is external: a multipart upload has
parts until it is completed or aborted. A request or a drainer may die between
any two of its statements.

## 3. Runs

| Run | Instance | Asks |
| --- | --- | --- |
| `services` | nine components, each alone; below | `PublishedObjectsStay`, `PublishedAsAWhole`, `OwnerKeepsStaging`, `StoredIsTracked` (media), `AcceptedIsHeld` (canvas), `BytesCountedOnce`, `FilesAreKept` (storage), `HistoryKept` (documents), `SystemGraphIsCurrent`, `ResultsStayCurrent` (graphs), `AdmittedOnceWithinLimits`, `OnlyTheLastCommandPlays`, `PlayingGoesOn` (video), `ScreenIsDocument` (windows) |
| `media_dependencies` | a job that depends on another, two workers, a retry by the user, fair | `DependenciesFirst`, `QuotaAccounted`, `KeepsContract`, `EveryJobSettles`, `LeftoversCollected` |
| `generation_safety` | one generation of either version, two claims, two finalizations at once, fair | `PaidOnce`, `PaidWorkIsNotDropped`, `StoredOnce`, `ChargedForWork`, `NoWorkAfterTheEnd`, `EveryGenerationEnds` |
| `generation_submission` | three claims | finds `NeverPaidTwice` violated |
| `automation_recovery` | one run with a prompt, an image, and an item whose child prompts; three credits, two workers, a crash, a cancellation, fair | `SuccessIsReal`, `LedgerAgrees`, `NeverReplayed`, `EveryRunEnds` |
| `automation_admission` | five requests of two triggers with all three overlap policies, a repeated delivery, two workers, a crash, a silent worker, a cancellation | `ConcurrencyLimits`, `AcceptedOnce` |
| `automation_cancel` | one item, a cancellation | finds `CancelledAsATree` violated |
| `canvas_replicas` | one canvas in two replicas: never opened, with a fault; or stored and projected before, with a checkpoint; and a deletion; fair | `NothingLeftToProject`, `EvictedStaysGone`, `ProjectionNeverGoesBack`, `EveryEditIsProjected` |
| `canvas_crash` | one replica, two edits, a crash | finds `AcceptedIsRecoverable` violated |
| `trigger_outboxes` | two workers; a webhook called with two keys and one payload, or a listener; with or without a schedule; crashes, expired leases, pauses, rebindings; fair | `OneRunPerDelivery`, `EventReachesListeners`, `AlertsTellTheTruth`, `EverythingSettles` |
| `video_pause` | three segments, two transports | finds `PausedStaysPaused` violated |
| `graph_restart` | a loop that ends in an optional input; a retry, a death | finds `EveryResultIsCurrent` violated |

The instance of `services`: a media job of two files, two deliveries and a
worker with two slots (so a stale executor and its successor coexist); one
replica with an edit of a user and one of the internal API, a trouble and a
checkpoint; two uploads of a byte into a workspace of two, two requests that use
files, two drainers, two troubles; two windows on three versions, of which one
may be pinned, with no history kept that nothing refers to; two releases, two
choosers; four graphs (the shipped template's loop, one the validation must
refuse, two loops in a row, and one whose loop is not tight) with a retry, two
attempts of a step and two deaths; four generations of two nodes under a limit
of two, two of them one request sent twice; three segments of two sources and
three transports; two windows with two canvases, three fields and three
incidents.

Why these bounds are enough. Races between executors of a row are between a
stale one and the owner, so two deliveries suffice; the third in
`generation_submission` is needed because one executor must erase what a second
did before a third repeats it. Generations do not share rows, so one is enough.
Media jobs interact through dependencies and through the quota, which two jobs
exhibit. Two finalizations are enough for every check-then-act race of saving
and settling. Two files make "half published" possible. In
`automation_admission` the runs carry no work, so that five of them fit; what
they do meanwhile does not touch admission. An outbox row is fought over by the
owner whose lease expired and the one who claimed it then: two workers. Webhooks
and listeners share only the table of deliveries, so one of them exists at a
time; of a schedule it matters only that it is due, so one is enough, and the
two webhook keys carry one payload because others do not meet. A replica that
sends late and one that stores meanwhile make two replicas. Where a theorem of
section 5 states the same property, the bounds no longer matter.

`CHECK_DEADLOCK FALSE` everywhere: when all jobs have ended and nobody orders
another, the system rests.

Every property of a passing run has a mutant in `PROJECT.json`: a definition
replaced by a variant with a plausible slip (defined next to it and named after
it), under which TLC finds that property violated.

### Fairness

Media: an executor that is alive goes on, since each of its awaits has a
deadline; the tick repeats recovery, claiming and collection every second; a
lease nobody renews expires. Users, crashes and stalls are not fair.

Generations: the worker ticks every five seconds, which makes the drain (a
recovery that sees every task recorded before it, `RequeueStale`, `Claim`), the
polls and the sweep weakly fair, and time passes; a transaction that has read
also writes. A poll is strongly fair since calls of the bounded set
`Calls` may keep it waiting in the model only. Accepting and saving are strongly
fair for finalizations that carry a final outcome: crashes may interrupt any of
them, but not all for ever. The provider ends its tasks and, while the task is
unknown to the database, repeats its callback; once it is known nothing is
assumed of callbacks, the polls do the work. A `Stall` and a `Crash` are never
fair.

Automation: the automation worker repeats its drain, and `runDrain` goes on with
the executions it started; every await of an execution has a deadline. So the
executions of a living worker, its claims and its recoveries are weakly fair,
and so are the ageing of a run whose worker is dead and the second statement of
a release that has begun. Requests, cancellations, crashes and heartbeats are
not. Some worker survives (`MaxCrashes` is less than the number of workers),
which stands for the supervisor that starts the process again.

Canvases: users go on with their edits, a room that has something to store
stores it, and each replica drains the outbox on its timer; so applying an edit
and the steps of storing and projecting are weakly fair for every replica.
Faults, checkpoints and deletions are not. `calm` excepts canvases that two
replicas had open or were opening at once, or that met a fault, `reseeded` a
bootstrap that lost to another.

Triggers: `worker.ts` repeats its cycle, and the supervisor starts it again; so
what each worker does next is weakly fair (a worker that crashes begins a new
cycle), and so is the passing of time. Requests, crashes and late leases are
not. `EverythingSettles` excepts `Starved`: see the observations.

`EveryGenerationEnds` names what it excepts. `Lost`: the request never reached
the provider and nobody can know; the code keeps the generation in `reconciling`
on purpose, and it stays there. `Stranded`: see the hazards. `Blank`: a callback
reported a success without a result; the worker's filter skips such a row and
only a client's poll can end it. `forgotten`: the first finding below.

## 4. Findings

**A superseded attempt can cause a second paid submission**
(`generation_submission`, `src/lib/generation-dispatch.ts:131`). Migration 010
says of the receipts: "A lost provider response must not become another paid
submission." The reset of `submitted_at` after a 429 is not guarded by the
lease. Attempt 1 stalls while uploading a reference; its job is requeued;
attempt 2 marks and submits; attempt 1 wakes, its upload gets a 429, and it
clears the mark. If attempt 2 dies or stalls before it records the answer,
attempt 3 finds no mark and submits again. The other properties of the
submission hold except after such a reset, which the history variable
`forgotten` records; with it `PaidOnce` is proved for every number of attempts.

**A child can outlive the cancellation of its tree** (`automation_cancel`,
`src/lib/automation-workflows/runs.ts:727`). `executeBoundSubworkflow` asserts
that the parent is active, then materializes inputs, then inserts the child as
running, with no condition on the parent. After a cancellation in between,
nothing ever tells the child: its monitor and its guards read its own row. It
makes its calls and completes. The document says a cancellation is propagated
"instead of letting provider work continue unnoticed"
(`docs/AUTOMATION_WORKFLOWS.md:85`).

**A crash can lose an accepted edit** (`canvas_crash`,
`collaboration/server.mjs:333`). `persistDocument` encodes the state first and
reads the newest journal id later, inside its transaction. An update journaled
in between is not in the state, but the id stored with the state covers it, so a
load after a crash does not replay it. The comment of `beforeSync` (line 702)
says a crash can lose a snapshot in memory "but not an accepted user operation".
While nothing fails the edit is still in the room and stored next time:
`AcceptedIsHeld`. That needs one replica at a time, loads included: a replica
that read the row between two such stores of another one joins without the edit
once the other has unloaded, and its next store overwrites it. No process dies
in that history (`calm` is false in it).

**A paused clip plays again** (`video_pause`,
`src/lib/segmented-video-controller.ts:245`). `pause()` keeps the command's id
and drops its `AbortController`, so `isCurrent` stays true for it. A `play()`
promise that the pause rejects enters the catch of `playPreparedDeck`, waits for
data and plays again. The class comment says a late promise "cannot revive that
clip".

**A restart keeps a result of an earlier pass** (`graph_restart`,
`src/lib/automation-workflows/runtime.ts:451`). An output carries the epochs of
the gates whose values it read, not of the gates above it. A step below a Retry
gate that ran without its optional value of the loop carries none, and after a
retry and a worker's death its first output is kept although the loop now sends
it a value. `ResultsStayCurrent` says when results are current, and is proved.

Observations made while modelling, without a run of their own:

- A refund by the sweep is followed by a settlement when the late result is
  saved and reported again (`generation-state.ts:480`; the comment at 491 calls
  the refund final). Whether anything is charged is up to the usage
  authority.
- A timeout and a cancellation read the receipt without a lock
  (`generation-lifecycle.ts:49`, 73). The owner of the job may mark its
  submission right after (`generation-receipts.ts:10`): the provider then takes
  work whose reservation is refunded. `NoWorkAfterTheEnd` excepts such
  generations by name (`overlooked`).
- A task recorded between the first two statements of the recovery leaves a job
  dispatched while its generation has no task (`generation-receipts.ts:42`, 44)
  until the next recovery; a cancellation meanwhile is charged, rightly.
- A slow second recovery releases the reservations of the run's next owner
  (`runs.ts:565` calls `releaseOpenAutomationRunBudget` whether or not its
  guarded update found the run), and with three workers two calls can then be
  charged under a cap of one (`docs/AUTOMATION_WORKFLOWS.md:99`). `LedgerAgrees`
  still holds, since the column follows the reservations.
- A release of a child's budget has two statements (`runs.ts:441`, 443) and not
  the lock that reservations take (391). A reservation of the child between them
  stays open, but the column is zeroed: the tree then spends over its limit by
  that call. `LedgerAgrees` excepts such children by name (`overtaken`) and
  still says that no run counts too much.
- No occurrence of a schedule gets a delivery. `next_fire_at` is read as
  PostgreSQL's text of a timestamptz (`relational-db.ts:11`; its comment says
  that domain code still receives ISO strings), and the `z.iso.datetime()` of
  the envelope refuses it inside the transaction that claims the occurrence
  (`trigger-envelope.ts:15`, `triggers.ts:252`). So every due schedule throws in
  every cycle, and the three outboxes, which are drained after it, wait until it
  is paused.
- Two webhook calls with different keys and equal payloads have two deliveries,
  and one run if the first is still active when the second is admitted
  (`runs.ts:251`); `OneRunPerDelivery` says at most one, not one of its own.
- The end of a drag writes all that changed on the screen since its start, a
  collaborator's edits included (`CanvasApp.tsx:1290`); Undo (962) writes a
  whole snapshot, after a cold switch (2377) one of another canvas.
  `OnlyOwnChangesWritten` (`CanvasWindow`) states what one would expect.
- A node that is dropped where it was picked up is not written
  (`CanvasApp.tsx:1289`). If a collaborator's move of it was painted during the
  drag, the screen keeps the old position and the document has the new one,
  until the next update is painted; `ScreenIsDocument` excepts it by name.
- `db.transaction` returns a function that the TikTok import and an MCP service
  never call (`api/import/tiktok/route.ts:34`, `mcp/service.ts:1236`,
  `relational-db.ts:119`): the project is not marked imported.
- A save or a restoration in a window that loaded earlier brings an archived
  workflow back (`repository.ts:528`); an activation checks the workflow before
  it takes the lock (`triggers.ts:98`).
- A dead request or drainer leaves an upload session `completing` or `aborting`,
  and nothing gives its bytes back (`storage-lifecycle.ts:163`); a lost answer
  to the commit deletes the object of a committed asset
  (`api/assets/uploads/complete/route.ts:70`).
- A media upload that comes after the collector deleted and forgot its old row,
  of a stalled process or under a long transfer deadline, leaves an object no
  table names (`media/executor.ts:164`); `overdue` in `MediaQueue`.
- A success reported without a result leaves the count of active generations and
  comes back when a poll or a callback reopens it (`generation-capacity.ts:7`,
  `generation-state.ts:435`): a workspace can then pass its limit, and a node
  marked exclusive can generate twice.
- TikTok jobs are fenced by the worker's id alone
  (`tiktok-automation-jobs.ts:263`).

## 5. Proofs

Every proof holds for all values of the constants that satisfy the assumptions
their module declares (finite sets of rows and of workers are not assumed unless
said): any number of jobs, runs, uploads, replicas, graphs, retries, crashes.
Theorems with a run property are listed in `PROJECT.json` with it; where a run
and a theorem state the same thing, TLC has also found a mutant that breaks it.
The theorems speak of the safety part of each specification (`Safe`, `Spec`,
...), hence of the fair one too.

`SumTheorems` has what quotas need: `SumUnrolls`, `SumTakesOut`, `SumAdds`,
`SumAgrees` (sums of functions that agree), `SumSplits`. The library's induction
takes an operator as a parameter; here the smallest counterexample (`Smallest`),
whose proper subsets are none, does the same.

### MediaQueueProofs

- `TypeCorrect`; `PublishedObjectsNeverLost` (`PublishedObjectsStay`) and
  `OwnersKeepTheirStaging` (`OwnerKeepsStaging`). The invariant is `StagingInv`.
  `PublishedObjectsStay` alone is not inductive: a publication makes objects
  visible, so one must know that what the current executor staged is stored and
  not in the collector's hands. It is not because the collector only ever takes
  rows of a lost fence or of a job at its end, and this cannot change later:
  fences only grow, and a stopped job comes back under a larger fence
  (`FencesGrow`, `CollectorOrigin`).
- `OneOwnerAtATime` (`OneOwner`) follows from `FenceUnique`: a claim hands out a
  fence larger than any issued before.
- `StoredStaysTracked` (`StoredIsTracked`): a row disappears only when the
  collector deleted its object, and an upload still to come then is `overdue`
  (`RowsBehind`, `UploadTracked`, `CollectorTakesOld`).
- `ResultsAreWhole` (`PublishedAsAWhole`): `DoneRight` and `WinnersFinished`; a
  publication is by the fence of the row, and all files of that fence are
  staged.
- `DependenciesComeFirst`, `AttemptsLimited`: what a step may do to a row
  (`RowRule`), then one line each.
- `QueueKeepsContract` (`KeepsContract`): every step is a step of `FencedJobs`
  or a stutter, by `FenceRule`.
- `QuotaIsAccounted` (`QuotaAccounted`): `AccountInv` says who holds a
  reservation (`Holders`) and that `reserved` is their sum (`Recorded`).

### GenerationDispatchProofs

`StepRows`, `FinalizeRows`, `GenerationRowsStep` and `DrainRows` say once what
each part of the code may change in a row; the invariants use them instead of
the actions.

- `TypesCorrect`: `TypeOK` alone is not inductive. A poll asks the provider for
  the task of the row, so one must know that a task in a row, a receipt or the
  hands of an executor is one the provider accepted (`TasksAccepted`).
- `EndingHeld`, part of the type invariant: what a timeout or a cancellation has
  read of the generation's row still holds when it writes, since the row is
  locked (`HeldRows`). Of the receipt, which is not, it holds unless the
  submission was `overlooked`.
- `DispatchKnowsTask` (`DispatchedHasTask`): the task of a dispatched job is
  kept by the generation or by its receipt. `ResultStoredOnce` (`StoredOnce`).
- `SubmittedOnce` (`PaidOnce`), by `ShotInv`. An attempt is a `Shot` when its
  request may be under way (a refused one counts until its refusal is handled)
  or its task was accepted. There is at most one shot, and while there is one
  the mark is set. A mark is only set when none is; a refusal clears the mark of
  the attempt that was refused, whose shot is then gone; any other reset makes
  the generation `forgotten`.
- `ChargedOnlyForWork` (`ChargedForWork`): a finalization that settles has seen
  the result stored (`SettleHasAsset`), and a cancelled generation stays
  cancelled because nothing can claim or commit its job any more
  (`CancelledLeavesQueue`).
- `PaidWorkIsKept` (`PaidWorkIsNotDropped`) and `NothingAfterTheEnd`
  (`NoWorkAfterTheEnd`), by `SubmitInv`. Take generations with a receipt nobody
  erased (`Remembered`). While a submission is on its way its receipt waits for
  the answer, which blocks refund and every later attempt (`Posted`), and a
  timeout or a cancellation that has not read the receipt yet: so whatever the
  provider accepts, it accepts while the reservation is held, unless it was
  `overlooked`. The owner of a job gives up only what was never submitted
  (`FailsUnsent`), and the owner that submitted finds the generation open and
  without a task (`OwnedOpen`): whoever binds the task or ends the generation
  takes the job away from it. What remains is failed by timeout or cancellation
  (`GivenUp`).

### AutomationRunsProofs

`RowSteps` says once what a step may do to a row (it is kept, ends, is requeued,
accepted, taken or created), `ExecSteps` and `ExecFate` what becomes of the
executions.

- `TypesCorrect`, by `TypeInv`: a chosen row is locked by one claim and may
  still be claimed, and items stand at other places than calls and belong to
  roots.
- `ChildrenNeverQueued`; `RequestsAcceptedOnce` (`AcceptedOnce`); `LimitsKept`
  (`ConcurrencyLimits`, for finitely many requests), which is inductive as it
  stands: of all steps only the admission of a claim makes a root run, and it
  counts under the lock.
- `TerminalForEver` (`NoResurrection`), by `FreshInv`. The only write that does
  not look at the status of its row is the insertion of a child, so one must
  know that it inserts a new one: a claim has one execution (`ClaimUnique`),
  later claims have no children yet, and an item not yet started has none of
  this claim.
- `LedgersAgree` (`LedgerAgrees`): the column moves with the reservations, one
  at a time, if a reservation made is a new one and one released was there. So a
  unit of a claim reserves once (`Unreserved`), a claim or a child to come has
  no reservation yet (`OpenKnown`), and a run between the two statements of its
  release has none unless it was overtaken (`Quiet`).
- `AttemptsLimited` and `OwnersExclusive`, by `OwnersInv`, for any `Stalling`
  and every run that no recovery took from a living worker (`seized`). An
  execution under way is that of the row's last claim. An entry of an old list
  of stale runs that names a living worker names a run that this worker still
  has, or that has ended: to requeue it now is to seize it. If it names a dead
  one, the entry has the attempts of the row, or the row another worker. So the
  guard on the worker id alone is enough until a worker loses a run and lives.
- `SuccessesAreReal` (`SuccessIsReal`), likewise: what an execution has done is
  stored (`Earned`, `Whole`; this half for every run), by the row's last claim
  (`OfLastClaim`), and an item has one completed child (`Single`). And
  `PromptsNotReplayed` (`NeverReplayed`): only a run that is executed or has
  ended has an uncertain usage (`PendingKnown`), and a prompt whose call is to
  come is neither stored nor uncertain (`Unplayed`); for children even if their
  root was seized.

### EditorProofs

`TypeCorrect` needs that the journal is a suffix of what was written
(`JournalIsSuffix`). `CopyIsMonotonic` (`ProjectionNeverGoesBack`) is inductive.
`DeletedStaysDeleted` (`EvictedStaysGone`), by `GoneInv`: after the eviction
every store is refused by the tombstone, since nobody holds the row's lock past
that check. `ProjectionConverges` (`NothingLeftToProject`), by `ProjectionInv`:
until the bootstrap there is nothing to project (`NothingYet`), equal revisions
are equal graphs wherever they are (`SameRevisionSameGraph`), and either the
outbox holds the newest graph or the copy does (`Projected`).
`AcceptedEditsAreHeld` (`AcceptedIsHeld`), by `HeldInv`: while one replica is
active, its load is still the stored row, its room shows every accepted edit,
and what it is storing is what the room shows unless the room is dirty again
(`Attended`); without a checkpoint no store is overtaken (`FirstEpoch`). Journal
ids play no part in it: they matter when a process dies or two replicas overlap.

`WindowShowsItsDocument` (`ScreenIsDocument`), by `PageInv`: a page that is
still hydrating is not synced, so no stale copy is painted over a document; a
synced page differs from its document in the dragged field and in those a drag
left where it began (`unwritten`); and what is dragged was there when the drag
began (`DragStarts`), so that its end is either a difference, which is written,
or the old position again.

`VideoPlaysTheLastCommand` (`OnlyTheLastCommandPlays`) and `VideoPlayingGoesOn`
(`PlayingGoesOn`), by `VideoInv`: only the deck that has taken over plays, and
it plays the latest command's source (`PlaysCurrent`); what waits on a signal is
of the latest command, which has one operation (`Numbered`) that owns its deck
and takes over what it found (`OwnsDeck`); once the command is armed that
operation has returned (`Armed`). The second theorem rests on `Armed`: no
operation is left that could take over, and a stale one owns another deck.

### TriggerDeliveriesProofs

`Outcomes` says what a step may do to a delivery. `AlertsAreTrue`
(`AlertsTellTheTruth`), by `Truthful` and `ReplaysAnswer`: a replay answers a
dead letter, and a dead letter stays one. `RunsOncePerDelivery`
(`OneRunPerDelivery`), by `RunInv`: the run a worker is about to acknowledge
exists and is of a delivery `Alike` (`Answered`), and that stays so since a
delivery once listed keeps its version (`ListedStays`, `AlikeStays`).
`EventsReachListeners`, by `Covered` and `OwedListen`: of the listeners an event
is owed to, each has its delivery or is still in the hands of the worker that
owns the event.

### WorkspaceProofs

`AdmissionIsLimited` (`AdmittedOnceWithinLimits`): transactions that count hold
the lock (`OneAdmits`), a key has one generation (`OnePerKey`, `OneResult`), and
what is about to be inserted has room among the generations that were not
reopened (`HasRoom`, `FreshFor`). `BytesAreCountedOnce`: the
columns are sums over the sessions and the assets. `FilesStay` (`FilesAreKept`):
an object key goes one way, from its session to its asset (`KeysGoOneWay`), and
a deletion that is due is of an object no longer used (`DeletionsAreDue`).

### WorkflowProofs

`SystemGraphStaysCurrent` (`SystemGraphIsCurrent`): one transaction of either
kind is past its check (`OneChecks`), a choice that may commit was made of the
published version, an upgrade publishes what its template says. `HistoryIsKept`
(`HistoryKept`): the rows tell which version is the draft and which is published
(`RowsTellHistory`), and pruning takes expendable rows only.

`ResultsAreCurrent` (`ResultsStayCurrent`) is the deepest of them. "Below a
gate" is a reachability, defined by iteration as in the code; it is proved to be
the least set closed under the edges (`BelowIsLeast`). The invariant says that
the results follow from each other (`Sound`: there is a part of the graph,
closed under predecessors, in which every step has a result computed from what
its inputs hold, or lacks an input, and no other step has a result); that the
process holds what a restart would keep (`Kept`, `InStep`), or has just sent a
gate round again and has dropped its loop, which the database has not
(`Turning`); and which epochs a result carries (`Headed`, `Marked`). In graphs
whose loops are tight it survives deaths of workers; in the others it holds
until the first (see the finding).

## 6. What is not proved, and what is not modelled

Only model-checked is liveness under fairness, which is beyond this prover:
`EveryJobSettles`, `LeftoversCollected`, `EveryGenerationEnds`, `EveryRunEnds`,
`EveryEditIsProjected`, `EverythingSettles`.

`AutomationRuns` keeps `AttemptLimit`, `OneOwner`, `ChildrenStayWithParent` and
`NoResurrection`, `MediaQueue` `OneOwner` and `AttemptLimit`,
`GenerationDispatch` `DispatchedHasTask`, as theorems without a run.

`PROJECT.json` lists every hazard at its line. Those no property covers: a
refused submission leaves a generation `reconciling` for ever (`Stranded`);
ownership of runs by worker id; the compacting mark of a checkpoint that died;
the corrected value of a Retry route, kept in memory; and the observations of
section 4 on the import, the sessions, the lost commit and the drag. Ownership
is the one to know. A process that was silent long enough for its run to be
requeued, and that has a free slot when it wakes, can claim that run itself. Its
old execution then passes `assertRunActive` again, as both carry the same id,
and two executions own the run. Four properties except such runs by name
(`seized`); their theorems assume nothing about silence. `automation_recovery`
is checked with `Stalling = {}`: silence multiplies its states beyond a run's
time. `automation_admission` has a silent worker.

Not modelled: the MCP server and OAuth (codes, token rotation, edits with read
receipts; their writes to a canvas enter `CanvasDocuments` as `ServiceWrite`);
TikTok automation, an older queue beside automation workflows;
`retryAutomationWorkflowRun`; the counters of the rate limits; the migration
runner; settings and port types of graph nodes. Left out for good: media
processing (ffmpeg command lines, probing) and the launcher, pure I/O; pages and
thin routes; provider catalogues and pricing tables; prompt construction.

Next: that `TriggerDeliveries` implements an abstract outbox as `MediaQueue`
implements `FencedJobs`.
