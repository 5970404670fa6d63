# Verification of the Jurisgentic drafting backend

TLA+ models of the parts of this repository that keep state across calls
(FastAPI handlers, taskiq workers, Redis task stores, Postgres rows, objects in
R2, the browser's store), model-checked with TLC, with theorems checked by
TLAPS. Paths below are relative to `src/backend/src/` unless they start with
`src/`.

Contents: 1 the system; 2 what is modelled; 3 the modules; 4 the runs;
5 bounds; 6 fairness; 7 what the code does not do; 8 proofs; 9 abstractions;
10 known exceptions; 11 not modelled; 12 plan.

## 1. The system

One FastAPI process (or several) and a set of taskiq workers share Redis
(broker list, task records, queues, event streams), Postgres and an object
store (R2). The React frontend takes a snapshot and then follows a Redis stream
through SSE. Attorneys draft documents from templates; paralegals make the
templates in a studio; court notices that arrive by mail become cases.

| component | state | operations | talks to |
|---|---|---|---|
| **v2 template drafts** `core/components/pleading` | Redis: a JSON record per task (2 h TTL), the user's set of ids, a cancel flag per task, a FIFO of parked ids. Postgres: `case_generation_logs` | routes `start`, `submit-input`, `use-existing`, `regenerate`, `cancel`, `DELETE`; jobs `run_template_draft`, `run_template_draft_resume`; `_try_drain_user_queue` | broker, drafting engine, event stream |
| **v2 event stream** `events.py`, `sse.py`, `src/frontend/src/stores/useTemplateDraftStore.ts` | a capped Redis stream per user; the client's last id; the store of the tab | `emit`, `emit_removed`, snapshot, resume from `Last-Event-ID`, the store's merges | every writer of a record; the browser |
| **v1 pleading tasks** `tasks/task_state.py`, `tasks/pleading_tasks_taskiq.py`, `tasks/orchestrator.py`, `routes/pleadings.py` | a JSON record per task, the user's set | create, update, set input, submit, set result, set error, cancel, delete, stale clean-up; jobs extract, resume, generate | broker, agents, R2 |
| **v1 review tasks** `tasks/review_*.py` | a record per review, the user's and the session's set | start under a cap, progress, finish, cancel, delete, clean-up | broker, parallel reviewer |
| **composer runs** `core/studio_v2/composer/async_run` | as v2 drafts, without log rows; an upload blob per task; rows of `templates_v2` and `template_fields_v2` | start, cancel, dismiss, drain; jobs generate, regenerate | broker, composer agent |
| **dry runs** `core/studio_v2/dry_run/async_run` | as v2 drafts, with the values of the pause and the user's picks in the record | start, submit, resume, cancel, dismiss, drain | broker, field resolution |
| **field resolution** `core/studio_v2/orchestration` | the values resolved so far, the envelopes waiting for the user | two passes, a pause, three passes; the publish gate | agents |
| **templates** `core/studio_v2/{api,repositories,services}` | one row, its field rows, a marked document in R2, a published snapshot | save, publish, role, delete, generate, regenerate | composer runs, R2 |
| **case inbox** `core/components/case_inbox` | rows ingesting / ready / accepted / archived / failed; petitions in R2 | ingest cycle, archiver, accept, summon, dismiss | Gmail poller, cases, R2 |
| **cases** `core/components/cases` | filed and unfiled cases, documents in R2 | creation from a petition, promotion of an unfiled case | R2, inbox |
| **billing** `billing/` | subscriptions, firm status | checkout, portal, webhooks | Stripe |
| **bundling, v1 orchestration** `core/agents/orchestration`, `core/studio_v2/orchestration/bundling.py` | none that outlives a run | merging packets, picks, finalisation | LLM |
| chat, chatbot, collaboration, auth, firms, settings, gmail, dashboard | rows | request and response | Postgres, LLM, Gmail |

### What is hard in it

- **No lock and no transaction around a record.** Every operation of the task
  stores is GET, change the Python object, SETEX, with an `await` in between.
  Handlers and jobs overwrite each other with what they read earlier.
- **Check then act.** The dedup guard, the concurrency count and the queue size
  are read before the record is created; the drain counts before it pops; the
  publish gate validates rows that a save may change before the snapshot is
  stored; the inbox looks at a row and at a case before it moves them.
- **At-most-once messages.** The broker pops a message and hands it out
  (`ListQueueBroker`); nothing retries. v1 has a clean-up for what is lost, v2
  has only a TTL.
- **Two stores.** A log row and a record, a document and its field rows, a
  petition and its case are written one after the other.
- **Cancel is advisory.** A flag that a worker reads at few points; the status
  field is not what stops a worker.
- **Order of what the browser hears.** Events, snapshots, lists and answers of
  calls carry copies of a record that can overtake each other.
- **Order of resolution.** A field may be derived from a field that is derived,
  and ask for one that waits for the user; passes go in index order.

### What makes each component correct

- v2 drafts: a parked draft waits once, in order, and is handed to one job; a
  request costs one engine run; a COMPLETED task shows a document of its own
  case and template; what is cancelled comes to rest; work ends.
- event stream: nothing is lost between snapshot and stream, the tab never goes
  back in time, what was removed stays away, the tab converges.
- v1 tasks: whatever is lost or undone, no task works for ever; a cancelled one
  is not listed again; what is finished and at rest stays finished.
- composer and dry runs: the upload of a parked run waits for it as long as its
  TTL allows, a completed generation has its fields, a resume finds what it
  needs, runs end.
- field resolution: nothing is derived before its parent, nothing asked before
  the pick it needs, blank or not, nothing derivable is left out, the gate
  accepts exactly the specs that can be ranked.
- templates: what is published passes the gate; the paralegal's saves survive
  re-extraction; nobody starts to write a deleted template; document and fields
  agree; the "Live" pill lies in four known cases only.
- inbox and cases: a petition is seen once, no row is stuck, a row that can be
  accepted has its petition, a filed case has its petition, and what is decided
  stays decided.
- billing: the firm's status is that of its newest subscription state.

The hazards, each at its line with the properties that cover it, are listed in
`PROJECT.json`; section 10 names what the code does and no property forbids.

## 2. What is modelled

Seven machines, one abstract specification. In all of them a handler, a job or
a cycle is a **process** and an action is **one call** to Redis, Postgres, R2,
the broker or an agent, together with the local computation up to the next
`await`. What the Python frame holds (the next call, the record it has read,
what it will write) is part of the process, so TLC can put any other process
between a read and the write that follows it. A repository method that is one
transaction is one action, but for the methods that write a `templates_v2` row:
they SELECT, read the time, and UPDATE by primary key at their commit, under
READ COMMITTED and without a lock, so SELECT and commit are two actions.

### v2 drafts: `DraftPipeline`

All six mutating routes, both jobs, the drain, the whole task store
(`state.py`) and the log rows, for **one user**: every Redis key carries the
user id and no operation reads another user's keys.

| variable | in the code |
|---|---|
| `records` | `core:pleading:task:{id}`; status `NONE` is an absent key |
| `listed` | `core:pleading:user_tasks:{user}` |
| `flags` | `core:pleading:task:{id}:cancelled` |
| `queue` | `core:pleading:queue:{user}` |
| `rows` | `case_generation_logs`, in order of creation; `doc` is `r2_object_key` set |
| `proc` | frames of the handlers, messages in the broker, frames of the jobs |
| `issued` | uuids that were handed out |

| actions | code |
|---|---|
| `Start`, `CountActive`, `CheckQueueSize`, `Create`, `Park`, `Kick` | `start_template_draft` call by call |
| `SubmitInput`, `UseExisting`, `Regenerate`, `Cancel`, `Dismiss` | the other routes up to their first write |
| `RemoveFromQueue`, `SetCancelFlag`, `FindForDelete`, `Delete` | the rest of `cancel_task` and `dismiss_task` |
| `Fetch`, `Store` | the GET and the `_persist` of every `set_*`; `Updated` is the change, `Then` the code after it |
| `BeginDraft`, `CheckExisting`, `InsertRow` | `_run_template_draft_impl` up to the engine |
| `BeginResume`, `LoadForResume`, `MarkRowDrafting` | `run_template_draft_resume` up to the engine |
| `EngineFails`, `EngineAsks`, `EngineDelivers`, `DropResult`, `KeepResult` | what both do with the engine's answer |
| `DrainCount`, `DrainPop`, `DrainPeek` | `_try_drain_user_queue` and `state.drain_queue` |
| `Crash`, `Expire` | a process dies between two calls; a key reaches its TTL |

### The browser: `EventStream`

What one tab sees of the draft tasks. A record is its `updated_at`, the only
thing the store compares. The writers are the jobs and the tab's own calls:
`Load`/`Store` a read and a write, `EmitRead`/`EmitAppend` the two calls of
`emit`, `Delete`/`Unlist`/`EmitRemoved` a dismissal. `XAdd` appends and trims.
The connection is `Connect` (choose `start_id`), `SendSnapshot`,
`HandleSnapshot` and `HandleEntry`. `LoseConnection` is followed by a resume
from `Last-Event-ID`, or by `GiveUp`: `EventSource` is CLOSED after an answer
that is not 200, the service then stops
(`src/frontend/src/services/templateDraftEvents.service.ts:119`) and nothing
reads the stream until `Remount` or `Reload`, which start without an id.
`UpsertTask`, `RemoveTask`, `ApplySnapshot` and `LoadActive` are the merges of
`useTemplateDraftStore.ts`; `Answer` and `AnswerLost` what becomes of a call,
with the optimistic stamp that some calls put into the store.

### v1 tasks: `PleadingTasks`

`PleadingTaskState` keeps a task as one JSON value. Its sixteen mutating methods
have one shape, a GET, a check, a change of the copy, a SETEX, so they are one
pair of actions (`Read`, `Write`) over a table: what a method accepts
(`Accepts`), the status it sets (`StatusAfter`) and what the job does next
(`AfterUpdate`). The jobs are paths through these updates with their checks of
`is_cancelled` in between; the routes are `UserActs`; `Cleaner` is the
scheduled clean-up; `Die` loses a job or an enqueue.

### Composer and dry runs: `StudioRuns`

The two services mirror each other, so one module follows either (`service`).
Records, flags, queue and drain are as in the draft pipeline, with what differs:
no drain after a cancel, uploads staged in Redis and deleted in a `finally`
clause that runs after the drain, the upload's own TTL (`Expire`), which no
promotion renews, dismissals in any status (`Dismiss`, then `Delete` of the
record and `Clear` of the other keys), the two transactions of a generation
(`Work`, `InsertFields`), the pause and the picks of a dry run.

### Field resolution: `FieldPipeline`

A run of `orchestration/pipeline.py` over any list of fields. `Root` and `WaveB`
are the classification, `Due` what each of the five passes dispatches, `Visits`
the loop of a pass in index order, `Submit` the pause (each pick made or not,
and any of those made blank: an empty selection or text is a row that is passed
to nobody), `Valid` the structural part of the publish gate, `Sorted` its
topological sort. The initial state is **any** spec: a dry run takes its spec
from the request, unvalidated.

### Templates: `TemplateEditing`

One template, its field rows and its document, edited by saves (`Patch`,
`PatchParams`, `Touch`, `TouchCommits`), publishes (`Publish`,
`ListAndValidate`, `Store`, `StoreCommits`), role changes (`Bundle`,
`CheckRole`, `UpdateConfig`, `ConfigCommits`), deletion (`Delete`,
`DeleteCommits`) and the composer (`Create`, `CreateMany`, `RunAgent`,
`DiffApply`, `Bump`, `BumpCommits`), any of which may stop where its job fails.
`Selects` is the SELECT of a write, which asks for an active row, and `Commits`
its UPDATE, which does not. `marked` are the fields that have a placeholder:
virtual parents, which nothing is rendered for, are kept without one. Params are
reduced to what the gate looks at. `updated_at` and `published_at` are one bit,
`drift`; a writer's time is that of its SELECT, so of a publish and a mark that
overlap the later commit may carry the earlier time (`later`, `late`).

### Inbox and cases: `CaseInbox`

Ingest cycles walk over a notice's links (`Probe`, `Download`, `Fingerprint`,
`Insert`, `Upload`, `Settle`) and may die anywhere (`Abandon`); `Archive` is the
48-hour archiver; members accept, summon, dismiss and upload (`Match`,
`Target`, `Fetch`, then `CreateUnfiled`/`Shelve` or `Exists`/`Store`/`Create`,
or `Drop`/`Promote` for a merge, and `Mark`, `Clean`), and any call may raise.
`files` says which petition is in R2 under each case number and under each
unfiled case's id; an upload overwrites what was there.
Unique indexes and conditional updates (`WHERE status = ...`) are guards of the
actions that rely on them.

## 3. The modules

- `AdmissionQueue` is the abstract specification: a line of ids. An id is new,
  is being placed, waits, is being served, or is placed. Only the first in line
  is served, only ids that are being placed may join, at the end, and who left
  the line never joins again.
- `DraftPipeline`, `EventStream`, `PleadingTasks`, `StudioRuns`,
  `FieldPipeline`, `TemplateEditing`, `CaseInbox` are the machines of section 2,
  each with its properties at the end. `DraftPipeline!Line` instantiates
  `AdmissionQueue` with the refinement mapping: `fifo` is `queue` and `phase`
  is computed from `proc`, `queue` and `issued` (`PhaseOf`). `WaitsInLine` says
  that the pipeline implements it. Operators next to an action that change one
  thing of it ("Mutant", or a comment that says what is left out) are versions
  with a plausible bug; no specification uses them.
- `WaitingLine` is the LREM of a Redis list, which `DraftPipeline` and
  `StudioRuns` use; `WaitingLine_proofs` says what LPOP, RPUSH and LREM do to a
  line without repetitions.
- `MC...` give the model values, the functions and the symmetry sets for TLC.
- `<machine>_proofs`, one for each of the seven machines, hold the theorems and
  their lemmas.

The machines are not composed with each other: they share no key and no row.
`EventStream` abstracts the pipeline to writes of a record with a rising stamp;
`StudioRuns` knows of a template whether its row and its fields are there, and
`TemplateEditing` what is in them; `FieldPipeline` runs inside one job.

## 4. The runs

| run | instance | checks |
|---|---|---|
| `queue` | three starts of one case and template, one slot, a line of two, one request and one job at a time, resumes, adoptions, cancels | `RowPerRequest`, `ParkedOnce`, `QueuedIsFindable`, `CompletedHasDocument`, `OvershootIsBounded`, `WaitsInLine` |
| `requests` | one task, two requests and one job, every route, a regeneration, a crash, an expiry | `CancelledStays` |
| `live` | two starts, one slot, a line of one, fair | `WorkEnds`, `CancelStopsWork` |
| `follow` | one task, one job, one call, a stream that may be trimmed to one entry, one lost connection, for good or not, or page change, fair | `TypeOK`, `CaughtUp`, `NeverOlder`, `RemovedStaysAway`, `Converges` |
| `v1` | one task, one request and two jobs at a time, one fault, fair | `TypeOK`, `NeverStuck`, `NeverRelisted`, `FinishedIsFinal` |
| `studio` | three runs, two slots, a line of one, two jobs, cancels, an upload that expires | `UploadWaits`, `CompletedHasTemplate` |
| `studio_requests` | one run, two requests and two jobs, every route, fair | `TypeOK`, `ResumeComplete`, `RunsEnd` |
| `fields` | every spec of four fields with at most one query each, every set of picks, any of them blank | `ParentsFirst`, `ExtractorsSeePicks`, `NothingLeftOut`, `NothingDerivableLeft`, `GateAcceptsRanked`, `RunEnds` |
| `templates` | two variables, two requests or jobs at a time | `PublishedIsValid`, `DocumentMatchesFields`, `DriftShown`, `WorkIsSacred`, `DeletedIsFrozen` |
| `inbox` | two cycles, two notices that share a petition, two petitions that may bear one number, two members | `OneRowPerPetition`, `NoLimbo`, `SummonableHasPetition`, `FiledHasPetition`, `SettledIsFinal`, `FiledIsFinal` |
| `stranded`, `chained_derives` | the smallest instance that shows it | a sentence of the code that does not hold, section 7 |

What the properties mean, where the name does not say it:

- `ParkedOnce`: an id in the FIFO is there once, no job works on it, and it has
  no log row. So the LPOP of a drain gives a draft to one job.
- `QueuedIsFindable`: a QUEUED record is in the FIFO, or some process is about
  to park, promote or cancel it. A process that dies between creating and
  parking does lose it, so the property speaks of histories without a crash.
- `RowPerRequest`: log rows of a task never exceed one plus its regenerations,
  whatever drains, cancels and resumes race. With one job two resumes of one
  task never overlap on the run; of those the theorem speaks.
- `CompletedHasDocument`: the row of a COMPLETED record has an object and
  belongs to the same case and template. The run leaves out `regenerate`,
  dismissals and expiries, see section 10.
- `OvershootIsBounded`: the cap is counted before a task is created or
  promoted and can be passed, but only by the processes that counted together.
- `CancelledStays`, `CancelStopsWork`: a cancelled task at which no process is
  at work is not taken up again; work on a flagged task runs out.
- `CaughtUp`: a tab that has handled what its connection brought shows every
  listed task as Redis has it, or newer, unless somebody has written and not
  emitted yet. `NeverOlder`: what a tab shows of a task never goes back, through
  four ways of merging. `Converges`: it ends there once the writers rest,
  unless its `EventSource` has given up.
- `NeverStuck`: infinitely often a task is not in a working status, whatever
  job, enqueue or write was lost. `FinishedIsFinal`: a finished task at which
  nothing is under way is left as it is; a cancelled one even if its jobs wait
  in the broker.
- `UploadWaits`: the blob of a parked generation stays until its job has read
  it, whatever other jobs fail, finish or drain, unless the task is dismissed or
  the blob's own TTL is over. `ResumeComplete`: a resume
  message never meets a record without picks and paused values.
- `ExtractorsSeePicks`: an extractor that asks, through any number of queries
  and derivations, for a pick runs only after the pause, and is given each pick
  it asks for directly that has a value. The reference (`AsksForPick`) is stated
  with closed sets, not with the code's walks.
- `GateAcceptsRanked`: the gate's sort accepts exactly the specs whose fields
  can be ranked with each after what it needs.
- `DocumentMatchesFields`: a regeneration that no other ran beside leaves a
  placeholder for each field but the virtual parents, and no other.
- `DriftShown`: when the pill says Live the draft is what was published, but for
  four cases the code lets through (`untold`, section 10).
- `DeletedIsFrozen`: after a deletion has committed no write gets past its
  SELECT; those that were past it may still land on the row, and nothing makes
  it active again.
- `FiledHasPetition`: under the number of a filed case there is a petition in
  which that number was read. Not that of the winner: section 10.
- `NoLimbo`: a row is ingesting only while a cycle works on it or died on it.

The type invariant of every machine is proved (section 8); three of them are
checked on runs as well.

`CHECK_DEADLOCK FALSE` is said where the bounds end every behaviour (ids,
clock, budgets, MaxRegens) or where a run is over (`FieldPipeline`). `v1` has no
such end and is checked for deadlock.

## 5. Bounds

The code's caps are 20 running and 100 parked drafts; the models' 1 or 2 keep
the three regions that the code tells apart: below the cap, at the cap with
room in the line, line full (429). Races are between two frames that touch one
record, so two requests, or a request and a job, are the smallest instances
with all pairs; a FIFO of two distinguishes head from tail.

- `Tasks` bounds the starts in one behaviour, `Requests` and `Jobs` (`Workers`)
  what is in flight at one time. A kiq needs a free element of `Jobs`; a job
  that kicks a job ends with that call and gives its own element to the message.
- `MaxRegens`, `MaxCrashes`, `MaxExpiries` (records in `DraftPipeline`, uploads
  in `StudioRuns`), `MaxFaults` are 0 or 1: a second meets a state of the same
  kind.
- `EventStream`: `MaxClock` 3 stamps are a creation, a write and a write that
  overtakes it; `StreamMax` 1 trims at once; `MaxDrops` 1.
- `PleadingTasks`: `MaxQueue` 2 jobs in the broker, two of one task.
- `FieldPipeline`: `N` = 4 fields give a pick, a derivation of it, an extractor
  that asks for that, and one more in between; `MaxDeps` 1. `MaxHops` is 4 where
  the code has 50: a chain is then at most as long as the template, as in the
  code for templates of up to 50 fields.
- `TemplateEditing`: two variables are a parent and a derived field, a kept and
  a dropped one. `Virtuals` makes the parent the virtual one; the other field
  has a placeholder. Two handlers at a time.
- `CaseInbox`: `MaxRows` and `MaxCases` 2; one notice links to both petitions,
  the other repeats the first. Of the first petition the agent reads a number or
  none, of the second that number or another, so the two may claim one case.
  `Budgets` allow two notices taken up and three
  requests, or three and one.

Symmetry over requests, jobs, cycles and members is used in safety runs only.

## 6. Fairness

Fairness is assumed of what the event loop or a scheduler keeps running, never
of the user, of crashes, expiries, faults or lost connections.

- `DraftPipeline`, `StudioRuns` (`FairSpec`): weak fairness of the next call of
  every request and of every job (the event loop resumes every coroutine it
  started; a polling worker takes every message; the engine returns, raises or
  asks) and strong fairness of a kiq, which in the model may be disabled again
  and again by the bound `Jobs` while in the code an LPUSH always succeeds.
- `EventStream`: weak fairness of every writer's next call, of the connection
  (`EventSource` reconnects by itself until it gives up, which `Converges`
  excuses) and of `GET /tasks`.
- `PleadingTasks`: weak fairness of every job's and request's next call, of the
  clean-up's, and of its finding each task that stays active: it is scheduled,
  and a task nobody writes gets 15 minutes old.
- `FieldPipeline`: weak fairness of `Resolve`; the pause may last for ever.
- `TemplateEditing` and `CaseInbox` state safety only.

## 7. What the code does not do

Two runs each show a sentence of the code that its behaviour contradicts.

- `stranded` (`NobodyStranded`): a drain counts QUEUED records as active
  (`core/components/pleading/state.py:320`, `schemas.py:35`). With as many
  parked drafts as slots, every terminal transition sees the cap reached and
  promotes nobody; when the last running draft ends, the line stays. The
  instance has one slot and a line of one; with the code's caps it takes 20
  parked drafts.
- `chained_derives` (`ChainsResolved`): without a pick no pass is repeated, so a
  derivation listed before its parent, itself derived, gets no value
  (`core/studio_v2/orchestration/pipeline.py:125`), although the gate says that
  chains are allowed because "the resolver handles iterative passes".

## 8. Proofs

Every invariant and every action property of the passing runs is a theorem, and
so is the refinement. A theorem holds for every value of the constants, from the
module's named assumptions alone; three have a hypothesis of their own, given
below. For each invariant three facts are proved: it holds initially, every
action keeps it, it implies the property.

**`DraftPipeline_proofs`**, with crashes and expiries:

- `TypeCorrect`. The inductive invariant is `TypeInv`: `TypeOK`, and every
  process is well formed: it has a task unless it is idle or about to drain, and
  knows which write it makes exactly while it makes one.
- `ParkedOnceCorrect`. Whether a step can break `ParkedOnce` depends on who else
  works on the task. The strengthening is `LineInv`:
  - `NewInv`: of an id that was not handed out there is no trace;
  - `StartInv`: until its record is created, only one request knows a task;
  - `ParkInv`, `FifoInv`: one request parks a task, once, and the FIFO repeats
    no id;
  - `WaitInv`: nothing but a cancel or a dismissal touches a task that waits,
    and it has no log row;
  - `ServeInv`: a drain that popped a task has it for itself.

  Sixteen of the actions leave the line alone in the same way. They are `Quiet`
  steps of one process (`QuietActions`), covered by one lemma
  (`QuietKeepsLine`).
- `PipelineWaitsInLine == Spec => WaitsInLine`. The refinement, whole: initial
  states map to initial states, every step maps to a step of `AdmissionQueue`
  or to a stutter (`Refines`). `LineInv` gives `OneRole`: a task is placed by
  one request, or is in the FIFO, or is promoted by one drain, never two.
- `CancelledStaysCorrect`: from `TypeInv` and `LineInv`; a message in the broker
  meets the flag, and no drain holds a task that rests.
- `QueuedIsFindableCorrect`: a record becomes QUEUED once, when its request
  creates it. `QueuedInv` adds that of a QUEUED task only the request that parks
  it, requests that cancel or dismiss it and the drain that popped it are at
  work, and that no write about to happen would bring QUEUED back.
- `RowPerRequestCorrect`: `TallyInv` counts, for each task, its rows, the
  processes that hold the right to insert one, and one more while it waits in
  the FIFO; the sum never exceeds one plus its regenerations.
- `CompletedHasDocumentCorrect`, under `Undisturbed`: no `regenerate`, no
  dismissal and no expiry, since each takes a `log_id` away from a running job
  and the property is then false (section 10). `DocInv` splits the life of a
  task into phases that do not overlap: one process holds the right to a row, or
  an earlier document was found, or the row was attached and jobs draft. It says
  in each what record and frames know of the row. Cancels race with all of them;
  one that writes back a record without the `log_id` has raised the flag before,
  and the engine's result is then dropped.
- `OvershootIsBoundedCorrect`, under `Capped`: no route that takes a slot
  without counting (`regenerate`) or hides a running task from the count (the
  dismissals), and finite sets of tasks and processes. `LoadInv` counts the tasks
  that run or that a process at work may still make run, with the drains that
  have counted and not popped; when a count succeeds, every process stands for
  at most one of them beside the tasks that run.

**`EventStream_proofs`**, from `StreamAssumption`:

- `TypeCorrect`; `NeverOlderCorrect` with `ClockInv`: every stamp in a record,
  frame, entry, snapshot, list or store has been given out, so a fresh one is
  newer than all of them.
- `CaughtUpCorrect` with `DeliverInv`: while a connection is up, the newest
  record of every listed task is on its way to the tab: with a process that
  will emit it, in the unread part of the stream, in the snapshot under way, or
  in the store. It holds because `start_id` is read before the snapshot and the
  snapshot before the first XREAD.
- `RemovedStaysAwayCorrect`: no step but the answer of `loadActive` shows a task
  again whose removal was seen.

**`PleadingTasks_proofs`**: `TypeCorrect`, `NeverRelistedCorrect` and
`FinishedIsFinalCorrect`, from `TypeInv`, one case per action.

**`StudioRuns_proofs`**, for both services: `TypeCorrect`; `UploadWaitsCorrect`,
`CompletedHasTemplateCorrect` and `ResumeCompleteCorrect` from one invariant,
`RunInv`. Its parts: a new id has no trace, a started one has one request, a
waiting one is touched by bystanders only (`LineInv`), one process at most is on
the way to run a task (`TokenInv`), a task has one kind (`KindInv`), the upload
is there as long as anybody may need it and the `finally` clause of a job
concerns a task that has begun (`UploadInv`, `BegunInv`), the job of a
generation is past `fields` only with the template complete (`TemplateInv`), and
no writer that will store holds a copy older than the pause, or older than the
picks (`PauseInv`, `ResumeInv`).

**`FieldPipeline_proofs`**, for every number of fields, every spec and every set
of picks:

- `TypeCorrect`; `ParentsFirstCorrect`: what a pass dispatches has a parent with
  a row, and rows are never taken away, so the value it saw was the parent's.
- `NothingDerivableLeftCorrect`: the final pass ends only after a round that
  changed nothing, and in such a round what was passed by stays not due.
- `GateAcceptsRankedCorrect`: `Rounds` gives the fields that the sort has taken
  out after each round. If the sort takes them all, the round in which a field
  goes is its rank (`SortedIsRanked`); if there is a rank, a field of rank k is
  gone after round k at the latest (`RankedIsSorted`).
- `NothingLeftOutCorrect` with `SettledInv`: what the first pass has gone by
  waits for the user or has a row, what the wave-B pass has gone by has a row.
  This leaves only derivations, each waiting for another, which in a spec that
  the gate can sort is impossible (`NoneWaitsForEver`).
- `ExtractorsSeePicksCorrect`, under `N <= MaxHops`: `root_parent_stage_v2`
  gives up after 50 hops (`MaxHops`), so for a longer chain of derivations the
  classification is wrong and the property false. `PickInv` says that an
  extractor that ran before the pause is not of wave B, and that an extractor
  that ran has seen those of its picks that have a value. The lemmas
  `AsksDirectly` to `AsksIsWaveB` relate the code's walks (`Chain`, `Met`) to the
  closed sets of the property: a walk of `N` steps that adds a field at each
  step runs out of fields, so it has reached its closure (`QueriedClosed`,
  `HopsClosed`).

The recursive functions `Chain`, `Met` and `Rounds` are unfolded by showing that
a function with their equations exists (`Iterates`, `Tabulates`). The inductions
over the number of steps are inductions over a set of naturals (`UpTo`), which
follow from the least-number principle (`LeastNatural`, from `WFMin`), so no
operator is passed to a theorem.

**`TemplateEditing_proofs`**: `TypeCorrect` and all properties of the run.

- `PublishedIsValidCorrect`: the invariant adds `StoresAreValid`, a publish that
  is about to store has validated exactly what it will store. The proof shows
  why it matters that the snapshot is made from the rows that were validated
  and from no second read.
- `DocumentMatchesFieldsCorrect`: the invariant adds that of two jobs at work
  none counts as alone (`AloneInv`), that a save whose row is there finds it and
  writes params (`PatchInv`, so a save neither makes nor removes a field), and
  that the document of a lone job has the placeholders of what it extracted but
  for the virtual parents, and no other (`ApplyInv`).
- `DriftShownCorrect`: `DriftInv` adds that what is active, published or about
  to be was made. A step that changes the draft leaves a handler with an edit to
  tell of (`WillMark`); a commit that tells sets the bit, and one that is late
  and the last that could have told sets `untold`.
- `DeletedIsFrozenCorrect`, `WorkIsSacredCorrect`: one case per action. The
  first has to show of each SELECT that it stops at an inactive row and of each
  commit that it does not bring one back.

**`CaseInbox_proofs`**: `TypeCorrect` and all six properties of the run. The
invariant `IInv` ties a cycle to the row it inserted, a member to the case and
number it is about to write, and the petition to the status. For
`FiledHasPetition` it says that an upload only ever replaces, under a number, a
petition by one in which that number was read (`Documented` does not shrink).

Only model-checked: the liveness properties (`WorkEnds`, `CancelStopsWork`,
`Converges`, `NeverStuck`, `RunsEnd`, `RunEnds`), which rest on fairness and
`ENABLED` that TLAPS does not treat; and the two sentences that section 7 shows
to be false.

## 9. Abstractions

- `list_for_user` (SMEMBERS, a GET per id, SREM of stale ids) is one step on a
  snapshot. SETEX and SADD of `_persist` are one step: only `list_for_user`
  reads the set.
- Progress, titles and the engine's content are not in the records; nothing
  that is modelled branches on them. A request that its first read refuses
  (404, 409, 429) is not a step.
- Expiry in `DraftPipeline` is possible only for a task that waits for the
  user, the broker or the engine: two hours do not pass between two adjacent
  Redis calls. The TTLs of the other stores' records are left out; that of a
  staged upload is not, because it can end before its record's.
- `EventStream`: the clocks of browser and servers agree; an entry on the
  connection is one not read yet; trimming does not pass an open connection;
  `dismissedTaskIds` does not forget (the code forgets its oldest at 200).
- `PleadingTasks`: which task is stale depends on how long jobs take, so
  `FindStale` may take any active one. Documents are not modelled.
- `StudioRuns`: of `state.delete`, the DEL of the record is one step and the
  calls for the other keys together are the next.
- `FieldPipeline`: a value is whether it is non-empty and what it was made from.
- `TemplateEditing`: names, labels and short codes are left out; clocks agree. A
  transaction on field rows (`patch_params`, `re_extract_diff_apply`,
  `create_many`) is one step. A touch whose transaction fails is as one that is
  forgotten. The presigned URL of a regeneration is always a new one, so `Bump`
  always has something to update.
- `CaseInbox`: numbers that differ have different keys in R2 (`sanitize` joins
  none); one firm; a petition is a model value, its client stands for the
  SSN digits and the name; what the agent reads is a choice from a set.

## 10. Known exceptions

What the code does, no property forbids, and a reader should know. Those that
are hazards without a property are also in `PROJECT.json`.

- v2: two starts can pass the dedup guard together. A cancel that raced a
  failure leaves the flag up on a FAILED record; a regeneration then returns at
  once and the record stays PENDING. Dismissing while a worker is between GET
  and SETEX brings the record back, without its `log_id`; `regenerate` and a TTL
  can also take a `log_id` away from a running job. Cancelling in
  AWAITING_INPUT leaves the log row AWAITING_INPUT.
- browser: `loadActive` does not ask `dismissedTaskIds`, so an old list brings
  a ghost back until the next snapshot; an optimistic state is not rolled back
  when its call fails; a process that dies before its XADD is not announced; a
  stream that was refused once (an answer that is not 200) is not opened again
  until the page is entered anew, and the tab stays as it was.
- v1: `set_worker_task_id` rewrites the record after the kiq and can erase what
  the job stored; the clean-up also fails tasks that wait for the user; a
  COMPLETED written between the GET and the SETEX of a cancel is lost.
- studio: a staged upload expires two hours after the request, however long the
  task is parked; a promotion renews the record only, and the job then fails
  with "Staged upload expired or missing" (`composer/async_run/tasks.py:93`); a
  cancel does not drain; the queue blocks its own drain like that of
  section 7; a cancelled generation inserts its template all the same.
- fields: extractors are asked in index order, so one may miss a value that a
  later field gives; nobody checks that the picks answer every envelope, and a
  blank pick is not told to the extractors that asked for it.
- templates: four cases are shown as Live: an edit over between a publish's
  reads and its write, a mark or role change that took its time before a publish
  did and commits after it, a template published before its first fields, a
  regeneration that died before its last call. A write that was past its SELECT
  lands on a deleted row, although `repositories/templates_v2.py:3` calls such
  rows "effectively immutable" and the publish answers success for a template
  that is gone; two regenerations at once can leave the document of one and the
  fields of the other; PART_OF_PACKET is checked and written in two
  transactions.
- inbox and cases: a create that loses the race for a number, and a merge into a
  number that is filed, have already put their petition in the place of the
  winner's (`cases/service.py:132`, `case_inbox/service.py:335`); an accept that
  loses the race has already made its case; a link
  answers once, so a worker that dies after the download loses its petition;
  the probe takes any row of a notice for the whole notice.

## 11. Not modelled

Most of the repository's lines are prompts, rendering, SQL for dashboards, mail
I/O and React components. They are request and response around a database or a
language model, keep no state of their own between calls, and a model of them
would say what their code says. So the models cover the control of the
repository and a small share of its lines.

- v1 review tasks: the unlocked read-modify-write of the v1 tasks with one job
  and a cap. Billing: each webhook is one transaction that overwrites the
  subscription; what could go wrong is in the order of Stripe's deliveries.
- Bundling of packets and the v1 orchestration pipeline: data transformations,
  the second replaced by studio_v2's passes.
- The event streams of v1 and of the studio services mirror that of the
  drafts.
- Chat and chatbot agents, collaboration, auth, firms, settings, permissions,
  dashboard, Gmail agents, document generation and storage utilities, and the
  frontend but for the draft store.

## 12. Plan

1. An abstract specification of what a tab is promised (a register that only
   moves forward) and `EventStream` as its refinement, from `ClockInv` and
   `DeliverInv`.
2. The progress part of the liveness arguments as safety: for `WorkEnds` and
   `RunsEnd`, that a task in a working status always has a process whose next
   call is enabled.
3. `ReviewTasks`: cap, session guard, clean-up against a slow reviewer.
4. `Subscriptions`: order and repetition of webhooks.
