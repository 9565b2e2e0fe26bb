# TLA+ models of Inspectra

Inspectra's product backend (`src/qa_ai/product_backend/`) runs validation packs against an
application, on request or on a schedule, drives a browser or an API with them, and keeps what it
finds in SQLite.  It is a FastAPI server with one event loop, a pool of threads for the request
handlers, one daemon thread per run, one for the scheduler and one that writes the event log.
Beside it stand the routers through which all of Inspectra calls language models, and the command
line's audits, which run phase after phase over a directory of artifacts.
This directory holds TLA+ specifications of the parts in which these meet, TLC configurations that
check them on small instances, and proofs, checked by TLAPS, of most of their safety properties for
every instance.  Paths below are relative to `src/qa_ai/product_backend/` unless they begin with `src/`.

`PROJECT.json` lists the components, the runs, the source lines each definition models, the
hazards of the code with the properties aimed at them, the findings and the theorems.  To repeat a
check: `tlc -config X.cfg M`, where `M` is the module and `X.cfg` the configuration of the table
below; to repeat a proof: `tlapm M.tla`.

## 1. Inventory

### The parts that are modelled

| Component | State it keeps | Operations |
|---|---|---|
| **Run lifecycle**: `run_manager.py`, rows of `live_runs`, `DELETE /runs/{id}` | the row (status, step results), the registry of threads and cancel flags, the thread's locals | `run_pack`, `schedule_run`, `start_run`, `cancel_run`, `_execute` to its `finally`, `_finalize_run`, the DELETE handler |
| **Event stream**: `event_stream.py`, `GET /runs/{id}/stream` | `_subscribers` (a queue per watcher), the loop's callbacks | `subscribe`, `unsubscribe`, `publish_from_thread`, `close_run`, the handler's generator |
| **Event log**: `run_event_recorder.py`, `GET /runs/{id}/events` | a bounded queue, `unfinished_tasks`, `_closed`, the table `run_events` | `record`, `_drain`, `flush`, `close`, the handler |
| **Pack scheduler**: `scheduler.py`, schedule fields of `validation_packs` | `next_run_at`, the packs and the count a tick has read | `_loop`, `_tick`, `notify_schedule_changed`; PATCH, DELETE and run requests for packs |
| **Retest lineage**: `POST /runs/{id}/retest-failed`, `storage.py` 1106-1253 | `retest_of`, the rows' statuses | `create_retest_child_if_allowed` with the lineage walk and the active-child check, the child's start, run and cancel; results and verdicts of manual parents |
| **Manual runs and reports**: `routers/live_runs.py`, `run_verdict.py` | the row's status and results, the placeholder evidence, the reports | creation of a manual run, `record_manual_step_result`, `finalize_run`, `generate_report`, DELETE |
| **Step execution**: `run_manager.py` 255-400, 568-1513, `src/qa_ai/live_execution/` | the browser, its context and page, `previous_case`, `continue_flow`, `api_context`, the step's result | launch, `reset_context`, `continue_context`, pre-load, `execute_action`, `_execute_request`, `_execute_assertion`, `_run_step_safe`, the judgements and evidence of `_run_step_real`, the loop's counters and its break |
| **Visual baselines**: `run_manager.py` 1196-1362, `routers/visual_baselines.py`, `artifact_index.py` | a row of `visual_baselines` and the file it names | `visual_capture`, `assert_visual_match`, `visual_compare`, `POST /baselines` |
| **Model calls**: `src/qa_ai/ai/task_router.py`, `resource_manager.py`, `src/qa_ai/model_runtime/adaptive_router.py` | `_routes`, the slot `_active` | `AdaptiveRouter.call`, `TaskRouter.call` and `embed`, `acquire_model_slot`, `release_model_slot`, `route_to_lighter_model_if_needed` |
| **Model health**: `src/qa_ai/ai/llm_router.py` | `ModelHealth` of each model | `_is_circuit_open`, `_is_healthy`, `_call_with_retry`, `_record_success`, `_record_failure`, `check_all_models` (`reset_circuit_breakers` has no caller) |
| **Audits**: `src/qa_ai/orchestration/`, `src/qa_ai/runtime/artifact_store.py`, the components its phases call | the artifacts directory, `WorkflowResult` | `WorkflowEngine.run`, `_execute_phase`, `save_artifact`, `load_artifact`, the release gate |
| **Product storage**: `storage.py` | every table, one connection, one lock | the statements of the components above; each commits by itself |
| **Server assembly**: `server.py` | none of its own | start-up and shutdown order (`lifespan`) |

How they interact.  A handler (or the scheduler) INSERTs a run's row and then calls
`RunManager.start_run`, which registers a thread and a cancel flag and starts the thread.  The
thread writes the row, publishes to the event stream and records to the event log; it shares the
row with DELETE handlers, which either set its flag or write the row themselves.  The stream hands
events from the thread to the event loop; the log hands them to its worker.  The scheduler, the
PATCH and DELETE handlers and users' runs meet in `validation_packs` and `live_runs`.  Retest
requests look at a finished row and insert a child; the parent's thread, or a tester's result,
may be about to change the row.  Manual runs have no thread: their requests meet in the row.  A run's thread drives the browser
step by step; visual steps of concurrent runs, and `POST /baselines`, meet in a row and a file per
application and step.  Threads that want a model share one `TaskRouter` with one slot, and one
`LLMRouter` with the health of each model.  An audit's phases meet, and audits meet one another, only
in the artifacts directory.

What is hard in it.
- *Interleaving.* `ProductStorage` takes its lock per statement, never per request.  Every handler
  reads, decides and writes with other actors in between (the one exception is
  `create_retest_child_if_allowed`, a critical section).
- *Ordering.* A run's events travel through copies, callbacks and queues; flags are read at three
  points of the loop; `next_run_at` has three writers.
- *Failure.* Any statement may raise.  Some failures are logged and forgotten (the append of a
  result, `_finalize_run`'s UPDATE), some abort the run, some abort a tick.
- *Crash.* Nothing at start-up looks at the rows an earlier process left pending or running.
- *Bounds.* Two bounded queues that drop when full, a limit of concurrent runs, two windows on
  "the newest runs", a depth limit for retests.
- *State left behind.* A browser's context is kept from one step to the next, a route put into a
  shared router is taken out again later, an audit starts on the artifacts of the one before.
- *Shutdown.* `close()` has three waits with timeouts while daemon threads go on publishing.

What makes each part correct: sections 4 and 5 state it property by property; `PROJECT.json`
lists the 40 places in the code where it could go wrong.

### Not modelled

- **Inside the engines**: selectors, waits, HTTP, image arithmetic.  What the run's thread makes of their
  results is in `StepExecution`.
- **Memory kernel** (`src/qa_ai/memory_kernel/`): findings and baselines kept across runs, written once
  per run inside a `try` that can neither fail a run nor change its row.  Its hazards are in the
  arithmetic of comparisons (which ones of a list are the newest), not in an order of steps.
- **Prompting, response parsing, AI evaluation and scoring**: sequential, and dominated by what a model
  answers.
- **Phases whose artifacts no other phase loads** (benchmarks, remediation, mobile and distributed
  runtimes): leaves of an audit; they can fail like the others and change nothing that another phase
  reads.  Other audits are covered by those like them: sync, database and code quality results go where
  `security_audit_results` go (`finding_correlation` and `rca` load them), readiness for release is an
  audit of its own because only the summary (`audit_summary_builder.py:66`) and the software health model
  load it, and the dependency audit is like it, without a reader at all.
- **Analysis and reporting**: pure functions over collected results.  What they load and save is in
  `AuditWorkflow`, what they compute is not: it consists of thresholds, weights and texts for
  which the repository states no rule other than the code.
- **Projects, apps, credentials, settings, migrations**: rows that one request writes and others read.
- **CLI, configuration, schemas, user interfaces, samples, scripts, tests**: wiring and clients.  They
  are most of the repository's lines, which is why the mapped share of the whole is small: a model
  of them would have data but no steps.

## 2. Modules

| Module | Models | Notes |
|---|---|---|
| `RunLifecycle` | a run from the INSERT of its row to the end of its thread, DELETE requests, failures, restarts | the core |
| `RunFeed` | what a run's stream promises to whoever watches it | abstract; `RunLifecycle` implements it |
| `EventStream` | the registry, the callbacks, the queues, the stream handlers of one run | |
| `RunEventRecorder` | publishers, the queue, the worker, `close()`, a reader that flushes | |
| `PackScheduler` | the tick, statement by statement, and all who write packs and runs meanwhile | |
| `RetestLineage` | retest requests, the chain of parents, threads and DELETE reduced to what matters there | |
| `ManualRun` | requests of every kind on one manual run | |
| `StepExecution` | one run's thread from the head of its loop to the final status, step by step | |
| `VisualBaseline` | overlapping operations on one step's row and file | |
| `ModelRouting` | threads that call models through `AdaptiveRouter`, `TaskRouter` and the slot | |
| `ModelHealth` | one model's circuit breaker and availability, shared by threads | |
| `AuditWorkflow` | audits of one application over one artifacts directory | |
| `Services` | `EventStream`, `StepExecution`, `VisualBaseline`, `ModelRouting` and `ModelHealth` side by side | for TLC: a behaviour picks one of them |
| `ScheduleOrAudit` | `PackScheduler` and `AuditWorkflow` side by side | likewise, without fairness |
| `SequenceFacts` | lemmas on `ToSet`, `Append`, `Head` and `Tail` | used by the proofs about queues |
| `...Proofs` | theorems about the module of that name; `RunLifecycleProofs` has the refinement of `RunFeed` as well, `ServicesProofs` the theorems about the modules `Services` extends, about `Services` itself and about `AuditWorkflow` | section 6 |

The *atomic step* of every module is one SQL statement, one critical section of a lock, one
operation on a queue, or one callback of the event loop.  Between two of them any other actor may
move.  Where a request reads and goes on without another actor being able to tell (two reads
in a row of things it alone writes, a read and the arithmetic after it) the two are one action.

`Services` composes modules that share no state.  The product of their state spaces would say nothing
their sum does not, so `service` (in `ScheduleOrAudit`, `subject`) picks one at the start and the others stand still: the reachable
states add up, and each module's properties are checked of it as if it were alone (where another is
picked they speak of its initial state).

Each operation that mutants replace is preceded by its mutated forms, which are part of no
specification: every property of every passing run has one that breaks it (`PROJECT.json`,
`mutants`).

### RunLifecycle
- `status`, `saved`, `savedBad` are the row; `saved` counts the results in `step_results`, `savedBad`
  the failing ones among them.  `flag` is `_cancel_flags` ("none": not registered).  `idx`, `failed`,
  `verdict` are locals of `_execute`; `pc` says which statement the run's starter, later its thread,
  is at.  `shown` is the last run-level event on the stream.
- `Outcome` has the four classes of a result the loop distinguishes (`run_manager.py` 361-391):
  passed; neither counted nor stopping (dry run, cancelled, skipped); counted as failing but never
  stopping (capability gap, inconclusive); failed or error, which stops unless the step is optional.
- Exceptions: reading test cases before `start_run` (`AbandonStart`, the row stays pending), a refused
  thread (`stillborn`; its flag stays registered), the first UPDATE, the making of an engine, the
  provenance UPDATE after the loop (not guarded, so it fails the run), the append of a result and
  `_finalize_run`'s UPDATE (both logged and forgotten), the UPDATE of the `except` branch.
- DELETE is three steps: read the row, look at the registry, write the row if there was no flag.
- `Restart` ends all threads, flags and requests and leaves the rows.
- Left out: evidence, memory ingestion, webhooks and provenance contents, none of which writes the
  row's status.  Run ids are fresh, so `start_run`'s "already running" cannot arise.
  `ProductStorage.close()` only drops the connection, which the next statement reopens, so daemon
  threads keep working until the process ends.

### RunFeed
Four phases and the death of the server.  The refinement mapping is `Phase` in `RunLifecycle`,
from `pc` and `shown`; `ImplementsFeed` is `Feed!Spec`, its two fairness conditions included.

### EventStream
- One run's registry.  `targets` is the copy `publish_from_thread` has taken under its lock and not
  yet posted; `ready` the loop's callbacks in order; `queue` the watchers' queues of capacity
  `_QUEUE_MAX`.  `MaxEvents + 1` is `close_run`'s "done".
- A watcher reads the row, registers, is greeted, receives, leaves.  `named` marks a step whose name
  is "done": its event contains the text the handler looks for.
- `FinishRow` may come any time while the thread works, since a DELETE may write the row.
- The handler registers its queue (288) before its generator starts; a client that is gone by then leaves
  the queue registered, since the `finally` that unsubscribes belongs to the generator (`LoseClient`).
- Heartbeats are stutters.

### RunEventRecorder
- `record()` checks `_closed` in one step and puts in another; the worker takes, INSERTs (or counts a
  failure) and calls `task_done()` in three.  `close()` is flag, flush, stop marker, join, each wait
  ended by success or by its timeout at any time.  `GET .../events` notes what was accepted, flushes
  (or times out) and lists.
- `promised` and `expected` are what had been accepted when `close()` set its flag and when the reader
  came; `failures` says which events' INSERT raised.

### PackScheduler
- `todo` is the tick's copy of the packs in the order of the query (`Snapshots`: by slot, in the order of
  the table where two are the same), `running` its count, `now` its time.  A statement that
  fails leaves the tick (`AbortTick`), except the two reads whose failure the code turns into "none".
- Schedules are intervals: `compute_next_run_at` adds the period to `now`.  Its `None` for an unknown
  schedule cannot be stored, since PATCH validates the name.
- PATCH is four steps: UPDATE, SELECT, and `notify_schedule_changed` with what was selected, which reads
  the clock (160) in one and stores the slot (161-164) in another.  `late` remembers the slots that were
  stored when their time had come: such an occurrence may have fired already.
- `schedule_run`'s reads and its INSERT are one action, `FireRun`: with the pack or its target gone there
  is no run; an exception after the INSERT leaves an orphan.  DELETE of a pack leaves its runs.
- `state` is "live", "orphan" (its process died) or "over"; `RunEnds` covers threads, people who
  finalize, and users who DELETE an orphan.

### RetestLineage
- `manual` are the runs created with `execution_mode` "manual": no thread, but testers whose results carry
  the status they have read back into the row (`RecordReads`, `RecordWrites`: `live_runs.py` 959-971), and
  verdicts (`Finalize`).  They can be retested; a retest is always automated.
- `Above` is the walk of `get_retest_lineage_info`; a cycle, a missing run or the cap make it give up.
- `revived` records the runs whose row said finished and was overwritten by something unfinished: by their
  thread's first UPDATE after a direct cancel (finding 1), or by a late result of a manual run.  The two
  exceptions in the properties are due to them.
- A thread's life is reduced to its first and last UPDATE; `RunEnds` merges the last UPDATE with the
  end of the registration.  Resolution of step ids to retest is left out.

### ManualRun
- One manual run; its pack does not change.  `req` holds what each request has read.  "passed" stands
  for skipped too, "failed" for blocked: no code that follows tells them apart.
- The code lets results be recorded, and runs finalized, in any status; so do the actions.
- `overlap` remembers whether a result was ever recorded while another request was writing results.

### StepExecution
- `Kind` is `classify_action_family` as far as the loop, the engines and the evidence tell actions apart.
  Plans are not fixed: the next step may be of any kind and case, up to `MaxPlan` of them.
- `hasUrl`: whether the target has a URL.  Without one nothing is pre-loaded (308), and only the run's own
  navigate steps load a page.
- `page` is what the context's page shows: nothing ("none": no context; "blank"), the application, or a page
  that was closed.  `touched` are the test cases whose steps have acted in the context: the cookies
  and storage they may have left.
- `ActInBrowser` has the results `execute_action` returns: refused before anything was done, ended
  by an exception, tried and not met, done.  `SendRequest` and `AssertResponse` differ in what becomes of
  `last_response`.
- `Judge` is what `_run_step_real` lays over the attempt: the findings of a security step decide whatever
  the attempt came to (1186-1192), the comparison of a visual step only where it passed.
- `StoreEvidence`: the evidence whose writes are guarded is logged when it fails; all other leaves the loop
  through the `except` of `_execute` ("failed").
- Left out: the flag being read between the engine's own waits, contents of evidence, the memory
  kernel's hint.  A cancel that arrives while an API step runs is seen after it.

### VisualBaseline
- Each operation is the sequence of statements of its code: read the row, delete, open the file
  (which truncates it), fill it, insert.  `visual_capture` writes the file before it deletes the row,
  `POST /baselines` after; `assert_visual_match` without a row approves what it sees.
- An image is named after its operation.  Two operations that fill the file at once leave either's
  image or a mixture.

### ModelRouting
- `call` fixes, per thread, whether it goes through `AdaptiveRouter`, the task, and whether the route's
  task has a lighter substitute that is not among its models.  `InsertLighter` is a loop without
  effect: the model in front of which the lighter one is inserted is asked for again.
- The slot's lock is held within `can_run`, `acquire_model_slot` and `release_model_slot`, each one step.

### ModelHealth
- The circuit's cooldown is a flag (`CooldownElapses`); a call with all its retries is one step.  Threads
  read and write the fields without a lock, so every read and write of a shared field is a step:
  `failure_count += 1` is two, its comparison a third, and `circuit_open`, `circuit_opened_at` and
  `is_available` are written one by one.
- `counted` are the failures since the last success or opening that `failure_count` accounts for, `lost`
  those that a write or a reset of another thread has undone.
- `overtaken`: a thread that opens the circuit may reach its last write, `is_available = False` (674), when
  another has read the open circuit with its old `circuit_opened_at` and closed it.  The model then stays
  unavailable with a closed circuit, and no failed ping, until a ping succeeds.

### AuditWorkflow
- A phase loads what it needs when it saves: nothing else runs in between.  An artifact is the set of audits
  whose results went into it, and whether it lists a critical finding.
- `release_readiness_audit` stands for the audits whose results are not correlated; `OwnResults` are those
  whose critical findings the correlator or the gate asks for.
- `Plans` are the three orders in which the phases that exchange artifacts come; phases that run only under
  a platform or a profile are covered by plans with and without them.
- A failing phase may leave the file it was writing cut off, which `load_artifact` then refuses; so do
  an interrupt and the end of the process.

## 3. Hazards and properties

The hazards listed in `PROJECT.json` are what the properties were chosen for.  One has none, with
the reason beside it: a thread the operating system refuses leaves its child run pending, which
blocks further retests of the parent (the model has it; a property would restate it).

## 4. Runs that pass

| Run | Bounds | What it shows |
|---|---|---|
| `run_lifecycle` | 1 run, 2 DELETE requests (each any number of times), plans of 0 to 3 steps, 2 failing operations, 1 crash | `CompletedIsEarned`, `FailedHasACause`: a verdict in the row has its reasons; `StreamAgreesWithRow`; `VerdictStays`: no late DELETE changes it; `ImplementsFeed`; `EveryRunEnds`, `CancelIsHonoured`, `DeleteTakesEffect` |
| `run_event_recorder` | 2 publishers of 2 events, a queue of 2, one close, one reader | `NoneVanishes`, `LoggedInOrder`, `FlushedReadIsFresh`, `ClosingDrains`; `AcceptedSettles`, `CloseReturns` |
| `pack_scheduler` | 2 packs, limit 1, clock to 2, 1 run of a user (automated or manual), 1 failure or crash | `AtMostMaxConcurrent`; `DuePackIsServed` |
| `schedule_or_audits` (scheduler) | 1 pack, limit 2, periods 1 and 2, 2 PATCH requests, clock to 3, 1 failure or crash | `OneScheduledRunPerPack`, `OccurrenceFiresOnce` |
| `schedule_or_audits` (audits) | 2 audits, 1 failing phase, interrupt or kill | `CompletedAuditIsItsOwn`, `OpenGateIsExplained` |
| `retest_lineage` | 3 runs (automated or manual), 2 requests, depth 1, 1 failure or crash | `OneActiveChild`, `ParentIsFinished` |
| `manual_run` | 2 steps (1 required), 2 requests at a time, 2 reports, 1 failure or crash | `PendingIsUntouched`, `FinishedIsReviewed`, `EvidenceFollowsResult`, `ReportIsFinal` |
| `services` (event stream) | 2 watchers, 2 events and "done", queues of 2 | `NothingVanishes`, `SentInOrder`, `GoneIsForgotten`; `EndIsSent` |
| `services` (steps) | plans of up to 3 steps, of one test case or of none | `StepsAreIsolated`, `BlankOnlyAfterFailure`, `ErrorIsKept` |
| `services` (baselines) | 3 operations of any kind, with and without an earlier image | `BaselineNotLost`, `ApprovedIsKept` |
| `services` (routing) | 2 threads, 2 tasks, routes of up to 2 models | `SlotIsHeld`, `DecisionsAreTemporary`; `CallsComeBack` |
| `services` (health) | 2 threads, a threshold of 2, counts up to 3 | `TrialsAreBounded` |

`services` also checks the types of its five modules (`ServicesTypeOK`; the limit of the event
stream's queues is among them).  The types of the others are theorems (section 6).

Why the bounds are enough.  Runs in `RunLifecycle` share nothing but the budgets of failures and
crashes, so one is enough; a second DELETE is needed for one to write while another signals; three
steps give a first, a middle and a last one.  Two failures let a failure meet the handling of
another.  Two watchers are the least with which the registry's copy can be stale for one and fresh
for the other; a queue of 2 with 3 events overflows.  Two publishers of two events overflow a queue
of 2 with the worker holding a fifth thing; the stop marker competes for the same places.  Two
packs and a limit of 1 make a pack wait for another's run; one pack and two PATCH requests make
slots be rewritten between a tick's read and its writes, in every order; three ticks of the clock are
enough for a slot computed before its time, fired and stored again, and for a later one.  Two steps of one case and one of
another (or of none, which is what a run without test cases has) are what a context can be passed
between; the third is there for a failure in the middle.  Three operations on a baseline are two that
overlap and one that judges what they left.  Two threads contend for one slot and interleave every pair of
accesses to the breaker's fields; a threshold of 2 lets one clear or overwrite the failure the other has
counted, and open the circuit while the other closes it; a count of 3 is what both together reach before
either opens.
Two audits are one that leaves artifacts and one that finds them; one broken phase is what tells
whether the rest copes, and one is enough for the exception of `OpenGateIsExplained`: a file of
`security_audit_results` cut off makes both phases that correlate fail.  The windows on the newest runs (100
and 5 in the code) are set so high in the passing runs that they never cut (10, with at most a handful
of rows); with `PackWindow = 1`, and a run of a user, TLC finds a second scheduled run (section 5).  Three
runs and depth 1 are the least in which a third generation could be created.  In `manual_run` the second step is optional so that a run can be
finalized with a pending result.  Clocks, budgets and ids that are used up stop the corresponding
actions; `Quiet` (or `Over`) is the only step left in such states, and TLC checks that there is no
other deadlock.  No state constraint is used; symmetry is used only where no liveness is checked.

## 5. Runs that find a violation

Each states what a line of the repository says and shows that the code does otherwise.

1. **`run_lifecycle_cancel`** (`AcceptedCancelWins`).  A DELETE between the INSERT of the row and
   `start_run` finds no flag, writes "cancelled" and is answered 202; the thread then starts,
   overwrites the row with "running" and completes the run (`run_manager.py:241` is unconditional).
2. **`run_event_recorder_stop`** (`StopFollowsAccepted`).  `record()` may pass its check before
   `close()` sets the flag and put after the stop marker: the event was accepted and is never written.
   (What does hold is `ClosingDrains`, for all that was accepted before the flag.)
3. **`manual_run_report`** (`RecordAndReportAgree`).  A result recorded after the report changes the
   run's verdict, while `generate_report` keeps returning the stored report.  (Automated runs that are
   cancelled by a DELETE of finding 1 have the same trouble.)
4. **`event_stream_close`** (`StreamCloses`).  The handler waits for `"done"` in quotes, which
   `event: done` does not contain: the stream of a finished run goes on with heartbeats until the
   client closes it.  A step named "done", on the other hand, ends the stream early.

5. **`audit_behavior`** (`BehaviorIsAnalyzed`).  `execution_replay` saves `execution_traces` as an object;
   `behavior_analysis`, which comes before it in a plan, finds that of the audit before and iterates it
   as a list of objects: from the second audit in a directory on it fails, the audit is completed, and
   the analysis on disk is an old one.

What the repository says and the code does not do is also met where a property holds only with an
exception, which the property names (`findings` in `PROJECT.json`):
- `_pack_is_active` reads the pack's five newest runs: five later ones that are over hide an older one
  that is still active, and the pack fires again (`OneScheduledRunPerPack` is checked with a window
  that never cuts).
- The release gate decides on whatever `correlated_findings` there are; when both phases that correlate
  failed, these are an earlier audit's.  It looks at the tests' own findings only where there are no
  correlated ones, and neither it nor the correlator looks at the results of the release readiness and
  dependency audits: their critical findings never close it (`OpenGateIsExplained`).
- A PATCH that computes a slot before its time and stores it afterwards makes the occurrence fire once more
  (`OccurrenceFiresOnce` excepts the slots in `late`; without the exception TLC finds the two runs).
- A tester's result that was read before a manual run was finalized or cancelled puts the run back to
  "running", under a retest that was started meanwhile (`ParentIsFinished` excepts runs in `revived`).
- `AdaptiveRouter` is not thread-safe: overlapping calls undo each other's routes, and one of them may
  stay in force (`DecisionsAreTemporary` is about calls that do not overlap).
- A half-open circuit allows not one try but a whole threshold of failures, one more for each further
  thread and one more for each count that is lost (`TrialsAreBounded` has the bound that holds).
- A security step whose attempt raised passes if it has no findings (`ErrorIsKept` leaves it out).
- Evidence that cannot be stored fails the run for API, performance, accessibility and security steps
  (`StoreEvidence`).

### Fairness

Each fair action is one that the operating system or a timeout of the code completes: a thread
that runs (`ThreadStep`, `Tick`, `Drain`), a started request handler, the event loop, which serves its
callbacks and tasks in turn, a wait of `close()`, which has a timeout, a run's steps, each of which
has one, a thread that calls a model (`CallerStep`), whose request has a timeout.  `Services` states
for each module the fairness the module states for itself (`Fairness`, `RoutingFairness`), of the
behaviours that picked it.  Nothing is assumed of users, clients, people who test by hand, the clock, failures or
crashes.  `DuePackIsServed` allows for places held for ever by orphans and open manual runs, since no
code ends them; `EndIsSent` allows for a watcher that leaves, is lost or falls behind; a watcher that registers
after the registry was popped waits until its client gives up, which the property leaves out
because the code does.

## 6. What is proved

`tlapm` proves the following for every value of the constants, from the named assumption of each module
(the bounds are naturals; a capacity and a maximum are positive; `Required` is a subset of `Step`;
`NoRun` is no run).  Nothing else is assumed.

**RunLifecycleProofs** - `TypeCorrect`, `CompletedIsEarnedHolds`, `FailedHasACauseHolds`,
`StreamAgreesWithRowHolds`, `VerdictStaysHolds`.  Types alone are not inductive: `idx` stays within
`MaxSteps` because no step is executed past the plan, and the row keeps its type because what is
finalized was decided (`TypeInv`).  The properties need `IInv`, which adds where a verdict comes from
(`Reasons`: it is none before the decision; "completed" implies all steps and no failing one; a raised
exception has cost a fault) and what the row may say at each position of the thread (`RowInv`: only
the last UPDATE of the thread writes "completed" or "failed", and from there to the end row and
stream agree unless a fault came between).  DELETE preserves it because its UPDATE is guarded by the
status, which is also why `VerdictStays` follows from `IInv` and one step.

The last theorem of `RunLifecycleProofs` is `RunImplementsFeed`: `Spec => Feed!SafeSpec`.  `FeedInv` says which run-level
event has been shown at each position of the thread; each step of a run then is a step of the feed or
changes nothing in it, and a restart is `Cut` of the runs it loses.

**EventStreamProofs** - `TypeCorrect`, `GoneIsForgottenHolds`, `SentInOrderHolds`,
`NothingVanishesHolds`.  `OrderInv` orders the four stages of an event's way to a watcher: what was sent
precedes what is queued, that what is in callbacks, that what the thread is still posting.  `FlowInv`
says that a queue gets nothing before it is registered, and that a registered one is lost to the thread
only after the last event; with it, the union of the stages is the interval of events since
registration, and each step moves one element between stages.

**RunEventRecorderProofs** - `TypeCorrect`, `NoneVanishesHolds`, `LoggedInOrderHolds`,
`FlushedReadIsFreshHolds`, `ClosingDrainsHolds`.  `FlowInv` adds to `NoneVanishes` that no accepted event
is numbered beyond what its thread has published, so the next one is new; the cardinalities then move
by one with each step.  A count of zero means an empty queue and an empty hand (`DrainedIsSettled`),
from which freshness follows.  `StopInv` says that all that was promised precedes the stop marker in
the queue, and that there is no marker before `close()` has put it.  `OrderInv` is as above, per run.

**PackSchedulerProofs** - `TypeCorrect`, `AtMostMaxConcurrentHolds`, `OneScheduledRunPerPackHolds`,
`OccurrenceFiresOnceHolds`.  `TodoInv` says that a tick's copies are of different packs, and that the one
at hand is due whenever it skips, fires or advances.  `CountInv` bounds the scheduled
runs in flight by what the tick has counted and fired since, at each place of the tick; the count is
taken of the rows the query lists, and grows only through `FireRun`.  `IdleInv` carries
`_pack_is_active`'s answer to the INSERT: between them only users start runs of the pack.  `SlotInv`
says that, where nothing failed, the runs of a pack have slots that are over, and that its row and its copy
are ahead of all of them unless it is the pack that is being fired or its slot is known to be `late`.  The first two limits are false of the code when the runs that count are not among
the 100, respectively 5, newest rows (section 5); the theorems say so in their hypothesis,
`[]RunsReach` and `[]PackReach`: at every moment the unfinished scheduled runs are within
the window of the query that looks for them.  It bounds neither the number of runs nor that of
users' runs or of finished ones.  `OccurrenceFiresOnce` needs neither hypothesis.

**RetestLineageProofs** - `TypeCorrect`, `OneActiveChildHolds`, `ParentIsFinishedHolds`.  The
properties need to know who owns a row that is not finished (`OwnerInv`): a row goes back to
unfinished only through the first UPDATE of its thread, which happens once, or through a result of a manual
run, which has no thread and no parent.  `ParentInv` carries the handler's look at the parent to the
INSERT, and on to whatever overwrites the parent's row.

**ManualRunProofs** - `TypeCorrect`, `PendingIsUntouchedHolds`, `FinishedIsReviewedHolds`,
`EvidenceFollowsResultHolds`, `ReportIsFinalHolds`.  The invariant says what each request in flight has
read and what of it is still true: without overlap at most one request writes results, a recorder's
copy is the row's (`WritersInv`), a finalizer that passed its check still could (`ReviewInv`), evidence
lags behind its result only while the request that wrote the result is under way (`EvidenceInv`).

**ServicesProofs** - `StepsAreIsolatedHolds`, `BlankOnlyAfterFailureHolds`, `ErrorIsKeptHolds`,
`BaselineNotLostHolds`, `ApprovedIsKeptHolds`, `SlotIsHeldHolds`, `DecisionsAreTemporaryHolds`,
`SkippedHasACauseHolds`, `TrialsAreBoundedHolds`, `CompletedAuditIsItsOwnHolds`,
`OpenGateIsExplainedHolds`, each of its own module's specification.  `ServicesAreEachTheirOwn` says that a
behaviour of `ServicesSpec` is one of each of its services, so that all but the two about audits hold of what the run `services`
checks, and `ServicesTypeOKHolds` puts their types together.  Steps: `PlaceInv`
and `IsolationInv` say that a context is touched only by steps of the case it was last prepared for, from
which isolation follows where a step acts; `BlankInv` that a page which is still blank, or a browser that
never came up, was left by a step of `previousCase` that is in trouble.  Baselines: `KeptInv` says that
without disturbance one operation is under way, what it has read is the image approved last, and row and
file are where its place says; `BaselineNotLost` is preserved by itself once `DeleteInv` says who
deletes.  Slot: holder and position agree, since only a position that holds the slot releases it.
Routes: `DecisionInv` says that without overlap what a call has saved are the defaults.
Health: `TrialInv` says that a call let through since the last success or opening is under way, or its
failure is counted or lost; that `failure_count` reaches what is counted; and that what is counted
stays below the threshold but for the failures that their threads have yet to compare with it
(`PlacesAddUp` counts the threads by their places).  A thread that overwrites the count, or clears it,
moves what it undoes from `counted` to `lost`.
Audits: what is left of a plan is in the order of `Rank`, and each artifact that findings, risks and
evidence are made of has a phase that makes it (`Maker`) from what phases of lower rank made
(`MakerFacts`).  Hence `FreshInv`: in an audit that missed nothing that counts, what has been made is made of this
audit's results.  `AlarmInv` follows a critical finding of an audit that is correlated from the phase that
found it (`Teller`, `Told`) to the correlated findings: no such phase is left when the first correlation is saved, and a phase that correlates and is
over was missed or has put the audit's results in.  `GateInv` adds that nothing a gate looks at is
written after it decided.

**Only model-checked**: every liveness property (`EveryRunEnds`, `CancelIsHonoured`, `DeleteTakesEffect`,
`DuePackIsServed`, `AcceptedSettles`, `CloseReturns`, `EndIsSent`, `CallsComeBack`) and the fairness in
`ImplementsFeed`: the prover treats neither `ENABLED` nor fairness.  Every other property of a passing run is
a theorem.

## 7. Plan

Done, in this order: `RunLifecycle` with `RunFeed`; `PackScheduler`; `RunEventRecorder`;
`RetestLineage`; `ManualRun`; `EventStream`; the proofs of their properties; `StepExecution`,
`VisualBaseline`, `ModelRouting`, `ModelHealth`, `AuditWorkflow`, `Services` and `ServicesProofs`;
`PackSchedulerProofs` and the proofs about model health, audits and the composition.

To come, the most important first:

1. **`RunLifecycle` with `StepExecution`**: the outcomes the former chooses freely, given by the latter,
   as a refinement.
2. **A composition** of `EventStream` with `RunFeed`: what a watcher is sent, restricted to run-level
   events, is a feed it joined late and may have left early.
3. **A register** as the abstract specification of a visual baseline, implemented as long as operations
   do not overlap.
4. **Resource planning** of `distributed_runtime` and `runtime_lab`'s process manager, if they become
   more than simulations.
