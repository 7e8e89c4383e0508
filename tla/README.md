# Work Assistant Agent: TLA+ models, model checking and proofs

This directory models the Work Assistant Agent from the product tables to the
page: the transactions, the executor that runs one worker per Run, the runner
that feeds it, the policy and usage ledgers, the event stream and what the page
makes of it, and the ways in which each can be interrupted. Paths below are
relative to `backend/src/work_assistant/` unless they start with `docs/` or
`frontend/`.

## 1. Inventory of the system

| Component | State | Operations | Interacts with | What is hard | What makes it correct |
|---|---|---|---|---|---|
| `ProductRepository` (`repository.py`, `models.py`) | rows of Threads, Runs, Messages, Events, model attempts | admission of Runs (two endpoints), start, append, complete, fail, cancel, startup sweep, usage rows, reads | called by the service; PostgreSQL or SQLite below | read-then-insert races, several terminal writers, answers lost after a commit | one active Run per Thread; idempotent admission; owner-only answers; gapless numbered log; one terminal fact; immutability afterwards |
| `RunService` (`service.py`, `main.py`) | `_tasks`, `_executions`, `_terminal_locks`, quarantine, `_fatal_error`, `_closed` | admission + `_launch`, `_execute`, `_commit_terminal`, `cancel_run`, `_mark_fatal`, `shutdown`, `stream_events` | repository, runner, execution ledger, HTTP calls | cancellation at every await, deadlines, calls that fail, commit late or hang, fail-closed, restart | every Run ends; no Run without an owner; unconfirmed ends fail closed; outcomes match the log |
| `RunExecution` (`execution_policy.py`) | budgets, tool calls, sources, result validation | prepare/validate/accept events, outcome | service, model hooks | confirmation after persistence, counters at their limits | nothing accepted beyond the budgets; result sources are persisted sources |
| `RunUsageLedger` (`usage.py`), model attempts | attempts, pending finishes, persistence lock | start, observe, finish, settle | repository through the service | a finish racing a terminal | an ended Run has no open attempt; idempotent finishes |
| Agent runner (`agent_runtime.py`) | producer task, bounded queue, quarantine | stream, `finish_producer`, shutdown | LangGraph, service | full queue while the consumer leaves, second cancellation | one cancellation; bounded cleanup; no reuse after a fatal cleanup |
| Finalizer protocol (`agent_runtime.py`) | phase of the final answer | model middleware | runner | partial output before a violation | only validated text is emitted |
| Event stream (`service.stream_events`, `api.py`, `frontend/src/api.ts`) | cursor | poll, keepalive, reconnect | repository | two reads per poll, reconnect | every event once, in order, up to the terminal one |
| Client projection (`frontend/src/App.tsx`) | snapshot, projections, pending message | merge, reduce, switch Thread | event stream | answers applied out of order | projections only move forward |
| Context builder, capabilities, agent definition | none | pure functions | kernel | precedence and bounds | equal to their definitions |
| API, identity, authorization, schemas | none | translation | all | none beyond the above | exact ownership |
| Settings, engine, migrations, static view code | none | I/O, configuration | all | none | not modelled |

`PROJECT.json` lists the same components with their modelling status, and the
hazards (what a test would hardly reach) with the line where each one bites.

## 2. Modules

```
RunLifecycle            what the product promises about Runs (abstract)
  ^ refined by            ^ instantiated by
ProductRepository       RunService
  ^ MCProductRepository   ^ MCRunService
  ^ ProductRepositoryProofs
                          ^ RunServiceProofs

RunnerStream      RunExecution      AnswerStream        inside a worker's stream
  ^ RunnerStreamProofs
                    ^ MCRunExecution  ^ AnswerStreamProofs
                    ^ RunExecutionProofs
UsageMetrics  <-- UsageLedger, AccountUsage             metering
                    ^ UsageLedgerProofs
                                 ^ MCAccountUsage
EventStream       ClientProjection                      from the table to the page
  ^ EventStreamProofs
                    ^ MCClientProjection, ClientProjectionProofs
```

(`^`: EXTENDS. A `...Proofs` module holds the theorems of its
component and adds nothing to the model.)

Where one module relies on what another establishes, the reliance is stated
there: EventStream takes the gapless numbered log with one terminal event from
ProductRepository (`LogMatchesCursor`, `TerminalFactsAgree`, both proved);
ClientProjection takes exactly-once delivery in order from EventStream
(`ExactlyOnceInOrder`, proved); RunExecution takes the queue from RunnerStream;
RunService takes "a stream ends with a verdict" from RunnerStream
(`StreamEndHasVerdict`, proved).

**RunLifecycle** has three variables: the status, the Thread and the log of each
Run. Its steps are the committed transactions: `Create`, `Start`, `Publish`,
`Complete`, `Fail`, `Cancel`, `FailOrphans`.

**ProductRepository** keeps the four tables as functions of Run or Thread ids.

* An UPDATE ... WHERE status ... RETURNING with its inserts is one transaction
  and one action (`StartRun`, `AppendActiveEvent`, `CompleteRun`, `FailRun`,
  `CancelRun`, `FailOrphanedRuns`). One that matches no row writes nothing; it
  is a stuttering step.
* Admission (`create_run`, `create_initial_run`) reads before it inserts. A
  caller goes through `Lookup` (the SELECT ... FOR UPDATE and the checks),
  `Insert` or `InsertRefused` (the constraints decide), and `Arbitrate` (the
  second reading after an IntegrityError). `Abort` is a deadline that rolls the
  call back; `Insert` may also commit and lose its answer.
* `RowLocks` selects PostgreSQL (the Thread row is locked) or SQLite (it is not).
* Data kept: owner, actor, idempotency key, user message text (as a model value,
  because a replay compares it), last sequence number, event types. The clock
  value `first_visible_at` is named by the sequence number of the event that
  wrote it. Titles, timestamps and payloads are left out; usage is in
  UsageLedger.

**RunService** adds the tasks on top of the actions of RunLifecycle. `pc[r]` is
the await at which the worker of Run `r` stands: `starting`, `loading`,
`streaming`, `cleaning` (inside `finish_producer`), `queued` and `appending`
(before and inside the terminal lock), `finishing` and `committing`
(`_commit_terminal`). `intent` and `expired` are the two sources of
`task.cancel()`: `_request_cancel` and the Run's own deadline. A repository call
runs in a child task; it returns, raises after a rollback, raises although it
committed, or outlives its cleanup grace, is quarantined, and may then still
commit. Which of these failures may happen is the constant `Faults`. A child's
first statement rechecks `_fatal_error`; the model makes that check and the
beginning of the call one step. `accepted` is the part of the execution ledger
that a terminal outcome reports and an append in flight can change.
The done-callback `discard` runs in the step that ends the task; the model,
Tools and usage writers are inside `streaming`; a `build_context` or result
validation error is a nondeterministic `Raise`.

**RunnerStream** (`DeepSeekAgentRunner.stream`, `_RuntimeLifecycle`) has a
producer and a worker per Run, the bounded queue between them and the shared
permits of the semaphore. `prod` is the await of `produce`: waiting for a
permit, working, emitting (before a full queue), delivering its last item,
completing (the sentinel), unwinding after a cancellation, hung. `worker` is the
worker's side: getting the next item, in the body of its loop, closing the
generator, committing. An exception of the loop body abandons the generator,
which the event loop closes later in a task of its own (`closer`,
`CloseAbandoned`). Faults: a cancelled graph that hangs, that unwinds longer than
the cleanup grace or that raises an ordinary error, and an event that cannot be
persisted.

**RunExecution** (`execution_policy.py` with the middleware of
`agent_runtime.py`) is one execution of the agent graph. A decision of the model
is any batch of Tool calls, with or without the finalization control and draft
text (`Decide`); `Reserve` applies the budgets. The calls of a batch run
concurrently through `BeginCall`, `FinishCall` or `CallFails`, and `EmitEvent`,
each waiting for room in the queue. A non-full `asyncio.Queue` does not suspend
its caller, so the permission check and the entry of a Tool are one step unless
the queue is full. `Consume` is the service's loop: it validates, persists and
accepts each event. `Withdraw` is the capability policy changing its mind. A Tool
stands for a Tool with canonical arguments; a result is a member of `Facts`.

**AnswerStream** (`_stream_final_response`) keeps real characters, because its
properties are about where text is cut: four characters stand for a letter, a
boundary, a blank, and a line break that is both.

**UsageLedger** (`RunUsageLedger`, the attempt rows, `_write_terminal_usage`) is
one metered Run: the producer's attempts, the persistence lock, the cancel
requests that settle the ledger entry by entry (`SettleLocked`, `SettleWrite`,
`SettleFault`), and the three terminals. A write rolls back, commits, or commits
and raises. `worker` is the task of `_execute`: running, cancelled by a request or
by `Shutdown`, or exited, after which `discard` has removed the execution
(`WorkerExits`). A cancel request that finds the execution settles the ledger; one
that comes after the exit knows of no usage, settles nothing, takes no lock and
commits at once (`CancelBegin`). **UsageMetrics** holds the aggregation that it shares with
**AccountUsage**, which answers `GET /account/usage` over a growing table of
Runs. Each Run has its Thread, whose owner is the one column the scope joins on,
and its actor, the other. One token field stands for the five, which are computed
alike; the clock is an age class of a Run.

**EventStream** (`stream_events`, the events endpoint, `streamRunEvents`) is one
page reading one Run. The generator reads the events and the status in two
transactions (`ReadEvents`, `CheckRun`); a request or response may break
anywhere, by an error or by an early end, which the page takes for the end if it
has read the terminal event; otherwise it reconnects behind the last event it
accepted. The terminal
commit is one event here: `message.completed` before it is an ordinary event.

**ClientProjection** (`App.tsx`) has the projections by Run, the snapshot, the
current stream with its batch of unrendered events, and the requests under way.
`Ask`, `ReadRuns`, `ReadEvents` and `ReceiveOpened`/`ReceiveRefresh` are the four
moments of a `getThread`: the server reads Run rows and events in two statements.
Text is the sequence of the numbers of its deltas.

## 3. Runs

| Run | Instance | Shows |
|---|---|---|
| `repo_admission` | 1 Thread, 2 Runs, 2 subjects, 2 keys, 2 texts, 2 callers, no row locks | the constraints alone give one active Run per Thread, one creator per key, answers only to the owner, consistent ownership |
| `repo_lifecycle` | 2 Threads, 2 Runs, 2 callers, row locks, at most 5 events a Run | no raw IntegrityError, gapless log, agreeing terminal facts, first delta, immutability, stable context, refinement of RunLifecycle |
| `service_safety` | 2 Runs, 2 Threads, 1 cancel request, all failures of worker calls except an append that commits late | no stranded Run, unconfirmed ends fail closed, outcome = persisted sources, no call after a fatal error |
| `service_live` | 1 Run, 2 cancel requests by owner or stranger, every failure of every call | every Run ends unless it is stranded; with recurring replacement of the process every Run ends; every cancel request is answered |
| `service_cancel_refused` | 1 Run, a stranger | the disagreement of section 6 |
| `runner_stream` | 2 Runs, 1 permit, queues of 1 place, 1 event, all faults | no stream ends without result or error; a producer whose consumer left ends; cleanup is bounded |
| `usage_ledger` | 2 attempts (one a retry), 2 cancel requests, writes that fail or commit late | the ledger's checks never fire, frozen usage is final and counts every request, a cancel request that found the execution keeps the usage seen before it, its settlement ends |
| `account_usage` | 2 accounts, 2 Threads, 2 Runs of 2 attempts, one perhaps older than metering | complete totals are exact; answers of the accounts, and of the Threads of one, add up to the whole table |
| `run_execution` | 3 Tools (one outside the Agent's scope, two that share a source), 4 steps, 2 calls | budgets (retries included), queue, event order, citations, permission, and the end of every execution |
| `answer_stream` | answers up to 6 characters in chunks up to 3, phrases of 2 to 3 | the deltas are the answer, valid, and nothing is held for long |
| `event_stream` | 5 events, the page holds 1, 3 breaks | every event once, in order; a response the server ended carries the whole log, a stream ends only with the terminal event; every event arrives |
| `client_projection` | 2 Threads (one created by its first message), 1 delta a Run, 2 requests under way, 2 moves, 1 failure | nothing of another Thread is shown, no text is lost, no silent stall, a terminal state stays |

Bounds. Two callers suffice for every race of admission, because each
constraint relates two rows; two subjects and two keys make owner and key
differ, and two texts make a replay mismatch. Two Runs let one Run's fatal error
strike the other and let a Thread be reused. `MaxSeq` (events of a Run) leaves
room for start, two runtime events and the two terminal events; `MaxPublished`
is the number of runtime events of a Run in RunService, one being enough for an
append to race a snapshot. Run ids are not reused: `Runs` bounds the number of
Runs. In RunnerStream one event fills the queue of one place, so that the result,
the error and the sentinel all have to wait, and two Runs contend for the permit.
Two provider attempts are one and its retry. In RunExecution two calls are the
smallest concurrent batch, and four steps let a batch, a second decision, a retry
and an answer happen in one Run. The limits of AnswerStream keep the order of the
code's 3, 24 and 8000 and are small enough to be met from both sides. Three
breaks let a reconnect break again before and after the terminal event.
Symmetry is used only in runs without liveness.

Deadlock is checked where the system never stops: the repository, the service
(a crash or restart is always possible) and the event stream (a finished page
stutters explicitly). `CHECK_DEADLOCK FALSE` stands where a model is one bounded
execution: one set of Runs, one answer, one metered Run, one page whose user
stops acting.

Fairness (`FairSpec`).
*RunService*: weak fairness of the worker's steps, because repository calls and
`finish_producer` are bounded by a deadline and a cleanup grace after which they
raise; of the Run's deadline, which is `asyncio.timeout_at`; of a cancel
request's steps, which wait for an `asyncio.Lock` that each holder releases in
bounded time; of the replacement of a process that failed closed or finished its
shutdown, and of the restart, which is the deployment's supervisor that
`docs/contracts/agent-policy.md` relies on. None for admissions, the provider
(`StreamItem`), the settling of quarantined calls, shutdown or crashes.
*RunnerStream*: weak fairness of the producer, the worker, the deadline and the
finalizer of an abandoned generator: the event loop runs every ready task. The
graph may still hang when cancelled, and `ProducerNotStranded` allows it.
*UsageLedger*: weak fairness of the producer and of each cancel request; writes
are bounded as above. *RunExecution*: the producer and the consumer each keep
taking steps; which step, a failure included, is free. *EventStream*: every
party keeps going and responses break finitely often; whether a Run ends is
part of the fairness, since `service_live` shows it.

Where a property is a conjunction of named parts (`OwnershipHolds`,
`FrozenUsageIsExact`, `BudgetsHold`, `EvidenceIsSound`) the parts are defined
beside it. `TypeOK` is the type invariant of each module; those of
ProductRepository, EventStream and RunnerStream are proved, the others hold in
the instances above too and are left out of the lists, which are kept for what
could go wrong.

Each property has a mutant: a plausible bug of the code, written in the module
before the definition it replaces, that violates the property in its run.

## 4. Proofs

Every theorem holds for all values of the constants that the named assumption of
its module allows; TLC evaluates those assumptions in every run. Each inductive
invariant was first checked with TLC on the instance of its run.

### ProductRepositoryProofs

For all sets of Threads, Runs, subjects, keys, texts and callers, with and
without row locks:

* `TypeCorrect`: `Spec => []TypeOK`;
* `OneActiveRun`: `Spec => []OneActiveRunPerThread`;
* `LogHasNoGap`: `Spec => []LogMatchesCursor`;
* `TerminalFacts`: `Spec => []TerminalFactsAgree`;
* `TerminalRunsImmutable`: `Spec => TerminalImmutable`;
* `FirstDeltaSetsTheClock`: `Spec => []FirstVisibleIsFirstDelta`.

The only assumption is `ConstantsAssumption`: `Nil` is none of the ids, and a
Runtime cannot publish the Host's own event types (`validate_runtime_event`
admits only runtime types).

The argument. `StepShape` reduces every step to one of two shapes: it is the
insert of an admission, or it takes each Run along its life cycle (`Moved`:
unchanged, started, appended, completed, or stopped). `TerminalRunsImmutable`
follows from the shapes and type correctness. The other three follow from
`TableInvariant`: at most one active Run in a Thread, and for each Run
`RunFacts`. LogMatchesCursor and TerminalFactsAgree are not inductive by
themselves: an admission inserts a Run next to whatever event rows have its id,
so `RunFacts` adds that a Run not yet inserted has `last_seq` 0, and with it no
event. The `WHERE status` of each UPDATE enters as "an active Run has announced
no end" (`AnnouncedAppend`, `AnnouncedEnd`). OneActiveRunPerThread is inductive:
the partial unique index refuses the only step that makes a Run active.
`FirstDeltaSetsTheClock` needs the numbering besides: a new event has a larger
number than every delta before it, so the smallest is the first.

The second part of the module is about admission, under the same assumption:

* `AdmissionsAgree`: `Spec => []AdmissionAgreement`;
* `OwnershipCorrect`: `Spec => []OwnershipHolds`;
* `RowLockIsEnough`: `Spec => []RowLockPreventsRace`;
* `ContextIsStable`: `Spec => ContextStable`;
* `TablesImplementLifecycle`: `Spec => ImplementsRunLifecycle`.

The first three are about answers that a caller was given some steps ago, so the
inductive invariant `AdmissionInvariant` records what a check is still worth when
its result is used. `StoredRun`: a stored Run has the owner of its Thread and one
user message. `OneRunPerKey`: the unique constraint. `CallInFlight`: a caller
before its insert still owns the Thread; `Insert` does not compare the owner
again, and the clause holds because no step changes the owner of a Thread
(`StepGrows`). `CallAnswered`: an accepted answer names a Run that is stored
under the caller's key. `CallLocks`: under row locks a caller between lookup and
insert holds the Thread's row, and the absence of an active Run and of its key,
which it read under the lock, is still true. `CreatedOnce`: two callers were not
both told "created"; the insert finds the key free, and an earlier "created"
would have left a Run under it.

`ContextIsStable`: while a Run is active no other Run of its Thread is, and only
an active Run changes (`MovedWasActive`), so the completed Runs of the Thread and
their messages are fixed.

The refinement maps the rows of a Run to its status, its Thread and the sequence
of its event types (`TypeAt`); `LogMatchesCursor` makes this a sequence
(`LogIsSequence`). `MapInsert`, `MapMove`, `MapAppend`, `MapComplete` show that a
row change is the abstract change; `MapRunStep` and `MapSweep` lift them to
transactions of one Run and to the sweep of the orphans; lookups, refusals,
second readings and aborts are stutters (`MapNext`).

### RunServiceProofs

Under `ServiceAssumption` (a Runtime cannot publish the Host's event types; Run
ids and requests are different things), for any number of Runs, Threads and
cancel requests, with crashes, shutdowns and restarts at any time:

* `EvidenceIsExact`: `Spec => []EvidenceMatchesLog`, if no timed-out append
  commits later;
* `FatalIsFinal`: `Spec => FatalStopsNewCalls`, under every fault;
* `EveryActiveRunHasOwner`: `Spec => []NoStrandedRun`, if no timed-out admission
  commits later, no cancel request's settlement or write is rolled back, and no
  stranger sends one.

The hypotheses are the failures that the code does not mask (section 5); the
instance of `service_safety` satisfies all of them and that of `service_live`
none. Each is needed: when any one of the five is dropped from an instance with
one Run and one request, TLC finds the state that the theorem excludes. Every
other failure of every call is allowed.

`EvidenceInvariant` is the lock discipline. `LocksHeld`: a worker that appends or
commits holds the terminal lock of its Run, and so does a cancel request that took
its snapshot from a ledger. `LedgerMatchesLog`: the ledger has confirmed exactly
the runtime events in the log; the late append is what breaks it. From these,
`SnapshotsCurrent`: nobody can append between a snapshot and the commit that uses
it, neither a worker nor a quarantined call. `EvidenceKept`: an ended Run accepts
no more events. Counting is done in `HostNotCounted` and `RuntimeCounted`: host
events leave the number alone, a runtime event adds one.

`OwnerInvariant` strengthens NoStrandedRun by the moment before a worker exits: a
healthy service with an active Run whose worker is told to stop by a user already
has a request that will end that Run. `WorkerKnows` ties the place of a worker to
the status of its Run: a worker that finds the transition refused may exit only
because the Run has ended, and that is where its fail-closed branch is used. A
quarantined call implies a fatal error, so whatever it commits late is no longer
the business of a healthy service; after a restart `FailOrphans` has ended every
Run before admission opens.

### UsageLedgerProofs

Under `LedgerAssumption` (token counts are naturals, `Nil` is none of the values
it stands beside), for any number of attempts and cancel requests and every
fault:

* `MeteringNeverFails`: `Spec => []NoMeteringError`;
* `FrozenUsageCorrect`: `Spec => []FrozenUsageIsExact`;
* `CancelKeepsUsage`: `Spec => []CancelKeepsSeenUsage`, which speaks of the requests
  that found the execution; the others settle nothing (section 6).

None of the three is inductive; all follow from `LedgerInvariant`. `LedgerShape`:
only the last entry is open, and the producer's place says how far it is; a row
without an entry is the last and ends the producer. `RowsAgree`: a row says what
its entry says or what the entry is about to say. That second case is the write
that committed and raised: it will be repeated with the same values, so that
`finish_model_attempt` meets its own row and no conflict. `Locking`: the writer of
the open entry holds the persistence lock, and the entry cannot be closed or
followed by another meanwhile. `Freezing`: the terminal closes every row in the
transaction that sums them, and no writer's WHERE clause matches afterwards.
`Seeing`: usage seen by a request that found the execution is in the rows from its
settlement on. Requests that come after the worker's exit are steps like any
other: they may end the Run first, and the rows then stay as the settlements had
left them.

### RunExecutionProofs

Under `ExecutionAssumption`, for any Tool registry, any set of granted Tools, any
budgets and any provider, with Tool calls of one batch interleaved in every way:

* `BudgetsAlwaysHold`: `Spec => []BudgetsHold`;
* `AnswerAlwaysComesLast`: `Spec => []AnswerComesLast`;
* `EvidenceIsAlwaysSound`: `Spec => []EvidenceIsSound`;
* `DeniedToolsAreNeverEntered`: `Spec => DeniedToolNotEntered`.

The assumption says what the code validates: the budgets are positive, a registry
with granted Tools has a Tool budget, and a Tool result names no source twice
(`validate_unique_sources`, `capabilities.py:54-60`).

None of the four is inductive. `ExecutionInvariant` has two parts that hold at
all times. `ExecutionTypes` gives the types and that a call exists only for an
attempt within the Tool budget. `StepsBound` is the potential of the graph: a turn
spends one model step and at most three hops, so the model budget ends the graph
before the framework's recursion limit does. Until the verdict, `Core` holds as
well:

* `Decisions`: an explicit completion leaves only terminal Tools in the batch, a
  draft has been seen where an answer follows one, and the graph holds no result
  before it delivers one;
* `CallsDone`: only calls of the current batch are unfinished, none once the graph
  has left the Tool node without an error;
* `Evidence`, about the trail of events that left the graph (`saved \o queue`):
  `CallEvents` says for the stage of each call which of its two events are in the
  trail and which are still to come, `TrailEvents` that each event has its cause
  before it, `OnePlace` that none is in two places, and `SourcesPlaced` that a
  source that was reported is announced or about to be;
* `AnswerLast`: no Tool event follows a delta.

After the verdict the results themselves are kept, because a stopped execution
leaves its calls where they are.

`StepShape` reduces every step to one of eleven shapes (a quiet step, a
reservation, the entry of a call, its end, an emission, an answer, a delivery, a
save, ...); one lemma for each shape carries the evidence over it. The bound on the
queue is an injection (`QueueBound`): by `OnePlace`, a started event names its
call, a finished event its call and an announcement its source, so while the Run
has few sources the queue is never full in the Tool node (`NeverFull`). From this follow
`ToolsNeverWait` and, with it, `DeniedToolsAreNeverEntered`: a call that need not
wait is entered in the step of its check. `HeadIsValid` shows that the consumer
accepts whatever is next in the queue, `ResultIsSupported` and `JudgingIsSound`
that a result which reaches it cites exactly what was saved.

### AnswerStreamProofs

Under `AnswerAssumption` (positive sizes, `MinPhrase <= Target <= FrameMax`), for
any sizes, chunks and answer limit:

* `DeltasAreAlwaysTheAnswer`: `Spec => []DeltasAreTheAnswer`;
* `HeldTextIsAlwaysTimed`: `Spec => []HeldTextIsTimed`.

`AnswerInvariant` adds to the two what the emissions rely on. `VisibleFirst`:
nothing is emitted, timed or cut before the text has a visible character.
`PhrasesAreCut`: the inner loop stops only when no whole phrase is left, so what is
held in a visible answer is shorter than `Target` whenever the loop waits or the
stream is closed. Hence the expired timer and the tail emit one frame
(`EmitHeld`), however much white space was held back before.

`FlattenSeq` is a recursive function, so what it computes has to be shown first.
The induction needed is done by a least counterexample (`LeastNatural`, from the
library's `WFMin`): the flattening of a sequence exists (`FlattensExists`), is
unique (`FlattensUnique`), and one more text comes last (`FlattenAppend`).

### ClientProjectionProofs

* `ShownIsAlwaysSelected`: `Spec => []ShownIsSelected`, under
  `ProjectionAssumption`: for any number of Threads, Runs, requests, moves and
  failures, and also with `Reopen = TRUE`, which the run leaves out.

`ShownInvariant` adds what the late answers rely on: a `getThread` answer names
only Runs of the Thread it was asked for (`ReadsOwnThread`), and a create request
the Thread of its Run (`CreatesOwnThread`). An answer is then shown only by a step
that compares its Thread with the selected one (`AnswerSteps`,
`CreateAnsweredStep`); flushes and cancel answers add no Run (`FlushKeeps`,
`StopSteps`); and a failed create request takes its optimistic snapshot away
together with its selection (`CreateFailsStep`).

### RunnerStreamProofs

Under `RunnerAssumption`, for any number of Runs, any queue capacity and every
fault:

* `StreamEndsWithVerdict`: `Spec => []StreamEndHasVerdict`;
* `StreamTypeCorrect`: `Spec => []TypeOK`, the queue's bound included.

`StreamInvariant`. `OneConsumer`: as long as the worker reads, nobody has
cancelled the producer. `LastItem`: a producer in its finally block, not
cancelled, has put its result or error before the sentinel, which is always the
last item. Hence a reader that meets the sentinel was told (`Told`).

### EventStreamProofs

For any number of events and breaks and any cursor the page starts from
(`StreamAssumption`):

* `StreamTypeCorrect`: `Spec => []TypeOK`;
* `EventsExactlyOnce`: `Spec => []ExactlyOnceInOrder`;
* `ResponseIsComplete`: `Spec => []ResponseCarriesLog`;
* `ReturnMeansTerminal`: `Spec => []DoneHasTerminal`.

The inductive invariant `StreamInvariant` says where every event is: what the
page was handed is `Start + 1 .. afterSeq` (`DeliveredPrefix`), what is on the
wire continues it up to the generator's cursor (`WireContinues`), nothing is
under way without a response (`NoResponse`), and the page's `terminal` flag and
a closed response each imply that the Run has ended and that nothing is missing
(`EndIsKnown`). The order of the generator's two reads is used exactly there: the
status is read after the events, so the terminal event that it announces may be
behind the cursor, and the code closes only when the cursor has reached
`last_seq` of that second reading. With `DeliveredPrefix` and `WireContinues` it
follows that what was handed over and what is on the wire are together the whole
log after the start cursor (`ResponseCarriesLog`).

### Only model-checked

* All liveness properties: fairness and ENABLED are out of the prover's reach.
* AccountUsage: TotalsAreExact compares a sum over a sequence of Runs with a sum
  over the set of all attempts (`MapThenSumSet`), and AnswersAddUp sums over
  what `SelectSeq` takes from one table for different scopes.
* NoTextLost, NoSilentStall and TerminalEventIsFinal of ClientProjection: they read
  what `FoldLeft` has applied of a batch and what `SelectSeq` takes of a log.
  NoTextLost and TerminalEventIsFinal also hold only with `Reopen = FALSE`.

  The prover has no facts about these folds, and the induction theorems of its
  library take an operator, which it cannot instantiate. A least counterexample,
  as for `FlattenSeq`, would have to be worked out for each of them.
* The properties of section 6, which the code does not keep.

## 5. Not modelled

* Context builder: a pure concatenation of layers and messages, without state.
  Which messages it is given is `ContextStable`.
* The startup validation of `AgentPolicyKernel` and of the Tool registry
  (versions, digests, schemas): it either raises before traffic or not.
* HTTP translation, identity providers, schemas, settings, engine, migrations,
  smoke scripts: no protocol state. A caller's identity is an input.
* `rename_thread`, `list_threads`, titles, durations and timestamps: they touch
  no column that a property reads.
* On the page: the message list with its optimistic entries, Tool and source
  rows (replaced by their id), the alert line, rename, account page, scrolling
  and rendering.

Failures that are in the models but outside the runs whose properties they would
break, because the code does not mask them:

* an append that commits after its deadline: the ledger then misses the event
  (`service_safety` excludes it);
* an admission that commits after its deadline, a cancel request that is refused
  or whose write fails: a Run without a worker in a healthy service until the
  process is replaced (`service_live` names this state, `Stranded`);
* a response that breaks behind the terminal event: the page has every event,
  and `streamRunEvents` reconnects for ever, because its `terminal` flag is per
  response (`api.ts:241`);
* a create request whose answer is lost: the page may show a Run as working with
  nothing under way, until the user acts; `NoSilentStall` is therefore stated
  for `failures = 0`. The answer to a cancel request carries no sequence number,
  so an older snapshot may show a cancelled Run as running until its stream ends;
* two consecutive Runs of one Thread on the page: outside the kept instance, for
  its size.

## 6. Disagreements between documents and code

One is kept as a run. For the others the module states what the document says,
and the instance named here violates it when its properties are replaced by that
one.

* `service_cancel_refused` (run). `docs/contracts/events.md:149-151`: "ownership
  is checked before ... cancellation". `cancel_run` cancels the worker's task
  (`service.py:291`) before the repository compares the owner.
* `UnconfirmedTerminalFailsClosed` under the constants of `service_live` (for the
  worker's own write, `service_safety` shows it as part of `NoStrandedRun`).
  `docs/contracts/agent-policy.md:150-152`: if "a terminal fact cannot be
  confirmed, the service fails closed". `RunService.cancel_run` stops the worker
  and, when its own write then fails, only raises: the service stays healthy with
  an active Run that nobody owns.
* `CancelSettlesLedger` under the constants of `service_live`.
  `docs/contracts/account-and-usage.md:21-24`: the settlement before a
  cancellation "cannot be skipped". A second request that arrives after the
  worker has exited and before the first has committed finds no execution, so it
  settles nothing, takes no lock and may win.
* `NoWorkInFinalization` under `runner_stream`. `agent-policy.md:149-150`: in the
  finalization window "no model or Tool work may run". A worker that leaves its
  loop by an exception (`service.py:461-487`) commits its terminal before the
  abandoned generator stops the producer.
* `FailedCleanupMarksService` under `runner_stream`. `agent-policy.md:144-145`:
  failure to settle "marks the service unhealthy". The cleanup timeout of an
  abandoned generator is raised in the event loop's finalizer, where nobody
  reports it; the runtime then refuses every Run of a healthy service.
* `OneCancelIsHarmless` under `runner_stream` with `Faults = {}`.
  `agent_runtime.py:785-786` speaks of "a second parent cancellation", but the
  handler takes any: when the stream ended by itself, the first cancellation
  that arrives in the cleanup makes the process fail.
* `SettlementIsNeverSkipped` under `usage_ledger`, also with `Faults = {}`: the same
  in the terms of the rows. A shutdown or a first request cancels the worker, the
  producer unwinds and leaves the finish of its attempt pending, the worker exits,
  and the next request ends the Run without the usage already observed.
* `CancelFlushesObservedUsage` under `usage_ledger`.
  `account-and-usage.md:21-24`: a cancellation "durably flushes any terminal
  usage already observed in memory". A report observed between the settlement
  and the commit is lost.
* `PartialMeansSomeReported` under `account_usage`.
  `account-and-usage.md:58-59`: partial means "at least one included attempt
  reported the field and at least one did not". A Run without attempts next to
  one whose attempts reported nothing is answered partial.
* `DeniedToolNotEntered` without its condition `FewSources`, under
  `run_execution` with a Tool that reports ten sources. `agent-policy.md:67-70`:
  "a later policy denial cannot reach the Tool implementation". A call that waits
  for the full queue after its check is entered although the Tool was withdrawn
  meanwhile.
* `NoRepeatedText` under `client_projection`. `events.md:293`: "The client accepts
  and deduplicates every validated sequence". `get_thread` reads its events after
  its Run rows; the page takes the older `last_seq` (`App.tsx:202-211`) and shows
  a delta again when it is streamed.
* `NoTextLost` under `client_projection` with `Reopen = TRUE`.
  `events.md:295-297`: "persisted text, and terminal equality remain unchanged".
  When a Thread is opened twice, the older answer may arrive last and replaces
  what the newer stream has shown (`App.tsx:656`).

## 7. Plan

1. Proofs: NoTextLost of ClientProjection, with the facts about `FoldLeft` and
   `SelectSeq` shown by a least counterexample as for `FlattenSeq`.
2. Two consecutive Runs of one Thread on the page, with a smaller server.
