# Exolon: a verification development

The repository holds a game (Exolon, Swift), a governance command line for the
work on it (`.grok-stack/`), and under `factory/` the program this directory is
mostly about: a *factory* that turns work items into runs of workers, with a
PostgreSQL control plane, and a *landing pipeline* in which a client hands one
input to the first of several independent hosts that can process it.

The TLA+ modules model the parts in which several actors, crashes and clocks
meet. Model checking is by TLC (the `.cfg` files), proofs are checked by TLAPS.
`PROJECT.json` ties every definition to the lines it models, every property to
the hazard it is about, and every property to a mutation of the code that
breaks it.

All source paths below are relative to `factory/src/adaptive_factory/` unless
they start with a directory of the repository's root.

## 1. Inventory

### Factory control plane: tasks, leases, capacity
*Source* `store.py` (`PostgresFactoryStore`), `state.py`, `models.py`,
`resources/001`, `002`, `003`, `007`.
*State* tasks, runs and their allocations, attempts, fence sequences, capacity
counters, task events, kill switches.
*Operations* `intake` (which supersedes the open task of the same source),
`cancel`, `claim`, `heartbeat`, `transition_phase`, `release`, `set_kill`,
`reconcile`.
*Interaction* workers hold a grant (run id, lease id, fence) and name it in each
command; operators cancel and call `reconcile` (`cli.py`, `POST /v1/reconcile`).
Every method is one transaction that locks the rows it changes.
*Hard* any number of workers claim at once; a worker that lost its lease goes
on talking; reconcile picks its candidates before it locks them; claim reads
the kill switches before it locks anything; retries are counted in three
places.
*Correct when* a live run, its allocation, its fence and the pointer of its task
agree; counters equal allocations and stay under their ceilings; a released run
is frozen; a terminal task is final; everything ends through reconciliation
alone.

### Factory accounting
*Source* `store.py` (`reserve_budget`, `observe_usage`, `_release_locked`),
`resources/003`, `019`.
*State* reserved and observed amounts of a task, reservations and usage
observations of a run, the quarantine flag `accounting_blocked`.
*Hard* several attempts reserve and report; a lease can end between any two of
these; usage may exceed the limit or lack a price.
*Correct when* reserved is the sum of the open reservations, reserved plus
observed stay within the limit, a task with unsettled accounting is
quarantined and never leased again, and a positive result has usage.

### Command replay and audit chain
*Source* `store.py` (command results), `resources/005`, `009`.
*State* one result per idempotency key; hash-chained events.
*Hard* a command repeated after its answer was lost, while the first may still
be running; a replayed claim returns a grant that may be stale. *Correct when* a
key answers one command, always with the same result. Modelled for the commands
of the execution plane; the audit chain is not modelled.

### Execution plane
*Source* `service.py` (`claim_execution`, `commit_execution_proposal`,
`commit_terminal_and_finalize`, `finalize_execution`), `store.py`, `protocol.py`,
`brokers.py`, `workspace.py`, `resources/014`, `015`, `020`.
*State* packet, manifest and its stage, proposals by producer sequence,
artifact attestations, usage observations, workspace result.
*Operations* start, advance, attest, propose, mark and propose the terminal
event, finalize as context, snapshot and commit.
*Interaction* a service call is several transactions and broker calls one after
another, all under the grant of the control plane; a worker repeats a call whose
answer it did not get.
*Hard* two calls interleave at every transaction; finalization reads a context,
works outside of any transaction and commits later; the service dies between
two steps; claim and start are two commands; usage is told twice, to the log and
to the accounting.
*Correct when* a run has one result, made of its complete log; no evidence is
replaced or left behind; whatever a caller was told stays true; a repeated
terminal command gets through.

### Execution recovery
*Source* `recovery.py`, `store.py` (1427-1710), `resources/017`.
*State* one clean-up job per run (`pending`, `claimed`, `failed`, `succeeded`)
with a claim fence, an expiry and a next time; a cursor over the manifests.
*Operations* a page of candidates in two lanes, claim, release of the workspace
by a broker, the two outcome reports; `execution_recovery_cancel_task`.
*Interaction* closes leases through `_release_locked`; cancel and supersede put
down jobs.
*Hard* a coordinator dies with a claimed job, another takes it over, the first
reports late; the rows of a page move while the page is worked through.
*Correct when* an execution is closed only after its lease, a workspace is
released only when its execution has no result, a job is settled only by its
newest claim, and no orphan is passed by for ever.

### Factory service
*Source* `service.py`, `api.py`, `server.py`. Role checks and HTTP in front of
the store; its protocols are in the execution plane. Not modelled otherwise.

### Semantic validation, repair, autonomy
*Source* `semantic_*.py`, `autonomy.py`, `store.py` (300-1106), `resources/018`.
*State* append-only tables: subjects, assignments, coverage and findings,
verdicts, directives and child proposals, bindings, escalations.
*Operations* publish, assign, append evidence, adjudicate, plan a repair, bind
the child task; intake and claim ask whether a source is a proposal.
*Interaction* a subject is a finished result of the execution plane; a bound
child is a task of the control plane, whose result is the next subject.
*Hard* the verdict is computed outside of any transaction, while validators are
assigned and evidence is appended; a plan uses a verdict recorded earlier; the broker may take a proposal in again while
the first task is being bound.
*Correct when* a verdict leaves out no validator; a plan is justified by the
evidence that is stored; a chain of repairs is short, spends its budget, and
repeats neither a finding nor a context; a proposal becomes one task.
`autonomy.py` computes recommendations from cohorts and keeps no state.

### Landing failover client
*Source* `landing_failover.py`, `landing_failover_journal.py`,
`landing_failover_transport.py`, `landing_failover_contracts.py`.
*State* a journal with one record per job (ordered attempts with their receipts,
winner, verdict) and the payload until it is purged.
*Operations* `submit`, `resume`, `status`; inside, the loop of `_drive` over the
back ends: capability, saved intent, POST, observation, judgement.
*Interaction* HTTP over a Unix socket with each host; the journal has one writer.
*Hard* the client dies anywhere; a POST times out and arrives later; a host
restarts in the middle of its work; deadline, retention and a wall clock that
may be set back.
*Correct when* a back end gets the input at most once, the next one only after
the previous ones provably failed, and the verdict is true of the hosts.

### Landing host: service and store
*Source* `landing_service.py`, `landing_sqlite_store.py`, `landing_http.py`,
`landing_observation.py`.
*State* one row per job: state, revision, observation of the provider, artifact.
*Operations* `create_or_replay`, `put` with a revision and a transition table,
`cancel_or_replay`, `_recover_interrupted` after a restart, demotion of a job
whose artifact files no longer validate.
*Hard* the process dies between two puts, or while the provider works.
*Correct when* the provider is called at most once for a job, a restart never
invents an outcome, and every receipt is one the client accepts.

### Landing evaluation, publication, retention; rendering and providers
*Source* `landing_coordinator.py`, `landing_evaluation.py`,
`landing_publication_cli.py`, `landing_artifact_retention.py`,
`landing_backup.py`; `landing_renderer.py`, `landing_sse.py`,
`landing_extra_providers.py`, `landing_live_executors.py`. The publisher that the
command line drives is a package outside of this repository; what is left of the first
group is a loop of at most three attempts and an offline backup, without a
second actor. The second group is conversion and I/O. Not modelled.

### Governance command line
*Source* `.grok-stack/adaptive_grok/` (`state.py`, `receipts.py`,
`queue_provenance.py`, ...). The phases of a change and its verification
receipts, kept in files of the git tree. Most of it inspects documents. Not
modelled.

### Exolon: the gameplay event log
*Source* `Exolon/GameCore/Diagnostics/GameplayEventLog.swift`, composed in
`Exolon/Platform/macOS/AppDelegate.swift`.
*State* a ring of records under a lock, counters of what was appended and dropped,
the drain's batch, a file writer with a buffer and a bounded number of files.
*Operations* `emit`, `beginTick` with its heartbeat, `drainNow`, `flush`, `shutdown`;
in the writer open, write, rotate, prune.
*Interaction* the game's thread appends and, on termination, waits for the queue; a
timer drains on the queue.
*Hard* the ring laps the drain; a file cannot be opened in the middle of a drain;
the process dies with lines in the buffer; termination waits for the queue.
*Correct when* the retained files read without a hole, every record is written or
counted, a loss is declared where it happened, and termination ends.

### Exolon, Facebook port, documents and schemas
`Exolon/` otherwise is a single-threaded game with a fixed tick, levels and physics;
`facebook-port/` is a port with an SDK wrapper. `decisions.md`, audits, schemas and
evidence scripts have no state. Not modelled.

## 2. Modules

| module | models | extends / used by |
|---|---|---|
| `LeaseContract` | abstract: leases, fences, ceilings, closed tasks | instanced by `FactoryControl` |
| `FactoryControl` | control plane and accounting | |
| `MCFactoryControl` | instances for TLC | extends `FactoryControl` |
| `MCKillSwitch` | a history of grants under a kill switch | extends `MCFactoryControl` |
| `FactoryControl_proofs` | types, leases, reservations, the action properties | extends `FactoryControl` |
| `FactoryCapacity_proofs` | counters and ceilings | extends `FactoryControl_proofs` |
| `FactoryTasks_proofs` | accounts, retries, sources, the lease contract, kill switches | extends `FactoryCapacity_proofs`, `MCKillSwitch` |
| `FencedClaim` | abstract: a queue of jobs, claimed under growing fences, each done once | instanced by `ExecutionRecovery` |
| `ExecutionRecovery` | clean-up of executions whose worker is gone, with its coordinators | |
| `MCExecutionRecovery` | symmetry for TLC | extends `ExecutionRecovery` |
| `ExecutionRecovery_proofs` | all safety properties and the refinement | extends `ExecutionRecovery` |
| `SealedLog` | abstract: a log that is sealed once and told alike to everybody | instanced by `ExecutionPlane` |
| `ExecutionPlane` | one run from its claim to its result, with repeated calls | |
| `MCExecutionPlane` | symmetry for TLC | extends `ExecutionPlane` |
| `ExecutionPlane_proofs` | all safety properties and the refinement | extends `ExecutionPlane` |
| `SemanticRepair` | subjects, evidence, verdicts, repair proposals and their tasks | |
| `MCSemanticRepair` | reports, bounds and symmetry for TLC | extends `SemanticRepair` |
| `SemanticRepair_proofs` | verdicts, chains and child tasks | extends `SemanticRepair` |
| `LandingHost` | the hosts' jobs and their receipts | extended by `LandingFailover` |
| `LandingFailover` | the client, its journal, the network, the clock | |
| `MCLandingFailover` | a history of the clock for TLC | extends `LandingFailover` |
| `LandingFailover_proofs` | all safety properties of the client | extends `LandingFailover` |
| `GameplayEventLog` | the game's event log: ring, drain queue, files | |
| `GameplayEventLog_proofs` | where every record is, what the files say | extends `GameplayEventLog` |

The components of the factory meet in the lease of a run. `FactoryControl` has the
lease itself, for many tasks; `ExecutionPlane` has one run with what its lease
protects, and every way the lease can end; `ExecutionRecovery` has many runs, each
reduced to what recovery asks of it; `SemanticRepair` starts where a run has
become `ready_for_human` and ends where a child task is claimed.

### FactoryControl

A transaction is one action; the two places where the code reads before it locks
are split. `ClaimBegin` reads the kill switches and `ClaimGrant` / `ClaimEmpty` is
the rest of `claim`; `ReconcileSelect` is the unlocked candidate query and
`ReconcileRun` / `ReconcileTask` / `ReconcileSkip` / `ReconcileAbort` is what
becomes of a candidate once its rows are locked. A command the code refuses
(`FenceError`, `BudgetError`, `TransitionError`) rolls back: the action is
disabled.

| variable | code |
|---|---|
| `task` | row of `tasks`: status, generation, current run and fence, deadline, repairs, reserved and observed cost, `accounting_blocked` |
| `run` | row of `runs`, its `capacity_allocations` row, open `budget_reservations`, `usage_observations` |
| `attempts`, `lastFence`, `events` | `attempts`, `lease_sequences`, ordinary `task_events` |
| `active`, `readersIn` | `capacity_counters` |
| `kill` | latest row of `kill_switches` per scope |
| `claiming`, `pageRuns`, `pageTasks` | what a transaction has read before it locks |

`ImplementsContract` maps a task's lease to `LeaseContract` through the runs and
allocations and not through the pointer in the task, so that a run that survives
its task's pointer would show.

What is abstracted:

- *Which task a claim takes.* `FOR UPDATE SKIP LOCKED` may pass over an older
  task, so any claimable one may be taken; creation order is not kept.
- *Two branches.* `retry_exhausted` of `claim` and the orphan branch of
  `reconcile` are left out; `ClaimableHasAttempt` and `LeaseAgreement`, both
  proved, say that the conditions which lead there never hold.
- *Pages.* The candidates of one reconciliation commit one at a time.
- *Accounting* has one dimension, cost; token counts are handled like it.
- *Failure classes* are `infrastructure` and `quality`, the only difference that
  `classify_retry` makes for the target.
- Owners, packet digests and `semantic_task_claimable`, which only remove
  behaviours; command replay; finalization of executions and
  `execution_recovery_cancel_task`, which the other modules of the factory have.
- *Bounds*: `MaxTime` stops the clock and admits only tasks whose deadline lies
  before; `MaxOpen` bounds the open reservations of a run.

### ExecutionRecovery

A call of the store is one action on locked rows. A coordinator makes one call
after another, so the page it works from and the claim it holds may be stale
when it uses them. The execution is reduced to what recovery reads: who holds the
lease, whether it has run out, the stage of the manifest and the order of
`updated_at` (timestamps are ranks).

| variable | code |
|---|---|
| `run`, `manifest` | lease of a run and its first phase; row of `execution_manifests` |
| `job` | row of `execution_recovery_jobs`: status, fence, candidate key, whether `next_claim_at` lies ahead |
| `reclaimed` | workspaces the broker has released |
| `co`, `cursor` | the locals of `ExecutionRecovery.reconcile` (lanes, cursor candidates, claim) and the cursor it is called with |

| action | code |
|---|---|
| `Start`, `Advance`, `Finalize`, `MovePhase`, `WorkerGivesUp`, `ReconcileLease`, `CancelTask`, `CancelExecution` | what worker and control plane do around recovery |
| `FetchPage` | `execution_recovery_candidates`, both lanes |
| `ClaimGranted`, `ClaimNotDue`, `ClaimRefused`, `ClaimFails` | `claim_execution_recovery` with `execution_recovery_context` and `_claim` |
| `ReleaseWorkspace`, `ReleaseFails`, `RecordOutcome`, `OutcomeNotRecorded` | release by the broker, `cleanup_succeeded` and `cleanup_failed` |
| `SkipFresh`, `EndCycle`, `BudgetEnds`, `Crash` | the rest of the loop, and the process |

Abstracted: the retry lane may list any claimable jobs, since `next_claim_at` is not
kept; tokens are the fence they are issued with; the backoff is the flag
`waiting`, which time takes away. The transition to `cancelled` by a claim needs a
manifest that cancel left active, which there is none of. *Bounds*: `MaxClock` stops
`Advance` only; `MaxFaults` counts crashes, lost answers, failed releases and
overruns.

### ExecutionPlane

One run; each transaction of a service call and each broker call is one action,
and `calls` says where a call is. The constant `Calls` lets two of them run at
once, under the same key or two.

| variable | code |
|---|---|
| `task`, `due`, `account` | the task and its lease as far as the calls see them |
| `stage` | `execution_manifests.stage` |
| `log`, `attested`, `consumed` | `execution_proposals`, `execution_artifact_attestations` by producer sequence |
| `usage` | `usage_observations` by provider call |
| `result` | `workspace_results` |
| `commands` | `command_results` of the run: key and phase, request, answer |
| `files` | the version of the files in the workspace |

| action | code |
|---|---|
| `Claim`, `StartExecution`, `CleanUp` | `claim_execution` |
| `ReplayProposal`, `RecordAttestation`, `CommitProposal`, `LookAgain` | `commit_execution_proposal`, plain, artifact and priced usage |
| `MarkTerminal`, `ReplayResult`, `RequestSnapshot`, `TakeSnapshot`, `Finalize`, `LookForResult` | `commit_terminal_and_finalize`, `finalize_execution` |
| `Advance`, `ReserveBudget`, `ObserveUsage`, `Release`, `RunsOut`, `Reconcile`, `Recover`, `ChangeFiles` | the other writers of the run, and the agent |
| `Cancel`, `ExpireWaiting`, `TakenAgain` | `_terminalize_task` for cancel and supersede, `_terminalize_expired_unleased_task`, a later claim: what becomes of the task with or without the lease |
| `Fails`, `LosesAnswer`, `Dies` | a transaction that rolls back, one that commits unheard, a service that ends |

Abstracted: grant, packet and fence are those of the run and always match;
digests are the facts they are digests of; the broker attests the same files alike
each time it is asked (`workspace.py` 275); calls carry keys; tokens and cost are
whether an observation fits the limits. Once the lease is given back the task
goes on without the run: it may be cancelled, superseded, expired or claimed again,
and a task that a later run has (`taken`) is not followed any further. A cancel
that takes the lease away closes the execution with it; one that comes later leaves it
to recovery, which is all `execution_recovery_cancel_task` does for a run that is
not in state `released`. With `Started` the run begins with an execution
that was started. *Bounds*: `MaxWrites`, `MaxFaults`, a worker that offers the
next sequence or its last one again, and `ClaimKeys`: in `plane_life` a worker claims
under one of its two keys, since a second claim finds nothing to claim.

### SemanticRepair

A chain of results: result `s + 1` is that of the task that the proposal of `s`
became. Each SQL function is one action where its locks exclude every writer of
what it reads: `append_verdict` and `plan_repair` take the subject `FOR UPDATE`, and a
row of coverage, of findings or of an assignment refers to it by a foreign key, so
none is added in between. Two calls are split: the adjudicator reads its
material in one transaction, computes outside of any and records in another
(`ReadMaterial`, `RecordVerdict`, `VerdictRefused`); `intake` asks for the status of its
source and inserts later, under the advisory lock of the source (`IntakeBegin`,
`IntakeCommit`, `IntakeAbort`).

| variable | code |
|---|---|
| `subject`, `assigned`, `evidence`, `verdict` | `semantic_subjects`, `_assignments`, `_coverage` with `_findings`, `_verdicts` |
| `proposal`, `escalated`, `bound` | `semantic_directives` with `_child_proposals`, `_escalations`, `_child_task_bindings` |
| `task` | the tasks whose source is the proposal's digest, by generation |
| `draft`, `intaking` | what an adjudicator has read; the intake under way |

Abstracted: a subject has one requirement, and a validator reports an identity
once; the reasons to escalate that compare one document with another (writer, risk,
diff, architecture, authority, base, fence, remaining cost, tokens, output and
events, deadline) are the one flag `current` of a request; documents that the functions
refuse, a revoked authority, and an earlier proposal of another writer or
repository are steps not taken; command replay by key, recovery records and metric
events are left out.
*Bounds*: `MaxAssigned`, `MaxTasks`, `MaxEscalations`, and `Latest`: a result is judged and
planned for until the next one is published. An adjudicator does not prepare a
second verdict, which `UNIQUE (subject_digest)` would refuse.

### LandingHost and LandingFailover

One caller job against `N` hosts. `LandingHost` is the child job at each host.
Its `work` is the position of the request that processes it, with one action per
durable put or call; `HostCrash` loses the request and `Recover` is
`_recover_interrupted`. The host also cancels (`CancelJob`) and finds artifacts
spoiled (`SpoilArtifact`).

`LandingFailover` is the client. `rec` and `spool` are the row of the journal,
`pc` is where `_drive` is, `wire` holds the POSTs that have left and not arrived,
`sent` counts them. Every save of the journal is a synchronous commit, so a
client step ends with a save or an answer, and `CallerCrash` may follow any of
them. `Open` is `resume`, `status` and a repeated `submit` alike, since all begin
by opening the journal, which purges expired payloads; `status` then goes down
again, as a crash does.

| action | code |
|---|---|
| `Submit`, `Open`, `Drive` | `submit`, `CallerJournal.__init__` and `load`, `_drive` up to its loop |
| `EnterAttempt`, `StopLate`, `Exhaust` | head and end of the loop |
| `CapabilityUnavailable`, `...Ambiguous`, `...Mismatch`, `InputUnavailable`, `Dispatch` | between the plan and the saved intent |
| `Post`, `PostFails`, `Observe`, `ObserveAmbiguous`, `Reject` | the two requests and their errors |
| `Judge` | what a saved receipt leads to |
| `Deliver`, `Drop`, `Tick`, `SetClockBack` | network and `time.time` |

What is abstracted: the capacity limits of the journal (a refused `create` leaves
nothing behind); a request whose content or configuration differs from the
record's, which is refused without a change; digest and identity checks, which
all end as `backend_rejected` and are in `Reject`; the revision check of a
receipt, which cannot fail against a store whose revisions only grow; the state
`evaluating`, which no path of the service enters. The answer to a POST is not a
variable, since the code ignores its content and observes.

### GameplayEventLog

A section under the lock is one action. The rest of a drain belongs to the queue
alone; it is cut where a file is opened or retired and before the batch is written, so
that a crash can fall between them and the game can append meanwhile.

| variable | code |
|---|---|
| `ring`, `head`, `tail`, `dropped`, `undeclared` | the ring; `pending` is `tail - head`, `appendedTotal` is `tail`; `droppedTotal`, `droppedSinceDrain` |
| `tick`, `game` | `tickValue`; where the game's thread is: playing, waiting in `flush`, in the closer of `shutdown`, done |
| `at`, `scratch`, `claimed` | where `drainNow` is, the batch and the drops it has taken |
| `nextSeq`, `file`, `said` | `nextSeq`; `fileIsOpen` and `openFailed`; what `reportOnce` has printed |
| `handle`, `rotation`, `disk`, `buffer` | the file writer; lines of all retained files in one sequence, each with its generation |
| `written` | history: records handed to an open file |

| action | code |
|---|---|
| `Emit`, `BeginTick` | `appendRecord`, `beginTick` with `appendHeartbeatLocked`, both with the overrun of `storeLocked` |
| `DrainBegin` | `drainNow` under the lock |
| `OpenFirstFile`, `DrainRefused`, `RotateFile`, `WriteBatch` | the rest of `drainNow`: `ensureFileOpen`, `rotateFile` with the writer's flush and `pruneOldFiles`, drop line, records, write |
| `Shutdown`, `FlushDone`, `WriteEnd` | `shutdown`: `flush` until nothing is pending, then `log.end` |
| `Crash` | the process dies; the buffer is lost |

Abstracted: sizes are counted in lines; a record is its number, its tick and whether
`shouldFlush` wants it on disk at once; frames are handled like ticks. Only the game's
thread appends, and `shutdown` comes from it (`applicationWillTerminate`). A drain that
finds nothing changes nothing and is not a step. The headless modes, `requestDrain` and
the overlay, which only reads, are left out.
*Bounds*: `MaxEvents` records and `MaxTick` ticks.

### Mutants

A definition with a comment that begins with `Mistake:` is not part of a model.
It is the definition after it with a bug a maintainer could introduce (a guard
dropped, an off-by-one, a condition swapped), and `PROJECT.json` names the
property that fails once it takes the place of the right one. No property is
stated that no such mistake breaks.

## 3. What is checked

| run | instance | distinct states | shows |
|---|---|---|---|
| `lease` | two tasks of one source, two attempts, lease lengths 1 and 2 | 1.5 million | rows of a lease agree, leases end by the deadline, retries have an attempt and room for their event, one open generation, the past is frozen, `LeaseContract` is implemented |
| `capacity` | three tasks in two repositories, ceilings 2, 1 and 1, a kill switch of one repository | 1.8 million | counters equal allocations, ceilings hold, at most one grant per worker after a kill |
| `life` | one task, two attempts, costs 0 to 2, limit 1, two open reservations, a kill switch, fair | 413,000 | reservations and limits, quarantine, completion needs usage; tasks settle, leases come back |
| `failover` | three hosts, clock 0..3 that may be set back once, fair | 456,000 | submitted once, in order, true verdicts, final records frozen; a resumed job settles, and its input is kept unless the clock was set back |
| `recovery_claims` | two coordinators, one execution, three faults | 16,000 | clean-up is sound, live leases are kept, `FencedClaim` is implemented |
| `recovery_live` | one coordinator, two executions, one fault, fair | 269,000 | orphans are cleaned, executions end, the watermark never fires |
| `plane_finalize` | two calls under two keys, two events, two faults, one change of the files | 1.6 million | the log is sound and sealed once (`SealedLog`), evidence is kept, the newest snapshot counts, answers are true |
| `plane_life` | one call from its claim on, usage plain and priced, a completed or a failed end, one fault, fair | 1.2 million | a result is the log wherever its task goes from there, a completed one is settled, a repeated terminal command gets through |
| `plane_cached` | one call, priced usage with cache tokens, fair | 43,000 | *violation*: the terminal command is never finalized (section 5) |
| `semantic` | two results; two validators and two tasks for the first | 1.1 million | verdicts leave out nobody, chains are sound, one child per proposal |
| `event_log` | a ring of three, batches of two, files of three lines of which two are kept, six records, fair | 412,000 | what is retained can be trusted, every record is accounted for, the log drains and ends |
| `event_log_rotation` | the same | 15,000 | *violation*: a rotation that fails loses a batch uncounted and unsaid (section 5) |

Some properties are conjunctions of named parts: `RetryCanBeClaimed` (the attempt
and the event a retry needs), `CapacityHolds` (counters and ceilings),
`AccountingSound` (the sums, and usage behind every completion), `PastFrozen`
(released runs, terminal tasks and fences), `CleanUpSound` (a job means a closed
execution, workspaces are kept, success is true), `RecordsAccounted` (place, count
and durability of a record). Types are checked with `TypeOK` of `LandingFailover`
and in `LogIsSound` of `ExecutionPlane`, and proved for every module.

*Why these bounds.* `FactoryControl`: two attempts are the first retry and its
exhaustion; a second task of the same source is what supersedes and is
superseded; two repositories with three tasks fill one reader counter while the
other is free, and fill the global one from both. A lease length above the
heartbeat's lets a renewal shorten a lease (`claim` accepts 30 to 300 seconds and
`heartbeat` always renews by 30). Costs 0, 1 and 2 against a limit of 1 are a
reservation of nothing, one that fits and one that cannot. `Wall` 2 with a clock to
3 lets a lease expire before, at and after the deadline. `LandingFailover`: three
hosts have one before and one after any current one; deadline 1 and retention 2
with a clock to 3 give a time before each, at each and after.
`ExecutionRecovery`: two coordinators are needed for a late report of a former
holder, and three faults for a claim that expires, is taken over and fails again;
two executions with one coordinator are a page with a row before and a row after the
cursor. `ExecutionPlane`: two calls are every race of two transactions; two
events are one that the terminal event follows; two faults are a lost answer and
a repeated call that fails; `LastAttempt` is true in `plane_finalize`, where a failed
run ends dead, and false in `plane_life`, where its task waits for a retry that a
cancel, a deadline or a later claim ends. `SemanticRepair`: two results are one hand-over, two
validators a disagreement and a late assignment, two tasks a superseded child
and a race with the binding. `GameplayEventLog`: six records lap a ring of three
and make a second rotation, which prunes; a batch smaller than the ring leaves records
behind it. The theorems below remove these bounds for every safety property that a
run checks and for the three refinements; bounds on steps (`MaxEvents`, `MaxWrites`,
`MaxFaults`) may then have any value.

*Deadlock.* The runs say `CHECK_DEADLOCK FALSE` because the systems may stop:
once the clock or a bound is reached and everything is settled, nothing remains to
be done.

*Fairness.*

- `FactoryControl`: the clock advances; `reconcile` is called again and again,
  looks at its candidates, and a candidate that stays selected is not rolled back
  for ever: strong fairness, since an abort of the page or a heartbeat interrupts
  it. The code justifies the last part (a page has bounded transactions and its
  rows are locked one candidate at a time); that somebody calls `reconcile` at all
  is an assumption about the deployment, since the repository ships no timer for
  it. Nothing is assumed of workers, of cancels or of intake.
- `LandingFailover`: the clock advances; each request is bounded by its timeout, so
  a running client goes on; the job is resumed again and again, and not every one
  of these processes is killed before its first look at the record (strong
  fairness of `Drive`). Nothing is assumed of the hosts, which may never answer.
- `ExecutionRecovery`: the coordinator is called again and again and proceeds with
  its page; leases and delays expire; the control plane's `reconcile` runs. A
  worker may stop for good at any point.
- `ExecutionPlane`: the service goes on with each call it has begun (weak
  fairness), and a worker repeats its terminal command as long as it is not
  answered (strong fairness, since a fault may interrupt the call). Faults are
  bounded by `MaxFaults`.
- `GameplayEventLog`: the timer fires again and again and the queue runs its work;
  the game's thread goes on once the queue has answered. Nothing is assumed of
  the game.

## 4. What is proved

All theorems are about `Spec` (`KillSwitchStops` about `KillSpec` and `InputIsKept`
about `MCSpec`, which add a history variable to it), for every value of the constants
that satisfies the assumptions named in the modules: `SetsAssumption`, `LimitsAssumption`,
`CeilingsAssumption` for the factory (finitely many tasks; retries 0 to 2 and
repairs 1 to 3 as the intake contract demands; positive ceilings),
`RecoveryAssumption` (finitely many runs, any coordinators, a page of at least two),
`PlaneAssumption` (finitely many calls, any keys and faults, a limit of at least one event),
`RepairAssumption` (any length of a chain; limits of one to three repairs) and
`BackendsAssumption`, `CallerAssumption` for the client (one to five back ends, a
positive deadline within the retention); `LimitsAssumption` of the event log asks for
positive sizes. No bound on tasks, clock or amounts is
needed beyond that.

**FactoryControl_proofs.** `RowsInvariant` proves an inductive invariant about each
task by itself: type correctness, and agreement of the task's row with its runs,
attempts, fence, events and reservations. `LeaseAgreement` alone is not
inductive: that a run which is not the newest is closed has to be known before
a grant, that runs beyond `attempts` are absent and carry no fence, and that
only the newest run has reservations. Every action touches the rows of one task
(`IntakeSupersede` of two), so preservation is proved for the touched task and
the rest is carried by one locality lemma. From it follow `TypeCorrect` (in
particular a reserved amount is never negative and there is never a fourth
attempt, which the schema would reject), `LeasesAgree`, `LeasesEndByDeadline`,
`AttemptsSuffice` and `ReservationsCorrect`, and the three action properties that
`PastIsFrozen` joins: a released run, a terminal task and a fence that was used.

**FactoryCapacity_proofs.** `CapacityInvariant`: each counter equals the cardinality of
the allocations it stands for, and stays under its ceiling. A grant adds one
element to such a set and a closed run removes one; that a run is removed only
once is `LeasesAgree`. `CapacityIsSound` follows.

**FactoryTasks_proofs.** Seen from one task every action is of one of six kinds
(`TaskSteps`, `OneTaskMoves`): the task is kept, arrives, stops, starts, works or
completes. Three invariants are proved from the kinds instead of from the actions.
`AccountsSound` says which runs may still be unsettled and what quarantine that asks
for; `AccountsAlwaysSound`, `QuarantineLasts` and `RetriesCanBeClaimed` follow.
`GenerationsCount` bounds the generation of a source by the number of its tasks,
which is what keeps `OneOpenTask` inductive: a new task is the newest of its source.
`HoldersAgree` reads the holders of the lease contract from the rows, and with the
counters of `CapacityInvariant` each action is shown to be a grant, an end, a
close or a stutter of `LeaseContract` (`StoreImplementsContract`). `KillSwitchStops`
needs no more than that a claim which begins after the switch is refused, so
grants after it are bounded by the claims that had read the switches.
`EventsWithinLimit` counts the ordinary events: `attempts < events <= EventLimit` of every
task that has arrived, because intake writes one and each claim another.

**ExecutionRecovery_proofs.** The inductive invariant is type correctness,
`TablesAgree` (a job, its execution and its lease), `HoldAgrees` (what a coordinator
holds against the job's claim) and `HoldsDiffer` (two coordinators never hold
one fence). `CleanUpIsSound`, `LiveLeasesKept` and the refinement of the queue,
`QueueImplementsContract`, follow; the refinement needs that a report is accepted only
under the newest fence, which is `OnlyNewestReport`. `WatermarksHold` has an
invariant of its own: what is left of a page lies behind the cursor and below the
watermark the page was read with, since rows that move only move up.

**SemanticRepair_proofs.** Three independent inductive invariants. `JudgedWhole`:
evidence belongs to assignments, and whatever a draft or a verdict names stays
stored; a draft that is still what is stored, with evidence of every assignment,
then names exactly those. `ChildrenAgree`: while
an intake holds the lock of a source that source has no child, and the bound
child is the newest. `ProposalsAgree`: the forerunners of a proposal lie before it and
are as many as it has cycles behind it, which is what makes budget, contexts and
findings of the whole chain comparable. They give `VerdictsNameAll`,
`ProposalsHaveOneChild` and `ChainsAreSound`.

**LandingFailover_proofs.** One inductive invariant (`FailoverInvariant`): what a host's
row says of its request and of the calls made (`JobOK`), what an attempt in the
journal implies for `sent`, the wire and the host's row (`AttemptOK`), and the
verdict (`RecordOK`, `VerdictsTrue`). The facts that make it inductive are that a
`fallback` observation is only ever stored by the last put of a submission, so
a host that shows one is idle for good; that no host step takes back an
observation or an artifact; and that the loop stands at exactly one back end.
Hosts and client meet only in `Deliver` and `Observe`, so a step is proved with one
side unchanged. From it: `FailoverTypes`, `SubmitsOnce`,
`AdvancesOnlyAfterFailure`, `VerdictsHold`, `FinalRecordsFrozen`. `InputIsKept` has an
invariant of its own (`InputInOrder`): as long as the clock was never set back, an
unfinished record has its payload or lies past its retention, and inside the loop
of attempts the payload is there, because a command that opens an expired job purges
it and then ends the job before the loop.

**ExecutionPlane_proofs.** The inductive invariant has three parts. `Tables` is what the
rows owe each other: `LogIsSound`, `ResultIsTheLog`, `SnapshotIsNewest`, that a run
with a result is not leased any more, and that a proposal names a version of the files or
a provider call there is. `CommandsAreTrue` says of every stored answer that it is
still true of the tables, so that a replay may give it without looking.
`CallsAgree` says what a call knows where it stands: from the moment its terminal
proposal is known the log is closed, and the version of the files it has in hand is no
older than any attested artifact. Calls interleave at every transaction, so
nothing is proved action by action over all three parts. The eight transactions of a
call (`Writes`) and the steps around it are four moves of the tables (`RowsMove`: quiet,
an attestation, a proposal, the seal), from which `Tables` follows; every move is
`Progress`, rows are only added to and a lease that has ended does not come back; and
what the other calls and the
stored answers say is stable under `Progress`. The seal reads
lease, stage and log again, but files the snapshot that the call has brought: that
it shows the last artifact rests on the log having been closed before the call looked
at the workspace. The task need not keep the status of the result: `Later` is where
cancel, a deadline or a later claim takes it, it is closed under those steps
(`LaterFacts`), and only a completed run's status is final. From the invariant follow `LogStaysSound`,
`ResultsStandForTheLog`, `SnapshotsAreNewest`, `AnswersStayTrue`, `CommandsStayTrue`;
`EvidenceIsNeverLost` is the action property; and `PlaneImplementsLog` maps every step to
one of `SealedLog` or to a stutter, for which it has to be known that a call was given the
result there is or none.

**GameplayEventLog_proofs.** The first inductive invariant, `LogInvariant`, adds to
`RecordsAccounted` what the writer has in hand at each point of a drain (`Hands`): a batch is
written to an open file unless a rotation has just failed, and after `flush` the ring
stays empty. That records of one window never share a slot is a lemma of its own
(`SlotsAreDistinct`). `RecordsAreAccounted` follows. The second, `FileInvariant`, is about
the lines. `FileIsHonest` is not inductive: it says how two lines are joined, not what the
next line may be. `Tip` says that, of the last line of an open file: its number is one less
than `nextSeq`, no record still to be written is stamped earlier (so ticks have to grow
along ring and batch, `TicksGrow`), and the record that is due is the one after the
newest in the file. `Due` is `head` without the losses that are not declared: a
record lost in the ring moves both, and a drain claims the losses together with the
batch behind them, so `Due` changes only when lines are written. The lemmas on sequences
of lines (a rest of honest files is honest, so is a part, and files grow by a line or a
batch that fits) carry it through pruning, crash and write; the numbers of a batch of any
size are proved at once and not line by line. `FilesAreHonest` follows, also when the
process dies with lines in the buffer, and for one retained file as for many.
`FirstFailureIsTold` says how far the promise that section 5 finds broken does hold: for
every failure but that of a rotation.

*Only model-checked*: liveness under fairness (`TaskSettles`, `LeaseReclaimed`, `JobSettles`,
`OrphansCleaned`, `ExecutionsEnd`, `TerminalGetsThrough`, `LogDrains`), which the prover does not
reach, and the two counterexamples of section 5. Every invariant, every action property
and all three refinements have a theorem.

## 5. Observations

Two runs contradict the repository.

*Priced usage with cache tokens.* `execution_finalize_context` (015:1285-1289)
compares the tokens of `usage_observations` with input, output and reasoning tokens
of the usage proposal, while priced usage of protocol v2 is observed with its cached
and cache-write tokens included (`brokers.py` 149-153, `store.py` 3371-3374). A run
that reports priced usage with cache tokens accepts its terminal command and can
never be finalized, however often the command is repeated; the interface calls
that command resumable (`contracts/openapi/factory-execution.v2.json` 772) and v3
says it preserves priced usage. Run `plane_cached`, property `TerminalIsResumable`.

*A rotation that fails.* When `rotateToNextFile` fails, `rotateFile` sets `openFailed` and
returns (`GameplayEventLog.swift` 781-785), but `drainNow` goes on: the batch is numbered
and written to a writer without a handle, and is not counted as dropped. Nor does
stderr hear of it, since `reportOnce` has one flag for every message and printing the
path used it up. The file says that "every failure increments the drop counter and,
once, says so on stderr" (15-17). Run `event_log_rotation`, property `FailureIsTold`.

Behaviours that contradict no text, and that a maintainer may want to know:

*Control plane*
- A grant can commit after a kill switch was set, one per worker, because `claim`
  reads the switches before it locks (`KillStopsNewGrants` states the bound).
- `max_events = 1` is a legal limit under which a task can never be claimed: its
  intake uses the only ordinary event (theorem `EventsWithinLimit`).
- A renewal can shorten a lease (above).
- A worker may release as `completed` a lease whose execution is unfinished: the
  task is `ready_for_human` and recovery closes the orphan.

*Execution and recovery*
- A claim for recovery returns nothing while the run is in a later phase, so fresh
  candidates behind it wait until its lease closes.
- `workspace_handle` is not `UNIQUE` (014:20); that two executions never share
  one rests on the broker.
- `run.completed` with unsettled accounting, and usage observed directly after the
  terminal proposal, make a run impossible to finalize; it ends by expiry and
  recovery.
- The transition of a fresh candidate to `cancelled` is unreachable.
- `attempt_count` ends at 1,000,000 by a `CHECK`: a job that fails that often can no
  longer be claimed.
- Two calls of `claim_execution` under one key: if the start of the second fails, its
  clean-up releases the lease of the execution that the first one started.
- A claim that found nothing is recorded, so its key replays nothing for ever.
- An artifact attested without its proposal blocks the sequence for everything but
  that artifact, and priced usage, until the lease ends.
- After the finalization a new key is answered only if the workspace is unchanged.

*Semantic repair*
- `plan_repair` with `requested_cycle = 1` for the result of a bound child starts a
  lineage of its own: cycles, budget, recurrence and contexts are counted afresh.
- Evidence is accepted after the verdict. If it changes what the verdict would be,
  neither `append_verdict` nor `plan_repair` ever succeeds again for that subject.
- A second evidence set of an assignment with the same coverage adds findings.
- The context of the first writer may come back in the second cycle.
- A subject can have both a proposal and an escalation.
- A bound child that dies is not replaced; intake refuses a bound source.
- No SQL path produces the reason `stale_semantic_evidence`.

*Landing failover*
- A clock set back between two runs of the client can leave a running record
  without payload, which then ends as `input_unavailable`; with a clock that only
  advances this cannot happen (`InputKeptInOrder`).
- A local error after a dispatch (credential file, 401) ends the caller's job as
  `stopped` while the host may still complete it; `VerdictsTrue` leaves that reason
  out because the code makes no claim about it.

## 6. Plan

1. `LeaseRace`: `heartbeat` against `reconcile` at the granularity of their row
   locks, for what happens to a lease renewed between selection and lock.
2. `ClaimOrder`: claims by age, and the head of the queue that cannot be claimed.
3. `CommandReplay` for the commands of the control plane, with replayed claims.
   Abstract specification: a map from keys to results that is written once.
4. `Accounting`: all dimensions of a budget, with the shared release of
   reservations.
5. The phases and receipts of the governance command line.

Theorems planned: those of the new modules, the type invariant and the action properties
first. For the modules there are, the safety properties are proved.
