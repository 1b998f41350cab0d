--------------------------- MODULE FactoryControl ---------------------------
(***************************************************************************)
(* The M4 control plane of the factory: PostgresFactoryStore of             *)
(* factory/src/adaptive_factory/store.py over the tables of resources/001,  *)
(* 002, 003 and the capacity functions of 007.                              *)
(*                                                                         *)
(* Each store method is one PostgreSQL transaction that locks the rows it   *)
(* changes, so it is one action here, with two exceptions that read before  *)
(* they lock: claim reads the kill switches (ClaimBegin) before it locks    *)
(* the capacity counters (ClaimGrant), and reconcile selects its page       *)
(* (ReconcileSelect) before it locks the rows of a candidate                *)
(* (ReconcileRun, ReconcileTask).                                           *)
(*                                                                         *)
(* A command that the code refuses (FenceError, BudgetError,                *)
(* TransitionError) rolls its transaction back: the action is disabled.     *)
(* A worker is whoever holds a grant: any run ever created may be named by  *)
(* a late command, so the worker actions range over every run.              *)
(*                                                                         *)
(* A definition marked "Mistake:" is not part of the model. It is the       *)
(* definition after it with a plausible bug, and is there to show that the  *)
(* properties notice the bug (README.md, "Mutants").                        *)
(***************************************************************************)
EXTENDS Integers, FiniteSets

CONSTANTS
  Tasks,            \* the semantic work items (work identities) that may arrive
  Sources,          \* source identities (repository, source type, source id)
  Repos,            \* repository ids
  Global,           \* the scope of the global kill switch
  KillScopes,       \* the kill switches the operator uses: repositories, Global
  Workers,          \* worker actors that call claim
  Calls,            \* provider call ids
  SourceOf,         \* [Tasks -> Sources]
  RepoOf,           \* [Sources -> Repos]
  Retries,          \* [Tasks -> 0..2]      limits.infrastructure_retries
  RepairLimit,      \* [Tasks -> 1..3]      limits.semantic_repairs
  EventLimit,       \* [Tasks -> Nat]       limits.max_events
  CostLimit,        \* [Tasks -> Nat]       limits.max_cost_usd_micros
  Wall,             \* [Tasks -> Nat]       limits.wall_seconds
  Costs,            \* cost amounts a command may carry
  LeaseLengths,     \* lease_seconds a claim may ask for (30 to 300)
  HeartbeatLength,  \* seconds from a heartbeat to the end of the lease (30)
  GlobalReaders,    \* ceiling of global:reader
  GlobalWriters,    \* ceiling of global:writer
  RepoReaders,      \* ceiling of repository:<id>:reader
  MaxTime,          \* bound: the clock stops here
  MaxOpen           \* bound: open reservations of one run

ASSUME SetsAssumption ==
  /\ IsFiniteSet(Tasks)
  /\ SourceOf \in [Tasks -> Sources]
  /\ RepoOf \in [Sources -> Repos]
  /\ KillScopes \subseteq Repos \cup {Global}
  /\ Global \notin Repos

ASSUME LimitsAssumption ==
  /\ Retries \in [Tasks -> 0..2]
  /\ RepairLimit \in [Tasks -> 1..3]
  /\ EventLimit \in [Tasks -> Nat]
  /\ CostLimit \in [Tasks -> Nat]
  /\ Wall \in [Tasks -> Nat]
  /\ Costs \subseteq Nat
  /\ HeartbeatLength \in Nat \ {0}
  /\ LeaseLengths \subseteq {n \in Nat : HeartbeatLength <= n}

ASSUME CeilingsAssumption ==
  /\ GlobalReaders \in Nat \ {0}
  /\ GlobalWriters \in Nat \ {0}
  /\ RepoReaders \in Nat \ {0}
  /\ MaxTime \in Nat
  /\ MaxOpen \in Nat

VARIABLES
  now,         \* clock_timestamp()
  task,        \* rows of tasks
  run,         \* rows of runs, their allocation, reservations and usage
  attempts,    \* max(attempt_no) of a task in attempts
  lastFence,   \* lease_sequences.last_fence
  events,      \* ordinary (not mandatory_cleanup) task_events of a task
  active,      \* capacity_counters global:reader and global:writer
  readersIn,   \* capacity_counters repository:<id>:reader
  kill,        \* latest row of kill_switches of each scope
  claiming,    \* claims that have read the kill switches and not yet locked
  pageRuns,    \* runs selected by a reconciliation still in progress
  pageTasks    \* deadline-expired tasks selected by one

vars == <<now, task, run, attempts, lastFence, events, active, readersIn,
          kill, claiming, pageRuns, pageTasks>>

---------------------------------------------------------------------------
(* The closed task graph: what the store uses of state.py.                 *)

Attempts == 1..3                 \* CHECK (attempt_no BETWEEN 1 AND 3)
Runs     == Tasks \X Attempts    \* the run of attempt a of task t
Roles    == {"reader", "writer"}

Leasable == {"queued", "retry"}
InLease  == {"leased", "analyzing", "implementing", "verifying", "reviewing"}
Terminal == {"dead", "cancelled", "superseded", "ready_for_human"}
States   == {"absent", "needs_human"} \cup Leasable \cup InLease \cup Terminal

NextPhase == [leased       |-> "analyzing",
              analyzing    |-> "implementing",
              implementing |-> "verifying",
              verifying    |-> "reviewing"]

\* completed releases: the reviewed one and the legacy one straight from leased
Completable == {"leased", "reviewing"}

\* FailureClass, as classify_retry tells it apart
FailureClasses == {"infrastructure", "quality"}

Idle     == [role |-> "none", repos |-> {}]
Requests == [role : Roles, repos : SUBSET Repos \ {{}}]

AbsentTask == [state |-> "absent", gen |-> 0, cur |-> 0, curFence |-> 0,
               deadline |-> 0, repairs |-> 0, reserved |-> 0, observed |-> 0,
               blocked |-> FALSE]

AbsentRun == [state |-> "absent", role |-> "reader", fence |-> 0,
              expires |-> 0, live |-> FALSE, alloc |-> FALSE,
              openCount |-> 0, openCost |-> 0, usage |-> {}]

RepoOfTask(t) == RepoOf[SourceOf[t]]
Exists(t)     == task[t].state # "absent"
Earliest(a, b) == IF a <= b THEN a ELSE b

SameSource(t) == {u \in Tasks : Exists(u) /\ SourceOf[u] = SourceOf[t]}

\* Mistake: a task that waits for a human is taken for finished
OpenTasksParkedForgotten(t) ==
  {u \in SameSource(t) : task[u].state \notin Terminal \cup {"needs_human"}}

\* the tasks of the source that intake supersedes
OpenTasks(t) == {u \in SameSource(t) : task[u].state \notin Terminal}

HasOpenReservation(t) == \E a \in Attempts : run[<<t, a>>].openCount > 0

\* Mistake: a reservation of nothing is overlooked
UnsettledAmountsOnly(t) == task[t].blocked \/ task[t].reserved # 0

\* evidence that accounting is not settled: a failed or terminalized task
\* that has it is quarantined (accounting_blocked)
Unsettled(t) ==
  \/ task[t].blocked
  \/ task[t].reserved # 0
  \/ HasOpenReservation(t)

---------------------------------------------------------------------------
Init ==
  /\ now = 0
  /\ task = [t \in Tasks |-> AbsentTask]
  /\ run = [r \in Runs |-> AbsentRun]
  /\ attempts = [t \in Tasks |-> 0]
  /\ lastFence = [t \in Tasks |-> 0]
  /\ events = [t \in Tasks |-> 0]
  /\ active = [role \in Roles |-> 0]
  /\ readersIn = [p \in Repos |-> 0]
  /\ kill = [s \in Repos \cup {Global} |-> FALSE]
  /\ claiming = [w \in Workers |-> Idle]
  /\ pageRuns = {}
  /\ pageTasks = {}

---------------------------------------------------------------------------
(* Capacity: 007_capacity_authority.sql                                    *)

\* Mistake: the repository counters are not looked at
EligibleReposGlobalOnly(request) ==
  {p \in request.repos :
     IF request.role = "writer" THEN active["writer"] < GlobalWriters
                                ELSE active["reader"] < GlobalReaders}

\* Mistake: the writer counter is not looked at
EligibleReposReadersOnly(request) ==
  {p \in request.repos :
     request.role = "reader" =>
       active["reader"] < GlobalReaders /\ readersIn[p] < RepoReaders}

\* capacity_eligible_repositories: the global counter, then for a reader the
\* counter of each repository
EligibleRepos(request) ==
  {p \in request.repos :
     IF request.role = "writer"
     THEN active["writer"] < GlobalWriters
     ELSE active["reader"] < GlobalReaders /\ readersIn[p] < RepoReaders}

CapacityAllocate(p, role) ==
  /\ active' = [active EXCEPT ![role] = @ + 1]
  /\ readersIn' = IF role = "reader"
                  THEN [readersIn EXCEPT ![p] = @ + 1] ELSE readersIn

\* Mistake: the repository counter of a reader is not given back
CapacityReleaseGlobal(p, role) ==
  /\ active' = [active EXCEPT ![role] = @ - 1]
  /\ UNCHANGED readersIn

CapacityRelease(p, role) ==
  /\ active' = [active EXCEPT ![role] = @ - 1]
  /\ readersIn' = IF role = "reader"
                  THEN [readersIn EXCEPT ![p] = @ - 1] ELSE readersIn

\* the run is closed and its allocation given back
Closed(record, state) ==
  [record EXCEPT !.state = state, !.live = FALSE, !.alloc = FALSE]

CloseRun(r, state) ==
  /\ run' = [run EXCEPT ![r] = Closed(@, state)]
  /\ CapacityRelease(RepoOfTask(r[1]), run[r].role)

---------------------------------------------------------------------------
(* Intake, supersede and cancel                                            *)

\* Mistake: an earlier block is lost when no reservation is open
TerminalTaskForgetsBlock(t, target) ==
  [task[t] EXCEPT !.state = target, !.cur = 0, !.curFence = 0,
                  !.blocked = HasOpenReservation(t)]

\* _terminalize_task on a task: close its live lease if it has one, clear the
\* pointer, quarantine unsettled accounting
TerminalTask(t, target) ==
  [task[t] EXCEPT !.state = target, !.cur = 0, !.curFence = 0,
                  !.blocked = Unsettled(t)]

\* Mistake: the run of a task that is terminalized stays open
CloseActiveLeaseMissed(t) == t \in Tasks /\ UNCHANGED <<run, active, readersIn>>

CloseActiveLease(t) ==
  IF \E a \in Attempts : task[t].cur = a /\ run[<<t, a>>].live
  THEN CloseRun(<<t, task[t].cur>>, "released")
  ELSE UNCHANGED <<run, active, readersIn>>

NewTask(t) ==
  [AbsentTask EXCEPT
     !.state = "queued",
     !.gen = Cardinality(SameSource(t)) + 1,
     !.deadline = now + Wall[t]]

\* the first ordinary event of a task is intake_queued; a second intake of the
\* same work returns the existing task and changes nothing
CanInsert(t) ==
  /\ ~Exists(t)
  /\ 0 < EventLimit[t]
  /\ now + Wall[t] <= MaxTime          \* bound

IntakeFresh(t) ==
  /\ CanInsert(t)
  /\ OpenTasks(t) = {}
  /\ task' = [task EXCEPT ![t] = NewTask(t)]
  /\ events' = [events EXCEPT ![t] = 1]
  /\ UNCHANGED <<now, run, attempts, lastFence, active, readersIn, kill, claiming, pageRuns, pageTasks>>

\* frozen input changed: the open task of the source is superseded in the
\* transaction that inserts its replacement
IntakeSupersede(t, old) ==
  /\ CanInsert(t)
  /\ OpenTasks(t) = {old}
  /\ CloseActiveLease(old)
  /\ task' = [task EXCEPT ![old] = TerminalTask(old, "superseded"),
                          ![t] = NewTask(t)]
  /\ events' = [events EXCEPT ![t] = 1]
  /\ UNCHANGED <<now, attempts, lastFence, kill, claiming,
                 pageRuns, pageTasks>>

Cancel(t) ==
  /\ Exists(t)
  /\ task[t].state \notin Terminal
  /\ CloseActiveLease(t)
  /\ task' = [task EXCEPT ![t] = TerminalTask(t, "cancelled")]
  /\ UNCHANGED <<now, attempts, lastFence, events, kill, claiming,
                 pageRuns, pageTasks>>

---------------------------------------------------------------------------
(* Claim                                                                   *)

\* Mistake: only the global switch is read
KilledGlobally(repos) == kill[Global]

\* _is_killed
Killed(repos) == \E s \in repos \cup {Global} : kill[s]

\* the kill switches are read without a lock, before everything else
ClaimBegin(w, request) ==
  /\ claiming[w] = Idle
  /\ ~Killed(request.repos)
  /\ claiming' = [claiming EXCEPT ![w] = request]
  /\ UNCHANGED <<now, task, run, attempts, lastFence, events, active,
                 readersIn, kill, pageRuns, pageTasks>>

Claimable(t, request) ==
  /\ task[t].state \in Leasable
  /\ RepoOfTask(t) \in EligibleRepos(request)
  /\ task[t].deadline > now
  /\ ~Unsettled(t)

\* Mistake: the lease is not cut off at the deadline
NewRunUncapped(t, role, length) ==
  [AbsentRun EXCEPT
     !.state = "leased", !.role = role, !.fence = lastFence[t] + 1,
     !.expires = now + length, !.live = TRUE, !.alloc = TRUE]

\* Mistake: the sequence value before the increment is used as the fence
NewRunOldFence(t, role, length) ==
  [AbsentRun EXCEPT
     !.state = "leased", !.role = role, !.fence = lastFence[t],
     !.expires = Earliest(now + length, task[t].deadline),
     !.live = TRUE, !.alloc = TRUE]

NewRun(t, role, length) ==
  [AbsentRun EXCEPT
     !.state = "leased", !.role = role, !.fence = lastFence[t] + 1,
     !.expires = Earliest(now + length, task[t].deadline),
     !.live = TRUE, !.alloc = TRUE]

\* FOR UPDATE SKIP LOCKED may pass over an older task that another open
\* transaction holds, so any claimable task may be the one taken
ClaimGrant(w, t, length) ==
  LET a    == attempts[t] + 1
      role == claiming[w].role
  IN /\ claiming[w] # Idle
     /\ Claimable(t, claiming[w])
     /\ a <= Retries[t] + 1
     /\ events[t] < EventLimit[t]
     /\ run' = [run EXCEPT ![<<t, a>>] = NewRun(t, role, length)]
     /\ attempts' = [attempts EXCEPT ![t] = a]
     /\ lastFence' = [lastFence EXCEPT ![t] = @ + 1]
     /\ CapacityAllocate(RepoOfTask(t), role)
     /\ task' = [task EXCEPT ![t].state = "leased", ![t].cur = a,
                             ![t].curFence = lastFence[t] + 1]
     /\ events' = [events EXCEPT ![t] = @ + 1]
     /\ claiming' = [claiming EXCEPT ![w] = Idle]
     /\ UNCHANGED <<now, kill, pageRuns, pageTasks>>

\* the claim ends without a grant: no capacity, no claimable task, all of them
\* locked, the ordinary event budget refuses the one selected, or the
\* connection is lost before the commit
ClaimEmpty(w) ==
  /\ claiming[w] # Idle
  /\ claiming' = [claiming EXCEPT ![w] = Idle]
  /\ UNCHANGED <<now, task, run, attempts, lastFence, events, active,
                 readersIn, kill, pageRuns, pageTasks>>

---------------------------------------------------------------------------
(* Commands fenced by a grant                                              *)

\* Mistake: any run of a task that is under a lease passes
HoldsLeaseAnyRun(r) ==
  run[r].state # "absent" /\ task[r[1]].state \in InLease

\* _lock_grant with allow_expired, and without
HoldsLease(r) ==
  LET t == r[1] IN
  /\ run[r].state = "leased" /\ run[r].live /\ run[r].alloc
  /\ task[t].cur = r[2] /\ task[t].curFence = run[r].fence
  /\ task[t].state \in InLease

LockGrant(r) ==
  /\ HoldsLease(r)
  /\ run[r].expires > now
  /\ task[r[1]].deadline > now

Heartbeat(r) ==
  /\ LockGrant(r)
  /\ run' = [run EXCEPT ![r].expires =
               Earliest(now + HeartbeatLength, task[r[1]].deadline)]
  /\ UNCHANGED <<now, task, attempts, lastFence, events, active, readersIn,
                 kill, claiming, pageRuns, pageTasks>>

TransitionPhase(r) ==
  LET t == r[1] IN
  /\ LockGrant(r)
  /\ task[t].state \in DOMAIN NextPhase
  /\ events[t] < EventLimit[t]
  /\ task' = [task EXCEPT ![t].state = NextPhase[@]]
  /\ events' = [events EXCEPT ![t] = @ + 1]
  /\ UNCHANGED <<now, run, attempts, lastFence, active, readersIn, kill, claiming, pageRuns, pageTasks>>

\* Mistake: what is already reserved does not count
WithinLimitObservedOnly(t, cost) == task[t].observed + cost <= CostLimit[t]

WithinLimit(t, cost) ==
  task[t].reserved + task[t].observed + cost <= CostLimit[t]

\* reserve_budget
ReserveBudget(r, cost) ==
  LET t == r[1] IN
  /\ LockGrant(r)
  /\ ~task[t].blocked
  /\ WithinLimit(t, cost)
  /\ run[r].openCount < MaxOpen        \* bound
  /\ run' = [run EXCEPT ![r].openCount = @ + 1, ![r].openCost = @ + cost]
  /\ task' = [task EXCEPT ![t].reserved = @ + cost]
  /\ UNCHANGED <<now, attempts, lastFence, events, active, readersIn, kill, claiming, pageRuns, pageTasks>>

WithoutReservations(record) ==
  [record EXCEPT !.openCount = 0, !.openCost = 0]

\* observe_usage of a provider call not seen before: every open reservation of
\* the run is released, then the usage is recorded if it fits the limit, and
\* otherwise the task's accounting is blocked
ObserveUsage(r, call, cost) ==
  LET t    == r[1]
      fits == task[t].observed + cost <= CostLimit[t]
  IN /\ LockGrant(r)
     /\ call \notin run[r].usage
     /\ run' = [run EXCEPT ![r] =
                  [WithoutReservations(run[r]) EXCEPT
                     !.usage = IF fits THEN @ \cup {call} ELSE @]]
     /\ task' = [task EXCEPT
                   ![t].reserved = @ - run[r].openCost,
                   ![t].observed = IF fits THEN @ + cost ELSE @,
                   ![t].blocked = IF fits THEN @ ELSE TRUE]
     /\ UNCHANGED <<now, attempts, lastFence, events, active, readersIn,
                    kill, claiming, pageRuns, pageTasks>>

\* observe_usage without a price table digest: the reservations stay open and
\* the provider call is not recorded
ObserveUnpriced(r) ==
  /\ LockGrant(r)
  /\ Calls # {}
  /\ task' = [task EXCEPT ![r[1]].blocked = TRUE]
  /\ UNCHANGED <<now, run, attempts, lastFence, events, active, readersIn,
                 kill, claiming, pageRuns, pageTasks>>

---------------------------------------------------------------------------
(* Release: _release_locked                                                *)

\* Mistake: one attempt too many is sent back to retry
FailureTargetOffByOne(r, class) ==
  LET t == r[1] IN
  IF Unsettled(t) \/ class # "infrastructure" THEN "needs_human"
  ELSE IF r[2] > Retries[t] + 1 THEN "dead"
  ELSE IF events[t] < EventLimit[t] THEN "retry" ELSE "needs_human"

\* Mistake: the event budget is not looked at before the retry
FailureTargetNoEventCheck(r, class) ==
  LET t == r[1] IN
  IF Unsettled(t) \/ class # "infrastructure" THEN "needs_human"
  ELSE IF r[2] > Retries[t] THEN "dead" ELSE "retry"

\* classify_retry, then the quarantine and the event budget
FailureTarget(r, class) ==
  LET t == r[1] IN
  IF Unsettled(t) \/ class # "infrastructure" THEN "needs_human"
  ELSE IF r[2] > Retries[t] THEN "dead"
  ELSE IF events[t] < EventLimit[t] THEN "retry" ELSE "needs_human"

DeadlineTarget(t) == IF Unsettled(t) THEN "needs_human" ELSE "dead"

Released(t, target) ==
  [task[t] EXCEPT !.state = target, !.cur = 0, !.curFence = 0]

ReleaseFailure(r, class) ==
  LET t == r[1] IN
  /\ LockGrant(r)
  /\ CloseRun(r, "failed")
  /\ task' = [task EXCEPT ![t] = [Released(t, FailureTarget(r, class))
                                    EXCEPT !.blocked = Unsettled(t)]]
  /\ UNCHANGED <<now, attempts, lastFence, events, kill, claiming,
                 pageRuns, pageTasks>>

\* Mistake: accounting that was never reported counts as settled
CompletionSettledByAbsence(r) == ~Unsettled(r[1])

\* "completion requires settled accounting"
CompletionSettled(r) == ~Unsettled(r[1]) /\ run[r].usage # {}

ReleaseCompleted(r) ==
  LET t == r[1] IN
  /\ LockGrant(r)
  /\ task[t].state \in Completable
  /\ CompletionSettled(r)
  /\ CloseRun(r, "completed")
  /\ task' = [task EXCEPT ![t] = Released(t, "ready_for_human")]
  /\ UNCHANGED <<now, attempts, lastFence, events, kill, claiming,
                 pageRuns, pageTasks>>

---------------------------------------------------------------------------
(* Reconciliation                                                          *)

\* Mistake: only tasks still in the first lease phase are looked for
ExpiredRunFirstPhase(r) ==
  /\ run[r].live /\ run[r].alloc /\ run[r].expires <= now
  /\ task[r[1]].state = "leased"

\* Mistake: the state of the task is not read again under the lock
ExpiredTaskAnyState(t) == task[t].cur = 0 /\ task[t].deadline <= now

\* Mistake: a task that waits for its retry is never looked at
ExpiredTaskQueuedOnly(t) ==
  task[t].state = "queued" /\ task[t].cur = 0 /\ task[t].deadline <= now

ExpiredRun(r) == run[r].live /\ run[r].alloc /\ run[r].expires <= now

ExpiredTask(t) ==
  /\ task[t].state \in Leasable
  /\ task[t].cur = 0
  /\ task[t].deadline <= now

\* the candidate query takes no lock
ReconcileSelect ==
  /\ \/ \E r \in Runs \ pageRuns :
          /\ ExpiredRun(r)
          /\ pageRuns' = pageRuns \cup {r}
          /\ UNCHANGED pageTasks
     \/ \E t \in Tasks \ pageTasks :
          /\ ExpiredTask(t)
          /\ \A a \in Attempts : ~(run[<<t, a>>].live /\ run[<<t, a>>].alloc)
          /\ pageTasks' = pageTasks \cup {t}
          /\ UNCHANGED pageRuns
  /\ UNCHANGED <<now, task, run, attempts, lastFence, events, active,
                 readersIn, kill, claiming>>

\* A selected run that still holds the lease is released as worker_lost, as
\* provider_quality once the repairs are used up, or by the deadline. The
\* expiry is not read again.
ReconcileRun(r) ==
  LET t      == r[1]
      late   == task[t].deadline <= now
      repair == task[t].repairs < RepairLimit[t]
      target == IF late THEN DeadlineTarget(t)
                ELSE FailureTarget(r, IF repair THEN "infrastructure"
                                                ELSE "quality")
  IN /\ r \in pageRuns
     /\ HoldsLease(r)
     /\ CloseRun(r, "expired")
     /\ task' = [task EXCEPT ![t] =
                   [Released(t, target) EXCEPT
                      !.blocked = Unsettled(t),
                      !.repairs = IF repair /\ ~late THEN @ + 1 ELSE @]]
     /\ pageRuns' = pageRuns \ {r}
     /\ UNCHANGED <<now, attempts, lastFence, events, kill,
                    claiming, pageTasks>>

\* _terminalize_expired_unleased_task
ReconcileTask(t) ==
  /\ t \in pageTasks
  /\ ExpiredTask(t)
  /\ task' = [task EXCEPT ![t] = TerminalTask(t, DeadlineTarget(t))]
  /\ pageTasks' = pageTasks \ {t}
  /\ UNCHANGED <<now, run, attempts, lastFence, events, active, readersIn,
                 kill, claiming, pageRuns>>

\* a candidate that another transaction dealt with since it was selected
ReconcileSkip ==
  /\ \/ \E r \in pageRuns :
          /\ ~run[r].alloc
          /\ pageRuns' = pageRuns \ {r}
          /\ UNCHANGED pageTasks
     \/ \E t \in pageTasks :
          /\ ~ExpiredTask(t)
          /\ pageTasks' = pageTasks \ {t}
          /\ UNCHANGED pageRuns
  /\ UNCHANGED <<now, task, run, attempts, lastFence, events, active,
                 readersIn, kill, claiming>>

\* the page runs into its deadline, or the reconciler dies: what it selected
\* and has not committed is forgotten
ReconcileAbort ==
  /\ pageRuns \cup pageTasks # {}
  /\ pageRuns' = {}
  /\ pageTasks' = {}
  /\ UNCHANGED <<now, task, run, attempts, lastFence, events, active,
                 readersIn, kill, claiming>>

---------------------------------------------------------------------------
(* Kill switches and time                                                  *)

SetKill ==
  /\ \E s \in KillScopes : kill' = [kill EXCEPT ![s] = ~@]
  /\ UNCHANGED <<now, task, run, attempts, lastFence, events, active,
                 readersIn, claiming, pageRuns, pageTasks>>

Tick ==
  /\ now < MaxTime                     \* bound
  /\ now' = now + 1
  /\ UNCHANGED <<task, run, attempts, lastFence, events, active, readersIn,
                 kill, claiming, pageRuns, pageTasks>>

---------------------------------------------------------------------------
Intake(t) == IntakeFresh(t) \/ \E old \in Tasks : IntakeSupersede(t, old)

Claim(w) ==
  \/ \E request \in Requests : ClaimBegin(w, request)
  \/ \E t \in Tasks, length \in LeaseLengths : ClaimGrant(w, t, length)
  \/ ClaimEmpty(w)

WorkerCommand(r) ==
  \/ Heartbeat(r)
  \/ TransitionPhase(r)
  \/ \E cost \in Costs : ReserveBudget(r, cost)
  \/ \E call \in Calls, cost \in Costs : ObserveUsage(r, call, cost)
  \/ ObserveUnpriced(r)
  \/ \E class \in FailureClasses : ReleaseFailure(r, class)
  \/ ReleaseCompleted(r)

ReconcileCommit ==
  \/ \E r \in Runs : ReconcileRun(r)
  \/ \E t \in Tasks : ReconcileTask(t)

Next ==
  \/ \E t \in Tasks : Intake(t) \/ Cancel(t)
  \/ \E w \in Workers : Claim(w)
  \/ \E r \in Runs : WorkerCommand(r)
  \/ ReconcileSelect
  \/ ReconcileCommit
  \/ ReconcileSkip
  \/ ReconcileAbort
  \/ SetKill
  \/ Tick

Spec == Init /\ [][Next]_vars

\* Assumed of the world around the store: the clock advances, and somebody
\* calls reconcile again and again, whose transactions do not fail for ever.
\* Nothing is assumed of workers, operators or intake.
Fairness ==
  /\ WF_vars(Tick)
  /\ WF_vars(ReconcileSelect)
  /\ WF_vars(ReconcileSkip)
  /\ SF_vars(ReconcileCommit)

FairSpec == Spec /\ Fairness

---------------------------------------------------------------------------
(* Properties                                                              *)

TaskRecords ==
  [state : States, gen : Nat, cur : {0} \cup Attempts, curFence : Nat,
   deadline : Nat, repairs : 0..3, reserved : Nat, observed : Nat,
   blocked : BOOLEAN]

RunRecords ==
  [state : {"absent", "leased", "completed", "failed", "released", "expired"},
   role : Roles, fence : Nat, expires : Nat, live : BOOLEAN, alloc : BOOLEAN,
   openCount : Nat, openCost : Nat, usage : SUBSET Calls]

\* The type invariant of the store's tables and of the transactions in flight.
TypeOK ==
  /\ now \in Nat
  /\ task \in [Tasks -> TaskRecords]
  /\ run \in [Runs -> RunRecords]
  /\ attempts \in [Tasks -> {0} \cup Attempts]
  /\ lastFence \in [Tasks -> Nat]
  /\ events \in [Tasks -> Nat]
  /\ active \in [Roles -> Int]
  /\ readersIn \in [Repos -> Int]
  /\ kill \in [Repos \cup {Global} -> BOOLEAN]
  /\ claiming \in [Workers -> Requests \cup {Idle}]
  /\ pageRuns \subseteq Runs
  /\ pageTasks \subseteq Tasks

Allocated(role) == {r \in Runs : run[r].alloc /\ run[r].role = role}
AllocatedReaders(p) == {r \in Allocated("reader") : RepoOfTask(r[1]) = p}

\* The capacity counters are what _capacity_consistent and readiness demand:
\* each equals the number of unreleased allocations, so none leaks and none is
\* given back twice, however release, cancel, supersede and reconcile meet.
CapacityConsistent ==
  /\ \A role \in Roles : active[role] = Cardinality(Allocated(role))
  /\ \A p \in Repos : readersIn[p] = Cardinality(AllocatedReaders(p))

\* "20 global readers / 10 readers per repository / one writer" (README.md):
\* counted in live allocations, not in the counters.
CapacityCeilings ==
  /\ Cardinality(Allocated("reader")) <= GlobalReaders
  /\ Cardinality(Allocated("writer")) <= GlobalWriters
  /\ \A p \in Repos : Cardinality(AllocatedReaders(p)) <= RepoReaders

\* Both together, for the counters are what a claim compares with the ceilings.
CapacityHolds == CapacityConsistent /\ CapacityCeilings

\* A run that is not released is the one its task points to, carries the
\* newest fence and the newest attempt, holds its allocation, and its task is
\* in a lease phase; a task outside the lease phases points to no run. This is
\* what makes the orphan branch of reconcile unreachable.
LeaseAgreement ==
  /\ \A r \in Runs :
       LET t == r[1] IN
       /\ run[r].alloc <=> run[r].live
       /\ run[r].live => /\ HoldsLease(r)
                         /\ r[2] = attempts[t]
                         /\ run[r].fence = lastFence[t]
  /\ \A t \in Tasks :
       IF task[t].state \in InLease
       THEN task[t].cur # 0 /\ run[<<t, task[t].cur>>].live
       ELSE task[t].cur = 0 /\ task[t].curFence = 0

\* No lease outlives the deadline of its task, whatever claim asked for and
\* however often it was renewed.
LeaseWithinDeadline ==
  \A r \in Runs : run[r].live => run[r].expires <= task[r[1]].deadline

\* The retry_exhausted branch of claim is never taken: a task that can be
\* claimed has an attempt left, and no task has more attempts than retries + 1.
ClaimableHasAttempt ==
  \A t \in Tasks :
    /\ attempts[t] <= Retries[t] + 1
    /\ task[t].state \in Leasable => attempts[t] <= Retries[t]

\* A task is only put back to retry with room in its ordinary event budget, so
\* the claim that takes it is not refused by the event it has to write.
RetryHasEventRoom ==
  \A t \in Tasks : task[t].state = "retry" => events[t] < EventLimit[t]

\* The places that count retries (release, reconcile and claim) agree: a task
\* put back to retry has an attempt and an event left to be claimed with.
RetryCanBeClaimed == ClaimableHasAttempt /\ RetryHasEventRoom

\* At most one task of a source is open, and it is the newest generation
\* (index tasks_one_active_identity).
OneOpenPerSource ==
  \A t \in Tasks : \A u \in SameSource(t) :
    Exists(t) /\ task[t].state \notin Terminal /\ u # t
      => task[u].state \in Terminal /\ task[u].gen < task[t].gen

\* _accounting_consistent, the readiness query: claimable and positive tasks
\* have settled accounting, a task that ended otherwise with unsettled
\* accounting is marked blocked.
AccountingConsistent ==
  \A t \in Tasks :
    LET reserved == \/ task[t].reserved # 0
                    \/ \E a \in Attempts : run[<<t, a>>].openCount > 0
    IN /\ task[t].state \in Leasable \cup {"ready_for_human"}
            => ~reserved /\ ~task[t].blocked
       /\ task[t].state \in {"superseded", "cancelled", "dead", "needs_human"}
            => (reserved => task[t].blocked)

\* Reservations: the reserved amount of a task is the sum of its open
\* reservations, all of them of its newest run, and reserved plus observed
\* never exceed the limit.
ReservationsAccounted ==
  \A t \in Tasks :
    /\ \A a \in Attempts :
         a # attempts[t] => run[<<t, a>>].openCount = 0 /\ run[<<t, a>>].openCost = 0
    /\ task[t].reserved =
         IF attempts[t] = 0 THEN 0 ELSE run[<<t, attempts[t]>>].openCost
    /\ task[t].reserved + task[t].observed <= CostLimit[t]

\* A task is ready_for_human exactly when its newest run completed, and that
\* run recorded usage: "completion is rejected until accounting is present".
CompletionHasUsage ==
  \A t \in Tasks :
    /\ task[t].state = "ready_for_human" =>
         /\ attempts[t] # 0
         /\ run[<<t, attempts[t]>>].state = "completed"
         /\ run[<<t, attempts[t]>>].usage # {}
    /\ \A a \in Attempts :
         run[<<t, a>>].state = "completed" =>
           a = attempts[t] /\ task[t].state = "ready_for_human"

\* Readiness and completion read the same accounts: what may be claimed or was
\* completed is settled, and what ended unsettled is quarantined.
AccountingSound == AccountingConsistent /\ CompletionHasUsage

\* Stale grants are powerless: once a run is released nothing about it changes
\* again, neither its outcome nor its reservations nor its usage.
ReleasedRunFrozen ==
  [][\A r \in Runs :
       run[r].state # "absent" /\ ~run[r].live => run'[r] = run[r]]_vars

\* A terminal task keeps its state, its accounting and its event count for
\* ever, whatever late command, cancel, supersede or reconcile arrives.
TerminalFinal ==
  [][\A t \in Tasks :
       task[t].state \in Terminal =>
         task'[t] = task[t] /\ events'[t] = events[t]]_vars

\* The past is frozen, run by run and task by task.
PastFrozen == ReleasedRunFrozen /\ TerminalFinal

\* A lease is never handed from one run to another in one step, and each run
\* of a task carries a higher fence than every earlier run of it.
FencesGrow ==
  [][\A t \in Tasks : \A a \in Attempts :
       run'[<<t, a>>].live /\ ~run[<<t, a>>].live =>
         \A b \in Attempts :
           /\ ~run[<<t, b>>].live
           /\ run[<<t, b>>].fence < run'[<<t, a>>].fence]_vars

\* Quarantine is permanent: accounting once blocked is never unblocked, and a
\* blocked task is never leased again.
QuarantineSticks ==
  [][\A t \in Tasks :
       task[t].blocked =>
         /\ task'[t].blocked
         /\ attempts'[t] = attempts[t]]_vars

\* Whatever the workers do, every accepted task comes to an end or waits for a
\* human, given that time passes and reconcile is called.
TaskSettles ==
  \A t \in Tasks :
    Exists(t) ~> task[t].state \in Terminal \cup {"needs_human"}

\* Every lease is given back, and its capacity with it.
LeaseReclaimed ==
  \A r \in Runs : run[r].alloc ~> ~run[r].alloc

---------------------------------------------------------------------------
(* Refinement: the lease a task is under is read off the runs and their     *)
(* allocations, not off the pointer in the task row.                        *)

HeldBy(t) == {a \in Attempts : run[<<t, a>>].live}

Contract == INSTANCE LeaseContract WITH
  MaxReaders <- GlobalReaders,
  MaxWriters <- GlobalWriters,
  fence      <- lastFence,
  closed     <- {t \in Tasks : task[t].state \in Terminal},
  holder     <- [t \in Tasks |->
                   IF HeldBy(t) = {} THEN [role |-> "none", fence |-> 0]
                   ELSE LET a == CHOOSE b \in HeldBy(t) : TRUE
                        IN [role  |-> run[<<t, a>>].role,
                            fence |-> run[<<t, a>>].fence]]

\* The control plane keeps the promises of LeaseContract: exclusive leases,
\* growing fences, ceilings on concurrent runs, and closed tasks stay closed.
ImplementsContract == Contract!Spec
=============================================================================
