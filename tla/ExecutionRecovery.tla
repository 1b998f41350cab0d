------------------------- MODULE ExecutionRecovery --------------------------
(***************************************************************************)
(* Recovery of executions whose worker is gone: the functions of            *)
(* resources/017_execution_recovery_topology.sql, the store methods that    *)
(* call them (store.py 1427-1710), and the coordinator ExecutionRecovery of *)
(* recovery.py, of which several may run at once.                           *)
(*                                                                         *)
(* Every store call is one transaction on locked rows and one action here;  *)
(* a coordinator makes one call after another, so pages and claims it holds *)
(* may be stale when it uses them. The execution itself is reduced to what  *)
(* recovery reads: who holds the lease, whether it has run out, the stage   *)
(* of the manifest and the order of the manifests' updated_at. Timestamps   *)
(* are ranks: stamp is the place of an update in the order of all updates.  *)
(* Expiries are flags that time sets, at any moment.                        *)
(***************************************************************************)
EXTENDS Integers, FiniteSets

CONSTANTS
  Runs,          \* runs, each the current run of a task of its own
  Coordinators,  \* processes that call ExecutionRecovery.reconcile
  Limit,         \* candidates of one page (2 to 100)
  MaxClock,      \* bound: no execution advances once the clock stands here
  MaxFaults      \* bound: crashes, lost answers, failed releases, overruns

ASSUME RecoveryAssumption ==
  /\ IsFiniteSet(Runs)
  /\ Limit \in Nat /\ 2 <= Limit
  /\ MaxClock \in Nat
  /\ MaxFaults \in Nat

VARIABLES
  run,         \* lease of a run: state, due, phase
  manifest,    \* row of execution_manifests: stage and stamp of updated_at
  job,         \* row of execution_recovery_jobs
  reclaimed,   \* runs whose workspace the broker has released
  co,          \* a coordinator: where it is in reconcile and what it holds
  cursor,      \* discovery cursor a coordinator is called with, 0 for None
  clock,       \* stamp of the newest update
  faults       \* faults so far

vars == <<run, manifest, job, reclaimed, co, cursor, clock, faults>>

---------------------------------------------------------------------------
Working  == {"prepared", "running", "collecting"}
Given    == {"orphaned", "cancelled"}        \* terminal stages of recovery
Stages   == {"none", "result"} \cup Working \cup Given
Lanes    == {"fresh", "retry"}

NoJob  == [status |-> "none", fence |-> 0, key |-> 0, waiting |-> FALSE]
NoHold == [run |-> "none", fence |-> 0]

Resting == [pc |-> "idle", fresh |-> {}, retry |-> {}, turn |-> "fresh",
            safe |-> 0, scanned |-> {}, exhausted |-> FALSE, blocked |-> FALSE,
            hold |-> NoHold]

Terminal(r) == manifest[r].stage \in Given \cup {"result"}
Active(r)   == manifest[r].stage \in Working
HasJob(r)   == job[r].status # "none"

Smaller(m, n) == IF m <= n THEN m ELSE n

Init ==
  /\ run = [r \in Runs |-> [state |-> "idle", due |-> FALSE, phase |-> "leased"]]
  /\ manifest = [r \in Runs |-> [stage |-> "none", stamp |-> 0]]
  /\ job = [r \in Runs |-> NoJob]
  /\ reclaimed = {}
  /\ co = [c \in Coordinators |-> Resting]
  /\ cursor = [c \in Coordinators |-> 0]
  /\ clock = 0
  /\ faults = 0

\* a run whose lease was given back; nobody asks how it stood before
Ended == [state |-> "ended", due |-> FALSE, phase |-> "leased"]

---------------------------------------------------------------------------
(* The execution, as far as recovery sees it                               *)

\* what every execution function of the worker demands of the lease
MayWork(r) ==
  /\ run[r].state = "held" /\ ~run[r].due /\ run[r].phase = "leased"
  /\ Active(r)

Stamped(r, stage) ==
  /\ manifest' = [manifest EXCEPT ![r] = [stage |-> stage, stamp |-> clock + 1]]
  /\ clock' = clock + 1

\* claim and execution_start
Start(r) ==
  /\ run[r].state = "idle"
  /\ run' = [run EXCEPT ![r].state = "held"]
  /\ Stamped(r, "prepared")
  /\ UNCHANGED <<job, reclaimed, co, cursor, faults>>

\* execution_advance: the row gets a new place in the discovery order
Advance(r) ==
  /\ MayWork(r)
  /\ clock < MaxClock                  \* bound
  /\ \/ manifest[r].stage = "prepared" /\ Stamped(r, "running")
     \/ manifest[r].stage = "running" /\ Stamped(r, "collecting")
  /\ UNCHANGED <<run, job, reclaimed, co, cursor, faults>>

\* execution_finalize_commit: result, terminal manifest and release in one
Finalize(r) ==
  /\ MayWork(r)
  /\ Stamped(r, "result")
  /\ run' = [run EXCEPT ![r] = Ended]
  /\ UNCHANGED <<job, reclaimed, co, cursor, faults>>

\* transition_phase does not look at the execution of the run
MovePhase(r) ==
  /\ run[r].state = "held" /\ ~run[r].due /\ run[r].phase = "leased"
  /\ run' = [run EXCEPT ![r].phase = "later"]
  /\ UNCHANGED <<manifest, job, reclaimed, co, cursor, clock, faults>>

\* the lease or the deadline of the task passes
LeaseRunsOut(r) ==
  /\ run[r].state = "held" /\ ~run[r].due
  /\ run' = [run EXCEPT ![r].due = TRUE]
  /\ UNCHANGED <<manifest, job, reclaimed, co, cursor, clock, faults>>

\* the worker releases the lease with a failure (clean-up of claim_execution)
WorkerGivesUp(r) ==
  /\ run[r].state = "held" /\ ~run[r].due
  /\ run' = [run EXCEPT ![r] = Ended]
  /\ UNCHANGED <<manifest, job, reclaimed, co, cursor, clock, faults>>

\* reconcile of the control plane releases a lease that ran out
ReconcileLease(r) ==
  /\ run[r].state = "held" /\ run[r].due
  /\ run' = [run EXCEPT ![r] = Ended]
  /\ UNCHANGED <<manifest, job, reclaimed, co, cursor, clock, faults>>

\* Mistake: the job is put down without the terminal stage
CancelJobOnly(r) ==
  /\ job' = [job EXCEPT ![r] = [NoJob EXCEPT !.status = "pending",
                                             !.key = manifest[r].stamp]]
  /\ UNCHANGED <<manifest, clock>>

\* execution_recovery_cancel_task on a run released by terminalization
CancelExecution(r) ==
  /\ Stamped(r, "cancelled")
  /\ job' = [job EXCEPT ![r] = [NoJob EXCEPT !.status = "pending",
                                             !.key = manifest[r].stamp]]

\* cancel or supersede of a task under a lease: the execution is closed in the
\* same transaction
CancelTask(r) ==
  /\ run[r].state = "held"
  /\ run' = [run EXCEPT ![r] = Ended]
  /\ IF Active(r) THEN CancelExecution(r) ELSE UNCHANGED <<manifest, job, clock>>
  /\ UNCHANGED <<reclaimed, co, cursor, faults>>

---------------------------------------------------------------------------
(* The queue: 017_execution_recovery_topology.sql                          *)

\* next_claim_at has come and nobody holds an unexpired claim
Claimable(r) ==
  job[r].status \in {"pending", "failed", "claimed"} /\ ~job[r].waiting

\* manifests past the cursor that have no job
Fresh(from) ==
  {r \in Runs : Active(r) /\ ~HasJob(r) /\ manifest[r].stamp > from}

Candidates(S) == {[run |-> r, key |-> manifest[r].stamp] : r \in S}
Retries(S)    == {[run |-> r, key |-> job[r].key] : r \in S}

\* the first n of S in discovery order
Earliest(S, n) ==
  {r \in S : Cardinality({q \in S : manifest[q].stamp < manifest[r].stamp}) < n}

\* execution_recovery_candidates. The retry lane is ordered by next_claim_at,
\* which the model does not keep: any of the claimable jobs may come first.
FetchPage(c) ==
  LET due == {r \in Runs : Claimable(r)} IN
  /\ co[c].pc = "idle"
  /\ \E base \in SUBSET due, extra \in SUBSET due :
       LET found == Fresh(cursor[c])
           room  == Limit - Cardinality(base)
           fresh == Earliest(found, room)
       IN /\ Cardinality(base) = Smaller(Cardinality(due), Limit \div 2)
          /\ extra \cap base = {}
          /\ Cardinality(extra) =
               Smaller(Cardinality(due \ base), room - Cardinality(fresh))
          /\ co' = [co EXCEPT ![c] =
               [Resting EXCEPT
                  !.pc = "page",
                  !.fresh = Candidates(fresh),
                  !.retry = Retries(base \cup extra),
                  !.safe = cursor[c],
                  !.scanned = {manifest[r].stamp : r \in fresh},
                  !.exhausted = Cardinality(fresh) < room]]
  /\ UNCHANGED <<run, manifest, job, reclaimed, cursor, clock, faults>>

\* Mistake: a claim of an expired holder is not taken over under a new fence
ClaimedAgain(r, key) ==
  [status |-> "claimed", fence |-> job[r].fence, key |-> key, waiting |-> TRUE]

\* the job under a new claim
Claimed(r, key) ==
  [status |-> "claimed", fence |-> job[r].fence + 1, key |-> key,
   waiting |-> TRUE]

\* Mistake: whether the lease ran out is not asked
LeaseClosableAnytime(r) ==
  run[r].state = "ended" \/ (run[r].state = "held" /\ run[r].phase = "leased")

\* claim_execution_recovery closes a lease that ran out through
\* _release_locked, unless the task has left its first phase
LeaseClosable(r) ==
  \/ run[r].state = "ended"
  \/ run[r].state = "held" /\ run[r].due /\ run[r].phase = "leased"

\* Mistake: only the job is looked for, the row of the page is trusted
SameRowTrusted(x) == ~HasJob(x.run)

\* the exact manifest row of a fresh candidate is still there
SameRow(x) == ~HasJob(x.run) /\ Active(x.run) /\ manifest[x.run].stamp = x.key

CanClaimFresh(x) == SameRow(x) /\ LeaseClosable(x.run)

\* a fresh candidate whose job appeared meanwhile is answered as a retry and
\* refused by the caller
CanClaimRetry(x) == HasJob(x.run) /\ job[x.run].key = x.key /\ Claimable(x.run)

CanClaim(lane, x) ==
  IF lane = "fresh" THEN CanClaimFresh(x) ELSE CanClaimRetry(x)

NotDue(x) ==
  /\ SameRow(x)
  /\ run[x.run].state = "held" /\ ~run[x.run].due /\ run[x.run].phase = "leased"

\* the writes of a successful claim; the transition "cancelled" of a fresh
\* candidate needs a manifest that cancel left active, which there is none of
ClaimWrites(lane, x) ==
  LET r == x.run IN
  /\ job' = [job EXCEPT ![r] = Claimed(r, x.key)]
  /\ IF lane = "fresh"
     THEN /\ Stamped(r, "orphaned")
          /\ run' = [run EXCEPT ![r] = Ended]
     ELSE UNCHANGED <<manifest, clock, run>>

\* Mistake: any claimed job of the run may be reported on
HoldsAnyClaim(hold) == job[hold.run].status = "claimed"

\* execution_recovery_cleanup_succeeded and _failed: the expiry of the claim
\* is not looked at, only whether it is still the newest
HoldsClaim(hold) ==
  job[hold.run].status = "claimed" /\ job[hold.run].fence = hold.fence

---------------------------------------------------------------------------
(* The coordinator: ExecutionRecovery.reconcile                            *)

Fault ==
  /\ faults < MaxFaults                \* bound
  /\ faults' = faults + 1

\* the lane of the next candidate: one fresh, one retry, while both last
NextLane(c) ==
  IF co[c].fresh = {} THEN "retry"
  ELSE IF co[c].retry = {} THEN "fresh" ELSE co[c].turn

OtherLane(lane) == IF lane = "fresh" THEN "retry" ELSE "fresh"

IsNext(c, lane, x) ==
  /\ co[c].pc = "page"
  /\ lane = NextLane(c)
  /\ x \in co[c][lane]
  /\ lane = "fresh" => \A y \in co[c].fresh : x.key <= y.key

\* the coordinator's record after it dealt with candidate x
Past(c, lane, x) ==
  [co[c] EXCEPT ![lane] = @ \ {x}, !.turn = OtherLane(lane)]

\* a fresh candidate behind one that was not settled
SkipFresh(c, x) ==
  /\ IsNext(c, "fresh", x)
  /\ co[c].blocked
  /\ co' = [co EXCEPT ![c] = Past(c, "fresh", x)]
  /\ UNCHANGED <<run, manifest, job, reclaimed, cursor, clock, faults>>

Calls(c, lane, x) == IsNext(c, lane, x) /\ (lane = "fresh" => ~co[c].blocked)

\* Mistake: a refused fresh candidate does not hold the cursor back
BlockedByNothing(c, lane) == co[c].blocked

BlockedBy(c, lane) == co[c].blocked \/ lane = "fresh"

ClaimGranted(c, lane, x) ==
  /\ Calls(c, lane, x)
  /\ CanClaim(lane, x)
  /\ ClaimWrites(lane, x)
  /\ co' = [co EXCEPT ![c] =
       [Past(c, lane, x) EXCEPT
          !.pc = "claimed",
          !.hold = [run |-> x.run, fence |-> Claimed(x.run, x.key).fence],
          !.safe = IF lane = "fresh" THEN x.key ELSE @]]
  /\ UNCHANGED <<reclaimed, cursor, faults>>

ClaimNotDue(c, x) ==
  /\ Calls(c, "fresh", x)
  /\ NotDue(x)
  /\ co' = [co EXCEPT ![c] = [Past(c, "fresh", x) EXCEPT !.safe = x.key]]
  /\ UNCHANGED <<run, manifest, job, reclaimed, cursor, clock, faults>>

ClaimRefused(c, lane, x) ==
  /\ Calls(c, lane, x)
  /\ ~CanClaim(lane, x)
  /\ ~(lane = "fresh" /\ NotDue(x))
  /\ co' = [co EXCEPT ![c] =
       [Past(c, lane, x) EXCEPT !.blocked = BlockedBy(c, lane)]]
  /\ UNCHANGED <<run, manifest, job, reclaimed, cursor, clock, faults>>

\* the call fails: rolled back, rows locked by another transaction, or
\* committed with the answer lost
ClaimFails(c, lane, x) ==
  /\ Calls(c, lane, x)
  /\ Fault
  /\ \/ CanClaim(lane, x) /\ ClaimWrites(lane, x)
     \/ UNCHANGED <<run, manifest, job, clock>>
  /\ co' = [co EXCEPT ![c] =
       [Past(c, lane, x) EXCEPT !.blocked = BlockedBy(c, lane)]]
  /\ UNCHANGED <<reclaimed, cursor>>

\* the broker answers released or already_absent
ReleaseWorkspace(c) ==
  /\ co[c].pc = "claimed"
  /\ reclaimed' = reclaimed \cup {co[c].hold.run}
  /\ co' = [co EXCEPT ![c].pc = "clean"]
  /\ UNCHANGED <<run, manifest, job, cursor, clock, faults>>

\* it fails or times out, and may have released the workspace all the same
ReleaseFails(c) ==
  /\ co[c].pc = "claimed"
  /\ Fault
  /\ \/ reclaimed' = reclaimed \cup {co[c].hold.run}
     \/ UNCHANGED reclaimed
  /\ co' = [co EXCEPT ![c].pc = "failed"]
  /\ UNCHANGED <<run, manifest, job, cursor, clock>>

\* Mistake: every report counts as a success
SettledAnyway(r, status) == [job[r] EXCEPT !.status = "succeeded"]

Settled(r, status) ==
  [job[r] EXCEPT !.status = status, !.waiting = (status = "failed")]

RecordOutcome(c) ==
  LET hold   == co[c].hold
      status == IF co[c].pc = "clean" THEN "succeeded" ELSE "failed"
  IN /\ co[c].pc \in {"clean", "failed"}
     /\ job' = IF HoldsClaim(hold)
               THEN [job EXCEPT ![hold.run] = Settled(hold.run, status)]
               ELSE job
     /\ co' = [co EXCEPT ![c].pc = "page", ![c].hold = NoHold]
     /\ UNCHANGED <<run, manifest, reclaimed, cursor, clock, faults>>

\* no time is left for the outcome, or recording it fails
OutcomeNotRecorded(c) ==
  /\ co[c].pc \in {"clean", "failed"}
  /\ Fault
  /\ co' = [co EXCEPT ![c].pc = "page", ![c].hold = NoHold]
  /\ UNCHANGED <<run, manifest, job, reclaimed, cursor, clock>>

\* the cycle ends with the page consumed
AtEnd(c) == co[c].pc = "page" /\ co[c].fresh \cup co[c].retry = {}

\* Mistake: the cursor never starts over
NextCursorForward(c) == co[c].safe

NextCursor(c) ==
  IF co[c].exhausted /\ ~co[c].blocked THEN 0 ELSE co[c].safe

\* scanned_through, the last fresh row of the page, is where the cursor is
AtWatermark(c) ==
  co[c].safe \in co[c].scanned /\ \A key \in co[c].scanned : key <= co[c].safe

\* the check before the result is returned ("invalid_recovery_page_watermark")
WatermarkError(c) == ~co[c].blocked /\ ~co[c].exhausted /\ ~AtWatermark(c)

EndCycle(c) ==
  /\ AtEnd(c)
  /\ cursor' = [cursor EXCEPT ![c] =
                  IF WatermarkError(c) THEN cursor[c] ELSE NextCursor(c)]
  /\ co' = [co EXCEPT ![c] = Resting]
  /\ UNCHANGED <<run, manifest, job, reclaimed, clock, faults>>

\* the time budget of the cycle is used up before the page is
BudgetEnds(c) ==
  /\ co[c].pc = "page" /\ ~AtEnd(c)
  /\ Fault
  /\ cursor' = [cursor EXCEPT ![c] = co[c].safe]
  /\ co' = [co EXCEPT ![c] = Resting]
  /\ UNCHANGED <<run, manifest, job, reclaimed, clock>>

\* the coordinator dies with what it holds, and its successor starts over
Crash(c) ==
  /\ co[c].pc # "idle"
  /\ Fault
  /\ co' = [co EXCEPT ![c] = Resting]
  /\ cursor' = [cursor EXCEPT ![c] = 0]
  /\ UNCHANGED <<run, manifest, job, reclaimed, clock>>

---------------------------------------------------------------------------
(* Time                                                                    *)

AtWork(r) ==
  \E c \in Coordinators : co[c].hold = [run |-> r, fence |-> job[r].fence]

\* next_claim_at comes, for a job nobody is working on
DelayEnds(r) ==
  /\ job[r].waiting /\ ~AtWork(r)
  /\ job' = [job EXCEPT ![r].waiting = FALSE]
  /\ UNCHANGED <<run, manifest, reclaimed, co, cursor, clock, faults>>

\* a claim runs out under a holder that is still at work
ClaimOverruns(r) ==
  /\ job[r].waiting /\ AtWork(r)
  /\ Fault
  /\ job' = [job EXCEPT ![r].waiting = FALSE]
  /\ UNCHANGED <<run, manifest, reclaimed, co, cursor, clock>>

---------------------------------------------------------------------------
Execution(r) ==
  \/ Start(r) \/ Advance(r) \/ Finalize(r) \/ MovePhase(r)
  \/ LeaseRunsOut(r) \/ WorkerGivesUp(r) \/ ReconcileLease(r) \/ CancelTask(r)

HandleCandidate(c, x) ==
  \/ SkipFresh(c, x)
  \/ ClaimNotDue(c, x)
  \/ \E lane \in Lanes : ClaimGranted(c, lane, x) \/ ClaimRefused(c, lane, x)

Progress(c) ==
  \/ FetchPage(c)
  \/ \E x \in co[c].fresh \cup co[c].retry : HandleCandidate(c, x)
  \/ ReleaseWorkspace(c)
  \/ RecordOutcome(c)
  \/ EndCycle(c)

Trouble(c) ==
  \/ \E x \in co[c].fresh \cup co[c].retry, lane \in Lanes : ClaimFails(c, lane, x)
  \/ ReleaseFails(c)
  \/ OutcomeNotRecorded(c)
  \/ BudgetEnds(c)
  \/ Crash(c)

Next ==
  \/ \E r \in Runs : Execution(r) \/ DelayEnds(r) \/ ClaimOverruns(r)
  \/ \E c \in Coordinators : Progress(c) \/ Trouble(c)

Spec == Init /\ [][Next]_vars

\* Assumed of the surroundings: coordinators are called again and again and
\* proceed, time passes for leases and delays, and the control plane's own
\* reconcile runs. Workers may stop at any moment.
Fairness ==
  /\ \A c \in Coordinators : WF_vars(Progress(c))
  /\ \A r \in Runs :
       /\ WF_vars(LeaseRunsOut(r))
       /\ WF_vars(ReconcileLease(r))
       /\ WF_vars(DelayEnds(r))

FairSpec == Spec /\ Fairness

---------------------------------------------------------------------------
(* Properties                                                              *)

RunRecords ==
  [state : {"idle", "held", "ended"}, due : BOOLEAN,
   phase : {"leased", "later"}]

JobRecords ==
  [status : {"none", "pending", "claimed", "failed", "succeeded"},
   fence : Nat, key : Nat, waiting : BOOLEAN]

Keyed == [run : Runs, key : Nat]

CoordinatorRecords ==
  [pc : {"idle", "page", "claimed", "clean", "failed"},
   fresh : SUBSET Keyed, retry : SUBSET Keyed, turn : Lanes,
   safe : Nat, scanned : SUBSET Nat, exhausted : BOOLEAN, blocked : BOOLEAN,
   hold : {NoHold} \cup [run : Runs, fence : Nat]]

\* The type invariant of the recovery tables and of the coordinators.
TypeOK ==
  /\ run \in [Runs -> RunRecords]
  /\ manifest \in [Runs -> [stage : Stages, stamp : Nat]]
  /\ job \in [Runs -> JobRecords]
  /\ reclaimed \subseteq Runs
  /\ co \in [Coordinators -> CoordinatorRecords]
  /\ cursor \in [Coordinators -> Nat]
  /\ clock \in Nat
  /\ faults \in Nat

\* A job exists exactly for the executions that recovery or cancel closed, and
\* only after the lease of the run was given back.
JobMeansClosed ==
  \A r \in Runs :
    /\ HasJob(r) <=> manifest[r].stage \in Given
    /\ HasJob(r) => run[r].state = "ended"

\* A workspace is released only when its execution was closed without a
\* result: never under a live lease, and never a workspace whose result was
\* stored ("must not affect any workspace other than the exact handle").
WorkspaceKept ==
  \A r \in reclaimed : manifest[r].stage \in Given /\ run[r].state = "ended"

\* A job that is reported clean has no workspace left, whoever reported it and
\* however many coordinators worked on it.
SuccessIsTrue ==
  \A r \in Runs : job[r].status = "succeeded" => r \in reclaimed

\* Job, lease, manifest and workspace agree on what was closed and what is clean.
CleanUpSound == JobMeansClosed /\ WorkspaceKept /\ SuccessIsTrue

\* Nobody holds a claim newer than the job's, and two coordinators never hold
\* the same claim.
ClaimsDistinct ==
  \A c \in Coordinators :
    co[c].hold # NoHold =>
      /\ co[c].hold.fence <= job[co[c].hold.run].fence
      /\ \A d \in Coordinators \ {c} : co[d].hold # co[c].hold

\* The page watermark check of reconcile never fires, however the candidates
\* of the page changed while it was worked through.
WatermarkHolds == \A c \in Coordinators : AtEnd(c) => ~WatermarkError(c)

\* A closed execution stays as it is: a late worker cannot give it a result,
\* and recovery never overwrites one.
ClosedStays ==
  [][\A r \in Runs : Terminal(r) => manifest'[r] = manifest[r]]_vars

\* Recovery closes no execution under a lease that is live, although the page
\* it works from may be old.
LiveLeaseKept ==
  [][\A r \in Runs :
       run[r].state = "held" /\ ~run[r].due => manifest'[r].stage # "orphaned"]_vars

\* A report counts once and only from the newest claim: when a claim is
\* settled, the coordinator that settles it holds exactly that fence.
OnlyNewestReports ==
  [][\A r \in Runs :
       job[r].status = "claimed" /\ job'[r].status \in {"failed", "succeeded"}
         => \E c \in Coordinators :
              co[c].hold = [run |-> r, fence |-> job[r].fence]
              /\ co'[c].hold = NoHold]_vars

\* Every execution whose lease has ended without a result is cleaned up in the
\* end: no orphan is passed by for ever, although the cursor runs past rows
\* that are not due and is held back by rows that cannot be settled.
OrphansCleaned ==
  \A r \in Runs :
    (Active(r) /\ run[r].state = "ended") ~> job[r].status = "succeeded"

\* Every lease of an execution is given back, by its worker or without it.
ExecutionsEnd == \A r \in Runs : Active(r) ~> Terminal(r)

---------------------------------------------------------------------------
(* Refinement                                                              *)

Contract == INSTANCE FencedClaim WITH
  Jobs  <- Runs,
  fence <- [r \in Runs |-> job[r].fence],
  open  <- {r \in Runs : job[r].status = "claimed"},
  done  <- {r \in Runs : job[r].status = "succeeded"}

\* The queue keeps the promises of FencedClaim.
ImplementsContract == Contract!Spec
=============================================================================
