---------------------- MODULE ExecutionRecovery_proofs ----------------------
(***************************************************************************)
(* The recovery queue for any number of executions and coordinators, any    *)
(* page length and any number of faults: the tables agree with each other,  *)
(* claims are told apart by their fences, and the queue implements          *)
(* FencedClaim.                                                             *)
(***************************************************************************)
EXTENDS ExecutionRecovery, FiniteSetTheorems, TLAPS

Busy == {"claimed", "clean", "failed"}

\* What the tables say of one execution.
TablesAgree(r) ==
  /\ run[r].state = "idle" => manifest[r].stage = "none"
  /\ job[r].status = "none" => job[r] = NoJob
  /\ job[r].status # "none" <=> manifest[r].stage \in Given
  /\ job[r].status # "none" => run[r].state = "ended"
  /\ r \in reclaimed => job[r].status # "none"
  /\ job[r].status = "succeeded" => r \in reclaimed

\* What the claim a coordinator holds says of the job.
HoldAgrees(c) ==
  LET hold == co[c].hold IN
  /\ co[c].pc \in Busy =>
       /\ hold \in [run : Runs, fence : Nat]
       /\ job[hold.run].status # "none"
       /\ hold.fence <= job[hold.run].fence
  /\ co[c].pc = "clean" => hold.run \in reclaimed
  /\ co[c].pc \notin Busy => hold = NoHold

HoldsDiffer ==
  \A c, d \in Coordinators :
    co[c].pc \in Busy /\ co[d].pc \in Busy /\ c # d => co[c].hold # co[d].hold

\* The inductive invariant.
Inductive ==
  /\ TypeOK
  /\ \A r \in Runs : TablesAgree(r)
  /\ \A c \in Coordinators : HoldAgrees(c)
  /\ HoldsDiffer

---------------------------------------------------------------------------
(* Records                                                                 *)

\* Dealing with a candidate changes the page and the lane, and nothing else.
LEMMA PastIsRecord ==
  ASSUME TypeOK, NEW c \in Coordinators, NEW lane \in Lanes, NEW x
  PROVE  /\ Past(c, lane, x) \in CoordinatorRecords
         /\ \A f \in {"pc", "safe", "scanned", "exhausted", "blocked", "hold"} :
              Past(c, lane, x)[f] = co[c][f]
         /\ Past(c, lane, x)[lane] = co[c][lane] \ {x}
         /\ Past(c, lane, x)[OtherLane(lane)] = co[c][OtherLane(lane)]
<1>1. co[c] \in CoordinatorRecords
  BY DEF TypeOK
<1>2. CASE lane = "fresh"
  BY <1>1, <1>2 DEF Past, OtherLane, Lanes, CoordinatorRecords
<1>3. CASE lane = "retry"
  BY <1>1, <1>3 DEF Past, OtherLane, Lanes, CoordinatorRecords
<1> QED
  BY <1>2, <1>3 DEF Lanes

LEMMA RestingIsRecord == Resting \in CoordinatorRecords
  BY DEF Resting, CoordinatorRecords, Lanes, Keyed

\* The candidate a coordinator is about to deal with.
LEMMA NextIsCandidate ==
  ASSUME TypeOK, NEW c \in Coordinators, NEW lane, NEW x, IsNext(c, lane, x)
  PROVE  lane \in Lanes /\ x \in Keyed /\ x \in co[c][lane] /\ co[c].pc = "page"
<1>1. co[c] \in CoordinatorRecords
  BY DEF TypeOK
<1>2. lane \in Lanes
  BY <1>1 DEF IsNext, NextLane, Lanes, CoordinatorRecords
<1>3. co[c][lane] \subseteq Keyed
  BY <1>1, <1>2 DEF Lanes, CoordinatorRecords
<1> QED
  BY <1>2, <1>3 DEF IsNext

\* The record of a coordinator that holds a new page.
PageRow(c, fresh, retries, exhausted) ==
  [Resting EXCEPT
     !.pc = "page",
     !.fresh = Candidates(fresh),
     !.retry = Retries(retries),
     !.safe = cursor[c],
     !.scanned = {manifest[r].stamp : r \in fresh},
     !.exhausted = exhausted]

\* A page that is not exhausted has a fresh row: the retries never take more
\* than half of it.
LEMMA PageFetched ==
  ASSUME TypeOK, NEW c \in Coordinators, FetchPage(c)
  PROVE  \E fresh \in SUBSET Fresh(cursor[c]), retries \in SUBSET Runs,
            exhausted \in BOOLEAN :
           /\ co' = [co EXCEPT ![c] = PageRow(c, fresh, retries, exhausted)]
           /\ ~exhausted => fresh # {}
<1> DEFINE due == {r \in Runs : Claimable(r)}
           room(base) == Limit - Cardinality(base)
           fresh(base) == Earliest(Fresh(cursor[c]), room(base))
           exhausted(base) == Cardinality(fresh(base)) < room(base)
<1>1. PICK base \in SUBSET due, extra \in SUBSET due :
        /\ Cardinality(base) = Smaller(Cardinality(due), Limit \div 2)
        /\ co' = [co EXCEPT ![c] =
                    PageRow(c, fresh(base), base \cup extra, exhausted(base))]
  BY DEF FetchPage, PageRow
<1>2. IsFiniteSet(due)
  BY FS_Subset, RecoveryAssumption
<1>3. Cardinality(due) \in Nat
  BY <1>2, FS_CardinalityType
<1>4. Limit \div 2 \in Nat /\ Limit \div 2 < Limit
  BY RecoveryAssumption
<1>5. room(base) \in Nat /\ room(base) > 0
  BY <1>1, <1>3, <1>4, RecoveryAssumption DEF Smaller
<1>6. ~exhausted(base) => fresh(base) # {}
  BY <1>5, FS_EmptySet
<1>7. fresh(base) \in SUBSET Fresh(cursor[c])
  BY DEF Earliest
<1>8. exhausted(base) \in BOOLEAN /\ base \cup extra \in SUBSET Runs
  OBVIOUS
<1> HIDE DEF due, fresh, exhausted
<1> QED
  BY <1>1, <1>6, <1>7, <1>8

LEMMA PageIsRecord ==
  ASSUME TypeOK, NEW c \in Coordinators,
         NEW fresh \in SUBSET Runs, NEW retries \in SUBSET Runs,
         NEW exhausted \in BOOLEAN
  PROVE  PageRow(c, fresh, retries, exhausted) \in CoordinatorRecords
<1>1. Candidates(fresh) \subseteq Keyed /\ Retries(retries) \subseteq Keyed
  BY DEF Candidates, Retries, Keyed, TypeOK, JobRecords
<1>2. {manifest[r].stamp : r \in fresh} \subseteq Nat /\ cursor[c] \in Nat
  BY DEF TypeOK
<1> QED
  BY <1>1, <1>2, RestingIsRecord DEF PageRow, Resting, CoordinatorRecords

\* What a coordinator is left with once it has its page.
LEMMA FetchedRow ==
  ASSUME TypeOK, NEW c \in Coordinators, FetchPage(c)
  PROVE  \E row \in CoordinatorRecords :
           /\ co' = [co EXCEPT ![c] = row]
           /\ row.pc = "page" /\ row.hold = NoHold
<1>1. PICK fresh \in SUBSET Fresh(cursor[c]), retries \in SUBSET Runs,
          exhausted \in BOOLEAN :
        co' = [co EXCEPT ![c] = PageRow(c, fresh, retries, exhausted)]
  BY PageFetched
<1>2. PageRow(c, fresh, retries, exhausted) \in CoordinatorRecords
  BY PageIsRecord DEF Fresh
<1>3. /\ PageRow(c, fresh, retries, exhausted).pc = "page"
      /\ PageRow(c, fresh, retries, exhausted).hold = NoHold
  BY DEF PageRow, Resting
<1> QED
  BY <1>1, <1>2, <1>3

---------------------------------------------------------------------------
(* Types                                                                   *)

LEMMA StampedTypes ==
  ASSUME TypeOK, NEW r \in Runs, NEW stage \in Stages, Stamped(r, stage)
  PROVE  manifest' \in [Runs -> [stage : Stages, stamp : Nat]] /\ clock' \in Nat
  BY DEF TypeOK, Stamped

LEMMA ClaimTypes ==
  ASSUME TypeOK, NEW lane \in Lanes, NEW x \in Keyed, ClaimWrites(lane, x)
  PROVE  /\ run' \in [Runs -> RunRecords]
         /\ manifest' \in [Runs -> [stage : Stages, stamp : Nat]]
         /\ job' \in [Runs -> JobRecords]
         /\ clock' \in Nat
<1>1. x.run \in Runs /\ x.key \in Nat
  BY DEF Keyed
<1>2. Claimed(x.run, x.key) \in JobRecords
  BY <1>1 DEF Claimed, JobRecords, TypeOK
<1>3. Ended \in RunRecords /\ "orphaned" \in Stages
  BY DEF Ended, RunRecords, Stages, Given
<1> QED
  BY <1>1, <1>2, <1>3, StampedTypes DEF ClaimWrites, TypeOK

\* The tables after a step of the execution, of its task or of its lease.
LEMMA ExecutionTypes ==
  ASSUME TypeOK, NEW r \in Runs, Execution(r)
  PROVE  TypeOK'
<1>1. /\ "prepared" \in Stages /\ "running" \in Stages /\ "collecting" \in Stages
      /\ "result" \in Stages /\ "cancelled" \in Stages
  BY DEF Stages, Working, Given
<1>2. Ended \in RunRecords
  BY DEF Ended, RunRecords
<1>3. CASE Start(r)
  BY <1>1, <1>3, StampedTypes DEF Start, TypeOK, RunRecords
<1>4. CASE Advance(r)
  BY <1>1, <1>4, StampedTypes DEF Advance, TypeOK
<1>5. CASE Finalize(r)
  BY <1>1, <1>2, <1>5, StampedTypes DEF Finalize, TypeOK
<1>6. CASE MovePhase(r) \/ LeaseRunsOut(r)
  BY <1>6 DEF MovePhase, LeaseRunsOut, TypeOK, RunRecords
<1>7. CASE WorkerGivesUp(r) \/ ReconcileLease(r)
  BY <1>2, <1>7 DEF WorkerGivesUp, ReconcileLease, TypeOK
<1>8. CASE CancelTask(r)
  <2>1. CASE Active(r)
    <3>1. [NoJob EXCEPT !.status = "pending", !.key = manifest[r].stamp] \in JobRecords
      BY DEF NoJob, JobRecords, TypeOK
    <3> QED
      BY <1>1, <1>2, <1>8, <2>1, <3>1, StampedTypes
         DEF CancelTask, CancelExecution, TypeOK
  <2>2. CASE ~Active(r)
    BY <1>2, <1>8, <2>2 DEF CancelTask, TypeOK
  <2> QED
    BY <2>1, <2>2
<1> QED
  BY <1>3, <1>4, <1>5, <1>6, <1>7, <1>8 DEF Execution

LEMMA TimeTypes ==
  ASSUME TypeOK, NEW r \in Runs, DelayEnds(r) \/ ClaimOverruns(r)
  PROVE  TypeOK'
<1>1. job' = [job EXCEPT ![r].waiting = FALSE]
  BY DEF DelayEnds, ClaimOverruns
<1>2. job' \in [Runs -> JobRecords]
  BY <1>1 DEF TypeOK, JobRecords
<1>3. faults' \in Nat
  BY DEF DelayEnds, ClaimOverruns, Fault, TypeOK
<1> QED
  BY <1>2, <1>3 DEF DelayEnds, ClaimOverruns, TypeOK

LEMMA CandidateTypes ==
  ASSUME TypeOK, NEW c \in Coordinators, NEW x, NEW lane,
         \/ SkipFresh(c, x) \/ ClaimNotDue(c, x)
         \/ ClaimGranted(c, lane, x) \/ ClaimRefused(c, lane, x)
         \/ ClaimFails(c, lane, x)
  PROVE  TypeOK'
<1>1. CASE SkipFresh(c, x)
  <2>1. Past(c, "fresh", x) \in CoordinatorRecords
    BY PastIsRecord DEF Lanes
  <2> QED
    BY <1>1, <2>1 DEF SkipFresh, TypeOK
<1>2. CASE ClaimNotDue(c, x)
  <2>1. Past(c, "fresh", x) \in CoordinatorRecords /\ x.key \in Nat
    BY <1>2, PastIsRecord, NextIsCandidate DEF Lanes, ClaimNotDue, Calls, Keyed
  <2>2. [Past(c, "fresh", x) EXCEPT !.safe = x.key] \in CoordinatorRecords
    BY <2>1 DEF CoordinatorRecords
  <2> QED
    BY <1>2, <2>2 DEF ClaimNotDue, TypeOK
<1>3. CASE ClaimGranted(c, lane, x)
  <2>1. lane \in Lanes /\ x \in Keyed /\ x.run \in Runs /\ x.key \in Nat
    BY <1>3, NextIsCandidate DEF ClaimGranted, Calls, Keyed
  <2>2. Past(c, lane, x) \in CoordinatorRecords
    BY <2>1, PastIsRecord
  <2>3. Claimed(x.run, x.key).fence \in Nat
    BY <2>1 DEF Claimed, TypeOK, JobRecords
  <2> DEFINE row == [Past(c, lane, x) EXCEPT
                       !.pc = "claimed",
                       !.hold = [run |-> x.run, fence |-> Claimed(x.run, x.key).fence],
                       !.safe = IF lane = "fresh" THEN x.key ELSE @]
  <2>4. row \in CoordinatorRecords
    BY <2>1, <2>2, <2>3 DEF CoordinatorRecords
  <2>5. co' = [co EXCEPT ![c] = row] /\ UNCHANGED <<reclaimed, cursor, faults>>
    BY <1>3 DEF ClaimGranted
  <2>6. ClaimWrites(lane, x)
    BY <1>3 DEF ClaimGranted
  <2> HIDE DEF row
  <2> QED
    BY <2>1, <2>4, <2>5, <2>6, ClaimTypes DEF TypeOK
<1>4. CASE ClaimRefused(c, lane, x) \/ ClaimFails(c, lane, x)
  <2>1. lane \in Lanes /\ x \in Keyed
    BY <1>4, NextIsCandidate DEF ClaimRefused, ClaimFails, Calls
  <2>2. Past(c, lane, x) \in CoordinatorRecords
    BY <2>1, PastIsRecord
  <2>3. BlockedBy(c, lane) \in BOOLEAN
    BY DEF BlockedBy, TypeOK, CoordinatorRecords
  <2>4. [Past(c, lane, x) EXCEPT !.blocked = BlockedBy(c, lane)] \in CoordinatorRecords
    BY <2>2, <2>3 DEF CoordinatorRecords
  <2>5. CASE ClaimRefused(c, lane, x)
    BY <2>4, <2>5 DEF ClaimRefused, TypeOK
  <2>6. CASE ClaimFails(c, lane, x)
    BY <2>1, <2>4, <2>6, ClaimTypes DEF ClaimFails, Fault, TypeOK
  <2> QED
    BY <1>4, <2>5, <2>6
<1> QED
  BY <1>1, <1>2, <1>3, <1>4

LEMMA CycleTypes ==
  ASSUME TypeOK, NEW c \in Coordinators,
         \/ FetchPage(c) \/ ReleaseWorkspace(c) \/ RecordOutcome(c) \/ EndCycle(c)
         \/ ReleaseFails(c) \/ OutcomeNotRecorded(c) \/ BudgetEnds(c) \/ Crash(c),
         \A d \in Coordinators : HoldAgrees(d)
  PROVE  TypeOK'
<1>1. co[c] \in CoordinatorRecords
  BY DEF TypeOK
<1>2. CASE FetchPage(c)
  BY <1>2, FetchedRow DEF FetchPage, TypeOK
<1>3. CASE ReleaseWorkspace(c) \/ ReleaseFails(c)
  <2>1. co[c].hold.run \in Runs
    BY <1>3 DEF ReleaseWorkspace, ReleaseFails, HoldAgrees, Busy
  <2>2. /\ [co[c] EXCEPT !.pc = "clean"] \in CoordinatorRecords
        /\ [co[c] EXCEPT !.pc = "failed"] \in CoordinatorRecords
    BY <1>1 DEF CoordinatorRecords
  <2> QED
    BY <1>3, <2>1, <2>2 DEF ReleaseWorkspace, ReleaseFails, Fault, TypeOK
<1>4. CASE RecordOutcome(c) \/ OutcomeNotRecorded(c)
  <2>1. co[c].hold.run \in Runs
    BY <1>4 DEF RecordOutcome, OutcomeNotRecorded, HoldAgrees, Busy
  <2>2. \A status \in {"succeeded", "failed"} :
          Settled(co[c].hold.run, status) \in JobRecords
    <3> TAKE status \in {"succeeded", "failed"}
    <3>1. job[co[c].hold.run] \in JobRecords
      BY <2>1 DEF TypeOK
    <3>2. /\ status \in {"none", "pending", "claimed", "failed", "succeeded"}
          /\ (status = "failed") \in BOOLEAN
      OBVIOUS
    <3> QED
      BY <3>1, <3>2 DEF Settled, JobRecords
  <2>3. [co[c] EXCEPT !.pc = "page", !.hold = NoHold] \in CoordinatorRecords
    BY <1>1 DEF CoordinatorRecords
  <2>4. co' \in [Coordinators -> CoordinatorRecords]
    BY <1>1, <1>4, <2>3 DEF RecordOutcome, OutcomeNotRecorded, TypeOK
  <2>5. job' \in [Runs -> JobRecords]
    BY <1>4, <2>1, <2>2 DEF RecordOutcome, OutcomeNotRecorded, TypeOK
  <2> QED
    BY <1>4, <2>4, <2>5 DEF RecordOutcome, OutcomeNotRecorded, Fault, TypeOK
<1>5. CASE EndCycle(c) \/ BudgetEnds(c) \/ Crash(c)
  <2>1. NextCursor(c) \in Nat /\ co[c].safe \in Nat
    BY <1>1 DEF NextCursor, CoordinatorRecords
  <2> QED
    BY <1>5, <2>1, RestingIsRecord DEF EndCycle, BudgetEnds, Crash, Fault, TypeOK
<1> QED
  BY <1>2, <1>3, <1>4, <1>5

\* Every step keeps the types.
LEMMA TypesKept ==
  ASSUME Inductive, [Next]_vars
  PROVE  TypeOK'
<1>1. ASSUME NEW c \in Coordinators, Progress(c) \/ Trouble(c) PROVE TypeOK'
  BY <1>1, CandidateTypes, CycleTypes DEF Progress, Trouble, HandleCandidate, Inductive
<1>2. CASE UNCHANGED vars
  BY <1>2 DEF vars, TypeOK, Inductive
<1> QED
  BY <1>1, <1>2, ExecutionTypes, TimeTypes DEF Next, Inductive

---------------------------------------------------------------------------
(* Agreement of the tables                                                 *)

\* A claim keeps the tables in agreement and raises the fence of its job.
LEMMA ClaimAgrees ==
  ASSUME TypeOK, \A r \in Runs : TablesAgree(r),
         NEW lane \in Lanes, NEW x \in Keyed,
         CanClaim(lane, x), ClaimWrites(lane, x), UNCHANGED reclaimed
  PROVE  /\ \A r \in Runs : TablesAgree(r)'
         /\ job'[x.run].fence = job[x.run].fence + 1
         /\ \A r \in Runs : r # x.run => job'[r] = job[r]
         /\ job[x.run].status # "succeeded"
         /\ job'[x.run].status = "claimed"
<1>1. x.run \in Runs
  BY DEF Keyed
<1>2. job' = [job EXCEPT ![x.run] = Claimed(x.run, x.key)]
  BY DEF ClaimWrites
<1>3. job'[x.run] = Claimed(x.run, x.key) /\ \A r \in Runs : r # x.run => job'[r] = job[r]
  BY <1>1, <1>2 DEF TypeOK
<1>4. /\ job'[x.run].status = "claimed"
      /\ job'[x.run].fence = job[x.run].fence + 1
      /\ job'[x.run].waiting
  BY <1>3 DEF Claimed
<1>5. CASE lane = "fresh"
  <2>1. CanClaimFresh(x) /\ Stamped(x.run, "orphaned") /\ run' = [run EXCEPT ![x.run] = Ended]
    BY <1>5 DEF CanClaim, ClaimWrites
  <2>2. job[x.run].status = "none"
    BY <2>1 DEF CanClaimFresh, SameRow, HasJob
  <2>3. \A r \in Runs : r # x.run => run'[r] = run[r] /\ manifest'[r] = manifest[r]
    BY <2>1 DEF Stamped, TypeOK
  <2>4. run'[x.run] = Ended /\ manifest'[x.run].stage = "orphaned"
    BY <1>1, <2>1 DEF Stamped, TypeOK
  <2>5. TablesAgree(x.run)'
    BY <1>4, <2>4 DEF TablesAgree, Ended, Given
  <2>6. ASSUME NEW r \in Runs, r # x.run PROVE TablesAgree(r)'
    BY <1>3, <2>3, <2>6 DEF TablesAgree
  <2> QED
    BY <1>3, <1>4, <2>2, <2>5, <2>6
<1>6. CASE lane = "retry"
  <2>1. CanClaimRetry(x) /\ UNCHANGED <<run, manifest>>
    BY <1>6 DEF CanClaim, ClaimWrites
  <2>2. job[x.run].status \notin {"none", "succeeded"}
    BY <2>1 DEF CanClaimRetry, Claimable
  <2>3. ASSUME NEW r \in Runs PROVE TablesAgree(r)'
    BY <1>1, <1>3, <1>4, <2>1, <2>2 DEF TablesAgree
  <2> QED
    BY <1>3, <1>4, <2>2, <2>3
<1> QED
  BY <1>5, <1>6 DEF Lanes

\* A hold stays right while its job keeps its fence or raises it.
LEMMA HoldSurvives ==
  ASSUME TypeOK, TypeOK', NEW c \in Coordinators, HoldAgrees(c),
         co'[c].pc = co[c].pc, co'[c].hold = co[c].hold,
         reclaimed \subseteq reclaimed',
         \A r \in Runs : job[r].status # "none" =>
           job'[r].status # "none" /\ job'[r].fence >= job[r].fence
  PROVE  HoldAgrees(c)'
<1>1. CASE co[c].pc \in Busy
  <2>1. /\ co[c].hold \in [run : Runs, fence : Nat]
        /\ job[co[c].hold.run].status # "none"
        /\ co[c].hold.fence <= job[co[c].hold.run].fence
    BY <1>1 DEF HoldAgrees
  <2>2. co[c].hold.run \in Runs /\ co[c].hold.fence \in Nat
    BY <2>1
  <2>3. job[co[c].hold.run].fence \in Nat /\ job'[co[c].hold.run].fence \in Nat
    BY <2>2 DEF TypeOK, JobRecords
  <2>4. /\ job'[co[c].hold.run].status # "none"
        /\ co[c].hold.fence <= job'[co[c].hold.run].fence
    BY <2>1, <2>2, <2>3
  <2> QED
    BY <1>1, <2>1, <2>4 DEF HoldAgrees, Busy
<1>2. CASE co[c].pc \notin Busy
  BY <1>2 DEF HoldAgrees, Busy
<1> QED
  BY <1>1, <1>2

\* The execution, its task and its lease.
LEMMA ExecutionAgrees ==
  ASSUME Inductive, NEW r \in Runs, Execution(r)
  PROVE  Inductive'
<1>1. TypeOK /\ TypeOK' /\ co' = co /\ reclaimed' = reclaimed
  BY ExecutionTypes DEF Inductive, Execution, Start, Advance, Finalize,
     MovePhase, LeaseRunsOut, WorkerGivesUp, ReconcileLease, CancelTask
<1>2. TablesAgree(r)
  BY DEF Inductive
<1>3. ASSUME NEW q \in Runs, q # r
      PROVE  run'[q] = run[q] /\ manifest'[q] = manifest[q] /\ job'[q] = job[q]
  BY <1>1, <1>3 DEF TypeOK, Execution, Start, Advance, Finalize, MovePhase,
     LeaseRunsOut, WorkerGivesUp, ReconcileLease, CancelTask, CancelExecution,
     Stamped
<1>4. TablesAgree(r)' /\ (job[r].status # "none" => job'[r] = job[r])
  <2>1. CASE Start(r)
    <3>1. manifest'[r].stage = "prepared" /\ run'[r].state = "held" /\ job' = job
      BY <1>1, <2>1 DEF Start, Stamped, TypeOK, RunRecords
    <3> QED
      BY <1>1, <1>2, <2>1, <3>1 DEF Start, TablesAgree, Given
  <2>2. CASE Advance(r)
    <3>1. /\ manifest'[r].stage \in {"running", "collecting"}
          /\ run' = run /\ job' = job
      BY <1>1, <2>2 DEF Advance, Stamped, TypeOK
    <3>2. manifest[r].stage \in Working /\ run[r].state = "held"
      BY <2>2 DEF Advance, MayWork, Active
    <3> QED
      BY <1>1, <1>2, <3>1, <3>2 DEF TablesAgree, Given, Working
  <2>3. CASE Finalize(r)
    <3>1. manifest'[r].stage = "result" /\ run'[r] = Ended /\ job' = job
      BY <1>1, <2>3 DEF Finalize, Stamped, TypeOK
    <3>2. manifest[r].stage \in Working
      BY <2>3 DEF Finalize, MayWork, Active
    <3> QED
      BY <1>1, <1>2, <3>1, <3>2 DEF TablesAgree, Given, Working, Ended
  <2>4. CASE \/ MovePhase(r) \/ LeaseRunsOut(r)
             \/ WorkerGivesUp(r) \/ ReconcileLease(r)
    <3>1. /\ run[r].state = "held" /\ run'[r].state \in {"held", "ended"}
          /\ manifest' = manifest /\ job' = job
      BY <1>1, <2>4 DEF MovePhase, LeaseRunsOut, WorkerGivesUp, ReconcileLease,
                        TypeOK, RunRecords, Ended
    <3> QED
      BY <1>1, <1>2, <3>1 DEF TablesAgree
  <2>5. CASE CancelTask(r)
    <3>1. run[r].state = "held" /\ run'[r] = Ended
      BY <1>1, <2>5 DEF CancelTask, TypeOK
    <3>2. CASE Active(r)
      <4>1. manifest'[r].stage = "cancelled" /\ job'[r].status = "pending"
        <5>1. [NoJob EXCEPT !.status = "pending", !.key = manifest[r].stamp].status
                = "pending"
          BY DEF NoJob
        <5>2. CancelExecution(r)
          BY <2>5, <3>2 DEF CancelTask
        <5> QED
          BY <1>1, <5>1, <5>2 DEF CancelExecution, Stamped, TypeOK
      <4>2. job[r].status = "none" /\ r \notin reclaimed
        BY <1>2, <3>2 DEF TablesAgree, Active, Working, Given
      <4> QED
        BY <1>1, <3>1, <4>1, <4>2 DEF TablesAgree, Ended, Given
    <3>3. CASE ~Active(r)
      BY <1>1, <1>2, <2>5, <3>1, <3>3 DEF CancelTask, TablesAgree, Ended
    <3> QED
      BY <3>2, <3>3
  <2> QED
    BY <2>1, <2>2, <2>3, <2>4, <2>5 DEF Execution
<1>5. \A q \in Runs : TablesAgree(q)'
  BY <1>1, <1>3, <1>4 DEF Inductive, TablesAgree
<1>6. \A q \in Runs : job[q].status # "none" => job'[q] = job[q]
  BY <1>3, <1>4
<1>7. \A q \in Runs : job[q].status # "none" =>
        job'[q].status # "none" /\ job'[q].fence >= job[q].fence
  BY <1>1, <1>6 DEF TypeOK, JobRecords
<1>8. \A c \in Coordinators : HoldAgrees(c)'
  BY <1>1, <1>7, HoldSurvives DEF Inductive
<1>9. HoldsDiffer'
  BY <1>1 DEF Inductive, HoldsDiffer
<1> QED
  BY <1>1, <1>5, <1>8, <1>9 DEF Inductive

\* Time changes nothing but whether a job may be claimed.
LEMMA TimeAgrees ==
  ASSUME Inductive, NEW r \in Runs, DelayEnds(r) \/ ClaimOverruns(r)
  PROVE  Inductive'
<1>1. TypeOK /\ TypeOK' /\ UNCHANGED <<run, manifest, reclaimed, co>>
  BY TimeTypes DEF Inductive, DelayEnds, ClaimOverruns
<1>2. /\ job' = [job EXCEPT ![r].waiting = FALSE]
      /\ job[r].waiting
  BY DEF DelayEnds, ClaimOverruns
<1>3. \A q \in Runs : job'[q].status = job[q].status /\ job'[q].fence = job[q].fence
  BY <1>1, <1>2 DEF TypeOK, JobRecords
<1>4. \A q \in Runs : job[q].status = "none" => job'[q] = job[q]
  BY <1>1, <1>2 DEF Inductive, TablesAgree, NoJob, TypeOK
<1>5. \A q \in Runs : TablesAgree(q)'
  BY <1>1, <1>3, <1>4 DEF Inductive, TablesAgree
<1>6. \A q \in Runs : job[q].status # "none" =>
        job'[q].status # "none" /\ job'[q].fence >= job[q].fence
  BY <1>1, <1>3 DEF TypeOK, JobRecords
<1>7. \A c \in Coordinators : HoldAgrees(c)'
  BY <1>1, <1>6, HoldSurvives DEF Inductive
<1>8. HoldsDiffer'
  BY <1>1 DEF Inductive, HoldsDiffer
<1> QED
  BY <1>1, <1>5, <1>7, <1>8 DEF Inductive

---------------------------------------------------------------------------
(* The coordinator                                                         *)

\* Steps that leave the tables and the coordinator's hold alone.
LEMMA QuietStep ==
  ASSUME Inductive, TypeOK', NEW c \in Coordinators, NEW row,
         co' = [co EXCEPT ![c] = row],
         \/ row.pc = co[c].pc /\ row.hold = co[c].hold
         \/ row.pc \notin Busy /\ row.hold = NoHold,
         UNCHANGED <<run, manifest, job, reclaimed>>
  PROVE  Inductive'
<1>1. co'[c] = row /\ \A d \in Coordinators : d # c => co'[d] = co[d]
  BY DEF Inductive, TypeOK
<1>2. \A r \in Runs : TablesAgree(r)'
  BY DEF Inductive, TablesAgree
<1>3. \A d \in Coordinators : HoldAgrees(d)'
  BY <1>1 DEF Inductive, HoldAgrees, Busy
<1>4. HoldsDiffer'
  BY <1>1 DEF Inductive, HoldsDiffer
<1> QED
  BY <1>2, <1>3, <1>4 DEF Inductive

\* A candidate is passed over, refused, or claimed.
LEMMA CandidateAgrees ==
  ASSUME Inductive, NEW c \in Coordinators, NEW x, NEW lane,
         \/ SkipFresh(c, x) \/ ClaimNotDue(c, x)
         \/ ClaimGranted(c, lane, x) \/ ClaimRefused(c, lane, x)
         \/ ClaimFails(c, lane, x)
  PROVE  Inductive'
<1>1. TypeOK /\ TypeOK'
  BY CandidateTypes DEF Inductive
<1>2. CASE SkipFresh(c, x)
  <2>1. Past(c, "fresh", x).pc = co[c].pc /\ Past(c, "fresh", x).hold = co[c].hold
    BY <1>1, PastIsRecord DEF Lanes
  <2> QED
    BY <1>1, <1>2, <2>1, QuietStep DEF SkipFresh
<1>3. CASE ClaimNotDue(c, x)
  <2> DEFINE row == [Past(c, "fresh", x) EXCEPT !.safe = x.key]
  <2>1. /\ Past(c, "fresh", x) \in CoordinatorRecords
        /\ Past(c, "fresh", x).pc = co[c].pc /\ Past(c, "fresh", x).hold = co[c].hold
    BY <1>1, PastIsRecord DEF Lanes
  <2>2. row.pc = co[c].pc /\ row.hold = co[c].hold
    BY <2>1 DEF CoordinatorRecords
  <2> QED
    BY <1>1, <1>3, <2>2, QuietStep DEF ClaimNotDue
<1>4. ASSUME ClaimGranted(c, lane, x) \/ ClaimRefused(c, lane, x) \/ ClaimFails(c, lane, x)
      PROVE  /\ lane \in Lanes /\ x \in Keyed /\ co[c].pc = "page"
             /\ Past(c, lane, x) \in CoordinatorRecords
             /\ Past(c, lane, x).pc = co[c].pc /\ Past(c, lane, x).hold = co[c].hold
  <2>1. lane \in Lanes /\ x \in Keyed /\ co[c].pc = "page"
    BY <1>1, <1>4, NextIsCandidate DEF ClaimGranted, ClaimRefused, ClaimFails, Calls
  <2> QED
    BY <1>1, <2>1, PastIsRecord
<1> DEFINE left == [Past(c, lane, x) EXCEPT !.blocked = BlockedBy(c, lane)]
<1>5. ASSUME ClaimRefused(c, lane, x) \/ ClaimFails(c, lane, x)
      PROVE  left.pc = co[c].pc /\ left.hold = co[c].hold /\ co' = [co EXCEPT ![c] = left]
  BY <1>4, <1>5 DEF ClaimRefused, ClaimFails, CoordinatorRecords
<1>6. CASE ClaimRefused(c, lane, x)
  BY <1>1, <1>5, <1>6, QuietStep DEF ClaimRefused
<1>7. ASSUME CanClaim(lane, x), ClaimWrites(lane, x), UNCHANGED reclaimed,
             lane \in Lanes, x \in Keyed
      PROVE  \A r \in Runs : job[r].status # "none" =>
               job'[r].status # "none" /\ job'[r].fence >= job[r].fence
  <2>1. /\ job'[x.run].fence = job[x.run].fence + 1
        /\ job'[x.run].status = "claimed"
        /\ \A r \in Runs : r # x.run => job'[r] = job[r]
    BY <1>1, <1>7, ClaimAgrees DEF Inductive
  <2>2. \A r \in Runs : job[r].fence \in Nat
    BY <1>1 DEF TypeOK, JobRecords
  <2> QED
    BY <2>1, <2>2
<1>8. CASE ClaimFails(c, lane, x)
  <2>1. CASE UNCHANGED <<run, manifest, job, clock>>
    BY <1>1, <1>5, <1>8, <2>1, QuietStep DEF ClaimFails
  <2>2. CASE CanClaim(lane, x) /\ ClaimWrites(lane, x)
    <3>1. UNCHANGED reclaimed
      BY <1>8 DEF ClaimFails
    <3>2. \A r \in Runs : TablesAgree(r)'
      BY <1>1, <1>4, <1>8, <2>2, <3>1, ClaimAgrees DEF Inductive
    <3>3. \A d \in Coordinators : co'[d].pc = co[d].pc /\ co'[d].hold = co[d].hold
      BY <1>1, <1>5, <1>8 DEF TypeOK
    <3>4. \A d \in Coordinators : HoldAgrees(d)'
      BY <1>1, <1>4, <1>7, <1>8, <2>2, <3>1, <3>3, HoldSurvives DEF Inductive
    <3>5. HoldsDiffer'
      BY <3>3 DEF Inductive, HoldsDiffer
    <3> QED
      BY <1>1, <3>2, <3>4, <3>5 DEF Inductive
  <2> QED
    BY <1>8, <2>1, <2>2 DEF ClaimFails
<1>9. CASE ClaimGranted(c, lane, x)
  <2> DEFINE hold == [run |-> x.run, fence |-> Claimed(x.run, x.key).fence]
             row == [Past(c, lane, x) EXCEPT
                       !.pc = "claimed", !.hold = hold,
                       !.safe = IF lane = "fresh" THEN x.key ELSE @]
  <2>1. /\ CanClaim(lane, x) /\ ClaimWrites(lane, x) /\ UNCHANGED reclaimed
        /\ co' = [co EXCEPT ![c] = row]
    BY <1>9 DEF ClaimGranted
  <2>2. row.pc = "claimed" /\ row.hold = hold
    BY <1>4, <1>9 DEF CoordinatorRecords
  <2>3. co'[c] = row /\ \A d \in Coordinators : d # c => co'[d] = co[d]
    BY <1>1, <2>1 DEF TypeOK
  <2> HIDE DEF row
  <2>4. x.run \in Runs /\ job[x.run].fence \in Nat
    BY <1>1, <1>4, <1>9 DEF Keyed, TypeOK, JobRecords
  <2>5. hold.run = x.run /\ hold.fence = job[x.run].fence + 1
    BY DEF Claimed
  <2>6. /\ \A r \in Runs : TablesAgree(r)'
        /\ job'[x.run].fence = job[x.run].fence + 1
        /\ job'[x.run].status = "claimed"
    BY <1>1, <1>4, <1>9, <2>1, ClaimAgrees DEF Inductive
  <2>7. HoldAgrees(c)'
    BY <2>2, <2>3, <2>4, <2>5, <2>6 DEF HoldAgrees, Busy
  <2>8. ASSUME NEW d \in Coordinators, d # c PROVE HoldAgrees(d)'
    BY <1>1, <1>4, <1>7, <1>9, <2>1, <2>3, <2>8, HoldSurvives DEF Inductive
  <2>9. ASSUME NEW d \in Coordinators, d # c, co[d].pc \in Busy
        PROVE  co[d].hold # hold
    <3>1. co[d].hold.fence <= job[co[d].hold.run].fence
      BY <2>9 DEF Inductive, HoldAgrees
    <3> QED
      BY <2>4, <2>5, <3>1
  <2>10. HoldsDiffer'
    BY <2>2, <2>3, <2>9 DEF Inductive, HoldsDiffer
  <2> QED
    BY <1>1, <2>6, <2>7, <2>8, <2>10 DEF Inductive
<1> QED
  BY <1>2, <1>3, <1>6, <1>8, <1>9

\* A page, a release or a report.
LEMMA CycleAgrees ==
  ASSUME Inductive, NEW c \in Coordinators,
         \/ FetchPage(c) \/ ReleaseWorkspace(c) \/ RecordOutcome(c) \/ EndCycle(c)
         \/ ReleaseFails(c) \/ OutcomeNotRecorded(c) \/ BudgetEnds(c) \/ Crash(c)
  PROVE  Inductive'
<1>1. TypeOK /\ TypeOK' /\ co[c] \in CoordinatorRecords
  BY CycleTypes DEF Inductive, TypeOK
<1>2. CASE FetchPage(c)
  <2>1. PICK row \in CoordinatorRecords :
          co' = [co EXCEPT ![c] = row] /\ row.pc = "page" /\ row.hold = NoHold
    BY <1>1, <1>2, FetchedRow
  <2>2. row.pc \notin Busy
    BY <2>1 DEF Busy
  <2> QED
    BY <1>1, <1>2, <2>1, <2>2, QuietStep DEF FetchPage
<1>3. CASE EndCycle(c) \/ BudgetEnds(c) \/ Crash(c)
  <2>1. Resting.pc \notin Busy /\ Resting.hold = NoHold
    BY DEF Resting, Busy
  <2> QED
    BY <1>1, <1>3, <2>1, QuietStep DEF EndCycle, BudgetEnds, Crash
<1>4. CASE OutcomeNotRecorded(c)
  <2> DEFINE row == [co[c] EXCEPT !.pc = "page", !.hold = NoHold]
  <2>1. row.pc \notin Busy /\ row.hold = NoHold
    BY <1>1 DEF Busy, CoordinatorRecords
  <2>2. co' = [co EXCEPT ![c] = row]
    BY <1>1, <1>4 DEF OutcomeNotRecorded, TypeOK, CoordinatorRecords
  <2> HIDE DEF row
  <2> QED
    BY <1>1, <1>4, <2>1, <2>2, QuietStep DEF OutcomeNotRecorded
<1>5. CASE ReleaseWorkspace(c) \/ ReleaseFails(c)
  <2>1. co[c].pc = "claimed"
    BY <1>5 DEF ReleaseWorkspace, ReleaseFails
  <2>2. co[c].hold.run \in Runs /\ job[co[c].hold.run].status # "none"
    BY <2>1 DEF Inductive, HoldAgrees, Busy
  <2>3. /\ reclaimed \subseteq reclaimed'
        /\ reclaimed' \subseteq reclaimed \cup {co[c].hold.run}
        /\ UNCHANGED <<run, manifest, job>>
    BY <1>5 DEF ReleaseWorkspace, ReleaseFails
  <2>4. \A r \in Runs : TablesAgree(r)'
    BY <2>2, <2>3 DEF Inductive, TablesAgree
  <2>5. /\ co'[c].hold = co[c].hold
        /\ co'[c].pc \in {"clean", "failed"}
        /\ co'[c].pc = "clean" => co[c].hold.run \in reclaimed'
        /\ \A d \in Coordinators : d # c => co'[d] = co[d]
    BY <1>1, <1>5 DEF ReleaseWorkspace, ReleaseFails, TypeOK, CoordinatorRecords
  <2>6. \A d \in Coordinators : HoldAgrees(d)'
    BY <2>1, <2>3, <2>5 DEF Inductive, HoldAgrees, Busy
  <2>7. HoldsDiffer'
    BY <2>1, <2>5 DEF Inductive, HoldsDiffer, Busy
  <2> QED
    BY <1>1, <2>4, <2>6, <2>7 DEF Inductive
<1>6. CASE RecordOutcome(c)
  <2> DEFINE r == co[c].hold.run
             status == IF co[c].pc = "clean" THEN "succeeded" ELSE "failed"
  <2>1. co[c].pc \in Busy /\ r \in Runs /\ job[r].status # "none"
    BY <1>6 DEF RecordOutcome, Inductive, HoldAgrees, Busy
  <2>2. /\ job' = IF HoldsClaim(co[c].hold)
                  THEN [job EXCEPT ![r] = Settled(r, status)] ELSE job
        /\ UNCHANGED <<run, manifest, reclaimed>>
    BY <1>6 DEF RecordOutcome
  <2>3. /\ Settled(r, status).status = status
        /\ Settled(r, status).fence = job[r].fence
    BY <1>1, <2>1 DEF Settled, TypeOK, JobRecords
  <2>4. \A q \in Runs :
          /\ job'[q].fence = job[q].fence
          /\ job'[q].status = job[q].status \/ (q = r /\ job'[q].status = status)
    BY <1>1, <2>1, <2>2, <2>3 DEF TypeOK
  <2>5. job[r].status # "none" /\ (job'[r].status = "succeeded" => r \in reclaimed)
    BY <2>1, <2>4 DEF Inductive, HoldAgrees, TablesAgree
  <2>6. ASSUME NEW q \in Runs PROVE TablesAgree(q)'
    <3>1. TablesAgree(q) /\ TablesAgree(r)
      BY <2>1 DEF Inductive
    <3>2. CASE q = r
      BY <2>2, <2>4, <2>5, <3>1, <3>2 DEF TablesAgree
    <3>3. CASE q # r
      <4>1. job'[q] = job[q]
        BY <1>1, <2>1, <2>2, <3>3 DEF TypeOK
      <4> QED
        BY <2>2, <3>1, <4>1 DEF TablesAgree
    <3> QED
      BY <3>2, <3>3
  <2>7. /\ co'[c].pc = "page" /\ co'[c].hold = NoHold
        /\ \A d \in Coordinators : d # c => co'[d] = co[d]
    BY <1>1, <1>6 DEF RecordOutcome, TypeOK, CoordinatorRecords
  <2>8. \A q \in Runs : job[q].status # "none" =>
          job'[q].status # "none" /\ job'[q].fence >= job[q].fence
    <3>1. status # "none" /\ \A q \in Runs : job[q].fence \in Nat
      BY <1>1 DEF TypeOK, JobRecords
    <3> QED
      BY <2>4, <3>1
  <2>9. ASSUME NEW d \in Coordinators PROVE HoldAgrees(d)'
    <3>1. CASE d = c
      BY <2>7, <3>1 DEF HoldAgrees, Busy
    <3>2. CASE d # c
      BY <1>1, <2>2, <2>7, <2>8, <3>2, HoldSurvives DEF Inductive
    <3> QED
      BY <3>1, <3>2
  <2>10. HoldsDiffer'
    BY <2>7 DEF Inductive, HoldsDiffer, Busy
  <2> QED
    BY <1>1, <2>6, <2>9, <2>10 DEF Inductive
<1> QED
  BY <1>2, <1>3, <1>4, <1>5, <1>6

---------------------------------------------------------------------------
(* Theorems                                                                *)

\* The tables and the coordinators agree in every state of every behaviour:
\* what claim, reports, cancel and the worker write fits together.
THEOREM RecoveryInvariant == Spec => []Inductive
<1>1. Init => Inductive
  <2> SUFFICES ASSUME Init PROVE Inductive
    OBVIOUS
  <2>1. TypeOK
    BY RestingIsRecord DEF Init, TypeOK, RunRecords, JobRecords, NoJob, Stages
  <2>2. \A r \in Runs : TablesAgree(r)
    BY DEF Init, TablesAgree, NoJob, Given
  <2>3. \A c \in Coordinators : co[c] = Resting
    BY DEF Init
  <2>4. Resting.pc \notin Busy /\ Resting.pc # "clean" /\ Resting.hold = NoHold
    BY DEF Resting, Busy
  <2> QED
    BY <2>1, <2>2, <2>3, <2>4 DEF Inductive, HoldAgrees, HoldsDiffer, Busy
<1>2. Inductive /\ [Next]_vars => Inductive'
  <2> SUFFICES ASSUME Inductive, [Next]_vars PROVE Inductive'
    OBVIOUS
  <2>1. ASSUME NEW r \in Runs, Execution(r) \/ DelayEnds(r) \/ ClaimOverruns(r)
        PROVE  Inductive'
    BY <2>1, ExecutionAgrees, TimeAgrees
  <2>2. ASSUME NEW c \in Coordinators, Progress(c) \/ Trouble(c) PROVE Inductive'
    BY <2>2, CandidateAgrees, CycleAgrees DEF Progress, Trouble, HandleCandidate
  <2>3. CASE UNCHANGED vars
    BY <2>3 DEF vars, Inductive, TypeOK, TablesAgree, HoldAgrees, HoldsDiffer
  <2> QED
    BY <2>1, <2>2, <2>3 DEF Next
<1> QED
  BY <1>1, <1>2, PTL DEF Spec

\* The types of the tables and of the coordinators' records.
THEOREM RecoveryTypes == Spec => []TypeOK
<1>1. Inductive => TypeOK
  BY DEF Inductive
<1> QED
  BY <1>1, RecoveryInvariant, PTL

\* A clean-up job is there exactly for the executions that cancel or recovery
\* closed, and no lease is left under one.
THEOREM JobsMeanClosed == Spec => []JobMeansClosed
<1>1. Inductive => JobMeansClosed
  BY DEF Inductive, TablesAgree, JobMeansClosed, HasJob
<1> QED
  BY <1>1, RecoveryInvariant, PTL

\* No workspace of a live execution or of a stored result is released.
THEOREM WorkspacesKept == Spec => []WorkspaceKept
<1>1. Inductive => WorkspaceKept
  BY DEF Inductive, TablesAgree, WorkspaceKept, TypeOK
<1> QED
  BY <1>1, RecoveryInvariant, PTL

\* A job reported clean has no workspace left.
THEOREM SuccessesAreTrue == Spec => []SuccessIsTrue
<1>1. Inductive => SuccessIsTrue
  BY DEF Inductive, TablesAgree, SuccessIsTrue
<1> QED
  BY <1>1, RecoveryInvariant, PTL

\* What was closed and what is clean: tables and workspaces agree.
THEOREM CleanUpIsSound == Spec => []CleanUpSound
  BY JobsMeanClosed, WorkspacesKept, SuccessesAreTrue, PTL DEF CleanUpSound

\* Claims are told apart by their fences, however many coordinators run.
THEOREM ClaimsAreDistinct == Spec => []ClaimsDistinct
<1>1. Inductive => ClaimsDistinct
  <2> SUFFICES ASSUME Inductive, NEW c \in Coordinators, co[c].hold # NoHold
               PROVE  /\ co[c].hold.fence <= job[co[c].hold.run].fence
                      /\ \A d \in Coordinators \ {c} : co[d].hold # co[c].hold
    BY DEF ClaimsDistinct
  <2>1. HoldAgrees(c) /\ co[c].pc \in Busy
    BY DEF Inductive, HoldAgrees
  <2>2. \A d \in Coordinators : co[d].pc \notin Busy => co[d].hold = NoHold
    BY DEF Inductive, HoldAgrees
  <2> QED
    BY <2>1, <2>2 DEF HoldAgrees, Inductive, HoldsDiffer
<1> QED
  BY <1>1, RecoveryInvariant, PTL

---------------------------------------------------------------------------
(* What a step may do                                                      *)

\* The manifest of a run is written while it is at work or not there yet, and
\* the claim that closes it finds a lease that ran out or was given back.
LEMMA ManifestSteps ==
  ASSUME Inductive, [Next]_vars, NEW r \in Runs
  PROVE  \/ manifest'[r] = manifest[r]
         \/ ~Terminal(r) /\ manifest'[r].stage # "orphaned"
         \/ ~Terminal(r) /\ LeaseClosable(r)
<1> USE DEF Inductive
<1>1. ASSUME NEW q \in Runs, NEW stage, Stamped(q, stage)
      PROVE  /\ q # r => manifest'[r] = manifest[r]
             /\ q = r => manifest'[r].stage = stage
  BY <1>1 DEF Stamped, TypeOK
<1>2. Active(r) => ~Terminal(r)
  BY DEF Active, Terminal, Working, Given
<1>3. ASSUME NEW q \in Runs, Execution(q)
      PROVE  \/ manifest'[r] = manifest[r]
             \/ ~Terminal(r) /\ manifest'[r].stage # "orphaned"
  <2>1. CASE Start(q)
    <3>1. manifest[q].stage = "none"
      BY <2>1 DEF Start, TablesAgree
    <3>2. Stamped(q, "prepared")
      BY <2>1 DEF Start
    <3> QED
      BY <1>1, <3>1, <3>2 DEF Terminal, Given
  <2>2. CASE Advance(q) \/ Finalize(q)
    <3>1. /\ Active(q)
          /\ Stamped(q, "running") \/ Stamped(q, "collecting") \/ Stamped(q, "result")
      BY <2>2 DEF Advance, Finalize, MayWork
    <3> QED
      BY <1>1, <1>2, <3>1
  <2>3. CASE CancelTask(q)
    BY <1>1, <1>2, <2>3 DEF CancelTask, CancelExecution
  <2>4. CASE MovePhase(q) \/ LeaseRunsOut(q) \/ WorkerGivesUp(q) \/ ReconcileLease(q)
    BY <2>4 DEF MovePhase, LeaseRunsOut, WorkerGivesUp, ReconcileLease
  <2> QED
    BY <1>3, <2>1, <2>2, <2>3, <2>4 DEF Execution
<1>4. ASSUME NEW c \in Coordinators, NEW lane, NEW x,
             ClaimGranted(c, lane, x) \/ ClaimFails(c, lane, x)
      PROVE  manifest'[r] = manifest[r] \/ (~Terminal(r) /\ LeaseClosable(r))
  <2>1. CASE UNCHANGED manifest
    BY <2>1
  <2>2. CASE CanClaim(lane, x) /\ ClaimWrites(lane, x)
    <3>1. x.run \in Runs
      BY <1>4, NextIsCandidate DEF ClaimGranted, ClaimFails, Calls, Keyed
    <3>2. CASE lane = "fresh"
      BY <1>1, <1>2, <2>2, <3>1, <3>2
         DEF CanClaim, CanClaimFresh, SameRow, ClaimWrites
    <3>3. CASE lane # "fresh"
      BY <2>2, <3>3 DEF ClaimWrites
    <3> QED
      BY <3>2, <3>3
  <2> QED
    BY <1>4, <2>1, <2>2 DEF ClaimGranted, ClaimFails
<1>5. ASSUME NEW c \in Coordinators, Progress(c) \/ Trouble(c)
      PROVE  manifest'[r] = manifest[r] \/ (~Terminal(r) /\ LeaseClosable(r))
  BY <1>4, <1>5 DEF Progress, Trouble, HandleCandidate, FetchPage, SkipFresh,
     ClaimNotDue, ClaimRefused, ReleaseWorkspace, RecordOutcome, EndCycle,
     ReleaseFails, OutcomeNotRecorded, BudgetEnds, Crash
<1>6. ASSUME NEW q \in Runs, DelayEnds(q) \/ ClaimOverruns(q)
      PROVE  manifest' = manifest
  BY <1>6 DEF DelayEnds, ClaimOverruns
<1> QED
  BY <1>3, <1>5, <1>6 DEF Next, vars

\* A closed execution stays as it is: no late worker, no second coordinator
\* and no cancel rewrites it.
THEOREM ClosedExecutionsStay == Spec => ClosedStays
<1>1. Inductive /\ [Next]_vars =>
        [\A r \in Runs : Terminal(r) => manifest'[r] = manifest[r]]_vars
  BY ManifestSteps
<1> QED
  BY <1>1, RecoveryInvariant, PTL DEF Spec, ClosedStays

\* Recovery closes no execution under a live lease, however old its page.
THEOREM LiveLeasesKept == Spec => LiveLeaseKept
<1>1. ASSUME Inductive, [Next]_vars, NEW r \in Runs,
             run[r].state = "held", ~run[r].due
      PROVE  manifest'[r].stage # "orphaned"
  <2>1. manifest[r].stage # "orphaned"
    BY <1>1 DEF Inductive, TablesAgree, Given
  <2>2. ~LeaseClosable(r)
    BY <1>1 DEF LeaseClosable
  <2> QED
    BY <1>1, <2>1, <2>2, ManifestSteps
<1>2. Inductive /\ [Next]_vars =>
        [\A r \in Runs : run[r].state = "held" /\ ~run[r].due
                           => manifest'[r].stage # "orphaned"]_vars
  BY <1>1
<1> QED
  BY <1>2, RecoveryInvariant, PTL DEF Spec, LiveLeaseKept

---------------------------------------------------------------------------
(* The queue implements FencedClaim                                        *)

\* A claim is a Take of the contract.
LEMMA ClaimIsTake ==
  ASSUME Inductive, NEW lane \in Lanes, NEW x \in Keyed,
         CanClaim(lane, x), ClaimWrites(lane, x), UNCHANGED reclaimed
  PROVE  x.run \in Runs /\ Contract!Take(x.run)
<1>1. x.run \in Runs
  BY DEF Keyed
<1>2. /\ job'[x.run].fence = job[x.run].fence + 1
      /\ job'[x.run].status = "claimed"
      /\ job[x.run].status # "succeeded"
      /\ \A r \in Runs : r # x.run => job'[r] = job[r]
  BY ClaimAgrees DEF Inductive
<1> QED
  BY <1>1, <1>2 DEF Contract!Take

\* A report is the newest holder's Fail or Finish, or it changes nothing.
LEMMA ReportIsOutcome ==
  ASSUME Inductive, NEW c \in Coordinators, RecordOutcome(c)
  PROVE  \/ UNCHANGED job
         \/ \E r \in Runs :
              /\ co[c].hold = [run |-> r, fence |-> job[r].fence]
              /\ co'[c].hold = NoHold
              /\ \A q \in Runs : q # r => job'[q] = job[q]
              /\ Contract!Fail(r) \/ Contract!Finish(r)
<1> DEFINE status == IF co[c].pc = "clean" THEN "succeeded" ELSE "failed"
<1>1. TypeOK /\ co[c] \in CoordinatorRecords
  BY DEF Inductive, TypeOK
<1>2. co[c].hold \in [run : Runs, fence : Nat]
  BY DEF RecordOutcome, Inductive, HoldAgrees, Busy
<1>3. PICK r \in Runs : r = co[c].hold.run
  BY <1>2
<1>4. SUFFICES ASSUME HoldsClaim(co[c].hold)
               PROVE  /\ co[c].hold = [run |-> r, fence |-> job[r].fence]
                      /\ co'[c].hold = NoHold
                      /\ \A q \in Runs : q # r => job'[q] = job[q]
                      /\ Contract!Fail(r) \/ Contract!Finish(r)
  BY DEF RecordOutcome
<1>5. job' = [job EXCEPT ![r] = Settled(r, status)]
  BY <1>3, <1>4 DEF RecordOutcome
<1>6. job[r].status = "claimed" /\ co[c].hold.fence = job[r].fence
  BY <1>3, <1>4 DEF HoldsClaim
<1>7. /\ job'[r].status = status /\ job'[r].fence = job[r].fence
      /\ \A q \in Runs : q # r => job'[q] = job[q]
  BY <1>1, <1>3, <1>5 DEF Settled, TypeOK, JobRecords
<1>8. Contract!Fail(r) \/ Contract!Finish(r)
  <2>1. CASE status = "succeeded"
    BY <1>6, <1>7, <2>1 DEF Contract!Finish
  <2>2. CASE status = "failed"
    BY <1>6, <1>7, <2>2 DEF Contract!Fail
  <2> QED
    BY <2>1, <2>2
<1>9. co'[c].hold = NoHold
  BY <1>1 DEF RecordOutcome, CoordinatorRecords, TypeOK
<1> QED
  BY <1>2, <1>3, <1>6, <1>7, <1>8, <1>9

\* Every other step keeps fences and the outcome of every job.
LEMMA OtherStepsStutter ==
  ASSUME Inductive, NEW r \in Runs,
         Execution(r) \/ DelayEnds(r) \/ ClaimOverruns(r)
  PROVE  /\ \A q \in Runs : job'[q].fence = job[q].fence
         /\ \A q \in Runs : (job'[q].status = "claimed") = (job[q].status = "claimed")
         /\ \A q \in Runs : (job'[q].status = "succeeded") = (job[q].status = "succeeded")
         /\ \A q \in Runs : (job'[q].status = "failed") = (job[q].status = "failed")
<1>1. TypeOK
  BY DEF Inductive
<1>2. CASE DelayEnds(r) \/ ClaimOverruns(r)
  <2>1. job' = [job EXCEPT ![r].waiting = FALSE]
    BY <1>2 DEF DelayEnds, ClaimOverruns
  <2> QED
    BY <1>1, <2>1 DEF TypeOK, JobRecords
<1>3. CASE Execution(r) /\ ~(CancelTask(r) /\ Active(r))
  <2>1. job' = job
    BY <1>3 DEF Execution, Start, Advance, Finalize, MovePhase, LeaseRunsOut,
                WorkerGivesUp, ReconcileLease, CancelTask
  <2> QED
    BY <2>1
<1>4. CASE CancelTask(r) /\ Active(r)
  <2> DEFINE row == [NoJob EXCEPT !.status = "pending", !.key = manifest[r].stamp]
  <2>1. job' = [job EXCEPT ![r] = row]
    BY <1>4 DEF CancelTask, CancelExecution
  <2>2. row.status = "pending" /\ row.fence = 0
    BY DEF NoJob
  <2>3. job[r] = NoJob
    BY <1>4 DEF Inductive, TablesAgree, Active, Working, Given
  <2>4. job[r].status = "none" /\ job[r].fence = 0
    BY <2>3 DEF NoJob
  <2> HIDE DEF row
  <2> QED
    BY <1>1, <2>1, <2>2, <2>4 DEF TypeOK
<1> QED
  BY <1>2, <1>3, <1>4

\* What a coordinator's step does to the jobs.
LEMMA CoordinatorSteps ==
  ASSUME Inductive, NEW c \in Coordinators, Progress(c) \/ Trouble(c)
  PROVE  \/ UNCHANGED job
         \/ \E lane \in Lanes, x \in Keyed :
              CanClaim(lane, x) /\ ClaimWrites(lane, x) /\ UNCHANGED reclaimed
         \/ RecordOutcome(c)
<1>1. ASSUME NEW x, NEW lane, ClaimGranted(c, lane, x) \/ ClaimFails(c, lane, x)
      PROVE  \/ UNCHANGED job
             \/ \E l \in Lanes, y \in Keyed :
                  CanClaim(l, y) /\ ClaimWrites(l, y) /\ UNCHANGED reclaimed
  <2>1. lane \in Lanes /\ x \in Keyed
    BY <1>1, NextIsCandidate DEF ClaimGranted, ClaimFails, Calls, Inductive
  <2> QED
    BY <1>1, <2>1 DEF ClaimGranted, ClaimFails
<1>2. ASSUME NEW x, NEW lane,
             SkipFresh(c, x) \/ ClaimNotDue(c, x) \/ ClaimRefused(c, lane, x)
      PROVE  UNCHANGED job
  BY <1>2 DEF SkipFresh, ClaimNotDue, ClaimRefused
<1>3. ASSUME \/ FetchPage(c) \/ ReleaseWorkspace(c) \/ EndCycle(c) \/ ReleaseFails(c)
             \/ OutcomeNotRecorded(c) \/ BudgetEnds(c) \/ Crash(c)
      PROVE  UNCHANGED job
  BY <1>3 DEF FetchPage, ReleaseWorkspace, EndCycle, ReleaseFails,
              OutcomeNotRecorded, BudgetEnds, Crash
<1> QED
  BY <1>1, <1>2, <1>3 DEF Progress, Trouble, HandleCandidate

\* A report counts only from the newest claim, and it is the holder's last word.
THEOREM OnlyNewestReport == Spec => OnlyNewestReports
<1>1. ASSUME Inductive, [Next]_vars, NEW r \in Runs,
             job[r].status = "claimed", job'[r].status \in {"failed", "succeeded"}
      PROVE  \E c \in Coordinators :
               /\ co[c].hold = [run |-> r, fence |-> job[r].fence]
               /\ co'[c].hold = NoHold
  <2>1. ASSUME NEW q \in Runs, Execution(q) \/ DelayEnds(q) \/ ClaimOverruns(q)
        PROVE  FALSE
    BY <1>1, <2>1, OtherStepsStutter
  <2>2. job' # job
    BY <1>1
  <2>3. PICK c \in Coordinators : Progress(c) \/ Trouble(c)
    BY <1>1, <2>1, <2>2 DEF Next, vars
  <2>4. ASSUME NEW lane \in Lanes, NEW x \in Keyed,
               CanClaim(lane, x), ClaimWrites(lane, x), UNCHANGED reclaimed
        PROVE  FALSE
    BY <1>1, <2>4, ClaimAgrees DEF Inductive
  <2>5. RecordOutcome(c)
    BY <1>1, <2>2, <2>3, <2>4, CoordinatorSteps
  <2>6. PICK q \in Runs :
          /\ co[c].hold = [run |-> q, fence |-> job[q].fence]
          /\ co'[c].hold = NoHold
          /\ q # r => job'[r] = job[r]
    BY <2>2, <2>5, <1>1, ReportIsOutcome
  <2> QED
    BY <1>1, <2>6
<1>2. Inductive /\ [Next]_vars =>
        [\A r \in Runs :
           job[r].status = "claimed" /\ job'[r].status \in {"failed", "succeeded"}
             => \E c \in Coordinators :
                  co[c].hold = [run |-> r, fence |-> job[r].fence]
                  /\ co'[c].hold = NoHold]_vars
  BY <1>1
<1> QED
  BY <1>2, RecoveryInvariant, PTL DEF Spec, OnlyNewestReports

\* The recovery queue implements FencedClaim: a claim is a Take, a report the
\* newest holder's Fail or Finish, and everything else leaves the contract's
\* state alone.
THEOREM QueueImplementsContract == Spec => ImplementsContract
<1>1. Init => Contract!Init
  BY DEF Init, Contract!Init, NoJob
<1>2. ASSUME Inductive, [Next]_vars PROVE [Contract!Next]_Contract!vars
  <2>1. CASE UNCHANGED job
    BY <2>1 DEF Contract!vars
  <2>2. ASSUME NEW r \in Runs, Execution(r) \/ DelayEnds(r) \/ ClaimOverruns(r)
        PROVE  UNCHANGED Contract!vars
    BY <1>2, <2>2, OtherStepsStutter DEF Contract!vars
  <2>3. ASSUME NEW lane \in Lanes, NEW x \in Keyed,
               CanClaim(lane, x), ClaimWrites(lane, x), UNCHANGED reclaimed
        PROVE  Contract!Next
    BY <1>2, <2>3, ClaimIsTake DEF Contract!Next
  <2>4. ASSUME NEW c \in Coordinators, RecordOutcome(c), ~UNCHANGED job
        PROVE  Contract!Next
    BY <1>2, <2>4, ReportIsOutcome DEF Contract!Next
  <2>5. ASSUME NEW c \in Coordinators, Progress(c) \/ Trouble(c)
        PROVE  [Contract!Next]_Contract!vars
    BY <1>2, <2>1, <2>3, <2>4, <2>5, CoordinatorSteps
  <2>6. CASE UNCHANGED vars
    BY <2>1, <2>6 DEF vars
  <2> QED
    BY <1>2, <2>2, <2>5, <2>6 DEF Next
<1> QED
  BY <1>1, <1>2, RecoveryInvariant, PTL DEF Spec, ImplementsContract, Contract!Spec

---------------------------------------------------------------------------
(* The watermark of a page                                                 *)

\* While nothing on the page was refused, the cursor has passed every fresh
\* row of the page but those that are still to be dealt with.
Passed(row) ==
  /\ \A x \in row.fresh : row.safe <= x.key
  /\ \A key \in row.scanned : key <= row.safe \/ \E x \in row.fresh : x.key = key
  /\ \A x \in row.fresh : x.key \in row.scanned
  /\ row.safe \in row.scanned \/ \A key \in row.scanned : \E x \in row.fresh : x.key = key
  /\ row.exhausted \/ row.scanned # {}

PagesAgree ==
  \A c \in Coordinators : co[c].pc # "idle" /\ ~co[c].blocked => Passed(co[c])

\* A new page has passed nothing.
LEMMA FetchedPagePassed ==
  ASSUME TypeOK, NEW c \in Coordinators, FetchPage(c)
  PROVE  \E row : co' = [co EXCEPT ![c] = row] /\ Passed(row)
<1>1. PICK fresh \in SUBSET Fresh(cursor[c]), retries \in SUBSET Runs,
          exhausted \in BOOLEAN :
        /\ co' = [co EXCEPT ![c] = PageRow(c, fresh, retries, exhausted)]
        /\ ~exhausted => fresh # {}
  BY PageFetched
<1> DEFINE row == PageRow(c, fresh, retries, exhausted)
<1>2. /\ row.fresh = Candidates(fresh) /\ row.safe = cursor[c]
      /\ row.scanned = {manifest[r].stamp : r \in fresh}
      /\ row.exhausted = exhausted
  BY DEF PageRow, Resting
<1>3. \A r \in fresh : r \in Runs /\ manifest[r].stamp > cursor[c]
  BY DEF Fresh
<1>4. cursor[c] \in Nat /\ \A r \in fresh : manifest[r].stamp \in Nat
  BY <1>3 DEF TypeOK
<1> HIDE DEF row
<1>5. \A x \in row.fresh : x.key \in row.scanned /\ row.safe <= x.key
  BY <1>2, <1>3, <1>4 DEF Candidates
<1>6. ASSUME NEW key \in row.scanned PROVE \E x \in row.fresh : x.key = key
  <2>1. PICK r \in fresh : key = manifest[r].stamp
    BY <1>2
  <2>2. [run |-> r, key |-> key] \in row.fresh
    BY <1>2, <2>1 DEF Candidates
  <2> QED
    BY <2>2
<1>7. row.exhausted \/ row.scanned # {}
  BY <1>1, <1>2
<1>8. Passed(row)
  BY <1>5, <1>6, <1>7 DEF Passed
<1> QED
  BY <1>1, <1>8 DEF row

\* Moving the cursor to the first of the rest keeps it behind the others.
LEMMA FirstIsPassed ==
  ASSUME NEW row \in CoordinatorRecords, NEW next \in CoordinatorRecords,
         NEW x \in row.fresh,
         Passed(row), \A y \in row.fresh : x.key <= y.key,
         next.fresh = row.fresh \ {x}, next.safe = x.key,
         next.scanned = row.scanned, next.exhausted = row.exhausted
  PROVE  Passed(next)
<1>1. /\ x.key \in Nat /\ row.safe \in Nat /\ row.scanned \subseteq Nat
      /\ \A y \in row.fresh : y.key \in Nat
  BY DEF CoordinatorRecords, Keyed
<1>2. x.key \in row.scanned /\ row.safe <= x.key
  BY DEF Passed
<1>3. \A key \in row.scanned : key <= x.key \/ \E y \in row.fresh \ {x} : y.key = key
  BY <1>1, <1>2 DEF Passed
<1> QED
  BY <1>1, <1>2, <1>3 DEF Passed

\* A step that only touches the retries of the page, or the claim in hand.
LEMMA SamePagePassed ==
  ASSUME NEW row, NEW next, Passed(row),
         next.fresh = row.fresh, next.safe = row.safe,
         next.scanned = row.scanned, next.exhausted = row.exhausted
  PROVE  Passed(next)
  BY DEF Passed

LEMMA PagesKept ==
  ASSUME TypeOK, TypeOK', PagesAgree, [Next]_vars
  PROVE  PagesAgree'
<1>1. SUFFICES ASSUME NEW c \in Coordinators, co'[c].pc # "idle", ~co'[c].blocked,
                      co'[c] # co[c]
               PROVE  Passed(co'[c])
  BY DEF PagesAgree
<1>2. co[c] \in CoordinatorRecords /\ co'[c] \in CoordinatorRecords
  BY DEF TypeOK
<1>3. Progress(c) \/ Trouble(c)
  <2>1. ASSUME NEW d \in Coordinators, Progress(d) \/ Trouble(d) PROVE d = c
    BY <1>1, <2>1 DEF Progress, Trouble, HandleCandidate, FetchPage, SkipFresh,
       ClaimNotDue, ClaimGranted, ClaimRefused, ClaimFails, ReleaseWorkspace,
       RecordOutcome, EndCycle, ReleaseFails, OutcomeNotRecorded, BudgetEnds,
       Crash, TypeOK
  <2>2. ASSUME NEW r \in Runs, Execution(r) \/ DelayEnds(r) \/ ClaimOverruns(r)
        PROVE  co' = co
    BY <2>2 DEF Execution, Start, Advance, Finalize, MovePhase, LeaseRunsOut,
       WorkerGivesUp, ReconcileLease, CancelTask, DelayEnds, ClaimOverruns
  <2> QED
    BY <1>1, <2>1, <2>2 DEF Next, vars
<1>4. CASE FetchPage(c)
  BY <1>4, FetchedPagePassed DEF TypeOK
<1>5. CASE EndCycle(c) \/ BudgetEnds(c) \/ Crash(c)
  <2>1. co'[c] = Resting
    BY <1>5 DEF EndCycle, BudgetEnds, Crash, TypeOK
  <2> QED
    BY <1>1, <2>1 DEF Resting
<1>6. CASE ReleaseWorkspace(c) \/ RecordOutcome(c) \/ ReleaseFails(c) \/ OutcomeNotRecorded(c)
  <2>1. co[c].pc # "idle"
    BY <1>6 DEF ReleaseWorkspace, RecordOutcome, ReleaseFails, OutcomeNotRecorded
  <2>2. /\ co'[c].fresh = co[c].fresh /\ co'[c].safe = co[c].safe
        /\ co'[c].scanned = co[c].scanned /\ co'[c].exhausted = co[c].exhausted
        /\ co'[c].blocked = co[c].blocked
    BY <1>2, <1>6 DEF ReleaseWorkspace, RecordOutcome, ReleaseFails,
       OutcomeNotRecorded, TypeOK, CoordinatorRecords
  <2> QED
    BY <1>1, <2>1, <2>2, SamePagePassed DEF PagesAgree
<1>7. ASSUME NEW x, NEW lane, IsNext(c, lane, x)
      PROVE  /\ lane \in Lanes /\ x \in Keyed /\ x \in co[c][lane] /\ co[c].pc = "page"
             /\ Past(c, lane, x) \in CoordinatorRecords
             /\ Past(c, lane, x).safe = co[c].safe
             /\ Past(c, lane, x).scanned = co[c].scanned
             /\ Past(c, lane, x).exhausted = co[c].exhausted
             /\ Past(c, lane, x).blocked = co[c].blocked
             /\ lane = "fresh" => Past(c, lane, x).fresh = co[c].fresh \ {x}
             /\ lane = "retry" => Past(c, lane, x).fresh = co[c].fresh
  <2>1. lane \in Lanes /\ x \in Keyed /\ x \in co[c][lane] /\ co[c].pc = "page"
    BY <1>7, NextIsCandidate
  <2> QED
    BY <2>1, PastIsRecord DEF OtherLane, Lanes
<1>8. ASSUME NEW x, SkipFresh(c, x) PROVE FALSE
  <2>1. co'[c] = Past(c, "fresh", x) /\ co[c].blocked
    BY <1>8 DEF SkipFresh, TypeOK
  <2>2. co'[c].blocked
    <3>1. IsNext(c, "fresh", x)
      BY <1>8 DEF SkipFresh
    <3>2. Past(c, "fresh", x).blocked = co[c].blocked
      BY <1>7, <3>1
    <3> QED
      BY <2>1, <3>2, Zenon
  <2> QED
    BY <1>1, <2>2
<1>9. ASSUME NEW x, ClaimNotDue(c, x) PROVE Passed(co'[c])
  <2>1. co'[c] = [Past(c, "fresh", x) EXCEPT !.safe = x.key] /\ ~co[c].blocked
    BY <1>9 DEF ClaimNotDue, Calls, TypeOK
  <2>2. /\ IsNext(c, "fresh", x)
        /\ \A y \in co[c].fresh : x.key <= y.key
    BY <1>9 DEF ClaimNotDue, Calls, IsNext
  <2>3. /\ co'[c].fresh = co[c].fresh \ {x} /\ co'[c].safe = x.key
        /\ co'[c].scanned = co[c].scanned /\ co'[c].exhausted = co[c].exhausted
    BY <1>7, <2>1, <2>2 DEF CoordinatorRecords
  <2> QED
    BY <1>2, <1>7, <2>1, <2>2, <2>3, FirstIsPassed DEF PagesAgree
<1>10. ASSUME NEW x, NEW lane, ClaimGranted(c, lane, x) PROVE Passed(co'[c])
  <2> DEFINE hold == [run |-> x.run, fence |-> Claimed(x.run, x.key).fence]
             safe == IF lane = "fresh" THEN x.key ELSE Past(c, lane, x).safe
  <2>1. /\ co'[c] = [Past(c, lane, x) EXCEPT !.pc = "claimed", !.hold = hold, !.safe = safe]
        /\ IsNext(c, lane, x) /\ (lane = "fresh" => ~co[c].blocked)
    BY <1>10 DEF ClaimGranted, Calls, TypeOK
  <2> HIDE DEF hold
  <2>2. /\ co'[c].fresh = Past(c, lane, x).fresh /\ co'[c].safe = safe
        /\ co'[c].scanned = co[c].scanned /\ co'[c].exhausted = co[c].exhausted
        /\ co'[c].blocked = co[c].blocked
    BY <1>7, <2>1 DEF CoordinatorRecords
  <2>3. Passed(co[c])
    BY <1>1, <1>2, <1>7, <2>1, <2>2 DEF PagesAgree, CoordinatorRecords
  <2>4. CASE lane = "fresh"
    <3>1. \A y \in co[c].fresh : x.key <= y.key
      BY <2>1, <2>4 DEF IsNext
    <3>2. /\ x \in co[c].fresh /\ co'[c].fresh = co[c].fresh \ {x}
          /\ co'[c].safe = x.key
      BY <1>7, <2>1, <2>2, <2>4
    <3> HIDE DEF safe
    <3> QED
      BY <1>2, <2>2, <2>3, <3>1, <3>2, FirstIsPassed
  <2>5. CASE lane = "retry"
    <3>1. co'[c].fresh = co[c].fresh /\ co'[c].safe = co[c].safe
      BY <1>7, <2>1, <2>2, <2>5
    <3> QED
      BY <2>2, <2>3, <3>1, SamePagePassed
  <2> QED
    BY <1>7, <2>1, <2>4, <2>5 DEF Lanes
<1>11. ASSUME NEW x, NEW lane, ClaimRefused(c, lane, x) \/ ClaimFails(c, lane, x)
       PROVE  Passed(co'[c])
  <2>1. /\ co'[c] = [Past(c, lane, x) EXCEPT !.blocked = BlockedBy(c, lane)]
        /\ IsNext(c, lane, x)
    BY <1>11 DEF ClaimRefused, ClaimFails, Calls, TypeOK
  <2>2. /\ co'[c].fresh = Past(c, lane, x).fresh /\ co'[c].safe = co[c].safe
        /\ co'[c].scanned = co[c].scanned /\ co'[c].exhausted = co[c].exhausted
        /\ co'[c].blocked = BlockedBy(c, lane)
    BY <1>7, <2>1 DEF CoordinatorRecords
  <2>3. lane = "retry" /\ ~co[c].blocked
    <3>1. ~BlockedBy(c, lane)
      BY <1>1, <2>2, Zenon
    <3>2. ~co[c].blocked /\ lane # "fresh"
      BY <3>1, Zenon DEF BlockedBy
    <3> QED
      BY <1>7, <2>1, <3>2 DEF Lanes
  <2>4. Passed(co[c]) /\ co'[c].fresh = co[c].fresh
    BY <1>7, <2>1, <2>2, <2>3 DEF PagesAgree
  <2> QED
    BY <2>2, <2>4, SamePagePassed
<1> QED
  BY <1>3, <1>4, <1>5, <1>6, <1>8, <1>9, <1>10, <1>11
     DEF Progress, Trouble, HandleCandidate

\* The page watermark check of reconcile never fires, whatever happens to the
\* rows of the page while it is worked through.
THEOREM WatermarksHold == Spec => []WatermarkHolds
<1>1. Init => PagesAgree
  BY DEF Init, PagesAgree, Resting
<1>2. Inductive /\ Inductive' /\ PagesAgree /\ [Next]_vars => PagesAgree'
  BY PagesKept DEF Inductive
<1>3. ASSUME PagesAgree, NEW c \in Coordinators, AtEnd(c) PROVE ~WatermarkError(c)
  <2>1. SUFFICES ASSUME ~co[c].blocked, ~co[c].exhausted PROVE AtWatermark(c)
    BY DEF WatermarkError
  <2>2. co[c].fresh = {} /\ Passed(co[c])
    BY <1>3, <2>1 DEF AtEnd, PagesAgree
  <2>3. co[c].scanned # {}
    BY <2>1, <2>2 DEF Passed
  <2> QED
    BY <2>2, <2>3 DEF Passed, AtWatermark
<1>4. PagesAgree => WatermarkHolds
  BY <1>3 DEF WatermarkHolds
<1> QED
  BY <1>1, <1>2, <1>4, RecoveryInvariant, PTL DEF Spec
=============================================================================
