---------------------- MODULE FactoryCapacity_proofs ------------------------
(***************************************************************************)
(* The capacity counters of FactoryControl count the allocations, and the   *)
(* ceilings bind, for every number of tasks, workers and repositories.      *)
(*                                                                         *)
(* The counters are only correct because a run is closed at most once: an   *)
(* action that gives capacity back does so for a run that holds it, which   *)
(* is what Inductive (FactoryControl_proofs) says of the runs.              *)
(***************************************************************************)
EXTENDS FactoryControl_proofs

CapacityRight == CapacityConsistent /\ CapacityCeilings

\* The sets that the counters count are finite.
LEMMA AllocationsFinite ==
  /\ \A role : IsFiniteSet(Allocated(role)) /\ IsFiniteSet(Allocated(role)')
  /\ \A p : IsFiniteSet(AllocatedReaders(p)) /\ IsFiniteSet(AllocatedReaders(p)')
<1>1. IsFiniteSet(Runs)
  <2>1. IsFiniteSet(Attempts)
    <3>1. Attempts = {1} \cup {2} \cup {3}
      BY DEF Attempts
    <3> QED
      BY <3>1, FS_Singleton, FS_Union
  <2> QED
    BY <2>1, SetsAssumption, FS_Product DEF Runs
<1>2. /\ \A role : Allocated(role) \in SUBSET Runs /\ Allocated(role)' \in SUBSET Runs
      /\ \A p : /\ AllocatedReaders(p) \in SUBSET Runs
                /\ AllocatedReaders(p)' \in SUBSET Runs
  BY DEF Allocated, AllocatedReaders
<1> QED
  BY <1>1, <1>2, FS_Subset

\* A step that opens and closes no run.
LEMMA CapacityUntouched ==
  ASSUME CapacityRight, UNCHANGED <<active, readersIn>>,
         \A r \in Runs : run'[r].alloc = run[r].alloc /\ run'[r].role = run[r].role
  PROVE  CapacityRight'
<1>1. \A role : Allocated(role)' = Allocated(role)
  BY DEF Allocated
<1>2. \A p : AllocatedReaders(p)' = AllocatedReaders(p)
  BY <1>1 DEF AllocatedReaders
<1> QED
  BY <1>1, <1>2 DEF CapacityRight, CapacityConsistent, CapacityCeilings

\* Closing a run that holds its allocation.
LEMMA CapacityReleased ==
  ASSUME TypeOK, CapacityRight, NEW r \in Runs, NEW state \in RunStates,
         run[r].alloc, CloseRun(r, state)
  PROVE  CapacityRight'
<1> DEFINE role == run[r].role
           p == RepoOfTask(r[1])
<1>1. /\ run[r] \in RunRecords /\ role \in Roles /\ p \in Repos
      /\ active \in [Roles -> Int] /\ readersIn \in [Repos -> Int]
  BY SetsAssumption, RunNames DEF TypeOK, RunRecords, RepoOfTask
<1>2. /\ run'[r] = Closed(run[r], state)
      /\ \A q \in Runs \ {r} : run'[q] = run[q]
  BY CloseRunRows
<1>3. run'[r].alloc = FALSE
  BY <1>1, <1>2 DEF Closed, RunRecords
<1>4. /\ active' = [active EXCEPT ![role] = @ - 1]
      /\ readersIn' = IF role = "reader"
                      THEN [readersIn EXCEPT ![p] = @ - 1] ELSE readersIn
  BY DEF CloseRun, CapacityRelease
<1>5. \A x \in Roles : Allocated(x)' = IF x = role THEN Allocated(x) \ {r}
                                                 ELSE Allocated(x)
  BY <1>2, <1>3 DEF Allocated
<1>6. \A x \in Repos :
        AllocatedReaders(x)' = IF role = "reader" /\ x = p
                               THEN AllocatedReaders(x) \ {r} ELSE AllocatedReaders(x)
  BY <1>2, <1>3 DEF AllocatedReaders, Allocated
<1>7. ASSUME NEW x \in Roles
      PROVE  /\ active'[x] = Cardinality(Allocated(x)')
             /\ Cardinality(Allocated(x)') <= Cardinality(Allocated(x))
             /\ Cardinality(Allocated(x)) \in Int /\ Cardinality(Allocated(x)') \in Int
  <2>1. IsFiniteSet(Allocated(x)) /\ Cardinality(Allocated(x)) \in Nat
    BY AllocationsFinite, FS_CardinalityType
  <2>2. active[x] = Cardinality(Allocated(x))
    BY DEF CapacityRight, CapacityConsistent
  <2>3. CASE x = role
    <3>1. r \in Allocated(x)
      BY <2>3 DEF Allocated
    <3>2. Cardinality(Allocated(x)') = Cardinality(Allocated(x)) - 1
      BY <1>5, <2>1, <2>3, <3>1, FS_RemoveElement
    <3> QED
      BY <1>1, <1>4, <2>1, <2>2, <2>3, <3>2
  <2>4. CASE x # role
    BY <1>1, <1>4, <1>5, <2>1, <2>2, <2>4
  <2> QED
    BY <2>3, <2>4
<1>8. ASSUME NEW x \in Repos
      PROVE  /\ readersIn'[x] = Cardinality(AllocatedReaders(x)')
             /\ Cardinality(AllocatedReaders(x)') <= Cardinality(AllocatedReaders(x))
             /\ Cardinality(AllocatedReaders(x)) \in Int
             /\ Cardinality(AllocatedReaders(x)') \in Int
  <2>1. IsFiniteSet(AllocatedReaders(x)) /\ Cardinality(AllocatedReaders(x)) \in Nat
    BY AllocationsFinite, FS_CardinalityType
  <2>2. readersIn[x] = Cardinality(AllocatedReaders(x))
    BY DEF CapacityRight, CapacityConsistent
  <2>3. CASE role = "reader" /\ x = p
    <3>1. r \in AllocatedReaders(x)
      BY <2>3 DEF AllocatedReaders, Allocated
    <3>2. Cardinality(AllocatedReaders(x)') = Cardinality(AllocatedReaders(x)) - 1
      BY <1>6, <2>1, <2>3, <3>1, FS_RemoveElement
    <3> QED
      BY <1>1, <1>4, <2>1, <2>2, <2>3, <3>2
  <2>4. CASE ~(role = "reader" /\ x = p)
    BY <1>1, <1>4, <1>6, <2>1, <2>2, <2>4
  <2> QED
    BY <2>3, <2>4
<1>9. CapacityConsistent'
  BY <1>7, <1>8 DEF CapacityConsistent
<1>10. CapacityCeilings'
  BY <1>7, <1>8, CeilingsAssumption DEF CapacityRight, CapacityCeilings, Roles
<1> QED
  BY <1>9, <1>10 DEF CapacityRight

\* A claim opens a run only below the ceilings it is counted against.
LEMMA CapacityClaimed ==
  ASSUME Inductive, CapacityRight,
         NEW w \in Workers, NEW t \in Tasks, NEW length \in LeaseLengths,
         ClaimGrant(w, t, length)
  PROVE  CapacityRight'
<1> DEFINE role == claiming[w].role
           p == RepoOfTask(t)
           a == attempts[t] + 1
           r == <<t, a>>
<1>1. TypeOK
  BY DEF Inductive
<1>2. claiming[w] \in Requests /\ role \in Roles
  <2>1. claiming[w] \in Requests
    BY <1>1 DEF TypeOK, ClaimGrant
  <2> QED
    BY <2>1 DEF Requests
<1>3. p \in Repos /\ active \in [Roles -> Int] /\ readersIn \in [Repos -> Int]
  BY <1>1, SetsAssumption DEF TypeOK, RepoOfTask
<1>4. /\ \A b \in Attempts : ~run[<<t, b>>].live
      /\ a \in Attempts
  BY ClaimedTask DEF ClaimGrant, Claimable
<1>5. r \in Runs /\ ~run[r].alloc
  <2>1. RunAgrees(t, a) /\ r \in Runs
    BY <1>4, RunNames DEF Inductive, RowsAgree
  <2> QED
    BY <1>4, <2>1 DEF RunAgrees
<1>6. /\ run' = [run EXCEPT ![r] = NewRun(t, role, length)]
      /\ active' = [active EXCEPT ![role] = @ + 1]
      /\ readersIn' = IF role = "reader"
                      THEN [readersIn EXCEPT ![p] = @ + 1] ELSE readersIn
  BY DEF ClaimGrant, CapacityAllocate
<1>7. IF role = "writer"
      THEN active["writer"] < GlobalWriters
      ELSE active["reader"] < GlobalReaders /\ readersIn[p] < RepoReaders
  BY DEF ClaimGrant, Claimable, EligibleRepos
<1>8. /\ run'[r].alloc /\ run'[r].role = role
      /\ \A q \in Runs \ {r} : run'[q] = run[q]
      /\ r[1] = t
  BY <1>1, <1>2, <1>5, <1>6, NewRunRow DEF TypeOK
<1> HIDE DEF role, r, p
<1>9. \A x \in Roles : Allocated(x)' = IF x = role THEN Allocated(x) \cup {r}
                                                  ELSE Allocated(x)
  BY <1>5, <1>8 DEF Allocated
<1>10. \A x \in Repos :
         AllocatedReaders(x)' = IF role = "reader" /\ x = p
                                THEN AllocatedReaders(x) \cup {r}
                                ELSE AllocatedReaders(x)
  BY <1>5, <1>8 DEF AllocatedReaders, Allocated, p
<1>11. ASSUME NEW x \in Roles
       PROVE  /\ Cardinality(Allocated(x)) = active[x]
              /\ active'[x] = Cardinality(Allocated(x)')
              /\ active'[x] = IF x = role THEN active[x] + 1 ELSE active[x]
  <2>1. IsFiniteSet(Allocated(x))
    BY AllocationsFinite
  <2>2. active[x] = Cardinality(Allocated(x))
    BY DEF CapacityRight, CapacityConsistent
  <2>3. CASE x = role
    <3>1. r \notin Allocated(x)
      BY <1>5 DEF Allocated
    <3>2. Cardinality(Allocated(x)') = Cardinality(Allocated(x)) + 1
      BY <1>9, <2>1, <2>3, <3>1, FS_AddElement
    <3> QED
      BY <1>3, <1>6, <2>2, <2>3, <3>2
  <2>4. CASE x # role
    BY <1>3, <1>6, <1>9, <2>2, <2>4
  <2> QED
    BY <2>3, <2>4
<1>12. ASSUME NEW x \in Repos
       PROVE  /\ Cardinality(AllocatedReaders(x)) = readersIn[x]
              /\ readersIn'[x] = Cardinality(AllocatedReaders(x)')
              /\ readersIn'[x] = IF role = "reader" /\ x = p
                                 THEN readersIn[x] + 1 ELSE readersIn[x]
  <2>1. IsFiniteSet(AllocatedReaders(x))
    BY AllocationsFinite
  <2>2. readersIn[x] = Cardinality(AllocatedReaders(x))
    BY DEF CapacityRight, CapacityConsistent
  <2>3. CASE role = "reader" /\ x = p
    <3>1. r \notin AllocatedReaders(x)
      BY <1>5 DEF AllocatedReaders, Allocated
    <3>2. Cardinality(AllocatedReaders(x)') = Cardinality(AllocatedReaders(x)) + 1
      BY <1>10, <2>1, <2>3, <3>1, FS_AddElement
    <3> QED
      BY <1>3, <1>6, <2>2, <2>3, <3>2
  <2>4. CASE ~(role = "reader" /\ x = p)
    BY <1>3, <1>6, <1>10, <2>2, <2>4
  <2> QED
    BY <2>3, <2>4
<1>13. CapacityConsistent'
  BY <1>11, <1>12 DEF CapacityConsistent
<1>14. CapacityCeilings'
  <2>1. "reader" \in Roles /\ "writer" \in Roles /\ role \in {"reader", "writer"}
    BY <1>2 DEF Roles
  <2>2. /\ active["reader"] <= GlobalReaders /\ active["writer"] <= GlobalWriters
        /\ \A x \in Repos : readersIn[x] <= RepoReaders
    BY <1>11, <1>12, <2>1 DEF CapacityRight, CapacityCeilings
  <2>3. active'["reader"] <= GlobalReaders /\ active'["writer"] <= GlobalWriters
    BY <1>3, <1>7, <1>11, <2>1, <2>2, CeilingsAssumption
  <2>4. \A x \in Repos : readersIn'[x] <= RepoReaders
    BY <1>3, <1>7, <1>12, <2>1, <2>2, CeilingsAssumption
  <2> QED
    BY <1>11, <1>12, <2>1, <2>3, <2>4 DEF CapacityCeilings
<1> QED
  BY <1>13, <1>14 DEF CapacityRight

\* Cancel and supersede give back the capacity of the lease they end.
LEMMA CapacityTerminalized ==
  ASSUME Inductive, CapacityRight, NEW t \in Tasks, CloseActiveLease(t)
  PROVE  CapacityRight'
<1>1. TypeOK /\ RowsAgree(t)
  BY DEF Inductive
<1>2. CASE \E a \in Attempts : task[t].cur = a /\ run[<<t, a>>].live
  <2> DEFINE r == <<t, task[t].cur>>
  <2>1. task[t].cur \in Attempts /\ run[r].live /\ r \in Runs
    BY <1>2, RunNames
  <2>2. run[r].alloc
    BY <1>1, <2>1 DEF RowsAgree, RunAgrees
  <2>3. CloseRun(r, "released") /\ "released" \in RunStates
    BY <1>2 DEF CloseActiveLease, RunStates
  <2> QED
    BY <1>1, <2>1, <2>2, <2>3, CapacityReleased
<1>3. CASE ~\E a \in Attempts : task[t].cur = a /\ run[<<t, a>>].live
  <2>1. UNCHANGED <<run, active, readersIn>>
    BY <1>3 DEF CloseActiveLease
  <2> QED
    BY <2>1, CapacityUntouched
<1> QED
  BY <1>2, <1>3

\* A worker command that does not end the lease changes neither the
\* allocation nor the role of a run.
LEMMA CapacityWhileLeased ==
  ASSUME Inductive, CapacityRight, NEW r \in Runs,
         \/ Heartbeat(r)
         \/ \E cost \in Costs : ReserveBudget(r, cost)
         \/ \E call \in Calls, cost \in Costs : ObserveUsage(r, call, cost)
  PROVE  CapacityRight'
<1>1. TypeOK /\ run[r] \in RunRecords
  BY DEF Inductive, TypeOK
<1>2. UNCHANGED <<active, readersIn>>
  BY DEF Heartbeat, ReserveBudget, ObserveUsage
<1>3. \A q \in Runs : run'[q].alloc = run[q].alloc /\ run'[q].role = run[q].role
  <2>1. CASE Heartbeat(r)
    <3>1. PICK e : run' = [run EXCEPT ![r].expires = e]
      BY <2>1 DEF Heartbeat
    <3> QED
      BY <1>1, <3>1 DEF TypeOK, RunRecords
  <2>2. CASE \E cost \in Costs : ReserveBudget(r, cost)
    <3>1. PICK cost \in Costs :
            run' = [run EXCEPT ![r].openCount = @ + 1, ![r].openCost = @ + cost]
      BY <2>2 DEF ReserveBudget
    <3> QED
      BY <1>1, <3>1 DEF TypeOK, RunRecords
  <2>3. CASE \E call \in Calls, cost \in Costs : ObserveUsage(r, call, cost)
    <3>1. PICK u : run' = [run EXCEPT ![r] =
                             [WithoutReservations(run[r]) EXCEPT !.usage = u]]
      <4>1. PICK call \in Calls, cost \in Costs : ObserveUsage(r, call, cost)
        BY <2>3
      <4>2. run' = [run EXCEPT ![r] =
                     [WithoutReservations(run[r]) EXCEPT
                        !.usage = IF task[r[1]].observed + cost <= CostLimit[r[1]]
                                  THEN @ \cup {call} ELSE @]]
        BY <4>1 DEF ObserveUsage
      <4> QED
        BY <4>2
    <3> QED
      BY <1>1, <3>1 DEF TypeOK, RunRecords, WithoutReservations
  <2> QED
    BY <2>1, <2>2, <2>3
<1> QED
  BY <1>2, <1>3, CapacityUntouched

LEMMA CapacityStep ==
  ASSUME Inductive, CapacityRight, [Next]_vars
  PROVE  CapacityRight'
<1>1. TypeOK
  BY DEF Inductive
<1>2. ASSUME NEW t \in Tasks, Intake(t) PROVE CapacityRight'
  <2>1. CASE IntakeFresh(t)
    BY <2>1, CapacityUntouched DEF IntakeFresh
  <2>2. CASE \E old \in Tasks : IntakeSupersede(t, old)
    BY <2>2, CapacityTerminalized DEF IntakeSupersede
  <2> QED
    BY <1>2, <2>1, <2>2 DEF Intake
<1>3. ASSUME NEW t \in Tasks, Cancel(t) PROVE CapacityRight'
  BY <1>3, CapacityTerminalized DEF Cancel
<1>4. ASSUME NEW w \in Workers, Claim(w) PROVE CapacityRight'
  <2>1. CASE \E t \in Tasks, length \in LeaseLengths : ClaimGrant(w, t, length)
    BY <2>1, CapacityClaimed
  <2>2. CASE (\E request \in Requests : ClaimBegin(w, request)) \/ ClaimEmpty(w)
    BY <2>2, CapacityUntouched DEF ClaimBegin, ClaimEmpty
  <2> QED
    BY <1>4, <2>1, <2>2 DEF Claim
<1>5. ASSUME NEW r \in Runs, NEW state \in RunStates, HoldsLease(r),
             CloseRun(r, state)
      PROVE  CapacityRight'
  BY <1>1, <1>5, CapacityReleased DEF HoldsLease
<1>6. ASSUME NEW r \in Runs, WorkerCommand(r) PROVE CapacityRight'
  <2>1. CASE \/ Heartbeat(r)
             \/ \E cost \in Costs : ReserveBudget(r, cost)
             \/ \E call \in Calls, cost \in Costs : ObserveUsage(r, call, cost)
    BY <2>1, CapacityWhileLeased
  <2>2. CASE TransitionPhase(r) \/ ObserveUnpriced(r)
    BY <2>2, CapacityUntouched DEF TransitionPhase, ObserveUnpriced
  <2>3. CASE \E class \in FailureClasses : ReleaseFailure(r, class)
    BY <2>3, <1>5 DEF ReleaseFailure, LockGrant, RunStates
  <2>4. CASE ReleaseCompleted(r)
    BY <2>4, <1>5 DEF ReleaseCompleted, LockGrant, RunStates
  <2> QED
    BY <1>6, <2>1, <2>2, <2>3, <2>4 DEF WorkerCommand
<1>7. ASSUME ReconcileCommit PROVE CapacityRight'
  <2>1. CASE \E r \in Runs : ReconcileRun(r)
    BY <2>1, <1>5 DEF ReconcileRun, RunStates
  <2>2. CASE \E t \in Tasks : ReconcileTask(t)
    BY <2>2, CapacityUntouched DEF ReconcileTask
  <2> QED
    BY <1>7, <2>1, <2>2 DEF ReconcileCommit
<1>8. ASSUME \/ ReconcileSelect \/ ReconcileSkip \/ ReconcileAbort
             \/ SetKill \/ Tick \/ UNCHANGED vars
      PROVE  CapacityRight'
  BY <1>8, CapacityUntouched
  DEF ReconcileSelect, ReconcileSkip, ReconcileAbort, SetKill, Tick, vars
<1> QED
  BY <1>2, <1>3, <1>4, <1>6, <1>7, <1>8 DEF Next

\* Before the first intake nothing is allocated and every counter is zero.
LEMMA CapacityInit == Init => CapacityRight
<1> SUFFICES ASSUME Init PROVE CapacityRight
  OBVIOUS
<1>1. \A r \in Runs : ~run[r].alloc
  BY DEF Init, AbsentRun
<1>2. \A role : Allocated(role) = {}
  BY <1>1 DEF Allocated
<1>3. \A p : AllocatedReaders(p) = {}
  BY <1>2 DEF AllocatedReaders
<1>4. Cardinality({}) = 0
  BY FS_EmptySet
<1>5. CapacityConsistent
  BY <1>2, <1>3, <1>4 DEF Init, CapacityConsistent
<1>6. CapacityCeilings
  <2>1. 0 <= GlobalReaders /\ 0 <= GlobalWriters /\ 0 <= RepoReaders
    BY CeilingsAssumption
  <2> QED
    BY <1>2, <1>3, <1>4, <2>1 DEF CapacityCeilings
<1> QED
  BY <1>5, <1>6 DEF CapacityRight

\* Counters and ceilings are right in every reachable state.
THEOREM CapacityInvariant == Spec => []CapacityRight
<1>1. Init => Inductive /\ CapacityRight
  BY InitInductive, CapacityInit
<1>2. Inductive /\ CapacityRight /\ [Next]_vars => Inductive' /\ CapacityRight'
  BY StepInductive, CapacityStep
<1> QED
  BY <1>1, <1>2, PTL DEF Spec

\* Each capacity counter equals the number of unreleased allocations it
\* stands for: no way of ending a lease leaks capacity or gives it back twice.
THEOREM CountersConsistent == Spec => []CapacityConsistent
<1>1. CapacityRight => CapacityConsistent
  BY DEF CapacityRight
<1> QED
  BY <1>1, CapacityInvariant, PTL

\* The number of live runs never exceeds the ceiling of writers, of readers,
\* or of the readers in one repository.
THEOREM CeilingsHold == Spec => []CapacityCeilings
<1>1. CapacityRight => CapacityCeilings
  BY DEF CapacityRight
<1> QED
  BY <1>1, CapacityInvariant, PTL

\* Counters and ceilings together, as the claim uses them.
THEOREM CapacityIsSound == Spec => []CapacityHolds
  BY CountersConsistent, CeilingsHold, PTL DEF CapacityHolds
=============================================================================
