------------------------- MODULE FactoryTasks_proofs ------------------------
(***************************************************************************)
(* What a task, a source and an operator may count on, for every value of   *)
(* the constants: a task put back to retry can be claimed, its accounts are *)
(* sound, its quarantine is permanent, one task of a source is open, the    *)
(* store implements LeaseContract, and a kill switch stops the claims that  *)
(* begin after it.                                                          *)
(*                                                                         *)
(* Seen from one task, the actions of FactoryControl are of six kinds       *)
(* (TaskSteps). The invariants of a task and the steps of the contract are  *)
(* proved from the kinds.                                                   *)
(***************************************************************************)
EXTENDS FactoryCapacity_proofs, MCKillSwitch

Stopped == {"superseded", "cancelled", "dead", "needs_human"}

RunsKept(t) == \A a \in Attempts : run'[<<t, a>>] = run[<<t, a>>]

Kept(t) ==
  /\ task'[t] = task[t]
  /\ RunsKept(t)
  /\ attempts'[t] = attempts[t]
  /\ events'[t] = events[t]

Arrives(t) ==
  /\ ~Exists(t)
  /\ task'[t] = NewTask(t)
  /\ RunsKept(t)
  /\ attempts'[t] = attempts[t]

\* the outcome of a released run of a task that was not completed
Uncompleted == RunStates \ {"absent", "completed"}

\* the task leaves its lease or the queue, with the quarantine its accounts ask
Stops(t) ==
  /\ Exists(t)
  /\ task[t].state \notin Terminal
  /\ \/ task'[t].state \in Stopped
     \/ task'[t].state = "retry" /\ ~Unsettled(t) /\ events[t] < EventLimit[t]
  /\ task'[t].blocked = Unsettled(t)
  /\ task'[t].reserved = task[t].reserved
  /\ task'[t].gen = task[t].gen
  /\ \A a \in Attempts :
       \/ run'[<<t, a>>] = run[<<t, a>>]
       \/ \E state \in Uncompleted : run'[<<t, a>>] = Closed(run[<<t, a>>], state)
  /\ attempts'[t] = attempts[t]
  /\ events'[t] = events[t]

Starts(t) ==
  /\ task[t].state \in Leasable
  /\ ~Unsettled(t)
  /\ lastFence'[t] = lastFence[t] + 1
  /\ task'[t].state = "leased"
  /\ task'[t].blocked = task[t].blocked
  /\ task'[t].gen = task[t].gen
  /\ \A a \in Attempts :
       \/ run'[<<t, a>>] = run[<<t, a>>]
       \/ run'[<<t, a>>].state = "leased"

\* what a command changes of a run is not its lease
SameLease(r) ==
  /\ run'[r].state = run[r].state
  /\ run'[r].live = run[r].live
  /\ run'[r].role = run[r].role
  /\ run'[r].fence = run[r].fence

Works(t) ==
  /\ task[t].state \in InLease
  /\ task'[t].state \in InLease
  /\ task[t].blocked => task'[t].blocked
  /\ task'[t].gen = task[t].gen
  /\ \A a \in Attempts : SameLease(<<t, a>>)
  /\ attempts'[t] = attempts[t]

Completes(t) ==
  /\ task[t].state \in InLease
  /\ ~Unsettled(t)
  /\ task'[t].state = "ready_for_human"
  /\ task'[t].blocked = task[t].blocked
  /\ task'[t].reserved = task[t].reserved
  /\ task'[t].gen = task[t].gen
  /\ attempts[t] \in Attempts
  /\ run[<<t, attempts[t]>>].usage # {}
  /\ run'[<<t, attempts[t]>>] = Closed(run[<<t, attempts[t]>>], "completed")
  /\ \A a \in Attempts \ {attempts[t]} : run'[<<t, a>>] = run[<<t, a>>]
  /\ attempts'[t] = attempts[t]

\* untouched, or not there before
Settled(t) == Kept(t) \/ Arrives(t)

TaskStep(t) ==
  Kept(t) \/ Arrives(t) \/ Stops(t) \/ Starts(t) \/ Works(t) \/ Completes(t)

---------------------------------------------------------------------------
(* Every step, seen from one task                                          *)

\* The columns of a terminalized task that its kinds of steps speak of.
LEMMA TerminalTaskColumns ==
  ASSUME TypeOK, NEW t \in Tasks, NEW target
  PROVE  /\ TerminalTask(t, target).state = target
         /\ TerminalTask(t, target).blocked = Unsettled(t)
         /\ TerminalTask(t, target).reserved = task[t].reserved
         /\ TerminalTask(t, target).gen = task[t].gen
<1>1. task[t] \in TaskRecords
  BY DEF TypeOK
<1> QED
  BY <1>1 DEF TerminalTask, TaskRecords

\* An intake that supersedes nothing.
LEMMA IntakeFreshSteps ==
  ASSUME Inductive, NEW t \in Tasks, NEW u \in Tasks, IntakeFresh(u)
  PROVE  Settled(t)
<1>1. TypeOK
  BY DEF Inductive
<1>2. CASE t = u
  BY <1>1, <1>2 DEF IntakeFresh, CanInsert, TypeOK, Settled, Arrives, RunsKept
<1>3. CASE t # u
  BY <1>1, <1>3 DEF IntakeFresh, TypeOK, Settled, Kept, RunsKept
<1> QED
  BY <1>2, <1>3

\* One that does, seen from the task that arrives, the old one, any other.
LEMMA IntakeSupersedeSteps ==
  ASSUME Inductive, NEW t \in Tasks, NEW u \in Tasks, NEW old \in Tasks,
         IntakeSupersede(u, old)
  PROVE  /\ t # old => Settled(t)
         /\ t = old => Stops(t)
<1>1. TypeOK
  BY DEF Inductive
<1>2. /\ ~Exists(u) /\ Exists(old) /\ task[old].state \notin Terminal
      /\ old # u
  BY <1>1 DEF IntakeSupersede, CanInsert, OpenTasks, SameSource
<1>3. /\ task'[u] = NewTask(u)
      /\ task'[old] = TerminalTask(old, "superseded")
      /\ \A v \in Tasks \ {u, old} : task'[v] = task[v]
      /\ attempts' = attempts
      /\ \A v \in Tasks \ {u} : events'[v] = events[v]
  BY <1>1, <1>2 DEF IntakeSupersede, TypeOK
<1>4. \A v \in Tasks \ {old} : RunsKept(v)
  BY ActiveLeaseCloses DEF IntakeSupersede, RunsKept
<1>5. CASE t = u
  BY <1>2, <1>3, <1>4, <1>5 DEF Settled, Arrives
<1>6. CASE t = old
  <2>1. \A a \in Attempts :
          \/ run'[<<t, a>>] = run[<<t, a>>]
          \/ run'[<<t, a>>] = Closed(run[<<t, a>>], "released")
    BY <1>6, ActiveLeaseCloses DEF IntakeSupersede
  <2>2. /\ task'[t].state = "superseded"
        /\ task'[t].blocked = Unsettled(t)
        /\ task'[t].reserved = task[t].reserved
        /\ task'[t].gen = task[t].gen
    BY <1>1, <1>3, <1>6, TerminalTaskColumns
  <2>3. "released" \in Uncompleted /\ "superseded" \in Stopped
    BY DEF Uncompleted, RunStates, Stopped
  <2> QED
    BY <1>2, <1>3, <1>6, <2>1, <2>2, <2>3 DEF Stops
<1>7. CASE t \notin {u, old}
  BY <1>3, <1>4, <1>7 DEF Settled, Kept
<1> QED
  BY <1>2, <1>5, <1>6, <1>7

\* Cancel closes the lease of the task, if it has one.
LEMMA CancelSteps ==
  ASSUME Inductive, NEW t \in Tasks, NEW u \in Tasks, Cancel(u)
  PROVE  /\ t # u => Kept(t)
         /\ t = u => Stops(t)
<1>1. TypeOK
  BY DEF Inductive
<1>2. CASE t # u
  <2>1. RunsKept(t)
    BY <1>2, ActiveLeaseCloses DEF Cancel, RunsKept
  <2> QED
    BY <1>1, <1>2, <2>1 DEF Cancel, TypeOK, Kept
<1>3. CASE t = u
  <2>1. \A a \in Attempts :
          \/ run'[<<t, a>>] = run[<<t, a>>]
          \/ run'[<<t, a>>] = Closed(run[<<t, a>>], "released")
    BY <1>3, ActiveLeaseCloses DEF Cancel
  <2>2. /\ task'[t].state = "cancelled"
        /\ task'[t].blocked = Unsettled(t)
        /\ task'[t].reserved = task[t].reserved
        /\ task'[t].gen = task[t].gen
    <3>1. task'[t] = TerminalTask(t, "cancelled")
      BY <1>1, <1>3 DEF Cancel, TypeOK
    <3> QED
      BY <1>1, <3>1, TerminalTaskColumns
  <2>3. "released" \in Uncompleted /\ "cancelled" \in Stopped
    BY DEF Uncompleted, RunStates, Stopped
  <2> QED
    BY <1>3, <2>1, <2>2, <2>3 DEF Cancel, Stops
<1> QED
  BY <1>2, <1>3

\* Only the grant of a claim touches a task.
LEMMA ClaimGrantSteps ==
  ASSUME Inductive, NEW t \in Tasks, NEW w \in Workers, NEW u \in Tasks,
         NEW length \in LeaseLengths, ClaimGrant(w, u, length)
  PROVE  /\ t # u => Kept(t)
         /\ t = u => Starts(t)
<1> DEFINE a == attempts[u] + 1
<1>1. TypeOK
  BY DEF Inductive
<1>2. /\ task[u].state \in Leasable /\ ~Unsettled(u)
      /\ claiming[w] \in Requests
  BY <1>1 DEF ClaimGrant, Claimable, TypeOK
<1>3. a \in Attempts
  BY <1>2, ClaimedTask
<1>4. CASE t # u
  <2>1. RunsKept(t)
    BY <1>1, <1>3, <1>4, RunNames DEF ClaimGrant, TypeOK, RunsKept
  <2> QED
    BY <1>1, <1>4, <2>1 DEF ClaimGrant, TypeOK, Kept
<1>5. CASE t = u
  <2>1. claiming[w].role \in Roles
    BY <1>2 DEF Requests
  <2>2. NewRun(u, claiming[w].role, length).state = "leased"
    BY <1>1, <2>1, NewRunRow
  <2>3. \A b \in Attempts :
          \/ run'[<<t, b>>] = run[<<t, b>>]
          \/ run'[<<t, b>>].state = "leased"
    BY <1>1, <1>3, <1>5, <2>2, RunNames DEF ClaimGrant, TypeOK
  <2>4. task'[t] = [task[t] EXCEPT !.state = "leased", !.cur = a,
                                   !.curFence = lastFence[t] + 1]
    BY <1>1, <1>5 DEF ClaimGrant, TypeOK
  <2>5. /\ task'[t].state = "leased"
        /\ task'[t].blocked = task[t].blocked
        /\ task'[t].gen = task[t].gen
    BY <1>1, <2>4 DEF TypeOK, TaskRecords
  <2>6. lastFence'[t] = lastFence[t] + 1
    BY <1>1, <1>5 DEF ClaimGrant, TypeOK
  <2> QED
    BY <1>2, <1>5, <2>3, <2>5, <2>6 DEF Starts
<1> QED
  BY <1>4, <1>5

\* A release, seen from the task that is released.
LEMMA ReleaseSteps ==
  ASSUME Inductive, NEW r \in Runs, HoldsLease(r),
         NEW state \in Uncompleted, CloseRun(r, state),
         NEW target \in Stopped \cup {"retry"},
         target = "retry" => ~Unsettled(r[1]) /\ events[r[1]] < EventLimit[r[1]],
         NEW row \in TaskRecords, task' = [task EXCEPT ![r[1]] = row],
         row.state = target, row.blocked = Unsettled(r[1]),
         row.reserved = task[r[1]].reserved, row.gen = task[r[1]].gen,
         attempts' = attempts, events' = events,
         NEW t \in Tasks
  PROVE  /\ t # r[1] => Kept(t)
         /\ t = r[1] => Stops(t)
<1>1. TypeOK /\ r[1] \in Tasks /\ r = <<r[1], r[2]>> /\ state \in RunStates
  BY RunNames DEF Inductive, Uncompleted
<1>2. run'[r] = Closed(run[r], state) /\ \A q \in Runs \ {r} : run'[q] = run[q]
  BY <1>1, CloseRunRows
<1>3. CASE t # r[1]
  <2>1. RunsKept(t)
    BY <1>1, <1>2, <1>3, RunNames DEF RunsKept
  <2> QED
    BY <1>1, <1>3, <2>1 DEF TypeOK, Kept
<1>4. CASE t = r[1]
  <2>1. \A a \in Attempts :
          \/ run'[<<t, a>>] = run[<<t, a>>]
          \/ run'[<<t, a>>] = Closed(run[<<t, a>>], state)
    BY <1>1, <1>2, <1>4, RunNames
  <2>2. task'[t] = row
    BY <1>1, <1>4 DEF TypeOK
  <2>3. Exists(t) /\ task[t].state \notin Terminal
    BY <1>4 DEF HoldsLease, Exists, InLease, Terminal
  <2> QED
    BY <1>4, <2>1, <2>2, <2>3 DEF Stops
<1> QED
  BY <1>3, <1>4

\* release of a failed lease.
LEMMA ReleaseFailureSteps ==
  ASSUME Inductive, NEW r \in Runs, NEW class \in FailureClasses,
         ReleaseFailure(r, class), NEW t \in Tasks
  PROVE  /\ t # r[1] => Kept(t)
         /\ t = r[1] => Stops(t)
<1> DEFINE u == r[1]
           target == FailureTarget(r, class)
           blocked == Unsettled(u)
           row == [task[u] EXCEPT !.state = target, !.cur = 0, !.curFence = 0,
                                  !.blocked = blocked]
<1>1. HoldsLease(r) /\ u \in Tasks /\ task[u] \in TaskRecords
  BY RunNames DEF Inductive, TypeOK, ReleaseFailure, LockGrant
<1>2. /\ target \in Stopped \cup {"retry"}
      /\ target = "retry" => ~Unsettled(u) /\ events[u] < EventLimit[u]
  BY DEF FailureTarget, Stopped
<1>3. blocked \in BOOLEAN
  BY <1>1 DEF Unsettled, TaskRecords
<1>4. task' = [task EXCEPT ![u] = row]
  BY DEF ReleaseFailure, Released
<1>5. blocked = Unsettled(u) /\ target \in States
  BY <1>2 DEF Stopped, States, Leasable, Terminal
<1> HIDE DEF target, blocked
<1>6. /\ row \in TaskRecords /\ row.state = target /\ row.blocked = blocked
      /\ row.reserved = task[u].reserved /\ row.gen = task[u].gen
  BY <1>1, <1>3, <1>5 DEF TaskRecords
<1>7. /\ "failed" \in Uncompleted /\ CloseRun(r, "failed")
      /\ attempts' = attempts /\ events' = events
  BY DEF ReleaseFailure, Uncompleted, RunStates
<1> HIDE DEF row
<1> QED
  BY <1>1, <1>2, <1>4, <1>5, <1>6, <1>7, ReleaseSteps

\* reconcile of an expired run.
LEMMA ReconcileRunSteps ==
  ASSUME Inductive, NEW r \in Runs, ReconcileRun(r), NEW t \in Tasks
  PROVE  /\ t # r[1] => Kept(t)
         /\ t = r[1] => Stops(t)
<1> DEFINE u == r[1]
           overdue == task[u].deadline <= now
           repair == task[u].repairs < RepairLimit[u]
           target == IF overdue THEN DeadlineTarget(u)
                     ELSE FailureTarget(r, IF repair THEN "infrastructure"
                                                     ELSE "quality")
           repairs == IF repair /\ ~overdue THEN task[u].repairs + 1
                                         ELSE task[u].repairs
           blocked == Unsettled(u)
           row == [task[u] EXCEPT !.state = target, !.cur = 0, !.curFence = 0,
                                  !.blocked = blocked, !.repairs = repairs]
<1>1. HoldsLease(r) /\ u \in Tasks /\ task[u] \in TaskRecords
  BY RunNames DEF Inductive, TypeOK, ReconcileRun
<1>2. /\ target \in Stopped \cup {"retry"}
      /\ target = "retry" => ~Unsettled(u) /\ events[u] < EventLimit[u]
  BY DEF DeadlineTarget, FailureTarget, Stopped
<1>3. blocked \in BOOLEAN
  BY <1>1 DEF Unsettled, TaskRecords
<1>4. repairs \in 0..3
  BY <1>1, LimitsAssumption DEF TaskRecords
<1>5. task' = [task EXCEPT ![u] = row]
  <2>1. task' = [task EXCEPT ![u] =
                   [Released(u, target) EXCEPT
                      !.blocked = blocked,
                      !.repairs = IF repair /\ ~overdue THEN @ + 1 ELSE @]]
    BY DEF ReconcileRun
  <2> HIDE DEF target, blocked, repair, overdue
  <2>2. [Released(u, target) EXCEPT
           !.blocked = blocked,
           !.repairs = IF repair /\ ~overdue THEN @ + 1 ELSE @] = row
    BY <1>1 DEF Released, TaskRecords
  <2> QED
    BY <2>1, <2>2
<1>6. blocked = Unsettled(u)
  OBVIOUS
<1> HIDE DEF target, blocked, repair, overdue, repairs
<1>7. target \in States
  BY <1>2 DEF Stopped, States, Leasable, Terminal
<1>8. /\ row \in TaskRecords /\ row.state = target /\ row.blocked = blocked
      /\ row.reserved = task[u].reserved /\ row.gen = task[u].gen
  BY <1>1, <1>3, <1>4, <1>7 DEF TaskRecords
<1>9. /\ "expired" \in Uncompleted /\ CloseRun(r, "expired")
      /\ attempts' = attempts /\ events' = events
  BY DEF ReconcileRun, Uncompleted, RunStates
<1> HIDE DEF row
<1> QED
  BY <1>1, <1>2, <1>5, <1>6, <1>8, <1>9, ReleaseSteps

\* reconcile of a task whose deadline passed while it waited.
LEMMA ReconcileTaskSteps ==
  ASSUME Inductive, NEW u \in Tasks, ReconcileTask(u), NEW t \in Tasks
  PROVE  /\ t # u => Kept(t)
         /\ t = u => Stops(t)
<1> DEFINE target == DeadlineTarget(u)
<1>1. TypeOK /\ task[u].state \in Leasable
  BY DEF Inductive, ReconcileTask, ExpiredTask
<1>2. target \in Stopped
  BY DEF DeadlineTarget, Stopped
<1>3. /\ task' = [task EXCEPT ![u] = TerminalTask(u, target)]
      /\ UNCHANGED <<run, attempts, events>>
  BY DEF ReconcileTask
<1> HIDE DEF target
<1>4. CASE t # u
  BY <1>1, <1>3, <1>4 DEF TypeOK, Kept, RunsKept
<1>5. CASE t = u
  <2>1. task'[t] = TerminalTask(t, target)
    BY <1>1, <1>3, <1>5 DEF TypeOK
  <2>2. Exists(t) /\ task[t].state \notin Terminal
    BY <1>1, <1>5 DEF Exists, Leasable, Terminal
  <2> QED
    BY <1>1, <1>2, <1>3, <1>5, <2>1, <2>2, TerminalTaskColumns DEF Stops
<1> QED
  BY <1>4, <1>5

\* Heartbeats, phases, reservations and observations, and the completion.
LEMMA WorkerSteps ==
  ASSUME Inductive, NEW r \in Runs, WorkerCommand(r), NEW t \in Tasks
  PROVE  TaskStep(t) /\ (t # r[1] => Kept(t))
<1> DEFINE u == r[1]
<1>1. /\ TypeOK /\ HoldsLease(r) /\ u \in Tasks /\ r[2] \in Attempts
      /\ r = <<u, r[2]>> /\ r[2] = attempts[u] /\ task[u].state \in InLease
  <2>1. HoldsLease(r)
    BY DEF WorkerCommand, Heartbeat, TransitionPhase, ReserveBudget,
           ObserveUsage, ObserveUnpriced, ReleaseFailure, ReleaseCompleted,
           LockGrant
  <2> QED
    BY <2>1, GrantHolder DEF Inductive
<1>2. task[u] \in TaskRecords /\ run[r] \in RunRecords
  BY <1>1 DEF TypeOK
<1>3. CASE \E class \in FailureClasses : ReleaseFailure(r, class)
  BY <1>3, ReleaseFailureSteps DEF TaskStep
<1>4. CASE ReleaseCompleted(r)
  <2>1. CloseRun(r, "completed") /\ "completed" \in RunStates
    BY <1>4 DEF ReleaseCompleted, RunStates
  <2>2. run'[r] = Closed(run[r], "completed")
        /\ \A q \in Runs \ {r} : run'[q] = run[q]
    BY <1>1, <2>1, CloseRunRows
  <2>3. /\ task' = [task EXCEPT ![u] = [task[u] EXCEPT !.state = "ready_for_human",
                                              !.cur = 0, !.curFence = 0]]
        /\ attempts' = attempts /\ events' = events
        /\ ~Unsettled(u) /\ run[r].usage # {}
    BY <1>4 DEF ReleaseCompleted, Released, CompletionSettled
  <2>4. CASE t # u
    <3>1. RunsKept(t)
      BY <1>1, <2>2, <2>4, RunNames DEF RunsKept
    <3> QED
      BY <1>1, <2>3, <2>4, <3>1 DEF TypeOK, Kept, TaskStep
  <2>5. CASE t = u
    <3>1. /\ task'[t].state = "ready_for_human"
          /\ task'[t].blocked = task[t].blocked
          /\ task'[t].reserved = task[t].reserved
          /\ task'[t].gen = task[t].gen
      BY <1>1, <1>2, <2>3, <2>5 DEF TypeOK, TaskRecords
    <3>2. \A a \in Attempts \ {attempts[t]} : run'[<<t, a>>] = run[<<t, a>>]
      BY <1>1, <2>2, <2>5, RunNames
    <3> QED
      BY <1>1, <2>2, <2>3, <2>5, <3>1, <3>2 DEF TaskStep, Completes
  <2> QED
    BY <2>4, <2>5
<1>5. ASSUME t # u,
             \/ Heartbeat(r) \/ TransitionPhase(r) \/ ObserveUnpriced(r)
             \/ \E cost \in Costs : ReserveBudget(r, cost)
             \/ \E call \in Calls, cost \in Costs : ObserveUsage(r, call, cost)
      PROVE  Kept(t)
  <2>1. /\ \E row : run' = [run EXCEPT ![r] = row] \/ run' = run
        /\ \E row : task' = [task EXCEPT ![u] = row] \/ task' = task
        /\ \E n : events' = [events EXCEPT ![u] = n] \/ events' = events
        /\ attempts' = attempts
    BY <1>5 DEF Heartbeat, TransitionPhase, ObserveUnpriced, ReserveBudget, ObserveUsage
  <2>2. RunsKept(t)
    BY <1>1, <1>5, <2>1, RunNames DEF TypeOK, RunsKept
  <2>3. task'[t] = task[t] /\ events'[t] = events[t]
    BY <1>1, <1>5, <2>1 DEF TypeOK
  <2> QED
    BY <2>1, <2>2, <2>3 DEF Kept
<1>6. ASSUME t = u, \A a \in Attempts : SameLease(<<t, a>>),
             task'[t].state \in InLease, task[t].blocked => task'[t].blocked,
             task'[t].gen = task[t].gen, attempts' = attempts
      PROVE  TaskStep(t)
  BY <1>1, <1>6 DEF TaskStep, Works
<1>7. ASSUME NEW row, run' = [run EXCEPT ![r] = row], row.state = run[r].state,
             row.live = run[r].live, row.role = run[r].role, row.fence = run[r].fence
      PROVE  \A a \in Attempts : SameLease(<<u, a>>)
  BY <1>1, <1>7, RunNames DEF TypeOK, SameLease
<1>8. ASSUME t = u, Heartbeat(r) PROVE TaskStep(t)
  <2> DEFINE row == [run[r] EXCEPT !.expires =
                       Earliest(now + HeartbeatLength, task[u].deadline)]
  <2>1. /\ row.state = run[r].state /\ row.live = run[r].live
        /\ row.role = run[r].role /\ row.fence = run[r].fence
        /\ run' = [run EXCEPT ![r] = row]
    BY <1>2, <1>8 DEF Heartbeat, RunRecords
  <2>2. task' = task /\ attempts' = attempts
    BY <1>8 DEF Heartbeat
  <2> HIDE DEF row
  <2>3. \A a \in Attempts : SameLease(<<t, a>>)
    BY <1>7, <1>8, <2>1
  <2> QED
    BY <1>1, <1>6, <1>8, <2>2, <2>3
<1>9. ASSUME t = u, TransitionPhase(r) PROVE TaskStep(t)
  <2>1. task'[t] = [task[t] EXCEPT !.state = NextPhase[task[t].state]]
    BY <1>1, <1>9 DEF TransitionPhase, TypeOK
  <2>2. NextPhase[task[t].state] \in InLease
    BY <1>9 DEF TransitionPhase, NextPhase, InLease
  <2>3. /\ task'[t].state \in InLease /\ task'[t].gen = task[t].gen
        /\ task'[t].blocked = task[t].blocked
    BY <1>2, <1>9, <2>1, <2>2 DEF TaskRecords
  <2>4. run' = run /\ attempts' = attempts
    BY <1>9 DEF TransitionPhase
  <2> QED
    BY <1>6, <1>9, <2>3, <2>4 DEF SameLease
<1>10. ASSUME t = u, NEW cost \in Costs, ReserveBudget(r, cost) PROVE TaskStep(t)
  <2> DEFINE row == [run[r] EXCEPT !.openCount = @ + 1, !.openCost = @ + cost]
  <2>1. /\ row.state = run[r].state /\ row.live = run[r].live
        /\ row.role = run[r].role /\ row.fence = run[r].fence
        /\ run' = [run EXCEPT ![r] = row]
    BY <1>1, <1>2, <1>10 DEF ReserveBudget, RunRecords, TypeOK
  <2>2. task'[t] = [task[t] EXCEPT !.reserved = @ + cost] /\ attempts' = attempts
    BY <1>1, <1>10 DEF ReserveBudget, TypeOK
  <2>3. /\ task'[t].state = task[t].state /\ task'[t].gen = task[t].gen
        /\ task'[t].blocked = task[t].blocked
    BY <1>2, <1>10, <2>2 DEF TaskRecords
  <2> HIDE DEF row
  <2>4. \A a \in Attempts : SameLease(<<t, a>>)
    BY <1>7, <1>10, <2>1
  <2> QED
    BY <1>1, <1>6, <1>10, <2>2, <2>3, <2>4
<1>11. ASSUME t = u, NEW call \in Calls, NEW cost \in Costs, ObserveUsage(r, call, cost)
       PROVE  TaskStep(t)
  <2> DEFINE fits == task[u].observed + cost <= CostLimit[u]
             usage == IF fits THEN run[r].usage \cup {call} ELSE run[r].usage
             reserved == task[u].reserved - run[r].openCost
             observed == IF fits THEN task[u].observed + cost ELSE task[u].observed
             blocked == IF fits THEN task[u].blocked ELSE TRUE
             row == [run[r] EXCEPT !.openCount = 0, !.openCost = 0, !.usage = usage]
  <2>1. run' = [run EXCEPT ![r] =
                  [WithoutReservations(run[r]) EXCEPT
                     !.usage = IF fits THEN @ \cup {call} ELSE @]]
    BY <1>11 DEF ObserveUsage
  <2>2. task'[u] = [task[u] EXCEPT !.reserved = reserved, !.observed = observed,
                                   !.blocked = blocked]
    BY <1>1, <1>2, <1>11 DEF ObserveUsage, TypeOK, TaskRecords
  <2>3. attempts' = attempts /\ (task[u].blocked => blocked)
    BY <1>11 DEF ObserveUsage
  <2> HIDE DEF fits, reserved, observed, blocked
  <2>4. [WithoutReservations(run[r]) EXCEPT
           !.usage = IF fits THEN @ \cup {call} ELSE @] = row
    BY <1>2 DEF WithoutReservations, RunRecords
  <2>5. /\ row.state = run[r].state /\ row.live = run[r].live
        /\ row.role = run[r].role /\ row.fence = run[r].fence
        /\ run' = [run EXCEPT ![r] = row]
    <3> HIDE DEF usage
    <3>1. /\ row.state = run[r].state /\ row.live = run[r].live
          /\ row.role = run[r].role /\ row.fence = run[r].fence
      BY <1>2 DEF RunRecords
    <3> QED
      BY <2>1, <2>4, <3>1
  <2> HIDE DEF row
  <2>6. \A a \in Attempts : SameLease(<<u, a>>)
    BY <1>7, <2>5
  <2>7. /\ task'[u].state = task[u].state /\ task'[u].gen = task[u].gen
        /\ task'[u].blocked = blocked
    BY <1>2, <2>2 DEF TaskRecords
  <2> QED
    BY <1>1, <1>6, <1>11, <2>3, <2>6, <2>7
<1>12. ASSUME t = u, ObserveUnpriced(r) PROVE TaskStep(t)
  <2>1. task'[t] = [task[t] EXCEPT !.blocked = TRUE] /\ run' = run
        /\ attempts' = attempts
    BY <1>1, <1>12 DEF ObserveUnpriced, TypeOK
  <2>2. /\ task'[t].state = task[t].state /\ task'[t].gen = task[t].gen
        /\ task'[t].blocked
    BY <1>2, <1>12, <2>1 DEF TaskRecords
  <2> QED
    BY <1>1, <1>6, <1>12, <2>1, <2>2 DEF SameLease
<1> QED
  BY <1>1, <1>3, <1>4, <1>5, <1>8, <1>9, <1>10, <1>11, <1>12 DEF WorkerCommand, TaskStep

\* The steps that touch no task.
LEMMA QuietSteps ==
  ASSUME \/ ReconcileSelect \/ ReconcileSkip \/ ReconcileAbort
         \/ SetKill \/ Tick \/ UNCHANGED vars
         \/ \E w \in Workers : ClaimEmpty(w)
         \/ \E w \in Workers : \E request \in Requests : ClaimBegin(w, request),
         NEW t \in Tasks
  PROVE  Kept(t)
BY DEF ReconcileSelect, ReconcileSkip, ReconcileAbort, SetKill, Tick, vars,
       ClaimEmpty, ClaimBegin, Kept, RunsKept

\* Every step of the store is of one of the six kinds for each task.
LEMMA TaskSteps ==
  ASSUME Inductive, [Next]_vars, NEW t \in Tasks
  PROVE  TaskStep(t)
<1>1. ASSUME NEW u \in Tasks, Intake(u) \/ Cancel(u) PROVE TaskStep(t)
  BY <1>1, IntakeFreshSteps, IntakeSupersedeSteps, CancelSteps
  DEF Intake, Settled, TaskStep
<1>2. ASSUME ReconcileCommit PROVE TaskStep(t)
  BY <1>2, ReconcileRunSteps, ReconcileTaskSteps DEF ReconcileCommit, TaskStep
<1>3. ASSUME NEW w \in Workers, Claim(w) PROVE TaskStep(t)
  BY <1>3, ClaimGrantSteps, QuietSteps DEF Claim, TaskStep
<1> QED
  BY <1>1, <1>2, <1>3, WorkerSteps, QuietSteps DEF Next, TaskStep

\* A step touches at most one task that was there before.
LEMMA OneTaskMoves ==
  ASSUME Inductive, [Next]_vars, NEW t \in Tasks, NEW u \in Tasks, t # u
  PROVE  Settled(t) \/ Settled(u)
<1>1. ASSUME NEW v \in Tasks, Intake(v) PROVE Settled(t) \/ Settled(u)
  <2>1. CASE IntakeFresh(v)
    BY <2>1, IntakeFreshSteps
  <2>2. ASSUME NEW old \in Tasks, IntakeSupersede(v, old)
        PROVE  Settled(t) \/ Settled(u)
    BY <2>2, IntakeSupersedeSteps
  <2> QED
    BY <1>1, <2>1, <2>2 DEF Intake
<1>2. ASSUME NEW v \in Tasks, Cancel(v) PROVE Settled(t) \/ Settled(u)
  BY <1>2, CancelSteps DEF Settled
<1>3. ASSUME NEW w \in Workers, Claim(w) PROVE Settled(t) \/ Settled(u)
  BY <1>3, ClaimGrantSteps, QuietSteps DEF Claim, Settled
<1>4. ASSUME NEW r \in Runs, WorkerCommand(r) PROVE Settled(t) \/ Settled(u)
  BY <1>4, WorkerSteps DEF Settled
<1>5. ASSUME ReconcileCommit PROVE Settled(t) \/ Settled(u)
  BY <1>5, ReconcileRunSteps, ReconcileTaskSteps DEF ReconcileCommit, Settled
<1> QED
  BY <1>1, <1>2, <1>3, <1>4, <1>5, QuietSteps DEF Next, Settled

---------------------------------------------------------------------------
(* Accounts, quarantine and retries                                        *)

\* What AccountingSound says of one task.
AccountsSound(t) ==
  /\ task[t].state \in Leasable \cup {"ready_for_human"} => ~Unsettled(t)
  /\ task[t].state \in Stopped => (Unsettled(t) => task[t].blocked)
  /\ task[t].state = "ready_for_human" =>
       /\ attempts[t] # 0
       /\ run[<<t, attempts[t]>>].state = "completed"
       /\ run[<<t, attempts[t]>>].usage # {}
  /\ \A a \in Attempts :
       run[<<t, a>>].state = "completed" =>
         a = attempts[t] /\ task[t].state = "ready_for_human"
  /\ task[t].state = "retry" => events[t] < EventLimit[t]

Sound == Inductive /\ \A t \in Tasks : AccountsSound(t)

\* Before the first intake there are no accounts.
LEMMA InitSound == Init => Sound
<1> SUFFICES ASSUME Init PROVE Sound
  OBVIOUS
<1>1. ASSUME NEW t \in Tasks PROVE AccountsSound(t)
  <2>1. \A a \in Attempts : run[<<t, a>>].state = "absent"
    BY RunNames DEF Init, AbsentRun
  <2>2. task[t].state = "absent"
    BY DEF Init, AbsentTask
  <2> QED
    BY <2>1, <2>2 DEF AccountsSound, Leasable, Stopped
<1> QED
  BY <1>1, InitInductive DEF Sound

\* A task that waits or was settled keeps its accounts when its runs and its
\* amounts stay.
LEMMA UnsettledStays ==
  ASSUME TypeOK, NEW t \in Tasks,
         task'[t].reserved = task[t].reserved,
         \A a \in Attempts :
           \/ run'[<<t, a>>] = run[<<t, a>>]
           \/ \E state : run'[<<t, a>>] = Closed(run[<<t, a>>], state)
  PROVE  Unsettled(t)' <=> \/ task'[t].blocked \/ task[t].reserved # 0
                           \/ HasOpenReservation(t)
<1>1. ASSUME NEW a \in Attempts
      PROVE  run'[<<t, a>>].openCount = run[<<t, a>>].openCount
  <2>1. run[<<t, a>>] \in RunRecords
    BY RunNames DEF TypeOK
  <2> QED
    BY <2>1 DEF Closed, RunRecords
<1> QED
  BY <1>1 DEF Unsettled, HasOpenReservation

\* Each kind of step keeps the accounts of a task sound.
LEMMA AccountsKept ==
  ASSUME Sound, [Next]_vars, NEW t \in Tasks
  PROVE  AccountsSound(t)'
<1>1. TypeOK /\ RowsAgree(t) /\ AccountsSound(t)
  BY DEF Sound, Inductive
<1>2. CASE Kept(t)
  <2>1. Unsettled(t)' <=> Unsettled(t)
    BY <1>2 DEF Kept, RunsKept, Unsettled, HasOpenReservation
  <2>2. attempts[t] \in {0} \cup Attempts
    BY <1>1 DEF TypeOK
  <2> QED
    BY <1>1, <1>2, <2>1, <2>2 DEF Kept, RunsKept, AccountsSound
<1>3. CASE Arrives(t)
  <2>1. attempts[t] = 0 /\ attempts'[t] = 0
    BY <1>1, <1>3 DEF Arrives, Exists, RowsAgree, TaskAgrees
  <2>2. ASSUME NEW a \in Attempts
        PROVE  run'[<<t, a>>].state = "absent" /\ run'[<<t, a>>].openCount = 0
    BY <1>1, <1>3, <2>1 DEF Arrives, RunsKept, RowsAgree, RunAgrees, Attempts
  <2>3. task'[t].state = "queued" /\ ~task'[t].blocked /\ task'[t].reserved = 0
    BY <1>1, <1>3, NewTaskRow DEF Arrives
  <2>4. ~Unsettled(t)'
    <3>1. ASSUME NEW a \in Attempts PROVE ~(run'[<<t, a>>].openCount > 0)
      <4>1. run'[<<t, a>>].openCount = 0
        BY <2>2
      <4> QED
        BY <4>1
    <3>2. ~HasOpenReservation(t)'
      BY <3>1 DEF HasOpenReservation
    <3> QED
      BY <2>3, <3>2 DEF Unsettled
  <2> QED
    BY <2>2, <2>3, <2>4 DEF AccountsSound, Stopped
<1>4. CASE Stops(t)
  <2>1. Unsettled(t)' <=> \/ task'[t].blocked \/ task[t].reserved # 0
                         \/ HasOpenReservation(t)
    BY <1>1, <1>4, UnsettledStays DEF Stops
  <2>2. Unsettled(t)' <=> task'[t].blocked
    BY <1>4, <2>1 DEF Stops, Unsettled
  <2>3. ASSUME NEW a \in Attempts PROVE run'[<<t, a>>].state # "completed"
    <3>1. run[<<t, a>>].state # "completed"
      BY <1>1, <1>4 DEF Stops, AccountsSound, Terminal
    <3>2. run[<<t, a>>] \in RunRecords
      BY <1>1, RunNames DEF TypeOK
    <3> QED
      BY <1>4, <3>1, <3>2 DEF Stops, Closed, RunRecords, Uncompleted, RunStates
  <2>4. task'[t].state = "retry" => ~task'[t].blocked /\ events'[t] < EventLimit[t]
    BY <1>4 DEF Stops, Stopped
  <2>5. task'[t].state \in Stopped \cup {"retry"}
    BY <1>4 DEF Stops
  <2> QED
    BY <2>2, <2>3, <2>4, <2>5 DEF AccountsSound, Stopped, Leasable
<1>5. CASE Starts(t)
  <2>1. task'[t].state = "leased"
    BY <1>5 DEF Starts
  <2>2. ASSUME NEW a \in Attempts PROVE run'[<<t, a>>].state # "completed"
    BY <1>1, <1>5 DEF Starts, AccountsSound, Leasable
  <2> QED
    BY <2>1, <2>2 DEF AccountsSound, Leasable, Stopped
<1>6. CASE Works(t)
  <2>1. ASSUME NEW a \in Attempts PROVE run'[<<t, a>>].state # "completed"
    BY <1>1, <1>6 DEF Works, SameLease, AccountsSound, InLease
  <2> QED
    BY <1>6, <2>1 DEF Works, AccountsSound, InLease, Leasable, Stopped
<1>7. CASE Completes(t)
  <2>1. Unsettled(t)' <=> \/ task'[t].blocked \/ task[t].reserved # 0
                         \/ HasOpenReservation(t)
    <3>1. \A a \in Attempts :
            \/ run'[<<t, a>>] = run[<<t, a>>]
            \/ \E state : run'[<<t, a>>] = Closed(run[<<t, a>>], state)
      BY <1>7 DEF Completes
    <3> QED
      BY <1>1, <1>7, <3>1, UnsettledStays DEF Completes
  <2>2. ~Unsettled(t)'
    BY <1>7, <2>1 DEF Completes, Unsettled
  <2>3. run[<<t, attempts[t]>>] \in RunRecords
    BY <1>1, <1>7, RunNames DEF TypeOK, Completes
  <2>4. /\ run'[<<t, attempts[t]>>].state = "completed"
        /\ run'[<<t, attempts[t]>>].usage # {}
    BY <1>7, <2>3 DEF Completes, Closed, RunRecords
  <2>5. ASSUME NEW a \in Attempts, a # attempts[t]
        PROVE  run'[<<t, a>>].state # "completed"
    BY <1>1, <1>7, <2>5 DEF Completes, AccountsSound, InLease
  <2>6. attempts'[t] = attempts[t] /\ attempts[t] # 0
    BY <1>7 DEF Completes, Attempts
  <2> QED
    BY <1>7, <2>2, <2>4, <2>5, <2>6 DEF Completes, AccountsSound, Stopped
<1> QED
  BY <1>2, <1>3, <1>4, <1>5, <1>6, <1>7, TaskSteps DEF Sound, TaskStep

\* Sound is an inductive invariant.
LEMMA SoundInvariant == Spec => []Sound
<1>1. Init => Sound
  BY InitSound
<1>2. Sound /\ [Next]_vars => Sound'
  BY AccountsKept, StepInductive DEF Sound
<1> QED
  BY <1>1, <1>2, PTL DEF Spec

\* A task put back to retry by release or reconcile has an attempt and an
\* ordinary event left, so the claim that takes it is refused by neither.
THEOREM RetriesCanBeClaimed == Spec => []RetryCanBeClaimed
<1>1. Sound => RetryHasEventRoom
  BY DEF Sound, AccountsSound, RetryHasEventRoom
<1> QED
  BY <1>1, SoundInvariant, AttemptsSuffice, PTL DEF RetryCanBeClaimed

\* What can be claimed or was completed is settled, what ended unsettled is
\* quarantined, and behind every completion there is usage: the readiness
\* query and the completion check never disagree with the tables.
THEOREM AccountsAlwaysSound == Spec => []AccountingSound
<1>1. Sound => AccountingConsistent
  <2> SUFFICES ASSUME Sound, NEW t \in Tasks
               PROVE  LET reserved == \/ task[t].reserved # 0
                                      \/ \E a \in Attempts : run[<<t, a>>].openCount > 0
                      IN /\ task[t].state \in Leasable \cup {"ready_for_human"}
                              => ~reserved /\ ~task[t].blocked
                         /\ task[t].state \in Stopped => (reserved => task[t].blocked)
    BY DEF AccountingConsistent, Stopped
  <2>1. AccountsSound(t)
    BY DEF Sound
  <2> QED
    BY <2>1 DEF AccountsSound, Unsettled, HasOpenReservation
<1>2. Sound => CompletionHasUsage
  BY DEF Sound, AccountsSound, CompletionHasUsage
<1> QED
  BY <1>1, <1>2, SoundInvariant, PTL DEF AccountingSound

\* No action lifts a quarantine, and no claim takes a quarantined task.
THEOREM QuarantineLasts == Spec => QuarantineSticks
<1>1. ASSUME Inductive, [Next]_vars, NEW t \in Tasks, task[t].blocked
      PROVE  task'[t].blocked /\ attempts'[t] = attempts[t]
  <2>1. TaskStep(t)
    BY <1>1, TaskSteps
  <2>2. ~Arrives(t)
    BY <1>1 DEF Arrives, Exists, Inductive, RowsAgree, TaskAgrees
  <2>3. ~Starts(t) /\ ~Completes(t)
    BY <1>1 DEF Starts, Completes, Unsettled
  <2>4. CASE Kept(t)
    BY <1>1, <2>4 DEF Kept
  <2>5. CASE Stops(t)
    BY <1>1, <2>5 DEF Stops, Unsettled
  <2>6. CASE Works(t)
    BY <1>1, <2>6 DEF Works
  <2> QED
    BY <2>1, <2>2, <2>3, <2>4, <2>5, <2>6 DEF TaskStep
<1>2. Inductive /\ [Next]_vars =>
        [\A t \in Tasks :
           task[t].blocked =>
             /\ task'[t].blocked
             /\ attempts'[t] = attempts[t]]_vars
  BY <1>1
<1> QED
  BY <1>2, RowsInvariant, PTL DEF Spec, QuarantineSticks

---------------------------------------------------------------------------
(* The ordinary events of a task                                           *)

\* A task that has arrived has recorded its intake and each claim, all within
\* its limit.
EventBudget(t) ==
  /\ attempts[t] < events[t]
  /\ events[t] <= EventLimit[t]

\* A task that no claim can ever take, whatever its other limits are.
LimitedToIntake == {t \in Tasks : EventLimit[t] = 1}

EventBudgets == \A t \in Tasks : Exists(t) => EventBudget(t)

\* An intake writes the first ordinary event, a claim and a phase change one
\* more each and only below the limit, and nothing else writes any.
LEMMA EventsGrow ==
  ASSUME Inductive, [Next]_vars, NEW t \in Tasks
  PROVE  \/ 0 < EventLimit[t] /\ ~Exists(t) /\ events'[t] = 1 /\ attempts'[t] = attempts[t]
         \/ /\ Exists(t) /\ events[t] < EventLimit[t] /\ events'[t] = events[t] + 1
            /\ attempts'[t] \in {attempts[t], attempts[t] + 1}
         \/ /\ events'[t] = events[t] /\ attempts'[t] = attempts[t]
            /\ Exists(t)' => Exists(t)
<1> DEFINE Arrived == 0 < EventLimit[t] /\ ~Exists(t) /\ events'[t] = 1 /\ attempts'[t] = attempts[t]
           Wrote   == /\ Exists(t) /\ events[t] < EventLimit[t] /\ events'[t] = events[t] + 1
                      /\ attempts'[t] \in {attempts[t], attempts[t] + 1}
           Silent  == /\ events'[t] = events[t] /\ attempts'[t] = attempts[t]
                      /\ Exists(t)' => Exists(t)
<1>1. TypeOK
  BY DEF Inductive
<1>2. Kept(t) => Silent
  BY DEF Kept, Exists
<1>3. Stops(t) => Silent
  BY DEF Stops
<1>4. ASSUME NEW u \in Tasks, Intake(u) PROVE Arrived \/ Silent
  <2>1. ASSUME CanInsert(u), events' = [events EXCEPT ![u] = 1], attempts' = attempts, t = u
        PROVE  Arrived
    BY <1>1, <2>1 DEF CanInsert, TypeOK
  <2>2. CASE IntakeFresh(u)
    <3>1. task' = [task EXCEPT ![u] = NewTask(u)]
      BY <2>2 DEF IntakeFresh
    <3>2. t # u => Silent
      BY <1>1, <2>2, <3>1 DEF IntakeFresh, TypeOK, Exists
    <3> QED
      BY <2>1, <2>2, <3>2 DEF IntakeFresh
  <2>3. ASSUME NEW old \in Tasks, IntakeSupersede(u, old) PROVE Arrived \/ Silent
    <3>1. CASE t = old
      BY <1>3, <2>3, <3>1, IntakeSupersedeSteps
    <3>2. CASE t \notin {u, old}
      <4>1. task'[t] = task[t]
        BY <1>1, <2>3, <3>2 DEF IntakeSupersede, TypeOK
      <4> QED
        BY <1>1, <2>3, <3>2, <4>1 DEF IntakeSupersede, TypeOK, Exists
    <3> QED
      BY <2>1, <2>3, <3>1, <3>2 DEF IntakeSupersede
  <2> QED
    BY <1>4, <2>2, <2>3 DEF Intake
<1>5. ASSUME NEW u \in Tasks, Cancel(u) PROVE Silent
  BY <1>2, <1>3, <1>5, CancelSteps
<1>6. ASSUME NEW w \in Workers, Claim(w) PROVE Wrote \/ Silent
  <2>1. ASSUME NEW u \in Tasks, NEW length \in LeaseLengths, ClaimGrant(w, u, length), t = u
        PROVE  Wrote
    <3>1. Exists(t)
      BY <2>1 DEF ClaimGrant, Claimable, Leasable, Exists
    <3>2. events[t] < EventLimit[t] /\ events'[t] = events[t] + 1
      BY <1>1, <2>1 DEF ClaimGrant, TypeOK
    <3>3. attempts'[t] = attempts[t] + 1
      BY <1>1, <2>1 DEF ClaimGrant, TypeOK
    <3> QED
      BY <3>1, <3>2, <3>3
  <2>2. ASSUME NEW u \in Tasks, NEW length \in LeaseLengths, ClaimGrant(w, u, length), t # u
        PROVE  Silent
    BY <1>2, <2>2, ClaimGrantSteps
  <2> QED
    BY <1>2, <1>6, <2>1, <2>2, QuietSteps DEF Claim
<1>7. ASSUME NEW r \in Runs, WorkerCommand(r) PROVE Wrote \/ Silent
  <2>1. t # r[1] => Silent
    BY <1>2, <1>7, WorkerSteps
  <2>2. HoldsLease(r)
    BY <1>7 DEF WorkerCommand, Heartbeat, TransitionPhase, ReserveBudget,
                ObserveUsage, ObserveUnpriced, ReleaseFailure, ReleaseCompleted,
                LockGrant
  <2>3. t = r[1] => Exists(t)
    BY <2>2 DEF HoldsLease, InLease, Exists
  <2>4. attempts' = attempts
    BY <1>7 DEF WorkerCommand, Heartbeat, TransitionPhase, ReserveBudget,
                ObserveUsage, ObserveUnpriced, ReleaseFailure, ReleaseCompleted
  <2>5. CASE TransitionPhase(r) /\ t = r[1]
    BY <1>1, <2>3, <2>4, <2>5 DEF TransitionPhase, TypeOK
  <2>6. CASE ~TransitionPhase(r) /\ t = r[1]
    <3>1. events' = events
      BY <1>7, <2>6 DEF WorkerCommand, Heartbeat, ReserveBudget,
                ObserveUsage, ObserveUnpriced, ReleaseFailure, ReleaseCompleted
    <3> QED
      BY <2>3, <2>4, <2>6, <3>1
  <2> QED
    BY <2>1, <2>5, <2>6
<1>8. ASSUME ReconcileCommit PROVE Silent
  BY <1>2, <1>3, <1>8, ReconcileRunSteps, ReconcileTaskSteps DEF ReconcileCommit
<1> QED
  BY <1>2, <1>4, <1>5, <1>6, <1>7, <1>8, QuietSteps DEF Next

\* Every claim and every phase change writes its event within max_events, and
\* so a task whose limit is one event, which the contract accepts, is never
\* leased: its intake has used the event its first claim would need (_event,
\* claim).
THEOREM EventsWithinLimit ==
  Spec => [](/\ EventBudgets
             /\ \A t \in LimitedToIntake : attempts[t] = 0 /\ task[t].state \notin InLease)
<1>1. Init => EventBudgets
  BY DEF Init, EventBudgets, Exists, AbsentTask
<1>2. Inductive /\ EventBudgets /\ [Next]_vars => EventBudgets'
  <2> SUFFICES ASSUME Inductive, EventBudgets, [Next]_vars, NEW t \in Tasks, Exists(t)'
               PROVE  EventBudget(t)'
    BY DEF EventBudgets
  <2>1. /\ events[t] \in Nat /\ EventLimit[t] \in Nat /\ attempts[t] \in {0} \cup Attempts
        /\ attempts[t] \in Nat
        /\ ~Exists(t) => attempts[t] = 0
        /\ Exists(t) => EventBudget(t)
    <3>1. TypeOK /\ RowsAgree(t)
      BY DEF Inductive
    <3>2. /\ events[t] \in Nat /\ EventLimit[t] \in Nat
          /\ attempts[t] \in {0} \cup Attempts /\ attempts[t] \in Nat
      BY <3>1, LimitsAssumption DEF TypeOK, Attempts
    <3>3. ~Exists(t) => attempts[t] = 0
      BY <3>1 DEF RowsAgree, TaskAgrees, Exists
    <3> QED
      BY <3>2, <3>3 DEF EventBudgets
  <2>2. CASE 0 < EventLimit[t] /\ ~Exists(t) /\ events'[t] = 1 /\ attempts'[t] = attempts[t]
    BY <2>1, <2>2 DEF EventBudget
  <2>3. CASE /\ Exists(t) /\ events[t] < EventLimit[t] /\ events'[t] = events[t] + 1
             /\ attempts'[t] \in {attempts[t], attempts[t] + 1}
    BY <2>1, <2>3 DEF EventBudget
  <2>4. CASE /\ events'[t] = events[t] /\ attempts'[t] = attempts[t]
             /\ Exists(t)' => Exists(t)
    BY <2>1, <2>4 DEF EventBudget
  <2> QED
    BY <2>2, <2>3, <2>4, EventsGrow
<1>3. Inductive /\ EventBudgets =>
        \A t \in LimitedToIntake : attempts[t] = 0 /\ task[t].state \notin InLease
  <2> SUFFICES ASSUME Inductive, EventBudgets, NEW t \in LimitedToIntake
               PROVE  attempts[t] = 0 /\ task[t].state \notin InLease
    OBVIOUS
  <2>1. /\ t \in Tasks /\ EventLimit[t] = 1 /\ events[t] \in Nat /\ attempts[t] \in Nat
        /\ RowsAgree(t)
    BY DEF LimitedToIntake, Inductive, TypeOK, Attempts
  <2>2. attempts[t] = 0
    BY <2>1 DEF EventBudgets, EventBudget, Exists, RowsAgree, TaskAgrees
  <2>3. task[t].state \in InLease => task[t].cur \in Attempts /\ task[t].cur = attempts[t]
    <3>1. task[t].cur \in {0} \cup Attempts
      BY <2>1 DEF Inductive, TypeOK, TaskRecords
    <3> QED
      BY <2>1, <3>1 DEF RowsAgree, TaskAgrees, RunAgrees
  <2> QED
    BY <2>2, <2>3 DEF Attempts
<1> QED
  BY <1>1, <1>2, <1>3, RowsInvariant, PTL DEF Spec

---------------------------------------------------------------------------
(* Generations of a source                                                 *)

\* The generation of a task counts the tasks of its source that had arrived.
GenerationsCount ==
  \A t \in Tasks : Exists(t) => task[t].gen <= Cardinality(SameSource(t))

SourcesAgree == Inductive /\ GenerationsCount /\ OneOpenPerSource

\* A source has finitely many tasks, and an intake counts them.
LEMMA SameSourceSize ==
  ASSUME TypeOK, NEW t \in Tasks
  PROVE  /\ IsFiniteSet(SameSource(t))
         /\ Cardinality(SameSource(t)) \in Nat
         /\ NewTask(t).gen = Cardinality(SameSource(t)) + 1
<1>1. IsFiniteSet(SameSource(t))
  BY SetsAssumption, FS_Subset DEF SameSource
<1>2. NewTask(t).gen = Cardinality(SameSource(t)) + 1
  BY DEF NewTask, AbsentTask
<1> QED
  BY <1>1, <1>2, FS_CardinalityType

\* A task that is there stays, keeps its generation, and once terminal stays so.
LEMMA GenerationsStay ==
  ASSUME Inductive, [Next]_vars, NEW t \in Tasks, ~Arrives(t)
  PROVE  /\ Exists(t)' <=> Exists(t)
         /\ task'[t].gen = task[t].gen
         /\ task[t].state \in Terminal => task'[t].state \in Terminal
<1>1. TaskStep(t)
  BY TaskSteps
<1>2. CASE Kept(t)
  BY <1>2 DEF Kept, Exists
<1>3. CASE Stops(t)
  BY <1>3 DEF Stops, Exists, Stopped, Terminal
<1>4. CASE Starts(t)
  BY <1>4 DEF Starts, Exists, Leasable, Terminal
<1>5. CASE Works(t)
  BY <1>5 DEF Works, Exists, InLease, Terminal
<1>6. CASE Completes(t)
  BY <1>6 DEF Completes, Exists, InLease, Terminal
<1> QED
  BY <1>1, <1>2, <1>3, <1>4, <1>5, <1>6 DEF TaskStep

\* Tasks arrive one at a time, when no other task of the source stays open.
LEMMA ArrivalClosesOthers ==
  ASSUME Inductive, [Next]_vars, NEW t \in Tasks, Arrives(t)
  PROVE  /\ \A u \in Tasks \ {t} : ~Arrives(u)
         /\ \A u \in SameSource(t) : task'[u].state \in Terminal
<1>1. TypeOK
  BY DEF Inductive
<1>2. Exists(t)' /\ ~Exists(t)
  BY <1>1, NewTaskRow DEF Arrives, Exists
<1>3. ASSUME NEW u \in Tasks, Arrives(u) PROVE task'[u] # task[u]
  BY <1>1, <1>3, NewTaskRow DEF Arrives, Exists
<1>4. PICK v \in Tasks : Intake(v)
  <2>1. ASSUME NEW u \in Tasks, NEW row, task[u].state # "absent",
               task' = [task EXCEPT ![u] = row]
        PROVE  FALSE
    BY <1>1, <1>2, <2>1 DEF Exists, TypeOK
  <2>2. ASSUME task' = task PROVE FALSE
    BY <1>2, <2>2 DEF Exists
  <2>3. ASSUME NEW u \in Tasks, Cancel(u) PROVE FALSE
    BY <2>1, <2>3 DEF Cancel, Exists
  <2>4. ASSUME NEW w \in Workers, Claim(w) PROVE FALSE
    <3>1. ASSUME NEW u \in Tasks, NEW length \in LeaseLengths, ClaimGrant(w, u, length)
          PROVE  FALSE
      <4>1. task[u].state # "absent"
        BY <3>1 DEF ClaimGrant, Claimable, Leasable
      <4>2. t # u
        BY <1>2, <4>1 DEF Exists
      <4>3. task'[t] = task[t]
        BY <1>1, <3>1, <4>2 DEF ClaimGrant, TypeOK
      <4> QED
        BY <1>2, <4>3 DEF Exists
    <3> QED
      BY <2>2, <2>4, <3>1 DEF Claim, ClaimBegin, ClaimEmpty
  <2>5. ASSUME NEW r \in Runs, HoldsLease(r)
        PROVE  r[1] \in Tasks /\ task[r[1]].state # "absent"
    BY <2>5, RunNames DEF HoldsLease, InLease
  <2>6. ASSUME NEW r \in Runs, WorkerCommand(r) PROVE FALSE
    <3>1. r[1] \in Tasks /\ task[r[1]].state # "absent"
      BY <2>5, <2>6 DEF WorkerCommand, Heartbeat, TransitionPhase,
             ReserveBudget, ObserveUsage, ObserveUnpriced, ReleaseFailure,
             ReleaseCompleted, LockGrant
    <3>2. r[1] # t
      BY <1>2, <3>1 DEF Exists
    <3>3. task'[t] = task[t]
      BY <1>1, <2>6, <3>1, <3>2
      DEF WorkerCommand, Heartbeat, TransitionPhase, ReserveBudget,
          ObserveUsage, ObserveUnpriced, ReleaseFailure, ReleaseCompleted, TypeOK
    <3> QED
      BY <1>2, <3>3 DEF Exists
  <2>7. ASSUME ReconcileCommit PROVE FALSE
    <3>1. ASSUME NEW r \in Runs, ReconcileRun(r) PROVE FALSE
      BY <2>1, <2>5, <3>1 DEF ReconcileRun
    <3>2. ASSUME NEW u \in Tasks, ReconcileTask(u) PROVE FALSE
      BY <2>1, <3>2 DEF ReconcileTask, ExpiredTask, Leasable
    <3> QED
      BY <2>7, <3>1, <3>2 DEF ReconcileCommit
  <2> QED
    BY <2>2, <2>3, <2>4, <2>6, <2>7
    DEF Next, ReconcileSelect, ReconcileSkip, ReconcileAbort, SetKill, Tick, vars
<1>5. CASE IntakeFresh(v)
  <2>1. \A u \in Tasks \ {v} : task'[u] = task[u]
    BY <1>1, <1>5 DEF IntakeFresh, TypeOK
  <2>2. t = v
    BY <1>3, <2>1
  <2>3. \A u \in SameSource(t) : u # t /\ task[u].state \in Terminal
    BY <1>2, <1>5, <2>2 DEF IntakeFresh, OpenTasks, SameSource
  <2> QED
    BY <1>3, <2>1, <2>2, <2>3 DEF SameSource
<1>6. ASSUME NEW old \in Tasks, IntakeSupersede(v, old)
      PROVE  /\ \A u \in Tasks \ {t} : ~Arrives(u)
             /\ \A u \in SameSource(t) : task'[u].state \in Terminal
  <2>1. ~Exists(v) /\ Exists(old) /\ OpenTasks(v) = {old} /\ old # v
    BY <1>6 DEF IntakeSupersede, CanInsert, OpenTasks, SameSource
  <2>2. /\ task'[old] = TerminalTask(old, "superseded")
        /\ \A u \in Tasks \ {v, old} : task'[u] = task[u]
    BY <1>1, <1>6, <2>1 DEF IntakeSupersede, TypeOK
  <2>3. ASSUME NEW u \in Tasks, Arrives(u) PROVE u = v
    BY <1>3, <2>1, <2>2, <2>3 DEF Arrives
  <2>4. t = v
    BY <2>3
  <2>5. task'[old].state \in Terminal
    BY <1>1, <2>2, TerminalTaskColumns DEF Terminal
  <2>6. ASSUME NEW u \in SameSource(t), u # old
        PROVE  task'[u].state \in Terminal
    <3>1. u \in Tasks /\ u # v /\ task[u].state \in Terminal
      BY <2>1, <2>4, <2>6 DEF OpenTasks, SameSource
    <3> QED
      BY <2>2, <2>6, <3>1
  <2> QED
    BY <2>3, <2>4, <2>5, <2>6
<1> QED
  BY <1>4, <1>5, <1>6 DEF Intake

\* An arrival gets the highest generation of its source, and nothing else
\* changes generations or reopens a task.
LEMMA SourcesStay ==
  ASSUME SourcesAgree, [Next]_vars
  PROVE  SourcesAgree'
<1>1. Inductive /\ Inductive' /\ TypeOK /\ TypeOK' /\ GenerationsCount /\ OneOpenPerSource
  BY StepInductive DEF SourcesAgree, Inductive
<1>2. ASSUME NEW t \in Tasks
      PROVE  /\ IsFiniteSet(SameSource(t)') /\ Cardinality(SameSource(t))' \in Nat
             /\ SameSource(t) \subseteq SameSource(t)'
             /\ Cardinality(SameSource(t)) <= Cardinality(SameSource(t))'
             /\ IsFiniteSet(SameSource(t)) /\ Cardinality(SameSource(t)) \in Nat
  <2>1. ASSUME NEW u \in Tasks, Exists(u) PROVE Exists(u)'
    BY <1>1, <2>1, GenerationsStay DEF Arrives
  <2>2. SameSource(t) \subseteq SameSource(t)'
    BY <2>1 DEF SameSource
  <2>3. IsFiniteSet(SameSource(t)')
    BY SetsAssumption, FS_Subset DEF SameSource
  <2> QED
    BY <1>1, <2>2, <2>3, FS_Subset, FS_CardinalityType, SameSourceSize
<1>3. ASSUME NEW t \in Tasks, Arrives(t)
      PROVE  /\ SameSource(t)' = SameSource(t) \cup {t}
             /\ t \notin SameSource(t)
             /\ task'[t].gen = Cardinality(SameSource(t)) + 1
             /\ Cardinality(SameSource(t))' = Cardinality(SameSource(t)) + 1
  <2>1. \A u \in Tasks \ {t} : Exists(u)' <=> Exists(u)
    BY <1>1, <1>3, ArrivalClosesOthers, GenerationsStay
  <2>2. Exists(t)' /\ ~Exists(t)
    BY <1>1, <1>3, NewTaskRow DEF Arrives, Exists
  <2>3. SameSource(t)' = SameSource(t) \cup {t} /\ t \notin SameSource(t)
    BY <2>1, <2>2 DEF SameSource
  <2>4. task'[t].gen = Cardinality(SameSource(t)) + 1
    BY <1>1, <1>3, SameSourceSize DEF Arrives
  <2> QED
    BY <1>2, <2>3, <2>4, FS_AddElement
<1>4. GenerationsCount'
  <2> SUFFICES ASSUME NEW t \in Tasks, Exists(t)'
               PROVE  task'[t].gen <= Cardinality(SameSource(t))'
    BY DEF GenerationsCount
  <2>1. CASE Arrives(t)
    BY <1>2, <1>3, <2>1
  <2>2. CASE ~Arrives(t)
    <3>1. Exists(t) /\ task'[t].gen = task[t].gen
      BY <1>1, <2>2, GenerationsStay
    <3>2. task[t].gen <= Cardinality(SameSource(t)) /\ task[t].gen \in Nat
      BY <1>1, <3>1 DEF GenerationsCount, TypeOK, TaskRecords
    <3> QED
      BY <1>2, <3>1, <3>2
  <2> QED
    BY <2>1, <2>2
<1>5. OneOpenPerSource'
  <2> SUFFICES ASSUME NEW t \in Tasks, NEW u \in SameSource(t)', u # t,
                      Exists(t)', task'[t].state \notin Terminal
               PROVE  task'[u].state \in Terminal /\ task'[u].gen < task'[t].gen
    BY DEF OneOpenPerSource
  <2>1. u \in Tasks /\ Exists(u)' /\ SourceOf[u] = SourceOf[t]
    BY DEF SameSource
  <2>2. CASE Arrives(t)
    <3>1. u \in SameSource(t) /\ task'[u].state \in Terminal /\ ~Arrives(u)
      BY <1>1, <1>3, <2>1, <2>2, ArrivalClosesOthers
    <3>2. Exists(u) /\ SameSource(u) = SameSource(t) /\ task'[u].gen = task[u].gen
      BY <1>1, <2>1, <3>1, GenerationsStay DEF SameSource
    <3>3. task[u].gen <= Cardinality(SameSource(t)) /\ task[u].gen \in Nat
      BY <1>1, <2>1, <3>2 DEF GenerationsCount, TypeOK, TaskRecords
    <3> QED
      BY <1>2, <1>3, <2>2, <3>1, <3>2, <3>3
  <2>3. CASE Arrives(u)
    <3>1. ~Arrives(t)
      BY <1>1, <2>1, <2>3, ArrivalClosesOthers
    <3>2. t \in SameSource(u)
      BY <1>1, <2>1, <3>1, GenerationsStay DEF SameSource
    <3> QED
      BY <1>1, <2>1, <2>3, <3>2, ArrivalClosesOthers
  <2>4. CASE ~Arrives(t) /\ ~Arrives(u)
    <3>1. /\ Exists(t) /\ Exists(u) /\ task[t].state \notin Terminal
          /\ task'[t].gen = task[t].gen /\ task'[u].gen = task[u].gen
          /\ task[u].state \in Terminal => task'[u].state \in Terminal
      BY <1>1, <2>1, <2>4, GenerationsStay
    <3>2. u \in SameSource(t)
      BY <2>1, <3>1 DEF SameSource
    <3>3. task[u].state \in Terminal /\ task[u].gen < task[t].gen
      BY <1>1, <3>1, <3>2 DEF OneOpenPerSource
    <3> QED
      BY <3>1, <3>3
  <2> QED
    BY <2>2, <2>3, <2>4
<1> QED
  BY <1>1, <1>4, <1>5 DEF SourcesAgree

\* However intakes, cancels and reconciliations meet, at most one task of a
\* source is open, and it is the newest generation: the unique index
\* tasks_one_active_identity never refuses an insert.
THEOREM OneOpenTask == Spec => []OneOpenPerSource
<1>1. Init => SourcesAgree
  <2>1. Init => \A t \in Tasks : ~Exists(t)
    BY DEF Init, Exists, AbsentTask
  <2> QED
    BY <2>1, InitInductive DEF SourcesAgree, GenerationsCount, OneOpenPerSource
<1>2. SourcesAgree /\ [Next]_vars => SourcesAgree'
  BY SourcesStay
<1>3. SourcesAgree => OneOpenPerSource
  BY DEF SourcesAgree
<1> QED
  BY <1>1, <1>2, <1>3, PTL DEF Spec

---------------------------------------------------------------------------
(* The lease contract                                                      *)

\* the value that Contract gives to holder[t]
HolderOf(t) ==
  IF HeldBy(t) = {} THEN [role |-> "none", fence |-> 0]
  ELSE LET a == CHOOSE b \in HeldBy(t) : TRUE
       IN [role  |-> run[<<t, a>>].role,
           fence |-> run[<<t, a>>].fence]

ClosedTasks == {t \in Tasks : task[t].state \in Terminal}

\* The lease of a task is that of its newest run, while the task is in a lease
\* phase.
HoldersAgree ==
  \A t \in Tasks :
    /\ task[t].state \notin InLease => HolderOf(t) = Contract!Nobody
    /\ task[t].state \in InLease =>
         /\ attempts[t] \in Attempts
         /\ run[<<t, attempts[t]>>].live
         /\ run[<<t, attempts[t]>>].fence = lastFence[t]
         /\ run[<<t, attempts[t]>>].role \in Roles
         /\ HolderOf(t) = [role  |-> run[<<t, attempts[t]>>].role,
                           fence |-> run[<<t, attempts[t]>>].fence]

\* The holder the contract sees is the newest run of a leased task, whose
\* allocation names the same role and fence.
LEMMA HoldersRead == Inductive => HoldersAgree
<1> SUFFICES ASSUME Inductive, NEW t \in Tasks
             PROVE  /\ task[t].state \notin InLease => HolderOf(t) = Contract!Nobody
                    /\ task[t].state \in InLease =>
                         /\ attempts[t] \in Attempts
                         /\ run[<<t, attempts[t]>>].live
                         /\ run[<<t, attempts[t]>>].fence = lastFence[t]
                         /\ run[<<t, attempts[t]>>].role \in Roles
                         /\ HolderOf(t) = [role  |-> run[<<t, attempts[t]>>].role,
                                           fence |-> run[<<t, attempts[t]>>].fence]
  BY DEF HoldersAgree
<1>1. TypeOK /\ RowsAgree(t)
  BY DEF Inductive
<1>2. CASE task[t].state \notin InLease
  <2>1. HeldBy(t) = {}
    BY <1>1, <1>2 DEF HeldBy, RowsAgree, RunAgrees
  <2> QED
    BY <1>2, <2>1 DEF HolderOf, Contract!Nobody
<1>3. CASE task[t].state \in InLease
  <2>1. task[t].cur \in Attempts /\ run[<<t, task[t].cur>>].live
    BY <1>1, <1>3 DEF TypeOK, TaskRecords, RowsAgree, TaskAgrees
  <2>2. task[t].cur = attempts[t]
    BY <1>1, <2>1 DEF RowsAgree, RunAgrees
  <2>3. HeldBy(t) = {attempts[t]}
    BY <1>1, <2>1, <2>2 DEF HeldBy, RowsAgree, RunAgrees
  <2>4. (CHOOSE b \in HeldBy(t) : TRUE) = attempts[t]
    BY <2>3
  <2>5. HolderOf(t) = [role  |-> run[<<t, attempts[t]>>].role,
                       fence |-> run[<<t, attempts[t]>>].fence]
    BY <2>3, <2>4 DEF HolderOf
  <2>6. run[<<t, attempts[t]>>].role \in Roles
    BY <1>1, <2>1, <2>2, RunNames DEF TypeOK, RunRecords
  <2>7. run[<<t, attempts[t]>>].fence = lastFence[t]
    BY <1>1, <2>1, <2>2 DEF RowsAgree, RunAgrees
  <2> QED
    BY <1>3, <2>1, <2>2, <2>5, <2>6, <2>7
<1> QED
  BY <1>2, <1>3

\* The same of the next state.
LEMMA HoldersReadNext == Inductive' => HoldersAgree'
  BY HoldersRead, PTL

\* A fence is only taken by a grant.
LEMMA FencesStay ==
  ASSUME [Next]_vars,
         ~\E w \in Workers, t \in Tasks, length \in LeaseLengths : ClaimGrant(w, t, length)
  PROVE  lastFence' = lastFence
<1>1. ASSUME NEW t \in Tasks, Intake(t) \/ Cancel(t) PROVE lastFence' = lastFence
  BY <1>1 DEF Intake, IntakeFresh, IntakeSupersede, Cancel
<1>2. ASSUME NEW r \in Runs, WorkerCommand(r) PROVE lastFence' = lastFence
  BY <1>2
  DEF WorkerCommand, Heartbeat, TransitionPhase, ReserveBudget, ObserveUsage,
      ObserveUnpriced, ReleaseFailure, ReleaseCompleted
<1>3. ASSUME NEW w \in Workers, Claim(w) PROVE lastFence' = lastFence
  BY <1>3 DEF Claim, ClaimBegin, ClaimEmpty
<1>4. ASSUME \/ ReconcileSelect \/ ReconcileCommit \/ ReconcileSkip
             \/ ReconcileAbort \/ SetKill \/ Tick \/ UNCHANGED vars
      PROVE  lastFence' = lastFence
  BY <1>4
  DEF ReconcileSelect, ReconcileCommit, ReconcileRun, ReconcileTask,
      ReconcileSkip, ReconcileAbort, SetKill, Tick, vars
<1> QED
  BY <1>1, <1>2, <1>3, <1>4 DEF Next

\* As many tasks are held in a role as there are allocations, at most.
LEMMA HeldAllocated ==
  ASSUME Inductive, NEW role \in Roles
  PROVE  LET held == {t \in Tasks : HolderOf(t).role = role}
         IN /\ Cardinality(held) \in Nat /\ Cardinality(Allocated(role)) \in Nat
            /\ Cardinality(held) <= Cardinality(Allocated(role))
<1> DEFINE held == {t \in Tasks : HolderOf(t).role = role}
           task_of == [r \in Allocated(role) |-> r[1]]
<1>1. HoldersAgree /\ TypeOK /\ \A t \in Tasks : RowsAgree(t)
  BY HoldersRead DEF Inductive
<1>2. role # "none"
  BY DEF Roles
<1>3. ASSUME NEW r \in Allocated(role) PROVE r[1] \in held
  <2>1. r[1] \in Tasks /\ r[2] \in Attempts /\ r = <<r[1], r[2]>>
        /\ run[r].alloc /\ run[r].role = role
    BY RunNames DEF Allocated
  <2>2. run[r].live /\ r[2] = attempts[r[1]] /\ task[r[1]].state \in InLease
    <3>1. RunAgrees(r[1], r[2])
      BY <1>1, <2>1 DEF RowsAgree
    <3> QED
      BY <2>1, <3>1 DEF RunAgrees
  <2> QED
    BY <1>1, <2>1, <2>2 DEF HoldersAgree
<1>4. ASSUME NEW t \in held PROVE \E r \in Allocated(role) : r[1] = t
  <2>1. task[t].state \in InLease
    <3>1. HolderOf(t) # Contract!Nobody
      BY <1>2 DEF Contract!Nobody
    <3> QED
      BY <1>1, <3>1 DEF HoldersAgree
  <2>2. /\ attempts[t] \in Attempts /\ run[<<t, attempts[t]>>].live
        /\ run[<<t, attempts[t]>>].role = role
    BY <1>1, <2>1 DEF HoldersAgree
  <2>3. run[<<t, attempts[t]>>].alloc
    BY <1>1, <2>2 DEF RowsAgree, RunAgrees
  <2> QED
    BY <2>2, <2>3, RunNames DEF Allocated
<1>5. task_of \in Surjection(Allocated(role), held)
  BY <1>3, <1>4 DEF Surjection
<1> QED
  BY <1>5, AllocationsFinite, FS_Surjection, FS_CardinalityType

\* What is not the holder of a lease and does not close is not seen.
LEMMA SettledUnseen ==
  ASSUME Inductive, Inductive', NEW t \in Tasks, Settled(t)
  PROVE  /\ HolderOf(t)' = HolderOf(t)
         /\ t \in ClosedTasks' <=> t \in ClosedTasks
<1>1. RunsKept(t)
  BY DEF Settled, Kept, Arrives
<1>2. HeldBy(t)' = HeldBy(t)
  BY <1>1 DEF HeldBy, RunsKept
<1>3. HolderOf(t)' = HolderOf(t)
  <2>1. CASE HeldBy(t) = {}
    BY <1>2, <2>1 DEF HolderOf
  <2>2. CASE HeldBy(t) # {}
    <3> DEFINE a == CHOOSE b \in HeldBy(t) : TRUE
    <3>1. a \in HeldBy(t)
      BY <2>2
    <3>2. a \in Attempts
      BY <3>1 DEF HeldBy
    <3>3. run'[<<t, a>>] = run[<<t, a>>]
      BY <1>1, <3>2 DEF RunsKept
    <3> QED
      BY <1>2, <2>2, <3>3 DEF HolderOf
  <2> QED
    BY <2>1, <2>2
<1>4. task'[t].state \in Terminal <=> task[t].state \in Terminal
  <2>1. CASE Kept(t)
    BY <2>1 DEF Kept
  <2>2. CASE Arrives(t)
    <3>1. task'[t].state = "queued" /\ task[t].state = "absent"
      BY <2>2, NewTaskRow DEF Arrives, Exists, Inductive
    <3> QED
      BY <3>1 DEF Terminal
  <2> QED
    BY <2>1, <2>2 DEF Settled
<1> QED
  BY <1>3, <1>4 DEF ClosedTasks

Holder == [t \in Tasks |-> HolderOf(t)]

\* A step that leaves all tasks but one settled, and this one as described.
LEMMA OneHolderChanges ==
  ASSUME Inductive, Inductive', NEW t \in Tasks, NEW lease,
         HolderOf(t)' = lease,
         \A u \in Tasks \ {t} : Settled(u)
  PROVE  /\ Holder' = [Holder EXCEPT ![t] = lease]
         /\ task'[t].state \in Terminal =>
              ClosedTasks' = ClosedTasks \cup {t}
         /\ task'[t].state \notin Terminal /\ task[t].state \notin Terminal =>
              ClosedTasks' = ClosedTasks
<1>1. \A u \in Tasks \ {t} : /\ HolderOf(u)' = HolderOf(u)
                             /\ u \in ClosedTasks' <=> u \in ClosedTasks
  BY SettledUnseen
<1>2. Holder' = [Holder EXCEPT ![t] = lease]
  BY <1>1 DEF Holder
<1> QED
  BY <1>1, <1>2 DEF ClosedTasks

\* The contract counts with the Cardinality of its own FiniteSets.
LEMMA ContractCounts == \A S : Contract!Cardinality(S) = Cardinality(S)
BY DEF Contract!Cardinality, Cardinality

\* The grant of a claim is a grant of the contract.
LEMMA GrantIsGrant ==
  ASSUME Inductive, Inductive', CapacityRight,
         NEW w \in Workers, NEW t \in Tasks, NEW length \in LeaseLengths,
         ClaimGrant(w, t, length), \A u \in Tasks \ {t} : Settled(u)
  PROVE  Contract!Next
<1> DEFINE a == attempts[t] + 1
<1>1. TypeOK /\ HoldersAgree /\ HoldersAgree'
  BY HoldersRead, HoldersReadNext DEF Inductive
<1>2. PICK role \in Roles : role = claiming[w].role
  <2>1. claiming[w] \in Requests
    BY <1>1 DEF TypeOK, ClaimGrant
  <2> QED
    BY <2>1 DEF Requests
<1>3. /\ task[t].state \in Leasable /\ a \in Attempts
      /\ attempts' = [attempts EXCEPT ![t] = a]
      /\ lastFence' = [lastFence EXCEPT ![t] = @ + 1]
      /\ run' = [run EXCEPT ![<<t, a>>] = NewRun(t, role, length)]
  BY <1>2, ClaimedTask DEF ClaimGrant, Claimable
<1>4. task'[t].state = "leased"
  BY ClaimGrantSteps DEF Starts
<1>5. Holder[t] = Contract!Nobody /\ t \notin ClosedTasks
  BY <1>1, <1>3 DEF HoldersAgree, Holder, ClosedTasks, Leasable, InLease, Terminal
<1>6. HolderOf(t)' = [role |-> role, fence |-> lastFence[t] + 1]
  <2>1. task'[t].state \in InLease /\ attempts'[t] = a /\ lastFence'[t] = lastFence[t] + 1
    BY <1>1, <1>3, <1>4 DEF InLease, TypeOK
  <2>2. run'[<<t, a>>].role = role
    BY <1>1, <1>2, <1>3, NewRunRow, RunNames DEF TypeOK
  <2> HIDE DEF a
  <2> QED
    BY <1>1, <2>1, <2>2 DEF HoldersAgree
<1>7. /\ Holder' = [Holder EXCEPT ![t] = [role |-> role, fence |-> lastFence[t] + 1]]
      /\ ClosedTasks' = ClosedTasks
  <2>1. task[t].state \notin Terminal /\ task'[t].state \notin Terminal
    BY <1>3, <1>4 DEF Leasable, Terminal
  <2> QED
    BY <1>6, <2>1, OneHolderChanges
<1> DEFINE held == {u \in Tasks : HolderOf(u).role = role}
           ceiling == IF role = "reader" THEN GlobalReaders ELSE GlobalWriters
<1>8. Cardinality(held) < ceiling
  <2>1. active[role] < ceiling
    BY <1>2 DEF ClaimGrant, Claimable, EligibleRepos, Roles
  <2>2. active[role] = Cardinality(Allocated(role))
    BY <1>2 DEF CapacityRight, CapacityConsistent
  <2>3. /\ Cardinality(held) \in Nat /\ Cardinality(Allocated(role)) \in Nat
        /\ Cardinality(held) <= Cardinality(Allocated(role))
    BY <1>2, HeldAllocated
  <2>4. ceiling \in Nat
    BY CeilingsAssumption
  <2> HIDE DEF held, ceiling
  <2> QED
    BY <2>1, <2>2, <2>3, <2>4
<1>9. Contract!Grant(t, role)
  <2>1. Contract!Held(role) = held
    BY DEF Contract!Held, HolderOf
  <2>2. /\ role = "reader" => Contract!Cardinality(Contract!Held("reader")) < GlobalReaders
        /\ role = "writer" => Contract!Cardinality(Contract!Held("writer")) < GlobalWriters
    <3> HIDE DEF held
    <3> QED
      BY <1>8, <2>1, ContractCounts
  <2> QED
    BY <1>3, <1>5, <1>7, <2>2
    DEF Contract!Grant, Contract!Nobody, Holder, HolderOf, ClosedTasks
<1> QED
  BY <1>9 DEF Contract!Next, Roles

\* A lease that ends without closing the task.
LEMMA EndIsEnd ==
  ASSUME Inductive, Inductive', NEW t \in Tasks, task[t].state \in InLease,
         task'[t].state \notin InLease \cup Terminal, UNCHANGED lastFence,
         \A u \in Tasks \ {t} : Settled(u)
  PROVE  Contract!Next
<1>1. HoldersAgree /\ HoldersAgree'
  BY HoldersRead, HoldersReadNext
<1>2. Holder[t] # Contract!Nobody
  <2>1. HolderOf(t).role \in Roles
    <3>1. /\ run[<<t, attempts[t]>>].role \in Roles
          /\ HolderOf(t) = [role  |-> run[<<t, attempts[t]>>].role,
                            fence |-> run[<<t, attempts[t]>>].fence]
      BY <1>1 DEF HoldersAgree
    <3>2. HolderOf(t).role = run[<<t, attempts[t]>>].role
      BY <3>1
    <3> QED
      BY <3>1, <3>2
  <2>2. HolderOf(t) # [role |-> "none", fence |-> 0]
    BY <2>1 DEF Roles
  <2> QED
    BY <2>2 DEF Holder, Contract!Nobody
<1>3. HolderOf(t)' = Contract!Nobody
  BY <1>1 DEF HoldersAgree, Contract!Nobody
<1>4. Holder' = [Holder EXCEPT ![t] = Contract!Nobody] /\ ClosedTasks' = ClosedTasks
  BY <1>3, OneHolderChanges DEF InLease, Terminal
<1>5. Contract!End(t)
  BY <1>2, <1>4
  DEF Contract!End, Contract!Nobody, Holder, HolderOf, ClosedTasks
<1> QED
  BY <1>5 DEF Contract!Next

\* A task that reaches a terminal state, with or without a lease.
LEMMA CloseIsClose ==
  ASSUME Inductive, Inductive', NEW t \in Tasks, task[t].state \notin Terminal,
         task'[t].state \in Terminal, UNCHANGED lastFence,
         \A u \in Tasks \ {t} : Settled(u)
  PROVE  Contract!Next
<1>1. HoldersAgree'
  BY HoldersReadNext
<1>2. HolderOf(t)' = Contract!Nobody
  <2>1. task'[t].state \notin InLease
    BY DEF Terminal, InLease
  <2> QED
    BY <1>1, <2>1 DEF HoldersAgree, Contract!Nobody
<1>3. Holder' = [Holder EXCEPT ![t] = Contract!Nobody] /\ ClosedTasks' = ClosedTasks \cup {t}
  BY <1>2, OneHolderChanges
<1>4. t \notin ClosedTasks
  BY DEF ClosedTasks
<1>5. Contract!Close(t)
  BY <1>3, <1>4
  DEF Contract!Close, Contract!Nobody, Holder, HolderOf, ClosedTasks
<1> QED
  BY <1>5 DEF Contract!Next

\* Nothing that the contract speaks of changes.
LEMMA UnseenIsStutter ==
  ASSUME UNCHANGED lastFence,
         \A t \in Tasks : /\ HolderOf(t)' = HolderOf(t)
                          /\ t \in ClosedTasks' <=> t \in ClosedTasks
  PROVE  UNCHANGED Contract!vars
<1>1. Holder' = Holder
  BY DEF Holder
<1>2. ClosedTasks' = ClosedTasks
  BY DEF ClosedTasks
<1> QED
  BY <1>1, <1>2 DEF Contract!vars, Holder, HolderOf, ClosedTasks

\* Every action is a grant, an end or a close of the contract, or a stutter.
LEMMA ContractStep ==
  ASSUME Inductive, CapacityRight, [Next]_vars
  PROVE  [Contract!Next]_Contract!vars
<1>1. Inductive' /\ HoldersAgree /\ HoldersAgree'
  BY StepInductive, HoldersRead, HoldersReadNext
<1>2. ASSUME NEW w \in Workers, NEW t \in Tasks, NEW length \in LeaseLengths,
             ClaimGrant(w, t, length)
      PROVE  Contract!Next
  BY <1>1, <1>2, ClaimGrantSteps, GrantIsGrant DEF Settled
<1>3. CASE ~\E w \in Workers, t \in Tasks, length \in LeaseLengths : ClaimGrant(w, t, length)
  <2>1. lastFence' = lastFence
    BY <1>3, FencesStay
  <2>2. CASE \A t \in Tasks : Settled(t)
    BY <1>1, <2>1, <2>2, SettledUnseen, UnseenIsStutter
  <2>3. ASSUME NEW t \in Tasks, ~Settled(t) PROVE [Contract!Next]_Contract!vars
    <3>1. \A u \in Tasks \ {t} : Settled(u)
      BY <2>3, OneTaskMoves
    <3>2. ASSUME HolderOf(t)' = HolderOf(t), t \in ClosedTasks' <=> t \in ClosedTasks
          PROVE  UNCHANGED Contract!vars
      BY <1>1, <2>1, <3>1, <3>2, SettledUnseen, UnseenIsStutter
    <3>3. ~Starts(t)
      BY <2>1 DEF Starts, Inductive, TypeOK
    <3>4. CASE Stops(t) \/ Completes(t)
      <4>1. task[t].state \notin Terminal /\ task'[t].state \notin InLease
        BY <3>4 DEF Stops, Completes, Stopped, InLease, Terminal
      <4>2. CASE task'[t].state \in Terminal
        BY <1>1, <2>1, <3>1, <4>1, <4>2, CloseIsClose
      <4>3. CASE task'[t].state \notin Terminal /\ task[t].state \in InLease
        BY <1>1, <2>1, <3>1, <4>1, <4>3, EndIsEnd
      <4>4. CASE task'[t].state \notin Terminal /\ task[t].state \notin InLease
        <5>1. HolderOf(t)' = HolderOf(t)
          BY <1>1, <4>1, <4>4 DEF HoldersAgree, Contract!Nobody
        <5> QED
          BY <3>2, <4>1, <4>4, <5>1 DEF ClosedTasks
      <4> QED
        BY <4>2, <4>3, <4>4
    <3>5. CASE Works(t)
      <4>1. /\ task[t].state \in InLease /\ task'[t].state \in InLease
            /\ attempts'[t] = attempts[t] /\ attempts[t] \in Attempts
            /\ SameLease(<<t, attempts[t]>>)
        BY <1>1, <3>5 DEF Works, HoldersAgree
      <4>2. HolderOf(t)' = HolderOf(t)
        BY <1>1, <4>1 DEF HoldersAgree, SameLease
      <4> QED
        BY <3>2, <4>1, <4>2 DEF ClosedTasks, InLease, Terminal
    <3> QED
      BY <2>3, <3>3, <3>4, <3>5, TaskSteps DEF TaskStep, Settled
  <2> QED
    BY <2>2, <2>3
<1> QED
  BY <1>2, <1>3

\* The store implements LeaseContract: every step of its rows, counters and
\* clocks is a grant, an end or a close of one lease, or is not seen.
THEOREM StoreImplementsContract == Spec => ImplementsContract
<1>1. Init => Contract!Init
  <2> SUFFICES ASSUME Init PROVE Contract!Init
    OBVIOUS
  <2>1. \A t \in Tasks : HeldBy(t) = {}
    BY RunNames DEF Init, HeldBy, AbsentRun
  <2>2. \A t \in Tasks : task[t].state = "absent"
    BY DEF Init, AbsentTask
  <2> QED
    BY <2>1, <2>2 DEF Init, Contract!Init, Contract!Nobody, Terminal
<1>2. Inductive /\ CapacityRight /\ [Next]_vars => [Contract!Next]_Contract!vars
  BY ContractStep
<1> QED
  BY <1>1, <1>2, RowsInvariant, CapacityInvariant, PTL
  DEF Spec, ImplementsContract, Contract!Spec

---------------------------------------------------------------------------
(* Kill switches                                                           *)

\* A worker that got its grant under the present switches has no claim in
\* progress that they cover.
GrantsStop ==
  \A w \in Workers :
    /\ late[w] \in {0, 1}
    /\ late[w] = 1 /\ claiming[w] # Idle => ~Covered(claiming[w].repos)

\* Only a claim that finds no switch on begins; any other step leaves the
\* claim of a worker in progress or ends it.
LEMMA ClaimsBeginUncovered ==
  ASSUME TypeOK, [Next]_vars, NEW w \in Workers
  PROVE  \/ claiming'[w] = claiming[w]
         \/ claiming'[w] = Idle
         \/ claiming[w] = Idle /\ kill' = kill /\ ~Covered(claiming'[w].repos)
<1>1. ASSUME NEW v \in Workers, Claim(v)
      PROVE  \/ claiming'[w] = claiming[w]
             \/ claiming'[w] = Idle
             \/ claiming[w] = Idle /\ kill' = kill /\ ~Covered(claiming'[w].repos)
  <2>1. CASE ClaimEmpty(v)
    BY <2>1 DEF ClaimEmpty, TypeOK
  <2>2. ASSUME NEW t \in Tasks, NEW length \in LeaseLengths, ClaimGrant(v, t, length)
        PROVE  claiming'[w] = claiming[w] \/ claiming'[w] = Idle
    BY <2>2 DEF ClaimGrant, TypeOK
  <2>3. ASSUME NEW request \in Requests, ClaimBegin(v, request)
        PROVE  \/ claiming'[w] = claiming[w]
               \/ claiming[w] = Idle /\ kill' = kill /\ ~Covered(claiming'[w].repos)
    <3>1. /\ claiming[v] = Idle /\ kill' = kill
          /\ claiming' = [claiming EXCEPT ![v] = request]
      BY <2>3 DEF ClaimBegin
    <3>2. ~Covered(request.repos)
      BY <2>3 DEF ClaimBegin, Killed, Covered
    <3> QED
      BY <3>1, <3>2 DEF TypeOK
  <2> QED
    BY <1>1, <2>1, <2>2, <2>3 DEF Claim
<1>2. ASSUME NEW t \in Tasks, Intake(t) \/ Cancel(t) PROVE claiming' = claiming
  BY <1>2 DEF Intake, IntakeFresh, IntakeSupersede, Cancel
<1>3. ASSUME NEW r \in Runs, WorkerCommand(r) PROVE claiming' = claiming
  BY <1>3
  DEF WorkerCommand, Heartbeat, TransitionPhase, ReserveBudget, ObserveUsage,
      ObserveUnpriced, ReleaseFailure, ReleaseCompleted
<1>4. ASSUME \/ ReconcileSelect \/ ReconcileCommit \/ ReconcileSkip
             \/ ReconcileAbort \/ SetKill \/ Tick \/ UNCHANGED vars
      PROVE  claiming' = claiming
  BY <1>4
  DEF ReconcileSelect, ReconcileCommit, ReconcileRun, ReconcileTask,
      ReconcileSkip, ReconcileAbort, SetKill, Tick, vars
<1> QED
  BY <1>1, <1>2, <1>3, <1>4 DEF Next

\* After a kill switch is set each worker gets at most the one grant whose
\* claim had already read the switches.
THEOREM KillSwitchStops == KillSpec => []KillStopsNewGrants
<1> DEFINE Inv == Inductive /\ GrantsStop
<1>1. KillInit => Inv
  BY InitInductive DEF KillInit, GrantsStop
<1>2. ASSUME Inv, KillNext PROVE GrantsStop'
  <2>1. TypeOK /\ [Next]_vars /\ GrantsStop
    BY <1>2 DEF Inductive, KillNext
  <2>2. ASSUME NEW w \in Workers
        PROVE  /\ late'[w] \in {0, 1}
               /\ late'[w] = 1 /\ claiming'[w] # Idle => ~Covered(claiming[w].repos)'
    <3>1. late'[w] = IF kill' # kill THEN 0
                     ELSE IF Granted(w) /\ Covered(claiming[w].repos)
                     THEN late[w] + 1 ELSE late[w]
      BY <1>2 DEF KillNext
    <3>2. /\ late[w] \in {0, 1}
          /\ late[w] = 1 /\ claiming[w] # Idle => ~Covered(claiming[w].repos)
      BY <2>1 DEF GrantsStop
    <3>3. CASE kill' # kill
      BY <3>1, <3>3
    <3>4. CASE kill' = kill /\ Granted(w) /\ Covered(claiming[w].repos)
      <4>1. claiming[w] # Idle /\ claiming'[w] = Idle
        BY <3>4 DEF Granted
      <4> QED
        BY <3>1, <3>2, <3>4, <4>1
    <3>5. CASE kill' = kill /\ ~(Granted(w) /\ Covered(claiming[w].repos))
      <4>1. late'[w] = late[w]
        BY <3>1, <3>5
      <4>2. Covered(claiming[w].repos)' <=> Covered(claiming'[w].repos)
        BY <3>5 DEF Covered
      <4> QED
        BY <2>1, <3>2, <3>5, <4>1, <4>2, ClaimsBeginUncovered
    <3> QED
      BY <3>3, <3>4, <3>5
  <2> QED
    BY <2>2 DEF GrantsStop
<1>3. Inv /\ [KillNext]_<<vars, late>> => Inv'
  <2>1. Inv /\ KillNext => Inv'
    BY <1>2, StepInductive DEF KillNext
  <2>2. Inv /\ UNCHANGED <<vars, late>> => Inv'
    <3> SUFFICES ASSUME Inv, UNCHANGED <<vars, late>> PROVE Inv'
      OBVIOUS
    <3>1. Inductive'
      BY StepInductive
    <3>2. GrantsStop'
      BY DEF GrantsStop, Covered, vars
    <3> QED
      BY <3>1, <3>2
  <2> QED
    BY <2>1, <2>2
<1>4. Inv => KillStopsNewGrants
  BY DEF GrantsStop, KillStopsNewGrants
<1> QED
  BY <1>1, <1>3, <1>4, PTL DEF KillSpec
=============================================================================
