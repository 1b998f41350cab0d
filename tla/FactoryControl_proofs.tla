----------------------- MODULE FactoryControl_proofs ------------------------
(***************************************************************************)
(* Theorems about FactoryControl, for every value of its constants that     *)
(* satisfies SetsAssumption, LimitsAssumption and CeilingsAssumption.       *)
(*                                                                         *)
(* The rows of a task (the task itself, its runs, its attempt number and    *)
(* its lease sequence) hang together on their own: an action changes the    *)
(* rows of one task, or of two when an intake supersedes. So the inductive  *)
(* invariant is the type invariant and, for each task, RowsAgree; a step    *)
(* keeps RowsAgree of the tasks it does not touch (RowsUntouched).          *)
(***************************************************************************)
EXTENDS FactoryControl, FiniteSetTheorems, TLAPS

RunStates == {"absent", "leased", "completed", "failed", "released", "expired"}

\* A run is live exactly when it holds an allocation, and then it is the
\* newest run of its task and the one the task points to. Runs that were
\* never started are blank, and an older run has no open reservation.
RunAgrees(t, a) ==
  LET row == run[<<t, a>>] IN
  /\ row.alloc <=> row.live
  /\ row.live =>
       /\ row.state = "leased"
       /\ task[t].state \in InLease
       /\ task[t].cur = a
       /\ a = attempts[t]
       /\ task[t].curFence = row.fence
       /\ row.fence = lastFence[t]
       /\ row.expires <= task[t].deadline
  /\ row.fence <= lastFence[t]
  /\ attempts[t] < a => row.state = "absent"
  /\ row.state = "absent" => ~row.live
  /\ a # attempts[t] => row.openCount = 0 /\ row.openCost = 0

\* A task in a lease phase has a live run, any other points to none; its
\* attempts stay within its retries, its reservations are those of the newest
\* run, and a task that has not arrived has no history.
TaskAgrees(t) ==
  /\ IF task[t].state \in InLease
     THEN task[t].cur # 0 /\ run[<<t, task[t].cur>>].live
     ELSE task[t].cur = 0 /\ task[t].curFence = 0
  /\ attempts[t] <= Retries[t] + 1
  /\ task[t].state \in Leasable => attempts[t] <= Retries[t]
  /\ task[t].reserved =
       IF attempts[t] = 0 THEN 0 ELSE run[<<t, attempts[t]>>].openCost
  /\ task[t].reserved + task[t].observed <= CostLimit[t]
  /\ task[t].state = "absent" => attempts[t] = 0 /\ ~task[t].blocked

RowsAgree(t) == TaskAgrees(t) /\ \A a \in Attempts : RunAgrees(t, a)

Inductive == TypeOK /\ \A t \in Tasks : RowsAgree(t)

---------------------------------------------------------------------------
(* The rows                                                                *)

\* A run is named by a task and an attempt number.
LEMMA RunNames ==
  /\ \A t \in Tasks, a \in Attempts :
       <<t, a>> \in Runs /\ <<t, a>>[1] = t /\ <<t, a>>[2] = a
  /\ \A r \in Runs :
       r[1] \in Tasks /\ r[2] \in Attempts /\ r = <<r[1], r[2]>>
BY DEF Runs

\* Before the first intake every row is blank.
LEMMA InitInductive == Init => Inductive
<1> SUFFICES ASSUME Init PROVE Inductive
  OBVIOUS
<1>1. TypeOK
  <2>1. AbsentTask \in TaskRecords
    BY DEF AbsentTask, TaskRecords, States, Attempts
  <2>2. AbsentRun \in RunRecords
    BY DEF AbsentRun, RunRecords, Roles
  <2> QED
    BY <2>1, <2>2 DEF Init, TypeOK
<1>2. ASSUME NEW t \in Tasks PROVE RowsAgree(t)
  <2>1. TaskAgrees(t)
    BY LimitsAssumption, SetsAssumption
    DEF Init, TaskAgrees, AbsentTask, InLease, Leasable
  <2>2. ASSUME NEW a \in Attempts PROVE RunAgrees(t, a)
    <3>1. run[<<t, a>>] = AbsentRun
      BY RunNames DEF Init
    <3> QED
      BY <3>1 DEF Init, RunAgrees, AbsentRun
  <2> QED
    BY <2>1, <2>2 DEF RowsAgree
<1> QED
  BY <1>1, <1>2 DEF Inductive

\* A step that leaves the rows of a task alone keeps them in agreement.
LEMMA RowsUntouched ==
  ASSUME NEW t \in Tasks, RowsAgree(t),
         task'[t] = task[t], attempts'[t] = attempts[t],
         lastFence'[t] = lastFence[t],
         \A a \in Attempts : run'[<<t, a>>] = run[<<t, a>>],
         task[t].cur \in {0} \cup Attempts,
         attempts[t] \in {0} \cup Attempts
  PROVE  RowsAgree(t)'
<1>1. TaskAgrees(t)'
  BY DEF RowsAgree, TaskAgrees, InLease
<1>2. ASSUME NEW a \in Attempts PROVE RunAgrees(t, a)'
  BY <1>2 DEF RowsAgree, RunAgrees
<1> QED
  BY <1>1, <1>2 DEF RowsAgree

\* A step that only ends the lease of attempt a: the run is closed and the
\* task leaves the lease phases for a state it may be in.
LEMMA LeaseEnds ==
  ASSUME TypeOK, NEW t \in Tasks, NEW a \in Attempts, RowsAgree(t),
         run[<<t, a>>].live,
         NEW state \in RunStates \ {"absent"},
         run'[<<t, a>>] = Closed(run[<<t, a>>], state),
         \A b \in Attempts \ {a} : run'[<<t, b>>] = run[<<t, b>>],
         attempts'[t] = attempts[t], lastFence'[t] = lastFence[t],
         task'[t].state \in States \ (InLease \cup {"absent"}),
         task'[t].state \in Leasable => attempts[t] <= Retries[t],
         task'[t].cur = 0, task'[t].curFence = 0,
         task'[t].reserved = task[t].reserved,
         task'[t].observed = task[t].observed
  PROVE  RowsAgree(t)'
<1>1. run[<<t, a>>] \in RunRecords
  BY RunNames DEF TypeOK
<1>2. /\ run'[<<t, a>>].live = FALSE
      /\ run'[<<t, a>>].alloc = FALSE
      /\ run'[<<t, a>>].state = state
      /\ run'[<<t, a>>].fence = run[<<t, a>>].fence
      /\ run'[<<t, a>>].openCount = run[<<t, a>>].openCount
      /\ run'[<<t, a>>].openCost = run[<<t, a>>].openCost
  BY <1>1 DEF Closed, RunRecords
<1>3. a = attempts[t]
  BY DEF RowsAgree, RunAgrees
<1>4. TaskAgrees(t)'
  BY <1>2, <1>3 DEF RowsAgree, TaskAgrees
<1>5. ASSUME NEW b \in Attempts PROVE RunAgrees(t, b)'
  <2>1. CASE b = a
    BY <2>1, <1>2, <1>3 DEF RowsAgree, RunAgrees, RunStates, Attempts
  <2>2. CASE b # a
    BY <2>2, <1>3 DEF RowsAgree, RunAgrees
  <2> QED
    BY <2>1, <2>2
<1> QED
  BY <1>4, <1>5 DEF RowsAgree

\* A step that moves a task without a lease, or its state only, to another
\* state outside the lease phases.
LEMMA UnleasedMoves ==
  ASSUME TypeOK, NEW t \in Tasks, RowsAgree(t),
         task[t].state \in States \ (InLease \cup {"absent"}),
         \A a \in Attempts : run'[<<t, a>>] = run[<<t, a>>],
         attempts'[t] = attempts[t], lastFence'[t] = lastFence[t],
         task'[t].state \in States \ (InLease \cup Leasable \cup {"absent"}),
         task'[t].cur = 0, task'[t].curFence = 0,
         task'[t].reserved = task[t].reserved,
         task'[t].observed = task[t].observed
  PROVE  RowsAgree(t)'
<1>1. TaskAgrees(t)'
  BY DEF RowsAgree, TaskAgrees, TypeOK
<1>2. ASSUME NEW a \in Attempts PROVE RunAgrees(t, a)'
  BY <1>2 DEF RowsAgree, RunAgrees
<1> QED
  BY <1>1, <1>2 DEF RowsAgree

\* A step that touches the rows of one task only.
LEMMA OneTaskTouched ==
  ASSUME Inductive, NEW t \in Tasks, TypeOK', RowsAgree(t)',
         \A u \in Tasks \ {t} :
           /\ task'[u] = task[u]
           /\ attempts'[u] = attempts[u]
           /\ lastFence'[u] = lastFence[u]
           /\ \A a \in Attempts : run'[<<u, a>>] = run[<<u, a>>]
  PROVE  Inductive'
<1>1. ASSUME NEW u \in Tasks \ {t} PROVE RowsAgree(u)'
  <2>1. task[u].cur \in {0} \cup Attempts /\ attempts[u] \in {0} \cup Attempts
    BY DEF Inductive, TypeOK, TaskRecords
  <2> QED
    BY <2>1, RowsUntouched DEF Inductive
<1> QED
  BY <1>1 DEF Inductive

\* A step that touches no row.
LEMMA NoTaskTouched ==
  ASSUME Inductive, TypeOK', UNCHANGED <<task, run, attempts, lastFence>>
  PROVE  Inductive'
<1>1. ASSUME NEW t \in Tasks PROVE RowsAgree(t)'
  <2>1. task[t].cur \in {0} \cup Attempts /\ attempts[t] \in {0} \cup Attempts
    BY DEF Inductive, TypeOK, TaskRecords
  <2> QED
    BY <2>1, RowsUntouched DEF Inductive
<1> QED
  BY <1>1 DEF Inductive

\* Closing a run changes that run and the capacity counters.
LEMMA CloseRunRows ==
  ASSUME TypeOK, NEW r \in Runs, NEW state \in RunStates, CloseRun(r, state)
  PROVE  /\ run' \in [Runs -> RunRecords]
         /\ run'[r] = Closed(run[r], state)
         /\ \A q \in Runs \ {r} : run'[q] = run[q]
         /\ active' \in [Roles -> Int]
         /\ readersIn' \in [Repos -> Int]
<1>1. Closed(run[r], state) \in RunRecords
  BY DEF TypeOK, Closed, RunRecords, RunStates
<1>2. run[r].role \in Roles
  BY DEF TypeOK, RunRecords
<1>3. RepoOfTask(r[1]) \in Repos
  BY SetsAssumption, RunNames DEF RepoOfTask
<1>4. /\ run' = [run EXCEPT ![r] = Closed(run[r], state)]
      /\ active' = [active EXCEPT ![run[r].role] = @ - 1]
      /\ readersIn' = IF run[r].role = "reader"
                      THEN [readersIn EXCEPT ![RepoOfTask(r[1])] = @ - 1]
                      ELSE readersIn
  BY DEF CloseRun, CapacityRelease
<1>5. /\ run' \in [Runs -> RunRecords]
      /\ run'[r] = Closed(run[r], state)
      /\ \A q \in Runs \ {r} : run'[q] = run[q]
  BY <1>1, <1>4 DEF TypeOK
<1>6. active' \in [Roles -> Int]
  BY <1>2, <1>4 DEF TypeOK
<1>7. readersIn' \in [Repos -> Int]
  BY <1>3, <1>4 DEF TypeOK
<1> QED
  BY <1>5, <1>6, <1>7

\* What a worker command may rely on once it has locked its grant.
LEMMA GrantHolder ==
  ASSUME Inductive, NEW r \in Runs, HoldsLease(r)
  PROVE  /\ r[1] \in Tasks /\ r[2] \in Attempts /\ r = <<r[1], r[2]>>
         /\ RowsAgree(r[1])
         /\ run[r].live
         /\ r[2] = attempts[r[1]]
         /\ task[r[1]].state \in InLease
         /\ task[r[1]].reserved = run[r].openCost
<1>1. r[1] \in Tasks /\ r[2] \in Attempts /\ r = <<r[1], r[2]>>
  BY RunNames
<1>2. RowsAgree(r[1])
  BY <1>1 DEF Inductive
<1>3. run[<<r[1], r[2]>>].live /\ task[r[1]].state \in InLease
  BY <1>1 DEF HoldsLease
<1>4. r[2] = attempts[r[1]]
  BY <1>1, <1>2, <1>3 DEF RowsAgree, RunAgrees
<1>5. task[r[1]].reserved = run[<<r[1], r[2]>>].openCost
  BY <1>1, <1>2, <1>4 DEF RowsAgree, TaskAgrees, Attempts
<1> QED
  BY <1>1, <1>2, <1>3, <1>4, <1>5

---------------------------------------------------------------------------
(* Intake and cancel                                                       *)

\* A new task is queued with a generation of its own.
LEMMA NewTaskRow ==
  ASSUME TypeOK, NEW t \in Tasks
  PROVE  /\ NewTask(t) \in TaskRecords
         /\ NewTask(t).state = "queued"
         /\ NewTask(t).cur = 0 /\ NewTask(t).curFence = 0
         /\ NewTask(t).reserved = 0 /\ NewTask(t).observed = 0
         /\ ~NewTask(t).blocked
<1>1. Cardinality(SameSource(t)) \in Nat
  BY SetsAssumption, FS_Subset, FS_CardinalityType DEF SameSource
<1>2. now + Wall[t] \in Nat
  BY LimitsAssumption DEF TypeOK
<1> DEFINE gen == Cardinality(SameSource(t)) + 1
           deadline == now + Wall[t]
<1>3. gen \in Nat /\ deadline \in Nat
  BY <1>1, <1>2
<1>4. NewTask(t) = [AbsentTask EXCEPT !.state = "queued", !.gen = gen,
                                     !.deadline = deadline]
  BY DEF NewTask
<1> HIDE DEF gen, deadline
<1>5. NewTask(t) = [state |-> "queued", gen |-> gen, cur |-> 0,
                    curFence |-> 0, deadline |-> deadline, repairs |-> 0,
                    reserved |-> 0, observed |-> 0, blocked |-> FALSE]
  BY <1>4 DEF AbsentTask
<1> QED
  BY <1>3, <1>5 DEF TaskRecords, States, Leasable

\* A task that arrives starts without attempts.
LEMMA IntakeArrives ==
  ASSUME Inductive, NEW t \in Tasks, ~Exists(t),
         task'[t] = NewTask(t), attempts'[t] = attempts[t],
         lastFence'[t] = lastFence[t],
         \A a \in Attempts : run'[<<t, a>>] = run[<<t, a>>]
  PROVE  RowsAgree(t)'
<1>1. RowsAgree(t) /\ TypeOK
  BY DEF Inductive
<1>2. attempts[t] = 0
  BY <1>1 DEF RowsAgree, TaskAgrees, Exists
<1>3. \A a \in Attempts : ~run[<<t, a>>].live
  BY <1>1, <1>2 DEF RowsAgree, RunAgrees, Attempts
<1>4. TaskAgrees(t)'
  BY <1>1, <1>2, NewTaskRow, LimitsAssumption
  DEF TaskAgrees, InLease, Leasable
<1>5. ASSUME NEW a \in Attempts PROVE RunAgrees(t, a)'
  BY <1>1, <1>2, <1>3 DEF RowsAgree, RunAgrees
<1> QED
  BY <1>4, <1>5 DEF RowsAgree

\* Closing the lease of a task that is terminalized, if it has one.
LEMMA ActiveLeaseCloses ==
  ASSUME Inductive, NEW t \in Tasks, CloseActiveLease(t)
  PROVE  /\ run' \in [Runs -> RunRecords]
         /\ active' \in [Roles -> Int]
         /\ readersIn' \in [Repos -> Int]
         /\ \A u \in Tasks \ {t}, a \in Attempts : run'[<<u, a>>] = run[<<u, a>>]
         /\ \/ /\ task[t].state \in InLease
               /\ task[t].cur \in Attempts
               /\ run[<<t, task[t].cur>>].live
               /\ run'[<<t, task[t].cur>>] =
                    Closed(run[<<t, task[t].cur>>], "released")
               /\ \A a \in Attempts \ {task[t].cur} :
                    run'[<<t, a>>] = run[<<t, a>>]
            \/ /\ task[t].state \notin InLease
               /\ \A a \in Attempts : run'[<<t, a>>] = run[<<t, a>>]
<1>1. TypeOK /\ RowsAgree(t)
  BY DEF Inductive
<1>2. CASE \E a \in Attempts : task[t].cur = a /\ run[<<t, a>>].live
  <2> DEFINE r == <<t, task[t].cur>>
  <2>1. task[t].cur \in Attempts /\ run[r].live /\ r \in Runs
    BY <1>2, RunNames
  <2>2. task[t].state \in InLease
    BY <1>1, <2>1 DEF RowsAgree, RunAgrees
  <2>3. CloseRun(r, "released")
    BY <1>2 DEF CloseActiveLease
  <2>4. "released" \in RunStates
    BY DEF RunStates
  <2>5. /\ run' \in [Runs -> RunRecords]
        /\ run'[r] = Closed(run[r], "released")
        /\ \A q \in Runs \ {r} : run'[q] = run[q]
        /\ active' \in [Roles -> Int]
        /\ readersIn' \in [Repos -> Int]
    BY <1>1, <2>1, <2>3, <2>4, CloseRunRows
  <2>6. \A u \in Tasks, a \in Attempts :
          <<u, a>> # r => <<u, a>> \in Runs \ {r}
    BY RunNames
  <2> QED
    BY <2>1, <2>2, <2>5, <2>6
<1>3. CASE ~\E a \in Attempts : task[t].cur = a /\ run[<<t, a>>].live
  <2>1. UNCHANGED <<run, active, readersIn>>
    BY <1>3 DEF CloseActiveLease
  <2>2. task[t].cur \in {0} \cup Attempts
    BY <1>1 DEF TypeOK, TaskRecords
  <2>3. task[t].state \notin InLease
    BY <1>1, <1>3, <2>2 DEF RowsAgree, TaskAgrees
  <2> QED
    BY <1>1, <2>1, <2>3 DEF TypeOK
<1> QED
  BY <1>2, <1>3

\* The row of a task after _terminalize_task.
LEMMA TerminalTaskRow ==
  ASSUME TypeOK, NEW t \in Tasks, NEW target \in Terminal \cup {"needs_human"}
  PROVE  /\ TerminalTask(t, target) \in TaskRecords
         /\ TerminalTask(t, target).state = target
         /\ TerminalTask(t, target).cur = 0
         /\ TerminalTask(t, target).curFence = 0
         /\ TerminalTask(t, target).reserved = task[t].reserved
         /\ TerminalTask(t, target).observed = task[t].observed
<1>1. task[t] \in TaskRecords
  BY DEF TypeOK
<1>2. Unsettled(t) \in BOOLEAN
  BY <1>1 DEF Unsettled, TaskRecords
<1> QED
  BY <1>1, <1>2 DEF TerminalTask, TaskRecords, States, Attempts

\* Cancel and supersede: the lease, if any, ends with the task.
LEMMA TerminalizeKeeps ==
  ASSUME Inductive, NEW t \in Tasks, NEW target \in Terminal,
         Exists(t), task[t].state \notin Terminal,
         CloseActiveLease(t), task'[t] = TerminalTask(t, target),
         attempts'[t] = attempts[t], lastFence'[t] = lastFence[t]
  PROVE  RowsAgree(t)'
<1>1. TypeOK /\ RowsAgree(t)
  BY DEF Inductive
<1>2. /\ task'[t].state = target
      /\ task'[t].cur = 0 /\ task'[t].curFence = 0
      /\ task'[t].reserved = task[t].reserved
      /\ task'[t].observed = task[t].observed
  BY <1>1, TerminalTaskRow
<1>3. /\ target \in States \ (InLease \cup Leasable \cup {"absent"})
      /\ target \notin Leasable
  BY DEF Terminal, States, InLease, Leasable
<1>4. CASE task[t].state \in InLease
  <2> DEFINE a == task[t].cur
  <2>1. /\ a \in Attempts /\ run[<<t, a>>].live
        /\ run'[<<t, a>>] = Closed(run[<<t, a>>], "released")
        /\ \A b \in Attempts \ {a} : run'[<<t, b>>] = run[<<t, b>>]
    BY <1>4, ActiveLeaseCloses
  <2>2. "released" \in RunStates \ {"absent"}
    BY DEF RunStates
  <2> HIDE DEF a
  <2> QED
    BY <1>1, <1>2, <1>3, <2>1, <2>2, LeaseEnds
<1>5. CASE task[t].state \notin InLease
  <2>1. \A a \in Attempts : run'[<<t, a>>] = run[<<t, a>>]
    BY <1>5, ActiveLeaseCloses
  <2>2. task[t].state \in States \ (InLease \cup {"absent"})
    BY <1>1, <1>5 DEF TypeOK, TaskRecords, Exists
  <2> QED
    BY <1>1, <1>2, <1>3, <2>1, <2>2, UnleasedMoves
<1> QED
  BY <1>4, <1>5

LEMMA IntakeFreshKeeps ==
  ASSUME Inductive, NEW t \in Tasks, IntakeFresh(t)
  PROVE  Inductive'
<1>1. TypeOK /\ ~Exists(t)
  BY DEF Inductive, IntakeFresh, CanInsert
<1>2. task' = [task EXCEPT ![t] = NewTask(t)]
  BY DEF IntakeFresh
<1>3. TypeOK'
  BY <1>1, <1>2, NewTaskRow DEF TypeOK, IntakeFresh
<1>4. task'[t] = NewTask(t) /\ \A u \in Tasks \ {t} : task'[u] = task[u]
  BY <1>1, <1>2 DEF TypeOK
<1>5. RowsAgree(t)'
  BY <1>1, <1>4, IntakeArrives DEF IntakeFresh
<1> QED
  BY <1>3, <1>4, <1>5, OneTaskTouched DEF IntakeFresh

LEMMA IntakeSupersedeKeeps ==
  ASSUME Inductive, NEW t \in Tasks, NEW old \in Tasks, IntakeSupersede(t, old)
  PROVE  Inductive'
<1>1. TypeOK /\ ~Exists(t)
  BY DEF Inductive, IntakeSupersede, CanInsert
<1>2. Exists(old) /\ task[old].state \notin Terminal /\ old # t
  BY <1>1 DEF IntakeSupersede, OpenTasks, SameSource
<1>3. "superseded" \in Terminal
  BY DEF Terminal
<1>4. /\ task' = [task EXCEPT ![old] = TerminalTask(old, "superseded"),
                             ![t] = NewTask(t)]
      /\ CloseActiveLease(old)
      /\ UNCHANGED <<attempts, lastFence>>
  BY DEF IntakeSupersede
<1>5. TypeOK'
  <2>1. task' \in [Tasks -> TaskRecords]
    BY <1>1, <1>3, <1>4, NewTaskRow, TerminalTaskRow DEF TypeOK
  <2>2. /\ run' \in [Runs -> RunRecords]
        /\ active' \in [Roles -> Int]
        /\ readersIn' \in [Repos -> Int]
    BY <1>4, ActiveLeaseCloses
  <2> QED
    BY <1>1, <2>1, <2>2 DEF TypeOK, IntakeSupersede
<1>6. /\ task'[t] = NewTask(t)
      /\ task'[old] = TerminalTask(old, "superseded")
      /\ \A u \in Tasks \ {t, old} : task'[u] = task[u]
  BY <1>1, <1>2, <1>4 DEF TypeOK
<1>7. \A u \in Tasks \ {old}, a \in Attempts : run'[<<u, a>>] = run[<<u, a>>]
  BY <1>4, ActiveLeaseCloses
<1>8. RowsAgree(old)'
  BY <1>2, <1>3, <1>4, <1>6, TerminalizeKeeps
<1>9. RowsAgree(t)'
  BY <1>1, <1>2, <1>4, <1>6, <1>7, IntakeArrives
<1>10. ASSUME NEW u \in Tasks \ {t, old} PROVE RowsAgree(u)'
  <2>1. task[u].cur \in {0} \cup Attempts /\ attempts[u] \in {0} \cup Attempts
    BY <1>1 DEF TypeOK, TaskRecords
  <2> QED
    BY <1>4, <1>6, <1>7, <2>1, RowsUntouched DEF Inductive
<1> QED
  BY <1>5, <1>8, <1>9, <1>10 DEF Inductive

LEMMA CancelKeeps ==
  ASSUME Inductive, NEW t \in Tasks, Cancel(t)
  PROVE  Inductive'
<1>1. TypeOK
  BY DEF Inductive
<1>2. "cancelled" \in Terminal
  BY DEF Terminal
<1>3. task' = [task EXCEPT ![t] = TerminalTask(t, "cancelled")]
  BY DEF Cancel
<1>4. TypeOK'
  <2>1. task' \in [Tasks -> TaskRecords]
    BY <1>1, <1>2, <1>3, TerminalTaskRow DEF TypeOK
  <2>2. /\ run' \in [Runs -> RunRecords]
        /\ active' \in [Roles -> Int]
        /\ readersIn' \in [Repos -> Int]
    BY ActiveLeaseCloses DEF Cancel
  <2> QED
    BY <1>1, <2>1, <2>2 DEF TypeOK, Cancel
<1>5. /\ task'[t] = TerminalTask(t, "cancelled")
      /\ \A u \in Tasks \ {t} : task'[u] = task[u]
  BY <1>1, <1>3 DEF TypeOK
<1>6. RowsAgree(t)'
  BY <1>2, <1>5, TerminalizeKeeps DEF Cancel
<1>7. \A u \in Tasks \ {t}, a \in Attempts : run'[<<u, a>>] = run[<<u, a>>]
  BY ActiveLeaseCloses DEF Cancel
<1> QED
  BY <1>4, <1>5, <1>6, <1>7, OneTaskTouched DEF Cancel

---------------------------------------------------------------------------
(* Claim                                                                   *)

\* The run that a claim inserts.
LEMMA NewRunRow ==
  ASSUME TypeOK, NEW t \in Tasks, NEW role \in Roles, NEW length \in LeaseLengths
  PROVE  /\ NewRun(t, role, length) \in RunRecords
         /\ NewRun(t, role, length).state = "leased"
         /\ NewRun(t, role, length).role = role
         /\ NewRun(t, role, length).fence = lastFence[t] + 1
         /\ NewRun(t, role, length).expires <= task[t].deadline
         /\ NewRun(t, role, length).live
         /\ NewRun(t, role, length).alloc
         /\ NewRun(t, role, length).openCount = 0
         /\ NewRun(t, role, length).openCost = 0
<1> DEFINE expires == Earliest(now + length, task[t].deadline)
           fence == lastFence[t] + 1
<1>1. expires \in Nat /\ expires <= task[t].deadline
  BY LimitsAssumption DEF TypeOK, TaskRecords, Earliest
<1>2. fence \in Nat
  BY DEF TypeOK
<1>3. NewRun(t, role, length) =
        [AbsentRun EXCEPT !.state = "leased", !.role = role, !.fence = fence,
                          !.expires = expires, !.live = TRUE, !.alloc = TRUE]
  BY DEF NewRun
<1> HIDE DEF expires
<1>4. NewRun(t, role, length) =
        [state |-> "leased", role |-> role, fence |-> fence,
         expires |-> expires, live |-> TRUE, alloc |-> TRUE,
         openCount |-> 0, openCost |-> 0, usage |-> {}]
  BY <1>3 DEF AbsentRun
<1> QED
  BY <1>1, <1>2, <1>4 DEF RunRecords

\* The claimed task has no other live run, and nothing reserved.
LEMMA ClaimedTask ==
  ASSUME Inductive, NEW t \in Tasks, task[t].state \in Leasable, ~Unsettled(t)
  PROVE  /\ \A a \in Attempts :
              /\ ~run[<<t, a>>].live
              /\ run[<<t, a>>].openCount = 0
              /\ run[<<t, a>>].openCost = 0
         /\ task[t].reserved = 0
         /\ attempts[t] + 1 \in Attempts
         /\ attempts[t] <= Retries[t]
<1>1. TypeOK /\ RowsAgree(t)
  BY DEF Inductive
<1>2. task[t].reserved = 0 /\ \A a \in Attempts : ~(run[<<t, a>>].openCount > 0)
  BY DEF Unsettled, HasOpenReservation
<1>3. ASSUME NEW a \in Attempts
      PROVE  /\ ~run[<<t, a>>].live
             /\ run[<<t, a>>].openCount = 0
             /\ run[<<t, a>>].openCost = 0
  <2>1. run[<<t, a>>] \in RunRecords
    BY <1>1, RunNames DEF TypeOK
  <2>2. ~run[<<t, a>>].live
    BY <1>1 DEF RowsAgree, RunAgrees, Leasable, InLease
  <2>3. run[<<t, a>>].openCount = 0
    BY <1>2, <2>1 DEF RunRecords
  <2>4. run[<<t, a>>].openCost = 0
    BY <1>1, <1>2 DEF RowsAgree, RunAgrees, TaskAgrees, Attempts
  <2> QED
    BY <2>2, <2>3, <2>4
<1>4. attempts[t] <= Retries[t] /\ attempts[t] + 1 \in Attempts
  BY <1>1, LimitsAssumption DEF RowsAgree, TaskAgrees, TypeOK, Attempts
<1> QED
  BY <1>2, <1>3, <1>4

LEMMA ClaimGrantKeeps ==
  ASSUME Inductive, NEW w \in Workers, NEW t \in Tasks, NEW length \in LeaseLengths,
         ClaimGrant(w, t, length)
  PROVE  Inductive'
<1> DEFINE a == attempts[t] + 1
           role == claiming[w].role
           r == <<t, a>>
<1>1. TypeOK /\ RowsAgree(t)
  BY DEF Inductive
<1>2. role \in Roles
  <2>1. claiming[w] \in Requests
    BY <1>1 DEF TypeOK, ClaimGrant
  <2> QED
    BY <2>1 DEF Requests
<1>3. task[t].state \in Leasable /\ ~Unsettled(t)
  BY DEF ClaimGrant, Claimable
<1>4. /\ \A b \in Attempts :
           /\ ~run[<<t, b>>].live
           /\ run[<<t, b>>].openCount = 0
           /\ run[<<t, b>>].openCost = 0
      /\ task[t].reserved = 0
      /\ a \in Attempts
      /\ attempts[t] <= Retries[t]
  BY <1>3, ClaimedTask
<1>5. r \in Runs
  BY <1>4, RunNames
<1> HIDE DEF role
<1>6. NewRun(t, role, length) \in RunRecords
  BY <1>1, <1>2, NewRunRow
<1>7. /\ run' = [run EXCEPT ![r] = NewRun(t, role, length)]
      /\ attempts' = [attempts EXCEPT ![t] = a]
      /\ lastFence' = [lastFence EXCEPT ![t] = @ + 1]
      /\ CapacityAllocate(RepoOfTask(t), role)
  BY DEF ClaimGrant, role
<1> DEFINE row == [task[t] EXCEPT !.state = "leased", !.cur = a,
                                  !.curFence = lastFence[t] + 1]
<1>8. /\ row \in TaskRecords
      /\ row.state = "leased" /\ row.cur = a
      /\ row.curFence = lastFence[t] + 1
      /\ row.reserved = task[t].reserved /\ row.observed = task[t].observed
      /\ row.deadline = task[t].deadline
  <2>1. task[t] \in TaskRecords /\ lastFence[t] + 1 \in Nat
    BY <1>1 DEF TypeOK
  <2>2. "leased" \in States /\ a \in {0} \cup Attempts
    BY <1>4 DEF States, InLease
  <2> DEFINE fence == lastFence[t] + 1
  <2> HIDE DEF a
  <2>3. row = [task[t] EXCEPT !.state = "leased", !.cur = a, !.curFence = fence]
    BY DEF row, fence
  <2> HIDE DEF row
  <2> QED
    BY <2>1, <2>2, <2>3 DEF TaskRecords
<1>9. task' = [task EXCEPT ![t] = row]
  BY <1>1 DEF ClaimGrant, TypeOK
<1> HIDE DEF row
<1>10. TypeOK'
  <2>1. task' \in [Tasks -> TaskRecords]
    BY <1>1, <1>8, <1>9 DEF TypeOK
  <2>2. active' \in [Roles -> Int] /\ readersIn' \in [Repos -> Int]
    <3>1. RepoOfTask(t) \in Repos
      BY SetsAssumption DEF RepoOfTask
    <3>2. active' \in [Roles -> Int]
      BY <1>1, <1>2, <1>7 DEF TypeOK, CapacityAllocate
    <3>3. readersIn' \in [Repos -> Int]
      BY <1>1, <3>1, <1>7 DEF TypeOK, CapacityAllocate
    <3> QED
      BY <3>2, <3>3
  <2>3. run' \in [Runs -> RunRecords] /\ attempts' \in [Tasks -> {0} \cup Attempts]
    BY <1>1, <1>4, <1>5, <1>6, <1>7 DEF TypeOK
  <2>4. claiming' \in [Workers -> Requests \cup {Idle}]
    BY <1>1 DEF TypeOK, ClaimGrant
  <2>5. lastFence' \in [Tasks -> Nat] /\ events' \in [Tasks -> Nat]
    BY <1>1, <1>7 DEF TypeOK, ClaimGrant
  <2> QED
    BY <1>1, <2>1, <2>2, <2>3, <2>4, <2>5 DEF TypeOK, ClaimGrant
<1>11. /\ task'[t].state = "leased" /\ task'[t].cur = a
      /\ task'[t].curFence = lastFence[t] + 1
      /\ task'[t].reserved = 0 /\ task'[t].observed = task[t].observed
      /\ task'[t].deadline = task[t].deadline
      /\ attempts'[t] = a /\ lastFence'[t] = lastFence[t] + 1
      /\ \A u \in Tasks \ {t} : /\ task'[u] = task[u]
                                /\ attempts'[u] = attempts[u]
                                /\ lastFence'[u] = lastFence[u]
  BY <1>1, <1>4, <1>7, <1>8, <1>9 DEF TypeOK
<1>12. /\ run'[r] = NewRun(t, role, length)
       /\ \A q \in Runs \ {r} : run'[q] = run[q]
  BY <1>1, <1>5, <1>7 DEF TypeOK
<1>13. \A u \in Tasks, b \in Attempts :
         <<u, b>> # r => run'[<<u, b>>] = run[<<u, b>>]
  BY <1>12, RunNames
<1>14. RowsAgree(t)'
  <2>1. TaskAgrees(t)'
    <3>1. run'[<<t, a>>].live /\ run'[<<t, a>>].openCost = 0
      BY <1>1, <1>2, <1>12, NewRunRow
    <3>2. /\ task'[t].state \in InLease /\ task'[t].cur # 0
          /\ run'[<<t, task'[t].cur>>].live
      BY <1>4, <1>11, <3>1 DEF InLease, Attempts
    <3>3. attempts'[t] <= Retries[t] + 1 /\ attempts'[t] # 0
      BY <1>1, <1>4, <1>11, LimitsAssumption DEF TypeOK, Attempts
    <3>4. task'[t].reserved + task'[t].observed <= CostLimit[t]
      BY <1>1, <1>4, <1>11 DEF RowsAgree, TaskAgrees
    <3>5. task'[t].state \notin Leasable /\ task'[t].state # "absent"
      BY <1>11 DEF Leasable
    <3> QED
      BY <1>11, <3>1, <3>2, <3>3, <3>4, <3>5 DEF TaskAgrees
  <2>2. ASSUME NEW b \in Attempts PROVE RunAgrees(t, b)'
    <3>1. CASE b = a
      <4>1. /\ run'[<<t, a>>].state = "leased" /\ run'[<<t, a>>].live
            /\ run'[<<t, a>>].alloc
            /\ run'[<<t, a>>].fence = lastFence[t] + 1
            /\ run'[<<t, a>>].expires <= task'[t].deadline
            /\ run'[<<t, a>>] \in RunRecords
        BY <1>1, <1>2, <1>6, <1>11, <1>12, NewRunRow
      <4>2. task'[t].state \in InLease
        BY <1>11 DEF InLease
      <4>3. run'[<<t, a>>].alloc = TRUE /\ run'[<<t, a>>].live = TRUE
        BY <4>1 DEF RunRecords
      <4>4. lastFence[t] + 1 \in Nat /\ a \in Nat
        BY <1>1, <1>4 DEF TypeOK, Attempts
      <4> HIDE DEF a
      <4> QED
        BY <3>1, <1>11, <4>1, <4>2, <4>3, <4>4 DEF RunAgrees
    <3>2. CASE b # a
      <4>1. run'[<<t, b>>] = run[<<t, b>>] /\ run[<<t, b>>] \in RunRecords
        BY <3>2, <1>1, <1>13, RunNames DEF TypeOK
      <4>2. RunAgrees(t, b) /\ ~run[<<t, b>>].live
        BY <1>1, <1>4 DEF RowsAgree
      <4>3. run[<<t, b>>].fence <= lastFence[t] + 1
        BY <1>1, <4>1, <4>2 DEF RunAgrees, RunRecords, TypeOK
      <4>4. a < b => run[<<t, b>>].state = "absent"
        BY <1>1, <4>2 DEF RunAgrees, TypeOK, Attempts
      <4> HIDE DEF a
      <4> QED
        BY <3>2, <1>4, <1>11, <4>1, <4>2, <4>3, <4>4 DEF RunAgrees
    <3> QED
      BY <3>1, <3>2
  <2> QED
    BY <2>1, <2>2 DEF RowsAgree
<1> QED
  BY <1>10, <1>11, <1>13, <1>14, OneTaskTouched

---------------------------------------------------------------------------
(* Commands of a worker                                                    *)

\* A command that changes the rows of the run and of its task while the lease
\* goes on.
LEMMA LeaseGoesOn ==
  ASSUME Inductive, TypeOK', NEW r \in Runs, HoldsLease(r),
         UNCHANGED <<attempts, lastFence>>,
         \A q \in Runs \ {r} : run'[q] = run[q],
         \A u \in Tasks \ {r[1]} : task'[u] = task[u],
         run'[r].state = "leased", run'[r].live, run'[r].alloc,
         run'[r].fence = run[r].fence,
         run'[r].expires <= task'[r[1]].deadline,
         task'[r[1]].state \in InLease,
         task'[r[1]].cur = task[r[1]].cur,
         task'[r[1]].curFence = task[r[1]].curFence,
         task'[r[1]].reserved = run'[r].openCost,
         task'[r[1]].reserved + task'[r[1]].observed <= CostLimit[r[1]]
  PROVE  Inductive'
<1> DEFINE t == r[1]
           a == r[2]
<1>1. /\ t \in Tasks /\ a \in Attempts /\ r = <<t, a>>
      /\ RowsAgree(t) /\ a = attempts[t] /\ run[r].live
  BY GrantHolder
<1>2. TypeOK
  BY DEF Inductive
<1>3. \A u \in Tasks, b \in Attempts :
        <<u, b>> # r => run'[<<u, b>>] = run[<<u, b>>]
  BY RunNames
<1> HIDE DEF t, a
<1>4. /\ run'[<<t, a>>].state = "leased" /\ run'[<<t, a>>].live
      /\ run'[<<t, a>>].alloc
      /\ run'[<<t, a>>].fence = run[<<t, a>>].fence
      /\ run'[<<t, a>>].expires <= task'[t].deadline
      /\ task'[t].state \in InLease /\ task'[t].cur = task[t].cur
      /\ task'[t].curFence = task[t].curFence
      /\ task'[t].reserved = run'[<<t, a>>].openCost
      /\ task'[t].reserved + task'[t].observed <= CostLimit[t]
      /\ attempts'[t] = attempts[t] /\ lastFence'[t] = lastFence[t]
      /\ run[<<t, a>>].live
  BY <1>1 DEF t
<1>5. TaskAgrees(t)'
  <2>1. task[t].cur = a
    BY <1>1, <1>4 DEF RowsAgree, RunAgrees
  <2> QED
    BY <1>1, <1>4, <2>1
    DEF RowsAgree, TaskAgrees, InLease, Leasable, Attempts
<1>6. ASSUME NEW b \in Attempts PROVE RunAgrees(t, b)'
  <2>1. CASE b = a
    BY <2>1, <1>1, <1>4 DEF RowsAgree, RunAgrees
  <2>2. CASE b # a
    <3>1. run'[<<t, b>>] = run[<<t, b>>]
      BY <2>2, <1>1, <1>3
    <3>2. ~run[<<t, b>>].live
      BY <2>2, <1>1 DEF RowsAgree, RunAgrees
    <3> QED
      BY <2>2, <3>1, <3>2, <1>1, <1>4 DEF RowsAgree, RunAgrees
  <2> QED
    BY <2>1, <2>2
<1>7. RowsAgree(t)'
  BY <1>5, <1>6 DEF RowsAgree
<1>8. \A u \in Tasks \ {t} :
        /\ task'[u] = task[u]
        /\ attempts'[u] = attempts[u] /\ lastFence'[u] = lastFence[u]
        /\ \A b \in Attempts : run'[<<u, b>>] = run[<<u, b>>]
  BY <1>1, <1>3 DEF t
<1> QED
  BY <1>1, <1>7, <1>8, OneTaskTouched

LEMMA HeartbeatKeeps ==
  ASSUME Inductive, NEW r \in Runs, Heartbeat(r)
  PROVE  Inductive'
<1> DEFINE t == r[1]
           expires == Earliest(now + HeartbeatLength, task[t].deadline)
           row == [run[r] EXCEPT !.expires = expires]
<1>1. TypeOK /\ HoldsLease(r) /\ t \in Tasks
  BY RunNames DEF Inductive, Heartbeat, LockGrant
<1>2. expires \in Nat /\ expires <= task[t].deadline
  BY <1>1, LimitsAssumption DEF TypeOK, TaskRecords, Earliest
<1>3. run' = [run EXCEPT ![r] = row]
  BY <1>1 DEF Heartbeat, TypeOK
<1> HIDE DEF expires
<1>4. /\ row \in RunRecords
      /\ row.state = run[r].state /\ row.live = run[r].live
      /\ row.alloc = run[r].alloc /\ row.fence = run[r].fence
      /\ row.expires = expires /\ row.openCost = run[r].openCost
  BY <1>1, <1>2 DEF TypeOK, RunRecords
<1> HIDE DEF row
<1>5. /\ run' \in [Runs -> RunRecords] /\ run'[r] = row
      /\ \A q \in Runs \ {r} : run'[q] = run[q]
  BY <1>1, <1>3, <1>4 DEF TypeOK
<1>6. TypeOK'
  BY <1>1, <1>5 DEF TypeOK, Heartbeat
<1>7. task' = task /\ UNCHANGED <<attempts, lastFence>>
  BY DEF Heartbeat
<1>8. /\ run[r].state = "leased" /\ run[r].live /\ run[r].alloc
      /\ task[t].state \in InLease
      /\ task[t].reserved = run[r].openCost
      /\ task[t].reserved + task[t].observed <= CostLimit[t]
  BY <1>1, GrantHolder DEF HoldsLease, RowsAgree, TaskAgrees
<1> QED
  BY <1>1, <1>2, <1>4, <1>5, <1>6, <1>7, <1>8, LeaseGoesOn

LEMMA TransitionPhaseKeeps ==
  ASSUME Inductive, NEW r \in Runs, TransitionPhase(r)
  PROVE  Inductive'
<1> DEFINE t == r[1]
           row == [task[t] EXCEPT !.state = NextPhase[@]]
<1>1. TypeOK /\ HoldsLease(r) /\ t \in Tasks
  BY RunNames DEF Inductive, TransitionPhase, LockGrant
<1>2. task' = [task EXCEPT ![t] = row]
  BY <1>1 DEF TransitionPhase, TypeOK
<1>3. NextPhase[task[t].state] \in InLease /\ InLease \subseteq States
  BY DEF TransitionPhase, NextPhase, InLease, States
<1>4. /\ row \in TaskRecords /\ row.state \in InLease
      /\ row.cur = task[t].cur /\ row.curFence = task[t].curFence
      /\ row.deadline = task[t].deadline
      /\ row.reserved = task[t].reserved /\ row.observed = task[t].observed
  BY <1>1, <1>3 DEF TypeOK, TaskRecords
<1> HIDE DEF row
<1>5. /\ task' \in [Tasks -> TaskRecords] /\ task'[t] = row
      /\ \A u \in Tasks \ {t} : task'[u] = task[u]
  BY <1>1, <1>2, <1>4 DEF TypeOK
<1>6. events' \in [Tasks -> Nat]
  BY <1>1 DEF TypeOK, TransitionPhase
<1>7. TypeOK'
  BY <1>1, <1>5, <1>6 DEF TypeOK, TransitionPhase
<1>8. run' = run /\ UNCHANGED <<attempts, lastFence>>
  BY DEF TransitionPhase
<1>9. /\ run[r].state = "leased" /\ run[r].live /\ run[r].alloc
      /\ run[r].expires <= task[t].deadline
      /\ task[t].reserved = run[r].openCost
      /\ task[t].reserved + task[t].observed <= CostLimit[t]
  BY <1>1, GrantHolder DEF HoldsLease, RowsAgree, TaskAgrees, RunAgrees
<1> QED
  BY <1>1, <1>4, <1>5, <1>7, <1>8, <1>9, LeaseGoesOn

LEMMA ReserveBudgetKeeps ==
  ASSUME Inductive, NEW r \in Runs, NEW cost \in Costs, ReserveBudget(r, cost)
  PROVE  Inductive'
<1> DEFINE t == r[1]
           reserved == task[t].reserved + cost
           count == run[r].openCount + 1
           open == run[r].openCost + cost
           row == [task[t] EXCEPT !.reserved = reserved]
           entry == [run[r] EXCEPT !.openCount = count, !.openCost = open]
<1>1. /\ TypeOK /\ HoldsLease(r) /\ t \in Tasks /\ cost \in Nat
      /\ task[t].reserved + task[t].observed + cost <= CostLimit[t]
  BY RunNames, LimitsAssumption
  DEF Inductive, ReserveBudget, LockGrant, WithinLimit
<1>2. /\ task' = [task EXCEPT ![t] = row]
      /\ run' = [run EXCEPT ![r] = entry]
  BY <1>1 DEF ReserveBudget, TypeOK, TaskRecords, RunRecords
<1>3. reserved \in Nat /\ count \in Nat /\ open \in Nat
  BY <1>1 DEF TypeOK, TaskRecords, RunRecords
<1>4. /\ reserved + task[t].observed <= CostLimit[t]
      /\ run[r].openCost = task[t].reserved => open = reserved
  BY <1>1 DEF TypeOK, TaskRecords
<1> HIDE DEF reserved, count, open
<1>5. /\ row \in TaskRecords /\ row.state = task[t].state
      /\ row.cur = task[t].cur /\ row.curFence = task[t].curFence
      /\ row.deadline = task[t].deadline
      /\ row.reserved = reserved
      /\ row.observed = task[t].observed
  BY <1>1, <1>3 DEF TypeOK, TaskRecords
<1>6. /\ entry \in RunRecords
      /\ entry.state = run[r].state /\ entry.live = run[r].live
      /\ entry.alloc = run[r].alloc /\ entry.fence = run[r].fence
      /\ entry.expires = run[r].expires
      /\ entry.openCost = open
  BY <1>1, <1>3 DEF TypeOK, RunRecords
<1> HIDE DEF row, entry
<1>7. /\ task' \in [Tasks -> TaskRecords] /\ task'[t] = row
      /\ \A u \in Tasks \ {t} : task'[u] = task[u]
      /\ run' \in [Runs -> RunRecords] /\ run'[r] = entry
      /\ \A q \in Runs \ {r} : run'[q] = run[q]
  BY <1>1, <1>2, <1>5, <1>6 DEF TypeOK
<1>8. TypeOK'
  BY <1>1, <1>7 DEF TypeOK, ReserveBudget
<1>9. UNCHANGED <<attempts, lastFence>>
  BY DEF ReserveBudget
<1>10. /\ run[r].state = "leased" /\ run[r].live /\ run[r].alloc
      /\ run[r].expires <= task[t].deadline /\ task[t].state \in InLease
      /\ task[t].reserved = run[r].openCost
  BY <1>1, GrantHolder DEF HoldsLease, RowsAgree, RunAgrees
<1> QED
  BY <1>1, <1>4, <1>5, <1>6, <1>7, <1>8, <1>9, <1>10, LeaseGoesOn

LEMMA ObserveUsageKeeps ==
  ASSUME Inductive, NEW r \in Runs, NEW call \in Calls, NEW cost \in Costs,
         ObserveUsage(r, call, cost)
  PROVE  Inductive'
<1> DEFINE t == r[1]
           fits == task[t].observed + cost <= CostLimit[t]
           reserved == task[t].reserved - run[r].openCost
           observed == IF fits THEN task[t].observed + cost ELSE task[t].observed
           blocked == IF fits THEN task[t].blocked ELSE TRUE
           usage == IF fits THEN run[r].usage \cup {call} ELSE run[r].usage
           row == [task[t] EXCEPT !.reserved = reserved, !.observed = observed,
                                  !.blocked = blocked]
           entry == [run[r] EXCEPT !.openCount = 0, !.openCost = 0, !.usage = usage]
<1>1. /\ TypeOK /\ HoldsLease(r) /\ t \in Tasks /\ cost \in Nat
      /\ CostLimit[t] \in Nat
      /\ task[t] \in TaskRecords /\ run[r] \in RunRecords
  BY RunNames, LimitsAssumption DEF Inductive, ObserveUsage, LockGrant, TypeOK
<1>2. /\ task[t].reserved = run[r].openCost
      /\ task[t].reserved + task[t].observed <= CostLimit[t]
      /\ run[r].state = "leased" /\ run[r].live /\ run[r].alloc
      /\ run[r].expires <= task[t].deadline /\ task[t].state \in InLease
  BY <1>1, GrantHolder DEF HoldsLease, RowsAgree, TaskAgrees, RunAgrees
<1>3. reserved = 0 /\ observed \in Nat /\ observed <= CostLimit[t]
  BY <1>1, <1>2 DEF TaskRecords, RunRecords
<1>4. blocked \in BOOLEAN /\ usage \in SUBSET Calls
  BY <1>1 DEF TaskRecords, RunRecords
<1>5. /\ task' = [task EXCEPT ![t] = row]
      /\ run' = [run EXCEPT ![r] = entry]
  <2>1. run' = [run EXCEPT ![r] =
                 [WithoutReservations(run[r]) EXCEPT
                    !.usage = IF fits THEN @ \cup {call} ELSE @]]
    BY DEF ObserveUsage
  <2>2. [WithoutReservations(run[r]) EXCEPT
           !.usage = IF fits THEN @ \cup {call} ELSE @] = entry
    BY <1>1 DEF WithoutReservations, RunRecords
  <2>3. task' = [task EXCEPT ![t].reserved = reserved,
                             ![t].observed = observed, ![t].blocked = blocked]
    BY <1>1 DEF ObserveUsage, TypeOK, TaskRecords
  <2> HIDE DEF reserved, observed, blocked
  <2> QED
    BY <2>1, <2>2, <2>3, <1>1 DEF TypeOK
<1> HIDE DEF fits, reserved, observed, blocked, usage
<1>6. /\ row \in TaskRecords /\ row.state = task[t].state
      /\ row.cur = task[t].cur /\ row.curFence = task[t].curFence
      /\ row.deadline = task[t].deadline
      /\ row.reserved = 0 /\ row.observed = observed
  BY <1>1, <1>3, <1>4 DEF TaskRecords
<1>7. /\ entry \in RunRecords
      /\ entry.state = run[r].state /\ entry.live = run[r].live
      /\ entry.alloc = run[r].alloc /\ entry.fence = run[r].fence
      /\ entry.expires = run[r].expires /\ entry.openCost = 0
  BY <1>1, <1>4 DEF RunRecords
<1> HIDE DEF row, entry
<1>8. /\ task' \in [Tasks -> TaskRecords] /\ task'[t] = row
      /\ \A u \in Tasks \ {t} : task'[u] = task[u]
      /\ run' \in [Runs -> RunRecords] /\ run'[r] = entry
      /\ \A q \in Runs \ {r} : run'[q] = run[q]
  BY <1>1, <1>5, <1>6, <1>7 DEF TypeOK
<1>9. TypeOK'
  BY <1>1, <1>8 DEF TypeOK, ObserveUsage
<1>10. UNCHANGED <<attempts, lastFence>>
  BY DEF ObserveUsage
<1>11. 0 + observed <= CostLimit[t]
  BY <1>3
<1> QED
  BY <1>1, <1>2, <1>6, <1>7, <1>8, <1>9, <1>10, <1>11, LeaseGoesOn

LEMMA ObserveUnpricedKeeps ==
  ASSUME Inductive, NEW r \in Runs, ObserveUnpriced(r)
  PROVE  Inductive'
<1> DEFINE t == r[1]
           row == [task[t] EXCEPT !.blocked = TRUE]
<1>1. TypeOK /\ HoldsLease(r) /\ t \in Tasks /\ task[t] \in TaskRecords
  BY RunNames DEF Inductive, ObserveUnpriced, LockGrant, TypeOK
<1>2. task' = [task EXCEPT ![t] = row]
  BY <1>1 DEF ObserveUnpriced, TypeOK
<1>3. /\ row \in TaskRecords /\ row.state = task[t].state
      /\ row.cur = task[t].cur /\ row.curFence = task[t].curFence
      /\ row.deadline = task[t].deadline
      /\ row.reserved = task[t].reserved /\ row.observed = task[t].observed
  BY <1>1 DEF TaskRecords
<1> HIDE DEF row
<1>4. /\ task' \in [Tasks -> TaskRecords] /\ task'[t] = row
      /\ \A u \in Tasks \ {t} : task'[u] = task[u]
  BY <1>1, <1>2, <1>3 DEF TypeOK
<1>5. run' = run /\ UNCHANGED <<attempts, lastFence>>
  BY DEF ObserveUnpriced
<1>6. TypeOK'
  BY <1>1, <1>4 DEF TypeOK, ObserveUnpriced
<1>7. /\ run[r].state = "leased" /\ run[r].live /\ run[r].alloc
      /\ run[r].expires <= task[t].deadline /\ task[t].state \in InLease
      /\ task[t].reserved = run[r].openCost
      /\ task[t].reserved + task[t].observed <= CostLimit[t]
  BY <1>1, GrantHolder DEF HoldsLease, RowsAgree, TaskAgrees, RunAgrees
<1> QED
  BY <1>1, <1>3, <1>4, <1>5, <1>6, <1>7, LeaseGoesOn

---------------------------------------------------------------------------
(* Release and reconciliation                                              *)

\* The part of _release_locked that every way of ending a lease shares.
LEMMA ReleaseKeeps ==
  ASSUME Inductive, NEW r \in Runs, HoldsLease(r),
         NEW state \in RunStates \ {"absent"}, CloseRun(r, state),
         NEW row \in TaskRecords, task' = [task EXCEPT ![r[1]] = row],
         row.state \in States \ (InLease \cup {"absent"}),
         row.state \in Leasable => r[2] <= Retries[r[1]],
         row.cur = 0, row.curFence = 0,
         row.reserved = task[r[1]].reserved, row.observed = task[r[1]].observed,
         UNCHANGED <<now, attempts, lastFence, events, kill, claiming>>,
         pageRuns' \subseteq Runs, pageTasks' \subseteq Tasks
  PROVE  Inductive'
<1> DEFINE t == r[1]
           a == r[2]
<1>1. /\ t \in Tasks /\ a \in Attempts /\ r = <<t, a>> /\ TypeOK
      /\ RowsAgree(t) /\ run[<<t, a>>].live /\ a = attempts[t]
  BY GrantHolder DEF Inductive
<1>2. /\ run' \in [Runs -> RunRecords]
      /\ run'[r] = Closed(run[r], state)
      /\ \A q \in Runs \ {r} : run'[q] = run[q]
      /\ active' \in [Roles -> Int]
      /\ readersIn' \in [Repos -> Int]
  BY <1>1, CloseRunRows
<1>3. /\ task' \in [Tasks -> TaskRecords] /\ task'[t] = row
      /\ \A u \in Tasks \ {t} : task'[u] = task[u]
  BY <1>1 DEF TypeOK
<1>4. TypeOK'
  BY <1>1, <1>2, <1>3 DEF TypeOK
<1>5. \A u \in Tasks, b \in Attempts :
        <<u, b>> # r => run'[<<u, b>>] = run[<<u, b>>]
  BY <1>2, RunNames
<1> HIDE DEF t, a
<1>6. /\ run'[<<t, a>>] = Closed(run[<<t, a>>], state)
      /\ \A b \in Attempts \ {a} : run'[<<t, b>>] = run[<<t, b>>]
  BY <1>1, <1>2, <1>5
<1>7. /\ task'[t].state \in States \ (InLease \cup {"absent"})
      /\ task'[t].state \in Leasable => attempts[t] <= Retries[t]
      /\ task'[t].cur = 0 /\ task'[t].curFence = 0
      /\ task'[t].reserved = task[t].reserved
      /\ task'[t].observed = task[t].observed
  BY <1>1, <1>3 DEF t, a
<1>8. RowsAgree(t)'
  BY <1>1, <1>6, <1>7, LeaseEnds
<1>9. \A u \in Tasks \ {t}, b \in Attempts : run'[<<u, b>>] = run[<<u, b>>]
  BY <1>1, <1>5
<1> QED
  BY <1>1, <1>3, <1>4, <1>8, <1>9, OneTaskTouched

\* Where a failed lease sends its task: back to retry only with an attempt
\* left.
LEMMA FailureTargets ==
  ASSUME NEW r \in Runs, NEW class
  PROVE  /\ FailureTarget(r, class) \in {"needs_human", "dead", "retry"}
         /\ FailureTarget(r, class) = "retry" => ~(r[2] > Retries[r[1]])
         /\ DeadlineTarget(r[1]) \in {"needs_human", "dead"}
BY DEF FailureTarget, DeadlineTarget

LEMMA ReleaseFailureKeeps ==
  ASSUME Inductive, NEW r \in Runs, NEW class \in FailureClasses,
         ReleaseFailure(r, class)
  PROVE  Inductive'
<1> DEFINE t == r[1]
           target == FailureTarget(r, class)
           blocked == Unsettled(t)
           row == [task[t] EXCEPT !.state = target, !.cur = 0, !.curFence = 0,
                                  !.blocked = blocked]
<1>1. /\ TypeOK /\ HoldsLease(r) /\ t \in Tasks /\ task[t] \in TaskRecords
      /\ r[2] \in Int /\ Retries[t] \in Int
  <2>1. TypeOK /\ HoldsLease(r)
    BY DEF Inductive, ReleaseFailure, LockGrant
  <2> QED
    BY <2>1, RunNames, LimitsAssumption DEF TypeOK, Attempts
<1>2. /\ target \in States \ (InLease \cup {"absent"})
      /\ target \in Leasable => r[2] <= Retries[t]
  BY <1>1, FailureTargets DEF States, InLease, Leasable, Terminal
<1>3. blocked \in BOOLEAN
  BY <1>1 DEF Unsettled, TaskRecords
<1>4. task' = [task EXCEPT ![t] = row]
  BY DEF ReleaseFailure, Released
<1> HIDE DEF target, blocked
<1>5. /\ row \in TaskRecords /\ row.state = target
      /\ row.cur = 0 /\ row.curFence = 0
      /\ row.reserved = task[t].reserved /\ row.observed = task[t].observed
  BY <1>1, <1>2, <1>3 DEF TaskRecords
<1>6. "failed" \in RunStates \ {"absent"}
  BY DEF RunStates
<1>7. /\ CloseRun(r, "failed")
      /\ UNCHANGED <<now, attempts, lastFence, events, kill, claiming,
                     pageRuns, pageTasks>>
  BY DEF ReleaseFailure
<1> HIDE DEF row
<1>8. pageRuns' \subseteq Runs /\ pageTasks' \subseteq Tasks
  BY <1>1, <1>7 DEF TypeOK
<1> QED
  BY <1>1, <1>2, <1>4, <1>5, <1>6, <1>7, <1>8, ReleaseKeeps

LEMMA ReleaseCompletedKeeps ==
  ASSUME Inductive, NEW r \in Runs, ReleaseCompleted(r)
  PROVE  Inductive'
<1> DEFINE t == r[1]
           row == [task[t] EXCEPT !.state = "ready_for_human", !.cur = 0,
                                  !.curFence = 0]
<1>1. TypeOK /\ HoldsLease(r)
  BY DEF Inductive, ReleaseCompleted, LockGrant
<1>2. t \in Tasks /\ task[t] \in TaskRecords
  BY <1>1, RunNames DEF TypeOK
<1>3. /\ "ready_for_human" \in States \ (InLease \cup {"absent"})
      /\ "ready_for_human" \notin Leasable
  BY DEF States, InLease, Leasable, Terminal
<1>4. task' = [task EXCEPT ![t] = row]
  BY DEF ReleaseCompleted, Released
<1>5. /\ row \in TaskRecords /\ row.state = "ready_for_human"
      /\ row.cur = 0 /\ row.curFence = 0
      /\ row.reserved = task[t].reserved /\ row.observed = task[t].observed
  BY <1>2, <1>3 DEF TaskRecords
<1>6. "completed" \in RunStates \ {"absent"}
  BY DEF RunStates
<1>7. /\ CloseRun(r, "completed")
      /\ UNCHANGED <<now, attempts, lastFence, events, kill, claiming,
                     pageRuns, pageTasks>>
  BY DEF ReleaseCompleted
<1> HIDE DEF row
<1>8. pageRuns' \subseteq Runs /\ pageTasks' \subseteq Tasks
  BY <1>1, <1>7 DEF TypeOK
<1> QED
  BY <1>1, <1>3, <1>4, <1>5, <1>6, <1>7, <1>8, ReleaseKeeps

LEMMA ReconcileRunKeeps ==
  ASSUME Inductive, NEW r \in Runs, ReconcileRun(r)
  PROVE  Inductive'
<1> DEFINE t == r[1]
           late == task[t].deadline <= now
           repair == task[t].repairs < RepairLimit[t]
           target == IF late THEN DeadlineTarget(t)
                     ELSE FailureTarget(r, IF repair THEN "infrastructure"
                                                     ELSE "quality")
           repairs == IF repair /\ ~late THEN task[t].repairs + 1
                                         ELSE task[t].repairs
           blocked == Unsettled(t)
           row == [task[t] EXCEPT !.state = target, !.cur = 0, !.curFence = 0,
                                  !.blocked = blocked, !.repairs = repairs]
<1>1. /\ TypeOK /\ HoldsLease(r) /\ t \in Tasks /\ task[t] \in TaskRecords
      /\ r[2] \in Int /\ Retries[t] \in Int
  <2>1. TypeOK /\ HoldsLease(r)
    BY DEF Inductive, ReconcileRun
  <2> QED
    BY <2>1, RunNames, LimitsAssumption DEF TypeOK, Attempts
<1>2. /\ target \in States \ (InLease \cup {"absent"})
      /\ target \in Leasable => r[2] <= Retries[t]
  <2>1. /\ target \in {"needs_human", "dead", "retry"}
        /\ target = "retry" => ~(r[2] > Retries[t])
    BY FailureTargets
  <2> HIDE DEF target
  <2> QED
    BY <1>1, <2>1 DEF States, InLease, Leasable, Terminal
<1>3. blocked \in BOOLEAN
  BY <1>1 DEF Unsettled, TaskRecords
<1>4. repairs \in 0..3
  BY <1>1, LimitsAssumption DEF TaskRecords
<1>5. task' = [task EXCEPT ![t] = row]
  <2>1. task' = [task EXCEPT ![t] =
                   [Released(t, target) EXCEPT
                      !.blocked = blocked,
                      !.repairs = IF repair /\ ~late THEN @ + 1 ELSE @]]
    BY DEF ReconcileRun
  <2> HIDE DEF target, blocked, repair, late
  <2>2. [Released(t, target) EXCEPT
           !.blocked = blocked,
           !.repairs = IF repair /\ ~late THEN @ + 1 ELSE @] = row
    BY <1>1 DEF Released, TaskRecords
  <2> QED
    BY <2>1, <2>2
<1> HIDE DEF target, blocked, repair, late, repairs
<1>6. /\ row \in TaskRecords /\ row.state = target
      /\ row.cur = 0 /\ row.curFence = 0
      /\ row.reserved = task[t].reserved /\ row.observed = task[t].observed
  BY <1>1, <1>2, <1>3, <1>4 DEF TaskRecords
<1>7. "expired" \in RunStates \ {"absent"}
  BY DEF RunStates
<1>8. /\ CloseRun(r, "expired")
      /\ UNCHANGED <<now, attempts, lastFence, events, kill, claiming, pageTasks>>
      /\ pageRuns' = pageRuns \ {r}
  BY DEF ReconcileRun
<1> HIDE DEF row
<1>9. pageRuns' \subseteq Runs /\ pageTasks' \subseteq Tasks
  BY <1>1, <1>8 DEF TypeOK
<1> QED
  BY <1>1, <1>2, <1>5, <1>6, <1>7, <1>8, <1>9, ReleaseKeeps

LEMMA ReconcileTaskKeeps ==
  ASSUME Inductive, NEW t \in Tasks, ReconcileTask(t)
  PROVE  Inductive'
<1> DEFINE target == DeadlineTarget(t)
<1>1. TypeOK /\ RowsAgree(t) /\ task[t].state \in Leasable
  BY DEF Inductive, ReconcileTask, ExpiredTask
<1>2. target \in Terminal \cup {"needs_human"}
  BY DEF DeadlineTarget, Terminal
<1>3. /\ task' = [task EXCEPT ![t] = TerminalTask(t, target)]
      /\ UNCHANGED <<run, attempts, lastFence>>
  BY DEF ReconcileTask
<1> HIDE DEF target
<1>4. /\ task' \in [Tasks -> TaskRecords]
      /\ task'[t] = TerminalTask(t, target)
      /\ \A u \in Tasks \ {t} : task'[u] = task[u]
  BY <1>1, <1>2, <1>3, TerminalTaskRow DEF TypeOK
<1>5. TypeOK'
  BY <1>1, <1>4 DEF TypeOK, ReconcileTask
<1>6. /\ task'[t].state = target
      /\ task'[t].cur = 0 /\ task'[t].curFence = 0
      /\ task'[t].reserved = task[t].reserved
      /\ task'[t].observed = task[t].observed
  BY <1>1, <1>2, <1>4, TerminalTaskRow
<1>7. /\ target \in States \ (InLease \cup Leasable \cup {"absent"})
      /\ task[t].state \in States \ (InLease \cup {"absent"})
  BY <1>1, <1>2 DEF States, Terminal, InLease, Leasable
<1>8. RowsAgree(t)'
  BY <1>1, <1>3, <1>6, <1>7, UnleasedMoves
<1> QED
  BY <1>3, <1>4, <1>5, <1>8, OneTaskTouched

\* Reading the kill switches, selecting candidates and the clock touch no row.
LEMMA OtherStepsKeep ==
  ASSUME Inductive,
         \/ \E w \in Workers :
              \/ \E request \in Requests : ClaimBegin(w, request)
              \/ ClaimEmpty(w)
         \/ ReconcileSelect \/ ReconcileSkip \/ ReconcileAbort
         \/ SetKill \/ Tick
         \/ UNCHANGED vars
  PROVE  Inductive'
<1>1. TypeOK
  BY DEF Inductive
<1>2. UNCHANGED <<task, run, attempts, lastFence, events, active, readersIn>>
  BY DEF ClaimBegin, ClaimEmpty, ReconcileSelect, ReconcileSkip,
         ReconcileAbort, SetKill, Tick, vars
<1>3. now' \in Nat /\ kill' \in [Repos \cup {Global} -> BOOLEAN]
  <2>1. CASE Tick
    BY <1>1, <2>1 DEF TypeOK, Tick
  <2>2. CASE SetKill
    BY <1>1, <2>2 DEF TypeOK, SetKill
  <2>3. CASE UNCHANGED <<now, kill>>
    BY <1>1, <2>3 DEF TypeOK
  <2> QED
    BY <2>1, <2>2, <2>3 DEF ClaimBegin, ClaimEmpty, ReconcileSelect,
                            ReconcileSkip, ReconcileAbort, vars
<1>4. claiming' \in [Workers -> Requests \cup {Idle}]
  <2>1. CASE \E w \in Workers, request \in Requests : ClaimBegin(w, request)
    BY <1>1, <2>1 DEF TypeOK, ClaimBegin
  <2>2. CASE \E w \in Workers : ClaimEmpty(w)
    BY <1>1, <2>2 DEF TypeOK, ClaimEmpty
  <2>3. CASE UNCHANGED claiming
    BY <1>1, <2>3 DEF TypeOK
  <2> QED
    BY <2>1, <2>2, <2>3 DEF ReconcileSelect, ReconcileSkip, ReconcileAbort,
                            SetKill, Tick, vars
<1>5. pageRuns' \subseteq Runs /\ pageTasks' \subseteq Tasks
  BY <1>1 DEF TypeOK, ClaimBegin, ClaimEmpty, ReconcileSelect, ReconcileSkip,
              ReconcileAbort, SetKill, Tick, vars
<1>6. TypeOK'
  BY <1>1, <1>2, <1>3, <1>4, <1>5 DEF TypeOK
<1> QED
  BY <1>2, <1>6, NoTaskTouched

---------------------------------------------------------------------------
(* The theorems                                                            *)

\* Every step of the store keeps the rows of every task in agreement.
LEMMA StepInductive == Inductive /\ [Next]_vars => Inductive'
<1> SUFFICES ASSUME Inductive, [Next]_vars PROVE Inductive'
  OBVIOUS
<1>1. ASSUME NEW t \in Tasks, Intake(t) PROVE Inductive'
  BY <1>1, IntakeFreshKeeps, IntakeSupersedeKeeps DEF Intake
<1>2. ASSUME NEW t \in Tasks, Cancel(t) PROVE Inductive'
  BY <1>2, CancelKeeps
<1>3. ASSUME NEW w \in Workers, Claim(w) PROVE Inductive'
  BY <1>3, ClaimGrantKeeps, OtherStepsKeep DEF Claim
<1>4. ASSUME NEW r \in Runs, WorkerCommand(r) PROVE Inductive'
  BY <1>4, HeartbeatKeeps, TransitionPhaseKeeps, ReserveBudgetKeeps,
     ObserveUsageKeeps, ObserveUnpricedKeeps, ReleaseFailureKeeps,
     ReleaseCompletedKeeps
  DEF WorkerCommand
<1>5. ASSUME ReconcileCommit PROVE Inductive'
  BY <1>5, ReconcileRunKeeps, ReconcileTaskKeeps DEF ReconcileCommit
<1>6. ASSUME \/ ReconcileSelect \/ ReconcileSkip \/ ReconcileAbort
             \/ SetKill \/ Tick \/ UNCHANGED vars
      PROVE  Inductive'
  BY <1>6, OtherStepsKeep
<1> QED
  BY <1>1, <1>2, <1>3, <1>4, <1>5, <1>6 DEF Next

\* The rows of every task agree in every reachable state.
THEOREM RowsInvariant == Spec => []Inductive
<1>1. Init => Inductive
  BY InitInductive
<1>2. Inductive /\ [Next]_vars => Inductive'
  BY StepInductive
<1> QED
  BY <1>1, <1>2, PTL DEF Spec

\* The types of the tables: above all, no sequence of reservations and
\* observations makes a reserved amount negative (reserved : Nat), and no task
\* gets an attempt beyond the third, which the schema would refuse.
THEOREM TypeCorrect == Spec => []TypeOK
<1>1. Inductive => TypeOK
  BY DEF Inductive
<1> QED
  BY <1>1, RowsInvariant, PTL

\* A live run is the newest one, its task points to it and is in a lease
\* phase, and no other task points to a run: release, cancel, supersede and
\* reconcile never leave one half of a lease behind.
THEOREM LeasesAgree == Spec => []LeaseAgreement
<1>1. Inductive => LeaseAgreement
  <2> SUFFICES ASSUME Inductive PROVE LeaseAgreement
    OBVIOUS
  <2>1. ASSUME NEW r \in Runs
        PROVE  /\ run[r].alloc <=> run[r].live
               /\ run[r].live => /\ HoldsLease(r)
                                 /\ r[2] = attempts[r[1]]
                                 /\ run[r].fence = lastFence[r[1]]
    <3>1. /\ r[1] \in Tasks /\ r[2] \in Attempts /\ r = <<r[1], r[2]>>
      BY RunNames
    <3>2. RunAgrees(r[1], r[2]) /\ run[r] = run[<<r[1], r[2]>>]
      BY <3>1 DEF Inductive, RowsAgree
    <3> QED
      BY <3>2 DEF RunAgrees, HoldsLease
  <2>2. ASSUME NEW t \in Tasks
        PROVE  IF task[t].state \in InLease
               THEN task[t].cur # 0 /\ run[<<t, task[t].cur>>].live
               ELSE task[t].cur = 0 /\ task[t].curFence = 0
    BY DEF Inductive, RowsAgree, TaskAgrees
  <2> QED
    BY <2>1, <2>2 DEF LeaseAgreement
<1> QED
  BY <1>1, RowsInvariant, PTL

\* No lease outlives the deadline of its task.
THEOREM LeasesEndByDeadline == Spec => []LeaseWithinDeadline
<1>1. Inductive => LeaseWithinDeadline
  <2> SUFFICES ASSUME Inductive, NEW r \in Runs, run[r].live
               PROVE  run[r].expires <= task[r[1]].deadline
    BY DEF LeaseWithinDeadline
  <2>1. r[1] \in Tasks /\ r[2] \in Attempts /\ r = <<r[1], r[2]>>
    BY RunNames
  <2>2. RunAgrees(r[1], r[2]) /\ run[r] = run[<<r[1], r[2]>>]
    BY <2>1 DEF Inductive, RowsAgree
  <2> QED
    BY <2>2 DEF RunAgrees
<1> QED
  BY <1>1, RowsInvariant, PTL

\* A task that can be claimed has an attempt left, so the retry_exhausted
\* branch of claim is dead code under these limits.
THEOREM AttemptsSuffice == Spec => []ClaimableHasAttempt
<1>1. Inductive => ClaimableHasAttempt
  BY DEF Inductive, RowsAgree, TaskAgrees, ClaimableHasAttempt
<1> QED
  BY <1>1, RowsInvariant, PTL

\* The reserved amount of a task is that of its newest run, and reserved plus
\* observed never exceed the limit.
THEOREM ReservationsCorrect == Spec => []ReservationsAccounted
<1>1. Inductive => ReservationsAccounted
  BY DEF Inductive, RowsAgree, RunAgrees, TaskAgrees, ReservationsAccounted
<1> QED
  BY <1>1, RowsInvariant, PTL

---------------------------------------------------------------------------
(* What a step may never do: change a released run, reopen or charge a      *)
(* terminal task, lift a quarantine, or grant a lease under a fence that is *)
(* not new                                                                 *)

StartedBy(w, length, r) ==
  ClaimGrant(w, r[1], length) /\ r = <<r[1], attempts[r[1]] + 1>>

\* The row of a run that is not live is changed by the claim that starts it,
\* and by nothing else.
LEMMA OnlyClaimsStartRuns ==
  ASSUME Inductive, [Next]_vars, NEW r \in Runs, ~run[r].live,
         ~\E w \in Workers, length \in LeaseLengths : StartedBy(w, length, r)
  PROVE  run'[r] = run[r]
<1>1. TypeOK
  BY DEF Inductive
<1>2. ASSUME NEW q \in Runs, NEW row, run[q].live,
             run' = [run EXCEPT ![q] = row]
      PROVE  run'[r] = run[r]
  BY <1>1, <1>2 DEF TypeOK
<1>3. ASSUME NEW q \in Runs, NEW state, HoldsLease(q), CloseRun(q, state)
      PROVE  run'[r] = run[r]
  BY <1>2, <1>3 DEF HoldsLease, CloseRun
<1>4. ASSUME NEW t \in Tasks, CloseActiveLease(t) PROVE run'[r] = run[r]
  <2>1. r[1] \in Tasks /\ r[2] \in Attempts /\ r = <<r[1], r[2]>>
    BY RunNames
  <2>2. CASE r[1] # t
    BY <1>4, <2>1, <2>2, ActiveLeaseCloses
  <2>3. CASE r[1] = t /\ r[2] # task[t].cur
    BY <1>4, <2>1, <2>3, ActiveLeaseCloses
  <2>4. CASE r[1] = t /\ r[2] = task[t].cur
    BY <1>4, <2>1, <2>4, ActiveLeaseCloses
  <2> QED
    BY <2>2, <2>3, <2>4
<1>5. ASSUME NEW t \in Tasks, Intake(t) \/ Cancel(t) PROVE run'[r] = run[r]
  BY <1>4, <1>5 DEF Intake, IntakeFresh, IntakeSupersede, Cancel
<1>6. ASSUME NEW w \in Workers, Claim(w) PROVE run'[r] = run[r]
  <2>1. ASSUME NEW t \in Tasks, NEW length \in LeaseLengths, ClaimGrant(w, t, length)
        PROVE  run'[r] = run[r]
    <3> DEFINE a == attempts[t] + 1
    <3>1. r # <<t, a>>
      BY <2>1 DEF StartedBy
    <3> QED
      BY <1>1, <2>1, <3>1 DEF ClaimGrant, TypeOK
  <2> QED
    BY <1>6, <2>1 DEF Claim, ClaimBegin, ClaimEmpty
<1>7. ASSUME NEW q \in Runs, WorkerCommand(q) PROVE run'[r] = run[r]
  <2>1. run[q].live
    BY <1>7 DEF WorkerCommand, Heartbeat, TransitionPhase, ReserveBudget,
                ObserveUsage, ObserveUnpriced, ReleaseFailure,
                ReleaseCompleted, LockGrant, HoldsLease
  <2>2. CASE ReleaseCompleted(q) \/ \E class \in FailureClasses : ReleaseFailure(q, class)
    BY <1>3, <2>2 DEF ReleaseCompleted, ReleaseFailure, LockGrant
  <2>3. q # r
    BY <2>1
  <2>4. CASE \/ Heartbeat(q) \/ TransitionPhase(q) \/ ObserveUnpriced(q)
             \/ \E cost \in Costs : ReserveBudget(q, cost)
             \/ \E call \in Calls, cost \in Costs : ObserveUsage(q, call, cost)
    BY <1>1, <2>3, <2>4
    DEF Heartbeat, TransitionPhase, ObserveUnpriced, ReserveBudget,
        ObserveUsage, TypeOK
  <2> QED
    BY <1>7, <2>2, <2>4 DEF WorkerCommand
<1>8. ASSUME ReconcileCommit PROVE run'[r] = run[r]
  BY <1>3, <1>8 DEF ReconcileCommit, ReconcileRun, ReconcileTask
<1>9. ASSUME \/ ReconcileSelect \/ ReconcileSkip \/ ReconcileAbort
             \/ SetKill \/ Tick \/ UNCHANGED vars
      PROVE  run'[r] = run[r]
  BY <1>9
  DEF ReconcileSelect, ReconcileSkip, ReconcileAbort, SetKill, Tick, vars
<1> QED
  BY <1>5, <1>6, <1>7, <1>8, <1>9 DEF Next

\* What a claim finds: no live run of its task, and no fence as high as the
\* one it grants.
LEMMA StartedRun ==
  ASSUME Inductive, NEW r \in Runs, NEW w \in Workers, NEW length \in LeaseLengths,
         StartedBy(w, length, r)
  PROVE  /\ run[r].state = "absent"
         /\ run'[r].fence = lastFence[r[1]] + 1
         /\ lastFence[r[1]] \in Nat
         /\ \A b \in Attempts :
              /\ ~run[<<r[1], b>>].live
              /\ run[<<r[1], b>>].fence \in Nat
              /\ run[<<r[1], b>>].fence <= lastFence[r[1]]
<1> DEFINE t == r[1]
           a == attempts[t] + 1
<1>1. TypeOK /\ t \in Tasks /\ r = <<t, a>> /\ ClaimGrant(w, t, length)
  BY RunNames DEF Inductive, StartedBy
<1>2. RowsAgree(t) /\ a \in Attempts /\ \A b \in Attempts : ~run[<<t, b>>].live
  BY <1>1, ClaimedTask DEF Inductive, ClaimGrant, Claimable
<1>3. run[<<t, a>>].state = "absent"
  <2>1. RunAgrees(t, a)
    BY <1>2 DEF RowsAgree
  <2>2. attempts[t] < a
    BY <1>1 DEF TypeOK, Attempts
  <2> QED
    BY <2>1, <2>2 DEF RunAgrees
<1>4. claiming[w].role \in Roles
  <2>1. claiming[w] \in Requests
    BY <1>1 DEF TypeOK, ClaimGrant
  <2> QED
    BY <2>1 DEF Requests
<1>5. run'[r] = NewRun(t, claiming[w].role, length)
  BY <1>1 DEF ClaimGrant, TypeOK
<1>6. run'[r].fence = lastFence[t] + 1
  BY <1>1, <1>4, <1>5, NewRunRow
<1>7. ASSUME NEW b \in Attempts
      PROVE  run[<<t, b>>].fence \in Nat /\ run[<<t, b>>].fence <= lastFence[t]
  BY <1>1, <1>2, RunNames DEF TypeOK, RunRecords, RowsAgree, RunAgrees
<1> QED
  BY <1>1, <1>2, <1>3, <1>6, <1>7 DEF TypeOK

\* Stale grants are powerless: once a run is released, nothing about it
\* changes again, whatever late command, reconcile or cancel names it.
THEOREM ReleasedRunsFrozen == Spec => ReleasedRunFrozen
<1>1. Inductive /\ [Next]_vars =>
        \A r \in Runs : run[r].state # "absent" /\ ~run[r].live => run'[r] = run[r]
  BY OnlyClaimsStartRuns, StartedRun
<1>2. Inductive /\ [Next]_vars =>
        [\A r \in Runs :
           run[r].state # "absent" /\ ~run[r].live => run'[r] = run[r]]_vars
  BY <1>1
<1> QED
  BY <1>2, RowsInvariant, PTL DEF Spec, ReleasedRunFrozen

\* A run starts when no run of its task is live, under a fence higher than
\* that of every earlier run of the task.
THEOREM FencesAlwaysGrow == Spec => FencesGrow
<1>1. ASSUME Inductive, [Next]_vars, NEW t \in Tasks, NEW a \in Attempts,
             run'[<<t, a>>].live, ~run[<<t, a>>].live, NEW b \in Attempts
      PROVE  ~run[<<t, b>>].live /\ run[<<t, b>>].fence < run'[<<t, a>>].fence
  <2> DEFINE r == <<t, a>>
  <2>1. r \in Runs /\ r[1] = t
    BY RunNames
  <2>2. PICK w \in Workers, length \in LeaseLengths : StartedBy(w, length, r)
    BY <1>1, <2>1, OnlyClaimsStartRuns
  <2>3. /\ run'[r].fence = lastFence[t] + 1 /\ lastFence[t] \in Nat
        /\ ~run[<<t, b>>].live
        /\ run[<<t, b>>].fence \in Nat /\ run[<<t, b>>].fence <= lastFence[t]
    BY <1>1, <2>1, <2>2, StartedRun
  <2> QED
    BY <2>3
<1>2. Inductive /\ [Next]_vars =>
        [\A t \in Tasks : \A a \in Attempts :
           run'[<<t, a>>].live /\ ~run[<<t, a>>].live =>
             \A b \in Attempts :
               /\ ~run[<<t, b>>].live
               /\ run[<<t, b>>].fence < run'[<<t, a>>].fence]_vars
  BY <1>1
<1> QED
  BY <1>2, RowsInvariant, PTL DEF Spec, FencesGrow

\* No action is enabled for a terminal task that would change it.
LEMMA TerminalUntouched ==
  ASSUME TypeOK, [Next]_vars, NEW t \in Tasks, task[t].state \in Terminal
  PROVE  task'[t] = task[t] /\ events'[t] = events[t]
<1>1. task[t].state \notin InLease /\ task[t].state \notin Leasable /\ Exists(t)
  BY DEF Terminal, InLease, Leasable, Exists
<1>2. ASSUME NEW u \in Tasks, NEW row, u # t, task' = [task EXCEPT ![u] = row]
      PROVE  task'[t] = task[t]
  BY <1>2 DEF TypeOK
<1>3. ASSUME NEW u \in Tasks, Intake(u) PROVE task'[t] = task[t] /\ events'[t] = events[t]
  <2>1. u # t
    BY <1>1, <1>3 DEF Intake, IntakeFresh, IntakeSupersede, CanInsert
  <2>2. CASE IntakeFresh(u)
    BY <2>1, <2>2 DEF IntakeFresh, TypeOK
  <2>3. ASSUME NEW old \in Tasks, IntakeSupersede(u, old)
        PROVE  task'[t] = task[t] /\ events'[t] = events[t]
    <3>1. old # t
      BY <2>3 DEF IntakeSupersede, OpenTasks, SameSource
    <3> QED
      BY <2>1, <2>3, <3>1 DEF IntakeSupersede, TypeOK
  <2> QED
    BY <1>3, <2>2, <2>3 DEF Intake
<1>4. ASSUME NEW u \in Tasks, Cancel(u) PROVE task'[t] = task[t] /\ events'[t] = events[t]
  BY <1>2, <1>4 DEF Cancel
<1>5. ASSUME NEW w \in Workers, Claim(w) PROVE task'[t] = task[t] /\ events'[t] = events[t]
  <2>1. ASSUME NEW u \in Tasks, NEW length \in LeaseLengths, ClaimGrant(w, u, length)
        PROVE  task'[t] = task[t] /\ events'[t] = events[t]
    <3>1. u # t
      BY <1>1, <2>1 DEF ClaimGrant, Claimable
    <3> QED
      BY <2>1, <3>1 DEF ClaimGrant, TypeOK
  <2> QED
    BY <1>5, <2>1 DEF Claim, ClaimBegin, ClaimEmpty
<1>6. ASSUME NEW r \in Runs, HoldsLease(r) PROVE r[1] \in Tasks /\ r[1] # t
  BY <1>1, <1>6, RunNames DEF HoldsLease
<1>7. ASSUME NEW r \in Runs, WorkerCommand(r)
      PROVE  task'[t] = task[t] /\ events'[t] = events[t]
  <2>1. r[1] \in Tasks /\ r[1] # t
    BY <1>6, <1>7 DEF WorkerCommand, Heartbeat, TransitionPhase, ReserveBudget,
                ObserveUsage, ObserveUnpriced, ReleaseFailure,
                ReleaseCompleted, LockGrant
  <2> QED
    BY <1>7, <2>1
    DEF WorkerCommand, Heartbeat, TransitionPhase, ReserveBudget, ObserveUsage,
        ObserveUnpriced, ReleaseFailure, ReleaseCompleted, TypeOK
<1>8. ASSUME ReconcileCommit PROVE task'[t] = task[t] /\ events'[t] = events[t]
  <2>1. ASSUME NEW r \in Runs, ReconcileRun(r)
        PROVE  task'[t] = task[t] /\ events'[t] = events[t]
    BY <1>2, <1>6, <2>1 DEF ReconcileRun
  <2>2. ASSUME NEW u \in Tasks, ReconcileTask(u)
        PROVE  task'[t] = task[t] /\ events'[t] = events[t]
    BY <1>1, <1>2, <2>2 DEF ReconcileTask, ExpiredTask
  <2> QED
    BY <1>8, <2>1, <2>2 DEF ReconcileCommit
<1>9. ASSUME \/ ReconcileSelect \/ ReconcileSkip \/ ReconcileAbort
             \/ SetKill \/ Tick \/ UNCHANGED vars
      PROVE  task'[t] = task[t] /\ events'[t] = events[t]
  BY <1>9
  DEF ReconcileSelect, ReconcileSkip, ReconcileAbort, SetKill, Tick, vars
<1> QED
  BY <1>3, <1>4, <1>5, <1>7, <1>8, <1>9 DEF Next

\* A task that is dead, cancelled, superseded or ready for a human keeps its
\* state, its accounting and its event count for ever.
THEOREM TerminalTasksFinal == Spec => TerminalFinal
<1>1. Inductive => TypeOK
  BY DEF Inductive
<1>2. Inductive /\ [Next]_vars =>
        [\A t \in Tasks :
           task[t].state \in Terminal =>
             task'[t] = task[t] /\ events'[t] = events[t]]_vars
  BY <1>1, TerminalUntouched
<1> QED
  BY <1>2, RowsInvariant, PTL DEF Spec, TerminalFinal

\* No late command changes a released run or a terminal task.
THEOREM PastIsFrozen == Spec => PastFrozen
  BY ReleasedRunsFrozen, TerminalTasksFinal DEF PastFrozen
=============================================================================
