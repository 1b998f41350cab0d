------------------------ MODULE SemanticRepair_proofs ------------------------
(***************************************************************************)
(* Semantic repair for any number of results, validators, tasks, contexts   *)
(* and reports: verdicts leave out nobody, chains of repairs are sound, and *)
(* a proposal becomes one task. The three arguments are independent of each *)
(* other; each has an inductive invariant of its own.                       *)
(***************************************************************************)
EXTENDS SemanticRepair, FiniteSetTheorems, TLAPS

---------------------------------------------------------------------------
(* Types                                                                   *)

LEMMA ResultsAreNumbers ==
  /\ Results \subseteq Nat /\ 0 \notin Results
  /\ Generations \subseteq Nat /\ 0 \notin Generations
<1>1. Results \subseteq Nat /\ 0 \notin Results
  BY RepairAssumption DEF Results
<1>2. \A s \in Results : MaxTasks[s] \in Nat
  BY RepairAssumption DEF Results
<1> QED
  BY <1>1, <1>2 DEF Generations

LEMMA AdjudicateType ==
  ASSUME NEW reports \in Reported
  PROVE  Adjudicate(reports) \in Judgements
<1> DEFINE from  == {v \in Validators : reports[v] # None}
           found == UNION {reports[v].findings : v \in from}
<1>1. \A v \in from : reports[v] \in Evidence
  BY DEF Reported
<1>2. found \in SUBSET Findings
  BY <1>1 DEF Evidence
<1>3. {f \in found : \E v, w \in from :
         v # w /\ f \in reports[v].findings \cap reports[w].findings} \in SUBSET Findings
  BY <1>2
<1> HIDE DEF from, found
<1> QED
  BY <1>2, <1>3 DEF Adjudicate, Judgements, from, found

\* The row Propose writes.
Planned(s, q) ==
  [cycle |-> q.cycle, previous |-> q.previous, after |-> Lineage(q.previous),
   ctx |-> q.ctx, findings |-> verdict[s].body.findings, head |-> subject[s].head,
   budget |-> RepairBudget(s, q),
   justified |-> verdict[s].body = Adjudicate(evidence[s])]

LEMMA PreviousIsThere ==
  ASSUME TypeOK, NEW s \in Results, NEW q \in Requests,
         RepairAllowed(s, q), PreviousFits(s, q)
  PROVE  \/ q.cycle = 1 /\ q.previous = 0
         \/ /\ q.cycle \in {2, 3} /\ q.previous = s - 1 /\ q.previous \in Results
            /\ proposal[q.previous] # None
            /\ proposal[q.previous].cycle = q.cycle - 1
            /\ bound[q.previous] # 0 /\ bound[q.previous] = subject[s].generation
            /\ proposal[q.previous].head # subject[s].head
<1>1. q.cycle \in 1..3 /\ q.previous \in {0} \cup Results /\ (q.cycle = 1 <=> q.previous = 0)
  BY DEF Requests, RepairAllowed
<1>2. CASE q.cycle = 1
  BY <1>1, <1>2
<1>3. CASE q.cycle \in {2, 3}
  <2>1. q.previous # 0 /\ q.previous \in Results
    BY <1>1, <1>3
  <2>2. q.previous # s /\ proposal[q.previous].head # subject[s].head
    BY <2>1 DEF RepairAllowed
  <2> QED
    BY <1>3, <2>1, <2>2 DEF PreviousFits
<1> QED
  BY <1>1, <1>2, <1>3

LEMMA PlannedType ==
  ASSUME TypeOK, NEW s \in Results, NEW q \in Requests, subject[s] # None, verdict[s] # None,
         RepairAllowed(s, q), PreviousFits(s, q)
  PROVE  Planned(s, q) \in Proposals
<1>1. q.cycle \in 1..3 /\ q.previous \in {0} \cup Results /\ q.ctx \in Contexts
  BY DEF Requests, RepairAllowed
<1>2. subject[s] \in Subjects /\ verdict[s].body.findings \in SUBSET Findings
  BY DEF TypeOK, Judgements
<1>3. Lineage(q.previous) \in SUBSET Results
  BY PreviousIsThere, ResultsAreNumbers DEF TypeOK, Proposals, Lineage
<1>4. subject[s].limit \in 1..3 /\ subject[s].head \in Heads
  BY <1>2, RepairAssumption DEF Subjects
<1>5. RepairBudget(s, q) \in 1..3
  <2>1. RepairBudget(s, q) > 0
    BY DEF RepairAllowed
  <2>2. CASE q.cycle = 1
    BY <2>2, <1>4 DEF RepairBudget
  <2>3. CASE q.cycle \in {2, 3}
    <3>1. proposal[q.previous] \in Proposals
      BY <2>3, PreviousIsThere DEF TypeOK
    <3>2. proposal[q.previous].budget \in 1..3
      BY <3>1 DEF Proposals
    <3> QED
      BY <2>1, <2>3, <3>2, <1>4 DEF RepairBudget
  <2> QED
    BY <1>1, <2>2, <2>3
<1>6. (verdict[s].body = Adjudicate(evidence[s])) \in BOOLEAN
  OBVIOUS
<1> QED
  BY <1>1, <1>2, <1>3, <1>4, <1>5, <1>6 DEF Planned, Proposals

LEMMA TypesInit == Init => TypeOK
<1> SUFFICES ASSUME Init PROVE TypeOK
  OBVIOUS
<1> QED
  BY DEF Init, TypeOK, Reported

LEMMA ValidateKeepsTypes ==
  ASSUME TypeOK, NEW s \in Results, Validate(s)
  PROVE  TypeOK'
<1>1. CASE Publish(s)
  <2>1. PICK ctx \in Contexts, head \in Heads, limit \in Limits, g \in {0} \cup Generations :
          subject' = [subject EXCEPT ![s] =
            [ctx |-> ctx, head |-> head, limit |-> limit, generation |-> g]]
    BY <1>1, ZenonT(30) DEF Publish
  <2>2. [ctx |-> ctx, head |-> head, limit |-> limit, generation |-> g] \in Subjects
    BY DEF Subjects
  <2> QED
    BY <1>1, <2>1, <2>2 DEF Publish, TypeOK, judging, tasks
<1>2. ASSUME NEW v \in Validators, CreateAssignment(s, v)
      PROVE  TypeOK'
  BY <1>2 DEF CreateAssignment, TypeOK, tasks
<1>3. ASSUME NEW v \in Validators, NEW report \in Reports, AppendEvidence(s, v, report)
      PROVE  TypeOK'
  <2>1. report \in Evidence
    BY RepairAssumption
  <2>2. evidence[s] \in Reported /\ evidence[s][v] \in {None} \cup Evidence
    BY DEF TypeOK, Reported
  <2> DEFINE new == IF evidence[s][v] = None THEN report
                    ELSE [evidence[s][v] EXCEPT !.findings = @ \cup report.findings]
  <2>3. new \in Evidence
    BY <2>1, <2>2 DEF Evidence
  <2>4. evidence' = [evidence EXCEPT ![s] = [evidence[s] EXCEPT ![v] = new]]
    BY <1>3 DEF AppendEvidence
  <2> HIDE DEF new
  <2>5. [evidence[s] EXCEPT ![v] = new] \in Reported
    BY <2>2, <2>3 DEF Reported
  <2>6. evidence' \in [Results -> Reported]
    BY <2>4, <2>5 DEF TypeOK
  <2> QED
    BY <1>3, <2>6 DEF AppendEvidence, TypeOK, tasks
<1>4. CASE ReadMaterial(s)
  BY <1>4 DEF ReadMaterial, TypeOK, tasks
<1>5. CASE RecordVerdict(s)
  <2>1. draft # None
    BY <1>5 DEF RecordVerdict
  <2>2. draft.named \in Reported
    BY <2>1 DEF TypeOK
  <2>3. Adjudicate(draft.named) \in Judgements
    BY <2>2, AdjudicateType
  <2>4. assigned[s] \in SUBSET Validators
    BY DEF TypeOK
  <2> QED
    BY <1>5, <2>2, <2>3, <2>4 DEF RecordVerdict, TypeOK, tasks
<1>6. CASE VerdictRefused(s)
  BY <1>6 DEF VerdictRefused, TypeOK, tasks
<1> QED
  BY <1>1, <1>2, <1>3, <1>4, <1>5, <1>6 DEF Validate

LEMMA PlanKeepsTypes ==
  ASSUME TypeOK, NEW s \in Results, PlanRepair(s)
  PROVE  TypeOK'
<1>1. PICK q \in Requests : PreviousFits(s, q) /\ (Propose(s, q) \/ Escalate(s, q))
  BY DEF PlanRepair
<1>2. CASE Propose(s, q)
  <2>1. Planned(s, q) \in Proposals
    BY <1>1, <1>2, PlannedType DEF PlanRepair, Latest, Propose
  <2>2. proposal' = [proposal EXCEPT ![s] = Planned(s, q)]
    BY <1>2 DEF Propose, Planned
  <2> QED
    BY <1>2, <2>1, <2>2 DEF Propose, TypeOK, judging, tasks
<1>3. CASE Escalate(s, q)
  BY <1>3 DEF Escalate, TypeOK, judging, tasks
<1> QED
  BY <1>1, <1>2, <1>3

LEMMA SetTaskKeepsTypes ==
  ASSUME TypeOK, NEW s \in Results, NEW g \in Generations, task[s][g] # None,
         NEW state \in {"queued", "active", "ready_for_human", "superseded", "closed"},
         SetTask(s, g, state)
  PROVE  TypeOK'
<1>1. task[s][g] \in Tasks
  BY DEF TypeOK
<1>2. [task[s][g] EXCEPT !.state = state] \in Tasks
  BY <1>1 DEF Tasks
<1>3. task' = [task EXCEPT ![s] = [task[s] EXCEPT ![g] = [task[s][g] EXCEPT !.state = state]]]
  BY DEF SetTask
<1>4. task' \in [Results -> [Generations -> {None} \cup Tasks]]
  BY <1>2, <1>3 DEF TypeOK
<1> QED
  BY <1>4 DEF SetTask, TypeOK, judging

LEMMA HandOverKeepsTypes ==
  ASSUME TypeOK, NEW s \in Results, HandOver(s)
  PROVE  TypeOK'
<1>1. ASSUME NEW actor \in Actors, IntakeBegin(s, actor)
      PROVE  TypeOK'
  BY <1>1 DEF IntakeBegin, TypeOK, judging
<1>2. ASSUME NEW g \in Generations, Bind(s, g)
      PROVE  TypeOK'
  BY <1>2 DEF Bind, TypeOK, judging
<1>3. ASSUME NEW g \in Generations, Claim(s, g) \/ Release(s, g) \/ Close(s, g)
      PROVE  TypeOK'
  BY <1>3, SetTaskKeepsTypes DEF Claim, Release, Close
<1> QED
  BY <1>1, <1>2, <1>3 DEF HandOver

\* The tasks of a source after an intake.
AfterIntake(s, g, row) ==
  [h \in Generations |->
     IF h = g THEN row
     ELSE IF task[s][h] # None /\ task[s][h].state \in Open
          THEN [task[s][h] EXCEPT !.state = "superseded"]
          ELSE task[s][h]]

LEMMA IntakeRow ==
  ASSUME TypeOK, NEW g \in Generations, NEW limit \in Limits, IntakeCommit(g, limit)
  PROVE  \E s \in Results, row \in Tasks :
           /\ s = intaking.source /\ row.state = "queued"
           /\ task' = [task EXCEPT ![s] = AfterIntake(s, g, row)]
<1>1. intaking \in [source : Results, actor : Actors]
  BY DEF IntakeCommit, TypeOK
<1> DEFINE row == [actor |-> intaking.actor,
                   limit |-> IF intaking.actor = "broker" THEN limit ELSE 0,
                   state |-> "queued"]
<1>2. row \in Tasks /\ row.actor = intaking.actor /\ row.state = "queued"
  BY <1>1 DEF Tasks
<1>3. task' = [task EXCEPT ![intaking.source] = AfterIntake(intaking.source, g, row)]
  <2>1. intaking.source \in DOMAIN task
    BY <1>1 DEF TypeOK
  <2> QED
    BY <2>1 DEF IntakeCommit, AfterIntake
<1> HIDE DEF row
<1> QED
  BY <1>1, <1>2, <1>3

LEMMA TypesNext ==
  ASSUME TypeOK, [Next]_vars
  PROVE  TypeOK'
<1>1. ASSUME NEW s \in Results, Validate(s) \/ PlanRepair(s) \/ HandOver(s)
      PROVE  TypeOK'
  BY <1>1, ValidateKeepsTypes, PlanKeepsTypes, HandOverKeepsTypes
<1>2. ASSUME NEW g \in Generations, NEW limit \in Limits, IntakeCommit(g, limit)
      PROVE  TypeOK'
  <2>1. PICK s \in Results, row \in Tasks : task' = [task EXCEPT ![s] = AfterIntake(s, g, row)]
    BY <1>2, IntakeRow
  <2>3. AfterIntake(s, g, row) \in [Generations -> {None} \cup Tasks]
    <3>1. ASSUME NEW h \in Generations
          PROVE  AfterIntake(s, g, row)[h] \in {None} \cup Tasks
      <4>1. task[s][h] \in {None} \cup Tasks
        BY DEF TypeOK
      <4>2. task[s][h] # None =>
              [task[s][h] EXCEPT !.state = "superseded"] \in Tasks
        BY <4>1 DEF Tasks
      <4> QED
        BY <4>1, <4>2 DEF AfterIntake
    <3> QED
      BY <3>1 DEF AfterIntake
  <2>4. task' \in [Results -> [Generations -> {None} \cup Tasks]]
    BY <2>1, <2>3 DEF TypeOK
  <2> QED
    BY <1>2, <2>4 DEF IntakeCommit, TypeOK, judging
<1>3. CASE IntakeAbort
  BY <1>3 DEF IntakeAbort, TypeOK, judging
<1>4. CASE UNCHANGED vars
  BY <1>4 DEF vars, judging, tasks, TypeOK
<1> QED
  BY <1>1, <1>2, <1>3, <1>4 DEF Next

\* The semantic tables keep their types: in particular no budget falls to zero
\* and no proposal goes beyond the third cycle.
THEOREM SemanticTypes == Spec => []TypeOK
<1> QED
  BY TypesInit, TypesNext, PTL DEF Spec

---------------------------------------------------------------------------
(* Verdicts: whatever a draft or a verdict names is stored and stays stored *)

Naming(named) == {v \in Validators : named[v] # None}

Stored(named, s) ==
  \A v \in Naming(named) :
    /\ evidence[s][v] # None
    /\ evidence[s][v].status = named[v].status
    /\ named[v].findings \subseteq evidence[s][v].findings

\* The inductive invariant. Evidence belongs to assignments, so a draft that is
\* still what is stored, and of every assignment, names them and nobody else.
JudgedWhole ==
  /\ \A s \in Results : Naming(evidence[s]) \subseteq assigned[s]
  /\ draft # None => Stored(draft.named, draft.of)
  /\ \A s \in Results : verdict[s] # None =>
       /\ Stored(verdict[s].named, s)
       /\ Naming(verdict[s].named) = verdict[s].assigned

LEMMA JudgedWholeImplies == JudgedWhole => VerdictNamesAll
  BY DEF JudgedWhole, VerdictNamesAll, Stored, Naming

LEMMA JudgedWholeInit == Init => JudgedWhole
  BY DEF Init, JudgedWhole, Stored, Naming

\* More evidence stores no less.
LEMMA AppendedEvidence ==
  ASSUME TypeOK, NEW s \in Results, NEW v \in Validators, NEW report \in Reports,
         AppendEvidence(s, v, report),
         NEW named, NEW t \in Results, Stored(named, t)
  PROVE  Stored(named, t)'
<1> DEFINE new == IF evidence[s][v] = None THEN report
                  ELSE [evidence[s][v] EXCEPT !.findings = @ \cup report.findings]
<1>1. evidence[s] \in Reported /\ evidence[s][v] \in {None} \cup Evidence /\ report \in Evidence
  BY RepairAssumption DEF TypeOK, Reported
<1>2. new \in Evidence
  BY <1>1 DEF Evidence
<1>3. evidence[s][v] # None =>
        new.status = evidence[s][v].status /\ evidence[s][v].findings \subseteq new.findings
  BY <1>1 DEF Evidence
<1>4. new # None
  BY <1>2, RepairAssumption
<1>5. evidence' = [evidence EXCEPT ![s] = [evidence[s] EXCEPT ![v] = new]]
  BY DEF AppendEvidence
<1> HIDE DEF new
<1>6. ASSUME NEW w \in Naming(named)
      PROVE  /\ evidence'[t][w] # None
             /\ evidence'[t][w].status = named[w].status
             /\ named[w].findings \subseteq evidence'[t][w].findings
  <2>1. /\ evidence[t][w] # None
        /\ evidence[t][w].status = named[w].status
        /\ named[w].findings \subseteq evidence[t][w].findings
    BY <1>6 DEF Stored
  <2>2. CASE t = s /\ w = v
    <3>1. evidence'[t][w] = new
      BY <1>1, <1>5, <2>2 DEF TypeOK, Reported
    <3> QED
      BY <2>1, <2>2, <3>1, <1>3, <1>4
  <2>3. CASE ~(t = s /\ w = v)
    <3>1. evidence'[t][w] = evidence[t][w]
      BY <1>1, <1>5, <2>3 DEF TypeOK, Reported, Naming
    <3> QED
      BY <2>1, <3>1
  <2> QED
    BY <2>2, <2>3
<1> QED
  BY <1>6 DEF Stored

LEMMA ValidateKeepsWhole ==
  ASSUME TypeOK, JudgedWhole, NEW s \in Results, Validate(s)
  PROVE  JudgedWhole'
<1>1. CASE Publish(s)
  BY <1>1 DEF Publish, judging, JudgedWhole, Stored
<1>2. ASSUME NEW v \in Validators, CreateAssignment(s, v)
      PROVE  JudgedWhole'
  <2>1. \A t \in Results : assigned[t] \subseteq assigned'[t]
    BY <1>2 DEF CreateAssignment, TypeOK
  <2> QED
    BY <1>2, <2>1 DEF CreateAssignment, JudgedWhole, Stored
<1>3. ASSUME NEW v \in Validators, NEW report \in Reports, AppendEvidence(s, v, report)
      PROVE  JudgedWhole'
  <2>1. UNCHANGED <<assigned, draft, verdict>> /\ v \in assigned[s]
    BY <1>3 DEF AppendEvidence
  <2>2. \A t \in Results : Naming(evidence'[t]) \subseteq assigned[t]
    <3>1. ASSUME NEW t \in Results, NEW w \in Validators, evidence'[t][w] # evidence[t][w]
          PROVE  t = s /\ w = v
      BY <3>1, <1>3 DEF AppendEvidence, TypeOK, Reported
    <3> QED
      BY <2>1, <3>1 DEF JudgedWhole, Naming
  <2>3. draft # None => Stored(draft.named, draft.of)'
    <3>1. draft # None => Stored(draft.named, draft.of) /\ draft.of \in Results
      BY DEF JudgedWhole, TypeOK
    <3>2. draft # None =>
            \A w \in Naming(draft.named) :
              /\ evidence'[draft.of][w] # None
              /\ evidence'[draft.of][w].status = draft.named[w].status
              /\ draft.named[w].findings \subseteq evidence'[draft.of][w].findings
      BY <3>1, <1>3, AppendedEvidence DEF Stored
    <3> QED
      BY <2>1, <3>2 DEF Stored
  <2>4. ASSUME NEW t \in Results, verdict[t] # None
        PROVE  Stored(verdict[t].named, t)'
    <3>1. Stored(verdict[t].named, t)
      BY <2>4 DEF JudgedWhole
    <3>2. \A w \in Naming(verdict[t].named) :
            /\ evidence'[t][w] # None
            /\ evidence'[t][w].status = verdict[t].named[w].status
            /\ verdict[t].named[w].findings \subseteq evidence'[t][w].findings
      BY <3>1, <1>3, AppendedEvidence DEF Stored
    <3> QED
      BY <2>1, <3>2 DEF Stored
  <2> QED
    BY <2>1, <2>2, <2>3, <2>4 DEF JudgedWhole
<1>4. CASE ReadMaterial(s)
  <2>1. /\ draft' = [of |-> s, named |-> evidence[s]]
        /\ UNCHANGED <<assigned, evidence, verdict>>
    BY <1>4 DEF ReadMaterial
  <2>2. Stored(evidence[s], s)
    BY DEF Stored, Naming
  <2> QED
    BY <2>1, <2>2 DEF JudgedWhole, Stored
<1>5. CASE RecordVerdict(s)
  <2> DEFINE row == [named |-> draft.named, body |-> Adjudicate(draft.named), assigned |-> assigned[s]]
  <2>1. /\ verdict' = [verdict EXCEPT ![s] = row]
        /\ draft' = None
        /\ UNCHANGED <<assigned, evidence>>
        /\ draft # None /\ draft.of = s /\ NamesAll(s)
    BY <1>5 DEF RecordVerdict
  <2>2. row.named = draft.named /\ row.assigned = assigned[s]
    OBVIOUS
  <2>3. Stored(draft.named, s) /\ Naming(draft.named) = assigned[s]
    BY <2>1 DEF JudgedWhole, NamesAll, Complete, Naming, TypeOK
  <2> HIDE DEF row
  <2>4. ASSUME NEW t \in Results, verdict'[t] # None
        PROVE  Stored(verdict'[t].named, t) /\ Naming(verdict'[t].named) = verdict'[t].assigned
    <3>1. CASE t = s
      BY <3>1, <2>1, <2>2, <2>3 DEF TypeOK
    <3>2. CASE t # s
      BY <3>2, <2>1, <2>4 DEF TypeOK, JudgedWhole
    <3> QED
      BY <3>1, <3>2
  <2> QED
    BY <2>1, <2>4 DEF JudgedWhole, Stored
<1>6. CASE VerdictRefused(s)
  BY <1>6 DEF VerdictRefused, JudgedWhole, Stored
<1> QED
  BY <1>1, <1>2, <1>3, <1>4, <1>5, <1>6 DEF Validate

\* Every other action leaves the verdicts and what they rest on alone.
LEMMA JudgingUntouched ==
  ASSUME Next, \A s \in Results : ~Validate(s)
  PROVE  UNCHANGED judging
<1>1. ASSUME NEW s \in Results, PlanRepair(s)
      PROVE  UNCHANGED judging
  BY <1>1 DEF PlanRepair, Propose, Escalate
<1>2. ASSUME NEW s \in Results, HandOver(s)
      PROVE  UNCHANGED judging
  BY <1>2 DEF HandOver, IntakeBegin, Bind, Claim, Release, Close, SetTask
<1>3. ASSUME NEW g \in Generations, NEW limit \in Limits, IntakeCommit(g, limit)
      PROVE  UNCHANGED judging
  BY <1>3 DEF IntakeCommit
<1>4. CASE IntakeAbort
  BY <1>4 DEF IntakeAbort
<1> QED
  BY <1>1, <1>2, <1>3, <1>4 DEF Next

LEMMA JudgedWholeNext ==
  ASSUME TypeOK, JudgedWhole, [Next]_vars
  PROVE  JudgedWhole'
<1>1. CASE \E s \in Results : Validate(s)
  BY <1>1, ValidateKeepsWhole
<1>2. CASE UNCHANGED judging
  BY <1>2 DEF judging, JudgedWhole, Stored
<1> QED
  BY <1>1, <1>2, JudgingUntouched DEF vars

\* No interleaving of assignments, evidence and adjudicators records a verdict
\* that leaves out a validator assigned by then (append_verdict).
THEOREM VerdictsNameAll == Spec => []VerdictNamesAll
<1> QED
  BY SemanticTypes, JudgedWholeInit, JudgedWholeNext, JudgedWholeImplies, PTL DEF Spec

---------------------------------------------------------------------------
(* Tasks: a proposal has one child                                         *)

\* What the tables say of the tasks of one source.
ChildAgrees(s) ==
  /\ bound[s] # 0 =>
       /\ proposal[s] # None
       /\ Newest(s, bound[s])
       /\ task[s][bound[s]].actor = "broker"
       /\ task[s][bound[s]].state # "superseded"
       /\ task[s][bound[s]].limit <= proposal[s].budget
  /\ \A g \in Generations :
       task[s][g] # None /\ task[s][g].actor = "broker"
         /\ task[s][g].state \in {"active", "ready_for_human"} => bound[s] = g

\* The inductive invariant: while an intake holds the lock of its source, there
\* is no child of that source, and none comes about.
ChildrenAgree ==
  /\ \A s \in Results : ChildAgrees(s)
  /\ \A s \in Results : s > 1 /\ subject[s] # None =>
       bound[s-1] # 0 /\ bound[s-1] = subject[s].generation
  /\ intaking # None => bound[intaking.source] = 0

LEMMA ChildrenAgreeImplies == ChildrenAgree => OneChild
  BY DEF ChildrenAgree, ChildAgrees, OneChild

LEMMA ChildrenAgreeInit == Init => ChildrenAgree
  BY ResultsAreNumbers DEF Init, ChildrenAgree, ChildAgrees

LEMMA PublishKeepsChildren ==
  ASSUME TypeOK, ChildrenAgree, NEW s \in Results, Publish(s)
  PROVE  ChildrenAgree'
<1>1. PICK ctx \in Contexts, head \in Heads, limit \in Limits, g \in {0} \cup Generations :
        /\ IF s = 1 THEN g = 0
           ELSE /\ g \in Generations /\ task[s-1][g] # None
                /\ task[s-1][g].state = "ready_for_human" /\ task[s-1][g].actor = "broker"
                /\ limit = task[s-1][g].limit
        /\ subject' = [subject EXCEPT ![s] =
             [ctx |-> ctx, head |-> head, limit |-> limit, generation |-> g]]
  BY ZenonT(30) DEF Publish
<1>2. subject'[s].generation = g /\ \A t \in Results : t # s => subject'[t] = subject[t]
  BY <1>1 DEF TypeOK
<1>3. UNCHANGED <<proposal, task, bound, intaking>>
  BY DEF Publish, tasks
<1>4. ASSUME s > 1
      PROVE  bound[s-1] # 0 /\ bound[s-1] = g
  <2>1. s - 1 \in Results
    BY <1>4, RepairAssumption DEF Results
  <2>2. /\ g \in Generations /\ task[s-1][g] # None
        /\ task[s-1][g].state = "ready_for_human" /\ task[s-1][g].actor = "broker"
    BY <1>1, <1>4
  <2>3. ChildAgrees(s-1)
    BY <2>1 DEF ChildrenAgree
  <2>4. bound[s-1] = g
    BY <2>2, <2>3 DEF ChildAgrees
  <2> QED
    BY <2>2, <2>4, ResultsAreNumbers
<1>5. \A t \in Results : ChildAgrees(t)'
  BY <1>3 DEF ChildrenAgree, ChildAgrees, Newest
<1>6. \A t \in Results : t > 1 /\ subject'[t] # None =>
        bound'[t-1] # 0 /\ bound'[t-1] = subject'[t].generation
  BY <1>2, <1>3, <1>4 DEF ChildrenAgree
<1> QED
  BY <1>3, <1>5, <1>6 DEF ChildrenAgree

LEMMA PlanKeepsChildren ==
  ASSUME TypeOK, ChildrenAgree, NEW s \in Results, PlanRepair(s)
  PROVE  ChildrenAgree'
<1>1. UNCHANGED <<subject, task, bound, intaking>>
  BY DEF PlanRepair, Propose, Escalate, tasks
<1>2. \A t \in Results : proposal[t] # None => proposal'[t] = proposal[t]
  BY DEF PlanRepair, Propose, Escalate, TypeOK
<1>3. ASSUME NEW t \in Results
      PROVE  ChildAgrees(t)'
  BY <1>1, <1>2 DEF ChildrenAgree, ChildAgrees, Newest
<1> QED
  BY <1>1, <1>3 DEF ChildrenAgree

LEMMA BindKeepsChildren ==
  ASSUME TypeOK, ChildrenAgree, NEW s \in Results, NEW g \in Generations, Bind(s, g)
  PROVE  ChildrenAgree'
<1>1. /\ UNCHANGED <<subject, proposal, task, intaking>>
      /\ bound' = [bound EXCEPT ![s] = g]
      /\ bound[s] = 0
  BY DEF Bind
<1>2. bound'[s] = g /\ \A t \in Results : t # s => bound'[t] = bound[t]
  BY <1>1 DEF TypeOK
<1>3. ChildAgrees(s)'
  <2>1. /\ proposal[s] # None /\ Newest(s, g)
        /\ task[s][g].actor = "broker" /\ task[s][g].state = "queued"
        /\ task[s][g].limit <= proposal[s].budget
    BY DEF Bind
  <2>2. \A h \in Generations : task[s][h] # None /\ task[s][h].actor = "broker" =>
          task[s][h].state \notin {"active", "ready_for_human"}
    BY <1>1, ResultsAreNumbers DEF ChildrenAgree, ChildAgrees
  <2> QED
    BY <1>1, <1>2, <2>1, <2>2 DEF ChildAgrees, Newest
<1>4. \A t \in Results : t # s => ChildAgrees(t)'
  BY <1>1, <1>2 DEF ChildrenAgree, ChildAgrees, Newest
<1>5. \A t \in Results : t > 1 /\ subject[t] # None => t - 1 # s
  BY <1>1 DEF ChildrenAgree
<1>6. \A t \in Results : t > 1 => t - 1 \in Results
  BY RepairAssumption DEF Results
<1>7. intaking # None => intaking.source # s /\ intaking.source \in Results
  BY DEF Bind, SourceFree, TypeOK
<1> QED
  BY <1>1, <1>2, <1>3, <1>4, <1>5, <1>6, <1>7 DEF ChildrenAgree

\* A task of the broker is claimed only when it is bound, and no task on the
\* way is superseded by hand.
LEMMA SetTaskKeepsChildren ==
  ASSUME TypeOK, ChildrenAgree, NEW s \in Results, NEW g \in Generations, task[s][g] # None,
         NEW state \in {"queued", "active", "ready_for_human", "closed"},
         SetTask(s, g, state),
         task[s][g].actor = "broker" /\ state \in {"active", "ready_for_human"} => bound[s] = g
  PROVE  ChildrenAgree'
<1>1. UNCHANGED <<subject, proposal, bound, intaking>>
  BY DEF SetTask
<1> DEFINE row == [task[s][g] EXCEPT !.state = state]
<1>2. row \in Tasks /\ row.state = state /\ row.actor = task[s][g].actor /\ row.limit = task[s][g].limit
  <2>1. task[s][g] \in Tasks
    BY DEF TypeOK
  <2> QED
    BY <2>1 DEF Tasks
<1>3. task' = [task EXCEPT ![s] = [task[s] EXCEPT ![g] = row]]
  BY DEF SetTask
<1>4. row # None
  BY <1>2, RepairAssumption
<1> HIDE DEF row
<1>5. /\ task'[s][g] = row
      /\ \A h \in Generations : h # g => task'[s][h] = task[s][h]
      /\ \A t \in Results : t # s => task'[t] = task[t]
  BY <1>3 DEF TypeOK
<1>6. ChildAgrees(s)'
  <2>1. bound[s] # 0 => bound[s] \in Generations
    BY DEF TypeOK
  <2>2. bound[s] # 0 => /\ proposal[s] # None
                        /\ Newest(s, bound[s])'
                        /\ task'[s][bound[s]].actor = "broker"
                        /\ task'[s][bound[s]].state # "superseded"
                        /\ task'[s][bound[s]].limit <= proposal[s].budget
    <3>1. ChildAgrees(s)
      BY DEF ChildrenAgree
    <3>2. CASE bound[s] = g
      BY <2>1, <3>1, <3>2, <1>1, <1>2, <1>4, <1>5 DEF ChildAgrees, Newest
    <3>3. CASE bound[s] # g
      BY <2>1, <3>1, <3>3, <1>1, <1>4, <1>5 DEF ChildAgrees, Newest
    <3> QED
      BY <3>2, <3>3
  <2>3. \A h \in Generations :
          task'[s][h] # None /\ task'[s][h].actor = "broker"
            /\ task'[s][h].state \in {"active", "ready_for_human"} => bound[s] = h
    BY <1>2, <1>5 DEF ChildrenAgree, ChildAgrees
  <2> QED
    BY <1>1, <2>2, <2>3 DEF ChildAgrees
<1>7. \A t \in Results : t # s => ChildAgrees(t)'
  BY <1>1, <1>5 DEF ChildrenAgree, ChildAgrees, Newest
<1> QED
  BY <1>1, <1>6, <1>7 DEF ChildrenAgree

LEMMA HandOverKeepsChildren ==
  ASSUME TypeOK, ChildrenAgree, NEW s \in Results, HandOver(s)
  PROVE  ChildrenAgree'
<1>1. ASSUME NEW actor \in Actors, IntakeBegin(s, actor)
      PROVE  ChildrenAgree'
  <2>1. bound[s] = 0
    BY <1>1 DEF IntakeBegin, IntakeAllowed, ChildrenAgree, ChildAgrees
  <2> QED
    BY <1>1, <2>1 DEF IntakeBegin, ChildrenAgree, ChildAgrees, Newest
<1>2. ASSUME NEW g \in Generations, Bind(s, g)
      PROVE  ChildrenAgree'
  BY <1>2, BindKeepsChildren
<1>3. ASSUME NEW g \in Generations, Claim(s, g)
      PROVE  ChildrenAgree'
  BY <1>3, SetTaskKeepsChildren DEF Claim, Claimable
<1>4. ASSUME NEW g \in Generations, Release(s, g)
      PROVE  ChildrenAgree'
  <2>1. task[s][g].actor = "broker" => bound[s] = g
    BY <1>4 DEF Release, ChildrenAgree, ChildAgrees
  <2> QED
    BY <1>4, <2>1, SetTaskKeepsChildren DEF Release
<1>5. ASSUME NEW g \in Generations, Close(s, g)
      PROVE  ChildrenAgree'
  BY <1>5, SetTaskKeepsChildren DEF Close
<1> QED
  BY <1>1, <1>2, <1>3, <1>4, <1>5 DEF HandOver

LEMMA IntakeKeepsChildren ==
  ASSUME TypeOK, ChildrenAgree, NEW g \in Generations, NEW limit \in Limits, IntakeCommit(g, limit)
  PROVE  ChildrenAgree'
<1>1. PICK s \in Results, row \in Tasks :
        /\ s = intaking.source
        /\ row.state = "queued"
        /\ task' = [task EXCEPT ![s] = AfterIntake(s, g, row)]
  BY IntakeRow
<1>2. s \in Results
  OBVIOUS
<1>3. UNCHANGED <<subject, proposal, bound>> /\ intaking' = None /\ bound[s] = 0
  BY <1>1 DEF IntakeCommit, ChildrenAgree
<1>4. task'[s] = AfterIntake(s, g, row) /\ \A t \in Results : t # s => task'[t] = task[t]
  BY <1>1, <1>2 DEF TypeOK
<1>5. ASSUME NEW h \in Generations, task'[s][h] # None, task'[s][h].actor = "broker",
             task'[s][h].state \in {"active", "ready_for_human"}
      PROVE  bound[s] = h
  <2>1. task[s][h] # None => task[s][h] \in Tasks
    BY <1>2 DEF TypeOK
  <2>2. h # g
    BY <1>1, <1>4, <1>5 DEF AfterIntake
  <2>3. ~(task[s][h] # None /\ task[s][h].state \in Open)
    <3>1. SUFFICES ASSUME task[s][h] # None /\ task[s][h].state \in Open PROVE FALSE
      OBVIOUS
    <3>2. task'[s][h] = [task[s][h] EXCEPT !.state = "superseded"]
      BY <1>4, <2>2, <3>1 DEF AfterIntake
    <3>3. task'[s][h].state = "superseded"
      BY <2>1, <3>1, <3>2 DEF Tasks
    <3> QED
      BY <1>5, <3>3
  <2>4. task'[s][h] = task[s][h]
    BY <1>4, <2>2, <2>3 DEF AfterIntake
  <2> QED
    BY <1>2, <1>5, <2>4 DEF ChildrenAgree, ChildAgrees
<1>6. ChildAgrees(s)'
  BY <1>3, <1>5 DEF ChildAgrees
<1>7. \A t \in Results : t # s => ChildAgrees(t)'
  BY <1>3, <1>4 DEF ChildrenAgree, ChildAgrees, Newest
<1> QED
  BY <1>3, <1>6, <1>7 DEF ChildrenAgree

LEMMA ChildrenAgreeNext ==
  ASSUME TypeOK, ChildrenAgree, [Next]_vars
  PROVE  ChildrenAgree'
<1>1. ASSUME NEW s \in Results, Validate(s)
      PROVE  ChildrenAgree'
  <2>1. CASE Publish(s)
    BY <2>1, PublishKeepsChildren
  <2>2. CASE ~Publish(s)
    <3>1. UNCHANGED <<subject, proposal, tasks>>
      BY <1>1, <2>2 DEF Validate, CreateAssignment, AppendEvidence, ReadMaterial,
                        RecordVerdict, VerdictRefused
    <3> QED
      BY <3>1 DEF tasks, ChildrenAgree, ChildAgrees, Newest
  <2> QED
    BY <2>1, <2>2
<1>2. ASSUME NEW s \in Results, PlanRepair(s) \/ HandOver(s)
      PROVE  ChildrenAgree'
  BY <1>2, PlanKeepsChildren, HandOverKeepsChildren
<1>3. ASSUME NEW g \in Generations, NEW limit \in Limits, IntakeCommit(g, limit)
      PROVE  ChildrenAgree'
  BY <1>3, IntakeKeepsChildren
<1>4. CASE IntakeAbort
  BY <1>4 DEF IntakeAbort, ChildrenAgree, ChildAgrees, Newest
<1>5. CASE UNCHANGED vars
  BY <1>5 DEF vars, tasks, ChildrenAgree, ChildAgrees, Newest
<1> QED
  BY <1>1, <1>2, <1>3, <1>4, <1>5 DEF Next

\* However intake, binding and claims race, the child of a proposal is the
\* broker's newest task of it and the only one that is worked on.
THEOREM ProposalsHaveOneChild == Spec => []OneChild
<1> QED
  BY SemanticTypes, ChildrenAgreeInit, ChildrenAgreeNext, ChildrenAgreeImplies, PTL DEF Spec

---------------------------------------------------------------------------
(* Chains of repairs                                                       *)

\* How the proposal of s continues the one before it.
Continues(s) ==
  LET p == proposal[s] IN
  \/ /\ p.cycle = 1 /\ p.previous = 0 /\ p.after = {}
  \/ /\ p.cycle \in {2, 3} /\ p.previous = s - 1 /\ s - 1 \in Results
     /\ proposal[s-1] # None
     /\ p.cycle = proposal[s-1].cycle + 1
     /\ p.after = {s-1} \cup proposal[s-1].after
     /\ bound[s-1] # 0 /\ bound[s-1] = subject[s].generation
     /\ p.budget < proposal[s-1].budget /\ p.head # proposal[s-1].head

\* What the tables say of one proposal. The forerunners lie before it, and they
\* are as many as it has cycles behind it.
ProposalAgrees(s) ==
  LET p == proposal[s] IN
  /\ subject[s] # None /\ verdict[s] # None
  /\ p.justified /\ verdict[s].body.decision = "repair"
  /\ p.ctx # subject[s].ctx
  /\ Continues(s)
  /\ \A a \in p.after : a < s /\ proposal[a] # None
                          /\ proposal[a].ctx # p.ctx
                          /\ proposal[a].findings \cap p.findings = {}
  /\ IsFiniteSet(p.after) /\ Cardinality(p.after) = p.cycle - 1

ProposalsAgree == \A s \in Results : proposal[s] # None => ProposalAgrees(s)

LEMMA ProposalsAgreeImplies == TypeOK /\ ProposalsAgree => ChainIsSound
<1> SUFFICES ASSUME TypeOK, ProposalsAgree, NEW s \in Results, proposal[s] # None
             PROVE
      LET p == proposal[s]
      IN /\ p.justified /\ verdict[s].body.decision = "repair"
         /\ p.budget > 0 /\ p.ctx # subject[s].ctx
         /\ p.cycle = Cardinality(Lineage(s)) /\ p.cycle <= 3
         /\ p.cycle > 1 => LET q == proposal[p.previous]
                           IN /\ bound[p.previous] = subject[s].generation
                              /\ p.previous = s - 1
                              /\ p.budget < q.budget /\ p.head # q.head
         /\ \A a \in Lineage(p.previous) :
              /\ proposal[a].ctx # p.ctx
              /\ proposal[a].findings \cap p.findings = {}
  BY DEF ChainIsSound
<1> DEFINE p == proposal[s]
<1>1. p \in Proposals /\ ProposalAgrees(s)
  BY DEF TypeOK, ProposalsAgree
<1>2. p.cycle \in 1..3 /\ p.budget \in 1..3 /\ p.previous \in {0} \cup Results
  BY <1>1 DEF Proposals
<1>3. p.cycle = Cardinality(Lineage(s)) /\ p.cycle <= 3
  <2>1. s # 0 /\ s \in Nat
    BY ResultsAreNumbers
  <2>2. s \notin p.after /\ IsFiniteSet(p.after) /\ Cardinality(p.after) = p.cycle - 1
    BY <1>1, <2>1 DEF ProposalAgrees
  <2>3. Cardinality(p.after \cup {s}) = Cardinality(p.after) + 1
    BY <2>2, FS_AddElement
  <2>4. Lineage(s) = p.after \cup {s}
    BY <2>1 DEF Lineage
  <2> QED
    BY <2>2, <2>3, <2>4, <1>2
<1>4. Lineage(p.previous) = p.after
  BY <1>1, ResultsAreNumbers DEF ProposalAgrees, Continues, Lineage
<1>5. p.cycle > 1 => /\ bound[p.previous] = subject[s].generation
                     /\ p.previous = s - 1
                     /\ p.budget < proposal[p.previous].budget
                     /\ p.head # proposal[p.previous].head
  BY <1>1 DEF ProposalAgrees, Continues
<1> QED
  BY <1>1, <1>2, <1>3, <1>4, <1>5 DEF ProposalAgrees

LEMMA ProposalsAgreeInit == Init => ProposalsAgree
  BY DEF Init, ProposalsAgree

\* Proposals, and what they are compared with, are only ever added.
LEMMA ProposalsKept ==
  ASSUME ProposalsAgree, UNCHANGED proposal,
         \A s \in Results : /\ subject[s] # None => subject'[s] = subject[s]
                            /\ verdict[s] # None => verdict'[s] = verdict[s]
                            /\ bound[s] # 0 => bound'[s] = bound[s]
  PROVE  ProposalsAgree'
<1>1. ASSUME NEW s \in Results, proposal[s] # None
      PROVE  ProposalAgrees(s)'
  <2>1. ProposalAgrees(s)
    BY <1>1 DEF ProposalsAgree
  <2>2. subject'[s] = subject[s] /\ verdict'[s] = verdict[s]
    BY <2>1 DEF ProposalAgrees
  <2>3. Continues(s)'
    BY <2>1, <2>2 DEF ProposalAgrees, Continues
  <2> QED
    BY <2>1, <2>2, <2>3 DEF ProposalAgrees
<1> QED
  BY <1>1 DEF ProposalsAgree

LEMMA ProposeKeepsProposals ==
  ASSUME TypeOK, ProposalsAgree, NEW s \in Results, NEW q \in Requests,
         subject[s] # None, verdict[s] # None, VerdictStands(s),
         PreviousFits(s, q), Propose(s, q)
  PROVE  ProposalsAgree'
<1> DEFINE row == Planned(s, q)
<1>1. /\ proposal' = [proposal EXCEPT ![s] = row]
      /\ proposal[s] = None
      /\ RepairAllowed(s, q)
      /\ UNCHANGED <<subject, verdict, bound>>
  BY DEF Propose, Planned, judging, tasks
<1>2. row \in Proposals
  BY <1>1, PlannedType
<1>3. row # None
  BY <1>2, RepairAssumption
<1>4. proposal'[s] = row /\ \A t \in Results : t # s => proposal'[t] = proposal[t]
  BY <1>1 DEF TypeOK
<1>5. /\ row.cycle = q.cycle /\ row.previous = q.previous /\ row.after = Lineage(q.previous)
      /\ row.ctx = q.ctx /\ row.findings = verdict[s].body.findings
      /\ row.head = subject[s].head /\ row.budget = RepairBudget(s, q)
      /\ row.justified = (verdict[s].body = Adjudicate(evidence[s]))
  BY DEF Planned
<1>6. /\ q.cycle = 1 /\ q.previous = 0
      \/ /\ q.cycle \in {2, 3} /\ q.previous = s - 1 /\ q.previous \in Results
         /\ proposal[q.previous] # None
         /\ proposal[q.previous].cycle = q.cycle - 1
         /\ bound[q.previous] # 0 /\ bound[q.previous] = subject[s].generation
         /\ proposal[q.previous].head # subject[s].head
  BY <1>1, PreviousIsThere
<1> HIDE DEF row
<1>7. s \in Nat
  BY ResultsAreNumbers
<1>8. Continues(s)'
  <2>1. CASE q.cycle = 1
    BY <1>4, <1>5, <1>6, <2>1 DEF Continues, Lineage
  <2>2. CASE q.cycle \in {2, 3}
    <3> DEFINE before == proposal[q.previous]
    <3>1. q.previous = s - 1 /\ q.previous \in Results /\ q.previous # s /\ q.previous # 0
      BY <1>6, <1>7, <2>2, ResultsAreNumbers
    <3>2. before # None /\ before \in Proposals
      BY <3>1, <1>6, <2>2 DEF TypeOK
    <3>3. before.budget \in 1..3 /\ before.cycle \in 1..3
      BY <3>2 DEF Proposals
    <3>4. row.budget < before.budget
      <4>1. subject[s].limit \in 1..3
        BY RepairAssumption DEF TypeOK, Subjects
      <4> QED
        BY <1>5, <2>2, <3>3, <4>1 DEF RepairBudget
    <3>5. row.after = {s - 1} \cup before.after
      BY <1>5, <3>1 DEF Lineage
    <3>6. row.cycle = before.cycle + 1
      BY <1>5, <1>6, <2>2, <3>3
    <3>7. row.head # before.head /\ bound[s-1] # 0 /\ bound[s-1] = subject[s].generation
      BY <1>5, <1>6, <2>2
    <3>8. proposal'[s-1] = before
      BY <1>4, <3>1
    <3> HIDE DEF before
    <3> QED
      BY <1>1, <1>4, <1>5, <2>2, <3>1, <3>2, <3>4, <3>5, <3>6, <3>7, <3>8 DEF Continues
  <2> QED
    BY <1>6, <2>1, <2>2
<1>9. ASSUME NEW a \in Lineage(q.previous)
      PROVE  /\ a < s /\ a \in Results /\ proposal[a] # None
             /\ proposal[a].ctx # q.ctx
             /\ proposal[a].findings \cap verdict[s].body.findings = {}
  <2>1. q.previous = s - 1 /\ q.previous \in Results /\ proposal[q.previous] # None
    BY <1>6, <1>9 DEF Lineage
  <2>2. proposal[a].ctx # q.ctx /\ proposal[a].findings \cap verdict[s].body.findings = {}
    BY <1>1, <1>9 DEF RepairAllowed, FreshContext, Recurs
  <2>3. CASE a = q.previous
    BY <1>7, <2>1, <2>2, <2>3
  <2>4. CASE a \in proposal[q.previous].after
    <3>1. a < s - 1 /\ proposal[a] # None
      BY <2>1, <2>4 DEF ProposalsAgree, ProposalAgrees
    <3>2. a \in Results
      BY <2>1, <2>4 DEF TypeOK, Proposals
    <3> QED
      BY <1>7, <2>2, <3>1, <3>2, ResultsAreNumbers
  <2> QED
    BY <1>9, <2>3, <2>4 DEF Lineage
<1>10. IsFiniteSet(row.after) /\ Cardinality(row.after) = row.cycle - 1
  <2>1. CASE q.cycle = 1
    BY <1>5, <1>6, <2>1, FS_EmptySet DEF Lineage
  <2>2. CASE q.cycle \in {2, 3}
    <3> DEFINE before == proposal[q.previous]
    <3>1. q.previous = s - 1 /\ q.previous \in Results /\ q.previous # 0 /\ before # None
      BY <1>6, <2>2, ResultsAreNumbers
    <3>2. /\ IsFiniteSet(before.after) /\ Cardinality(before.after) = before.cycle - 1
          /\ \A a \in before.after : a < q.previous
      BY <3>1 DEF ProposalsAgree, ProposalAgrees
    <3>3. before.cycle = q.cycle - 1 /\ q.cycle \in Nat
      BY <1>6, <2>2
    <3>4. q.previous \notin before.after
      BY <3>1, <3>2, ResultsAreNumbers
    <3>5. /\ IsFiniteSet(before.after \cup {q.previous})
          /\ Cardinality(before.after \cup {q.previous}) = Cardinality(before.after) + 1
      BY <3>2, <3>4, FS_AddElement
    <3>6. row.after = before.after \cup {q.previous}
      BY <1>5, <3>1 DEF Lineage
    <3> HIDE DEF before
    <3> QED
      BY <1>5, <2>2, <3>2, <3>3, <3>5, <3>6
  <2> QED
    BY <1>6, <2>1, <2>2
<1>11. verdict[s].body.decision = "repair" /\ q.ctx # subject[s].ctx /\ row.justified
  BY <1>1, <1>5 DEF RepairAllowed, FreshContext, VerdictStands
<1>12. ProposalAgrees(s)'
  <2>1. \A a \in row.after : /\ a < s /\ proposal'[a] # None
                             /\ proposal'[a].ctx # row.ctx
                             /\ proposal'[a].findings \cap row.findings = {}
    BY <1>4, <1>5, <1>7, <1>9
  <2> QED
    BY <1>1, <1>4, <1>5, <1>8, <1>10, <1>11, <2>1 DEF ProposalAgrees
<1>13. ASSUME NEW t \in Results, t # s, proposal[t] # None
       PROVE  ProposalAgrees(t)'
  <2>1. ProposalAgrees(t) /\ proposal'[t] = proposal[t]
    BY <1>4, <1>13 DEF ProposalsAgree
  <2>2. \A a \in Results : proposal[a] # None => proposal'[a] = proposal[a]
    BY <1>1, <1>4
  <2>3. Continues(t)'
    BY <1>1, <2>1, <2>2 DEF ProposalAgrees, Continues
  <2>4. proposal[t].after \subseteq Results
    BY <1>13 DEF TypeOK, Proposals
  <2>5. \A a \in proposal[t].after :
          proposal'[a] = proposal[a] /\ a < t /\ proposal[a] # None
            /\ proposal[a].ctx # proposal[t].ctx
            /\ proposal[a].findings \cap proposal[t].findings = {}
    BY <2>1, <2>2, <2>4 DEF ProposalAgrees
  <2> QED
    BY <1>1, <2>1, <2>3, <2>5 DEF ProposalAgrees
<1> QED
  BY <1>4, <1>12, <1>13 DEF ProposalsAgree

LEMMA ProposalsAgreeNext ==
  ASSUME TypeOK, ProposalsAgree, [Next]_vars
  PROVE  ProposalsAgree'
<1>1. ASSUME NEW s \in Results, NEW q \in Requests, PlanRepair(s),
             PreviousFits(s, q), Propose(s, q)
      PROVE  ProposalsAgree'
  BY <1>1, ProposeKeepsProposals DEF PlanRepair, Latest
<1>2. ASSUME NEW s \in Results, NEW q \in Requests, Escalate(s, q)
      PROVE  ProposalsAgree'
  BY <1>2, ProposalsKept DEF Escalate, judging, tasks
<1>3. ASSUME NEW s \in Results, Validate(s)
      PROVE  ProposalsAgree'
  <2>1. \A t \in Results : /\ subject[t] # None => subject'[t] = subject[t]
                           /\ verdict[t] # None => verdict'[t] = verdict[t]
    <3>1. CASE Publish(s)
      BY <3>1, ZenonT(30) DEF Publish, judging, TypeOK
    <3>2. CASE RecordVerdict(s)
      BY <3>2 DEF RecordVerdict, TypeOK
    <3>3. CASE ~Publish(s) /\ ~RecordVerdict(s)
      BY <1>3, <3>3 DEF Validate, CreateAssignment, AppendEvidence, ReadMaterial,
                        VerdictRefused
    <3> QED
      BY <3>1, <3>2, <3>3
  <2>2. UNCHANGED <<proposal, bound>>
    BY <1>3 DEF Validate, Publish, CreateAssignment, AppendEvidence, ReadMaterial,
                RecordVerdict, VerdictRefused, tasks
  <2> QED
    BY <2>1, <2>2, ProposalsKept
<1>4. ASSUME NEW s \in Results, HandOver(s)
      PROVE  ProposalsAgree'
  <2>1. UNCHANGED <<subject, verdict, proposal>>
    BY <1>4 DEF HandOver, IntakeBegin, Bind, Claim, Release, Close, SetTask, judging
  <2>2. \A t \in Results : bound[t] # 0 => bound'[t] = bound[t]
    BY <1>4 DEF HandOver, IntakeBegin, Bind, Claim, Release, Close, SetTask, TypeOK
  <2> QED
    BY <2>1, <2>2, ProposalsKept
<1>5. ASSUME NEW g \in Generations, NEW limit \in Limits, IntakeCommit(g, limit)
      PROVE  ProposalsAgree'
  BY <1>5, ProposalsKept DEF IntakeCommit, judging
<1>6. CASE IntakeAbort
  BY <1>6, ProposalsKept DEF IntakeAbort, judging
<1>7. CASE UNCHANGED vars
  BY <1>7, ProposalsKept DEF vars, judging, tasks
<1> QED
  BY <1>1, <1>2, <1>3, <1>4, <1>5, <1>6, <1>7 DEF Next, PlanRepair

\* A chain of repairs is sound for any number of results: it ends after three
\* cycles, spends its budget, never meets a finding or a context twice, and each
\* step was what the stored evidence asked for (plan_repair).
THEOREM ChainsAreSound == Spec => []ChainIsSound
<1> QED
  BY SemanticTypes, ProposalsAgreeInit, ProposalsAgreeNext, ProposalsAgreeImplies, PTL DEF Spec
=============================================================================
