-------------------------- MODULE SemanticRepair ----------------------------
(***************************************************************************)
(* Semantic validation and repair (018_semantic_validation_bridge.sql, its  *)
(* stores in store.py and semantic_adjudication.py): a finished result is   *)
(* published as a subject, validators append evidence, an adjudicator       *)
(* records one verdict, a coordinator plans at most one repair proposal for *)
(* it, a broker hands the proposal over as a task, and the result of that   *)
(* task is the next subject.                                                *)
(*                                                                          *)
(* Result s + 1 is the result of the task that the proposal of s became, so *)
(* a proposal and its source are named by their result. A subject has one   *)
(* requirement; a report is the coverage status of it and the findings.     *)
(* Every SQL function is one transaction in READ COMMITTED, and one step    *)
(* where its locks exclude every writer of what it reads: the verdict and   *)
(* the plan lock the subject, which every new row of evidence refers to. An *)
(* intake is two steps, and so is an adjudication: what is read first is    *)
(* not locked until the verdict is recorded.                                *)
(***************************************************************************)
EXTENDS Integers, FiniteSets, Sequences

CONSTANTS
  MaxAssigned,    \* bound: validators of each result; its length bounds the chain
  MaxTasks,       \* bound: tasks taken in for each result
  MaxEscalations, \* bound: subjects handed to a human
  Validators,     \* validators other than the writer, with contexts of their own
  Contexts,       \* context digests of writers
  Heads,          \* commits
  Reports,        \* [status, findings] a validator may submit
  HumanFindings,  \* identities not repairable, or of a category kept for humans
  Limits,         \* limits.semantic_repairs of an intent
  None

Results     == 1..Len(MaxAssigned)
Generations == UNION {1..MaxTasks[s] : s \in Results}
Findings    == UNION {r.findings : r \in Reports}

\* rows: absent ones are None
Subjects == [ctx : Contexts, head : Heads, limit : Limits, generation : {0} \cup Generations]
Evidence == [status : {"proven", "bare", "unproven", "contradicted", "out_of_scope"},
             findings : SUBSET Findings]
Proposals == [cycle : 1..3, previous : {0} \cup Results, after : SUBSET Results,
              ctx : Contexts, findings : SUBSET Findings, head : Heads,
              budget : 1..3, justified : BOOLEAN]
Actors == {"broker", "ordinary"}
Tasks  == [actor : Actors, limit : {0} \cup Limits,
           state : {"queued", "active", "ready_for_human", "superseded", "closed"}]

ASSUME RepairAssumption ==
  /\ MaxAssigned \in Seq(Nat) \ {<<>>}
  /\ MaxTasks \in Seq(Nat) /\ Len(MaxTasks) = Len(MaxAssigned)
  /\ MaxEscalations \in Nat
  /\ Limits \subseteq 1..3
  /\ Reports \subseteq Evidence
  /\ None \notin Results /\ None \notin Subjects /\ None \notin Evidence
  /\ None \notin Proposals /\ None \notin Tasks

VARIABLES
  subject,   \* semantic_subjects: writer context, head, repair limit, generation
  assigned,  \* semantic_assignments: the validators of each subject
  evidence,  \* semantic_coverage and semantic_findings, by validator
  draft,     \* the material the adjudicator has read
  verdict,   \* semantic_verdicts
  proposal,  \* semantic_directives and semantic_child_proposals
  escalated, \* semantic_escalations: subjects handed to a human
  task,      \* the tasks taken in for the source of each proposal
  bound,     \* semantic_child_task_bindings: the generation bound, 0 for none
  intaking   \* the intake that holds the advisory lock of its source

judging == <<assigned, evidence, draft, verdict>>
tasks   == <<task, bound, intaking>>
vars    == <<subject, judging, proposal, escalated, tasks>>

Init ==
  /\ subject = [s \in Results |-> None]
  /\ assigned = [s \in Results |-> {}]
  /\ evidence = [s \in Results |-> [v \in Validators |-> None]]
  /\ draft = None
  /\ verdict = [s \in Results |-> None]
  /\ proposal = [s \in Results |-> None]
  /\ escalated = {}
  /\ task = [s \in Results |-> [g \in Generations |-> None]]
  /\ bound = [s \in Results |-> 0]
  /\ intaking = None

\* bound: a result is validated until the next one of the chain is published
Latest(s) == subject[s] # None /\ \A t \in Results : t > s => subject[t] = None

---------------------------------------------------------------------------
(* Subjects, validators and evidence                                       *)

\* A result is published once, while its task is ready_for_human. The writer's
\* context is an input of the publication.
Publish(s) ==
  /\ subject[s] = None
  /\ \E ctx \in Contexts, head \in Heads, limit \in Limits, g \in {0} \cup Generations :
       /\ IF s = 1 THEN g = 0
          ELSE /\ g \in Generations /\ task[s-1][g] # None
               /\ task[s-1][g].state = "ready_for_human" /\ task[s-1][g].actor = "broker"
               /\ limit = task[s-1][g].limit
       /\ subject' = [subject EXCEPT ![s] =
            [ctx |-> ctx, head |-> head, limit |-> limit, generation |-> g]]
  /\ UNCHANGED <<judging, proposal, escalated, tasks>>

\* locks the subject, as the verdict does
CreateAssignment(s, v) ==
  /\ Latest(s)
  /\ v \notin assigned[s] /\ Cardinality(assigned[s]) < MaxAssigned[s]
  /\ assigned' = [assigned EXCEPT ![s] = @ \cup {v}]
  /\ UNCHANGED <<subject, evidence, draft, verdict, proposal, escalated, tasks>>

\* One coverage for an assignment; a later report that repeats it may still add
\* findings. It waits for a verdict that is being recorded; one that is there
\* does not stop it.
AppendEvidence(s, v, report) ==
  LET old == evidence[s][v]
  IN /\ Latest(s) /\ v \in assigned[s]
     /\ old # None => report.status = old.status /\ ~(report.findings \subseteq old.findings)
     /\ evidence' = [evidence EXCEPT ![s][v] =
          IF old = None THEN report
          ELSE [old EXCEPT !.findings = @ \cup report.findings]]
     /\ UNCHANGED <<subject, assigned, draft, verdict, proposal, escalated, tasks>>

---------------------------------------------------------------------------
(* The verdict                                                             *)

\* adjudicate in Python, semantic_expected_verdict in SQL
Adjudicate(reports) ==
  LET from     == {v \in Validators : reports[v] # None}
      statuses == {reports[v].status : v \in from}
      found    == UNION {reports[v].findings : v \in from}
      repeated == {f \in found : \E v, w \in from :
                     v # w /\ f \in reports[v].findings \cap reports[w].findings}
      contradicted == Cardinality(statuses) > 1 \/ "contradicted" \in statuses
      unsupported  == \/ statuses \cap {"out_of_scope", "bare"} # {}
                      \/ "proven" \in statuses /\ found # {}
      human    == contradicted \/ unsupported \/ found \cap HumanFindings # {}
  IN [findings |-> found, repeated |-> repeated,
      contradicted |-> contradicted, unsupported |-> unsupported,
      decision |-> IF human THEN "needs_human"
                   ELSE IF found # {} \/ statuses # {"proven"} THEN "repair"
                   ELSE "pass"]

\* every assignment has its coverage, and there is one
Complete(s) == assigned[s] # {} /\ \A v \in assigned[s] : evidence[s][v] # None

\* The adjudicator reads the material in one statement and computes the
\* verdict from it outside of any transaction; a later reading replaces it.
ReadMaterial(s) ==
  /\ Latest(s)
  /\ verdict[s] = None
  /\ Complete(s)
  /\ draft' = [of |-> s, named |-> evidence[s]]
  /\ UNCHANGED <<subject, assigned, evidence, verdict, proposal, escalated, tasks>>

\* Mistake: the assignments are not counted
NamesTheStored(s) == draft.named = evidence[s]

\* the evidence that was named is what is stored, and of every assignment
NamesAll(s) == Complete(s) /\ draft.named = evidence[s]

\* append_verdict, under the lock of the subject. The verdict it computes again
\* is that of the evidence it has compared. The set of assignments is kept for
\* the invariants.
RecordVerdict(s) ==
  /\ draft # None /\ draft.of = s
  /\ NamesAll(s)
  /\ verdict[s] = None
  /\ verdict' = [verdict EXCEPT ![s] =
       [named |-> draft.named, body |-> Adjudicate(draft.named), assigned |-> assigned[s]]]
  /\ draft' = None
  /\ UNCHANGED <<subject, assigned, evidence, proposal, escalated, tasks>>

\* an assignment or evidence came after the material had been read
VerdictRefused(s) ==
  /\ draft # None /\ draft.of = s
  /\ ~NamesAll(s)
  /\ draft' = None
  /\ UNCHANGED <<subject, assigned, evidence, verdict, proposal, escalated, tasks>>

---------------------------------------------------------------------------
(* Planning a repair                                                       *)

\* previous is 0 for none; current: everything else the request expects of the
\* subject still holds (risk, diff, authority, fence, limits, deadline)
Requests ==
  {q \in [cycle : 1..4, previous : {0} \cup Results, ctx : Contexts, current : BOOLEAN] :
     (q.cycle = 1) = (q.previous = 0)}

\* the proposals from which p comes, p included; 0 has none
Lineage(p) == IF p = 0 THEN {} ELSE {p} \cup proposal[p].after

\* cycles 2 and 3: a proposal of the cycle before, of this subject or of the one
\* whose bound child produced this subject with the context of the proposal
PreviousFits(s, q) ==
  q.cycle \in {2, 3} =>
    LET p == proposal[q.previous]
    IN /\ p # None /\ p.cycle = q.cycle - 1
       /\ q.previous # s => /\ q.previous = s - 1
                            /\ bound[q.previous] # 0
                            /\ bound[q.previous] = subject[s].generation
                            /\ p.ctx = subject[s].ctx

RepairBudget(s, q) ==
  IF q.cycle \notin {2, 3} THEN subject[s].limit
  ELSE LET left == proposal[q.previous].budget
       IN (IF subject[s].limit <= left THEN subject[s].limit ELSE left) - 1

\* a finding of an earlier cycle is there again
Recurs(s, q) ==
  \E a \in Lineage(q.previous) :
    proposal[a].findings \cap verdict[s].body.findings # {}

FreshContext(s, q) ==
  /\ q.ctx # subject[s].ctx
  /\ \A a \in Lineage(q.previous) : proposal[a].ctx # q.ctx

\* no reason to escalate
RepairAllowed(s, q) ==
  /\ q.cycle \in 1..3
  /\ q.previous # 0 => q.previous # s /\ proposal[q.previous].head # subject[s].head
  /\ ~Recurs(s, q)
  /\ q.current
  /\ RepairBudget(s, q) > 0
  /\ FreshContext(s, q)
  /\ verdict[s].body.decision = "repair"

\* Mistake: the verdict is not computed again
VerdictAsRecorded(s) == TRUE

\* late evidence that changes the verdict ends the matter without an answer
VerdictStands(s) == verdict[s].body = Adjudicate(evidence[s])

\* A verdict has one directive and a directive one proposal: a second request
\* gets the proposal that is there, or none. Whether the verdict still was what
\* the evidence says is kept for the invariants.
Propose(s, q) ==
  /\ RepairAllowed(s, q)
  /\ proposal[s] = None
  /\ proposal' = [proposal EXCEPT ![s] =
       [cycle |-> q.cycle, previous |-> q.previous, after |-> Lineage(q.previous),
        ctx |-> q.ctx, findings |-> verdict[s].body.findings, head |-> subject[s].head,
        budget |-> RepairBudget(s, q),
        justified |-> verdict[s].body = Adjudicate(evidence[s])]]
  /\ UNCHANGED <<subject, judging, escalated, tasks>>

Escalate(s, q) ==
  /\ ~RepairAllowed(s, q)
  /\ Cardinality(escalated) < MaxEscalations
  /\ escalated' = escalated \cup {s}
  /\ UNCHANGED <<subject, judging, proposal, tasks>>

\* plan_repair locks the subject
PlanRepair(s) ==
  /\ Latest(s)
  /\ verdict[s] # None
  /\ VerdictStands(s)
  /\ \E q \in Requests : PreviousFits(s, q) /\ (Propose(s, q) \/ Escalate(s, q))

---------------------------------------------------------------------------
(* The child task                                                          *)

Open == {"queued", "active"}

\* semantic_repair_intake_status, read under the advisory lock of the source:
\* nobody but the broker takes a proposal in, nobody takes in a bound one
IntakeAllowed(s, actor) ==
  IF proposal[s] = None THEN actor = "ordinary" ELSE actor = "broker" /\ bound[s] = 0

IntakeBegin(s, actor) ==
  /\ intaking = None
  /\ subject[s] # None /\ IntakeAllowed(s, actor)
  /\ intaking' = [source |-> s, actor |-> actor]
  /\ UNCHANGED <<subject, judging, proposal, escalated, task, bound>>

\* the tasks of the source that are open are superseded by the new generation
IntakeCommit(g, limit) ==
  LET s == intaking.source
  IN /\ intaking # None
     /\ g <= MaxTasks[s] /\ task[s][g] = None /\ \A h \in Generations : h < g => task[s][h] # None
     /\ task' = [task EXCEPT ![s] = [h \in Generations |->
          IF h = g THEN [actor |-> intaking.actor, limit |-> IF intaking.actor = "broker" THEN limit ELSE 0, state |-> "queued"]
          ELSE IF @[h] # None /\ @[h].state \in Open THEN [@[h] EXCEPT !.state = "superseded"]
          ELSE @[h]]]
     /\ intaking' = None
     /\ UNCHANGED <<subject, judging, proposal, escalated, bound>>

IntakeAbort ==
  /\ intaking # None
  /\ intaking' = None
  /\ UNCHANGED <<subject, judging, proposal, escalated, task, bound>>

\* Mistake: the child is bound without the advisory lock
SourceAlwaysFree(s) == TRUE

\* the advisory lock of the source is free
SourceFree(s) == intaking # None => intaking.source # s

Newest(s, g) == task[s][g] # None /\ \A h \in Generations : h > g => task[s][h] = None

\* bind_repair_child: one task of the broker, the newest, with no higher limit
Bind(s, g) ==
  /\ proposal[s] # None
  /\ SourceFree(s)
  /\ Newest(s, g)
  /\ task[s][g].state = "queued"
  /\ bound[s] = 0
  /\ task[s][g].actor = "broker"
  /\ task[s][g].limit <= proposal[s].budget
  /\ bound' = [bound EXCEPT ![s] = g]
  /\ UNCHANGED <<subject, judging, proposal, escalated, task, intaking>>

\* semantic_task_claimable: a task of a proposal only when it is the bound one
Claimable(s, g) ==
  proposal[s] # None \/ task[s][g].actor = "broker" =>
    task[s][g].actor = "broker" /\ bound[s] = g

SetTask(s, g, state) ==
  /\ task' = [task EXCEPT ![s][g].state = state]
  /\ UNCHANGED <<subject, judging, proposal, escalated, bound, intaking>>

Claim(s, g) ==
  /\ task[s][g] # None /\ task[s][g].state = "queued"
  /\ Claimable(s, g)
  /\ SetTask(s, g, "active")

\* a failed attempt is retried, a good one is ready for the next publication
Release(s, g) ==
  /\ task[s][g] # None /\ task[s][g].state = "active"
  /\ \E state \in {"queued", "ready_for_human"} : SetTask(s, g, state)

\* cancelled, or dead for want of time or attempts
Close(s, g) ==
  /\ task[s][g] # None /\ task[s][g].state \in Open
  /\ SetTask(s, g, "closed")

---------------------------------------------------------------------------
Validate(s) ==
  \/ Publish(s)
  \/ \E v \in Validators : CreateAssignment(s, v)
  \/ \E v \in Validators, report \in Reports : AppendEvidence(s, v, report)
  \/ ReadMaterial(s)
  \/ RecordVerdict(s)
  \/ VerdictRefused(s)

HandOver(s) ==
  \/ \E actor \in Actors : IntakeBegin(s, actor)
  \/ \E g \in Generations : Bind(s, g) \/ Claim(s, g) \/ Release(s, g) \/ Close(s, g)

Next ==
  \/ \E s \in Results : Validate(s) \/ PlanRepair(s) \/ HandOver(s)
  \/ \E g \in Generations, limit \in Limits : IntakeCommit(g, limit)
  \/ IntakeAbort

Spec == Init /\ [][Next]_vars

---------------------------------------------------------------------------
(* Properties                                                              *)

Reported   == [Validators -> {None} \cup Evidence]
Judgements == [findings : SUBSET Findings, repeated : SUBSET Findings,
               contradicted : BOOLEAN, unsupported : BOOLEAN,
               decision : {"needs_human", "repair", "pass"}]

\* The type invariant of the semantic tables and of the transactions under way.
TypeOK ==
  /\ subject \in [Results -> {None} \cup Subjects]
  /\ assigned \in [Results -> SUBSET Validators]
  /\ evidence \in [Results -> Reported]
  /\ draft \in {None} \cup [of : Results, named : Reported]
  /\ verdict \in [Results -> {None} \cup
       [named : Reported, body : Judgements, assigned : SUBSET Validators]]
  /\ proposal \in [Results -> {None} \cup Proposals]
  /\ escalated \subseteq Results
  /\ task \in [Results -> [Generations -> {None} \cup Tasks]]
  /\ bound \in [Results -> {0} \cup Generations]
  /\ intaking \in {None} \cup [source : Results, actor : Actors]

\* A verdict leaves out nobody: it names the evidence of every assignment there
\* is when it is recorded, and what it names stays stored (append_verdict).
VerdictNamesAll ==
  \A s \in Results : verdict[s] # None =>
    /\ {v \in Validators : verdict[s].named[v] # None} = verdict[s].assigned
    /\ \A v \in verdict[s].assigned :
         /\ evidence[s][v].status = verdict[s].named[v].status
         /\ verdict[s].named[v].findings \subseteq evidence[s][v].findings

\* A proposal was justified by the evidence stored when it was planned. From
\* the second cycle on it repairs the result of the bound child of the proposal
\* before it, with less budget, in a context none of its forerunners had, for
\* findings none of them had; a chain has three cycles (plan_repair).
ChainIsSound ==
  \A s \in Results : proposal[s] # None =>
    LET p == proposal[s]
    IN /\ p.justified /\ verdict[s].body.decision = "repair"
       /\ p.budget > 0 /\ p.ctx # subject[s].ctx
       /\ p.cycle = Cardinality(Lineage(s)) /\ p.cycle <= 3
       /\ p.cycle > 1 => LET q == proposal[p.previous]
                         IN /\ bound[p.previous] = subject[s].generation
                            /\ p.previous = s - 1
                            /\ p.budget < q.budget /\ p.head # q.head
       /\ \A a \in Lineage(p.previous) :
            /\ proposal[a].ctx # p.ctx
            /\ proposal[a].findings \cap p.findings = {}

\* A proposal has one child: the bound task is the broker's newest one and is
\* never superseded, no other task of the broker is claimed, and the result
\* that follows is the bound task's (intake, bind_repair_child and claim).
OneChild ==
  \A s \in Results :
    /\ bound[s] # 0 => /\ Newest(s, bound[s])
                       /\ task[s][bound[s]].actor = "broker"
                       /\ task[s][bound[s]].state # "superseded"
                       /\ task[s][bound[s]].limit <= proposal[s].budget
    /\ \A g \in Generations :
         task[s][g] # None /\ task[s][g].actor = "broker"
           /\ task[s][g].state \in {"active", "ready_for_human"} => bound[s] = g
    /\ s > 1 /\ subject[s] # None => bound[s-1] = subject[s].generation
=============================================================================
