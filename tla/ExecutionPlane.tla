--------------------------- MODULE ExecutionPlane ---------------------------
(***************************************************************************)
(* The execution plane of one run: claim_execution, the proposals of the    *)
(* worker and the terminal command that finalizes them (service.py          *)
(* 421-845), the store methods they call (store.py 2894-3640) and the       *)
(* functions of resources/015_execution_canonical_persistence.sql and 020.  *)
(*                                                                         *)
(* A service call is several transactions one after another; each is one    *)
(* action on locked rows. A worker whose call timed out repeats it, with    *)
(* the same command key and while the first may still be running, so two    *)
(* calls interleave at every transaction. The grant, the packet and the     *)
(* fence are those of one run and always match; digests are the facts they  *)
(* are digests of. The context a proposal is checked against is read again  *)
(* by the transaction that commits it, so its first reading is no step.     *)
(***************************************************************************)
EXTENDS Integers, Sequences, FiniteSets

CONSTANTS
  Calls,          \* service calls that may be under way at once
  Keys,           \* command keys of the worker
  ClaimKeys,      \* bound: those of them it claims with
  Kinds,          \* what the worker asks for: claims, proposals, terminals
  ProviderCalls,  \* provider calls whose usage is reported, numbers
  MaxEvents,      \* max_events of the packet and event limit of the task
  LastAttempt,    \* attempt_no > infrastructure_retries
  Started,        \* begin with an execution that was started before
  MaxWrites,      \* bound: changes of the files in the workspace
  MaxFaults       \* bound: failed transactions, lost answers, dead services

\* usage.reported of protocol v1, and of v2 without and with cache tokens
PricedKinds == {"priced", "cached"}
UsageKinds  == {"usage"} \cup PricedKinds
Proposals == {"note", "artifact"} \cup UsageKinds
Terminals == {"completed", "transient", "permanent", "human"}

ASSUME PlaneAssumption ==
  /\ IsFiniteSet(Calls)
  /\ ClaimKeys \subseteq Keys
  /\ Kinds \subseteq {"claim"} \cup Proposals \cup Terminals
  /\ ProviderCalls \subseteq Nat
  /\ MaxEvents \in Nat \ {0}
  /\ LastAttempt \in BOOLEAN /\ Started \in BOOLEAN
  /\ MaxWrites \in Nat
  /\ MaxFaults \in Nat

VARIABLES
  task,      \* state of the task while and after this run, until another run
  due,       \* the lease or the deadline of the task has passed
  stage,     \* stage of the execution manifest
  log,       \* execution_proposals by producer_sequence
  attested,  \* execution_artifact_attestations by producer_sequence
  consumed,  \* sequences whose attestation a proposal has consumed
  usage,     \* provider calls with a row in usage_observations
  account,   \* of the task: open reservations, accounting_blocked
  result,    \* row of workspace_results
  commands,  \* rows of command_results
  files,     \* version of the files in the workspace
  calls,     \* what a service call is doing and what it answered last
  faults     \* faults so far

rows == <<task, stage, log, attested, consumed, usage, account, result, commands>>
vars == <<rows, due, files, calls, faults>>

---------------------------------------------------------------------------
Working  == {"prepared", "running", "collecting"}
Finished == {"completed", "failed", "needs_human"}
\* cancelled stands for superseded too; a task that a later run has is taken,
\* and what becomes of it then is not followed here
Statuses == {"free", "leased", "retry", "dead", "needs_human",
             "ready_for_human", "cancelled", "taken"}

None     == -1                                   \* no attestation
NoResult == [stage |-> "none", status |-> "none", log |-> <<>>, snapshot |-> 0]
NoEvent  == [seq |-> 0, kind |-> "none", body |-> 0]
Waiting  == [pc |-> "idle", key |-> "none", event |-> NoEvent, seen |-> 0,
             answer |-> "none", given |-> NoResult]

Proposal(e) == [kind |-> e.kind, body |-> e.body]
IsTerminal(kind) == kind \in Terminals
Closed == log # <<>> /\ IsTerminal(log[Len(log)].kind)
Placed(e) == e.seq \in 1..Len(log) /\ log[e.seq] = Proposal(e)

Init ==
  /\ task = IF Started THEN "leased" ELSE "free"
  /\ due = FALSE
  /\ stage = IF Started THEN "prepared" ELSE "none"
  /\ log = <<>>
  /\ attested = [n \in 1..MaxEvents |-> None]
  /\ consumed = {}
  /\ usage = {}
  /\ account = [reserved |-> FALSE, blocked |-> FALSE]
  /\ result = NoResult
  /\ commands = {}
  /\ files = 0
  /\ calls = [c \in Calls |-> Waiting]
  /\ faults = 0

\* what _lock_grant demands, and what the execution functions demand with it
Live   == task = "leased" /\ ~due
Active == Live /\ stage \in Working

---------------------------------------------------------------------------
(* Commands: every transaction of a call looks for its key first           *)

Key(c, phase) == <<calls[c].key, phase>>
\* the key of the terminal command is that of its marker, its proposal gets a
\* key of its own; any other proposal is recorded under the worker's key
ProposalKey(c) ==
  Key(c, IF IsTerminal(calls[c].event.kind) THEN "proposal" ELSE "worker")

Command(act, e) == [act |-> act, event |-> e]
Row(key, command, answer) == [key |-> key, command |-> command, answer |-> answer]

\* _command_replay: the row of the key, if it is of the same command
Replays(key, command, answer) == Row(key, command, answer) \in commands
Clashes(key, command) == \E x \in commands : x.key = key /\ x.command # command
IsNew(key) == \A x \in commands : x.key # key

\* _record_command
Records(key, command, answer) ==
  commands' = commands \cup {Row(key, command, answer)}

Claiming(c)   == Command("claim", NoEvent)
Starting(c)   == Command("start", NoEvent)
Releasing(c)  == Command(calls[c].pc, NoEvent)
Marking(c)    == Command("composite", calls[c].event)
Proposing(c)  == Command("propose", calls[c].event)
Finalizing(c) == Command("finalize", NoEvent)

\* where a call goes next, and how it ends: with an error, or nothing to claim,
\* when the answer is "none"
Goes(c, pc) == calls' = [calls EXCEPT ![c].pc = pc]
Answers(c, answer) ==
  calls' = [calls EXCEPT ![c] =
              [Waiting EXCEPT !.answer = answer,
                 !.event = IF answer = "accepted" THEN calls[c].event ELSE NoEvent]]
Gives(c, r) ==
  calls' = [calls EXCEPT ![c] =
              [Waiting EXCEPT !.answer = "finished", !.given = r]]
\* a proposal is there: the terminal command goes on to finalize it
Accepted(c) ==
  IF IsTerminal(calls[c].event.kind) THEN Goes(c, "known") ELSE Answers(c, "accepted")

Entry(kind) ==
  CASE kind = "claim"   -> "claim"
    [] IsTerminal(kind) -> "mark"
    [] OTHER            -> "replay"

\* The next event of the worker, or one at its last sequence again
Bodies(kind) ==
  CASE kind = "artifact"   -> 0..files
    [] kind \in UsageKinds -> ProviderCalls
    [] OTHER               -> {0}
Offered == {n \in {Len(log), Len(log) + 1} : n > 0}

Begin(c) ==
  /\ calls[c].pc = "idle"
  /\ \E k \in Keys, kind \in Kinds :
       /\ IF kind = "claim" THEN k \in ClaimKeys ELSE stage # "none"
       /\ \E n \in IF kind = "claim" THEN {0} ELSE Offered, b \in Bodies(kind) :
            calls' = [calls EXCEPT ![c] =
                        [Waiting EXCEPT !.pc = Entry(kind), !.key = k,
                           !.event = [seq |-> n, kind |-> kind, body |-> b]]]
  /\ UNCHANGED <<rows, due, files, faults>>

---------------------------------------------------------------------------
(* claim_execution: claim, start, and release when the start fails         *)

\* where a released or expired run leaves the task (execution_m4_status and
\* _release_locked agree): quarantine first, then the retry budget, and no
\* retry without room for an ordinary event
Quarantined == account.blocked \/ account.reserved
AfterFailure(transient) ==
  IF Quarantined \/ ~transient THEN {"needs_human"}
  ELSE IF LastAttempt THEN {"dead"}
  ELSE {"retry", "needs_human"}
Releases(transient) ==
  /\ task' \in AfterFailure(transient)
  /\ account' = [account EXCEPT !.blocked = Quarantined]

ClaimWrites(c) ==
  /\ IsNew(Key(c, "lease"))
  /\ IF task = "free"
       THEN task' = "leased" /\ Records(Key(c, "lease"), Claiming(c), "granted")
       ELSE task' = task /\ Records(Key(c, "lease"), Claiming(c), "nothing")
  /\ UNCHANGED <<stage, log, attested, consumed, usage, account, result>>

Claim(c) ==
  /\ calls[c].pc = "claim"
  /\ IF IsNew(Key(c, "lease")) THEN ClaimWrites(c) ELSE UNCHANGED rows
  /\ IF Row(Key(c, "lease"), Claiming(c), "granted") \in commands'
       THEN \/ Goes(c, "start")
            \/ Goes(c, "invalid")            \* the packet cannot be built
       ELSE Answers(c, "none")
  /\ UNCHANGED <<due, files, faults>>

\* execution_start; the rows are unique, so a run starts once
StartWrites(c) ==
  /\ Live /\ IsNew(Key(c, "start"))
  /\ stage = "none" /\ stage' = "prepared"
  /\ Records(Key(c, "start"), Starting(c), "started")
  /\ UNCHANGED <<task, log, attested, consumed, usage, account, result>>

StartExecution(c) ==
  /\ calls[c].pc = "start"
  /\ \/ StartWrites(c) /\ Answers(c, "started")
     \/ /\ Live /\ Replays(Key(c, "start"), Starting(c), "started")
        /\ Answers(c, "started") /\ UNCHANGED rows
     \/ /\ ~Live \/ (IsNew(Key(c, "start")) /\ stage # "none")
        /\ Goes(c, "unstarted") /\ UNCHANGED rows
  /\ UNCHANGED <<due, files, faults>>

CleanUpWrites(c) ==
  /\ Live /\ IsNew(Key(c, "cleanup"))
  /\ Releases(calls[c].pc = "unstarted")
  /\ Records(Key(c, "cleanup"), Releasing(c), "released")
  /\ UNCHANGED <<stage, log, attested, consumed, usage, result>>

\* the failure is reported once the lease is given back, and as
\* execution_claim_cleanup_failed when that is not certain
CleanUp(c) ==
  /\ calls[c].pc \in {"invalid", "unstarted"}
  /\ \/ CleanUpWrites(c) /\ Answers(c, "refused")
     \/ /\ Replays(Key(c, "cleanup"), Releasing(c), "released")
        /\ Answers(c, "refused") /\ UNCHANGED rows
     \/ /\ Clashes(Key(c, "cleanup"), Releasing(c)) \/ (IsNew(Key(c, "cleanup")) /\ ~Live)
        /\ Answers(c, "none") /\ UNCHANGED rows
  /\ UNCHANGED <<due, files, faults>>

---------------------------------------------------------------------------
(* commit_execution_proposal                                               *)

\* execution_proposal_replay, which wants a live execution for a new command
ReplayProposal(c) ==
  /\ calls[c].pc = "replay"
  /\ \/ Replays(ProposalKey(c), Proposing(c), "done") /\ Accepted(c)
     \/ /\ IsNew(ProposalKey(c)) /\ Active
        /\ Goes(c, IF calls[c].event.kind = "artifact" THEN "attest" ELSE "commit")
     \/ /\ Clashes(ProposalKey(c), Proposing(c)) \/ (IsNew(ProposalKey(c)) /\ ~Active)
        /\ Answers(c, "none")
  /\ UNCHANGED <<rows, due, files, faults>>

\* the next free place of the log, within the limit of the packet
NextPlace(n) == Active /\ n <= MaxEvents /\ ~Closed /\ n = Len(log) + 1

\* Mistake: an attestation of other content at the sequence is overwritten
AttestAnyway(c) ==
  LET e == calls[c].event IN
  /\ NextPlace(e.seq)
  /\ attested' = [attested EXCEPT ![e.seq] = e.body]
  /\ UNCHANGED <<task, stage, log, consumed, usage, account, result, commands>>

\* execution_record_artifact_attestation of what the broker attested
AttestationWrites(c) ==
  LET e == calls[c].event IN
  /\ NextPlace(e.seq) /\ attested[e.seq] = None
  /\ attested' = [attested EXCEPT ![e.seq] = e.body]
  /\ UNCHANGED <<task, stage, log, consumed, usage, account, result, commands>>

IsAttested(e) == e.seq \in 1..MaxEvents /\ attested[e.seq] = e.body

RecordAttestation(c) ==
  /\ calls[c].pc = "attest"
  /\ LET e == calls[c].event IN
     \/ IsAttested(e) /\ Goes(c, "commit") /\ UNCHANGED rows
     \/ AttestationWrites(c) /\ Goes(c, "commit")
     \/ /\ ~IsAttested(e)
        /\ NextPlace(e.seq) => attested[e.seq] # None
        /\ Goes(c, "again") /\ UNCHANGED rows
     \* the row came after this transaction had looked for one: it is unique
     \/ /\ NextPlace(e.seq) /\ attested[e.seq] # None
        /\ Answers(c, "none") /\ UNCHANGED rows
  /\ UNCHANGED <<due, files, faults>>

\* Mistake: whatever comes next passes over an attestation that waits
CanPassOver(e) ==
  /\ NextPlace(e.seq)
  /\ e.kind = "artifact" => attested[e.seq] = e.body

\* execution_propose: a new proposal in the next place; an attestation that
\* waits there is for the artifact it names; execution_propose_v2, for priced
\* usage, does not look whether one waits
CanPropose(e) ==
  /\ NextPlace(e.seq)
  /\ e.kind = "artifact" => attested[e.seq] = e.body
  /\ e.kind \notin PricedKinds \cup {"artifact"} => attested[e.seq] = None

Places(e) ==
  /\ log' = Append(log, Proposal(e))
  /\ consumed' = IF e.kind = "artifact" THEN consumed \cup {e.seq} ELSE consumed

\* a priced proposal of a new provider call is its observation too
IsObserved(e) == e.kind \in PricedKinds /\ e.body \notin usage

\* the same proposal again is accepted under another key
ProposeWrites(c) ==
  LET e == calls[c].event IN
  /\ Active /\ IsNew(ProposalKey(c))
  /\ \/ Placed(e) /\ UNCHANGED <<log, consumed>>
     \/ CanPropose(e) /\ Places(e)
  /\ IF IsObserved(e)
       THEN /\ usage' = usage \cup {e.body}          \* _observe_usage_locked
            /\ account' = [account EXCEPT !.reserved = FALSE]
       ELSE UNCHANGED <<usage, account>>
  /\ Records(ProposalKey(c), Proposing(c), "done")
  /\ UNCHANGED <<task, stage, attested, result>>

\* priced usage over a limit blocks the accounting and leaves no proposal;
\* the command of the observation is recorded, that of the proposal is not
Observing(c) == Command("observe", [calls[c].event EXCEPT !.seq = 0])
WasObserved(c) == calls[c].event.kind \in PricedKinds /\ ~IsNew(Key(c, "usage"))

\* Mistake: the command is recorded as done although nothing was proposed
BlockAsDone(c) ==
  LET e == calls[c].event IN
  /\ Active /\ IsNew(ProposalKey(c)) /\ IsObserved(e)
  /\ account' = [reserved |-> FALSE, blocked |-> TRUE]
  /\ Records(ProposalKey(c), Proposing(c), "done")
  /\ UNCHANGED <<task, stage, log, attested, consumed, usage, result>>

BlockWrites(c) ==
  LET e == calls[c].event IN
  /\ Active /\ IsNew(ProposalKey(c)) /\ IsNew(Key(c, "usage"))
  /\ IsObserved(e)
  /\ account' = [reserved |-> FALSE, blocked |-> TRUE]
  /\ Records(Key(c, "usage"), Observing(c), "blocked")
  /\ UNCHANGED <<task, stage, log, attested, consumed, usage, result>>

\* the provider call was observed before, with other tokens or prices perhaps
OtherEvidence(e) == e.kind \in PricedKinds /\ e.body \in usage

Refused(c) ==
  LET e == calls[c].event IN
  ~Active \/ ~(WasObserved(c) \/ Placed(e) \/ CanPropose(e))

CommitProposal(c) ==
  /\ calls[c].pc = "commit"
  /\ \/ /\ Replays(ProposalKey(c), Proposing(c), "done")
        /\ Accepted(c) /\ UNCHANGED rows
     \/ ~WasObserved(c) /\ ProposeWrites(c) /\ Accepted(c)
     \/ BlockWrites(c) /\ Answers(c, "none")
     \/ /\ Active /\ IsNew(ProposalKey(c))
        /\ WasObserved(c) \/ OtherEvidence(calls[c].event)
        /\ Answers(c, "none") /\ UNCHANGED rows
     \/ Clashes(ProposalKey(c), Proposing(c)) /\ Answers(c, "none") /\ UNCHANGED rows
     \/ IsNew(ProposalKey(c)) /\ Refused(c) /\ Goes(c, "again") /\ UNCHANGED rows
  /\ UNCHANGED <<due, files, faults>>

\* after an error the proposal may be there all the same
LookAgain(c) ==
  /\ calls[c].pc = "again"
  /\ IF Replays(ProposalKey(c), Proposing(c), "done")
       THEN Accepted(c) ELSE Answers(c, "none")
  /\ UNCHANGED <<rows, due, files, faults>>

---------------------------------------------------------------------------
(* commit_terminal_and_finalize                                            *)

\* begin_execution_terminal_composite
MarkWrites(c) ==
  /\ Active /\ IsNew(Key(c, "worker"))
  /\ Records(Key(c, "worker"), Marking(c), "marked")
  /\ UNCHANGED <<task, stage, log, attested, consumed, usage, account, result>>

\* Mistake: a terminal command that was marked before is an error
MarkOnce(c) ==
  /\ calls[c].pc = "mark"
  /\ \/ MarkWrites(c) /\ Goes(c, "replay")
     \/ /\ ~(Active /\ IsNew(Key(c, "worker")))
        /\ Answers(c, "none") /\ UNCHANGED rows
  /\ UNCHANGED <<due, files, faults>>

MarkTerminal(c) ==
  /\ calls[c].pc = "mark"
  /\ \/ MarkWrites(c) /\ Goes(c, "replay")
     \/ /\ Replays(Key(c, "worker"), Marking(c), "marked")
        /\ Goes(c, "replay") /\ UNCHANGED rows
     \/ /\ Clashes(Key(c, "worker"), Marking(c)) \/ (IsNew(Key(c, "worker")) /\ ~Active)
        /\ Answers(c, "none") /\ UNCHANGED rows
  /\ UNCHANGED <<due, files, faults>>

\* every usage proposal has its observation, every observation one proposal
UsageReported ==
  LET told == {n \in 1..Len(log) : log[n].kind \in UsageKinds} IN
  /\ {log[n].body : n \in told} = usage
  /\ \A m, n \in told : log[m].body = log[n].body => m = n

\* the tokens of a proposal are compared without its cache tokens, those of
\* the observation were counted with them
UsageAgrees == UsageReported /\ \A n \in 1..Len(log) : log[n].kind # "cached"

Settled == ~account.blocked /\ ~account.reserved /\ usage # {}

\* Mistake: a completed run is not asked for settled accounting
UnsettledOutcomes ==
  CASE log[Len(log)].kind = "completed" -> {"ready_for_human"}
    [] log[Len(log)].kind = "transient" -> AfterFailure(TRUE)
    [] OTHER                            -> {"needs_human"}

\* execution_m4_status of the terminal proposal; none may be given
Outcomes ==
  CASE log[Len(log)].kind = "completed" -> IF Settled THEN {"ready_for_human"} ELSE {}
    [] log[Len(log)].kind = "transient" -> AfterFailure(TRUE)
    [] OTHER                            -> {"needs_human"}
EndStage(kind) ==
  CASE kind = "completed" -> "completed"
    [] kind = "human"     -> "needs_human"
    [] OTHER              -> "failed"

\* Mistake: the lease and the stage are not looked at again
StaleFinalizeContext == Closed /\ Outcomes # {} /\ UsageAgrees

\* execution_finalize_context
FinalizeContext == Active /\ Closed /\ Outcomes # {} /\ UsageAgrees

\* execution_finalization_replay
ReplayResult(c) ==
  /\ calls[c].pc = "known"
  /\ IF Replays(Key(c, "finalize"), Finalizing(c), "done")
       THEN Gives(c, result) ELSE Goes(c, "request")
  /\ UNCHANGED <<rows, due, files, faults>>

\* workspace_snapshot_request, which also answers after the finalization
RequestSnapshot(c) ==
  /\ calls[c].pc = "request"
  /\ Goes(c, IF FinalizeContext \/ result # NoResult THEN "snapshot" ELSE "look")
  /\ UNCHANGED <<rows, due, files, faults>>

\* Mistake: the workspace as it was when the run began
SnapshotOfInput(c) ==
  /\ calls[c].pc = "snapshot"
  /\ calls' = [calls EXCEPT ![c].pc = "seal", ![c].seen = 0]
  /\ UNCHANGED <<rows, due, files, faults>>

\* the broker reads the workspace outside of any transaction
TakeSnapshot(c) ==
  /\ calls[c].pc = "snapshot"
  /\ calls' = [calls EXCEPT ![c].pc = "seal", ![c].seen = files]
  /\ UNCHANGED <<rows, due, files, faults>>

\* execution_finalize_commit: result, terminal stage and release in one
CanSeal ==
  /\ FinalizeContext /\ result = NoResult
  /\ log[Len(log)].kind = "completed" => stage = "collecting"

Seals(c) ==
  /\ stage' = EndStage(log[Len(log)].kind)
  /\ task' \in Outcomes
  /\ result' = [stage |-> stage', status |-> task', log |-> log,
                snapshot |-> calls[c].seen]
  /\ account' = [account EXCEPT !.blocked = Quarantined]

\* Mistake: a second finalization replaces the result of the first
SealOver(c) ==
  /\ IsNew(Key(c, "finalize")) /\ Closed /\ Outcomes # {} /\ Seals(c)
  /\ Records(Key(c, "finalize"), Finalizing(c), "done")
  /\ UNCHANGED <<log, attested, consumed, usage>>

\* a result that exists answers a new key too, if the workspace is unchanged
SealWrites(c) ==
  /\ IsNew(Key(c, "finalize"))
  /\ \/ CanSeal /\ Seals(c)
     \/ /\ result # NoResult /\ result.snapshot = calls[c].seen
        /\ UNCHANGED <<task, stage, account, result>>
  /\ Records(Key(c, "finalize"), Finalizing(c), "done")
  /\ UNCHANGED <<log, attested, consumed, usage>>

Finalize(c) ==
  /\ calls[c].pc = "seal"
  /\ \/ SealWrites(c) /\ Gives(c, result')
     \/ /\ Replays(Key(c, "finalize"), Finalizing(c), "done")
        /\ Gives(c, result) /\ UNCHANGED rows
     \/ /\ IsNew(Key(c, "finalize")) /\ result # NoResult
        /\ result.snapshot # calls[c].seen       \* different facts
        /\ Answers(c, "none") /\ UNCHANGED rows
     \* also when the result came after this transaction had looked for one
     \/ /\ IsNew(Key(c, "finalize")) /\ ~CanSeal
        /\ Goes(c, "look") /\ UNCHANGED rows
  /\ UNCHANGED <<due, files, faults>>

\* after an error the result may be there all the same
LookForResult(c) ==
  /\ calls[c].pc = "look"
  /\ IF Replays(Key(c, "finalize"), Finalizing(c), "done")
       THEN Gives(c, result) ELSE Answers(c, "none")
  /\ UNCHANGED <<rows, due, files, faults>>

---------------------------------------------------------------------------
(* Faults: a transaction that fails, or commits with its answer lost       *)

\* Mistake: a clean-up that failed is reported as done
RescueSilently(c, pc) ==
  CASE pc = "start"                          -> Goes(c, "unstarted")
    [] pc \in {"invalid", "unstarted"}       -> Answers(c, "refused")
    [] pc \in {"attest", "commit"}           -> Goes(c, "again")
    [] pc \in {"request", "snapshot", "seal"} -> Goes(c, "look")
    [] OTHER                                 -> Answers(c, "none")

Rescue(c, pc) ==
  CASE pc = "start"                          -> Goes(c, "unstarted")
    [] pc \in {"invalid", "unstarted"}       -> Answers(c, "none")
    [] pc \in {"attest", "commit"}           -> Goes(c, "again")
    [] pc \in {"request", "snapshot", "seal"} -> Goes(c, "look")
    [] OTHER                                 -> Answers(c, "none")

Faulty == faults < MaxFaults /\ faults' = faults + 1

Fails(c) ==
  /\ calls[c].pc # "idle" /\ Faulty
  /\ Rescue(c, calls[c].pc)
  /\ UNCHANGED <<rows, due, files>>

LosesAnswer(c) ==
  /\ Faulty
  /\ \/ calls[c].pc = "claim" /\ ClaimWrites(c)
     \/ calls[c].pc = "start" /\ StartWrites(c)
     \/ calls[c].pc \in {"invalid", "unstarted"} /\ CleanUpWrites(c)
     \/ calls[c].pc = "attest" /\ AttestationWrites(c)
     \/ calls[c].pc = "commit" /\ ~WasObserved(c) /\ ProposeWrites(c)
     \/ calls[c].pc = "commit" /\ BlockWrites(c)
     \/ calls[c].pc = "mark" /\ MarkWrites(c)
     \/ calls[c].pc = "seal" /\ SealWrites(c)
  /\ Rescue(c, calls[c].pc)
  /\ UNCHANGED <<due, files>>

\* the service dies with the call: nobody looks again, nobody cleans up
Dies(c) ==
  /\ calls[c].pc # "idle" /\ Faulty
  /\ Answers(c, "none")
  /\ UNCHANGED <<rows, due, files>>

---------------------------------------------------------------------------
(* Around the calls: the agent, single transactions, time and recovery     *)

ChangeFiles ==
  /\ files < MaxWrites                     \* bound
  /\ files' = files + 1
  /\ UNCHANGED <<rows, due, calls, faults>>

\* execution_advance
Advance ==
  /\ Active
  /\ \/ stage = "prepared" /\ stage' = "running"
     \/ stage = "running" /\ stage' = "collecting"
  /\ UNCHANGED <<task, log, attested, consumed, usage, account, result, commands,
                 due, files, calls, faults>>

\* reserve_budget, ahead of a provider call
ReserveBudget ==
  /\ Live /\ ~account.blocked /\ ProviderCalls # {}
  /\ account' = [account EXCEPT !.reserved = TRUE]
  /\ UNCHANGED <<task, stage, log, attested, consumed, usage, result, commands,
                 due, files, calls, faults>>

\* observe_usage of a provider call that is new: within the limits or not
ObserveUsage(p) ==
  /\ Live /\ p \notin usage
  /\ \/ /\ usage' = usage \cup {p}
        /\ account' = [account EXCEPT !.reserved = FALSE]
     \/ /\ usage' = usage
        /\ account' = [reserved |-> FALSE, blocked |-> TRUE]
  /\ UNCHANGED <<task, stage, log, attested, consumed, result, commands,
                 due, files, calls, faults>>

\* the worker gives the lease back without a result
Release ==
  /\ Live
  /\ \/ Settled /\ task' = "ready_for_human" /\ account' = account
     \/ \E transient \in BOOLEAN : Releases(transient)
  /\ UNCHANGED <<stage, log, attested, consumed, usage, result, commands,
                 due, files, calls, faults>>

RunsOut ==
  /\ task = "leased" /\ ~due
  /\ due' = TRUE
  /\ UNCHANGED <<rows, files, calls, faults>>

\* reconcile: an expired lease may be tried again unless the repairs of the
\* task are used up, a passed deadline may not
Reconcile ==
  /\ task = "leased" /\ due
  /\ \/ \E transient \in BOOLEAN : Releases(transient)
     \/ ~Quarantined /\ task' = "dead" /\ account' = account
  /\ UNCHANGED <<stage, log, attested, consumed, usage, result, commands,
                 due, files, calls, faults>>

\* reconcile: a task that waits for a run until its deadline has passed
ExpireWaiting ==
  /\ task \in {"free", "retry"}
  /\ task' = IF Quarantined THEN "needs_human" ELSE "dead"
  /\ account' = [account EXCEPT !.blocked = Quarantined]
  /\ UNCHANGED <<stage, log, attested, consumed, usage, result, commands,
                 due, files, calls, faults>>

\* a later claim of the task that this run has left for a retry
TakenAgain ==
  /\ task = "retry" /\ ~Quarantined
  /\ task' = "taken"
  /\ UNCHANGED <<stage, log, attested, consumed, usage, account, result, commands,
                 due, files, calls, faults>>

\* cancel or supersede of a task in any state that is not terminal; it closes
\* the execution in the same transaction, if it took the lease away itself
Cancel ==
  /\ task \in {"free", "leased", "retry", "needs_human"}
  /\ task' = "cancelled"
  /\ account' = [account EXCEPT !.blocked = Quarantined]
  /\ stage' = IF task = "leased" /\ stage \in Working THEN "cancelled" ELSE stage
  /\ UNCHANGED <<log, attested, consumed, usage, result, commands,
                 due, files, calls, faults>>

\* execution recovery closes what a released run left open
Recover ==
  /\ task # "leased" /\ stage \in Working
  /\ stage' = "orphaned"
  /\ UNCHANGED <<task, log, attested, consumed, usage, account, result, commands,
                 due, files, calls, faults>>

---------------------------------------------------------------------------
Step(c) ==
  \/ Claim(c) \/ StartExecution(c) \/ CleanUp(c)
  \/ ReplayProposal(c) \/ RecordAttestation(c) \/ CommitProposal(c) \/ LookAgain(c)
  \/ MarkTerminal(c) \/ ReplayResult(c) \/ RequestSnapshot(c) \/ TakeSnapshot(c)
  \/ Finalize(c) \/ LookForResult(c)

Around ==
  \/ ChangeFiles \/ Advance \/ ReserveBudget
  \/ \E p \in ProviderCalls : ObserveUsage(p)
  \/ Release \/ RunsOut \/ Reconcile \/ ExpireWaiting \/ TakenAgain
  \/ Cancel \/ Recover

Next ==
  \/ \E c \in Calls : Begin(c) \/ Step(c) \/ Fails(c) \/ LosesAnswer(c) \/ Dies(c)
  \/ Around

Spec == Init /\ [][Next]_vars

\* the worker sends its terminal command again, with the key it had
Repeat(c) ==
  /\ calls[c].pc = "idle" /\ Closed
  /\ \E x \in commands :
       /\ x.command.act = "propose" /\ x.command.event.seq = Len(log)
       /\ calls' = [calls EXCEPT ![c] =
                      [Waiting EXCEPT !.pc = "mark", !.key = x.key[1],
                                      !.event = x.command.event]]
  /\ UNCHANGED <<rows, due, files, faults>>

\* the service goes on with every call, a worker without an answer asks again
FairSpec ==
  /\ Spec
  /\ \A c \in Calls : WF_vars(Step(c)) /\ SF_vars(Repeat(c))

---------------------------------------------------------------------------
(* Properties                                                              *)

PlaceKinds == Proposals \cup Terminals
Events == [seq : 0..MaxEvents + 1, kind : {"none", "claim"} \cup PlaceKinds, body : Nat]
Entries == [kind : PlaceKinds, body : Nat]
Results == [stage : {"none"} \cup Finished, status : {"none"} \cup Statuses,
            log : Seq(Entries), snapshot : Nat]
Steps == {"idle", "claim", "start", "invalid", "unstarted", "replay", "attest",
          "commit", "again", "mark", "known", "request", "snapshot", "seal", "look"}
AnswerSet == {"none", "started", "refused", "accepted", "finished"}

\* Every variable has the shape of the rows and of the locals it stands for.
TypeOK ==
  /\ task \in Statuses /\ due \in BOOLEAN
  /\ stage \in {"none", "orphaned", "cancelled"} \cup Working \cup Finished
  /\ log \in Seq(Entries)
  /\ attested \in [1..MaxEvents -> Nat \cup {None}]
  /\ consumed \subseteq 1..MaxEvents
  /\ usage \subseteq ProviderCalls
  /\ account \in [reserved : BOOLEAN, blocked : BOOLEAN]
  /\ result \in Results
  /\ files \in Nat /\ faults \in 0..MaxFaults
  /\ calls \in [Calls -> [pc : Steps, key : Keys \cup {"none"}, event : Events,
                          seen : Nat, answer : AnswerSet, given : Results]]

\* The tables are well formed and the log is what the database functions meant
\* it to be, however calls interleave: at most max_events proposals, a terminal one only at the end,
\* every artifact with the attestation it consumed, and no attestation left
\* behind but by priced usage: one that is not consumed waits at the next place.
LogIsSound ==
  /\ TypeOK
  /\ Len(log) <= MaxEvents
  /\ \A n \in 1..Len(log) : IsTerminal(log[n].kind) => n = Len(log)
  /\ consumed = {n \in 1..Len(log) : log[n].kind = "artifact"}
  /\ \A n \in consumed : attested[n] = log[n].body
  /\ \A n \in 1..MaxEvents :
       attested[n] # None =>
         \/ n \in consumed
         \/ n = Len(log) + 1 /\ ~Closed
         \/ n \in 1..Len(log) /\ log[n].kind \in PricedKinds

\* Where a task may be once it was left with a status: one that waits for a
\* retry or for a human is not at its end, the others are.
Later(status) ==
  CASE status = "retry"       -> {"retry", "taken", "dead", "needs_human", "cancelled"}
    [] status = "needs_human" -> {"needs_human", "cancelled"}
    [] OTHER                  -> {status}

\* A result stands for the whole run: its stage is the stage of the manifest,
\* its evidence is the complete log up to the terminal proposal it answers,
\* usage was reported and observed call by call, and the task has the status
\* of the result or one it went to from there without this run; a completed
\* run was settled and stays ready for a human, whatever cancels or expires.
ResultIsTheLog ==
  /\ stage \in Finished <=> result # NoResult
  /\ result # NoResult =>
       /\ result.stage = stage /\ result.log = log /\ Closed
       /\ stage = EndStage(log[Len(log)].kind)
       /\ task \in Later(result.status) /\ task # "leased"
       /\ \A p \in ProviderCalls :
            LET told == {n \in 1..Len(log) : log[n].kind \in UsageKinds /\ log[n].body = p}
            IN IF p \in usage THEN \E n \in told : told = {n} ELSE told = {}
       /\ stage = "completed" => Settled /\ task = "ready_for_human"

\* The snapshot of a result was taken after the last artifact was attested:
\* it is never older than an artifact it is filed with.
SnapshotIsNewest ==
  result # NoResult =>
    \A n \in 1..Len(log) : log[n].kind = "artifact" => log[n].body <= result.snapshot

\* What a call answered stays true: an accepted proposal is in the log at its
\* sequence, a result handed out is the one result of the run, a start that
\* was confirmed happened, and a claim that failed cleanly left no lease.
AnswersAreTrue ==
  \A c \in Calls :
    /\ calls[c].answer = "accepted" => Placed(calls[c].event)
    /\ calls[c].answer = "finished" => calls[c].given = result /\ result # NoResult
    /\ calls[c].answer = "started" => stage # "none"
    /\ calls[c].answer = "refused" => task \notin {"free", "leased"}

\* What the service goes by when it repeats a command is true: a recorded
\* proposal is in the log, a recorded finalization has its result, a recorded
\* start its manifest, and a recorded clean-up its released lease.
CommandsAreTrue ==
  \A x \in commands :
    /\ x.command.act = "propose" => Placed(x.command.event)
    /\ x.command.act = "finalize" => result # NoResult
    /\ x.command.act = "start" => stage # "none"
    /\ x.command.act \in {"invalid", "unstarted"} => task \notin {"free", "leased"}

\* Evidence is only added: the log grows at its end and never after it was
\* closed, attestations and results are never replaced, and an execution that
\* ended in any way gets no proposal, no attestation and no result any more.
EvidenceIsKept ==
  [][/\ SubSeq(log', 1, Len(log)) = log
     /\ Closed => log' = log
     /\ stage \notin Working => UNCHANGED <<log, attested, result>>
     /\ \A n \in 1..MaxEvents : attested[n] # None => attested'[n] = attested[n]]_vars

\* The calls keep the contract of a log that is sealed once, with all of it,
\* and of which every caller is told the same outcome.
Filed(r) == [log |-> r.log,
             fate |-> [stage |-> r.stage, status |-> r.status, snapshot |-> r.snapshot]]

Contract == INSTANCE SealedLog WITH
  Entries <- [kind : PlaceKinds, body : 0..MaxWrites \cup ProviderCalls],
  Closing <- [kind : Terminals, body : {0}],
  Fates <- [stage : Finished, status : Statuses, snapshot : 0..MaxWrites],
  Open <- Filed(NoResult), Requesters <- Calls,
  outcome <- Filed(result), given <- [c \in Calls |-> Filed(calls[c].given)]
ImplementsContract == Contract!Spec

\* A worker that repeats its terminal command gets its run finalized, as soon as
\* nothing the finalization looks at is missing (lease, usage, accounting): no
\* lost answer and no failed transaction blocks it for ever.
TerminalGetsThrough == CanSeal ~> ~CanSeal

\* contracts/openapi/factory-execution.v2.json says of the terminal route that
\* it runs a resumable workflow which persists the proposal and then finalizes
\* the result, and v3 that priced usage preserves this: then it is enough that
\* every observed call was reported and every reported one observed.
Resumable == Active /\ Closed /\ log[Len(log)].kind # "completed" /\ UsageReported
TerminalIsResumable == Resumable ~> ~Resumable
=============================================================================
