--------------------------- MODULE LandingFailover --------------------------
(***************************************************************************)
(* The failover client of the landing pipeline: FailoverCoordinator         *)
(* (landing_failover.py) over CallerJournal (landing_failover_journal.py),  *)
(* one caller job against the hosts of LandingHost and the network between. *)
(*                                                                         *)
(* The client is a process that is started for a command and may die at     *)
(* any step; the journal has one writer at a time, and rec and spool are    *)
(* what it holds. Every save is a synchronous commit, so a step here ends   *)
(* with a save or with an answer from outside. Jobs do not interact.        *)
(*                                                                         *)
(* A definition marked "Mistake:" is not part of the model (README.md,      *)
(* "Mutants").                                                              *)
(***************************************************************************)
EXTENDS LandingHost

CONSTANTS
  DeadlineSeconds,    \* deadline_seconds
  RetentionSeconds,   \* retention_seconds
  MaxTime,            \* bound: the clock stays within 0..MaxTime
  ClockStepsBack      \* whether the wall clock may be set back

ASSUME CallerAssumption ==
  /\ DeadlineSeconds \in Nat \ {0}
  /\ RetentionSeconds \in Nat
  /\ DeadlineSeconds <= RetentionSeconds
  /\ MaxTime \in Nat
  /\ ClockStepsBack \in BOOLEAN

VARIABLES
  now,     \* time.time
  rec,     \* the record of the job in the journal
  spool,   \* its payload is still in the journal
  pc,      \* where the client process is, "down" when there is none
  wire,    \* back ends a POST is on its way to
  sent     \* history: POSTs of the input sent to each back end

callerVars == <<now, rec, spool, pc, wire, sent>>
vars == <<hostVars, callerVars>>

Passed    == {"not_submitted", "eligible_failure"}
Finals    == {"artifact_ready", "exhausted", "stopped", "expired"}
NoReceipt == [state |-> "none", phase |-> "unknown", terminal |-> FALSE,
              artifact |-> FALSE, obs |-> "none"]

NoRecord == [state |-> "none", reason |-> "none", created |-> 0,
             att |-> [i \in Backends |-> "none"],
             receipt |-> [i \in Backends |-> NoReceipt], winner |-> 0]

Deadline == rec.created + DeadlineSeconds
Expires  == rec.created + RetentionSeconds

Init ==
  /\ HostInit
  /\ now = 0
  /\ rec = NoRecord
  /\ spool = FALSE
  /\ pc = "down"
  /\ wire = {}
  /\ sent = [i \in Backends |-> 0]

\* the loop over the back ends is at i: everyone before it is passed
Current(i) == rec.att[i] \notin Passed /\ \A j \in Backends : j < i => rec.att[j] \in Passed

At(place, i) == pc = place /\ Current(i)

\* _finish(purge=True): the record and the end of the payload are one commit
Finish(state, reason) ==
  /\ rec' = [rec EXCEPT !.state = state, !.reason = reason]
  /\ spool' = FALSE
  /\ pc' = "down"

\* Mistake: the payload is purged with every outcome
NeedsHumanPurged == Finish("needs_human", "outcome_unknown")

\* _finish(needs_human, purge=False)
NeedsHuman ==
  /\ rec' = [rec EXCEPT !.state = "needs_human", !.reason = "outcome_unknown"]
  /\ pc' = "down"
  /\ UNCHANGED spool

---------------------------------------------------------------------------
(* Commands                                                                *)

Submit ==
  /\ pc = "down" /\ rec.state = "none"
  /\ now + RetentionSeconds <= MaxTime        \* bound
  /\ rec' = [rec EXCEPT !.state = "running", !.created = now]
  /\ spool' = TRUE
  /\ pc' = "loaded"
  /\ UNCHANGED <<hostVars, now, wire, sent>>

\* resume, status or a repeated submit: opening the journal purges the payload
\* of an expired job; status ends here
Open ==
  /\ pc = "down" /\ rec.state # "none"
  /\ spool' = (spool /\ Expires > now)
  /\ pc' = "loaded"
  /\ UNCHANGED <<hostVars, now, rec, wire, sent>>

\* Mistake: the winner is not looked at
DoneByState == rec.state \in {"exhausted", "stopped", "expired"}

Done == rec.winner # 0 \/ rec.state \in {"exhausted", "stopped", "expired"}

\* Mistake: the end of the retention is not looked at
OutsideRetentionStart == now < rec.created

OutsideRetention == now < rec.created \/ now >= Expires

\* _drive up to the loop
Drive ==
  /\ pc = "loaded"
  /\ \/ /\ Done
        /\ pc' = "down"
        /\ UNCHANGED <<rec, spool>>
     \/ ~Done /\ OutsideRetention /\ Finish("expired", "retention_expired")
     \/ /\ ~Done /\ ~OutsideRetention
        /\ pc' = "next"
        /\ UNCHANGED <<rec, spool>>
  /\ UNCHANGED <<hostVars, now, wire, sent>>

---------------------------------------------------------------------------
(* The loop                                                                *)

Exhaust ==
  /\ pc = "next"
  /\ \A i \in Backends : rec.att[i] \in Passed
  /\ Finish("exhausted", "providers_unavailable")
  /\ UNCHANGED <<hostVars, now, wire, sent>>

\* Mistake: the deadline also ends a dispatched attempt
LateAnyAttempt(i) == now >= Deadline

Late(i) == now >= Deadline /\ rec.att[i] # "dispatching"

StopLate(i) ==
  /\ At("next", i)
  /\ Late(i)
  /\ Finish("stopped", "deadline")
  /\ UNCHANGED <<hostVars, now, wire, sent>>

\* the attempt is planned if it is new; a dispatched one is only observed
EnterAttempt(i) ==
  /\ At("next", i)
  /\ ~Late(i)
  /\ IF rec.att[i] = "dispatching"
     THEN pc' = "observe" /\ UNCHANGED rec
     ELSE /\ pc' = "capability"
          /\ rec' = [rec EXCEPT !.att[i] = "planned"]
  /\ UNCHANGED <<hostVars, now, spool, wire, sent>>

---------------------------------------------------------------------------
(* Capability and dispatch                                                 *)

\* BackendUnavailable: no connection or a timeout, before the input was sent
CapabilityUnavailable(i) ==
  /\ At("capability", i)
  /\ rec' = [rec EXCEPT !.att[i] = "not_submitted"]
  /\ pc' = "next"
  /\ UNCHANGED <<hostVars, now, spool, wire, sent>>

CapabilityAmbiguous(i) ==
  /\ At("capability", i)
  /\ NeedsHuman
  /\ UNCHANGED <<hostVars, now, wire, sent>>

CapabilityMismatch(i) ==
  /\ At("capability", i)
  /\ Finish("stopped", "backend_identity")
  /\ UNCHANGED <<hostVars, now, wire, sent>>

InputUnavailable(i) ==
  /\ At("capability", i)
  /\ ~spool
  /\ Finish("stopped", "input_unavailable")
  /\ UNCHANGED <<hostVars, now, wire, sent>>

\* Mistake: the intent is not saved before the POST
DispatchUnsaved(i) ==
  /\ At("capability", i)
  /\ spool
  /\ pc' = "post"
  /\ UNCHANGED <<rec, hostVars, now, spool, wire, sent>>

\* "FULL synchronous commit before any POST"
Dispatch(i) ==
  /\ At("capability", i)
  /\ spool
  /\ rec' = [rec EXCEPT !.att[i] = "dispatching"]
  /\ pc' = "post"
  /\ UNCHANGED <<hostVars, now, spool, wire, sent>>

\* the POST leaves; its answer, if one comes, says no more than observe will
Post(i) ==
  /\ At("post", i)
  /\ wire' = wire \cup {i}
  /\ sent' = [sent EXCEPT ![i] = @ + 1]
  /\ pc' = "observe"
  /\ UNCHANGED <<hostVars, now, rec, spool>>

\* BackendAmbiguous before anything left: no connection, no time remaining
PostFails(i) ==
  /\ At("post", i)
  /\ pc' = "observe"
  /\ UNCHANGED <<hostVars, now, rec, spool, wire, sent>>

\* BackendRejected, or a local error (credential, socket, settings): at any
\* point of an attempt
Reject(i) ==
  /\ \E place \in {"capability", "post", "observe"} : At(place, i)
  /\ Finish("stopped", "backend_rejected")
  /\ UNCHANGED <<hostVars, now, wire, sent>>

---------------------------------------------------------------------------
(* Observation                                                             *)

\* the receipt is saved before it is acted on
Observe(i) ==
  /\ At("observe", i)
  /\ job[i].state # "absent"
  /\ rec' = [rec EXCEPT !.receipt[i] = Receipt(job[i])]
  /\ pc' = "judge"
  /\ UNCHANGED <<hostVars, now, spool, wire, sent>>

\* the job is unknown to the host, or no answer comes
ObserveAmbiguous(i) ==
  /\ At("observe", i)
  /\ NeedsHuman
  /\ UNCHANGED <<hostVars, now, wire, sent>>

Selected(r) == r.state = "artifact_ready" /\ r.artifact
Unknown(r)  == ~r.terminal \/ r.obs = "none"

\* Mistake: a failure of the provider without an observation is eligible
EligibleUnobserved(r) ==
  r.terminal /\ ~r.artifact /\ r.state \in {"provider_unavailable", "needs_human"}
  /\ r.obs \in {"fallback", "none"}

EligibleFailure(r) ==
  /\ ~Unknown(r)
  /\ r.phase = "provider" /\ ~r.artifact
  /\ r.state \in {"provider_unavailable", "needs_human"}
  /\ r.obs = "fallback"

Judge(i) ==
  LET r == rec.receipt[i] IN
  /\ At("judge", i)
  /\ \/ /\ Selected(r)
        /\ rec' = [rec EXCEPT !.state = "artifact_ready", !.reason = "selected",
                              !.winner = i]
        /\ spool' = FALSE
        /\ pc' = "down"
     \/ /\ EligibleFailure(r)
        /\ rec' = [rec EXCEPT !.att[i] = "eligible_failure"]
        /\ pc' = "next"
        /\ UNCHANGED spool
     \/ ~EligibleFailure(r) /\ Unknown(r) /\ NeedsHuman
     \/ /\ ~EligibleFailure(r) /\ ~Unknown(r) /\ ~Selected(r)
        /\ Finish("stopped", "ineligible_outcome")
  /\ UNCHANGED <<hostVars, now, wire, sent>>

---------------------------------------------------------------------------
(* The world around the client                                             *)

CallerCrash ==
  /\ pc # "down"
  /\ pc' = "down"
  /\ UNCHANGED <<hostVars, now, rec, spool, wire, sent>>

\* a POST arrives, however late
Deliver(i) ==
  /\ i \in wire
  /\ wire' = wire \ {i}
  /\ Accept(i)
  /\ UNCHANGED <<now, rec, spool, pc, sent>>

\* a POST is lost, or refused by a host nobody listens to any more
Drop(i) ==
  /\ i \in wire
  /\ wire' = wire \ {i}
  /\ UNCHANGED <<hostVars, now, rec, spool, pc, sent>>

Tick ==
  /\ now < MaxTime                     \* bound
  /\ now' = now + 1
  /\ UNCHANGED <<hostVars, rec, spool, pc, wire, sent>>

SetClockBack ==
  /\ ClockStepsBack
  /\ \E earlier \in 0..MaxTime : earlier < now /\ now' = earlier
  /\ UNCHANGED <<hostVars, rec, spool, pc, wire, sent>>

AttemptStep(i) ==
  \/ StopLate(i)
  \/ EnterAttempt(i)
  \/ CapabilityUnavailable(i)
  \/ CapabilityAmbiguous(i)
  \/ CapabilityMismatch(i)
  \/ InputUnavailable(i)
  \/ Dispatch(i)
  \/ Post(i)
  \/ PostFails(i)
  \/ Reject(i)
  \/ Observe(i)
  \/ ObserveAmbiguous(i)
  \/ Judge(i)

ClientStep == Drive \/ Exhaust \/ \E i \in Backends : AttemptStep(i)

Host(i) == HostStep(i) /\ UNCHANGED callerVars

Next ==
  \/ Submit
  \/ Open
  \/ ClientStep
  \/ CallerCrash
  \/ \E i \in Backends : Deliver(i) \/ Drop(i) \/ Host(i)
  \/ Tick
  \/ SetClockBack

Spec == Init /\ [][Next]_vars

\* Assumed: the clock advances; every request of the client is bounded by its
\* timeout; somebody resumes the job again and again, and not every process is
\* killed before it has looked at the record. Nothing is assumed of the hosts.
Fairness ==
  /\ WF_vars(Tick)
  /\ WF_vars(Open)
  /\ SF_vars(Drive)
  /\ WF_vars(ClientStep)

FairSpec == Spec /\ Fairness

---------------------------------------------------------------------------
(* Properties                                                              *)

Attempts == {"none", "planned", "dispatching"} \cup Passed

\* The type invariant. That a saved receipt is one of Receipts says more: what
\* attempt_receipt writes is never refused by the client's validate_receipt.
TypeOK ==
  /\ HostTypeOK
  /\ now \in Nat
  /\ rec \in [state : {"none", "running", "needs_human"} \cup Finals,
              reason : {"none", "outcome_unknown", "retention_expired",
                        "providers_unavailable", "deadline", "backend_identity",
                        "input_unavailable", "backend_rejected",
                        "ineligible_outcome", "selected"},
              created : Nat, att : [Backends -> Attempts],
              receipt : [Backends -> Receipts \cup {NoReceipt}],
              winner : 0..N]
  /\ spool \in BOOLEAN
  /\ pc \in {"down", "loaded", "next", "capability", "post", "observe", "judge"}
  /\ wire \subseteq Backends
  /\ sent \in [Backends -> Nat]

\* nothing of the input is with back end i, and nothing will come of it
Settled(i) == sent[i] = 0 \/ Failed(i)

\* "submits at most once per backend": and whatever is replayed, resumed or
\* restarted on either side, the provider behind it is called at most once.
SubmittedOnce == \A i \in Backends : sent[i] <= 1 /\ calls[i] <= 1

\* "advances only after proven pre-send unavailability or an eligible confirmed
\* provider failure": a back end is only given the input when every back end
\* before it never got it or is known to have failed, judged by what the hosts
\* hold and not by what the journal says of them.
AdvanceOnlyAfterFailure ==
  \A i, j \in Backends : i < j /\ sent[j] > 0 => Settled(i)

\* A job that ends as exhausted or by its deadline leaves no input behind that
\* a host still works on or has made an artifact of; the winner of a job that
\* ends with one is the only back end that made one.
VerdictsTrue ==
  /\ rec.state = "exhausted" \/ rec.reason = "deadline"
       => \A i \in Backends : Settled(i)
  /\ rec.state = "artifact_ready" =>
       /\ rec.winner # 0
       /\ job[rec.winner].artifact
       /\ \A i \in Backends : i # rec.winner => Settled(i)

\* The caller never loses its input while the job can be resumed: unless the
\* clock is set back, a job is never stopped because its payload is gone.
InputKept == rec.reason # "input_unavailable"

\* A final record is never changed again, and nothing is sent for it.
FinalFrozen ==
  [][rec.state \in Finals => rec' = rec /\ sent' = sent /\ spool' = spool]_vars

\* A job that is resumed again and again reaches a final state, at the latest
\* when its retention ends.
JobSettles == rec.state = "running" ~> rec.state \in Finals
=============================================================================
