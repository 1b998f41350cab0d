---------------------------- MODULE LandingHost -----------------------------
(***************************************************************************)
(* The landing hosts behind the failover client: for each back end the job  *)
(* that carries the client's child id, as LandingApplicationService         *)
(* (landing_service.py) processes it and SQLiteLandingJobStore              *)
(* (landing_sqlite_store.py) keeps it, and the receipt the host answers     *)
(* with (landing_failover_contracts.py).                                    *)
(*                                                                         *)
(* A submission is processed inside its request, under the service lock,    *)
(* one durable put after the other; the host may die between any two.       *)
(***************************************************************************)
EXTENDS Integers, FiniteSets

CONSTANT N          \* back ends of the configuration, in their fixed order

ASSUME BackendsAssumption == N \in 1..5

VARIABLES
  job,    \* rows of landing_jobs: the child's row at each back end
  work,   \* how far the request that processes it has come
  calls   \* history: calls of the external provider for the child

hostVars == <<job, work, calls>>

Backends == 1..N

Interrupted == {"accepted", "normalizing", "generating"}
Closed      == {"artifact_ready", "provider_unavailable", "rejected",
                "needs_human", "cancelled"}

\* LandingProviderObservation.category, as far as it is told apart: a member of
\* FALLBACK_CATEGORIES, any other failure, or normalized
Categories  == {"none", "fallback", "refused", "normalized"}

AbsentJob == [state |-> "absent", obs |-> "none", artifact |-> FALSE]

HostInit ==
  /\ job = [i \in Backends |-> AbsentJob]
  /\ work = [i \in Backends |-> "idle"]
  /\ calls = [i \in Backends |-> 0]

---------------------------------------------------------------------------
\* create_or_replay: the job is created once; a replay returns the job as it is
Accept(i) ==
  /\ IF job[i].state = "absent"
     THEN /\ job' = [job EXCEPT ![i].state = "accepted"]
          /\ work' = [work EXCEPT ![i] = "accepted"]
     ELSE UNCHANGED <<job, work>>
  /\ UNCHANGED calls

StartNormalizing(i) ==
  /\ work[i] = "accepted"
  /\ job' = [job EXCEPT ![i].state = "normalizing"]
  /\ work' = [work EXCEPT ![i] = "normalizing"]
  /\ UNCHANGED calls

CallProvider(i) ==
  /\ work[i] = "normalizing"
  /\ work' = [work EXCEPT ![i] = "called"]
  /\ calls' = [calls EXCEPT ![i] = @ + 1]
  /\ UNCHANGED job

\* the final put of the submission
Close(i, state, obs) ==
  /\ job' = [job EXCEPT ![i].state = state, ![i].obs = obs]
  /\ work' = [work EXCEPT ![i] = "idle"]
  /\ UNCHANGED calls

\* normalize ends without a draft before the provider was called: media,
\* source or profile refuse the input
RefuseInput(i) ==
  /\ work[i] = "normalizing"
  /\ \E state \in {"needs_human", "rejected", "provider_unavailable"} :
       Close(i, state, "refused")

\* the executor or the draft failed: the category decides about a fallback
ProviderFails(i) ==
  /\ work[i] = "called"
  /\ \E obs \in {"fallback", "refused"} : Close(i, "needs_human", obs)

\* LandingProviderError, or any other exception, outside the executor: no
\* observation is kept
NormalizeRaises(i) ==
  /\ work[i] \in {"normalizing", "called"}
  /\ \E state \in {"provider_unavailable", "needs_human"} : Close(i, state, "none")

ProviderNormalizes(i) ==
  /\ work[i] = "called"
  /\ \/ /\ job' = [job EXCEPT ![i].state = "generating", ![i].obs = "normalized"]
        /\ work' = [work EXCEPT ![i] = "generating"]
        /\ UNCHANGED calls
     \/ Close(i, "needs_human", "normalized")    \* no artifact builder

BuildSucceeds(i) ==
  /\ work[i] = "generating"
  /\ job' = [job EXCEPT ![i].state = "artifact_ready", ![i].artifact = TRUE]
  /\ work' = [work EXCEPT ![i] = "idle"]
  /\ UNCHANGED calls

BuildFails(i) ==
  /\ work[i] = "generating"
  /\ Close(i, "needs_human", "normalized")

\* the host dies, or a put is refused and the request ends there
HostCrash(i) ==
  /\ work[i] # "idle"
  /\ work' = [work EXCEPT ![i] = "idle"]
  /\ UNCHANGED <<job, calls>>

\* _recover_interrupted, when the host opens its store again
Recover(i) ==
  /\ work[i] = "idle"
  /\ job[i].state \in Interrupted
  /\ job' = [job EXCEPT ![i].state = "needs_human"]
  /\ UNCHANGED <<work, calls>>

\* the operator of the host cancels; the service lock keeps it out while the
\* submission is processed
CancelJob(i) ==
  /\ work[i] = "idle"
  /\ job[i].state \in Interrupted \cup Closed
  /\ job' = [job EXCEPT ![i].state = "cancelled"]
  /\ UNCHANGED <<work, calls>>

\* a read finds that the files of the artifact no longer validate
SpoilArtifact(i) ==
  /\ job[i].state = "artifact_ready"
  /\ job' = [job EXCEPT ![i].state = "needs_human"]
  /\ UNCHANGED <<work, calls>>

HostStep(i) ==
  \/ StartNormalizing(i)
  \/ CallProvider(i)
  \/ RefuseInput(i)
  \/ ProviderFails(i)
  \/ NormalizeRaises(i)
  \/ ProviderNormalizes(i)
  \/ BuildSucceeds(i)
  \/ BuildFails(i)
  \/ HostCrash(i)
  \/ Recover(i)
  \/ CancelJob(i)
  \/ SpoilArtifact(i)

---------------------------------------------------------------------------
(* Receipts                                                                *)

\* Mistake: the observation is looked at before the artifact
PhaseByObservation(j) ==
  IF j.obs # "none" THEN "provider"
  ELSE IF j.artifact \/ j.state = "generating" THEN "artifact" ELSE "unknown"

Phase(j) ==
  IF j.artifact \/ j.state = "generating" \/ j.obs = "normalized" THEN "artifact"
  ELSE IF j.obs # "none" THEN "provider" ELSE "unknown"

\* attempt_receipt
Receipt(j) ==
  [state |-> j.state, phase |-> Phase(j), terminal |-> j.state \in Closed,
   artifact |-> j.artifact, obs |-> j.obs]

\* validate_receipt: what the client accepts
Receipts ==
  {r \in [state : Interrupted \cup Closed, phase : {"provider", "artifact", "unknown"},
          terminal : BOOLEAN, artifact : BOOLEAN, obs : Categories] :
     /\ r.terminal <=> r.state \in Closed
     /\ r.artifact => r.obs = "normalized" /\ r.phase = "artifact"
     /\ r.state = "artifact_ready" => r.artifact
     /\ r.phase = "provider" => r.obs \notin {"none", "normalized"} /\ ~r.artifact}

JobStates  == {"absent"} \cup Interrupted \cup Closed
JobRecords == [state : JobStates, obs : Categories, artifact : BOOLEAN]
Progresses == {"idle", "accepted", "normalizing", "called", "generating"}

HostTypeOK ==
  /\ job \in [Backends -> JobRecords]
  /\ work \in [Backends -> Progresses]
  /\ calls \in [Backends -> Nat]

\* The child ended in a failure the host knows: the provider answered, or
\* could not be reached, with a fallback category, and nothing runs any more.
Failed(i) ==
  job[i].obs = "fallback" /\ ~job[i].artifact /\ work[i] = "idle"
=============================================================================
