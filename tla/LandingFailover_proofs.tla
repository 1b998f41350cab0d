----------------------- MODULE LandingFailover_proofs -----------------------
(***************************************************************************)
(* Safety of the failover client for every number of back ends, deadline,   *)
(* retention and clock, by one inductive invariant. HostOK is about a       *)
(* host's job alone, AttemptOK ties an attempt in the journal to what was   *)
(* sent and to the job, RecordOK is about the verdict. Hosts and client     *)
(* touch each other only in Deliver and Observe, so each step is proved     *)
(* either with the client's state unchanged or with the hosts' unchanged.   *)
(* What the client keeps of its input has an invariant of its own, at the   *)
(* end; it counts on a clock that is never set back.                        *)
(***************************************************************************)
EXTENDS MCLandingFailover, TLAPS

JobOK(j, w, c) ==
  /\ j.state = "absent" => j.obs = "none" /\ ~j.artifact /\ w = "idle" /\ c = 0
  /\ j.artifact => j.obs = "normalized"
  /\ j.state = "artifact_ready" => j.artifact
  /\ w \in {"accepted", "normalizing", "called"} =>
       j.obs = "none" /\ j.state # "absent"
  /\ w = "generating" => j.obs = "normalized" /\ j.state # "absent"
  /\ w \in {"accepted", "normalizing"} => c = 0
  /\ c <= 1

HostOK(i) == JobOK(job[i], work[i], calls[i])

AttemptOK(i) ==
  /\ rec.att[i] \in {"none", "planned", "not_submitted"} => sent[i] = 0
  /\ sent[i] <= 1
  /\ sent[i] = 0 => i \notin wire /\ job[i].state = "absent"
  /\ rec.att[i] = "eligible_failure" => job[i].obs = "fallback"
  /\ rec.att[i] # "none" => \A j \in Backends : j < i => rec.att[j] \in Passed
  /\ rec.receipt[i].obs = "fallback" => job[i].obs = "fallback"
  /\ rec.receipt[i].artifact => job[i].artifact
  /\ At("capability", i) => rec.att[i] = "planned"
  /\ At("post", i) => rec.att[i] = "dispatching" /\ sent[i] = 0
  /\ At("observe", i) \/ At("judge", i) => rec.att[i] = "dispatching"

RecordOK ==
  /\ rec.state = "none" => pc = "down"
  /\ rec.state \in Finals => pc \in {"down", "loaded"} /\ spool = FALSE
  /\ rec.winner # 0 <=> rec.state = "artifact_ready"
  /\ rec.reason = "deadline" => rec.state = "stopped"

Inductive ==
  /\ TypeOK
  /\ \A i \in Backends : HostOK(i)
  /\ \A i \in Backends : AttemptOK(i)
  /\ RecordOK
  /\ VerdictsTrue

\* what no step of a host ever undoes
Progress(i) ==
  /\ job[i].obs = "fallback" => job'[i].obs = "fallback"
  /\ job[i].artifact => job'[i].artifact

---------------------------------------------------------------------------
(* The hosts                                                               *)

\* A fallback observation is only stored by the last write of a submission.
LEMMA FallbackFailed ==
  ASSUME NEW i \in Backends, HostTypeOK, HostOK(i), job[i].obs = "fallback"
  PROVE  Failed(i)
BY DEF HostTypeOK, HostOK, JobOK, JobRecords, Progresses, Failed

\* The writes of the service to a row.
LEMMA StateWritten ==
  ASSUME NEW j \in JobRecords, NEW state \in JobStates
  PROVE  /\ [j EXCEPT !.state = state] \in JobRecords
         /\ [j EXCEPT !.state = state].state = state
         /\ [j EXCEPT !.state = state].obs = j.obs
         /\ [j EXCEPT !.state = state].artifact = j.artifact
BY DEF JobRecords

LEMMA ArtifactWritten ==
  ASSUME NEW j \in JobRecords, NEW state \in JobStates
  PROVE  /\ [j EXCEPT !.state = state, !.artifact = TRUE] \in JobRecords
         /\ [j EXCEPT !.state = state, !.artifact = TRUE].state = state
         /\ [j EXCEPT !.state = state, !.artifact = TRUE].obs = j.obs
         /\ [j EXCEPT !.state = state, !.artifact = TRUE].artifact = TRUE
BY DEF JobRecords

\* A step that rewrites the row, the request and the count of one back end.
LEMMA OneRowWritten ==
  ASSUME HostTypeOK, \A k \in Backends : HostOK(k), NEW i \in Backends,
         NEW r \in JobRecords, NEW w \in Progresses, NEW c \in Nat,
         job' = [job EXCEPT ![i] = r], work' = [work EXCEPT ![i] = w],
         calls' = [calls EXCEPT ![i] = c],
         JobOK(r, w, c),
         job[i].obs = "fallback" => r.obs = "fallback",
         job[i].artifact => r.artifact
  PROVE  /\ HostTypeOK'
         /\ \A k \in Backends : HostOK(k)'
         /\ \A k \in Backends : Progress(k)
         /\ job'[i] = r
         /\ \A k \in Backends : k # i => job'[k] = job[k]
<1>1. HostTypeOK'
  BY DEF HostTypeOK
<1>2. /\ job'[i] = r /\ work'[i] = w /\ calls'[i] = c
      /\ \A k \in Backends : k # i =>
           job'[k] = job[k] /\ work'[k] = work[k] /\ calls'[k] = calls[k]
  BY DEF HostTypeOK
<1>3. \A k \in Backends : HostOK(k)' /\ Progress(k)
  BY <1>2 DEF HostOK, Progress
<1> QED BY <1>1, <1>2, <1>3

LEMMA AcceptKeeps ==
  ASSUME HostTypeOK, \A k \in Backends : HostOK(k), NEW i \in Backends, Accept(i)
  PROVE  /\ HostTypeOK'
         /\ \A k \in Backends : HostOK(k)'
         /\ \A k \in Backends : Progress(k)
         /\ \A k \in Backends : k # i => job'[k] = job[k]
<1>1. CASE job[i].state # "absent"
  BY <1>1 DEF Accept, HostTypeOK, HostOK, Progress
<1>2. CASE job[i].state = "absent"
  <2> DEFINE r == [job[i] EXCEPT !.state = "accepted"]
  <2>1. job[i] \in JobRecords /\ "accepted" \in JobStates
    BY DEF HostTypeOK, JobStates, Interrupted
  <2>2. r \in JobRecords /\ r.state = "accepted" /\ r.obs = job[i].obs
        /\ r.artifact = job[i].artifact
    BY <2>1, StateWritten
  <2>3. JobOK(r, "accepted", calls[i])
    BY <1>2, <2>2 DEF HostOK, JobOK
  <2>4. calls' = [calls EXCEPT ![i] = calls[i]] /\ calls[i] \in Nat
    BY DEF Accept, HostTypeOK
  <2>5. job' = [job EXCEPT ![i] = r] /\ work' = [work EXCEPT ![i] = "accepted"]
    BY <1>2 DEF Accept
  <2> HIDE DEF r
  <2> QED BY <2>2, <2>3, <2>4, <2>5, OneRowWritten DEF Progresses
<1> QED BY <1>1, <1>2

\* The final put of a submission under way.
LEMMA CloseKeeps ==
  ASSUME HostTypeOK, \A k \in Backends : HostOK(k), NEW i \in Backends,
         NEW state \in Closed \ {"artifact_ready"}, NEW obs \in Categories,
         job[i].obs = "none" \/ job[i].obs = obs, ~job[i].artifact,
         Close(i, state, obs)
  PROVE  /\ HostTypeOK'
         /\ \A k \in Backends : HostOK(k)'
         /\ \A k \in Backends : Progress(k)
         /\ \A k \in Backends : job[k].state = "absent" /\ k # i => job'[k].state = "absent"
<1> DEFINE r == [job[i] EXCEPT !.state = state, !.obs = obs]
<1>1. job[i] \in JobRecords /\ state \in JobStates
  BY DEF HostTypeOK, JobStates
<1>2. r \in JobRecords /\ r.state = state /\ r.obs = obs /\ r.artifact = job[i].artifact
  BY <1>1 DEF JobRecords
<1>3. JobOK(r, "idle", calls[i])
  BY <1>2 DEF HostOK, JobOK, Closed
<1>4. calls' = [calls EXCEPT ![i] = calls[i]] /\ calls[i] \in Nat
  BY DEF Close, HostTypeOK
<1>5. job' = [job EXCEPT ![i] = r] /\ work' = [work EXCEPT ![i] = "idle"]
  BY DEF Close
<1> HIDE DEF r
<1> QED BY <1>2, <1>3, <1>4, <1>5, OneRowWritten DEF Progresses

LEMMA HostStepKeeps ==
  ASSUME HostTypeOK, \A k \in Backends : HostOK(k), NEW i \in Backends, HostStep(i)
  PROVE  /\ HostTypeOK'
         /\ \A k \in Backends : HostOK(k)'
         /\ \A k \in Backends : Progress(k)
         /\ \A k \in Backends : job[k].state = "absent" => job'[k].state = "absent"
<1>1. /\ job[i] \in JobRecords /\ calls[i] \in Nat /\ work[i] \in Progresses
      /\ job = [job EXCEPT ![i] = job[i]]
      /\ calls = [calls EXCEPT ![i] = calls[i]]
      /\ work = [work EXCEPT ![i] = work[i]]
  BY DEF HostTypeOK
<1>2. HostOK(i)
  OBVIOUS
<1>3. {"idle", "normalizing", "called", "generating"} \subseteq Progresses
      /\ Closed \subseteq JobStates /\ Interrupted \subseteq JobStates
  BY DEF Progresses, JobStates
<1>4. CASE StartNormalizing(i)
  <2> DEFINE r == [job[i] EXCEPT !.state = "normalizing"]
  <2>1. r \in JobRecords /\ r.state = "normalizing" /\ r.obs = job[i].obs
        /\ r.artifact = job[i].artifact
    BY <1>1, <1>3, StateWritten DEF Interrupted
  <2>2. JobOK(r, "normalizing", calls[i]) /\ job[i].state # "absent"
    BY <1>2, <1>4, <2>1 DEF StartNormalizing, HostOK, JobOK
  <2>3. /\ job' = [job EXCEPT ![i] = r] /\ work' = [work EXCEPT ![i] = "normalizing"]
        /\ calls' = calls
    BY <1>4 DEF StartNormalizing
  <2> HIDE DEF r
  <2> QED BY <1>1, <1>3, <2>1, <2>2, <2>3, OneRowWritten
<1>5. CASE CallProvider(i)
  <2>1. JobOK(job[i], "called", calls[i] + 1) /\ job[i].state # "absent"
    BY <1>2, <1>5 DEF CallProvider, HostOK, JobOK
  <2>2. /\ job' = job /\ work' = [work EXCEPT ![i] = "called"]
        /\ calls' = [calls EXCEPT ![i] = calls[i] + 1]
    BY <1>5 DEF CallProvider
  <2>3. calls[i] + 1 \in Nat
    BY <1>1
  <2> QED BY <1>1, <1>3, <2>1, <2>2, <2>3, OneRowWritten
<1>6. CASE RefuseInput(i) \/ ProviderFails(i) \/ NormalizeRaises(i)
  <2>1. job[i].obs = "none" /\ job[i].state # "absent" /\ ~job[i].artifact
    BY <1>2, <1>6 DEF RefuseInput, ProviderFails, NormalizeRaises, HostOK, JobOK
  <2>2. PICK state \in Closed \ {"artifact_ready"}, obs \in Categories : Close(i, state, obs)
    BY <1>6 DEF RefuseInput, ProviderFails, NormalizeRaises, Closed, Categories
  <2> QED BY <2>1, <2>2, CloseKeeps
<1>7. CASE ProviderNormalizes(i)
  <2>1. job[i].obs = "none" /\ job[i].state # "absent" /\ ~job[i].artifact
    BY <1>2, <1>7 DEF ProviderNormalizes, HostOK, JobOK
  <2>2. CASE Close(i, "needs_human", "normalized")
    BY <2>1, <2>2, CloseKeeps DEF Closed, Categories
  <2>3. CASE ~Close(i, "needs_human", "normalized")
    <3> DEFINE r == [job[i] EXCEPT !.state = "generating", !.obs = "normalized"]
    <3>1. r \in JobRecords /\ r.state = "generating" /\ r.obs = "normalized"
          /\ r.artifact = job[i].artifact
      BY <1>1, <1>3 DEF JobRecords, Interrupted, Categories
    <3>2. JobOK(r, "generating", calls[i])
      BY <1>2, <2>1, <3>1 DEF HostOK, JobOK
    <3>3. /\ job' = [job EXCEPT ![i] = r] /\ work' = [work EXCEPT ![i] = "generating"]
          /\ calls' = calls
      BY <1>7, <2>3 DEF ProviderNormalizes
    <3> HIDE DEF r
    <3> QED BY <1>1, <1>3, <2>1, <3>1, <3>2, <3>3, OneRowWritten
  <2> QED BY <2>2, <2>3
<1>8. CASE BuildSucceeds(i)
  <2> DEFINE r == [job[i] EXCEPT !.state = "artifact_ready", !.artifact = TRUE]
  <2>1. r \in JobRecords /\ r.state = "artifact_ready" /\ r.obs = job[i].obs
        /\ r.artifact = TRUE
    BY <1>1, <1>3, ArtifactWritten DEF Closed
  <2>2. JobOK(r, "idle", calls[i]) /\ job[i].state # "absent"
    BY <1>2, <1>8, <2>1 DEF BuildSucceeds, HostOK, JobOK
  <2>3. /\ job' = [job EXCEPT ![i] = r] /\ work' = [work EXCEPT ![i] = "idle"]
        /\ calls' = calls
    BY <1>8 DEF BuildSucceeds
  <2> HIDE DEF r
  <2> QED BY <1>1, <1>3, <2>1, <2>2, <2>3, OneRowWritten
<1>9. CASE BuildFails(i)
  <2>1. job[i].obs = "normalized" /\ job[i].state # "absent"
    BY <1>2, <1>9 DEF BuildFails, HostOK, JobOK
  <2> DEFINE r == [job[i] EXCEPT !.state = "needs_human", !.obs = "normalized"]
  <2>2. r \in JobRecords /\ r.state = "needs_human" /\ r.obs = "normalized"
        /\ r.artifact = job[i].artifact
    BY <1>1, <1>3 DEF JobRecords, Closed, Categories
  <2>3. JobOK(r, "idle", calls[i])
    BY <1>2, <2>1, <2>2 DEF HostOK, JobOK
  <2>4. /\ job' = [job EXCEPT ![i] = r] /\ work' = [work EXCEPT ![i] = "idle"]
        /\ calls' = calls
    BY <1>9 DEF BuildFails, Close
  <2> HIDE DEF r
  <2> QED BY <1>1, <1>3, <2>1, <2>2, <2>3, <2>4, OneRowWritten
<1>10. CASE HostCrash(i)
  <2>1. JobOK(job[i], "idle", calls[i]) /\ job[i].state # "absent"
    BY <1>1, <1>2, <1>10 DEF HostCrash, HostOK, JobOK, Progresses
  <2> QED BY <1>1, <1>3, <1>10, <2>1, OneRowWritten DEF HostCrash
<1>11. CASE Recover(i) \/ CancelJob(i) \/ SpoilArtifact(i)
  <2>1. PICK state \in {"needs_human", "cancelled"} :
          job' = [job EXCEPT ![i] = [job[i] EXCEPT !.state = state]]
    BY <1>11 DEF Recover, CancelJob, SpoilArtifact
  <2> DEFINE r == [job[i] EXCEPT !.state = state]
  <2>2. r \in JobRecords /\ r.state = state /\ r.obs = job[i].obs
        /\ r.artifact = job[i].artifact
    BY <1>1, <1>3, StateWritten DEF Closed
  <2>3. JobOK(r, work[i], calls[i]) /\ job[i].state # "absent"
    BY <1>2, <1>11, <2>2 DEF Recover, CancelJob, SpoilArtifact, HostOK, JobOK,
                             Interrupted, Closed
  <2>4. job' = [job EXCEPT ![i] = r] /\ work' = work /\ calls' = calls
    BY <1>11, <2>1 DEF Recover, CancelJob, SpoilArtifact
  <2> HIDE DEF r
  <2> QED BY <1>1, <2>2, <2>3, <2>4, OneRowWritten
<1> QED BY <1>4, <1>5, <1>6, <1>7, <1>8, <1>9, <1>10, <1>11 DEF HostStep

\* The receipt of a job that exists is one the client's validation accepts.
LEMMA ReceiptAccepted ==
  ASSUME NEW i \in Backends, HostTypeOK, HostOK(i), job[i].state # "absent"
  PROVE  Receipt(job[i]) \in Receipts
<1>1. /\ job[i].state \in Interrupted \cup Closed
      /\ job[i].obs \in Categories
      /\ job[i].artifact \in BOOLEAN
  BY DEF HostTypeOK, JobRecords, JobStates
<1>2. Phase(job[i]) \in {"provider", "artifact", "unknown"}
  BY DEF Phase
<1>3. /\ job[i].artifact => job[i].obs = "normalized"
      /\ job[i].state = "artifact_ready" => job[i].artifact
  BY DEF HostOK, JobOK
<1>4. /\ job[i].artifact => Phase(job[i]) = "artifact"
      /\ Phase(job[i]) = "provider" =>
           job[i].obs \notin {"none", "normalized"} /\ ~job[i].artifact
  BY DEF Phase
<1>5. Receipt(job[i]) = [state |-> job[i].state, phase |-> Phase(job[i]),
                        terminal |-> (job[i].state \in Closed),
                        artifact |-> job[i].artifact, obs |-> job[i].obs]
  BY DEF Receipt
<1> DEFINE r == Receipt(job[i])
<1>6. /\ r.state = job[i].state /\ r.phase = Phase(job[i])
      /\ r.terminal = (job[i].state \in Closed)
      /\ r.artifact = job[i].artifact /\ r.obs = job[i].obs
  BY <1>5
<1>7. r \in [state : Interrupted \cup Closed, phase : {"provider", "artifact", "unknown"},
            terminal : BOOLEAN, artifact : BOOLEAN, obs : Categories]
  BY <1>1, <1>2, <1>5
<1> HIDE DEF r
<1>8. r \in Receipts
  BY <1>3, <1>4, <1>6, <1>7 DEF Receipts
<1> QED BY <1>8 DEF r

---------------------------------------------------------------------------
(* Verdicts survive whatever the hosts do                                  *)

LEMMA SettledStays ==
  ASSUME HostTypeOK, HostTypeOK', NEW i \in Backends, HostOK(i), HostOK(i)',
         Progress(i), sent'[i] = sent[i], Settled(i)
  PROVE  Settled(i)'
BY DEF HostTypeOK, HostOK, JobOK, JobRecords, Progresses, Progress, Settled, Failed

LEMMA VerdictsStay ==
  ASSUME Inductive, HostTypeOK', \A k \in Backends : HostOK(k)',
         \A k \in Backends : Progress(k), UNCHANGED <<rec, sent>>
  PROVE  VerdictsTrue'
<1>1. \A k \in Backends : Settled(k) => Settled(k)'
  BY SettledStays DEF Inductive, TypeOK
<1>2. rec.winner # 0 => rec.winner \in Backends
  BY BackendsAssumption DEF Inductive, TypeOK, Backends
<1> QED
  BY <1>1, <1>2 DEF Inductive, VerdictsTrue, Progress

\* A step of a host, or of the network, with the client where it was.
LEMMA ClientUntouched ==
  ASSUME Inductive, HostTypeOK', \A k \in Backends : HostOK(k)',
         \A k \in Backends : Progress(k),
         \A k \in Backends : sent[k] = 0 => job'[k].state = "absent",
         wire' \subseteq wire, now' \in Nat,
         UNCHANGED <<rec, spool, pc, sent>>
  PROVE  Inductive'
<1>1. VerdictsTrue'
  BY VerdictsStay
<1>2. \A k \in Backends : AttemptOK(k)'
  <2> TAKE k \in Backends
  <2>1. AttemptOK(k) /\ Progress(k)
    BY DEF Inductive
  <2> QED BY <2>1 DEF AttemptOK, Progress, At, Current
<1>3. TypeOK'
  BY DEF Inductive, TypeOK
<1> QED BY <1>1, <1>2, <1>3 DEF Inductive, RecordOK

---------------------------------------------------------------------------
(* The client                                                              *)

\* A step of the client leaves the hosts alone.
LEMMA HostsUntouched ==
  ASSUME Inductive, UNCHANGED hostVars
  PROVE  /\ HostTypeOK'
         /\ \A k \in Backends : HostOK(k)'
         /\ \A k \in Backends : Progress(k) /\ job'[k] = job[k]
         /\ \A k \in Backends : Failed(k)' <=> Failed(k)
BY DEF Inductive, TypeOK, HostTypeOK, HostOK, Progress, hostVars, Failed

\* Where the loop is, every other back end is settled.
LEMMA OthersSettled ==
  ASSUME Inductive, NEW i \in Backends, Current(i),
         NEW k \in Backends, k # i
  PROVE  Settled(k)
<1>1. AttemptOK(k) /\ HostOK(k) /\ HostTypeOK
  BY DEF Inductive, TypeOK
<1>2. CASE k < i
  BY <1>1, <1>2, FallbackFailed DEF Current, Passed, AttemptOK, Settled
<1>3. CASE i < k
  BY <1>1, <1>3 DEF Current, AttemptOK, Settled, Backends
<1> QED BY <1>2, <1>3 DEF Backends

\* Every passed back end is settled.
LEMMA PassedSettled ==
  ASSUME Inductive, NEW i \in Backends, rec.att[i] \in Passed
  PROVE  Settled(i)
BY FallbackFailed DEF Inductive, TypeOK, AttemptOK, Passed, Settled

\* The job is given a verdict; nothing is sent with it.
LEMMA VerdictKeeps ==
  ASSUME Inductive, UNCHANGED <<hostVars, now, wire, sent>>,
         NEW state \in {"exhausted", "stopped", "expired"},
         NEW reason \in {"retention_expired", "providers_unavailable", "deadline",
                         "backend_identity", "input_unavailable",
                         "backend_rejected", "ineligible_outcome"},
         Finish(state, reason),
         pc # "down", rec.state \notin Finals,
         reason = "deadline" => state = "stopped",
         state = "exhausted" \/ reason = "deadline" =>
           \A k \in Backends : Settled(k)
  PROVE  Inductive'
<1> USE HostsUntouched
<1>1. TypeOK'
  BY DEF Inductive, TypeOK, Finish, Finals
<1>2. \A k \in Backends : AttemptOK(k)'
  BY DEF Inductive, TypeOK, AttemptOK, Finish, At, Current
<1>3. RecordOK' /\ VerdictsTrue'
  BY DEF Inductive, TypeOK, RecordOK, VerdictsTrue, Finish, Finals, Settled
<1> QED BY <1>1, <1>2, <1>3 DEF Inductive

\* The job waits for a human and can be resumed.
LEMMA NeedsHumanKeeps ==
  ASSUME Inductive, UNCHANGED <<hostVars, now, wire, sent>>, NeedsHuman,
         pc # "down", rec.state \notin Finals
  PROVE  Inductive'
<1> USE HostsUntouched
<1>1. TypeOK'
  BY DEF Inductive, TypeOK, NeedsHuman
<1>2. \A k \in Backends : AttemptOK(k)'
  BY DEF Inductive, TypeOK, AttemptOK, NeedsHuman, At, Current
<1>3. RecordOK' /\ VerdictsTrue'
  BY DEF Inductive, TypeOK, RecordOK, VerdictsTrue, NeedsHuman, Finals
<1> QED BY <1>1, <1>2, <1>3 DEF Inductive

---------------------------------------------------------------------------
(* Initial states and steps                                                *)

LEMMA InitInductive ==
  ASSUME Init
  PROVE  Inductive
<1>0. AbsentJob \in JobRecords
  BY DEF AbsentJob, JobRecords, JobStates, Categories
<1>1. TypeOK
  <2>1. HostTypeOK
    BY <1>0 DEF Init, HostInit, HostTypeOK, Progresses
  <2>2. NoRecord.att \in [Backends -> Attempts] /\ 0 \in 0..N
    BY BackendsAssumption DEF NoRecord, Attempts
  <2>3. NoRecord.receipt \in [Backends -> Receipts \cup {NoReceipt}]
    <3> HIDE DEF NoReceipt
    <3> QED BY DEF NoRecord
  <2> QED BY <2>1, <2>2, <2>3 DEF Init, TypeOK, NoRecord
<1>2. \A i \in Backends : HostOK(i)
  BY DEF Init, HostInit, HostOK, JobOK, AbsentJob
<1>3. \A i \in Backends : AttemptOK(i)
  BY DEF Init, HostInit, AttemptOK, AbsentJob, NoRecord, NoReceipt, At
<1>4. RecordOK /\ VerdictsTrue
  BY DEF Init, NoRecord, RecordOK, VerdictsTrue, Finals
<1> QED BY <1>1, <1>2, <1>3, <1>4 DEF Inductive

\* A command begins: nothing was sent for a job that does not exist.
LEMMA CommandKeeps ==
  ASSUME Inductive, Submit \/ Open
  PROVE  Inductive'
<1>1. UNCHANGED hostVars
  BY DEF Submit, Open
<1> USE <1>1, HostsUntouched
<1>2. TypeOK'
  BY DEF Inductive, TypeOK, Submit, Open
<1>3. /\ rec'.att = rec.att /\ rec'.receipt = rec.receipt /\ rec'.winner = rec.winner
      /\ rec'.reason = rec.reason /\ pc' = "loaded" /\ wire' = wire /\ sent' = sent
  BY DEF Inductive, TypeOK, Submit, Open
<1>4. \A k \in Backends : AttemptOK(k)'
  BY <1>3 DEF Inductive, AttemptOK, At, Current
<1>5. CASE Submit
  <2>1. rec.state = "none" /\ rec'.state = "running"
    BY <1>5 DEF Inductive, TypeOK, Submit
  <2>2. RecordOK' /\ VerdictsTrue'
    BY <1>3, <2>1 DEF Inductive, RecordOK, VerdictsTrue, Finals
  <2> QED BY <1>2, <1>4, <2>2 DEF Inductive
<1>6. CASE Open
  <2>1. VerdictsTrue'
    BY <1>6, VerdictsStay DEF Open
  <2>2. RecordOK'
    BY <1>6 DEF Inductive, RecordOK, Open
  <2> QED BY <1>2, <1>4, <2>1, <2>2 DEF Inductive
<1> QED BY <1>5, <1>6

\* The client goes from one place to another, with the record as it is.
LEMMA MoveKeeps ==
  ASSUME Inductive, UNCHANGED <<hostVars, rec, spool, wire, sent>>, now' \in Nat,
         pc' \in {"down", "loaded", "next", "capability", "post", "observe", "judge"},
         pc' \in {"down", "loaded"} \/ rec.state \notin Finals,
         rec.state = "none" => pc' = "down",
         \A k \in Backends : Current(k) =>
           /\ pc' = "capability" => rec.att[k] = "planned"
           /\ pc' = "post" => rec.att[k] = "dispatching" /\ sent[k] = 0
           /\ pc' \in {"observe", "judge"} => rec.att[k] = "dispatching"
  PROVE  Inductive'
<1> USE HostsUntouched
<1>1. TypeOK'
  BY DEF Inductive, TypeOK
<1>2. \A k \in Backends : AttemptOK(k)'
  BY DEF Inductive, TypeOK, AttemptOK, At, Current
<1>3. RecordOK' /\ VerdictsTrue'
  BY VerdictsStay DEF Inductive, RecordOK
<1> QED BY <1>1, <1>2, <1>3 DEF Inductive

\* The state of one attempt is saved, at the place where the loop is.
LEMMA AttemptSaved ==
  ASSUME Inductive, UNCHANGED <<hostVars, now, spool, wire, sent>>,
         NEW i \in Backends, Current(i), pc # "down", rec.state \notin Finals,
         NEW state \in Attempts \ {"none"},
         rec' = [rec EXCEPT !.att[i] = state],
         state \in {"planned", "not_submitted"} => sent[i] = 0,
         state = "eligible_failure" => job[i].obs = "fallback",
         \/ pc' = "next"
         \/ pc' = "capability" /\ state = "planned"
         \/ pc' = "post" /\ state = "dispatching" /\ sent[i] = 0
  PROVE  Inductive'
<1> USE HostsUntouched
<1>0. rec.att \in [Backends -> Attempts] /\ rec.state # "none"
  BY DEF Inductive, TypeOK, RecordOK
<1>1. TypeOK'
  BY <1>0 DEF Inductive, TypeOK
<1>2. /\ rec'.att = [rec.att EXCEPT ![i] = state]
      /\ rec'.receipt = rec.receipt /\ rec'.winner = rec.winner
      /\ rec'.state = rec.state /\ rec'.reason = rec.reason
  BY DEF Inductive, TypeOK
<1>3. \A k \in Backends : rec.att[k] # "none" => k <= i
  BY DEF Inductive, AttemptOK, Current, Backends
<1>4. \A k \in Backends : AttemptOK(k)'
  <2> TAKE k \in Backends
  <2>1. AttemptOK(k)
    BY DEF Inductive
  <2>2. /\ rec'.att[k] \in {"none", "planned", "not_submitted"} => sent[k] = 0
        /\ rec'.att[k] = "eligible_failure" => job[k].obs = "fallback"
    BY <1>0, <1>2, <2>1 DEF AttemptOK
  <2>3. rec'.att[k] # "none" => \A j \in Backends : j < k => rec'.att[j] \in Passed
    BY <1>0, <1>2, <1>3, <2>1 DEF AttemptOK, Current, Backends, Passed
  <2>4. Current(k)' => k = i \/ pc' = "next"
    BY <1>0, <1>2 DEF Current, Backends, Passed
  <2> QED BY <1>0, <1>2, <2>1, <2>2, <2>3, <2>4 DEF AttemptOK, At
<1>5. RecordOK' /\ VerdictsTrue'
  BY <1>0, <1>2 DEF Inductive, TypeOK, RecordOK, VerdictsTrue, Settled, Finals
<1> QED BY <1>1, <1>4, <1>5 DEF Inductive

\* The receipt of the job is saved.
LEMMA ObserveKeeps ==
  ASSUME Inductive, NEW i \in Backends, Observe(i)
  PROVE  Inductive'
<1>1. UNCHANGED hostVars /\ HostOK(i) /\ HostTypeOK
  BY DEF Observe, Inductive, TypeOK
<1> USE <1>1, HostsUntouched
<1>2. Receipt(job[i]) \in Receipts
  BY ReceiptAccepted DEF Observe
<1>3. /\ rec' = [rec EXCEPT !.receipt[i] = Receipt(job[i])]
      /\ Receipt(job[i]).obs = job[i].obs /\ Receipt(job[i]).artifact = job[i].artifact
  BY DEF Observe, Receipt
<1>4. rec.receipt \in [Backends -> Receipts \cup {NoReceipt}]
  BY DEF Inductive, TypeOK
<1>5. rec'.receipt = [rec.receipt EXCEPT ![i] = Receipt(job[i])]
      /\ rec'.att = rec.att /\ rec'.winner = rec.winner
      /\ rec'.state = rec.state /\ rec'.reason = rec.reason /\ rec'.created = rec.created
  BY <1>3 DEF Inductive, TypeOK
<1>6. rec'.receipt \in [Backends -> Receipts \cup {NoReceipt}]
  BY <1>2, <1>4, <1>5
<1>7. TypeOK'
  <2> HIDE <1>3
  <2>1. rec' = [rec EXCEPT !.receipt = rec'.receipt]
    BY <1>3, <1>5 DEF Inductive, TypeOK
  <2> QED BY <1>6, <2>1 DEF Inductive, TypeOK, Observe
<1>8. \A k \in Backends : AttemptOK(k)'
  <2> TAKE k \in Backends
  <2>1. AttemptOK(k) /\ (Current(k)' <=> Current(k))
    BY <1>5 DEF Inductive, Current
  <2>2. /\ rec'.receipt[k].obs = "fallback" => job[k].obs = "fallback"
        /\ rec'.receipt[k].artifact => job[k].artifact
    BY <1>3, <1>4, <1>5, <2>1 DEF AttemptOK
  <2>3. At("judge", k)' => rec.att[k] = "dispatching"
    BY <2>1 DEF At, Observe, AttemptOK, Current, Inductive, Backends, Passed
  <2> QED BY <1>5, <2>1, <2>2, <2>3 DEF AttemptOK, At, Observe
<1>9. RecordOK' /\ VerdictsTrue'
  BY <1>5 DEF Inductive, RecordOK, VerdictsTrue, Settled, Observe, At, Finals
<1> QED BY <1>7, <1>8, <1>9 DEF Inductive

\* The receipt shows the artifact: its back end wins.
LEMMA SelectedKeeps ==
  ASSUME Inductive, NEW i \in Backends, At("judge", i), Selected(rec.receipt[i]),
         UNCHANGED <<hostVars, now, wire, sent>>, spool' = FALSE, pc' = "down",
         rec' = [rec EXCEPT !.state = "artifact_ready", !.reason = "selected",
                            !.winner = i]
  PROVE  Inductive'
<1> USE HostsUntouched
<1>0. i \in 0..N /\ "artifact_ready" \in Finals
  BY BackendsAssumption DEF Backends, Finals
<1>1. TypeOK'
  BY <1>0 DEF Inductive, TypeOK
<1>2. /\ rec'.att = rec.att /\ rec'.receipt = rec.receipt /\ rec'.winner = i
      /\ rec'.state = "artifact_ready" /\ rec'.reason = "selected"
  BY DEF Inductive, TypeOK
<1>3. \A k \in Backends : AttemptOK(k)'
  BY <1>2 DEF Inductive, AttemptOK, At, Current
<1>4. job[i].artifact
  BY DEF Inductive, AttemptOK, Selected
<1>5. \A k \in Backends : k # i => Settled(k)
  BY OthersSettled DEF At
<1>6. RecordOK' /\ VerdictsTrue'
  BY <1>2, <1>4, <1>5 DEF RecordOK, VerdictsTrue, Settled, Finals, Backends
<1> QED BY <1>1, <1>3, <1>6 DEF Inductive

LEMMA JudgeKeeps ==
  ASSUME Inductive, NEW i \in Backends, Judge(i)
  PROVE  Inductive'
<1>1. /\ At("judge", i) /\ Current(i) /\ pc # "down" /\ rec.state \notin Finals
      /\ UNCHANGED <<hostVars, now, wire, sent>>
  BY DEF Judge, At, Inductive, RecordOK
<1> DEFINE r == rec.receipt[i]
<1>2. CASE /\ Selected(r)
           /\ rec' = [rec EXCEPT !.state = "artifact_ready", !.reason = "selected",
                                 !.winner = i]
           /\ spool' = FALSE
           /\ pc' = "down"
  BY <1>1, <1>2, SelectedKeeps
<1>3. CASE /\ EligibleFailure(r)
           /\ rec' = [rec EXCEPT !.att[i] = "eligible_failure"]
           /\ pc' = "next"
           /\ UNCHANGED spool
  <2>1. job[i].obs = "fallback"
    BY <1>3 DEF Inductive, AttemptOK, EligibleFailure
  <2>2. "eligible_failure" \in Attempts \ {"none"}
    BY DEF Attempts, Passed
  <2> QED BY <1>1, <1>3, <2>1, <2>2, AttemptSaved
<1>4. CASE NeedsHuman
  BY <1>1, <1>4, NeedsHumanKeeps
<1>5. CASE Finish("stopped", "ineligible_outcome")
  BY <1>1, <1>5, VerdictKeeps
<1> QED BY <1>2, <1>3, <1>4, <1>5 DEF Judge

\* The POST leaves: the back ends before are passed, those after are untouched.
LEMMA PostKeeps ==
  ASSUME Inductive, NEW i \in Backends, Post(i)
  PROVE  Inductive'
<1>1. UNCHANGED hostVars
  BY DEF Post
<1> USE <1>1, HostsUntouched
<1>0. /\ At("post", i) /\ Current(i) /\ rec.att[i] = "dispatching" /\ sent[i] = 0
      /\ rec' = rec /\ wire' = wire \cup {i} /\ pc' = "observe"
      /\ sent' = [sent EXCEPT ![i] = sent[i] + 1]
  BY DEF Post, At, Inductive, AttemptOK
<1>2. sent' = [sent EXCEPT ![i] = 1]
  BY <1>0
<1>3. TypeOK'
  BY <1>0, <1>2 DEF Inductive, TypeOK, Post
<1>4. \A k \in Backends : Current(k) => k = i
  BY <1>0, <1>2 DEF Current, Backends
<1>5. \A k \in Backends : AttemptOK(k)'
  BY <1>0, <1>2, <1>4 DEF Inductive, TypeOK, AttemptOK, At, Current
<1>6. rec.state \notin Finals /\ rec.reason # "deadline" /\ rec.state # "none"
  BY <1>0, <1>2 DEF Inductive, RecordOK, At, Finals
<1>7. RecordOK' /\ VerdictsTrue'
  BY <1>0, <1>2, <1>6 DEF Inductive, RecordOK, VerdictsTrue, Finals
<1> QED BY <1>3, <1>5, <1>7 DEF Inductive

\* The steps in which the client only moves.
LEMMA MovesKeep ==
  ASSUME Inductive,
         \/ CallerCrash
         \/ Tick \/ SetClockBack
         \/ \E i \in Backends : PostFails(i)
         \/ \E i \in Backends : EnterAttempt(i) /\ rec.att[i] = "dispatching"
  PROVE  Inductive'
<1>0. now \in Nat /\ 0..MaxTime \subseteq Nat /\ TypeOK /\ RecordOK
      /\ \A k \in Backends : AttemptOK(k)
  BY CallerAssumption DEF Inductive, TypeOK
<1>1. CASE CallerCrash
  BY <1>0, <1>1, MoveKeeps DEF CallerCrash
<1>2. CASE Tick \/ SetClockBack
  <2>1. now' \in Nat
    BY <1>0, <1>2 DEF Tick, SetClockBack
  <2>2. /\ pc' = pc /\ UNCHANGED <<hostVars, rec, spool, wire, sent>>
    BY <1>2 DEF Tick, SetClockBack
  <2> QED BY <1>0, <2>1, <2>2, MoveKeeps DEF TypeOK, RecordOK, AttemptOK, At
<1>3. CASE \E i \in Backends : PostFails(i)
  <2>1. PICK i \in Backends : PostFails(i)
    BY <1>3
  <2>2. \A k \in Backends : Current(k) => k = i
    BY <2>1 DEF PostFails, At, Current, Backends
  <2> QED BY <1>0, <2>1, <2>2, MoveKeeps DEF PostFails, At, RecordOK, AttemptOK
<1>4. CASE \E i \in Backends : EnterAttempt(i) /\ rec.att[i] = "dispatching"
  <2>1. PICK i \in Backends : EnterAttempt(i) /\ rec.att[i] = "dispatching"
    BY <1>4
  <2>2. \A k \in Backends : Current(k) => k = i
    BY <2>1 DEF EnterAttempt, At, Current, Backends
  <2> QED BY <1>0, <2>1, <2>2, MoveKeeps DEF EnterAttempt, At, RecordOK, AttemptOK
<1> QED BY <1>1, <1>2, <1>3, <1>4

LEMMA DriveKeeps ==
  ASSUME Inductive, Drive
  PROVE  Inductive'
<1>1. /\ pc = "loaded" /\ UNCHANGED <<hostVars, now, wire, sent>>
      /\ now \in Nat /\ rec.state # "none"
      /\ Done <=> rec.state \in Finals
  BY DEF Drive, Inductive, TypeOK, RecordOK, Done, Finals
<1>2. CASE ~Done /\ Finish("expired", "retention_expired")
  BY <1>1, <1>2, VerdictKeeps
<1>3. CASE Done
  <2>1. UNCHANGED <<rec, spool>> /\ pc' = "down"
    BY <1>3 DEF Drive
  <2> QED BY <1>1, <1>3, <2>1, MoveKeeps
<1>4. CASE ~Done /\ OutsideRetention
  BY <1>2, <1>4 DEF Drive
<1>5. CASE ~Done /\ ~OutsideRetention
  <2>1. UNCHANGED <<rec, spool>> /\ pc' = "next"
    BY <1>5 DEF Drive
  <2> QED BY <1>1, <1>5, <2>1, MoveKeeps
<1> QED BY <1>3, <1>4, <1>5

LEMMA ExhaustKeeps ==
  ASSUME Inductive, Exhaust
  PROVE  Inductive'
<1>1. \A k \in Backends : Settled(k)
  BY PassedSettled DEF Exhaust
<1>2. pc # "down" /\ rec.state \notin Finals
  BY DEF Exhaust, Inductive, RecordOK
<1> QED BY <1>1, <1>2, VerdictKeeps DEF Exhaust

LEMMA AttemptStepKeeps ==
  ASSUME Inductive, NEW i \in Backends, AttemptStep(i)
  PROVE  Inductive'
<1>1. AttemptOK(i) /\ RecordOK /\ TypeOK
  BY DEF Inductive
<1>2. \A place \in {"next", "capability", "post", "observe", "judge"} :
        At(place, i) => Current(i) /\ pc # "down" /\ rec.state \notin Finals
  BY <1>1 DEF At, RecordOK
<1>3. {"planned", "dispatching", "not_submitted"} \subseteq Attempts \ {"none"}
  BY DEF Attempts, Passed
<1>4. CASE StopLate(i)
  <2>1. rec.att[i] \in {"none", "planned"}
    BY <1>1, <1>4 DEF StopLate, Late, At, Current, TypeOK, Attempts
  <2>2. \A k \in Backends : Settled(k)
    BY <1>1, <1>4, <2>1, OthersSettled DEF StopLate, At, AttemptOK, Settled
  <2> QED BY <1>2, <1>4, <2>2, VerdictKeeps DEF StopLate
<1>5. CASE EnterAttempt(i)
  <2>1. CASE rec.att[i] = "dispatching"
    BY <1>5, <2>1, MovesKeep
  <2>2. CASE rec.att[i] # "dispatching"
    <3>1. sent[i] = 0
      BY <1>1, <1>5, <2>2 DEF EnterAttempt, At, Current, TypeOK, Attempts, AttemptOK
    <3> QED BY <1>2, <1>3, <1>5, <2>2, <3>1, AttemptSaved DEF EnterAttempt
  <2> QED BY <2>1, <2>2
<1>6. CASE CapabilityUnavailable(i)
  <2>1. sent[i] = 0
    BY <1>1, <1>6 DEF CapabilityUnavailable, AttemptOK
  <2> QED BY <1>2, <1>3, <1>6, <2>1, AttemptSaved DEF CapabilityUnavailable
<1>7. CASE CapabilityAmbiguous(i) \/ ObserveAmbiguous(i)
  BY <1>2, <1>7, NeedsHumanKeeps DEF CapabilityAmbiguous, ObserveAmbiguous
<1>8. CASE CapabilityMismatch(i)
  BY <1>2, <1>8, VerdictKeeps DEF CapabilityMismatch
<1>9. CASE InputUnavailable(i)
  BY <1>2, <1>9, VerdictKeeps DEF InputUnavailable
<1>10. CASE Dispatch(i)
  <2>1. sent[i] = 0
    BY <1>1, <1>10 DEF Dispatch, AttemptOK
  <2> QED BY <1>2, <1>3, <1>10, <2>1, AttemptSaved DEF Dispatch
<1>11. CASE Post(i)
  BY <1>11, PostKeeps
<1>12. CASE PostFails(i)
  BY <1>12, MovesKeep
<1>13. CASE Reject(i)
  BY <1>2, <1>13, VerdictKeeps DEF Reject
<1>14. CASE Observe(i)
  BY <1>14, ObserveKeeps
<1>15. CASE Judge(i)
  BY <1>15, JudgeKeeps
<1> QED BY <1>4, <1>5, <1>6, <1>7, <1>8, <1>9, <1>10, <1>11, <1>12, <1>13, <1>14,
           <1>15 DEF AttemptStep

\* The steps of the hosts and of the network.
LEMMA WorldKeeps ==
  ASSUME Inductive, NEW i \in Backends, Deliver(i) \/ Drop(i) \/ Host(i)
  PROVE  Inductive'
<1>1. /\ HostTypeOK /\ now \in Nat
      /\ \A k \in Backends : HostOK(k) /\ AttemptOK(k)
  BY DEF Inductive, TypeOK
<1>2. CASE Host(i)
  <2>1. /\ HostTypeOK' /\ \A k \in Backends : HostOK(k)'
        /\ \A k \in Backends : Progress(k)
        /\ \A k \in Backends : job[k].state = "absent" => job'[k].state = "absent"
    BY <1>1, <1>2, HostStepKeeps DEF Host
  <2>2. \A k \in Backends : sent[k] = 0 => job'[k].state = "absent"
    BY <1>1, <2>1 DEF AttemptOK
  <2>3. UNCHANGED callerVars
    BY <1>2 DEF Host
  <2> QED BY <1>1, <2>1, <2>2, <2>3, ClientUntouched DEF callerVars
<1>3. CASE Deliver(i)
  <2>1. /\ HostTypeOK' /\ \A k \in Backends : HostOK(k)'
        /\ \A k \in Backends : Progress(k)
        /\ \A k \in Backends : k # i => job'[k] = job[k]
    BY <1>1, <1>3, AcceptKeeps DEF Deliver
  <2>2. \A k \in Backends : sent[k] = 0 => job'[k].state = "absent"
    BY <1>1, <1>3, <2>1 DEF AttemptOK, Deliver
  <2> QED BY <1>1, <1>3, <2>1, <2>2, ClientUntouched DEF Deliver
<1>4. CASE Drop(i)
  <2>1. \A k \in Backends : sent[k] = 0 => job'[k].state = "absent"
    BY <1>1, <1>4, HostsUntouched DEF AttemptOK, Drop
  <2> QED BY <1>1, <1>4, <2>1, ClientUntouched, HostsUntouched DEF Drop
<1> QED BY <1>2, <1>3, <1>4

LEMMA StepInductive ==
  ASSUME Inductive, [Next]_vars
  PROVE  Inductive'
<1>1. CASE UNCHANGED vars
  <2>1. UNCHANGED <<hostVars, now, rec, spool, pc, wire, sent>> /\ now \in Nat
    BY <1>1 DEF vars, callerVars, Inductive, TypeOK
  <2> QED BY <2>1, MoveKeeps DEF Inductive, TypeOK, RecordOK, AttemptOK, At
<1>2. CASE Next
  BY <1>2, CommandKeeps, DriveKeeps, ExhaustKeeps, AttemptStepKeeps, MovesKeep,
     WorldKeeps DEF Next, ClientStep
<1> QED BY <1>1, <1>2

---------------------------------------------------------------------------
(* Theorems                                                                *)

\* The invariant holds in every reachable state.
THEOREM FailoverInvariant == Spec => []Inductive
<1>1. Init => Inductive
  BY InitInductive
<1>2. Inductive /\ [Next]_vars => Inductive'
  BY StepInductive
<1> QED BY <1>1, <1>2, PTL DEF Spec

\* Journal, network and hosts keep their types: in particular no host answers
\* with a receipt that the client's validate_receipt refuses.
THEOREM FailoverTypes == Spec => []TypeOK
<1>1. Inductive => TypeOK
  BY DEF Inductive
<1> QED BY <1>1, FailoverInvariant, PTL

\* The input is sent to a back end at most once and its provider called at
\* most once, whatever is resumed, replayed, delayed or restarted.
THEOREM SubmitsOnce == Spec => []SubmittedOnce
<1>1. Inductive => SubmittedOnce
  BY DEF Inductive, AttemptOK, HostOK, JobOK, SubmittedOnce
<1> QED BY <1>1, FailoverInvariant, PTL

\* The client moves on to a back end only when every one before it provably
\* has nothing of the input or is known by its host to have failed.
THEOREM AdvancesOnlyAfterFailure == Spec => []AdvanceOnlyAfterFailure
<1>1. Inductive => AdvanceOnlyAfterFailure
  <2> SUFFICES ASSUME Inductive, NEW i \in Backends, NEW j \in Backends,
                      i < j, sent[j] > 0
               PROVE  Settled(i)
    BY DEF AdvanceOnlyAfterFailure
  <2>1. rec.att[i] \in Passed
    BY DEF Inductive, AttemptOK
  <2> QED BY <2>1, PassedSettled
<1> QED BY <1>1, FailoverInvariant, PTL

\* What the client reports as exhausted, as out of time or as won is true of
\* every host.
THEOREM VerdictsHold == Spec => []VerdictsTrue
<1>1. Inductive => VerdictsTrue
  BY DEF Inductive
<1> QED BY <1>1, FailoverInvariant, PTL

\* A final record stays as it is, and nothing is sent for it any more.
THEOREM FinalRecordsFrozen == Spec => FinalFrozen
<1>1. ASSUME Inductive, [Next]_vars, rec.state \in Finals
      PROVE  rec' = rec /\ sent' = sent /\ (spool' = spool)
  <2>1. pc \in {"down", "loaded"} /\ rec.state # "none" /\ Done /\ spool = FALSE
    BY <1>1 DEF Inductive, RecordOK, Done, Finals
  <2>2. CASE UNCHANGED vars \/ CallerCrash \/ Tick \/ SetClockBack
    BY <2>2 DEF vars, callerVars, CallerCrash, Tick, SetClockBack
  <2>3. CASE Submit \/ Open \/ Drive \/ Exhaust
    BY <2>1, <2>3 DEF Submit, Open, Drive, Exhaust
  <2>4. ASSUME NEW i \in Backends, Deliver(i) \/ Drop(i) \/ Host(i)
        PROVE  UNCHANGED <<rec, sent, spool>>
    BY <2>4 DEF Deliver, Drop, Host, callerVars
  <2>5. ASSUME NEW i \in Backends, AttemptStep(i)
        PROVE  FALSE
    <3>1. ~At("next", i) /\ ~At("capability", i) /\ ~At("post", i)
          /\ ~At("observe", i) /\ ~At("judge", i)
      BY <2>1 DEF At
    <3> QED BY <2>5, <3>1
      DEF AttemptStep, StopLate, EnterAttempt, CapabilityUnavailable,
          CapabilityAmbiguous, CapabilityMismatch, InputUnavailable, Dispatch, Post,
          PostFails, Reject, Observe, ObserveAmbiguous, Judge
  <2> QED BY <1>1, <2>2, <2>3, <2>4, <2>5 DEF Next, ClientStep
<1> QED BY <1>1, FailoverInvariant, PTL DEF Spec, FinalFrozen

---------------------------------------------------------------------------
(* The input                                                               *)

Loop == {"next", "capability", "post", "observe", "judge"}

\* While the clock advances the payload of an open job is only gone when its
\* retention has ended, and the client does not enter the loop then.
InputInOrder ==
  /\ rec.reason # "input_unavailable"
  /\ rec.state # "none" => rec.created <= now
  /\ rec.state \notin Finals \cup {"none"} => spool \/ Expires <= now
  /\ pc \in Loop => spool

\* The steps that save no record and leave the payload alone.
LEMMA InputStays ==
  ASSUME Inductive, InputInOrder, rec' = rec, spool' = spool, now' \in Nat,
         now <= now', pc' \in Loop => pc \in Loop
  PROVE  InputInOrder'
BY CallerAssumption DEF Inductive, TypeOK, InputInOrder, Expires

\* A verdict, with or without the end of the payload.
LEMMA InputFinished ==
  ASSUME Inductive, InputInOrder, now' = now, pc' = "down",
         rec'.created = rec.created, rec.state # "none",
         rec'.reason # "input_unavailable",
         (spool' = spool /\ rec.state \notin Finals) \/ rec'.state \in Finals
  PROVE  InputInOrder'
BY CallerAssumption DEF Inductive, TypeOK, InputInOrder, Expires, Loop, Finals

\* In the loop only the input that is gone ends a job for that reason, and it
\* is not gone.
LEMMA AttemptKeepsInput ==
  ASSUME Inductive, InputInOrder, NEW i \in Backends, AttemptStep(i)
  PROVE  InputInOrder'
<1>1. /\ TypeOK /\ now' = now /\ rec.state \notin Finals /\ rec.state # "none"
      /\ pc \in Loop /\ spool = TRUE
  BY DEF AttemptStep, StopLate, EnterAttempt, CapabilityUnavailable,
         CapabilityAmbiguous, CapabilityMismatch, InputUnavailable, Dispatch, Post,
         PostFails, Reject, Observe, ObserveAmbiguous, Judge, At, Inductive, TypeOK,
         RecordOK, InputInOrder, Loop
<1>2. CASE spool' = spool /\ rec'.state = rec.state /\ rec'.created = rec.created
           /\ rec'.reason = rec.reason
  BY <1>1, <1>2 DEF InputInOrder, Expires
<1>3. CASE Finish("stopped", "deadline") \/ Finish("stopped", "backend_identity")
           \/ Finish("stopped", "backend_rejected")
           \/ Finish("stopped", "ineligible_outcome")
  <2>1. /\ rec'.state = "stopped" /\ rec'.created = rec.created
        /\ rec'.reason \in {"deadline", "backend_identity", "backend_rejected",
                            "ineligible_outcome"}
        /\ pc' = "down"
    BY <1>1, <1>3 DEF Finish, TypeOK
  <2> QED
    BY <1>1, <2>1, InputFinished DEF Finals
<1>4. CASE NeedsHuman
  <2>1. /\ rec'.created = rec.created /\ rec'.reason = "outcome_unknown"
        /\ pc' = "down" /\ spool' = spool
    BY <1>1, <1>4 DEF NeedsHuman, TypeOK
  <2> QED
    BY <1>1, <2>1, InputFinished
<1>5. CASE StopLate(i) \/ CapabilityMismatch(i) \/ Reject(i)
  BY <1>3, <1>5 DEF StopLate, CapabilityMismatch, Reject
<1>6. CASE CapabilityAmbiguous(i) \/ ObserveAmbiguous(i)
  BY <1>4, <1>6 DEF CapabilityAmbiguous, ObserveAmbiguous
<1>7. CASE InputUnavailable(i)
  BY <1>1, <1>7 DEF InputUnavailable
<1>8. CASE EnterAttempt(i) \/ CapabilityUnavailable(i) \/ Dispatch(i) \/ Observe(i)
  BY <1>1, <1>2, <1>8
  DEF EnterAttempt, CapabilityUnavailable, Dispatch, Observe, TypeOK
<1>9. CASE Post(i) \/ PostFails(i)
  BY <1>1, <1>2, <1>9 DEF Post, PostFails
<1>10. CASE Judge(i)
  <2>1. CASE rec' = [rec EXCEPT !.state = "artifact_ready", !.reason = "selected",
                                !.winner = i] /\ pc' = "down"
    <3>1. rec'.created = rec.created /\ rec'.reason = "selected"
          /\ rec'.state = "artifact_ready"
      BY <1>1, <2>1 DEF TypeOK
    <3> QED
      BY <1>1, <2>1, <3>1, InputFinished DEF Finals
  <2>2. CASE rec' = [rec EXCEPT !.att[i] = "eligible_failure"] /\ UNCHANGED spool
    BY <1>1, <1>2, <2>2 DEF TypeOK
  <2> QED
    BY <1>3, <1>4, <1>10, <2>1, <2>2 DEF Judge
<1> QED
  BY <1>5, <1>6, <1>7, <1>8, <1>9, <1>10 DEF AttemptStep

\* A command that opens an expired job purges its payload, and its drive ends
\* the job before the loop.
LEMMA CommandsKeepInput ==
  ASSUME Inductive, InputInOrder, Submit \/ Open \/ Drive \/ Exhaust
  PROVE  InputInOrder'
<1>1. TypeOK /\ RecordOK /\ now' = now /\ now \in Nat /\ rec.created \in Nat
      /\ spool \in BOOLEAN
  BY DEF Submit, Open, Drive, Exhaust, Inductive, TypeOK
<1>2. CASE Submit
  <2>1. /\ rec'.reason = rec.reason /\ rec'.created = now
        /\ spool' = TRUE
    BY <1>1, <1>2 DEF Submit, TypeOK
  <2> QED
    BY <1>1, <2>1 DEF InputInOrder
<1>3. CASE Open
  <2>1. rec' = rec /\ pc' \notin Loop /\ spool' = (spool /\ Expires > now)
    BY <1>3 DEF Open, Loop
  <2>2. Expires \in Nat
    BY <1>1, CallerAssumption DEF Expires
  <2>3. spool' \/ Expires <= now \/ ~spool
    BY <1>1, <2>1, <2>2
  <2> QED
    BY <1>1, <2>1, <2>3 DEF InputInOrder, Expires
<1>4. CASE Drive
  <2>1. rec.state # "none"
    BY <1>1, <1>4 DEF Drive, RecordOK
  <2>2. CASE Finish("expired", "retention_expired")
    <3>1. rec'.created = rec.created /\ rec'.reason = "retention_expired"
          /\ rec'.state = "expired" /\ pc' = "down"
      BY <1>1, <2>2 DEF Finish, TypeOK
    <3> QED
      BY <1>1, <2>1, <3>1, InputFinished DEF Finals
  <2>3. CASE Done /\ pc' = "down" /\ UNCHANGED <<rec, spool>>
    BY <1>1, <2>3, InputStays DEF Loop
  <2>4. CASE ~Done /\ ~OutsideRetention /\ UNCHANGED <<rec, spool>>
    <3>1. rec.state \notin Finals
      BY <1>1, <2>4 DEF Done, RecordOK, Finals
    <3>2. ~(Expires <= now)
      BY <1>1, <2>4, CallerAssumption DEF OutsideRetention, Expires
    <3> QED
      BY <1>1, <2>1, <2>4, <3>1, <3>2 DEF InputInOrder, Expires
  <2> QED
    BY <1>4, <2>2, <2>3, <2>4 DEF Drive
<1>5. CASE Exhaust
  <2>1. rec'.created = rec.created /\ rec'.reason = "providers_unavailable"
        /\ rec'.state = "exhausted" /\ pc' = "down" /\ rec.state # "none"
    BY <1>1, <1>5 DEF Exhaust, Finish, TypeOK, RecordOK
  <2> QED
    BY <1>1, <2>1, InputFinished DEF Finals
<1> QED
  BY <1>2, <1>3, <1>4, <1>5

\* Unless the clock was set back, no job is ever stopped because its input is
\* gone while its retention lasts.
THEOREM InputIsKept == MCSpec => []InputKeptInOrder
<1> DEFINE Inv == Inductive /\ (~setBack => InputInOrder)
<1>1. MCInit => Inv
  <2>1. Init => Inductive
    BY InitInductive
  <2>2. Init => InputInOrder
    BY DEF Init, NoRecord, InputInOrder, Loop
  <2> QED
    BY <2>1, <2>2 DEF MCInit
<1>2. Inv /\ [MCNext]_<<vars, setBack>> => Inv'
  <2> SUFFICES ASSUME Inv, [MCNext]_<<vars, setBack>> PROVE Inv'
    OBVIOUS
  <2>1. [Next]_vars
    BY DEF MCNext
  <2>2. Inductive'
    BY <2>1, StepInductive
  <2>3. ASSUME ~setBack' PROVE InputInOrder'
    <3>1. now \in Nat /\ now' \in Nat
      BY <2>2 DEF Inductive, TypeOK
    <3>2. (~setBack /\ ~(now' < now)) \/ (setBack' = setBack /\ now' = now)
      BY <2>3 DEF MCNext, vars, callerVars
    <3>3. InputInOrder /\ now \in Nat /\ now' \in Nat /\ now <= now'
      BY <2>3, <3>1, <3>2
    <3>4. CASE Submit \/ Open \/ Drive \/ Exhaust
      BY <3>3, <3>4, CommandsKeepInput
    <3>5. ASSUME NEW i \in Backends, AttemptStep(i) PROVE InputInOrder'
      BY <3>3, <3>5, AttemptKeepsInput
    <3>6. CASE UNCHANGED vars \/ CallerCrash \/ Tick \/ SetClockBack
      BY <3>3, <3>6, InputStays
      DEF vars, callerVars, CallerCrash, Tick, SetClockBack, Loop
    <3>7. ASSUME NEW i \in Backends, Deliver(i) \/ Drop(i) \/ Host(i)
          PROVE  InputInOrder'
      BY <3>3, <3>7, InputStays DEF Deliver, Drop, Host, callerVars
    <3> QED
      BY <2>1, <3>4, <3>5, <3>6, <3>7 DEF Next, ClientStep
  <2> QED
    BY <2>2, <2>3
<1>3. Inv => InputKeptInOrder
  BY DEF InputInOrder, InputKeptInOrder, InputKept
<1> QED
  BY <1>1, <1>2, <1>3, PTL DEF MCSpec
=============================================================================
