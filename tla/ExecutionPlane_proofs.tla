------------------------ MODULE ExecutionPlane_proofs -------------------------
(***************************************************************************)
(* Safety of the execution plane for any number of calls, keys, provider    *)
(* calls, events, writes and faults, and that it keeps the contract of      *)
(* SealedLog.                                                               *)
(*                                                                         *)
(* A call writes its rows in one of eight transactions (Writes), and each   *)
(* of those and each step around the calls is one of four moves of the      *)
(* tables (RowsMove): quiet, an attestation, a proposal, the seal. What     *)
(* the tables owe each other is proved from the moves, what is only ever    *)
(* added is Progress, and what a call knows stays true under Progress.      *)
(***************************************************************************)
EXTENDS ExecutionPlane, TLAPS

Accounts == [reserved : BOOLEAN, blocked : BOOLEAN]
Stages   == {"none", "orphaned", "cancelled"} \cup Working \cup Finished
CallSet  == [pc : Steps, key : Keys \cup {"none"}, event : Events,
             seen : Nat, answer : AnswerSet, given : Results]
Ended    == Statuses \ {"free", "leased"}

\* what a body may be, with v versions of the files
BodyFits(v, kind, body) ==
  /\ kind \in {"note"} \cup Terminals => body = 0
  /\ kind = "artifact" => body \in 0..v
  /\ kind \in UsageKinds => body \in ProviderCalls

BodiesFit ==
  /\ files <= MaxWrites
  /\ \A n \in 1..Len(log) : BodyFits(files, log[n].kind, log[n].body)
  /\ result.snapshot <= files

EventFits(e) == e.seq > 0 /\ e.kind \in PlaceKinds /\ BodyFits(files, e.kind, e.body)

\* where a call stands in a proposal, and in a finalization
InProposal == {"replay", "attest", "commit", "again"}
InFinal    == {"known", "request", "snapshot", "seal", "look"}

\* A call carries an event that fits; from the moment its terminal proposal is
\* known it is in the log, so the log is closed and a snapshot sees all of it.
CallAgrees(c) ==
  /\ calls[c].pc # "idle" => calls[c].answer = "none"
  /\ calls[c].answer # "finished" => calls[c].given = NoResult
  /\ calls[c].pc \in InProposal \cup {"mark"} \cup InFinal => EventFits(calls[c].event)
  /\ calls[c].pc \in {"mark"} \cup InFinal => IsTerminal(calls[c].event.kind)
  /\ calls[c].pc = "attest" => calls[c].event.kind = "artifact"
  /\ calls[c].pc \in InFinal => Placed(calls[c].event)
  /\ calls[c].seen <= files
  /\ calls[c].pc = "seal" =>
       \A n \in 1..Len(log) : log[n].kind = "artifact" => log[n].body <= calls[c].seen

\* AnswersAreTrue of one call; CommandsAreTrue of one row, for given tables
AnswerIsTrue(c) ==
  /\ calls[c].answer = "accepted" => Placed(calls[c].event)
  /\ calls[c].answer = "finished" => calls[c].given = result /\ result # NoResult
  /\ calls[c].answer = "started" => stage # "none"
  /\ calls[c].answer = "refused" => task \notin {"free", "leased"}

RowIsTrue(x, l, r, s, t) ==
  LET e == x.command.event IN
  /\ x.command.act = "propose" => e.seq \in 1..Len(l) /\ l[e.seq] = Proposal(e)
  /\ x.command.act = "finalize" => r # NoResult
  /\ x.command.act = "start" => s # "none"
  /\ x.command.act \in {"invalid", "unstarted"} => t \notin {"free", "leased"}

\* a run that has a result was leased and is not any more
ResultEndsRun == result # NoResult => task \in Ended

Tables == LogIsSound /\ BodiesFit /\ ResultIsTheLog /\ ResultEndsRun /\ SnapshotIsNewest
CallsAgree == \A c \in Calls : CallAgrees(c) /\ AnswerIsTrue(c)

Inductive == Tables /\ CommandsAreTrue /\ CallsAgree

---------------------------------------------------------------------------
(* The moves of the tables                                                 *)

\* time, leases, accounts and stages: no evidence, no usage of a task whose
\* lease has ended, and no account of one that is ready for a human
Quiet ==
  /\ UNCHANGED <<log, attested, consumed, result>>
  /\ \/ task' = task
     \/ task = "free" /\ task' = "leased"
     \/ task \in {"free", "leased"} /\ task' \in Ended
     \/ task \in Ended /\ task' \in Later(task)
  /\ \/ stage' = stage
     \/ stage \notin Finished /\ stage' \in Working \cup {"orphaned", "cancelled"}
  /\ usage' \subseteq ProviderCalls /\ account' \in Accounts
  /\ task \in Ended => usage' = usage
  /\ task = "ready_for_human" => account' = account

AttestsAt(e) ==
  /\ NextPlace(e.seq) /\ attested[e.seq] = None
  /\ attested' = [attested EXCEPT ![e.seq] = e.body]
  /\ UNCHANGED <<task, stage, log, consumed, usage, account, result>>

PlacesAt(e) ==
  /\ CanPropose(e) /\ Places(e)
  /\ usage' \subseteq ProviderCalls /\ account' \in Accounts
  /\ UNCHANGED <<task, stage, attested, result>>

SealsBy(c) ==
  /\ calls[c].pc = "seal"
  /\ CanSeal /\ Seals(c)
  /\ UNCHANGED <<log, attested, consumed, usage>>

RowsMove ==
  \/ Quiet
  \/ \E e \in Events : EventFits(e) /\ (AttestsAt(e) \/ PlacesAt(e))
  \/ \E c \in Calls : SealsBy(c)

\* what every step only adds to
Progress ==
  /\ Len(log) <= Len(log') /\ \A n \in 1..Len(log) : log'[n] = log[n]
  /\ Closed => log' = log
  /\ result # NoResult => result' = result
  /\ stage # "none" => stage' # "none"
  /\ task \notin {"free", "leased"} => task' \notin {"free", "leased"}
  /\ files' \in Nat /\ files <= files'

\* one call has gone a step, and agrees with the tables and the files again
CallTurns(c) ==
  /\ calls' \in [Calls -> CallSet]
  /\ \A d \in Calls : d # c => calls'[d] = calls[d]
  /\ CallAgrees(c)' /\ AnswerIsTrue(c)'

\* the transactions of a call
Writes(c) ==
  \/ calls[c].pc = "claim" /\ ClaimWrites(c)
  \/ calls[c].pc = "start" /\ StartWrites(c)
  \/ calls[c].pc \in {"invalid", "unstarted"} /\ CleanUpWrites(c)
  \/ calls[c].pc = "attest" /\ AttestationWrites(c)
  \/ calls[c].pc = "commit" /\ ProposeWrites(c)
  \/ calls[c].pc = "commit" /\ BlockWrites(c)
  \/ calls[c].pc = "mark" /\ MarkWrites(c)
  \/ calls[c].pc = "seal" /\ SealWrites(c)

NewRowsAreTrue ==
  \A x \in commands' : x \in commands \/ RowIsTrue(x, log', result', stage', task')

---------------------------------------------------------------------------
(* The tables                                                              *)

LEMMA LogFacts ==
  ASSUME TypeOK
  PROVE  /\ log \in Seq(Entries) /\ Len(log) \in Nat
         /\ \A n \in 1..Len(log) :
              log[n] \in Entries /\ log[n].kind \in PlaceKinds /\ log[n].body \in Nat
         /\ Closed => Len(log) > 0
<1>1. log \in Seq(Entries)
  BY DEF TypeOK
<1>2. \A n \in 1..Len(log) : log[n] \in Entries
  BY <1>1
<1>3. log # <<>> => Len(log) > 0
  BY <1>1
<1> QED
  BY <1>1, <1>2, <1>3 DEF Entries, Closed

\* A proposal takes the next place and leaves the others.
LEMMA AppendFacts ==
  ASSUME TypeOK, NEW e \in Events, EventFits(e), PlacesAt(e)
  PROVE  /\ log' \in Seq(Entries) /\ Len(log') = Len(log) + 1 /\ e.seq = Len(log')
         /\ \A n \in 1..Len(log) : log'[n] = log[n]
         /\ log'[e.seq] = Proposal(e)
         /\ log'[e.seq].kind = e.kind /\ log'[e.seq].body = e.body
         /\ ~Closed /\ Active /\ Len(log') <= MaxEvents
<1>1. log \in Seq(Entries) /\ Len(log) \in Nat /\ log' = Append(log, Proposal(e))
      /\ e.seq = Len(log) + 1 /\ ~Closed /\ Active /\ e.seq <= MaxEvents
  BY LogFacts DEF PlacesAt, Places, CanPropose, NextPlace
<1>2. /\ Proposal(e) \in Entries /\ Proposal(e).kind = e.kind
      /\ Proposal(e).body = e.body
  BY DEF Proposal, Entries, EventFits, Events
<1> HIDE DEF Proposal
<1>3. /\ log' \in Seq(Entries) /\ Len(log') = Len(log) + 1
      /\ \A n \in 1..Len(log) : log'[n] = log[n]
      /\ log'[Len(log) + 1] = Proposal(e)
  BY <1>1, <1>2
<1> QED
  BY <1>1, <1>2, <1>3

LEMMA ResultFacts ==
  ASSUME Tables
  PROVE  /\ result # NoResult => /\ stage \in Finished /\ task \in Ended
                                 /\ Closed /\ log # <<>>
         /\ stage \in Finished => result # NoResult
         /\ Active => result = NoResult
<1>1. TypeOK /\ ResultIsTheLog
  BY DEF Tables, LogIsSound
<1>2. result # NoResult => task \in Ended
  BY DEF Tables, ResultEndsRun
<1>3. Active => stage \notin Finished
  BY DEF Active, Working, Finished
<1> QED
  BY <1>1, <1>2, <1>3 DEF ResultIsTheLog, Closed

\* Where a task may go it stays, and from where it went it goes nowhere else.
LEMMA LaterFacts ==
  ASSUME NEW s \in Ended
  PROVE  /\ s \in Later(s) /\ Later(s) \subseteq Ended
         /\ \A t \in Later(s) : Later(t) \subseteq Later(s)
         /\ s = "ready_for_human" => Later(s) = {s}
BY DEF Later, Ended, Statuses

LEMMA MovesProgress ==
  ASSUME Tables, RowsMove, files' \in Nat, files <= files'
  PROVE  Progress
<1>1. TypeOK
  BY DEF Tables, LogIsSound
<1>2. CASE Quiet
  <2>1. task \notin {"free", "leased"} => task' \notin {"free", "leased"}
    <3>1. task \in Statuses
      BY <1>1 DEF TypeOK
    <3> QED
      BY <1>2, <3>1, LaterFacts DEF Quiet, Ended
  <2> QED
    BY <1>1, <1>2, <2>1, LogFacts DEF Quiet, Progress, Working, Finished
<1>3. ASSUME NEW e \in Events, EventFits(e), AttestsAt(e) PROVE Progress
  BY <1>1, <1>3, LogFacts DEF AttestsAt, Progress
<1>4. ASSUME NEW e \in Events, EventFits(e), PlacesAt(e) PROVE Progress
  BY <1>1, <1>4, LogFacts, AppendFacts DEF PlacesAt, Progress
<1>5. ASSUME NEW c \in Calls, SealsBy(c) PROVE Progress
  <2>1. stage' # "none"
    BY <1>5 DEF SealsBy, Seals, EndStage
  <2>2. task = "leased" /\ result = NoResult /\ log' = log
    BY <1>5 DEF SealsBy, CanSeal, FinalizeContext, Active, Live
  <2> QED
    BY <1>1, <2>1, <2>2, LogFacts DEF Progress
<1> QED
  BY <1>2, <1>3, <1>4, <1>5 DEF RowsMove

\* The log stays well formed: what is attested waits at the next place until
\* the artifact takes it, and the place is taken only by a proposal.
LEMMA LogKeeps ==
  ASSUME Tables, RowsMove
  PROVE  /\ log' \in Seq(Entries) /\ Len(log') <= MaxEvents
         /\ attested' \in [1..MaxEvents -> Nat \cup {None}]
         /\ consumed' \subseteq 1..MaxEvents
         /\ \A n \in 1..Len(log') : IsTerminal(log'[n].kind) => n = Len(log')
         /\ consumed' = {n \in 1..Len(log') : log'[n].kind = "artifact"}
         /\ \A n \in consumed' : attested'[n] = log'[n].body
         /\ \A n \in 1..MaxEvents :
              attested'[n] # None =>
                \/ n \in consumed'
                \/ n = Len(log') + 1 /\ ~Closed'
                \/ n \in 1..Len(log') /\ log'[n].kind \in PricedKinds
<1>1. TypeOK /\ LogIsSound
  BY DEF Tables, LogIsSound
<1>2. /\ log \in Seq(Entries) /\ Len(log) \in Nat
      /\ attested \in [1..MaxEvents -> Nat \cup {None}]
      /\ consumed \subseteq 1..MaxEvents
      /\ MaxEvents \in Nat
  BY <1>1, LogFacts, PlaneAssumption DEF TypeOK
<1>3. CASE UNCHANGED <<log, attested, consumed>>
  BY <1>1, <1>2, <1>3 DEF LogIsSound, Closed
<1>4. ASSUME NEW e \in Events, EventFits(e), AttestsAt(e)
      PROVE  /\ UNCHANGED <<log, consumed>>
             /\ attested' \in [1..MaxEvents -> Nat \cup {None}]
             /\ \A n \in consumed' : attested'[n] = log'[n].body
             /\ \A n \in 1..MaxEvents :
                  attested'[n] # None =>
                    \/ n \in consumed'
                    \/ n = Len(log') + 1 /\ ~Closed'
                    \/ n \in 1..Len(log') /\ log'[n].kind \in PricedKinds
  <2>1. /\ e.seq = Len(log) + 1 /\ ~Closed /\ e.body \in Nat
        /\ attested' = [attested EXCEPT ![e.seq] = e.body]
        /\ log' = log /\ consumed' = consumed
    BY <1>4 DEF AttestsAt, NextPlace, Events
  <2>2. Closed' = Closed
    BY <2>1 DEF Closed
  <2>3. \A n \in consumed : n \in 1..Len(log) /\ attested[n] = log[n].body
    BY <1>1 DEF LogIsSound
  <2>4. attested' \in [1..MaxEvents -> Nat \cup {None}]
    BY <1>2, <2>1
  <2>5. \A n \in consumed' : attested'[n] = log'[n].body
    BY <1>2, <2>1, <2>3
  <2>6. ASSUME NEW n \in 1..MaxEvents, attested'[n] # None, n # e.seq
        PROVE  \/ n \in consumed
               \/ n = Len(log) + 1
               \/ n \in 1..Len(log) /\ log[n].kind \in PricedKinds
    <3>1. attested[n] # None
      BY <1>2, <2>1, <2>6
    <3> QED
      BY <1>1, <3>1 DEF LogIsSound
  <2> QED
    BY <1>2, <2>1, <2>2, <2>4, <2>5, <2>6
<1>5. ASSUME NEW e \in Events, EventFits(e), PlacesAt(e)
      PROVE  /\ log' \in Seq(Entries) /\ Len(log') <= MaxEvents
             /\ attested' = attested
             /\ consumed' = {n \in 1..Len(log') : log'[n].kind = "artifact"}
             /\ \A n \in 1..Len(log') : IsTerminal(log'[n].kind) => n = Len(log')
             /\ \A n \in consumed' : attested'[n] = log'[n].body
             /\ \A n \in 1..MaxEvents :
                  attested'[n] # None =>
                    \/ n \in consumed'
                    \/ n = Len(log') + 1 /\ ~Closed'
                    \/ n \in 1..Len(log') /\ log'[n].kind \in PricedKinds
  <2>1. /\ log' \in Seq(Entries) /\ Len(log') = Len(log) + 1 /\ e.seq = Len(log')
        /\ \A n \in 1..Len(log) : log'[n] = log[n]
        /\ log'[e.seq].kind = e.kind /\ log'[e.seq].body = e.body
        /\ ~Closed /\ Len(log') <= MaxEvents
    BY <1>1, <1>5, AppendFacts
  <2>2. /\ attested' = attested
        /\ consumed' = (IF e.kind = "artifact" THEN consumed \cup {e.seq} ELSE consumed)
        /\ e.kind = "artifact" => attested[e.seq] = e.body
        /\ e.kind \notin PricedKinds \cup {"artifact"} => attested[e.seq] = None
    BY <1>5 DEF PlacesAt, Places, CanPropose
  <2>3. \A n \in 1..Len(log') : n \in 1..Len(log) \/ n = e.seq
    BY <1>2, <2>1
  <2>4. consumed = {n \in 1..Len(log) : log[n].kind = "artifact"}
    BY <1>1 DEF LogIsSound
  <2>5. consumed' = {n \in 1..Len(log') : log'[n].kind = "artifact"}
    BY <1>2, <2>1, <2>2, <2>3, <2>4
  <2>6. \A n \in 1..Len(log) : ~IsTerminal(log[n].kind)
    <3>1. \A n \in 1..Len(log) : IsTerminal(log[n].kind) => n = Len(log)
      BY <1>1 DEF LogIsSound
    <3> QED
      BY <1>2, <2>1, <3>1 DEF Closed
  <2>7. \A n \in 1..Len(log') : IsTerminal(log'[n].kind) => n = Len(log')
    BY <2>1, <2>3, <2>6
  <2>8. \A n \in consumed' : attested'[n] = log'[n].body
    <3>1. \A n \in consumed : attested[n] = log[n].body
      BY <1>1 DEF LogIsSound
    <3> QED
      BY <2>1, <2>2, <2>4, <3>1
  <2>9. ASSUME NEW n \in 1..MaxEvents, attested'[n] # None
        PROVE  \/ n \in consumed'
               \/ n = Len(log') + 1 /\ ~Closed'
               \/ n \in 1..Len(log') /\ log'[n].kind \in PricedKinds
    <3>1. \/ n \in consumed
          \/ n = Len(log) + 1
          \/ n \in 1..Len(log) /\ log[n].kind \in PricedKinds
      BY <1>1, <2>2, <2>9 DEF LogIsSound
    <3>2. CASE n = Len(log) + 1
      BY <1>2, <2>1, <2>2, <2>9, <3>2
    <3> QED
      BY <1>2, <2>1, <2>2, <3>1, <3>2
  <2> QED
    BY <2>1, <2>2, <2>5, <2>7, <2>8, <2>9
<1>6. RowsMove =>
        \/ UNCHANGED <<log, attested, consumed>>
        \/ \E e \in Events : EventFits(e) /\ (AttestsAt(e) \/ PlacesAt(e))
  BY DEF RowsMove, Quiet, SealsBy
<1>7. ASSUME NEW e \in Events, EventFits(e), AttestsAt(e)
      PROVE  /\ Len(log') <= MaxEvents
             /\ \A n \in 1..Len(log') : IsTerminal(log'[n].kind) => n = Len(log')
             /\ consumed' = {n \in 1..Len(log') : log'[n].kind = "artifact"}
  BY <1>1, <1>4, <1>7 DEF LogIsSound
<1>8. consumed' = {n \in 1..Len(log') : log'[n].kind = "artifact"} /\ Len(log') <= MaxEvents
      /\ log' \in Seq(Entries) => consumed' \subseteq 1..MaxEvents
  BY <1>2
<1> QED
  BY <1>2, <1>3, <1>4, <1>5, <1>6, <1>7, <1>8

\* The bodies fit, and there are only ever more files.
LEMMA BodiesKeep ==
  ASSUME Tables, RowsMove, files' \in Nat, files <= files', files' <= MaxWrites,
         \A c \in Calls : calls[c].seen <= files /\ calls[c].seen \in Nat
  PROVE  BodiesFit'
<1>1. TypeOK /\ BodiesFit
  BY DEF Tables, LogIsSound
<1>2. files \in Nat /\ Len(log) \in Nat
  BY <1>1, LogFacts DEF TypeOK
<1>3. ASSUME NEW kind, NEW body, BodyFits(files, kind, body)
      PROVE  BodyFits(files', kind, body)
  BY <1>2, <1>3 DEF BodyFits
<1>4. result.snapshot \in Nat
  BY <1>1 DEF TypeOK, Results
<1>5. result'.snapshot <= files'
  <2>1. CASE result' = result
    BY <1>1, <1>2, <1>4, <2>1 DEF BodiesFit
  <2>2. ASSUME NEW c \in Calls, SealsBy(c) PROVE result'.snapshot <= files'
    <3>1. result'.snapshot = calls[c].seen
      BY <2>2 DEF SealsBy, Seals
    <3> QED
      BY <1>2, <3>1
  <2> QED
    BY <2>1, <2>2 DEF RowsMove, Quiet, AttestsAt, PlacesAt
<1>6. ASSUME NEW n \in 1..Len(log') PROVE BodyFits(files', log'[n].kind, log'[n].body)
  <2>1. CASE log' = log
    BY <1>1, <1>3, <2>1 DEF BodiesFit
  <2>2. ASSUME NEW e \in Events, EventFits(e), PlacesAt(e)
        PROVE  BodyFits(files', log'[n].kind, log'[n].body)
    <3>1. /\ n \in 1..Len(log) \/ n = e.seq
          /\ \A m \in 1..Len(log) : log'[m] = log[m]
          /\ log'[e.seq].kind = e.kind /\ log'[e.seq].body = e.body
      BY <1>1, <1>2, <2>2, AppendFacts
    <3>2. BodyFits(files', e.kind, e.body)
      BY <1>3, <2>2 DEF EventFits
    <3>3. ASSUME n \in 1..Len(log) PROVE BodyFits(files', log[n].kind, log[n].body)
      BY <1>1, <1>3, <3>3 DEF BodiesFit
    <3> QED
      BY <3>1, <3>2, <3>3
  <2> QED
    BY <2>1, <2>2 DEF RowsMove, Quiet, AttestsAt, SealsBy
<1> QED
  BY <1>5, <1>6 DEF BodiesFit

---------------------------------------------------------------------------
(* The result                                                              *)

\* usage reported and observed call by call, of a log and a set of calls
ToldOnce(l, u) ==
  \A p \in ProviderCalls :
    LET told == {n \in 1..Len(l) : l[n].kind \in UsageKinds /\ l[n].body = p}
    IN IF p \in u THEN \E n \in told : told = {n} ELSE told = {}

LEMMA ReportedIsToldOnce == UsageReported => ToldOnce(log, usage)
<1> SUFFICES ASSUME UsageReported, NEW p \in ProviderCalls
             PROVE  LET told == {n \in 1..Len(log) : log[n].kind \in UsageKinds /\ log[n].body = p}
                    IN IF p \in usage THEN \E n \in told : told = {n} ELSE told = {}
  BY DEF ToldOnce
<1> DEFINE all  == {n \in 1..Len(log) : log[n].kind \in UsageKinds}
           told == {n \in 1..Len(log) : log[n].kind \in UsageKinds /\ log[n].body = p}
<1>1. {log[n].body : n \in all} = usage
      /\ \A m, n \in all : log[m].body = log[n].body => m = n
  BY DEF UsageReported
<1>2. CASE p \in usage
  <2>1. PICK n \in all : log[n].body = p
    BY <1>1, <1>2
  <2>2. n \in told /\ \A m \in told : m = n
    BY <1>1, <2>1
  <2>3. told = {n}
    BY <2>2
  <2> QED
    BY <1>2, <2>2, <2>3
<1>3. CASE p \notin usage
  <2>1. told = {}
    BY <1>1, <1>3
  <2> QED
    BY <1>3, <2>1
<1> QED
  BY <1>2, <1>3

\* ResultIsTheLog, in parts
Resulted ==
  /\ result.stage = stage /\ result.log = log /\ Closed
  /\ stage = EndStage(log[Len(log)].kind)
  /\ task \in Later(result.status) /\ task # "leased"
  /\ ToldOnce(log, usage)
  /\ stage = "completed" => Settled /\ task = "ready_for_human"

LEMMA ResultParts ==
  ResultIsTheLog <=> /\ stage \in Finished <=> result # NoResult
                     /\ result # NoResult => Resulted
BY DEF ResultIsTheLog, Resulted, ToldOnce

\* The seal files the whole log, and nothing touches a run that has a result.
LEMMA ResultKeeps ==
  ASSUME Tables, RowsMove
  PROVE  ResultIsTheLog' /\ ResultEndsRun' /\ result' \in Results
<1>1. TypeOK /\ ResultIsTheLog /\ ResultEndsRun
  BY DEF Tables, LogIsSound
<1>2. result # NoResult => stage \in Finished /\ task \in Ended /\ Closed
  BY ResultFacts
<1>3. stage \in Finished <=> result # NoResult
  BY <1>1 DEF ResultIsTheLog
<1>4. result \in Results /\ account \in Accounts /\ log \in Seq(Entries)
  BY <1>1 DEF TypeOK, Accounts
<1>5. CASE Quiet
  <2>1. result' = result /\ log' = log
    BY <1>5 DEF Quiet
  <2>2. stage' \in Finished <=> stage \in Finished
    BY <1>5 DEF Quiet, Working, Finished
  <2>3. ASSUME result # NoResult
        PROVE  /\ UNCHANGED <<stage, usage>>
               /\ task' \in Later(task) /\ task' \in Ended
               /\ task = "ready_for_human" => UNCHANGED <<task, account>>
    <3>1. task \in Ended /\ stage \in Finished
      BY <1>2, <2>3
    <3>2. task # "free" /\ task # "leased"
      BY <3>1 DEF Ended
    <3>3. task' \in Later(task)
      BY <1>5, <3>1, <3>2, LaterFacts DEF Quiet
    <3> QED
      BY <1>5, <3>1, <3>3, LaterFacts DEF Quiet
  <2>4. ASSUME result # NoResult PROVE Resulted'
    <3>1. Resulted
      BY <1>1, <2>4, ResultParts
    <3>2. result.status \in Ended
      <4>1. result.status \in {"none"} \cup Statuses
        BY <1>4 DEF Results
      <4>2. task \in Later(result.status) /\ task \in Ended
        BY <1>2, <2>4, <3>1 DEF Resulted
      <4> QED
        BY <4>1, <4>2 DEF Later, Ended, Statuses
    <3>3. (task \in Later(result.status) /\ task # "leased")'
      BY <2>1, <2>3, <2>4, <3>1, <3>2, LaterFacts DEF Resulted, Ended
    <3>4. (stage = "completed" => Settled /\ task = "ready_for_human")'
      BY <2>3, <2>4, <3>1 DEF Resulted, Settled
    <3> QED
      BY <2>1, <2>3, <2>4, <3>1, <3>3, <3>4 DEF Resulted, ToldOnce, Closed
  <2>5. ResultIsTheLog'
    <3>1. (stage \in Finished)' <=> (result # NoResult)'
      BY <1>3, <2>1, <2>2 DEF Finished, NoResult
    <3>2. (result # NoResult)' => Resulted'
      BY <2>1, <2>4 DEF NoResult
    <3> QED
      BY <3>1, <3>2, ResultParts, PTL
  <2>6. ResultEndsRun'
    BY <2>1, <2>3 DEF ResultEndsRun, Ended, NoResult
  <2> QED
    BY <1>4, <2>1, <2>5, <2>6
<1>6. ASSUME NEW e \in Events, EventFits(e), AttestsAt(e) \/ PlacesAt(e)
      PROVE  ResultIsTheLog' /\ ResultEndsRun' /\ result' = result
  <2>1. stage' = stage /\ result' = result /\ task' = task /\ stage \in Working
    BY <1>6 DEF AttestsAt, PlacesAt, CanPropose, NextPlace, Active
  <2>2. stage \notin Finished
    BY <2>1 DEF Working, Finished
  <2>3. result = NoResult
    BY <1>3, <2>2
  <2>4. (stage \in Finished)' <=> (result # NoResult)'
    BY <1>3, <2>1 DEF Finished, NoResult
  <2>5. (result # NoResult)' => Resulted'
    BY <2>1, <2>3 DEF NoResult
  <2>6. ResultIsTheLog'
    BY <2>4, <2>5, ResultParts, PTL
  <2> QED
    BY <2>1, <2>3, <2>6 DEF ResultEndsRun, NoResult
<1>7. ASSUME NEW c \in Calls, SealsBy(c)
      PROVE  ResultIsTheLog' /\ ResultEndsRun' /\ result' \in Results
  <2> DEFINE last == log[Len(log)].kind
  <2>1. /\ UNCHANGED <<log, usage>> /\ Closed /\ UsageReported
        /\ stage' = EndStage(last) /\ task' \in Outcomes
        /\ result' = [stage |-> stage', status |-> task', log |-> log,
                      snapshot |-> calls[c].seen]
        /\ account' = [account EXCEPT !.blocked = Quarantined]
    BY <1>7 DEF SealsBy, Seals, CanSeal, FinalizeContext, UsageAgrees
  <2>2. stage' \in Finished
    BY <2>1 DEF EndStage, Finished
  <2>3. task' \in Ended /\ task' # "leased"
    BY <2>1 DEF Outcomes, AfterFailure, Ended, Statuses
  <2>4. result' # NoResult
    BY <2>1, <2>2 DEF NoResult, Finished
  <2>5. result' \in Results
    <3>1. calls[c].seen \in Nat
      BY <1>1 DEF TypeOK
    <3> QED
      BY <1>4, <2>1, <2>2, <2>3, <3>1 DEF Results, Ended
  <2>6. ASSUME stage' = "completed" PROVE Settled' /\ task' = "ready_for_human"
    <3>1. last = "completed"
      BY <2>1, <2>6 DEF EndStage
    <3>2. Settled /\ task' = "ready_for_human"
      BY <2>1, <3>1 DEF Outcomes
    <3>3. account' = account
      BY <1>4, <2>1, <3>2 DEF Settled, Quarantined, Accounts
    <3> QED
      BY <2>1, <3>2, <3>3 DEF Settled
  <2>7. Resulted'
    <3>1. ToldOnce(log, usage)'
      BY <2>1, ReportedIsToldOnce DEF ToldOnce
    <3>2. Closed' /\ (log[Len(log)].kind)' = last
      BY <2>1 DEF Closed
    <3>3. (stage = EndStage(log[Len(log)].kind))'
      BY <2>1, <3>2 DEF EndStage
    <3>4. (task \in Later(result.status))'
      BY <2>1, <2>3, LaterFacts
    <3> QED
      BY <2>1, <2>3, <2>6, <3>1, <3>2, <3>3, <3>4 DEF Resulted
  <2>8. ResultIsTheLog'
    <3>1. (stage \in Finished)' <=> (result # NoResult)'
      BY <2>2, <2>4 DEF Finished, NoResult
    <3> QED
      BY <2>7, <3>1, ResultParts, PTL
  <2> QED
    BY <2>3, <2>5, <2>8 DEF ResultEndsRun, Ended
<1> QED
  BY <1>4, <1>5, <1>6, <1>7 DEF RowsMove

\* The snapshot was taken of a closed log, and the log of a result is closed.
LEMMA SnapshotKeeps ==
  ASSUME Tables, CallsAgree, RowsMove
  PROVE  SnapshotIsNewest'
<1>1. SnapshotIsNewest /\ TypeOK
  BY DEF Tables, LogIsSound
<1>2. CASE Quiet
  BY <1>1, <1>2 DEF Quiet, SnapshotIsNewest
<1>3. ASSUME NEW e \in Events, EventFits(e), AttestsAt(e) \/ PlacesAt(e)
      PROVE  SnapshotIsNewest'
  <2>1. Active /\ result' = result
    BY <1>3 DEF AttestsAt, PlacesAt, CanPropose, NextPlace
  <2>2. result' = NoResult
    BY <2>1, ResultFacts
  <2> QED
    BY <2>2 DEF SnapshotIsNewest, NoResult
<1>4. ASSUME NEW c \in Calls, SealsBy(c) PROVE SnapshotIsNewest'
  <2>1. log' = log /\ result'.snapshot = calls[c].seen /\ calls[c].pc = "seal"
    BY <1>4 DEF SealsBy, Seals
  <2>2. CallAgrees(c)
    BY DEF CallsAgree
  <2> QED
    BY <2>1, <2>2 DEF SnapshotIsNewest, CallAgrees
<1> QED
  BY <1>2, <1>3, <1>4 DEF RowsMove

LEMMA RowTypesKeep ==
  ASSUME TypeOK, RowsMove
  PROVE  /\ task' \in Statuses /\ stage' \in Stages
         /\ usage' \subseteq ProviderCalls /\ account' \in Accounts
<1>1. /\ task \in Statuses /\ stage \in Stages /\ usage \subseteq ProviderCalls
      /\ account \in Accounts
  BY DEF TypeOK, Stages, Accounts
<1>2. CASE Quiet
  <2>1. task' \in Statuses
    BY <1>1, <1>2, LaterFacts DEF Quiet, Ended, Statuses
  <2> QED
    BY <1>1, <1>2, <2>1 DEF Quiet, Stages
<1>3. ASSUME NEW e \in Events, AttestsAt(e) \/ PlacesAt(e)
      PROVE  /\ task' \in Statuses /\ stage' \in Stages
             /\ usage' \subseteq ProviderCalls /\ account' \in Accounts
  BY <1>1, <1>3 DEF AttestsAt, PlacesAt
<1>4. ASSUME NEW c \in Calls, SealsBy(c)
      PROVE  /\ task' \in Statuses /\ stage' \in Stages
             /\ usage' \subseteq ProviderCalls /\ account' \in Accounts
  <2>1. task' \in Outcomes /\ stage' = EndStage(log[Len(log)].kind) /\ usage' = usage
        /\ account' = [account EXCEPT !.blocked = Quarantined]
    BY <1>4 DEF SealsBy, Seals
  <2>2. task' \in Statuses
    BY <2>1 DEF Outcomes, AfterFailure, Statuses
  <2>3. stage' \in Stages
    BY <2>1 DEF EndStage, Stages, Finished
  <2>4. Quarantined \in BOOLEAN
    BY <1>1 DEF Quarantined, Accounts
  <2>5. account' \in Accounts
    BY <1>1, <2>1, <2>4 DEF Accounts
  <2> QED
    BY <1>1, <2>1, <2>2, <2>3, <2>5
<1> QED
  BY <1>2, <1>3, <1>4 DEF RowsMove

LEMMA TablesKeep ==
  ASSUME Inductive, RowsMove, due' \in BOOLEAN, faults' \in 0..MaxFaults,
         files' \in Nat, files <= files', files' <= MaxWrites,
         calls' \in [Calls -> CallSet]
  PROVE  Tables' /\ Progress
<1>1. Tables /\ CallsAgree /\ TypeOK
  BY DEF Inductive, Tables, LogIsSound
<1>2. \A c \in Calls : calls[c].seen <= files /\ calls[c].seen \in Nat
  BY <1>1 DEF CallsAgree, CallAgrees, TypeOK
<1>3. BodiesFit'
  BY <1>1, <1>2, BodiesKeep
<1>4. ResultIsTheLog' /\ ResultEndsRun' /\ result' \in Results
  BY <1>1, ResultKeeps
<1>5. SnapshotIsNewest'
  BY <1>1, SnapshotKeeps
<1>6. TypeOK'
  BY <1>1, <1>4, LogKeeps, RowTypesKeep DEF TypeOK, Stages, Accounts, CallSet
<1>7. LogIsSound'
  BY <1>1, <1>6, LogKeeps DEF LogIsSound
<1>8. Progress
  BY <1>1, MovesProgress
<1> QED
  BY <1>3, <1>4, <1>5, <1>7, <1>8 DEF Tables

---------------------------------------------------------------------------
(* The transactions of a call are moves, and record what is true           *)

LEMMA RecordsOne ==
  ASSUME NEW k, NEW m, NEW a, Records(k, m, a),
         RowIsTrue(Row(k, m, a), log', result', stage', task')
  PROVE  NewRowsAreTrue
<1> SUFFICES ASSUME NEW x \in commands', x \notin commands PROVE RowIsTrue(x, log', result', stage', task')
  BY DEF NewRowsAreTrue
<1>1. x = Row(k, m, a)
  BY DEF Records
<1> QED
  BY <1>1

LEMMA ReleaseMoves ==
  ASSUME TypeOK, task = "leased", NEW transient \in BOOLEAN, Releases(transient)
  PROVE  task' \in Ended /\ account' \in Accounts
<1>1. account \in Accounts
  BY DEF TypeOK, Accounts
<1>2. account' = [account EXCEPT !.blocked = Quarantined] /\ task' \in AfterFailure(transient)
  BY DEF Releases
<1>3. Quarantined \in BOOLEAN
  BY <1>1 DEF Quarantined, Accounts
<1>4. account' \in Accounts
  BY <1>1, <1>2, <1>3 DEF Accounts
<1>5. task' \in Ended
  BY <1>2 DEF AfterFailure, Ended, Statuses
<1> QED
  BY <1>4, <1>5

LEMMA LeaseWritesMove ==
  ASSUME Inductive, NEW c \in Calls,
         \/ calls[c].pc = "claim" /\ ClaimWrites(c)
         \/ calls[c].pc = "start" /\ StartWrites(c)
         \/ calls[c].pc \in {"invalid", "unstarted"} /\ CleanUpWrites(c)
         \/ calls[c].pc = "mark" /\ MarkWrites(c)
  PROVE  RowsMove /\ NewRowsAreTrue
<1>1. TypeOK /\ usage \subseteq ProviderCalls /\ account \in Accounts
  BY DEF Inductive, Tables, LogIsSound, TypeOK, Accounts
<1>2. CASE ClaimWrites(c)
  <2>1. Quiet
    BY <1>1, <1>2 DEF ClaimWrites, Quiet
  <2>2. PICK a : Records(Key(c, "lease"), Claiming(c), a)
    BY <1>2 DEF ClaimWrites
  <2>3. RowIsTrue(Row(Key(c, "lease"), Claiming(c), a), log', result', stage', task')
    BY DEF RowIsTrue, Row, Claiming, Command
  <2> QED
    BY <2>1, <2>2, <2>3, RecordsOne DEF RowsMove
<1>3. CASE StartWrites(c)
  <2>1. stage = "none" /\ stage' = "prepared"
        /\ UNCHANGED <<task, log, attested, consumed, usage, account, result>>
    BY <1>3 DEF StartWrites
  <2>2. Quiet
    BY <1>1, <2>1 DEF Quiet, Working, Finished
  <2>3. RowIsTrue(Row(Key(c, "start"), Starting(c), "started"), log', result', stage', task')
    BY <2>1 DEF RowIsTrue, Row, Starting, Command
  <2> QED
    BY <1>3, <2>2, <2>3, RecordsOne DEF RowsMove, StartWrites
<1>4. CASE calls[c].pc \in {"invalid", "unstarted"} /\ CleanUpWrites(c)
  <2>1. /\ task = "leased" /\ Releases(calls[c].pc = "unstarted")
        /\ Records(Key(c, "cleanup"), Releasing(c), "released")
        /\ UNCHANGED <<stage, log, attested, consumed, usage, result>>
    BY <1>4 DEF CleanUpWrites, Live
  <2>2. task' \in Ended /\ account' \in Accounts
    BY <1>1, <2>1, ReleaseMoves
  <2>3. Quiet
    BY <1>1, <2>1, <2>2 DEF Quiet, Ended
  <2>4. RowIsTrue(Row(Key(c, "cleanup"), Releasing(c), "released"), log', result', stage', task')
    BY <1>4, <2>2 DEF RowIsTrue, Row, Releasing, Command, Ended
  <2> QED
    BY <2>1, <2>3, <2>4, RecordsOne DEF RowsMove
<1>5. CASE MarkWrites(c)
  <2>1. Quiet
    BY <1>1, <1>5 DEF MarkWrites, Quiet
  <2>2. RowIsTrue(Row(Key(c, "worker"), Marking(c), "marked"), log', result', stage', task')
    BY DEF RowIsTrue, Row, Marking, Command
  <2> QED
    BY <1>5, <2>1, <2>2, RecordsOne DEF RowsMove, MarkWrites
<1> QED
  BY <1>2, <1>3, <1>4, <1>5

\* A proposal that is accepted is in the log, newly or from before.
LEMMA ProposeWritesMove ==
  ASSUME Inductive, NEW c \in Calls, calls[c].pc = "commit", ProposeWrites(c)
  PROVE  /\ RowsMove /\ NewRowsAreTrue
         /\ calls[c].event.seq \in 1..Len(log')
         /\ log'[calls[c].event.seq] = Proposal(calls[c].event)
<1> DEFINE e == calls[c].event
<1>1. TypeOK /\ usage \subseteq ProviderCalls /\ account \in Accounts /\ e \in Events
  BY DEF Inductive, Tables, LogIsSound, TypeOK, Accounts
<1>2. EventFits(e)
  BY DEF Inductive, CallsAgree, CallAgrees, InProposal
<1>3. /\ UNCHANGED <<task, stage, attested, result>>
      /\ usage' = usage \cup {e.body} \/ usage' = usage
      /\ account' = [account EXCEPT !.reserved = FALSE] \/ account' = account
      /\ Records(ProposalKey(c), Proposing(c), "done")
      /\ Active
  BY DEF ProposeWrites
<1>4. usage' # usage => e.body \in ProviderCalls
  BY <1>2 DEF ProposeWrites, IsObserved, EventFits, BodyFits, UsageKinds
<1>5. usage' \subseteq ProviderCalls
  BY <1>1, <1>3, <1>4
<1>6. account' \in Accounts
  BY <1>1, <1>3 DEF Accounts
<1>7. task \notin Ended /\ task # "ready_for_human"
  BY <1>3 DEF Active, Live, Ended
<1>8. RowsMove /\ e.seq \in 1..Len(log') /\ log'[e.seq] = Proposal(e)
  <2>1. CASE Placed(e) /\ UNCHANGED <<log, consumed>>
    <3>1. Quiet
      BY <1>3, <1>5, <1>6, <1>7, <2>1 DEF Quiet
    <3> QED
      BY <2>1, <3>1 DEF RowsMove, Placed
  <2>2. CASE CanPropose(e) /\ Places(e)
    <3>1. PlacesAt(e)
      BY <1>3, <1>5, <1>6, <2>2 DEF PlacesAt
    <3>2. e.seq = Len(log) + 1 /\ e.seq = Len(log') /\ log'[e.seq] = Proposal(e)
      BY <1>1, <1>2, <2>2, <3>1, AppendFacts DEF CanPropose, NextPlace
    <3>3. e.seq \in 1..Len(log')
      BY <1>1, <3>2, LogFacts
    <3> QED
      BY <1>1, <1>2, <3>1, <3>2, <3>3 DEF RowsMove
  <2> QED
    BY <2>1, <2>2 DEF ProposeWrites
<1>9. RowIsTrue(Row(ProposalKey(c), Proposing(c), "done"), log', result', stage', task')
  BY <1>8 DEF RowIsTrue, Row, Proposing, Command
<1> QED
  BY <1>3, <1>8, <1>9, RecordsOne

LEMMA EvidenceWritesMove ==
  ASSUME Inductive, NEW c \in Calls,
         \/ calls[c].pc = "attest" /\ AttestationWrites(c)
         \/ calls[c].pc = "commit" /\ ProposeWrites(c)
         \/ calls[c].pc = "commit" /\ BlockWrites(c)
  PROVE  RowsMove /\ NewRowsAreTrue
<1> DEFINE e == calls[c].event
<1>1. TypeOK /\ usage \subseteq ProviderCalls /\ account \in Accounts /\ e \in Events
  BY DEF Inductive, Tables, LogIsSound, TypeOK, Accounts
<1>2. EventFits(e)
  BY DEF Inductive, CallsAgree, CallAgrees, InProposal
<1>3. CASE AttestationWrites(c)
  <2>1. AttestsAt(e) /\ commands' = commands
    BY <1>3 DEF AttestationWrites, AttestsAt
  <2> QED
    BY <1>1, <1>2, <2>1 DEF RowsMove, NewRowsAreTrue
<1>4. CASE calls[c].pc = "commit" /\ ProposeWrites(c)
  BY <1>4, ProposeWritesMove
<1>5. CASE BlockWrites(c)
  <2>1. /\ UNCHANGED <<task, stage, log, attested, consumed, usage, result>>
        /\ account' = [reserved |-> FALSE, blocked |-> TRUE]
        /\ Records(Key(c, "usage"), Observing(c), "blocked")
        /\ task \notin Ended /\ task # "ready_for_human"
    BY <1>5 DEF BlockWrites, Active, Live, Ended
  <2>2. Quiet
    BY <1>1, <2>1 DEF Quiet, Accounts
  <2>3. RowIsTrue(Row(Key(c, "usage"), Observing(c), "blocked"), log', result', stage', task')
    BY DEF RowIsTrue, Row, Observing, Command
  <2> QED
    BY <2>1, <2>2, <2>3, RecordsOne DEF RowsMove
<1> QED
  BY <1>3, <1>4, <1>5

LEMMA SealWritesMove ==
  ASSUME Inductive, NEW c \in Calls, calls[c].pc = "seal", SealWrites(c)
  PROVE  RowsMove /\ NewRowsAreTrue /\ result' # NoResult
<1>1. TypeOK /\ usage \subseteq ProviderCalls /\ account \in Accounts
  BY DEF Inductive, Tables, LogIsSound, TypeOK, Accounts
<1>2. /\ Records(Key(c, "finalize"), Finalizing(c), "done")
      /\ UNCHANGED <<log, attested, consumed, usage>>
  BY DEF SealWrites
<1>3. RowsMove /\ result' # NoResult
  <2>1. CASE CanSeal /\ Seals(c)
    <3>1. SealsBy(c)
      BY <1>2, <2>1 DEF SealsBy
    <3>2. result'.stage # "none"
      BY <2>1 DEF Seals, EndStage
    <3> QED
      BY <3>1, <3>2 DEF RowsMove, NoResult
  <2>2. CASE result # NoResult /\ UNCHANGED <<task, stage, account, result>>
    BY <1>1, <1>2, <2>2 DEF RowsMove, Quiet
  <2> QED
    BY <2>1, <2>2 DEF SealWrites
<1>4. RowIsTrue(Row(Key(c, "finalize"), Finalizing(c), "done"), log', result', stage', task')
  BY <1>3 DEF RowIsTrue, Row, Finalizing, Command
<1> QED
  BY <1>2, <1>3, <1>4, RecordsOne

LEMMA WritesMove ==
  ASSUME Inductive, NEW c \in Calls, Writes(c)
  PROVE  RowsMove /\ NewRowsAreTrue
BY LeaseWritesMove, EvidenceWritesMove, SealWritesMove DEF Writes

\* A row that was true stays true.
LEMMA CommandsKeep ==
  ASSUME CommandsAreTrue, Progress, NewRowsAreTrue, Len(log) \in Nat, Len(log') \in Nat
  PROVE  CommandsAreTrue'
<1>1. ASSUME NEW x \in commands' PROVE RowIsTrue(x, log', result', stage', task')
  <2>1. CASE x \in commands
    <3>1. RowIsTrue(x, log, result, stage, task)
      BY <2>1 DEF CommandsAreTrue, RowIsTrue, Placed
    <3> QED
      BY <3>1 DEF RowIsTrue, Progress, NoResult
  <2> QED
    BY <1>1, <2>1 DEF NewRowsAreTrue
<1> QED
  BY <1>1 DEF CommandsAreTrue, RowIsTrue, Placed

---------------------------------------------------------------------------
(* The steps around the calls                                              *)

LEMMA AroundMoves ==
  ASSUME TypeOK, files <= MaxWrites, Around
  PROVE  /\ RowsMove /\ UNCHANGED <<calls, commands, faults>>
         /\ due' \in BOOLEAN /\ files' \in Nat /\ files <= files' /\ files' <= MaxWrites
<1>1. /\ usage \subseteq ProviderCalls /\ account \in Accounts /\ files \in Nat
      /\ due \in BOOLEAN /\ MaxWrites \in Nat
  BY PlaneAssumption DEF TypeOK, Accounts
<1>2. CASE ChangeFiles
  BY <1>1, <1>2 DEF ChangeFiles, RowsMove, Quiet, rows
<1>3. CASE Advance
  BY <1>1, <1>3 DEF Advance, RowsMove, Quiet, Working, Finished
<1>4. CASE ReserveBudget
  <2>1. account' \in Accounts
    BY <1>1, <1>4 DEF ReserveBudget, Accounts
  <2> QED
    BY <1>1, <1>4, <2>1 DEF ReserveBudget, RowsMove, Quiet, Live, Ended
<1>5. ASSUME NEW p \in ProviderCalls, ObserveUsage(p) PROVE Quiet
  <2>1. \/ usage' = usage \cup {p} /\ account' = [account EXCEPT !.reserved = FALSE]
        \/ usage' = usage /\ account' = [reserved |-> FALSE, blocked |-> TRUE]
    BY <1>5 DEF ObserveUsage
  <2>2. account' \in Accounts
    <3>1. [reserved |-> FALSE, blocked |-> TRUE] \in Accounts
      BY DEF Accounts
    <3>2. [account EXCEPT !.reserved = FALSE] \in Accounts
      BY <1>1 DEF Accounts
    <3> QED
      BY <2>1, <3>1, <3>2
  <2>3. usage' \subseteq ProviderCalls
    BY <1>1, <1>5, <2>1
  <2> QED
    BY <1>1, <1>5, <2>2, <2>3 DEF ObserveUsage, Quiet, Live, Ended
<1>6. CASE Release
  <2>1. /\ task = "leased"
        /\ UNCHANGED <<stage, log, attested, consumed, usage, result, commands,
                       due, files, calls, faults>>
        /\ \/ task' = "ready_for_human" /\ account' = account
           \/ \E transient \in BOOLEAN : Releases(transient)
    BY <1>6 DEF Release, Live
  <2>2. task' \in Ended /\ account' \in Accounts
    BY <1>1, <2>1, ReleaseMoves DEF Ended, Statuses
  <2> QED
    BY <1>1, <2>1, <2>2 DEF RowsMove, Quiet, Ended
<1>7. CASE RunsOut
  BY <1>1, <1>7 DEF RunsOut, RowsMove, Quiet, rows
<1>8. CASE Reconcile
  <2>1. /\ task = "leased"
        /\ UNCHANGED <<stage, log, attested, consumed, usage, result, commands,
                       due, files, calls, faults>>
        /\ \/ \E transient \in BOOLEAN : Releases(transient)
           \/ task' = "dead" /\ account' = account
    BY <1>8 DEF Reconcile
  <2>2. task' \in Ended /\ account' \in Accounts
    BY <1>1, <2>1, ReleaseMoves DEF Ended, Statuses
  <2> QED
    BY <1>1, <2>1, <2>2 DEF RowsMove, Quiet, Ended
<1>9. [account EXCEPT !.blocked = Quarantined] \in Accounts
  BY <1>1 DEF Quarantined, Accounts
<1>10. CASE ExpireWaiting
  <2>1. /\ task \in {"free", "retry"} /\ task' \in {"needs_human", "dead"}
        /\ account' \in Accounts
    BY <1>9, <1>10 DEF ExpireWaiting
  <2>2. Quiet
    BY <1>1, <1>10, <2>1 DEF ExpireWaiting, Quiet, Ended, Statuses, Later
  <2> QED
    BY <1>1, <1>10, <2>2 DEF ExpireWaiting, RowsMove
<1>11. CASE TakenAgain
  <2>1. Quiet
    BY <1>1, <1>11 DEF TakenAgain, Quiet, Ended, Statuses, Later
  <2> QED
    BY <1>1, <1>11, <2>1 DEF TakenAgain, RowsMove
<1>12. CASE Cancel
  <2>1. stage' = stage \/ (stage \notin Finished /\ stage' = "cancelled")
    BY <1>12 DEF Cancel, Working, Finished
  <2>2. /\ task \in {"free", "leased", "retry", "needs_human"} /\ task' = "cancelled"
        /\ account' \in Accounts
    BY <1>9, <1>12 DEF Cancel
  <2>3. Quiet
    BY <1>1, <1>12, <2>1, <2>2 DEF Cancel, Quiet, Ended, Statuses, Later
  <2> QED
    BY <1>1, <1>12, <2>3 DEF Cancel, RowsMove
<1>13. CASE Recover
  BY <1>1, <1>13 DEF Recover, RowsMove, Quiet, Working, Finished
<1> QED
  BY <1>1, <1>2, <1>3, <1>4, <1>5, <1>6, <1>7, <1>8, <1>10, <1>11, <1>12, <1>13
  DEF Around, ObserveUsage, RowsMove

---------------------------------------------------------------------------
(* The calls                                                               *)

\* how a step changes the call it belongs to, and only that
LEMMA CallTypes ==
  ASSUME TypeOK
  PROVE  /\ calls \in [Calls -> CallSet] /\ Waiting \in CallSet
         /\ NoResult \in Results /\ result \in Results
<1>1. NoEvent \in Events
  BY PlaneAssumption DEF NoEvent, Events
<1>2. NoResult \in Results
  BY DEF NoResult, Results
<1>3. calls \in [Calls -> CallSet] /\ result \in Results
  BY DEF TypeOK, CallSet
<1>4. Waiting \in CallSet
  BY <1>1, <1>2 DEF Waiting, CallSet, Steps, AnswerSet
<1> QED
  BY <1>2, <1>3, <1>4

LEMMA GoesFields ==
  ASSUME TypeOK, NEW c \in Calls, NEW pc \in Steps, Goes(c, pc)
  PROVE  /\ calls' \in [Calls -> CallSet]
         /\ \A d \in Calls : d # c => calls'[d] = calls[d]
         /\ calls'[c].pc = pc /\ calls'[c].event = calls[c].event
         /\ calls'[c].seen = calls[c].seen /\ calls'[c].answer = calls[c].answer
         /\ calls'[c].given = calls[c].given
<1>1. calls \in [Calls -> CallSet] /\ calls' = [calls EXCEPT ![c].pc = pc]
  BY CallTypes DEF Goes
<1> QED
  BY <1>1 DEF CallSet

LEMMA AnswersFields ==
  ASSUME TypeOK, NEW c \in Calls, NEW a \in AnswerSet, Answers(c, a)
  PROVE  /\ calls' \in [Calls -> CallSet]
         /\ \A d \in Calls : d # c => calls'[d] = calls[d]
         /\ calls'[c].pc = "idle" /\ calls'[c].seen = 0
         /\ calls'[c].answer = a /\ calls'[c].given = NoResult
         /\ a = "accepted" => calls'[c].event = calls[c].event
<1> DEFINE event == IF a = "accepted" THEN calls[c].event ELSE NoEvent
<1>1. /\ calls \in [Calls -> CallSet] /\ Waiting \in CallSet
      /\ calls' = [calls EXCEPT ![c] = [Waiting EXCEPT !.answer = a, !.event = event]]
  BY CallTypes DEF Answers
<1>2. event \in Events
  BY <1>1 DEF CallSet, Waiting
<1>3. Waiting.pc = "idle" /\ Waiting.seen = 0 /\ Waiting.given = NoResult
  BY DEF Waiting
<1> HIDE DEF event
<1>4. /\ calls' \in [Calls -> CallSet]
      /\ \A d \in Calls : d # c => calls'[d] = calls[d]
      /\ calls'[c].pc = "idle" /\ calls'[c].seen = 0
      /\ calls'[c].answer = a /\ calls'[c].given = NoResult
      /\ calls'[c].event = event
  BY <1>1, <1>2, <1>3 DEF CallSet
<1> QED
  BY <1>4 DEF event

LEMMA GivesFields ==
  ASSUME TypeOK, NEW c \in Calls, NEW r \in Results, Gives(c, r)
  PROVE  /\ calls' \in [Calls -> CallSet]
         /\ \A d \in Calls : d # c => calls'[d] = calls[d]
         /\ calls'[c].pc = "idle" /\ calls'[c].seen = 0
         /\ calls'[c].answer = "finished" /\ calls'[c].given = r
<1>1. /\ calls \in [Calls -> CallSet] /\ Waiting \in CallSet
      /\ calls' = [calls EXCEPT ![c] = [Waiting EXCEPT !.answer = "finished", !.given = r]]
      /\ "finished" \in AnswerSet
  BY CallTypes DEF Gives, AnswerSet
<1>2. Waiting.pc = "idle" /\ Waiting.seen = 0
  BY DEF Waiting
<1> QED
  BY <1>1, <1>2 DEF CallSet

\* What a call knew stays true.
LEMMA CallKeeps ==
  ASSUME Tables, Progress, NEW c \in Calls, CallAgrees(c), AnswerIsTrue(c),
         calls'[c] = calls[c], Len(log') \in Nat
  PROVE  CallAgrees(c)' /\ AnswerIsTrue(c)'
<1> DEFINE k == calls[c]
<1>1. TypeOK /\ Len(log) \in Nat /\ files \in Nat /\ k \in CallSet
  BY LogFacts, CallTypes DEF Tables, LogIsSound, TypeOK
<1>2. ASSUME NEW e, Placed(e) PROVE e.seq \in 1..Len(log') /\ log'[e.seq] = Proposal(e)
  BY <1>1, <1>2 DEF Placed, Progress
<1>3. EventFits(k.event) => k.event.seq > 0 /\ k.event.kind \in PlaceKinds
                            /\ BodyFits(files', k.event.kind, k.event.body)
  BY <1>1 DEF EventFits, BodyFits, Progress
<1>4. k.seen <= files'
  BY <1>1 DEF CallAgrees, Progress, CallSet
<1>5. ASSUME k.pc = "seal" PROVE log' = log
  <2>1. Placed(k.event) /\ IsTerminal(k.event.kind)
    BY <1>5 DEF CallAgrees, InFinal
  <2>2. Closed
    <3>1. k.event.seq \in 1..Len(log) /\ log[k.event.seq].kind = k.event.kind
      BY <2>1 DEF Placed, Proposal
    <3>2. k.event.seq = Len(log)
      BY <2>1, <3>1 DEF Tables, LogIsSound
    <3> QED
      BY <1>1, <2>1, <3>1, <3>2 DEF Closed
  <2> QED
    BY <2>2 DEF Progress
<1>6. CallAgrees(c)'
  BY <1>2, <1>3, <1>4, <1>5 DEF CallAgrees, EventFits, Placed, NoResult, IsTerminal
<1>7. AnswerIsTrue(c)'
  BY <1>2 DEF AnswerIsTrue, Placed, Progress, NoResult
<1> QED
  BY <1>6, <1>7

\* A call that goes on has brought what its next step asks for.
LEMMA CallGoes ==
  ASSUME Inductive, Progress, NEW c \in Calls, NEW pc \in Steps \ {"idle", "seal"},
         Goes(c, pc), calls[c].pc # "idle",
         pc \in InProposal \cup {"mark"} \cup InFinal => EventFits(calls[c].event),
         pc \in {"mark"} \cup InFinal => IsTerminal(calls[c].event.kind),
         pc = "attest" => calls[c].event.kind = "artifact",
         pc \in InFinal => \/ Placed(calls[c].event)
                          \/ /\ calls[c].event.seq \in 1..Len(log')
                             /\ log'[calls[c].event.seq] = Proposal(calls[c].event)
  PROVE  CallTurns(c)
<1> DEFINE k == calls[c]
<1>1. TypeOK /\ Len(log) \in Nat /\ files \in Nat /\ k \in CallSet
  BY LogFacts, CallTypes DEF Inductive, Tables, LogIsSound, TypeOK
<1>2. CallAgrees(c)
  BY DEF Inductive, CallsAgree
<1>3. /\ calls' \in [Calls -> CallSet]
      /\ \A d \in Calls : d # c => calls'[d] = calls[d]
      /\ calls'[c].pc = pc /\ calls'[c].event = k.event
      /\ calls'[c].seen = k.seen /\ calls'[c].answer = k.answer
      /\ calls'[c].given = k.given
  BY <1>1, GoesFields
<1>4. k.given = NoResult /\ k.answer = "none" /\ k.seen <= files
  BY <1>2 DEF CallAgrees
<1>5. EventFits(k.event) => k.event.seq > 0 /\ k.event.kind \in PlaceKinds
                            /\ BodyFits(files', k.event.kind, k.event.body)
  BY <1>1 DEF EventFits, BodyFits, Progress
<1>6. k.seen <= files'
  BY <1>1, <1>4 DEF Progress, CallSet
<1>7. pc \in InFinal => /\ k.event.seq \in 1..Len(log')
                         /\ log'[k.event.seq] = Proposal(k.event)
  <2>1. Placed(k.event) => /\ k.event.seq \in 1..Len(log')
                           /\ log'[k.event.seq] = Proposal(k.event)
    BY <1>1 DEF Placed, Progress
  <2> QED
    BY <2>1
<1>8. CallAgrees(c)'
  BY <1>3, <1>4, <1>5, <1>6, <1>7 DEF CallAgrees, EventFits, Placed, NoResult, IsTerminal
<1>9. AnswerIsTrue(c)'
  BY <1>3, <1>4 DEF AnswerIsTrue
<1> QED
  BY <1>3, <1>8, <1>9 DEF CallTurns

\* An answer that is true ends a call.
LEMMA CallAnswers ==
  ASSUME Inductive, Progress, NEW c \in Calls, NEW a \in AnswerSet \ {"finished"},
         Answers(c, a),
         a = "accepted" => /\ calls[c].event.seq \in 1..Len(log')
                           /\ log'[calls[c].event.seq] = Proposal(calls[c].event),
         a = "started" => stage' # "none",
         a = "refused" => task' \notin {"free", "leased"}
  PROVE  CallTurns(c)
<1>1. TypeOK
  BY DEF Inductive, Tables, LogIsSound
<1>2. /\ calls' \in [Calls -> CallSet]
      /\ \A d \in Calls : d # c => calls'[d] = calls[d]
      /\ calls'[c].pc = "idle" /\ calls'[c].seen = 0 /\ calls'[c].answer = a
      /\ calls'[c].given = NoResult
      /\ a = "accepted" => calls'[c].event = calls[c].event
  BY <1>1, AnswersFields
<1>3. CallAgrees(c)'
  BY <1>2 DEF CallAgrees, InProposal, InFinal, Progress
<1>4. AnswerIsTrue(c)'
  BY <1>2 DEF AnswerIsTrue, Placed
<1> QED
  BY <1>2, <1>3, <1>4 DEF CallTurns

LEMMA CallGives ==
  ASSUME Inductive, Progress, NEW c \in Calls, Gives(c, result'),
         result' # NoResult, result' \in Results
  PROVE  CallTurns(c)
<1>1. TypeOK
  BY DEF Inductive, Tables, LogIsSound
<1>2. /\ calls' \in [Calls -> CallSet]
      /\ \A d \in Calls : d # c => calls'[d] = calls[d]
      /\ calls'[c].pc = "idle" /\ calls'[c].seen = 0 /\ calls'[c].answer = "finished"
      /\ calls'[c].given = result'
  BY <1>1, GivesFields
<1>3. CallAgrees(c)'
  BY <1>2 DEF CallAgrees, InProposal, InFinal, Progress
<1>4. AnswerIsTrue(c)'
  BY <1>2 DEF AnswerIsTrue, NoResult
<1> QED
  BY <1>2, <1>3, <1>4 DEF CallTurns

\* A recorded proposal is in the log, and so it stays.
LEMMA RecordedIsPlaced ==
  ASSUME Inductive, Progress, NEW c \in Calls, Replays(ProposalKey(c), Proposing(c), "done")
  PROVE  /\ calls[c].event.seq \in 1..Len(log')
         /\ log'[calls[c].event.seq] = Proposal(calls[c].event)
<1>1. Placed(calls[c].event)
  BY DEF Inductive, CommandsAreTrue, Replays, Row, Proposing, Command
<1>2. Len(log) \in Nat
  BY LogFacts DEF Inductive, Tables, LogIsSound
<1> QED
  BY <1>1, <1>2 DEF Placed, Progress

LEMMA CallAccepted ==
  ASSUME Inductive, Progress, NEW c \in Calls,
         calls[c].pc \in {"replay", "commit", "again"}, Accepted(c),
         calls[c].event.seq \in 1..Len(log'),
         log'[calls[c].event.seq] = Proposal(calls[c].event)
  PROVE  CallTurns(c)
<1>1. CallAgrees(c)
  BY DEF Inductive, CallsAgree
<1>2. EventFits(calls[c].event)
  BY <1>1 DEF CallAgrees, InProposal
<1>3. CASE IsTerminal(calls[c].event.kind)
  <2>1. Goes(c, "known") /\ "known" \in Steps \ {"idle", "seal"}
    BY <1>3 DEF Accepted, Steps
  <2> QED
    BY <1>2, <1>3, <2>1, CallGoes
<1>4. CASE ~IsTerminal(calls[c].event.kind)
  <2>1. Answers(c, "accepted") /\ "accepted" \in AnswerSet \ {"finished"}
    BY <1>4 DEF Accepted, AnswerSet
  <2> QED
    BY <2>1, CallAnswers
<1> QED
  BY <1>3, <1>4

\* Where a failed transaction or a lost answer leaves a call.
LEMMA CallRescued ==
  ASSUME Inductive, Progress, NEW c \in Calls, calls[c].pc # "idle",
         Rescue(c, calls[c].pc)
  PROVE  CallTurns(c)
<1>1. CallAgrees(c)
  BY DEF Inductive, CallsAgree
<1>2. CASE calls[c].pc = "start"
  <2>1. Goes(c, "unstarted") /\ "unstarted" \in Steps \ {"idle", "seal"}
    BY <1>2 DEF Rescue, Steps
  <2> QED
    BY <2>1, CallGoes DEF InProposal, InFinal
<1>3. CASE calls[c].pc \in {"attest", "commit"}
  <2>1. Goes(c, "again") /\ "again" \in Steps \ {"idle", "seal"}
    BY <1>3 DEF Rescue, Steps
  <2>2. EventFits(calls[c].event)
    BY <1>1, <1>3 DEF CallAgrees, InProposal
  <2> QED
    BY <2>1, <2>2, CallGoes DEF InFinal
<1>4. CASE calls[c].pc \in {"request", "snapshot", "seal"}
  <2>1. Goes(c, "look") /\ "look" \in Steps \ {"idle", "seal"}
    BY <1>4 DEF Rescue, Steps
  <2>2. EventFits(calls[c].event) /\ IsTerminal(calls[c].event.kind)
        /\ Placed(calls[c].event)
    BY <1>1, <1>4 DEF CallAgrees, InFinal
  <2> QED
    BY <2>1, <2>2, CallGoes
<1>5. CASE calls[c].pc \notin {"start", "attest", "commit", "request", "snapshot", "seal"}
  <2>1. Answers(c, "none") /\ "none" \in AnswerSet \ {"finished"}
    BY <1>5 DEF Rescue, AnswerSet
  <2> QED
    BY <2>1, CallAnswers
<1> QED
  BY <1>2, <1>3, <1>4, <1>5

LEMMA ClaimTurns ==
  ASSUME Inductive, Progress, NEW c \in Calls,
         Claim(c) \/ StartExecution(c) \/ CleanUp(c)
  PROVE  CallTurns(c)
<1>1. CASE Claim(c)
  <2>1. \/ Goes(c, "start") \/ Goes(c, "invalid") \/ Answers(c, "none")
    BY <1>1 DEF Claim
  <2>2. {"start", "invalid"} \subseteq Steps \ {"idle", "seal"} /\ calls[c].pc # "idle"
        /\ "none" \in AnswerSet \ {"finished"}
    BY <1>1 DEF Steps, Claim, AnswerSet
  <2> QED
    BY <2>1, <2>2, CallGoes, CallAnswers DEF InProposal, InFinal
<1>2. CASE StartExecution(c)
  <2>1. /\ {"started", "none"} \subseteq AnswerSet \ {"finished"} /\ calls[c].pc # "idle"
        /\ "unstarted" \in Steps \ {"idle", "seal"}
    BY <1>2 DEF Steps, StartExecution, AnswerSet
  <2>2. CASE StartWrites(c) /\ Answers(c, "started")
    <3>1. stage' # "none"
      BY <2>2 DEF StartWrites
    <3> QED
      BY <2>1, <2>2, <3>1, CallAnswers
  <2>3. CASE Replays(Key(c, "start"), Starting(c), "started") /\ Answers(c, "started")
             /\ UNCHANGED rows
    <3>1. stage' # "none"
      BY <2>3 DEF Inductive, CommandsAreTrue, Replays, Row, Starting, Command, rows
    <3> QED
      BY <2>1, <2>3, <3>1, CallAnswers
  <2>4. CASE Goes(c, "unstarted")
    BY <2>1, <2>4, CallGoes DEF InProposal, InFinal
  <2> QED
    BY <1>2, <2>2, <2>3, <2>4 DEF StartExecution
<1>3. CASE CleanUp(c)
  <2>1. /\ {"refused", "none"} \subseteq AnswerSet \ {"finished"}
        /\ calls[c].pc \in {"invalid", "unstarted"}
    BY <1>3 DEF CleanUp, AnswerSet
  <2>2. CASE CleanUpWrites(c) /\ Answers(c, "refused")
    <3>1. task' \notin {"free", "leased"}
      BY <2>2 DEF CleanUpWrites, Releases, AfterFailure
    <3> QED
      BY <2>1, <2>2, <3>1, CallAnswers
  <2>3. CASE Replays(Key(c, "cleanup"), Releasing(c), "released") /\ Answers(c, "refused")
             /\ UNCHANGED rows
    <3>1. task' \notin {"free", "leased"}
      BY <2>1, <2>3 DEF Inductive, CommandsAreTrue, Replays, Row, Releasing, Command, rows
    <3> QED
      BY <2>1, <2>3, <3>1, CallAnswers
  <2>4. CASE Answers(c, "none")
    BY <2>1, <2>4, CallAnswers
  <2> QED
    BY <1>3, <2>2, <2>3, <2>4 DEF CleanUp
<1> QED
  BY <1>1, <1>2, <1>3

LEMMA ProposalTurns ==
  ASSUME Inductive, Progress, NEW c \in Calls,
         \/ ReplayProposal(c) \/ RecordAttestation(c) \/ CommitProposal(c)
         \/ LookAgain(c) \/ MarkTerminal(c)
  PROVE  CallTurns(c)
<1>1. /\ CallAgrees(c) /\ "none" \in AnswerSet \ {"finished"}
      /\ {"attest", "commit", "again", "replay"} \subseteq Steps \ {"idle", "seal"}
  BY DEF Inductive, CallsAgree, AnswerSet, Steps
<1>2. ASSUME Answers(c, "none") PROVE CallTurns(c)
  BY <1>1, <1>2, CallAnswers
<1>3. ASSUME calls[c].pc \in InProposal \cup {"mark"}, NEW pc \in {"commit", "again", "replay"},
             Goes(c, pc)
      PROVE  CallTurns(c)
  <2>1. EventFits(calls[c].event) /\ calls[c].pc # "idle"
    BY <1>1, <1>3 DEF CallAgrees, InProposal
  <2> QED
    BY <1>1, <1>3, <2>1, CallGoes DEF InFinal
<1>4. ASSUME calls[c].pc \in {"replay", "commit", "again"}, Accepted(c),
             Replays(ProposalKey(c), Proposing(c), "done")
      PROVE  CallTurns(c)
  BY <1>4, RecordedIsPlaced, CallAccepted
<1>5. CASE ReplayProposal(c)
  <2>1. calls[c].pc = "replay" /\ EventFits(calls[c].event)
    BY <1>1, <1>5 DEF ReplayProposal, CallAgrees, InProposal
  <2>2. CASE Goes(c, IF calls[c].event.kind = "artifact" THEN "attest" ELSE "commit")
    <3>1. CASE calls[c].event.kind = "artifact"
      BY <1>1, <2>1, <2>2, <3>1, CallGoes DEF InFinal
    <3>2. CASE calls[c].event.kind # "artifact"
      BY <1>3, <2>1, <2>2, <3>2 DEF InProposal
    <3> QED
      BY <3>1, <3>2
  <2> QED
    BY <1>2, <1>4, <1>5, <2>1, <2>2 DEF ReplayProposal
<1>6. CASE RecordAttestation(c)
  <2>1. /\ calls[c].pc = "attest"
        /\ Goes(c, "commit") \/ Goes(c, "again") \/ Answers(c, "none")
    BY <1>6 DEF RecordAttestation
  <2> QED
    BY <1>2, <1>3, <2>1 DEF InProposal
<1>7. CASE CommitProposal(c)
  <2>1. CASE ProposeWrites(c) /\ Accepted(c)
    <3>1. calls[c].pc = "commit"
      BY <1>7 DEF CommitProposal
    <3>2. /\ calls[c].event.seq \in 1..Len(log')
          /\ log'[calls[c].event.seq] = Proposal(calls[c].event)
      BY <2>1, <3>1, ProposeWritesMove
    <3> QED
      BY <2>1, <3>1, <3>2, CallAccepted
  <2> QED
    BY <1>2, <1>3, <1>4, <1>7, <2>1 DEF CommitProposal, InProposal
<1>8. CASE LookAgain(c)
  BY <1>2, <1>4, <1>8 DEF LookAgain
<1>9. CASE MarkTerminal(c)
  BY <1>2, <1>3, <1>9 DEF MarkTerminal
<1> QED
  BY <1>5, <1>6, <1>7, <1>8, <1>9

LEMMA FinalTurns ==
  ASSUME Inductive, Progress, result' \in Results, NEW c \in Calls,
         \/ ReplayResult(c) \/ RequestSnapshot(c) \/ TakeSnapshot(c)
         \/ Finalize(c) \/ LookForResult(c)
  PROVE  CallTurns(c)
<1>1. /\ CallAgrees(c) /\ "none" \in AnswerSet \ {"finished"}
      /\ {"request", "snapshot", "look"} \subseteq Steps \ {"idle", "seal"}
      /\ calls[c].pc \in InFinal
  BY DEF Inductive, CallsAgree, AnswerSet, Steps, InFinal, ReplayResult, RequestSnapshot,
         TakeSnapshot, Finalize, LookForResult
<1>2. ASSUME Answers(c, "none") PROVE CallTurns(c)
  BY <1>1, <1>2, CallAnswers
<1>3. EventFits(calls[c].event) /\ IsTerminal(calls[c].event.kind) /\ Placed(calls[c].event)
  BY <1>1 DEF CallAgrees
<1>4. ASSUME NEW pc \in {"request", "snapshot", "look"}, Goes(c, pc) PROVE CallTurns(c)
  BY <1>1, <1>3, <1>4, CallGoes DEF InFinal
<1>5. ASSUME Replays(Key(c, "finalize"), Finalizing(c), "done"), result' = result,
             Gives(c, result)
      PROVE  CallTurns(c)
  <2>1. result # NoResult
    BY <1>5 DEF Inductive, CommandsAreTrue, Replays, Row, Finalizing, Command
  <2> QED
    BY <1>5, <2>1, CallGives
<1>6. CASE ReplayResult(c)
  BY <1>4, <1>5, <1>6 DEF ReplayResult, rows
<1>7. CASE RequestSnapshot(c)
  BY <1>4, <1>7 DEF RequestSnapshot
<1>8. CASE TakeSnapshot(c)
  <2>1. /\ calls[c].pc = "snapshot" /\ log' = log /\ files' = files
        /\ calls' = [calls EXCEPT ![c].pc = "seal", ![c].seen = files]
    BY <1>8 DEF TakeSnapshot, rows
  <2>2. TypeOK /\ calls \in [Calls -> CallSet] /\ files \in Nat /\ BodiesFit
    BY CallTypes DEF Inductive, Tables, LogIsSound, TypeOK
  <2>3. /\ calls' \in [Calls -> CallSet]
        /\ \A d \in Calls : d # c => calls'[d] = calls[d]
        /\ calls'[c].pc = "seal" /\ calls'[c].seen = files
        /\ calls'[c].event = calls[c].event /\ calls'[c].answer = calls[c].answer
        /\ calls'[c].given = calls[c].given
    BY <2>1, <2>2 DEF CallSet, Steps
  <2>4. calls[c].given = NoResult /\ calls[c].answer = "none"
    BY <1>1, <2>1 DEF CallAgrees
  <2>5. \A n \in 1..Len(log) : log[n].kind = "artifact" => log[n].body <= files
    BY <2>2 DEF BodiesFit, BodyFits
  <2>6. EventFits(calls[c].event)' /\ Placed(calls[c].event)'
    BY <1>3, <2>1, <2>3 DEF EventFits, Placed
  <2>7. CallAgrees(c)'
    BY <1>3, <2>1, <2>2, <2>3, <2>4, <2>5, <2>6
    DEF CallAgrees, IsTerminal, NoResult
  <2>8. AnswerIsTrue(c)'
    BY <2>3, <2>4 DEF AnswerIsTrue
  <2> QED
    BY <2>3, <2>7, <2>8 DEF CallTurns
<1>9. CASE Finalize(c)
  <2>1. CASE SealWrites(c) /\ Gives(c, result')
    <3>1. result' # NoResult
      BY <1>9, <2>1, SealWritesMove DEF Finalize
    <3> QED
      BY <2>1, <3>1, CallGives
  <2> QED
    BY <1>2, <1>4, <1>5, <1>9, <2>1 DEF Finalize, rows
<1>10. CASE LookForResult(c)
  BY <1>2, <1>5, <1>10 DEF LookForResult, rows
<1> QED
  BY <1>6, <1>7, <1>8, <1>9, <1>10

LEMMA BeginTurns ==
  ASSUME Inductive, Progress, NEW c \in Calls, Begin(c)
  PROVE  CallTurns(c)
<1>1. PICK k \in Keys, kind \in Kinds :
        \E n \in IF kind = "claim" THEN {0} ELSE Offered, b \in Bodies(kind) :
          calls' = [calls EXCEPT ![c] =
                      [Waiting EXCEPT !.pc = Entry(kind), !.key = k,
                         !.event = [seq |-> n, kind |-> kind, body |-> b]]]
  BY DEF Begin
<1>2. PICK n \in IF kind = "claim" THEN {0} ELSE Offered, b \in Bodies(kind) :
        calls' = [calls EXCEPT ![c] =
                    [Waiting EXCEPT !.pc = Entry(kind), !.key = k,
                       !.event = [seq |-> n, kind |-> kind, body |-> b]]]
  BY <1>1
<1> DEFINE event == [seq |-> n, kind |-> kind, body |-> b]
<1>3. /\ calls \in [Calls -> CallSet] /\ Waiting \in CallSet /\ files \in Nat
      /\ Len(log) \in 0..MaxEvents /\ MaxEvents \in Nat /\ files' = files
  BY CallTypes, LogFacts, PlaneAssumption
  DEF Inductive, Tables, LogIsSound, TypeOK, Begin
<1>4. kind = "claim" \/ kind \in PlaceKinds
  BY PlaneAssumption DEF PlaceKinds
<1>5. n \in 0..MaxEvents + 1 /\ (kind # "claim" => n > 0)
  BY <1>3 DEF Offered
<1>6. BodyFits(files, kind, b) /\ b \in Nat
  <2>1. kind = "artifact" => b \in 0..files
    BY DEF Bodies, UsageKinds, PricedKinds
  <2>2. kind \in UsageKinds => b \in ProviderCalls
    BY DEF Bodies, UsageKinds, PricedKinds
  <2>3. kind # "artifact" /\ kind \notin UsageKinds => b = 0
    BY DEF Bodies
  <2>4. \A x \in {"note"} \cup Terminals : x \notin UsageKinds /\ x # "artifact"
    BY DEF UsageKinds, PricedKinds, Terminals
  <2>5. BodyFits(files, kind, b)
    <3>1. kind \in {"note"} \cup Terminals => b = 0
      BY <2>3, <2>4
    <3> QED
      BY <2>1, <2>2, <3>1 DEF BodyFits
  <2>6. b \in 0..files \/ b \in ProviderCalls \/ b = 0
    BY <2>1, <2>2, <2>3
  <2>7. b \in Nat
    <3>1. files \in Nat
      BY <1>3
    <3>2. ProviderCalls \subseteq Nat
      BY PlaneAssumption
    <3>3. 0..files \subseteq Nat
      BY <3>1
    <3>4. CASE b \in 0..files
      BY <3>3, <3>4, Zenon
    <3>5. CASE b \in ProviderCalls
      BY <3>2, <3>5, Zenon
    <3>6. CASE b = 0
      BY <3>6
    <3> QED
      BY <2>6, <3>4, <3>5, <3>6, Zenon
  <2> QED
    BY <2>5, <2>7
<1>7. event \in Events
  BY <1>4, <1>5, <1>6 DEF Events
<1>8. kind # "claim" => EventFits(event)
  BY <1>4, <1>5, <1>6 DEF EventFits
<1>9. /\ Entry(kind) \in {"claim", "mark", "replay"}
      /\ Entry(kind) = "mark" => IsTerminal(kind)
      /\ kind = "claim" => Entry(kind) = "claim"
  BY DEF Entry, IsTerminal, Terminals
<1>10. Waiting.seen = 0 /\ Waiting.answer = "none" /\ Waiting.given = NoResult
  BY DEF Waiting
<1> HIDE DEF event
<1>11. /\ calls' \in [Calls -> CallSet]
       /\ \A d \in Calls : d # c => calls'[d] = calls[d]
       /\ calls'[c].pc = Entry(kind) /\ calls'[c].event = event /\ calls'[c].seen = 0
       /\ calls'[c].answer = "none" /\ calls'[c].given = NoResult
  <2>1. Entry(kind) \in Steps
    BY <1>9 DEF Steps
  <2>2. calls' = [calls EXCEPT ![c] = [Waiting EXCEPT !.pc = Entry(kind), !.key = k,
                                         !.event = event]]
    BY <1>2 DEF event
  <2> QED
    BY <1>3, <1>7, <1>10, <2>1, <2>2 DEF CallSet
<1>12. CallAgrees(c)'
  BY <1>3, <1>8, <1>9, <1>11
  DEF CallAgrees, InProposal, InFinal, EventFits, IsTerminal, event, NoResult
<1>13. AnswerIsTrue(c)'
  BY <1>11 DEF AnswerIsTrue
<1> QED
  BY <1>11, <1>12, <1>13 DEF CallTurns

---------------------------------------------------------------------------
(* The invariant                                                           *)

CallStep(c) == Begin(c) \/ Step(c) \/ Fails(c) \/ LosesAnswer(c) \/ Dies(c)

\* What a call does to the tables is one of its transactions, or nothing.
LEMMA CallStepMoves ==
  ASSUME Inductive, NEW c \in Calls, CallStep(c)
  PROVE  /\ RowsMove /\ NewRowsAreTrue /\ Progress
         /\ UNCHANGED <<due, files>> /\ faults' \in 0..MaxFaults
<1>1. TypeOK /\ Tables /\ files \in Nat /\ faults \in 0..MaxFaults /\ MaxFaults \in Nat
  BY PlaneAssumption DEF Inductive, Tables, LogIsSound, TypeOK
<1>2. UNCHANGED <<due, files>> /\ faults' \in 0..MaxFaults
  <2>1. UNCHANGED <<due, files>> /\ (faults' = faults \/ Faulty)
    <3>1. CASE Step(c)
      BY <3>1 DEF Step, Claim, StartExecution, CleanUp, ReplayProposal,
        RecordAttestation, CommitProposal, LookAgain, MarkTerminal, ReplayResult,
        RequestSnapshot, TakeSnapshot, Finalize, LookForResult
    <3>2. CASE Begin(c) \/ Fails(c) \/ LosesAnswer(c) \/ Dies(c)
      BY <3>2 DEF Begin, Fails, LosesAnswer, Dies
    <3> QED
      BY <3>1, <3>2 DEF CallStep
  <2>2. Faulty => faults' \in 0..MaxFaults
    BY <1>1 DEF Faulty
  <2> QED
    BY <1>1, <2>1, <2>2
<1>3. UNCHANGED rows \/ Writes(c)
  <2>1. CASE Claim(c) \/ StartExecution(c) \/ CleanUp(c)
    BY <2>1 DEF Claim, StartExecution, CleanUp, Writes
  <2>2. CASE ReplayProposal(c) \/ RecordAttestation(c) \/ CommitProposal(c)
    BY <2>2 DEF ReplayProposal, RecordAttestation, CommitProposal, Writes
  <2>3. CASE LookAgain(c) \/ MarkTerminal(c) \/ Finalize(c)
    BY <2>3 DEF LookAgain, MarkTerminal, Finalize, Writes
  <2>4. CASE ReplayResult(c) \/ RequestSnapshot(c) \/ TakeSnapshot(c) \/ LookForResult(c)
    BY <2>4 DEF ReplayResult, RequestSnapshot, TakeSnapshot, LookForResult
  <2>5. CASE Begin(c) \/ Fails(c) \/ LosesAnswer(c) \/ Dies(c)
    BY <2>5 DEF Begin, Fails, LosesAnswer, Dies, Writes
  <2> QED
    BY <2>1, <2>2, <2>3, <2>4, <2>5 DEF CallStep, Step
<1>4. RowsMove /\ NewRowsAreTrue
  <2>1. CASE UNCHANGED rows
    BY <1>1, <2>1 DEF rows, RowsMove, Quiet, NewRowsAreTrue, TypeOK, Accounts
  <2> QED
    BY <1>3, <2>1, WritesMove
<1>5. Progress
  BY <1>1, <1>2, <1>4, MovesProgress
<1> QED
  BY <1>2, <1>4, <1>5

LEMMA CallStepTurns ==
  ASSUME Inductive, Progress, result' \in Results, NEW c \in Calls, CallStep(c)
  PROVE  CallTurns(c)
<1>1. CASE Step(c)
  BY <1>1, ClaimTurns, ProposalTurns, FinalTurns DEF Step
<1>2. CASE Begin(c)
  BY <1>2, BeginTurns
<1>3. CASE Fails(c) \/ LosesAnswer(c)
  <2>1. calls[c].pc # "idle" /\ Rescue(c, calls[c].pc)
    BY <1>3 DEF Fails, LosesAnswer
  <2> QED
    BY <2>1, CallRescued
<1>4. CASE Dies(c)
  <2>1. Answers(c, "none") /\ "none" \in AnswerSet \ {"finished"}
    BY <1>4 DEF Dies, AnswerSet
  <2> QED
    BY <2>1, CallAnswers
<1> QED
  BY <1>1, <1>2, <1>3, <1>4 DEF CallStep

\* One step, of a call or around them.
LEMMA StepFacts ==
  ASSUME Inductive, [Next]_vars
  PROVE  /\ RowsMove /\ Progress /\ Inductive'
         /\ files' \in 0..MaxWrites
<1>1. /\ TypeOK /\ Tables /\ CallsAgree /\ CommandsAreTrue /\ files \in Nat
      /\ files <= MaxWrites /\ MaxWrites \in Nat
  BY PlaneAssumption DEF Inductive, Tables, LogIsSound, TypeOK, BodiesFit
<1>2. Len(log) \in Nat
  BY <1>1, LogFacts
<1>3. ASSUME RowsMove, NewRowsAreTrue, Progress, Tables'
      PROVE  CommandsAreTrue' /\ Len(log') \in Nat
  <2>1. Len(log') \in Nat
    BY <1>3 DEF Tables, LogIsSound, TypeOK
  <2> QED
    BY <1>1, <1>2, <1>3, <2>1, CommandsKeep
<1>4. ASSUME NEW c \in Calls, CallStep(c)
      PROVE  RowsMove /\ Progress /\ Inductive' /\ files' \in 0..MaxWrites
  <2>1. /\ RowsMove /\ NewRowsAreTrue /\ Progress
        /\ UNCHANGED <<due, files>> /\ faults' \in 0..MaxFaults
    BY <1>4, CallStepMoves
  <2>2. result' \in Results
    BY <1>1, <2>1, ResultKeeps
  <2>3. CallTurns(c)
    BY <1>4, <2>1, <2>2, CallStepTurns
  <2>4. Tables'
    BY <1>1, <2>1, <2>3, TablesKeep DEF CallTurns, TypeOK
  <2>5. CommandsAreTrue' /\ Len(log') \in Nat
    BY <1>3, <2>1, <2>4
  <2>6. ASSUME NEW d \in Calls PROVE CallAgrees(d)' /\ AnswerIsTrue(d)'
    <3>1. CASE d = c
      BY <2>3, <3>1 DEF CallTurns
    <3>2. CASE d # c
      <4>1. calls'[d] = calls[d] /\ CallAgrees(d) /\ AnswerIsTrue(d)
        BY <1>1, <2>3, <3>2 DEF CallTurns, CallsAgree
      <4> QED
        BY <1>1, <2>1, <2>5, <4>1, CallKeeps
    <3> QED
      BY <3>1, <3>2
  <2> QED
    BY <1>1, <2>1, <2>4, <2>5, <2>6 DEF Inductive, CallsAgree
<1>5. ASSUME RowsMove, UNCHANGED <<calls, commands, faults>>, due' \in BOOLEAN,
             files' \in Nat, files <= files', files' <= MaxWrites
      PROVE  RowsMove /\ Progress /\ Inductive' /\ files' \in 0..MaxWrites
  <2>1. Progress
    BY <1>1, <1>5, MovesProgress
  <2>2. NewRowsAreTrue
    BY <1>5 DEF NewRowsAreTrue
  <2>3. Tables'
    BY <1>1, <1>5, CallTypes, TablesKeep DEF TypeOK
  <2>4. CommandsAreTrue' /\ Len(log') \in Nat
    BY <1>3, <1>5, <2>1, <2>2, <2>3
  <2>5. ASSUME NEW d \in Calls PROVE CallAgrees(d)' /\ AnswerIsTrue(d)'
    <3>1. calls'[d] = calls[d] /\ CallAgrees(d) /\ AnswerIsTrue(d)
      BY <1>1, <1>5 DEF CallsAgree
    <3> QED
      BY <1>1, <2>1, <2>4, <3>1, CallKeeps
  <2> QED
    BY <1>1, <1>5, <2>1, <2>3, <2>4, <2>5 DEF Inductive, CallsAgree
<1>6. CASE Around
  BY <1>1, <1>5, <1>6, AroundMoves
<1>7. CASE UNCHANGED vars
  <2>1. RowsMove /\ UNCHANGED <<calls, commands, faults, due, files>>
    BY <1>1, <1>7 DEF vars, rows, RowsMove, Quiet, TypeOK, Accounts
  <2> QED
    BY <1>1, <1>5, <2>1 DEF TypeOK
<1> QED
  BY <1>4, <1>6, <1>7 DEF Next, CallStep

LEMMA InitInductive == Init => Inductive
<1> SUFFICES ASSUME Init PROVE Inductive
  OBVIOUS
<1>1. /\ MaxEvents \in Nat \ {0} /\ MaxWrites \in Nat /\ MaxFaults \in Nat
      /\ Started \in BOOLEAN
  BY PlaneAssumption
<1>2. /\ log = <<>> /\ result = NoResult /\ consumed = {} /\ usage = {} /\ commands = {}
      /\ files = 0 /\ faults = 0 /\ due = FALSE
      /\ task \in {"leased", "free"} /\ stage \in {"prepared", "none"}
      /\ attested = [n \in 1..MaxEvents |-> None]
      /\ account = [reserved |-> FALSE, blocked |-> FALSE]
      /\ calls = [c \in Calls |-> Waiting]
  BY <1>1 DEF Init
<1>3. NoResult \in Results /\ Waiting \in CallSet
  <2>1. NoEvent \in Events
    BY <1>1 DEF NoEvent, Events
  <2>2. NoResult \in Results
    BY DEF NoResult, Results
  <2> QED
    BY <2>1, <2>2 DEF Waiting, CallSet, Steps, AnswerSet
<1>4. TypeOK
  <2>1. calls \in [Calls -> CallSet]
    BY <1>2, <1>3
  <2>2. attested \in [1..MaxEvents -> Nat \cup {None}]
    BY <1>2
  <2>3. task \in Statuses /\ stage \in {"none"} \cup Working
    BY <1>2 DEF Statuses, Working
  <2>4. log \in Seq(Entries) /\ account \in [reserved : BOOLEAN, blocked : BOOLEAN]
    BY <1>2
  <2>5. consumed \subseteq 1..MaxEvents /\ usage \subseteq ProviderCalls
    BY <1>2
  <2>6. due \in BOOLEAN /\ result \in Results
    BY <1>2, <1>3
  <2>7. files \in Nat /\ faults \in 0..MaxFaults
    BY <1>1, <1>2
  <2> QED
    BY <2>1, <2>2, <2>3, <2>4, <2>5, <2>6, <2>7 DEF TypeOK, CallSet
<1>5. LogIsSound
  BY <1>1, <1>2, <1>4 DEF LogIsSound
<1>6. BodiesFit /\ ResultEndsRun /\ SnapshotIsNewest
  BY <1>1, <1>2 DEF BodiesFit, ResultEndsRun, SnapshotIsNewest, NoResult
<1>7. ResultIsTheLog
  <2>1. stage \notin Finished
    BY <1>2 DEF Finished
  <2> QED
    BY <1>2, <2>1 DEF ResultIsTheLog
<1>8. CommandsAreTrue
  BY <1>2 DEF CommandsAreTrue
<1>9. ASSUME NEW c \in Calls PROVE CallAgrees(c) /\ AnswerIsTrue(c)
  <2>1. /\ calls[c].pc = "idle" /\ calls[c].seen = 0 /\ calls[c].answer = "none"
        /\ calls[c].given = NoResult
    BY <1>2 DEF Waiting
  <2> QED
    BY <1>2, <2>1 DEF CallAgrees, AnswerIsTrue, InProposal, InFinal
<1> QED
  BY <1>5, <1>6, <1>7, <1>8, <1>9 DEF Inductive, Tables, CallsAgree

LEMMA PlaneInvariant == Spec => []Inductive
<1>1. Inductive /\ [Next]_vars => Inductive'
  BY StepFacts
<1> QED
  BY <1>1, InitInductive, PTL DEF Spec

---------------------------------------------------------------------------
(* What holds in every reachable state                                     *)

\* The log is what execution_propose and the attestations were meant to keep
\* (015_execution_canonical_persistence.sql), however calls interleave: at most
\* max_events proposals, a terminal one only at the end, every artifact with
\* the attestation it consumed, none left behind but by priced usage.
THEOREM LogStaysSound == Spec => []LogIsSound
<1>1. Inductive => LogIsSound
  BY DEF Inductive, Tables
<1> QED
  BY <1>1, PlaneInvariant, PTL

\* A row of workspace_results is the result of the whole run: of the complete
\* log up to the terminal proposal, with the stage of the manifest and all usage
\* accounted for. The task is in the state execution_finalize_commit left it in
\* or in one that cancel, a deadline or a later claim took it to from there
\* (_terminalize_task, _terminalize_expired_unleased_task); a completed run
\* stays ready for a human.
THEOREM ResultsStandForTheLog == Spec => []ResultIsTheLog
<1>1. Inductive => ResultIsTheLog
  BY DEF Inductive, Tables
<1> QED
  BY <1>1, PlaneInvariant, PTL

\* The snapshot a finalization files was read after the last artifact had been
\* attested, although the broker reads the workspace outside of any transaction
\* and the agent may still be writing.
THEOREM SnapshotsAreNewest == Spec => []SnapshotIsNewest
<1>1. Inductive => SnapshotIsNewest
  BY DEF Inductive, Tables
<1> QED
  BY <1>1, PlaneInvariant, PTL

\* What the service answered stays true, also when the answer is that of a
\* replay, of a rescue after an error, or of another call that came first.
THEOREM AnswersStayTrue == Spec => []AnswersAreTrue
<1>1. Inductive => AnswersAreTrue
  BY DEF Inductive, CallsAgree, AnswerIsTrue, AnswersAreTrue
<1> QED
  BY <1>1, PlaneInvariant, PTL

\* What _command_replay goes by when a command comes again is true of the
\* tables: it may answer from the row without looking at them.
THEOREM CommandsStayTrue == Spec => []CommandsAreTrue
<1>1. Inductive => CommandsAreTrue
  BY DEF Inductive
<1> QED
  BY <1>1, PlaneInvariant, PTL

---------------------------------------------------------------------------
(* What no step does                                                       *)

\* A sequence that has grown at its end begins with what it was.
LEMMA PrefixKept ==
  ASSUME NEW S, NEW s \in Seq(S), NEW t \in Seq(S), Len(s) <= Len(t),
         \A n \in 1..Len(s) : t[n] = s[n]
  PROVE  SubSeq(t, 1, Len(s)) = s
<1>1. Len(s) \in Nat /\ Len(t) \in Nat
  OBVIOUS
<1>2. SubSeq(t, 1, Len(s)) = [n \in 1..Len(s) |-> t[n]]
  BY <1>1
<1>3. s = [n \in 1..Len(s) |-> s[n]]
  OBVIOUS
<1> QED
  BY <1>2, <1>3

\* No interleaving of calls, failures and deaths takes evidence away: proposals
\* are appended until one closes the log, attestations and results are never
\* replaced, and an execution that has ended gets none of them any more.
THEOREM EvidenceIsNeverLost == Spec => EvidenceIsKept
<1> DEFINE Kept ==
      /\ SubSeq(log', 1, Len(log)) = log
      /\ Closed => log' = log
      /\ stage \notin Working => UNCHANGED <<log, attested, result>>
      /\ \A n \in 1..MaxEvents : attested[n] # None => attested'[n] = attested[n]
<1>1. ASSUME Inductive, [Next]_vars PROVE Kept
  <2>1. RowsMove /\ Progress /\ Inductive'
    BY <1>1, StepFacts
  <2>2. /\ log \in Seq(Entries) /\ log' \in Seq(Entries)
        /\ attested \in [1..MaxEvents -> Nat \cup {None}]
        /\ TypeOK /\ LogIsSound
    BY <1>1, <2>1 DEF Inductive, Tables, LogIsSound, TypeOK
  <2>3. SubSeq(log', 1, Len(log)) = log
    BY <2>1, <2>2, PrefixKept DEF Progress
  <2>4. Closed => log' = log
    BY <2>1 DEF Progress
  <2>5. stage \notin Working => UNCHANGED <<log, attested, result>>
    <3>1. ASSUME NEW e \in Events, EventFits(e), AttestsAt(e) \/ PlacesAt(e)
          PROVE  stage \in Working
      BY <3>1 DEF AttestsAt, PlacesAt, CanPropose, NextPlace, Active
    <3>2. ASSUME NEW c \in Calls, SealsBy(c) PROVE stage \in Working
      BY <3>2 DEF SealsBy, CanSeal, FinalizeContext, Active
    <3> QED
      BY <2>1, <3>1, <3>2 DEF RowsMove, Quiet
  <2>6. ASSUME NEW n \in 1..MaxEvents, attested[n] # None PROVE attested'[n] = attested[n]
    <3>1. ASSUME NEW e \in Events, AttestsAt(e) PROVE attested'[n] = attested[n]
      <4>1. n # e.seq /\ attested' = [attested EXCEPT ![e.seq] = e.body]
        BY <2>6, <3>1 DEF AttestsAt
      <4> QED
        BY <2>2, <4>1
    <3> QED
      BY <2>1, <3>1 DEF RowsMove, Quiet, PlacesAt, SealsBy
  <2> QED
    BY <2>3, <2>4, <2>5, <2>6
<1>2. Inductive /\ [Next]_vars => [Kept]_vars
  BY <1>1
<1>3. Spec => [][Kept]_vars
  BY <1>2, PlaneInvariant, PTL DEF Spec
<1>4. EvidenceIsKept <=> [][Kept]_vars
  BY DEF EvidenceIsKept
<1> QED
  BY <1>3, <1>4, PTL

---------------------------------------------------------------------------
(* The calls keep the contract of SealedLog                                *)

LogEntries == [kind : PlaceKinds, body : 0..MaxWrites \cup ProviderCalls]
LogFates == [stage : Finished, status : Statuses, snapshot : 0..MaxWrites]
Told == [c \in Calls |-> Filed(calls[c].given)]

\* A call has been given the result there is, or none.
LEMMA GivenIsResult ==
  ASSUME Inductive, NEW c \in Calls
  PROVE  calls[c].given = result \/ calls[c].given = NoResult
BY DEF Inductive, CallsAgree, CallAgrees, AnswerIsTrue

\* A result is filed under a log that is not empty, which none is not.
LEMMA FiledResult ==
  ASSUME Tables, result # NoResult
  PROVE  Filed(result) # Filed(NoResult)
<1>1. result.log # <<>>
  BY ResultFacts DEF Tables, ResultIsTheLog
<1>2. Filed(result).log # Filed(NoResult).log
  BY <1>1 DEF Filed, NoResult
<1> QED
  BY <1>2

LEMMA ClosedIsClosed ==
  ASSUME Tables
  PROVE  Contract!IsClosed <=> Closed
<1>1. TypeOK /\ BodiesFit
  BY DEF Tables, LogIsSound
<1>2. ASSUME log # <<>>
      PROVE  log[Len(log)] \in [kind : Terminals, body : {0}] <=> IsTerminal(log[Len(log)].kind)
  <2>1. Len(log) \in 1..Len(log) /\ log[Len(log)] \in Entries
    BY <1>1, <1>2, LogFacts
  <2>2. log[Len(log)].kind \in Terminals => log[Len(log)].body = 0
    BY <1>1, <2>1 DEF BodiesFit, BodyFits
  <2> QED
    BY <2>1, <2>2 DEF Entries, IsTerminal
<1> QED
  BY <1>2 DEF Contract!IsClosed, Closed

LEMMA EntryFits ==
  ASSUME NEW e \in Events, EventFits(e), files \in Nat, files <= MaxWrites
  PROVE  Proposal(e) \in LogEntries
<1>1. /\ e.kind = "note" => e.body = 0
      /\ e.kind \in Terminals => e.body = 0
      /\ e.kind = "artifact" => e.body \in 0..files
      /\ e.kind \in UsageKinds => e.body \in ProviderCalls
      /\ e.kind \in PlaceKinds
  BY DEF EventFits, BodyFits
<1>2. MaxWrites \in Nat /\ 0 \in 0..MaxWrites
  BY PlaneAssumption
<1>3. 0..files \subseteq 0..MaxWrites
  BY <1>2
<1>4. \/ e.kind = "note" \/ e.kind \in Terminals \/ e.kind = "artifact"
      \/ e.kind \in UsageKinds
  BY <1>1 DEF PlaceKinds, Proposals
<1>5. e.body \in 0..MaxWrites \cup ProviderCalls
  <2>1. CASE e.kind = "note" \/ e.kind \in Terminals
    BY <1>1, <1>2, <2>1
  <2>2. CASE e.kind = "artifact"
    BY <1>1, <1>3, <2>2
  <2>3. CASE e.kind \in UsageKinds
    BY <1>1, <2>3
  <2> QED
    BY <1>4, <2>1, <2>2, <2>3
<1> QED
  BY <1>1, <1>5 DEF Proposal, LogEntries

\* One step, of one call at most.
LEMMA OneCallSteps ==
  ASSUME Inductive, [Next]_vars
  PROVE  \/ calls' = calls
         \/ \E c \in Calls : \A d \in Calls : d # c => calls'[d] = calls[d]
<1>1. ASSUME NEW c \in Calls, CallStep(c)
      PROVE  \A d \in Calls : d # c => calls'[d] = calls[d]
  <2>1. Progress /\ result' \in Results
    BY <1>1, StepFacts DEF Inductive, Tables, LogIsSound, TypeOK
  <2> QED
    BY <1>1, <2>1, CallStepTurns DEF CallTurns
<1>2. Around => calls' = calls
  BY AroundMoves DEF Inductive, Tables, LogIsSound, BodiesFit
<1> QED
  BY <1>1, <1>2 DEF Next, CallStep, vars

\* Nothing is written and nothing sealed: a call is told the result, or starts.
LEMMA TellOrForget ==
  ASSUME Inductive, Inductive', [Next]_vars, UNCHANGED <<log, result>>
  PROVE  [Contract!Next]_(Contract!vars)
<1>1. CASE calls' = calls
  BY <1>1 DEF Contract!vars
<1>2. ASSUME NEW c \in Calls, \A d \in Calls : d # c => calls'[d] = calls[d]
      PROVE  Contract!Tell(c) \/ Contract!Forget(c)
  <2>1. Told' = [Told EXCEPT ![c] = Filed(calls'[c].given)]
    BY <1>2 DEF Told
  <2>2. calls'[c].given = result \/ calls'[c].given = NoResult
    BY DEF Inductive, CallsAgree, CallAgrees, AnswerIsTrue, NoResult
  <2>3. CASE calls'[c].given = NoResult
    BY <2>1, <2>3 DEF Contract!Forget, Told
  <2>4. CASE calls'[c].given = result /\ result # NoResult
    BY <2>1, <2>4, FiledResult DEF Contract!Tell, Told, Inductive
  <2> QED
    BY <2>2, <2>3, <2>4
<1> QED
  BY <1>1, <1>2, OneCallSteps DEF Contract!Next

\* A proposal in the next place is a write; nobody has a result to show yet.
LEMMA PlaceIsWrite ==
  ASSUME Inductive, Inductive', [Next]_vars,
         NEW e \in Events, EventFits(e), PlacesAt(e)
  PROVE  Contract!Write
<1>1. Tables /\ TypeOK /\ files \in Nat /\ files <= MaxWrites
  BY DEF Inductive, Tables, LogIsSound, TypeOK, BodiesFit
<1>2. ~Closed /\ Active /\ log' = Append(log, Proposal(e)) /\ result' = result
  BY DEF PlacesAt, Places, CanPropose, NextPlace
<1>3. result = NoResult
  BY <1>1, <1>2, ResultFacts
<1>4. Proposal(e) \in LogEntries
  BY <1>1, EntryFits
<1>5. Told' = Told
  <2>1. ASSUME NEW c \in Calls PROVE calls'[c].given = calls[c].given
    <3>1. calls[c].given = NoResult
      BY <1>3, GivenIsResult
    <3>2. calls'[c].given = NoResult
      BY <1>2, <1>3 DEF Inductive, CallsAgree, CallAgrees, AnswerIsTrue, NoResult
    <3> QED
      BY <3>1, <3>2
  <2> QED
    BY <2>1 DEF Told
<1>6. ~Contract!IsClosed
  BY <1>1, <1>2, ClosedIsClosed
<1> QED
  BY <1>2, <1>3, <1>4, <1>5, <1>6 DEF Contract!Write, Told, LogEntries

\* The finalization that commits seals the log, with all of it and a fate; its
\* own call is told so, or has lost the answer, and no other call knows yet.
LEMMA SealIsSeal ==
  ASSUME Inductive, Inductive', [Next]_vars, NEW s \in Calls, SealsBy(s)
  PROVE  Contract!Seal
<1>1. Tables /\ Tables' /\ TypeOK /\ TypeOK'
  BY DEF Inductive, Tables, LogIsSound
<1>2. /\ Closed /\ result = NoResult /\ log' = log
      /\ result' = [stage |-> stage', status |-> task', log |-> log,
                    snapshot |-> calls[s].seen]
  BY DEF SealsBy, CanSeal, FinalizeContext, Seals
<1> DEFINE fate == [stage |-> stage', status |-> task', snapshot |-> calls[s].seen]
<1>3. fate \in LogFates
  <2>1. stage' \in Finished
    BY DEF SealsBy, Seals, EndStage, Finished
  <2>2. task' \in Statuses
    BY <1>1 DEF TypeOK
  <2>3. calls[s].seen \in Nat /\ calls[s].seen <= files
    BY <1>1, CallTypes DEF Inductive, CallsAgree, CallAgrees, CallSet
  <2>4. files \in Nat /\ files <= MaxWrites /\ MaxWrites \in Nat
    BY <1>1, PlaneAssumption DEF TypeOK, Tables, BodiesFit
  <2>5. calls[s].seen \in 0..MaxWrites
    BY <2>3, <2>4
  <2> QED
    BY <2>1, <2>2, <2>5 DEF LogFates
<1>4. Filed(result)' = [log |-> log, fate |-> fate]
  BY <1>2 DEF Filed
<1>5. Told' = Told \/ \E c \in Calls : Told' = [Told EXCEPT ![c] = Filed(result)']
  <2>1. CASE calls' = calls
    BY <2>1 DEF Told
  <2>2. ASSUME NEW c \in Calls, \A d \in Calls : d # c => calls'[d] = calls[d]
        PROVE  Told' = Told \/ Told' = [Told EXCEPT ![c] = Filed(result)']
    <3>1. Told' = [Told EXCEPT ![c] = Filed(calls'[c].given)]
      BY <2>2 DEF Told
    <3>2. calls'[c].given = result' \/ calls'[c].given = NoResult
      BY DEF Inductive, CallsAgree, CallAgrees, AnswerIsTrue, NoResult
    <3>3. calls[c].given = NoResult
      BY <1>2, GivenIsResult
    <3>4. CASE calls'[c].given = NoResult
      BY <3>1, <3>3, <3>4 DEF Told
    <3>5. CASE calls'[c].given = result'
      BY <3>1, <3>5 DEF Filed
    <3> QED
      BY <3>2, <3>4, <3>5
  <2> QED
    BY <2>1, <2>2, OneCallSteps
<1>6. Contract!IsClosed
  BY <1>1, <1>2, ClosedIsClosed
<1> HIDE DEF fate
<1>7. \E f \in LogFates : Filed(result)' = [log |-> log, fate |-> f]
  BY <1>3, <1>4
<1> QED
  BY <1>2, <1>5, <1>6, <1>7 DEF Contract!Seal, Told, LogFates

\* The worker, its retries and the services behind it are one client of a log
\* that is sealed once, as a whole, with one outcome for everyone who asks:
\* every step of the transactions is a step of SealedLog or none at all.
THEOREM PlaneImplementsLog == Spec => ImplementsContract
<1>1. Init => Contract!Init
  BY DEF Init, Contract!Init, Waiting, Filed
<1>2. ASSUME Inductive, Inductive', [Next]_vars
      PROVE  [Contract!Next]_(Contract!vars)
  <2>1. RowsMove
    BY <1>2, StepFacts
  <2>2. CASE UNCHANGED <<log, result>>
    BY <1>2, <2>2, TellOrForget
  <2>3. ASSUME NEW e \in Events, EventFits(e), PlacesAt(e) PROVE Contract!Next
    BY <1>2, <2>3, PlaceIsWrite DEF Contract!Next
  <2>4. ASSUME NEW c \in Calls, SealsBy(c) PROVE Contract!Next
    BY <1>2, <2>4, SealIsSeal DEF Contract!Next
  <2> QED
    BY <2>1, <2>2, <2>3, <2>4 DEF RowsMove, Quiet, AttestsAt
<1> QED
  BY <1>1, <1>2, PlaneInvariant, PTL DEF Spec, ImplementsContract, Contract!Spec
=============================================================================
