----------------------------- MODULE SealedLog ------------------------------
(***************************************************************************)
(* What the execution plane promises about one run: entries are appended to *)
(* a log until one of them closes it; a closed log may be sealed, once, and *)
(* the outcome is that of the whole log; whoever is told an outcome is told *)
(* the sealed one, whichever of several requests was carried out.           *)
(***************************************************************************)
EXTENDS Sequences

CONSTANTS
  Entries,      \* what may be written
  Closing,      \* entries that close the log
  Fates,        \* how a sealed log may turn out
  Open,         \* the outcome of a log that is not sealed
  Requesters    \* who asks for the outcome

VARIABLES log, outcome, given
vars == <<log, outcome, given>>

Init == log = <<>> /\ outcome = Open /\ given = [r \in Requesters |-> Open]

IsClosed == log # <<>> /\ log[Len(log)] \in Closing

Write ==
  /\ ~IsClosed /\ outcome = Open
  /\ \E e \in Entries : log' = Append(log, e)
  /\ UNCHANGED <<outcome, given>>

\* the request that seals is told so, unless the answer is lost
Seal ==
  /\ IsClosed /\ outcome = Open
  /\ \E f \in Fates : outcome' = [log |-> log, fate |-> f]
  /\ \/ given' = given
     \/ \E r \in Requesters : given' = [given EXCEPT ![r] = outcome']
  /\ UNCHANGED log

Tell(r) ==
  /\ outcome # Open
  /\ given' = [given EXCEPT ![r] = outcome]
  /\ UNCHANGED <<log, outcome>>

Forget(r) ==
  /\ given' = [given EXCEPT ![r] = Open]
  /\ UNCHANGED <<log, outcome>>

Next == Write \/ Seal \/ \E r \in Requesters : Tell(r) \/ Forget(r)

Spec == Init /\ [][Next]_vars
=============================================================================
