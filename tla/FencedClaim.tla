----------------------------- MODULE FencedClaim -----------------------------
(***************************************************************************)
(* What the recovery queue promises about a clean-up job, without           *)
(* coordinators, pages, clocks or manifests: a job is worked on under a     *)
(* fence that only grows, a report counts only from the newest fence and    *)
(* only once, and a job that is done is never worked on again.              *)
(***************************************************************************)
EXTENDS Integers

CONSTANT Jobs

VARIABLES
  fence,   \* the newest fence of a job, 0 before the first claim
  open,    \* jobs whose newest claim has not been reported on
  done     \* jobs reported clean

vars == <<fence, open, done>>

Init ==
  /\ fence = [j \in Jobs |-> 0]
  /\ open = {}
  /\ done = {}

\* somebody takes the job, over the head of a holder that went silent
Take(j) ==
  /\ j \notin done
  /\ fence' = [fence EXCEPT ![j] = @ + 1]
  /\ open' = open \cup {j}
  /\ UNCHANGED done

\* the newest holder reports a failure, and the job may be taken again
Fail(j) ==
  /\ j \in open
  /\ open' = open \ {j}
  /\ UNCHANGED <<fence, done>>

\* the newest holder reports success
Finish(j) ==
  /\ j \in open
  /\ open' = open \ {j}
  /\ done' = done \cup {j}
  /\ UNCHANGED fence

Next == \E j \in Jobs : Take(j) \/ Fail(j) \/ Finish(j)

Spec == Init /\ [][Next]_vars
=============================================================================
