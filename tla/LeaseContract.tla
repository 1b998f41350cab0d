--------------------------- MODULE LeaseContract ----------------------------
(***************************************************************************)
(* What the control plane promises to a worker and to the operator, without *)
(* rows, counters, clocks or commands: a task is held by at most one run    *)
(* under a fence that only grows, at most so many runs of a role exist at   *)
(* once, and a task that is closed is never held again.                     *)
(***************************************************************************)
EXTENDS Integers, FiniteSets

CONSTANTS Tasks, MaxReaders, MaxWriters

VARIABLES
  holder,  \* the lease on a task: its role and fence, or Nobody
  fence,   \* the newest fence of a task
  closed   \* tasks that reached a terminal state

vars == <<holder, fence, closed>>

Nobody == [role |-> "none", fence |-> 0]

Held(role) == {t \in Tasks : holder[t].role = role}

Init ==
  /\ holder = [t \in Tasks |-> Nobody]
  /\ fence = [t \in Tasks |-> 0]
  /\ closed = {}

\* a worker is given the lease under a fence no earlier holder had
Grant(t, role) ==
  /\ t \notin closed
  /\ holder[t] = Nobody
  /\ role = "reader" => Cardinality(Held("reader")) < MaxReaders
  /\ role = "writer" => Cardinality(Held("writer")) < MaxWriters
  /\ fence' = [fence EXCEPT ![t] = @ + 1]
  /\ holder' = [holder EXCEPT ![t] = [role |-> role, fence |-> fence[t] + 1]]
  /\ UNCHANGED closed

\* the lease ends, by its holder or from outside, and the task may be granted
\* again
End(t) ==
  /\ holder[t] # Nobody
  /\ holder' = [holder EXCEPT ![t] = Nobody]
  /\ UNCHANGED <<fence, closed>>

\* the task is closed for ever, and its lease, if any, ends with it
Close(t) ==
  /\ t \notin closed
  /\ closed' = closed \cup {t}
  /\ holder' = [holder EXCEPT ![t] = Nobody]
  /\ UNCHANGED fence

Next ==
  \E t \in Tasks :
    \/ \E role \in {"reader", "writer"} : Grant(t, role)
    \/ End(t)
    \/ Close(t)

Spec == Init /\ [][Next]_vars
=============================================================================
