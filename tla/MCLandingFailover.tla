------------------------- MODULE MCLandingFailover --------------------------
(***************************************************************************)
(* LandingFailover with a clock that is set back at most once, and a record *)
(* of whether it was: what the client promises of its input and of its end  *)
(* needs a clock that advances, the rest does not.                          *)
(***************************************************************************)
EXTENDS LandingFailover

VARIABLE setBack   \* the clock was set back

MCInit == Init /\ setBack = FALSE

MCNext ==
  /\ Next
  /\ now' < now => ~setBack            \* bound
  /\ setBack' = (setBack \/ now' < now)

MCSpec == MCInit /\ [][MCNext]_<<vars, setBack>> /\ Fairness

\* Unless the clock was set back, the input of a job that must go on is there:
\* the payload is only purged when no outcome needs it (resume, landing_failover.py).
InputKeptInOrder == ~setBack => InputKept
=============================================================================
