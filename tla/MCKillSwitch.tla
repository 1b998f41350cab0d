---------------------------- MODULE MCKillSwitch ----------------------------
(***************************************************************************)
(* FactoryControl with a history of the grants made while a kill switch     *)
(* that covers the claim is on. claim reads the switches without a lock, so *)
(* a claim that passed the check before the switch was set still commits.   *)
(***************************************************************************)
EXTENDS MCFactoryControl

\* a switch that covers a request for these repositories is on
Covered(repos) == kill[Global] \/ \E p \in repos : kill[p]

VARIABLE late   \* grants each worker got under the present kill switches

Granted(w) ==
  /\ claiming[w] # Idle
  /\ claiming'[w] = Idle
  /\ lastFence' # lastFence

KillInit == Init /\ late = [w \in Workers |-> 0]

KillNext ==
  /\ Next
  /\ late' = [w \in Workers |->
                IF kill' # kill THEN 0
                ELSE IF Granted(w) /\ Covered(claiming[w].repos) THEN late[w] + 1
                ELSE late[w]]

KillSpec == KillInit /\ [][KillNext]_<<vars, late>> /\ Fairness

\* After a kill switch is set each worker can still get at most the one grant
\* whose claim had already read the switches (_is_killed, store.py), however
\* many tasks are queued and however many retries they have.
KillStopsNewGrants == \A w \in Workers : late[w] <= 1
=============================================================================
