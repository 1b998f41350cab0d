-------------------------- MODULE MCFactoryControl --------------------------
(***************************************************************************)
(* Instances of FactoryControl for TLC. The functions over Tasks and        *)
(* Sources that a configuration file cannot write are defined here.         *)
(***************************************************************************)
EXTENDS FactoryControl, TLC

\* one source: every intake supersedes the task before it
MCOneSource == [t \in Tasks |-> CHOOSE s \in Sources : TRUE]

\* a source for each task: nothing is superseded
MCOwnSource == CHOOSE f \in [Tasks -> Sources] :
                 \A t, u \in Tasks : f[t] = f[u] => t = u

MCOneRepo == [s \in Sources |-> CHOOSE p \in Repos : TRUE]

\* two sources share a repository, the others have one of their own
MCSharedRepo == CHOOSE f \in [Sources -> Repos] :
                  /\ {f[s] : s \in Sources} = Repos
                  /\ Cardinality({s \in Sources : f[s] = f[CHOOSE x \in Sources : TRUE]}) = 2

\* limits of the intake, the same for every task
MCZero  == [t \in Tasks |-> 0]
MCOne   == [t \in Tasks |-> 1]
MCTwo   == [t \in Tasks |-> 2]
MCThree == [t \in Tasks |-> 3]
MCFour  == [t \in Tasks |-> 4]
=============================================================================
