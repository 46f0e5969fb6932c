-------------------------- MODULE MCVideoLifecycle --------------------------
(***************************************************************************)
(* Instances of VideoLifecycle for TLC.                                    *)
(***************************************************************************)
EXTENDS VideoLifecycle

CONSTANTS v1, v2, s1, s2, w1, alice, root

\* Both slots, or the only one, belong to one worker process.
OneWorker  == s1 :> w1
SameWorker == s1 :> w1 @@ s2 :> w1

\* The faults of each run.
NoFault   == [kind \in Fault |-> 0]
EachFault == [kind \in Fault |-> 1]
OneCrash  == [NoFault EXCEPT !["worker"] = 1]

\* Sound for ImplementsPromise too, which is a step property and treats all
\* videos alike; the liveness run does without.
Symmetry == Permutations(Video) \union Permutations(Slot)
=============================================================================
