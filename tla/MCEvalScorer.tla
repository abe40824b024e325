---------------------------- MODULE MCEvalScorer ----------------------------
EXTENDS EvalScorer, TLC

CONSTANTS m1, m2, t1, t2, acme

\* Two traces of one tenant.
TwoMsgs   == {m1, m2}
TwoTraces == m1 :> t1 @@ m2 :> t2
OneTenant == [m \in Msgs |-> acme]

\* The replicas are interchangeable.
Symmetry == Permutations(Replicas)
=============================================================================
