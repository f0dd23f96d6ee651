------------------------- MODULE MCFindingWorkflow --------------------------
(* Small instances of FindingWorkflow.                                      *)
EXTENDS FindingWorkflow, TLC

FindingSymmetry ==
    Permutations(Requests) \cup
    {p \in Permutations(Members) :
        p[Author] = Author /\ \A m \in Members : m \in Overriders <=> p[m] \in Overriders}
=============================================================================
