-------------------------- MODULE MCEvidenceCustody -------------------------
(* Small instances of EvidenceCustody.                                      *)
EXTENDS EvidenceCustody, TLC

CustodySymmetry ==
    Permutations(Evidence) \cup Permutations(Hashes) \cup Permutations(HoldIds)
=============================================================================
