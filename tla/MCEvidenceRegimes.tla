------------------------- MODULE MCEvidenceRegimes --------------------------
(* EvidenceCustody in two regimes, checked in one run: the quiet one, where *)
(* uploads come one at a time and a nightly purge runs beside the scans,    *)
(* and the hurried one, where uploads, two purges and the placing of holds  *)
(* overtake each other, processes die and the store fails.                  *)
EXTENDS EvidenceCustody, TLC

CONSTANTS HurriedHashes, HurriedHolds, HurriedPurgers, HurriedOperator
ASSUME HurriedAssumption == IsFiniteSet(HurriedHolds) /\ IsFiniteSet(HurriedPurgers)

VARIABLE quiet

Hurried == INSTANCE EvidenceCustody
           WITH Hashes <- HurriedHashes, HoldIds <- HurriedHolds,
                Purgers <- HurriedPurgers, Operator <- HurriedOperator,
                MaxAttempts <- 1, Overlap <- TRUE,
                UploadEvents <- {"crash", "storage"}, Events <- {"overtaken"}

RegimesInit == (quiet = TRUE /\ Init) \/ (quiet = FALSE /\ Hurried!Init)
RegimesNext ==
    /\ (quiet /\ Next) \/ (~quiet /\ Hurried!Next)
    /\ UNCHANGED quiet
RegimesSpec == RegimesInit /\ [][RegimesNext]_<<vars, quiet>>

CustodySymmetry ==
    Permutations(Evidence) \cup Permutations(Hashes) \cup Permutations(HurriedHolds)

-----------------------------------------------------------------------------
\* Rows, uploads, scans and purges have the types of their columns.
QuietTypeOK == quiet => TypeOK

\* With uploads one at a time, the versions of a piece of evidence differ, and the
\* same contents are filed twice only on request.
QuietVersionsInOrder == quiet => VersionsDiffer /\ DuplicatesAreWanted

\* With a process that lives and a store that answers, no object is left over by a
\* failed upload or by a purge.
QuietStoreMatchesRows == quiet => NoOrphans /\ DestroyedIsGone

\* With leases that outlast the scans, only a later scan lifts a quarantine.
QuietQuarantineIsSticky ==
    [][quiet => \A e \in Evidence : infectedBy[e] # 0 /\ infectedBy'[e] = 0 =>
          \E s \in scans \ scans' : s.job = e /\ s.attempt > infectedBy[e]]_<<vars, quiet>>

\* In a hurry too, a purge by hand never destroys more than the number confirmed,
\* and a hold placed before any purge had picked its row protects it.
HurriedPurgeIsConfined ==
    ~quiet => Hurried!NoMoreThanConfirmed /\ Hurried!TimelyHoldIsKept
=============================================================================
