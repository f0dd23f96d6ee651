------------------------ MODULE EvidenceRegimesProofs -----------------------
(***************************************************************************)
(* The properties of the run over both regimes of evidence, proved for any *)
(* number of uploads, purges, holds and attempts.  In a hurry, the         *)
(* theorems of EvidenceProofs are those of its instance HurriedProofs.     *)
(***************************************************************************)
EXTENDS MCEvidenceRegimes, EvidenceProofs

HurriedProofs ==
    INSTANCE EvidenceProofs
    WITH Hashes <- HurriedHashes, HoldIds <- HurriedHolds,
         Purgers <- HurriedPurgers, Operator <- HurriedOperator,
         MaxAttempts <- 1, Overlap <- TRUE,
         UploadEvents <- {"crash", "storage"}, Events <- {"overtaken"}

\* What the theorems of the instance assume of its constants holds.
LEMMA HurriedConstants ==
    /\ TRUE \in BOOLEAN /\ {"crash", "storage"} \subseteq HurriedProofs!AllUploadEvents
    /\ HurriedProofs!IsFiniteSet(Evidence) /\ "none" \notin Evidence
    /\ Jobs = Evidence /\ 1 \in Nat \ {0}
    /\ {"overtaken"} \subseteq HurriedProofs!AllEvents
    /\ HurriedProofs!IsFiniteSet(HurriedPurgers) /\ HurriedProofs!IsFiniteSet(HurriedHolds)
<1>1. ASSUME NEW S PROVE HurriedProofs!IsFiniteSet(S) <=> IsFiniteSet(S)
  BY DEF HurriedProofs!IsFiniteSet, IsFiniteSet
<1> QED
  BY <1>1, UploadAssumption, NamesAssumption, JobsAssumption, HurriedAssumption
     DEF HurriedProofs!AllUploadEvents, HurriedProofs!AllEvents

\* It counts as the run's instance does.
LEMMA SameCardinality ==
    ASSUME NEW S PROVE Hurried!Cardinality(S) = HurriedProofs!Cardinality(S)
BY DEF Hurried!Cardinality, HurriedProofs!Cardinality

\* It is an instance of the same specification as the run's, action by action.
LEMMA SameSteps == Hurried!Next => HurriedProofs!Next
<1>0. Hurried!Preview = HurriedProofs!Preview
  BY DEF Hurried!Preview, HurriedProofs!Preview, Hurried!Eligible, HurriedProofs!Eligible,
     Hurried!OnHold, HurriedProofs!OnHold, Hurried!Live, HurriedProofs!Live
<1>1. ASSUME NEW e, NEW h, NEW a
      PROVE  Hurried!PrepareNew(e, h, a) => HurriedProofs!PrepareNew(e, h, a)
  BY Zenon DEF Hurried!PrepareNew, HurriedProofs!PrepareNew, Hurried!Prepare,
     HurriedProofs!Prepare, Hurried!NotADuplicate, HurriedProofs!NotADuplicate,
     Hurried!Live, HurriedProofs!Live, Hurried!UnderWay, HurriedProofs!UnderWay,
     Hurried!None, HurriedProofs!None
<1>2. ASSUME NEW e, NEW h, NEW r
      PROVE  Hurried!PrepareReplacement(e, h, r) => HurriedProofs!PrepareReplacement(e, h, r)
  BY Zenon DEF Hurried!PrepareReplacement, HurriedProofs!PrepareReplacement,
     Hurried!Prepare, HurriedProofs!Prepare, Hurried!Root, HurriedProofs!Root,
     Hurried!NextVersion, HurriedProofs!NextVersion, Hurried!Versions,
     HurriedProofs!Versions, Hurried!Live, HurriedProofs!Live, Hurried!UnderWay,
     HurriedProofs!UnderWay, Hurried!None, HurriedProofs!None
<1>3. ASSUME NEW e PROVE Hurried!Put(e) => HurriedProofs!Put(e)
  BY Zenon DEF Hurried!Put, HurriedProofs!Put, Hurried!Goes, HurriedProofs!Goes
<1>4. ASSUME NEW e PROVE Hurried!PutFails(e) => HurriedProofs!PutFails(e)
  BY Zenon DEF Hurried!PutFails, HurriedProofs!PutFails, Hurried!Goes, HurriedProofs!Goes
<1>5. ASSUME NEW e PROVE Hurried!InsertFails(e) => HurriedProofs!InsertFails(e)
  BY Zenon DEF Hurried!InsertFails, HurriedProofs!InsertFails, Hurried!Goes,
     HurriedProofs!Goes
<1>6. ASSUME NEW e PROVE Hurried!Compensate(e) => HurriedProofs!Compensate(e)
  BY Zenon DEF Hurried!Compensate, HurriedProofs!Compensate, Hurried!Goes,
     HurriedProofs!Goes
<1>7. ASSUME NEW e PROVE Hurried!CompensateFails(e) => HurriedProofs!CompensateFails(e)
  BY Zenon DEF Hurried!CompensateFails, HurriedProofs!CompensateFails, Hurried!Goes,
     HurriedProofs!Goes
<1>8. ASSUME NEW e PROVE Hurried!UploaderDies(e) => HurriedProofs!UploaderDies(e)
  BY Zenon DEF Hurried!UploaderDies, HurriedProofs!UploaderDies, Hurried!UnderWay,
     HurriedProofs!UnderWay
<1>9. Hurried!CloseEngagement => HurriedProofs!CloseEngagement
  BY Zenon DEF Hurried!CloseEngagement, HurriedProofs!CloseEngagement
<1>10. ASSUME NEW e PROVE Hurried!InsertWithScan(e) => HurriedProofs!InsertWithScan(e)
  BY Zenon DEF Hurried!InsertWithScan, HurriedProofs!InsertWithScan, Hurried!Insert,
     HurriedProofs!Insert, Hurried!Goes, HurriedProofs!Goes, Hurried!Submit,
     HurriedProofs!Submit, Hurried!scanVars, HurriedProofs!scanVars
<1>11. ASSUME NEW e PROVE Hurried!Expire(e) => HurriedProofs!Expire(e)
  BY Zenon DEF Hurried!Expire, HurriedProofs!Expire, Hurried!Live, HurriedProofs!Live,
     Hurried!uploadVars, HurriedProofs!uploadVars, Hurried!jobVars, HurriedProofs!jobVars,
     Hurried!scanVars, HurriedProofs!scanVars
<1>12. ASSUME NEW h PROVE Hurried!ScanBegin(h) => HurriedProofs!ScanBegin(h)
  BY Zenon DEF Hurried!ScanBegin, HurriedProofs!ScanBegin, Hurried!Begin,
     HurriedProofs!Begin, Hurried!Move, HurriedProofs!Move, Hurried!Scan,
     HurriedProofs!Scan, Hurried!Live, HurriedProofs!Live, Hurried!uploadVars,
     HurriedProofs!uploadVars
<1>13. ASSUME NEW h PROVE Hurried!ScanSkipped(h) => HurriedProofs!ScanSkipped(h)
  BY Zenon DEF Hurried!ScanSkipped, HurriedProofs!ScanSkipped, Hurried!HandlerReturns,
     HurriedProofs!HandlerReturns, Hurried!Move, HurriedProofs!Move, Hurried!Scan,
     HurriedProofs!Scan, Hurried!uploadVars, HurriedProofs!uploadVars, Hurried!scanVars,
     HurriedProofs!scanVars
<1>14. ASSUME NEW h PROVE Hurried!ScanThrows(h) => HurriedProofs!ScanThrows(h)
  BY Zenon DEF Hurried!ScanThrows, HurriedProofs!ScanThrows, Hurried!HandlerThrows,
     HurriedProofs!HandlerThrows, Hurried!Move, HurriedProofs!Move, Hurried!Scan,
     HurriedProofs!Scan, Hurried!uploadVars, HurriedProofs!uploadVars
<1>15. ASSUME NEW h, NEW c PROVE Hurried!Verdict(h, c) => HurriedProofs!Verdict(h, c)
  BY Zenon DEF Hurried!Verdict, HurriedProofs!Verdict, Hurried!HandlerReturns,
     HurriedProofs!HandlerReturns, Hurried!Move, HurriedProofs!Move, Hurried!Scan,
     HurriedProofs!Scan, Hurried!uploadVars, HurriedProofs!uploadVars
<1>16. Hurried!QueueStep => HurriedProofs!QueueStep
  BY Zenon DEF Hurried!QueueStep, HurriedProofs!QueueStep, Hurried!LeaseOver,
     HurriedProofs!LeaseOver, Hurried!Claim, HurriedProofs!Claim, Hurried!GiveUp,
     HurriedProofs!GiveUp, Hurried!Complete, HurriedProofs!Complete, Hurried!CompleteThrows,
     HurriedProofs!CompleteThrows, Hurried!Fail, HurriedProofs!Fail, Hurried!SettleNewest,
     HurriedProofs!SettleNewest, Hurried!Newest, HurriedProofs!Newest, Hurried!Move,
     HurriedProofs!Move, Hurried!Hand, HurriedProofs!Hand, Hurried!uploadVars,
     HurriedProofs!uploadVars, Hurried!scanVars, HurriedProofs!scanVars
<1>17. Hurried!ScannerDies => HurriedProofs!ScannerDies
  BY Zenon DEF Hurried!ScannerDies, HurriedProofs!ScannerDies, Hurried!Lose,
     HurriedProofs!Lose, Hurried!Scan, HurriedProofs!Scan, Hurried!uploadVars,
     HurriedProofs!uploadVars
<1>18. ASSUME NEW h, NEW e
       PROVE  Hurried!CheckForHold(h, e) => HurriedProofs!CheckForHold(h, e)
  BY Zenon DEF Hurried!CheckForHold, HurriedProofs!CheckForHold, Hurried!Live,
     HurriedProofs!Live, Hurried!uploadVars, HurriedProofs!uploadVars, Hurried!jobVars,
     HurriedProofs!jobVars, Hurried!scanVars, HurriedProofs!scanVars
<1>19. ASSUME NEW h PROVE Hurried!PlaceHold(h) => HurriedProofs!PlaceHold(h)
  BY Zenon DEF Hurried!PlaceHold, HurriedProofs!PlaceHold, Hurried!Live, HurriedProofs!Live,
     Hurried!uploadVars, HurriedProofs!uploadVars, Hurried!jobVars, HurriedProofs!jobVars,
     Hurried!scanVars, HurriedProofs!scanVars
<1>20. ASSUME NEW h PROVE Hurried!ReleaseHold(h) => HurriedProofs!ReleaseHold(h)
  BY Zenon DEF Hurried!ReleaseHold, HurriedProofs!ReleaseHold, Hurried!uploadVars,
     HurriedProofs!uploadVars, Hurried!jobVars, HurriedProofs!jobVars, Hurried!scanVars,
     HurriedProofs!scanVars
<1>21. Hurried!Show => HurriedProofs!Show
  BY <1>0, SameCardinality DEF Hurried!Show, HurriedProofs!Show, Hurried!uploadVars,
     HurriedProofs!uploadVars, Hurried!jobVars, HurriedProofs!jobVars, Hurried!scanVars,
     HurriedProofs!scanVars
<1>22. ASSUME NEW p PROVE Hurried!StartPurge(p) => HurriedProofs!StartPurge(p)
  BY <1>0, SameCardinality DEF Hurried!StartPurge, HurriedProofs!StartPurge, Hurried!Confirmed,
     HurriedProofs!Confirmed, Hurried!uploadVars, HurriedProofs!uploadVars, Hurried!jobVars,
     HurriedProofs!jobVars, Hurried!scanVars, HurriedProofs!scanVars
<1>23. ASSUME NEW p, NEW e
       PROVE  Hurried!SelectForUpdate(p, e) => HurriedProofs!SelectForUpdate(p, e)
  BY Zenon DEF Hurried!SelectForUpdate, HurriedProofs!SelectForUpdate, Hurried!Eligible,
     HurriedProofs!Eligible, Hurried!OnHold, HurriedProofs!OnHold, Hurried!Live,
     HurriedProofs!Live, Hurried!None, HurriedProofs!None, Hurried!uploadVars,
     HurriedProofs!uploadVars, Hurried!jobVars, HurriedProofs!jobVars, Hurried!scanVars,
     HurriedProofs!scanVars
<1>24. ASSUME NEW p PROVE Hurried!Destroy(p) => HurriedProofs!Destroy(p)
  BY Zenon DEF Hurried!Destroy, HurriedProofs!Destroy, Hurried!Live, HurriedProofs!Live,
     Hurried!jobVars, HurriedProofs!jobVars, Hurried!scanVars, HurriedProofs!scanVars
<1>25. ASSUME NEW p PROVE Hurried!DestroyFails(p) => HurriedProofs!DestroyFails(p)
  BY Zenon DEF Hurried!DestroyFails, HurriedProofs!DestroyFails, Hurried!Live,
     HurriedProofs!Live, Hurried!None, HurriedProofs!None, Hurried!uploadVars,
     HurriedProofs!uploadVars, Hurried!jobVars, HurriedProofs!jobVars, Hurried!scanVars,
     HurriedProofs!scanVars
<1>26. ASSUME NEW p PROVE Hurried!DeleteObject(p) => HurriedProofs!DeleteObject(p)
  BY Zenon DEF Hurried!DeleteObject, HurriedProofs!DeleteObject, Hurried!None,
     HurriedProofs!None, Hurried!jobVars, HurriedProofs!jobVars, Hurried!scanVars,
     HurriedProofs!scanVars
<1>27. ASSUME NEW p PROVE Hurried!EndPurge(p) => HurriedProofs!EndPurge(p)
  BY Zenon DEF Hurried!EndPurge, HurriedProofs!EndPurge, Hurried!uploadVars,
     HurriedProofs!uploadVars, Hurried!jobVars, HurriedProofs!jobVars, Hurried!scanVars,
     HurriedProofs!scanVars
<1>28. ASSUME NEW p PROVE Hurried!PurgerDies(p) => HurriedProofs!PurgerDies(p)
  BY Zenon DEF Hurried!PurgerDies, HurriedProofs!PurgerDies, Hurried!None,
     HurriedProofs!None, Hurried!uploadVars, HurriedProofs!uploadVars, Hurried!jobVars,
     HurriedProofs!jobVars, Hurried!scanVars, HurriedProofs!scanVars
<1>29. ASSUME NEW e PROVE Hurried!UploadStep(e) => HurriedProofs!UploadStep(e)
  BY Zenon, <1>1, <1>2, <1>3, <1>4, <1>5, <1>6, <1>7, <1>8 DEF Hurried!UploadStep,
     HurriedProofs!UploadStep
<1>30. Hurried!Uploading => HurriedProofs!Uploading
  BY Zenon, <1>29, <1>9 DEF Hurried!Uploading, HurriedProofs!Uploading, Hurried!jobVars,
     HurriedProofs!jobVars, Hurried!scanVars, HurriedProofs!scanVars
<1>31. Hurried!Scanning => HurriedProofs!Scanning
  BY Zenon, <1>12, <1>13, <1>14, <1>15 DEF Hurried!Scanning, HurriedProofs!Scanning
<1>32. ASSUME NEW p PROVE Hurried!Purging(p) => HurriedProofs!Purging(p)
  BY Zenon, <1>22, <1>24, <1>25, <1>26, <1>27, <1>28, <1>23 DEF Hurried!Purging,
     HurriedProofs!Purging
<1> QED BY Zenon, <1>30, <1>10, <1>11, <1>31, <1>16, <1>17, <1>20, <1>18, <1>19, <1>24,
        <1>25, <1>21, <1>32
     DEF Hurried!Next, HurriedProofs!Next, Hurried!Free, HurriedProofs!Free,
     Hurried!InTransaction, HurriedProofs!InTransaction

\* It begins where the run's instance begins.
LEMMA SameStart == Hurried!Init => HurriedProofs!Init
BY DEF Hurried!Init, Hurried!UploadInit, Hurried!ContractInit, Hurried!NoRow,
       Hurried!NoUpload, Hurried!NoHold, Hurried!NoPurge, Hurried!None,
       HurriedProofs!Init, HurriedProofs!UploadInit, HurriedProofs!ContractInit,
       HurriedProofs!NoRow, HurriedProofs!NoUpload, HurriedProofs!NoHold,
       HurriedProofs!NoPurge, HurriedProofs!None

-----------------------------------------------------------------------------
regimeVars == <<vars, quiet>>

\* Each regime goes its own way.
LEMMA OwnWays ==
    ASSUME [RegimesNext]_regimeVars
    PROVE  /\ quiet' = quiet
           /\ quiet => [Next]_vars
           /\ ~quiet => [HurriedProofs!Next]_(HurriedProofs!vars)
<1>1. CASE UNCHANGED regimeVars
  BY <1>1 DEF regimeVars, vars, uploadVars, jobVars, scanVars, HurriedProofs!vars,
     HurriedProofs!uploadVars, HurriedProofs!jobVars, HurriedProofs!scanVars
<1>2. CASE RegimesNext
  BY Zenon, <1>2, SameSteps DEF RegimesNext
<1> QED BY <1>1, <1>2

RegimesInv ==
    /\ quiet \in BOOLEAN
    /\ quiet => CustodyInv
    /\ ~quiet => HurriedProofs!RetentionInv

\* Each regime begins in order.
LEMMA InitRegimes == RegimesInit => RegimesInv
BY InitCustody, SameStart, HurriedConstants, HurriedProofs!InitRetention
   DEF RegimesInit, RegimesInv

\* Each regime stays in order.
LEMMA RegimesKeep == RegimesInv /\ [RegimesNext]_regimeVars => RegimesInv'
BY OwnWays, CustodyKeeps, HurriedConstants, HurriedProofs!RetentionKeeps DEF RegimesInv

\* The invariant of the run: that of all of custody in the quiet regime, that of uploads,
\* purges and holds in the hurried one.
THEOREM RegimesInvariant == RegimesSpec => []RegimesInv
BY InitRegimes, RegimesKeep, PTL DEF RegimesSpec, regimeVars

\* In both regimes, evidence that can be listed can be downloaded.
THEOREM EvidenceHasObjectInBoth == RegimesSpec => []ActiveHasObject
<1>1. RegimesInv => ActiveHasObject
  BY DEF RegimesInv, CustodyInv, RetentionInv, UploadInv, Accounted, ActiveHasObject, Live,
     HurriedProofs!RetentionInv, HurriedProofs!UploadInv, HurriedProofs!Accounted
<1> QED BY <1>1, RegimesInvariant, PTL

\* Rows, uploads, scans and purges keep the types of their columns.
THEOREM QuietTypes == RegimesSpec => []QuietTypeOK
<1>1. RegimesInv => QuietTypeOK
  BY CustodyTypes DEF RegimesInv, QuietTypeOK
<1> QED BY <1>1, RegimesInvariant, PTL

\* In a hurry, a purge by hand destroys no more than the number confirmed, and a hold
\* placed before any purge had picked its row protects it.
THEOREM HurriedPurgesAreConfined == RegimesSpec => []HurriedPurgeIsConfined
<1>1. HurriedProofs!RetentionInv =>
          HurriedProofs!NoMoreThanConfirmed /\ HurriedProofs!TimelyHoldIsKept
  BY HurriedConstants, HurriedProofs!RetentionConfines
<1>2. RegimesInv => HurriedPurgeIsConfined
  BY <1>1 DEF RegimesInv, HurriedPurgeIsConfined,
     Hurried!NoMoreThanConfirmed, Hurried!TimelyHoldIsKept,
     HurriedProofs!NoMoreThanConfirmed, HurriedProofs!TimelyHoldIsKept
<1> QED BY <1>2, RegimesInvariant, PTL

\* With uploads one at a time, the versions of a piece of evidence differ, and the same
\* contents are filed twice only on request.
THEOREM QuietVersionsStayInOrder == ~Overlap => (RegimesSpec => []QuietVersionsInOrder)
<1> SUFFICES ASSUME ~Overlap PROVE RegimesSpec => []QuietVersionsInOrder
  OBVIOUS
<1> DEFINE Inv == RegimesInv /\ (quiet => SerialInv)
<1>1. RegimesInit => Inv
  BY InitRegimes, InitSerial DEF RegimesInit, Init
<1>2. Inv /\ [RegimesNext]_regimeVars => Inv'
  BY RegimesKeep, OwnWays, CustodyToStore, SerialKeeps DEF RegimesInv, CustodyInv
<1>3. Inv => QuietVersionsInOrder
  BY DEF SerialInv, QuietVersionsInOrder
<1> HIDE DEF Inv
<1> QED BY <1>1, <1>2, <1>3, PTL DEF RegimesSpec, regimeVars

\* When processes live and the store answers, no object is left over.
THEOREM QuietStoreMatches == Reliable => (RegimesSpec => []QuietStoreMatchesRows)
<1> SUFFICES ASSUME Reliable PROVE RegimesSpec => []QuietStoreMatchesRows
  OBVIOUS
<1> DEFINE Inv == RegimesInv /\ (quiet => TidyInv)
<1>1. RegimesInit => Inv
  BY InitRegimes, InitTidy DEF RegimesInit
<1>2. Inv /\ [RegimesNext]_regimeVars => Inv'
  BY RegimesKeep, OwnWays, TidyKeeps
<1>3. Inv => QuietStoreMatchesRows
  BY DEF TidyInv, QuietStoreMatchesRows
<1> HIDE DEF Inv
<1> QED BY <1>1, <1>2, <1>3, PTL DEF RegimesSpec, regimeVars

\* With leases that outlast the scans, only a later scan lifts a quarantine.
THEOREM QuietQuarantineHolds ==
    "lease" \notin Events => (RegimesSpec => QuietQuarantineIsSticky)
<1> SUFFICES ASSUME "lease" \notin Events PROVE RegimesSpec => QuietQuarantineIsSticky
  OBVIOUS
<1> DEFINE Inv == RegimesInv /\ (quiet => ScannedInTurn)
           F == quiet => \A e \in Evidence : infectedBy[e] # 0 /\ infectedBy'[e] = 0 =>
                    \E s \in scans \ scans' : s.job = e /\ s.attempt > infectedBy[e]
<1>1. RegimesInit => Inv
  BY InitRegimes, InitScanned DEF RegimesInit
<1>2. Inv /\ [RegimesNext]_regimeVars => Inv'
  BY RegimesKeep, OwnWays, ScannedKeeps
<1>3. Inv /\ [RegimesNext]_regimeVars => F
  BY OwnWays, ScannedKeeps
<1> HIDE DEF Inv, F
<1>4. Inv /\ [RegimesNext]_regimeVars => [F]_regimeVars
  BY <1>3
<1>5. RegimesSpec => [][F]_regimeVars
  BY <1>1, <1>2, <1>4, PTL DEF RegimesSpec, regimeVars
<1> QED BY <1>5 DEF F, QuietQuarantineIsSticky, regimeVars
=============================================================================
