--------------------------- MODULE EvidenceCustody --------------------------
(***************************************************************************)
(* What becomes of evidence after its upload: the malware scan, a job of   *)
(* the queue (scanEvidenceJob of src/server/services/evidence.ts, with a   *)
(* scanner configured), legal holds, and the destruction of what is past   *)
(* its retention date (src/server/services/retention.ts).                  *)
(*                                                                         *)
(* placeLegalHold is a check and an insertion, two statements.  The purge  *)
(* is a snapshot of what is eligible, then for each row one transaction    *)
(* and the deletion of the object.  "select ... for update" locks the row  *)
(* and, if it had to wait, looks at that row again but not at the holds:   *)
(* the holds are those of the statement's snapshot.                        *)
(***************************************************************************)
EXTENDS EvidenceUpload, JobContract

CONSTANTS
    HoldIds,        \* legal holds
    Purgers,        \* calls of purgeExpiredEvidence that may run side by side
    Operator,       \* the one of them that is confirmed by hand, or none
    Events          \* what else may happen, a subset of AllEvents

\* Purges and holds overtake each other, the queue is being worked on, leases run
\* out under live scans.
AllEvents == {"overtaken", "runner", "lease"}

\* One scan job per row, under the idempotency key "evidence.scan:<id>".
ASSUME JobsAssumption == Jobs = Evidence /\ MaxAttempts \in Nat \ {0}
ASSUME CustodyAssumption ==
    Events \subseteq AllEvents /\ IsFiniteSet(Purgers) /\ IsFiniteSet(HoldIds)

VARIABLES
    malware,    \* malware_scan_status of each row
    infectedBy, \* quarantined_at: the attempt that set it, 0 when null
    scans,      \* handlers that have read their row: job and attempt
    holds,      \* evidence_legal_holds; late is history, see PlaceHold
    expired,    \* rows past retention_until
    purges      \* calls of purgeExpiredEvidence

scanVars == <<malware, infectedBy, scans>>
vars == <<uploadVars, jobVars, scanVars, holds, expired, purges>>

NoHold == [stage |-> "none", evidence |-> None, late |-> FALSE]
NoPurge == [stage |-> "idle", todo |-> {}, at |-> None, gone |-> 0, shown |-> 0]

Init ==
    /\ UploadInit /\ ContractInit
    /\ malware = [e \in Evidence |-> "pending"]
    /\ infectedBy = [e \in Evidence |-> 0]
    /\ scans = {}
    /\ holds = [h \in HoldIds |-> NoHold]
    /\ expired = {}
    /\ purges = [p \in Purgers |-> NoPurge]

TypeOK ==
    /\ UploadTypeOK /\ ContractTypeOK
    /\ malware \in [Evidence -> {"pending", "clean", "infected"}]
    /\ infectedBy \in [Evidence -> 0..MaxAttempts]
    /\ scans \subseteq [job : Jobs, attempt : 1..MaxAttempts]
    /\ holds \in [HoldIds -> [stage : {"none", "checked", "active", "released"},
                              evidence : Evidence \cup {None}, late : BOOLEAN]]
    /\ expired \subseteq Evidence
    /\ purges \in [Purgers -> [stage : {"idle", "next", "locked", "delete"},
                               todo : SUBSET Evidence, at : Evidence \cup {None},
                               gone : 0..Cardinality(Evidence),
                               shown : 0..Cardinality(Evidence)]]

-----------------------------------------------------------------------------
\* The insertion puts the scan job in the queue, in the same transaction.
InsertWithScan(e) ==
    /\ Insert(e) /\ Submit({e})
    /\ UNCHANGED <<scanVars, holds, expired, purges>>

Uploading ==
    /\ (\E e \in Evidence : UploadStep(e)) \/ CloseEngagement
    /\ UNCHANGED <<jobVars, scanVars, holds, expired, purges>>

-----------------------------------------------------------------------------
\* scanEvidenceJob.
Scan(h) == [job |-> h.job, attempt |-> h.attempt]

\* The row is read; nothing is done for one that has been destroyed.
ScanBegin(h) ==
    /\ Begin(h)
    /\ scans' = IF h.job \in Live THEN scans \cup {Scan(h)} ELSE scans
    /\ UNCHANGED <<uploadVars, malware, infectedBy, holds, expired, purges>>

ScanSkipped(h) ==
    /\ Scan(h) \notin scans
    /\ HandlerReturns(h)
    /\ UNCHANGED <<uploadVars, scanVars, holds, expired, purges>>

\* The scanner has answered, and the row is updated whatever has become of it.
Verdict(h, clean) ==
    /\ Scan(h) \in scans
    /\ scans' = scans \ {Scan(h)}
    /\ malware' = [malware EXCEPT ![h.job] = IF clean THEN "clean" ELSE "infected"]
    /\ infectedBy' = [infectedBy EXCEPT ![h.job] = IF clean THEN 0 ELSE h.attempt]
    /\ HandlerReturns(h)
    /\ UNCHANGED <<uploadVars, holds, expired, purges>>

\* The object cannot be read, the scanner cannot be reached, refuses or is too
\* late, or the update fails.
ScanThrows(h) ==
    /\ Scan(h) \in scans
    /\ scans' = scans \ {Scan(h)}
    /\ HandlerThrows(h)
    /\ UNCHANGED <<uploadVars, malware, infectedBy, holds, expired, purges>>

\* Variant: the lease is too short.
LeaseTooShort(j) == TRUE
LeaseOver(j) == "lease" \in Events \/ \A h \in hands : h.job # j

Scanning ==
    \E h \in hands :
        ScanBegin(h) \/ ScanSkipped(h) \/ ScanThrows(h)
        \/ \E clean \in BOOLEAN : Verdict(h, clean)

\* The other steps of the queue.
QueueStep ==
    /\ \/ /\ "runner" \in Events
          /\ \E j \in Jobs : LeaseOver(j) /\ (Claim({j}) \/ GiveUp({j}))
       \/ \E h \in hands : Complete(h) \/ CompleteThrows(h) \/ Fail(h)
    /\ UNCHANGED <<uploadVars, scanVars, holds, expired, purges>>

ScannerDies ==
    /\ \E h \in hands : Lose({h}) /\ scans' = scans \ {Scan(h)}
    /\ UNCHANGED <<uploadVars, malware, infectedBy, holds, expired, purges>>

-----------------------------------------------------------------------------
\* placeLegalHold and releaseLegalHold.
OnHold(e) == \E h \in HoldIds : holds[h].stage = "active" /\ holds[h].evidence = e

CheckForHold(h, e) ==
    /\ holds[h].stage = "none" /\ e \in Live
    /\ holds' = [holds EXCEPT ![h].stage = "checked", ![h].evidence = e]
    /\ UNCHANGED <<uploadVars, jobVars, scanVars, expired, purges>>

\* The hold is late when a purge that did not see it has picked its row by now.
PlaceHold(h) ==
    LET e == holds[h].evidence IN
    /\ holds[h].stage = "checked"
    /\ holds' = [holds EXCEPT ![h].stage = "active",
                    ![h].late = e \notin Live \/ \E p \in Purgers : purges[p].at = e]
    /\ UNCHANGED <<uploadVars, jobVars, scanVars, expired, purges>>

ReleaseHold(h) ==
    /\ holds[h].stage = "active"
    /\ holds' = [holds EXCEPT ![h].stage = "released"]
    /\ UNCHANGED <<uploadVars, jobVars, scanVars, expired, purges>>

Expire(e) ==
    /\ e \in Live \ expired
    /\ expired' = expired \cup {e}
    /\ UNCHANGED <<uploadVars, jobVars, scanVars, holds, purges>>

-----------------------------------------------------------------------------
\* purgeExpiredEvidence.  Variant: holds are looked at in the preview only.
EligibleWithoutHolds(e) == e \in Live /\ e \in expired
Eligible(e) == e \in Live /\ e \in expired /\ ~OnHold(e)
Preview == {e \in Evidence : Eligible(e)}

\* The settings page shows the operator "PURGE n".
Show ==
    /\ Operator \in Purgers /\ purges[Operator].stage = "idle"
    /\ purges[Operator].gone = 0
    /\ purges' = [purges EXCEPT ![Operator].shown = Cardinality(Preview)]
    /\ UNCHANGED <<uploadVars, jobVars, scanVars, holds, expired>>

Confirmed(p) ==
    p = Operator => Cardinality(Preview) = purges[p].shown /\ purges[p].gone = 0

StartPurge(p) ==
    /\ purges[p].stage = "idle"
    /\ Preview # {} /\ Confirmed(p)
    /\ purges' = [purges EXCEPT ![p].stage = "next", ![p].todo = Preview]
    /\ UNCHANGED <<uploadVars, jobVars, scanVars, holds, expired>>

\* The transaction's select: its snapshot still finds the candidate, or not.
\* Variant: the object is deleted first.
SelectDeletingFirst(p, e) ==
    /\ purges[p].stage = "next" /\ e \in purges[p].todo
    /\ purges' = [purges EXCEPT ![p].todo = @ \ {e},
                    ![p].stage = IF Eligible(e) THEN "locked" ELSE "next",
                    ![p].at = IF Eligible(e) THEN e ELSE None]
    /\ objects' = IF Eligible(e) THEN objects \ {e} ELSE objects
    /\ UNCHANGED <<rows, uploads, writable, jobVars, scanVars, holds, expired>>
SelectForUpdate(p, e) ==
    /\ purges[p].stage = "next" /\ e \in purges[p].todo
    /\ purges' = [purges EXCEPT ![p].todo = @ \ {e},
                    ![p].stage = IF Eligible(e) THEN "locked" ELSE "next",
                    ![p].at = IF Eligible(e) THEN e ELSE None]
    /\ UNCHANGED <<uploadVars, jobVars, scanVars, holds, expired>>

\* The row is marked and the transaction commits, unless somebody else has
\* destroyed the row first.
Destroy(p) ==
    LET e == purges[p].at IN
    /\ purges[p].stage = "locked" /\ e \in Live
    /\ rows' = [rows EXCEPT ![e].state = "destroyed"]
    /\ purges' = [purges EXCEPT ![p].stage = "delete", ![p].gone = @ + 1]
    /\ UNCHANGED <<objects, uploads, writable, jobVars, scanVars, holds, expired>>

\* Somebody else has, or the transaction rolls back and the purge is over.
DestroyFails(p) ==
    /\ purges[p].stage = "locked"
    /\ \/ /\ purges[p].at \notin Live
          /\ purges' = [purges EXCEPT ![p].stage = "next", ![p].at = None]
       \/ /\ "storage" \in UploadEvents
          /\ purges' = [purges EXCEPT ![p].stage = "idle", ![p].todo = {},
                                      ![p].at = None]
    /\ UNCHANGED <<uploadVars, jobVars, scanVars, holds, expired>>

\* Variant: nothing is deleted from the store.
DeleteNothing(p) ==
    /\ purges[p].stage = "delete"
    /\ purges' = [purges EXCEPT ![p].stage = "next", ![p].at = None]
    /\ UNCHANGED <<uploadVars, jobVars, scanVars, holds, expired>>
DeleteObject(p) ==
    /\ purges[p].stage = "delete"
    /\ \/ objects' = objects \ {purges[p].at}
       \/ "storage" \in UploadEvents /\ objects' = objects   \* logged
    /\ purges' = [purges EXCEPT ![p].stage = "next", ![p].at = None]
    /\ UNCHANGED <<rows, uploads, writable, jobVars, scanVars, holds, expired>>

EndPurge(p) ==
    /\ purges[p].stage = "next" /\ purges[p].todo = {}
    /\ purges' = [purges EXCEPT ![p].stage = "idle"]
    /\ UNCHANGED <<uploadVars, jobVars, scanVars, holds, expired>>

PurgerDies(p) ==
    /\ "crash" \in UploadEvents
    /\ purges[p].stage # "idle"
    /\ purges' = [purges EXCEPT ![p].stage = "idle", ![p].todo = {}, ![p].at = None]
    /\ UNCHANGED <<uploadVars, jobVars, scanVars, holds, expired>>

Purging(p) ==
    \/ StartPurge(p) \/ Destroy(p) \/ DestroyFails(p) \/ DeleteObject(p)
    \/ EndPurge(p) \/ PurgerDies(p)
    \/ \E e \in Evidence : SelectForUpdate(p, e)

-----------------------------------------------------------------------------
\* Unless they may be overtaken, a hold being placed and a transaction of the
\* purge run to their end first.
InTransaction ==
    \/ \E h \in HoldIds : holds[h].stage = "checked"
    \/ \E p \in Purgers : purges[p].stage = "locked"
Free == "overtaken" \in Events \/ ~InTransaction

Next ==
    \/ \E h \in HoldIds : PlaceHold(h)
    \/ \E p \in Purgers : Destroy(p) \/ DestroyFails(p)
    \/ /\ Free
       /\ \/ Uploading
          \/ \E e \in Evidence : InsertWithScan(e) \/ Expire(e)
          \/ Scanning \/ QueueStep \/ ScannerDies
          \/ \E h \in HoldIds :
                ReleaseHold(h) \/ \E e \in Evidence : CheckForHold(h, e)
          \/ Show
          \/ \E p \in Purgers : Purging(p)

Spec == Init /\ [][Next]_vars

-----------------------------------------------------------------------------
\* "Retention jobs delete eligible blobs only after excluding active legal
\* holds": what is on hold has not been destroyed.
HeldIsKept == \A e \in Evidence : OnHold(e) => rows[e].state = "active"

\* The part of that promise that no interleaving breaks: a hold that was placed
\* before any purge had picked its row protects the row until it is released.
TimelyHoldIsKept ==
    \A h \in HoldIds : holds[h].stage = "active" /\ ~holds[h].late =>
        rows[holds[h].evidence].state = "active"

\* "Destroyed blobs are removed": the object of a destroyed row is gone, or a
\* purge is about to remove it.
DestroyedIsGone ==
    \A e \in objects : rows[e].state = "destroyed" =>
        \E p \in Purgers : purges[p].stage = "delete" /\ purges[p].at = e

\* A purge by hand never destroys more than the number the operator has typed.
NoMoreThanConfirmed == \A p \in {Operator} \cap Purgers : purges[p].gone <= purges[p].shown

\* Only an attempt made later than the one that found the malware lifts a
\* quarantine.
QuarantineIsSticky ==
    [][\A e \in Evidence : infectedBy[e] # 0 /\ infectedBy'[e] = 0 =>
          \E s \in scans \ scans' : s.job = e /\ s.attempt > infectedBy[e]]_vars
=============================================================================
