--------------------------- MODULE EvidenceUpload ---------------------------
(***************************************************************************)
(* uploadEvidence of src/server/services/evidence.ts: a short transaction  *)
(* that decides, a write to the object store, and a second transaction     *)
(* that inserts the row, with the object deleted again when that fails.    *)
(*                                                                         *)
(* Evidence is the set of uploads of one engagement; an upload that gets   *)
(* through becomes the row, and the stored object, of the same name.       *)
(***************************************************************************)
EXTENDS Naturals, FiniteSets

CONSTANTS
    Evidence,
    Hashes,         \* SHA-256 of contents
    Overlap,        \* may uploads overtake each other?
    UploadEvents    \* what else may happen, a subset of AllUploadEvents

\* The process dies, the store fails, the engagement is archived or deleted.
AllUploadEvents == {"crash", "storage", "close"}

ASSUME UploadAssumption ==
    Overlap \in BOOLEAN /\ UploadEvents \subseteq AllUploadEvents /\ IsFiniteSet(Evidence)
ASSUME NamesAssumption == "none" \notin Evidence

VARIABLES
    rows,       \* table evidence
    objects,    \* the object store
    uploads,    \* calls of uploadEvidence
    writable    \* the engagement is neither archived, cancelled nor deleted

uploadVars == <<rows, objects, uploads, writable>>

None == "none"
NoRow == [state |-> "absent", parent |-> None, version |-> 0, hash |-> None,
          wanted |-> FALSE]
NoUpload == [stage |-> "idle", row |-> NoRow]
Stages == {"idle", "prepared", "stored", "failed", "inserted", "refused"}
UnderWay == {"prepared", "stored", "failed"}

UploadInit ==
    /\ rows = [e \in Evidence |-> NoRow]
    /\ objects = {}
    /\ uploads = [e \in Evidence |-> NoUpload]
    /\ writable = TRUE

Row == [state : {"absent", "active", "destroyed"}, parent : Evidence \cup {None},
        version : 0..Cardinality(Evidence), hash : Hashes \cup {None},
        wanted : BOOLEAN]
UploadTypeOK ==
    /\ rows \in [Evidence -> Row]
    /\ objects \subseteq Evidence
    /\ uploads \in [Evidence -> [stage : Stages, row : Row]]
    /\ writable \in BOOLEAN

Live == {e \in Evidence : rows[e].state = "active"}

\* All versions of one piece of evidence point at the first.
Root(r) == IF rows[r].parent = None THEN r ELSE rows[r].parent
Versions(r) == {rows[x].version : x \in {y \in Live : rows[y].parent = Root(r)}}
\* Variants: the first version does not count; one is added twice.
VersionWithoutRoot(r) ==
    LET known == Versions(r) \cup {0} IN
    1 + CHOOSE n \in known : \A m \in known : m <= n
VersionTwoLater(r) == rows[r].version + 2
NextVersion(r) ==
    LET known == Versions(r) \cup {rows[r].version} IN
    1 + CHOOSE n \in known : \A m \in known : m <= n

Prepare(e, row) ==
    /\ uploads[e].stage = "idle" /\ writable
    /\ Overlap \/ \A x \in Evidence : uploads[x].stage \notin UnderWay
    /\ uploads' = [uploads EXCEPT ![e] = [stage |-> "prepared", row |-> row]]
    /\ UNCHANGED <<rows, objects, writable>>

NotADuplicate(h) == \A x \in Live : rows[x].hash # h

\* wanted records that the caller said allowDuplicate or replaceEvidenceId.
PrepareNew(e, h, allow) ==
    /\ allow \/ NotADuplicate(h)
    /\ Prepare(e, [state |-> "active", parent |-> None, version |-> 1,
                   hash |-> h, wanted |-> allow])

PrepareReplacement(e, h, r) ==
    /\ r \in Live
    /\ Prepare(e, [state |-> "active", parent |-> Root(r),
                   version |-> NextVersion(r), hash |-> h, wanted |-> TRUE])

Goes(e, from, to) ==
    /\ uploads[e].stage = from
    /\ uploads' = [uploads EXCEPT ![e].stage = to]

Put(e) ==
    /\ Goes(e, "prepared", "stored")
    /\ objects' = objects \cup {e}
    /\ UNCHANGED <<rows, writable>>

\* The write fails; a local file may be left behind in part.
PutFails(e) ==
    /\ "storage" \in UploadEvents
    /\ Goes(e, "prepared", "refused")
    /\ objects' \in {objects, objects \cup {e}}
    /\ UNCHANGED <<rows, writable>>

\* The second transaction, which does not look at the engagement again.
Insert(e) ==
    /\ Goes(e, "stored", "inserted")
    /\ rows' = [rows EXCEPT ![e] = uploads[e].row]
    /\ UNCHANGED <<objects, writable>>

\* A linked asset is gone, or the database fails the transaction.
InsertFails(e) ==
    /\ Goes(e, "stored", "failed")
    /\ UNCHANGED <<rows, objects, writable>>

\* The catch clause.
Compensate(e) ==
    /\ Goes(e, "failed", "refused")
    /\ objects' = objects \ {e}
    /\ UNCHANGED <<rows, writable>>
CompensateFails(e) ==
    /\ "storage" \in UploadEvents
    /\ Goes(e, "failed", "refused")
    /\ UNCHANGED <<rows, objects, writable>>

UploaderDies(e) ==
    /\ "crash" \in UploadEvents
    /\ uploads[e].stage \in UnderWay
    /\ uploads' = [uploads EXCEPT ![e].stage = "refused"]
    /\ UNCHANGED <<rows, objects, writable>>

\* transitionEngagement to archived, or applyRetention deleting the engagement.
CloseEngagement ==
    /\ "close" \in UploadEvents /\ writable
    /\ writable' = FALSE
    /\ UNCHANGED <<rows, objects, uploads>>

\* Every step but the insertion, which others extend.
UploadStep(e) ==
    \/ \E h \in Hashes, allow \in BOOLEAN : PrepareNew(e, h, allow)
    \/ \E h \in Hashes, r \in Evidence : PrepareReplacement(e, h, r)
    \/ Put(e) \/ PutFails(e) \/ InsertFails(e)
    \/ Compensate(e) \/ CompensateFails(e) \/ UploaderDies(e)

UploadNext ==
    \/ \E e \in Evidence : UploadStep(e) \/ Insert(e)
    \/ CloseEngagement

UploadSpec == UploadInit /\ [][UploadNext]_uploadVars

-----------------------------------------------------------------------------
\* Whatever fails and in whatever order: evidence that can be listed can be
\* downloaded, for no step of an upload or a purge removes the object of an
\* active row.
ActiveHasObject == Live \subseteq objects

\* The versions of one piece of evidence are numbered without repetition.
VersionsDiffer ==
    \A x, y \in Live :
        x # y /\ Root(x) = Root(y) => rows[x].version # rows[y].version

\* The same contents are filed twice only by callers who asked for that.
DuplicatesAreWanted ==
    \A x, y \in Live :
        x # y /\ rows[x].hash = rows[y].hash => rows[x].wanted \/ rows[y].wanted

\* The store holds nothing that no row and no upload under way accounts for.
NoOrphans ==
    \A e \in objects : uploads[e].stage \in {"stored", "failed", "inserted"}
=============================================================================
