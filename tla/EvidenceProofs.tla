--------------------------- MODULE EvidenceProofs ---------------------------
(***************************************************************************)
(* What becomes of evidence: proofs about EvidenceUpload and               *)
(* EvidenceCustody, for any number of uploads, purges and holds.           *)
(***************************************************************************)
EXTENDS EvidenceCustody, JobContractProofs, FiniteSetTheorems, WellFoundedInduction

\* A bounded set of numbers has a largest one.
LEMMA LargestExists ==
    ASSUME NEW S \in SUBSET Nat, S # {}, NEW n \in Nat, \A s \in S : s <= n
    PROVE  \E m \in S : \A s \in S : s <= m
<1> DEFINE U == {u \in Nat : \A s \in S : s <= u}
           R == OpToRel(<, Nat)
<1>1. U \subseteq Nat /\ U # {}
  OBVIOUS
<1>2. IsWellFoundedOn(R, Nat)
  BY NatLessThanWellFounded
<1>3. \A x, y \in Nat : y < x => <<y, x>> \in R
  BY DEF OpToRel
<1> HIDE DEF U, R
<1>4. PICK u \in U : \A y \in U : <<y, u>> \notin R
  BY <1>1, <1>2, WFMin
<1>5. u \in Nat /\ \A y \in U : ~(y < u)
  BY <1>1, <1>3, <1>4
<1>6. ASSUME u \notin S PROVE FALSE
  <2>1. PICK s \in S : TRUE
    OBVIOUS
  <2>2. u # 0
    BY <1>4, <1>5, <1>6, <2>1 DEF U
  <2>3. u - 1 \in U
    BY <1>4, <1>5, <1>6, <2>2 DEF U
  <2> QED BY <1>5, <2>3
<1> QED BY <1>4, <1>5, <1>6 DEF U

-----------------------------------------------------------------------------
(***************************************************************************)
(* Uploads.                                                                *)
(***************************************************************************)

\* The rows that have ever been inserted.
Filed == {e \in Evidence : rows[e].state # "absent"}

\* The first versions, which the later ones name.
Firsts == {e \in Filed : rows[e].parent = None}

\* A row names one of the first versions, or is one.
InPlace(w, firsts) ==
    /\ w.version >= 1
    /\ w.parent = None => w.version = 1
    /\ w.parent # None => w.version >= 2 /\ w.parent \in firsts

\* A row comes with the end of its upload; the object was there before and stays until
\* the row is destroyed; and the versions are no more than the rows.
Accounted(e) ==
    /\ rows[e].state # "absent" => uploads[e].stage = "inserted" /\ InPlace(rows[e], Firsts)
    /\ rows[e].state = "active" => e \in objects
    /\ rows[e].version <= Cardinality(Filed)
    /\ uploads[e].stage \in {"stored", "failed"} => e \in objects
    /\ uploads[e].stage \in UnderWay =>
          /\ uploads[e].row.state = "active"
          /\ uploads[e].row.version <= Cardinality(Filed) + 1
          /\ InPlace(uploads[e].row, Firsts)

UploadInv == UploadTypeOK /\ \A e \in Evidence : Accounted(e)

\* What happens to rows and objects, uploads and purges taken together.
DestroyRow(e) ==
    /\ e \in Live
    /\ rows' = [rows EXCEPT ![e].state = "destroyed"]
    /\ UNCHANGED <<objects, uploads, writable>>
RemoveObject(e) ==
    /\ rows[e].state = "destroyed"
    /\ objects' = objects \ {e}
    /\ UNCHANGED <<rows, uploads, writable>>
StoreNext == UploadNext \/ \E e \in Evidence : DestroyRow(e) \/ RemoveObject(e)

\* The rows on file are finite in number.
LEMMA FiledIsFinite == IsFiniteSet(Filed) /\ Cardinality(Filed) \in Nat
<1>1. Filed \subseteq Evidence
  BY DEF Filed
<1>2. IsFiniteSet(Filed)
  BY <1>1, UploadAssumption, FS_Subset
<1> QED BY <1>2, FS_CardinalityType

\* There is room for a row that is not filed yet.
LEMMA RoomForOne ==
    ASSUME NEW e \in Evidence, e \notin Filed
    PROVE  /\ Cardinality(Filed) + 1 <= Cardinality(Evidence)
           /\ Cardinality(Filed \cup {e}) = Cardinality(Filed) + 1
           /\ Cardinality(Evidence) \in Nat
<1> DEFINE F == Filed
           G == F \cup {e}
<1>1. IsFiniteSet(F) /\ e \notin F /\ G \subseteq Evidence
  BY FiledIsFinite DEF Filed
<1> HIDE DEF F
<1>2. IsFiniteSet(G) /\ Cardinality(G) = Cardinality(F) + 1
  BY <1>1, FS_AddElement
<1> HIDE DEF G
<1>3. Cardinality(G) <= Cardinality(Evidence)
  BY <1>1, UploadAssumption, FS_Subset
<1>4. Cardinality(Evidence) \in Nat
  BY UploadAssumption, FS_CardinalityType
<1> QED BY <1>2, <1>3, <1>4 DEF F, G

\* At the beginning nothing is filed, stored or under way.
LEMMA InitUpload == UploadInit => UploadInv
<1> SUFFICES ASSUME UploadInit PROVE UploadInv
  OBVIOUS
<1>1. Cardinality(Evidence) \in Nat /\ Cardinality(Filed) \in Nat
  BY UploadAssumption, FS_CardinalityType, FiledIsFinite
<1>2. NoRow \in Row
  BY <1>1 DEF NoRow, Row
<1>3. UploadTypeOK
  BY <1>2 DEF UploadInit, UploadTypeOK, NoUpload, Stages
<1>4. \A e \in Evidence :
         rows[e].state = "absent" /\ rows[e].version = 0 /\ uploads[e].stage = "idle"
  BY DEF UploadInit, NoRow, NoUpload
<1> QED BY <1>1, <1>3, <1>4 DEF UploadInv, Accounted, UnderWay

\* A step of one upload that leaves the rows alone.
LEMMA Advance ==
    ASSUME UploadInv, NEW e \in Evidence, NEW from \in UnderWay,
           NEW to \in {"stored", "failed", "refused"},
           Goes(e, from, to), rows' = rows, writable' = writable,
           objects \ {e} \subseteq objects', objects' \subseteq objects \cup {e},
           to \in {"stored", "failed"} => e \in objects'
    PROVE  UploadInv'
<1>1. UploadTypeOK /\ uploads[e].stage = from
  BY DEF UploadInv, Accounted, Goes
<1>2. /\ uploads' \in [Evidence -> [stage : Stages, row : Row]]
      /\ uploads'[e].stage = to /\ uploads'[e].row = uploads[e].row
      /\ \A x \in Evidence \ {e} : uploads'[x] = uploads[x]
  <2> HIDE DEF Row
  <2> QED BY <1>1 DEF UploadTypeOK, Goes, Stages
<1>3. UploadTypeOK'
  <2>1. objects' \subseteq Evidence
    BY <1>1 DEF UploadTypeOK
  <2> HIDE DEF Row
  <2>2. Row' = Row
    BY DEF Row
  <2> QED BY <1>1, <1>2, <2>1, <2>2 DEF UploadTypeOK
<1>4. Filed' = Filed /\ Firsts' = Firsts /\ rows[e].state = "absent"
  BY <1>1 DEF Filed, Firsts, UploadInv, Accounted, UnderWay
<1>6. ASSUME NEW x \in Evidence
      PROVE  Accounted(x)'
  <2>1. CASE x = e
    BY <1>1, <1>2, <1>4, <2>1 DEF UploadInv, Accounted
  <2>2. CASE x # e
    BY <1>1, <1>2, <1>4, <2>2 DEF UploadInv, Accounted
  <2> QED BY <2>1, <2>2
<1> QED BY <1>3, <1>6 DEF UploadInv, Accounted

\* The first transaction chooses a row that fits; nothing is stored yet.
LEMMA PrepareKeeps ==
    ASSUME UploadInv, NEW e \in Evidence, NEW w \in Row, Prepare(e, w),
           w.state = "active", w.version <= Cardinality(Filed) + 1, InPlace(w, Firsts)
    PROVE  UploadInv'
<1>1. UploadTypeOK /\ uploads[e].stage = "idle" /\ rows' = rows /\ objects' = objects
      /\ writable' = writable
  BY DEF UploadInv, Accounted, Prepare
<1>2. /\ uploads' \in [Evidence -> [stage : Stages, row : Row]]
      /\ uploads'[e].stage = "prepared" /\ uploads'[e].row = w
      /\ \A x \in Evidence \ {e} : uploads'[x] = uploads[x]
  <2> HIDE DEF Row
  <2> QED BY <1>1 DEF UploadTypeOK, Prepare, Stages
<1>3. UploadTypeOK'
  <2>1. Row' = Row
    BY DEF Row
  <2> HIDE DEF Row
  <2> QED BY <1>1, <1>2, <2>1 DEF UploadTypeOK
<1>4. Filed' = Filed /\ Firsts' = Firsts /\ rows[e].state = "absent"
  BY <1>1 DEF Filed, Firsts, UploadInv, Accounted
<1>6. ASSUME NEW x \in Evidence
      PROVE  Accounted(x)'
  <2>1. CASE x = e
    BY <1>1, <1>2, <1>4, <2>1 DEF UploadInv, Accounted
  <2>2. CASE x # e
    BY <1>1, <1>2, <1>4, <2>2 DEF UploadInv, Accounted
  <2> QED BY <2>1, <2>2
<1> QED BY <1>3, <1>6 DEF UploadInv, Accounted

\* The row of a new piece of evidence.
LEMMA NewRowFits ==
    ASSUME UploadInv, NEW e \in Evidence, uploads[e].stage = "idle",
           NEW h \in Hashes, NEW allow \in BOOLEAN, NEW w,
           w = [state |-> "active", parent |-> None, version |-> 1,
                hash |-> h, wanted |-> allow]
    PROVE  /\ w \in Row /\ w.state = "active" /\ w.version <= Cardinality(Filed) + 1
           /\ InPlace(w, Firsts)
<1>1. e \notin Filed
  BY DEF UploadInv, Accounted, Filed
<1>2. /\ Cardinality(Filed) \in Nat /\ Cardinality(Evidence) \in Nat
      /\ Cardinality(Filed) + 1 <= Cardinality(Evidence)
  BY <1>1, FiledIsFinite, RoomForOne
<1>3. 1 <= Cardinality(Filed) + 1 /\ 1 \in 0..Cardinality(Evidence)
  BY <1>2
<1> QED BY <1>3 DEF Row, InPlace

\* The version of a replacement is later than every version there is.
LEMMA NextVersionIsLater ==
    ASSUME UploadInv, NEW r \in Live
    PROVE  /\ NextVersion(r) \in Nat
           /\ NextVersion(r) <= Cardinality(Filed) + 1
           /\ \A n \in Versions(r) \cup {rows[r].version} : n < NextVersion(r)
<1> DEFINE known == Versions(r) \cup {rows[r].version}
<1>1. \A x \in Live : rows[x].version \in Nat /\ rows[x].version <= Cardinality(Filed)
  BY DEF UploadInv, Accounted, UploadTypeOK, Row, Live
<1>2. known \subseteq Nat /\ known # {} /\ \A n \in known : n <= Cardinality(Filed)
  BY <1>1 DEF Versions
<1>3. Cardinality(Filed) \in Nat
  BY FiledIsFinite
<1>4. NextVersion(r) = 1 + CHOOSE n \in known : \A m \in known : m <= n
  BY DEF NextVersion
<1> HIDE DEF known
<1>5. \E n \in known : \A m \in known : m <= n
  BY <1>2, <1>3, LargestExists
<1> DEFINE top == CHOOSE n \in known : \A m \in known : m <= n
<1>6. top \in known /\ \A m \in known : m <= top
  BY <1>5
<1>7. NextVersion(r) = 1 + top
  BY <1>4
<1> HIDE DEF top
<1>8. NextVersion(r) \in Nat /\ NextVersion(r) <= Cardinality(Filed) + 1
  BY <1>2, <1>3, <1>6, <1>7
<1>9. \A n \in known : n < NextVersion(r)
  BY <1>2, <1>6, <1>7
<1> QED BY <1>8, <1>9 DEF known

\* The row of a replacement.
LEMMA ReplacementFits ==
    ASSUME UploadInv, NEW e \in Evidence, uploads[e].stage = "idle",
           NEW h \in Hashes, NEW r \in Live, NEW w,
           w = [state |-> "active", parent |-> Root(r), version |-> NextVersion(r),
                hash |-> h, wanted |-> TRUE]
    PROVE  /\ w \in Row /\ w.state = "active" /\ w.version <= Cardinality(Filed) + 1
           /\ InPlace(w, Firsts)
           /\ w.parent = Root(r) /\ Root(r) # None
<1>1. /\ e \notin Filed /\ r \in Filed /\ r \in Evidence
      /\ rows[r] \in Row /\ InPlace(rows[r], Firsts)
  BY DEF UploadInv, Accounted, UploadTypeOK, Filed, Live
<1>2. /\ Cardinality(Filed) \in Nat /\ Cardinality(Evidence) \in Nat
      /\ Cardinality(Filed) + 1 <= Cardinality(Evidence)
  BY <1>1, FiledIsFinite, RoomForOne
<1>3. NextVersion(r) \in Nat /\ NextVersion(r) <= Cardinality(Filed) + 1
      /\ rows[r].version < NextVersion(r)
  BY NextVersionIsLater
<1>4. Root(r) \in Firsts /\ Root(r) # None /\ Root(r) \in Evidence
  BY <1>1, NamesAssumption DEF Root, InPlace, None, Filed, Firsts
<1>5. NextVersion(r) >= 2 /\ NextVersion(r) \in 0..Cardinality(Evidence)
  <2>1. rows[r].version \in Nat /\ rows[r].version >= 1
    BY <1>1 DEF InPlace, Row
  <2> QED BY <1>2, <1>3, <2>1
<1>6. w \in Row
  BY <1>4, <1>5 DEF Row
<1> QED BY <1>3, <1>4, <1>5, <1>6 DEF InPlace

\* The insertion files the row that was chosen.
LEMMA InsertKeeps ==
    ASSUME UploadInv, NEW e \in Evidence, Insert(e)
    PROVE  /\ UploadInv'
           /\ rows[e].state = "absent" /\ uploads[e].stage = "stored"
           /\ rows'[e] = uploads[e].row /\ uploads'[e].stage = "inserted"
           /\ \A x \in Evidence \ {e} : uploads'[x] = uploads[x] /\ rows'[x] = rows[x]
<1>1. UploadTypeOK /\ uploads[e].stage = "stored" /\ objects' = objects /\ writable' = writable
  BY DEF UploadInv, Accounted, Insert, Goes
<1>2. /\ uploads' \in [Evidence -> [stage : Stages, row : Row]]
      /\ uploads'[e].stage = "inserted" /\ uploads'[e].row = uploads[e].row
      /\ rows' \in [Evidence -> Row] /\ rows'[e] = uploads[e].row
      /\ \A x \in Evidence \ {e} : uploads'[x] = uploads[x] /\ rows'[x] = rows[x]
  <2> HIDE DEF Row
  <2> QED BY <1>1 DEF UploadTypeOK, Insert, Goes, Stages
<1>3. UploadTypeOK'
  <2>1. Row' = Row
    BY DEF Row
  <2> HIDE DEF Row
  <2> QED BY <1>1, <1>2, <2>1 DEF UploadTypeOK
<1>4. /\ rows[e].state = "absent" /\ rows'[e].state = "active"
      /\ uploads[e].row.version <= Cardinality(Filed) + 1 /\ InPlace(uploads[e].row, Firsts)
      /\ e \in objects
  BY <1>1, <1>2 DEF UploadInv, Accounted, UnderWay
<1>5. Filed' = Filed \cup {e} /\ e \notin Filed
  BY <1>2, <1>4 DEF Filed
<1>6. Cardinality(Filed') = Cardinality(Filed) + 1 /\ Cardinality(Filed) \in Nat
  BY <1>5, FiledIsFinite, RoomForOne
<1>7. Firsts \subseteq Firsts'
  BY <1>2, <1>5 DEF Firsts, Filed
<1>8. ASSUME NEW x \in Evidence
      PROVE  Accounted(x)'
  <2>1. CASE x = e
    <3>1. /\ rows'[e] = uploads[e].row /\ uploads'[e].stage = "inserted"
          /\ e \in objects' /\ InPlace(uploads[e].row, Firsts')
      BY <1>1, <1>2, <1>4, <1>7 DEF InPlace
    <3>2. rows'[e].version <= Cardinality(Filed')
      BY <1>2, <1>4, <1>6
    <3> QED BY <2>1, <3>1, <3>2 DEF UnderWay, Accounted
  <2>2. CASE x # e
    <3>1. rows[x].version \in Nat /\ uploads[x].row.version \in Nat
      BY <1>1 DEF UploadTypeOK, Row
    <3>2. /\ rows'[x] = rows[x] /\ uploads'[x] = uploads[x]
          /\ rows[x].version <= Cardinality(Filed)
          /\ uploads[x].stage \in UnderWay =>
                uploads[x].row.version <= Cardinality(Filed) + 1
      BY <1>2, <2>2 DEF UploadInv, Accounted
    <3>3. /\ rows'[x].version <= Cardinality(Filed')
          /\ uploads'[x].stage \in UnderWay =>
                uploads'[x].row.version <= Cardinality(Filed') + 1
      BY <1>6, <3>1, <3>2
    <3>4. ASSUME NEW w, InPlace(w, Firsts) PROVE InPlace(w, Firsts')
      BY <1>7, <3>4 DEF InPlace
    <3>5. Accounted(x)
      BY DEF UploadInv
    <3> QED BY <1>1, <3>2, <3>3, <3>4, <3>5 DEF Accounted
  <2> QED BY <2>1, <2>2
<1> QED BY <1>1, <1>2, <1>3, <1>4, <1>8 DEF UploadInv, Accounted

\* A destroyed row stays on file.
LEMMA DestroyRowKeeps ==
    ASSUME UploadInv, NEW e \in Evidence, DestroyRow(e)
    PROVE  /\ UploadInv'
           /\ rows'[e] = [rows[e] EXCEPT !.state = "destroyed"]
           /\ \A x \in Evidence \ {e} : rows'[x] = rows[x]
           /\ Live' = Live \ {e}
<1>1. UploadTypeOK /\ rows[e].state = "active"
      /\ objects' = objects /\ writable' = writable /\ uploads' = uploads
  BY DEF UploadInv, Accounted, DestroyRow, Live
<1>2. rows[e] \in Row /\ [rows[e] EXCEPT !.state = "destroyed"] \in Row
  BY <1>1 DEF UploadTypeOK, Row
<1>3. /\ rows' \in [Evidence -> Row]
      /\ rows'[e] = [rows[e] EXCEPT !.state = "destroyed"]
      /\ \A x \in Evidence \ {e} : rows'[x] = rows[x]
  <2>1. rows' = [rows EXCEPT ![e] = [rows[e] EXCEPT !.state = "destroyed"]]
    BY DEF DestroyRow
  <2> DEFINE g == [rows[e] EXCEPT !.state = "destroyed"]
  <2> HIDE DEF Row, g
  <2> QED BY <1>1, <1>2, <2>1 DEF UploadTypeOK, g
<1>4. /\ rows'[e].state = "destroyed" /\ rows'[e].version = rows[e].version
      /\ rows'[e].parent = rows[e].parent
  BY <1>2, <1>3 DEF Row
<1>5. UploadTypeOK'
  <2>1. Row' = Row
    BY DEF Row
  <2> HIDE DEF Row
  <2> QED BY <1>1, <1>3, <2>1 DEF UploadTypeOK
<1>6. Filed' = Filed /\ Live' = Live \ {e}
  <2>1. Filed' = Filed
    BY <1>1, <1>3, <1>4 DEF Filed
  <2>2. Live' = Live \ {e}
    BY <1>1, <1>3, <1>4 DEF Live
  <2> QED BY <2>1, <2>2
<1>7. Firsts' = Firsts
  BY <1>3, <1>4, <1>6 DEF Firsts, Filed
<1>8. InPlace(rows[e], Firsts) => InPlace(rows'[e], Firsts')
  BY <1>4, <1>7 DEF InPlace
<1>9. ASSUME NEW x \in Evidence
      PROVE  Accounted(x)'
  <2>1. CASE x = e
    BY <1>1, <1>4, <1>6, <1>7, <1>8, <2>1 DEF UploadInv, Accounted
  <2>2. CASE x # e
    BY <1>1, <1>3, <1>6, <1>7, <2>2 DEF UploadInv, Accounted
  <2> QED BY <2>1, <2>2
<1> QED BY <1>3, <1>5, <1>6, <1>9 DEF UploadInv, Accounted

\* Every step of uploads and purges keeps the invariant.
LEMMA StoreKeeps ==
    ASSUME UploadInv, [StoreNext]_uploadVars
    PROVE  UploadInv'
<1>1. ASSUME NEW e \in Evidence, NEW h \in Hashes, NEW allow \in BOOLEAN,
             PrepareNew(e, h, allow)
      PROVE  UploadInv'
  BY <1>1, NewRowFits, PrepareKeeps DEF PrepareNew, Prepare
<1>2. ASSUME NEW e \in Evidence, NEW h \in Hashes, NEW r \in Evidence,
             PrepareReplacement(e, h, r)
      PROVE  UploadInv'
  BY <1>2, ReplacementFits, PrepareKeeps DEF PrepareReplacement, Prepare
<1>3. ASSUME NEW e \in Evidence, Put(e)
      PROVE  UploadInv'
  BY <1>3, Advance DEF Put, UnderWay
<1>4. ASSUME NEW e \in Evidence, PutFails(e)
      PROVE  UploadInv'
  BY <1>4, Advance DEF PutFails, UnderWay
<1>5. ASSUME NEW e \in Evidence, InsertFails(e)
      PROVE  UploadInv'
  <2>1. e \in objects
    BY <1>5 DEF InsertFails, Goes, UploadInv, Accounted
  <2> QED BY <1>5, <2>1, Advance DEF InsertFails, UnderWay
<1>6. ASSUME NEW e \in Evidence, Compensate(e) \/ CompensateFails(e)
      PROVE  UploadInv'
  BY <1>6, Advance DEF Compensate, CompensateFails, UnderWay
<1>7. ASSUME NEW e \in Evidence, UploaderDies(e)
      PROVE  UploadInv'
  <2>1. Goes(e, uploads[e].stage, "refused") /\ uploads[e].stage \in UnderWay
    BY <1>7 DEF UploaderDies, Goes
  <2> QED BY <1>7, <2>1, Advance DEF UploaderDies
<1>8. CASE UNCHANGED <<rows, objects, uploads>> /\ writable' \in BOOLEAN
  <2>1. Filed' = Filed /\ Firsts' = Firsts /\ Row' = Row
    BY <1>8 DEF Filed, Firsts, Row
  <2>3. UploadTypeOK'
    <3> HIDE DEF Row
    <3> QED BY <1>8, <2>1 DEF UploadTypeOK, UploadInv
  <2> QED BY <1>8, <2>1, <2>3 DEF UploadInv, Accounted
<1>9. CASE CloseEngagement \/ UNCHANGED uploadVars
  BY <1>8, <1>9 DEF CloseEngagement, uploadVars, UploadInv, UploadTypeOK
<1>10. ASSUME NEW e \in Evidence, RemoveObject(e)
       PROVE  UploadInv'
  <2>1. Filed' = Filed /\ Firsts' = Firsts /\ Row' = Row
    BY <1>10 DEF Filed, Firsts, Row, RemoveObject
  <2>3. UploadTypeOK'
    <3> HIDE DEF Row
    <3> QED BY <1>10, <2>1 DEF UploadTypeOK, UploadInv, RemoveObject
  <2>4. rows' = rows /\ uploads' = uploads /\ objects' = objects \ {e}
        /\ rows[e].state # "active" /\ uploads[e].stage = "inserted"
    BY <1>10 DEF RemoveObject, UploadInv, Accounted
  <2> QED BY <2>1, <2>3, <2>4 DEF UploadInv, Accounted
<1> QED
  BY <1>1, <1>2, <1>3, <1>4, <1>5, <1>6, <1>7, <1>9, <1>10, InsertKeeps, DestroyRowKeeps
     DEF StoreNext, UploadNext, UploadStep

\* The inductive invariant of uploads alone.
THEOREM UploadInvariant == UploadSpec => []UploadInv
<1>1. UploadInv /\ [UploadNext]_uploadVars => UploadInv'
  BY StoreKeeps DEF StoreNext
<1> QED BY InitUpload, <1>1, PTL DEF UploadSpec

-----------------------------------------------------------------------------
(***************************************************************************)
(* Uploads that come one at a time.                                        *)
(***************************************************************************)

OneAtATime ==
    \A e, f \in Evidence :
        uploads[e].stage \in UnderWay /\ uploads[f].stage \in UnderWay => e = f

\* What the first transaction found out about the row it chose is still true.
StillFresh(e) ==
    \A y \in Live :
        /\ uploads[e].row.parent # None /\ Root(y) = uploads[e].row.parent =>
              rows[y].version < uploads[e].row.version
        /\ rows[y].hash = uploads[e].row.hash => uploads[e].row.wanted

SerialInv ==
    /\ UploadInv
    /\ OneAtATime
    /\ \A e \in Evidence : uploads[e].stage \in UnderWay => StillFresh(e)
    /\ VersionsDiffer /\ DuplicatesAreWanted

\* Two rows agree in all that the properties of versions look at.
SameRow(v, w) == v.parent = w.parent /\ v.version = w.version
                 /\ v.hash = w.hash /\ v.wanted = w.wanted

\* Steps that bring nothing new: no upload begins, and no row.
LEMMA NothingNew ==
    ASSUME SerialInv, UploadInv', Live' \subseteq Live,
           \A x \in Evidence : SameRow(rows[x], rows'[x]),
           \A x \in Evidence : uploads'[x].stage \in UnderWay =>
               uploads[x].stage \in UnderWay /\ uploads'[x].row = uploads[x].row
    PROVE  SerialInv'
<1>1. \A x \in Evidence : Root(x)' = Root(x)
  BY DEF Root, SameRow
<1>2. Live \subseteq Evidence
  BY DEF Live
<1>3. OneAtATime'
  BY DEF SerialInv, OneAtATime
<1>4. VersionsDiffer' /\ DuplicatesAreWanted'
  BY <1>1, <1>2 DEF SerialInv, VersionsDiffer, DuplicatesAreWanted, SameRow
<1>5. ASSUME NEW e \in Evidence, uploads'[e].stage \in UnderWay
      PROVE  StillFresh(e)'
  BY <1>1, <1>2, <1>5 DEF SerialInv, StillFresh, SameRow
<1> QED BY <1>3, <1>4, <1>5 DEF SerialInv

\* An upload begins when no other is under way.
LEMMA BeginsAlone ==
    ASSUME ~Overlap, SerialInv, UploadInv', NEW e \in Evidence, NEW w, Prepare(e, w),
           \A y \in Live : /\ w.parent # None /\ Root(y) = w.parent =>
                                 rows[y].version < w.version
                           /\ rows[y].hash = w.hash => w.wanted
    PROVE  SerialInv'
<1>1. /\ \A x \in Evidence : uploads[x].stage \notin UnderWay
      /\ rows' = rows /\ DOMAIN uploads = Evidence
      /\ uploads' = [uploads EXCEPT ![e] = [stage |-> "prepared", row |-> w]]
  BY DEF Prepare, SerialInv, UploadInv, UploadTypeOK
<1>2. uploads'[e].row = w /\ \A x \in Evidence \ {e} : uploads'[x] = uploads[x]
  BY <1>1
<1>3. Live' = Live /\ \A x \in Evidence : Root(x)' = Root(x)
  BY <1>1 DEF Live, Root
<1>4. OneAtATime'
  BY <1>1, <1>2 DEF OneAtATime
<1>5. ASSUME NEW x \in Evidence, uploads'[x].stage \in UnderWay
      PROVE  StillFresh(x)'
  <2>1. x = e
    BY <1>1, <1>2, <1>5
  <2> QED BY <1>1, <1>2, <1>3, <2>1 DEF StillFresh, Live
<1>6. VersionsDiffer' /\ DuplicatesAreWanted'
  BY <1>1, <1>3 DEF SerialInv, VersionsDiffer, DuplicatesAreWanted, Live
<1> QED BY <1>4, <1>5, <1>6 DEF SerialInv

\* The row that is inserted is still the one to insert.
LEMMA InsertsFresh ==
    ASSUME SerialInv, NEW e \in Evidence, Insert(e)
    PROVE  SerialInv'
<1>1. /\ UploadInv /\ UploadInv'
      /\ rows[e].state = "absent" /\ uploads[e].stage = "stored"
      /\ rows'[e] = uploads[e].row /\ uploads'[e].stage = "inserted"
      /\ \A x \in Evidence \ {e} : uploads'[x] = uploads[x] /\ rows'[x] = rows[x]
  BY InsertKeeps DEF SerialInv
<1>2. e \notin Filed /\ Live' = Live \cup {e} /\ e \notin Live /\ Live \subseteq Evidence
  <2>1. uploads[e].row.state = "active"
    BY <1>1 DEF UploadInv, Accounted, UnderWay
  <2> QED BY <1>1, <2>1 DEF Filed, Live
<1>3. \A x \in Evidence : uploads'[x].stage \notin UnderWay
  BY <1>1 DEF SerialInv, OneAtATime, UnderWay
<1>4. StillFresh(e)
  BY <1>1 DEF SerialInv, UnderWay
<1>5. ASSUME NEW y \in Live
      PROVE  /\ rows'[y] = rows[y] /\ y # e /\ Root(y)' = Root(y) /\ Root(y) # e
             /\ Root(e)' = (IF uploads[e].row.parent = None THEN e ELSE uploads[e].row.parent)
  <2>1. y \in Evidence /\ y # e /\ InPlace(rows[y], Firsts) /\ e \notin Firsts
    BY <1>2 DEF UploadInv, Accounted, SerialInv, Live, Firsts
  <2> QED BY <1>1, <2>1 DEF Root, InPlace
<1>6. ASSUME NEW y \in Live
      PROVE  /\ Root(e)' = Root(y)' => rows'[y].version # rows'[e].version
             /\ rows'[y].hash = rows'[e].hash => rows'[e].wanted
  <2>1. rows[y].version \in Nat /\ uploads[e].row.version \in Nat
    BY DEF SerialInv, UploadInv, UploadTypeOK, Row, Live
  <2> QED BY <1>1, <1>4, <1>5, <2>1 DEF StillFresh
<1>7. VersionsDiffer'
  <2> SUFFICES ASSUME NEW x \in Live', NEW y \in Live', x # y, Root(x)' = Root(y)'
               PROVE  rows'[x].version # rows'[y].version
    BY DEF VersionsDiffer
  <2>1. CASE x \in Live /\ y \in Live
    BY <1>5, <2>1 DEF SerialInv, VersionsDiffer
  <2> QED BY <1>2, <1>6, <2>1
<1>8. DuplicatesAreWanted'
  <2> SUFFICES ASSUME NEW x \in Live', NEW y \in Live', x # y,
                      rows'[x].hash = rows'[y].hash
               PROVE  rows'[x].wanted \/ rows'[y].wanted
    BY DEF DuplicatesAreWanted
  <2>1. CASE x \in Live /\ y \in Live
    BY <1>5, <2>1 DEF SerialInv, DuplicatesAreWanted
  <2> QED BY <1>2, <1>6, <2>1
<1> QED BY <1>1, <1>3, <1>7, <1>8 DEF SerialInv, OneAtATime

\* Every step of uploads and purges keeps the versions in order.
LEMMA SerialKeeps ==
    ASSUME ~Overlap, SerialInv, [StoreNext]_uploadVars
    PROVE  SerialInv'
<1>1. UploadInv /\ UploadInv' /\ Live \subseteq Evidence
  BY StoreKeeps DEF SerialInv, Live
<1>2. ASSUME NEW e \in Evidence, NEW h \in Hashes, NEW allow \in BOOLEAN,
             PrepareNew(e, h, allow)
      PROVE  SerialInv'
  <2> DEFINE w == [state |-> "active", parent |-> None, version |-> 1,
                   hash |-> h, wanted |-> allow]
  <2>1. Prepare(e, w) /\ (allow \/ NotADuplicate(h))
    BY <1>2 DEF PrepareNew
  <2>2. w.parent = None /\ w.hash = h /\ w.wanted = allow
    OBVIOUS
  <2> HIDE DEF w
  <2> QED BY <1>1, <2>1, <2>2, BeginsAlone DEF NotADuplicate
<1>3. ASSUME NEW e \in Evidence, NEW h \in Hashes, NEW r \in Evidence,
             PrepareReplacement(e, h, r)
      PROVE  SerialInv'
  <2> DEFINE w == [state |-> "active", parent |-> Root(r), version |-> NextVersion(r),
                   hash |-> h, wanted |-> TRUE]
  <2>1. Prepare(e, w) /\ r \in Live
    BY <1>3 DEF PrepareReplacement
  <2>2. w.parent = Root(r) /\ w.wanted = TRUE /\ w.version = NextVersion(r)
    OBVIOUS
  <2>3. ASSUME NEW y \in Live, Root(y) = Root(r)
        PROVE  rows[y].version < NextVersion(r)
    <3>1. /\ NextVersion(r) \in Nat
          /\ \A n \in Versions(r) \cup {rows[r].version} : n < NextVersion(r)
      BY <1>1, <2>1, NextVersionIsLater
    <3>2. CASE rows[y].parent = Root(r)
      BY <3>1, <3>2 DEF Versions
    <3>3. CASE rows[y].parent # Root(r)
      <4>1. rows[y].parent = None /\ y = Root(r)
        BY <2>3, <3>3 DEF Root
      <4>2. /\ rows[y].version = 1 /\ InPlace(rows[r], Firsts)
            /\ rows[r].version \in Nat
        BY <1>1, <2>1, <4>1 DEF UploadInv, Accounted, InPlace, Live, UploadTypeOK, Row
      <4>3. rows[r].version < NextVersion(r) /\ rows[r].version >= 1
        BY <3>1, <4>2 DEF InPlace
      <4> QED BY <3>1, <4>2, <4>3
    <3> QED BY <3>2, <3>3
  <2> HIDE DEF w
  <2> QED BY <1>1, <2>1, <2>2, <2>3, BeginsAlone
<1>4. ASSUME NEW e \in Evidence, NEW from \in UnderWay, NEW to \in Stages,
             Goes(e, from, to), rows' = rows
      PROVE  SerialInv'
  <2>1. /\ uploads[e].stage = from /\ uploads'[e].row = uploads[e].row
        /\ \A x \in Evidence \ {e} : uploads'[x] = uploads[x]
    BY <1>1, <1>4 DEF Goes, UploadInv, UploadTypeOK
  <2>2. Live' = Live
    BY <1>4 DEF Live
  <2> QED BY <1>1, <1>4, <2>1, <2>2, NothingNew DEF SameRow
<1>5. ASSUME NEW e \in Evidence,
             \/ Put(e) \/ PutFails(e) \/ InsertFails(e)
             \/ Compensate(e) \/ CompensateFails(e) \/ UploaderDies(e)
      PROVE  SerialInv'
  <2>1. UploaderDies(e) => Goes(e, uploads[e].stage, "refused") /\ uploads[e].stage \in UnderWay
    BY DEF UploaderDies, Goes
  <2> QED BY <1>4, <1>5, <2>1 DEF Put, PutFails, InsertFails, Compensate, CompensateFails,
            UploaderDies, UnderWay, Stages
<1>6. ASSUME rows' = rows, uploads' = uploads PROVE SerialInv'
  <2>1. Live' = Live
    BY <1>6 DEF Live
  <2> QED BY <1>1, <1>6, <2>1, NothingNew DEF SameRow
<1>7. ASSUME NEW e \in Evidence, DestroyRow(e) PROVE SerialInv'
  <2>1. /\ rows'[e] = [rows[e] EXCEPT !.state = "destroyed"] /\ rows[e] \in Row
        /\ \A x \in Evidence \ {e} : rows'[x] = rows[x]
        /\ Live' = Live \ {e} /\ uploads' = uploads
    BY <1>1, <1>7, DestroyRowKeeps DEF DestroyRow, UploadInv, UploadTypeOK
  <2>2. \A x \in Evidence : SameRow(rows[x], rows'[x])
    BY <2>1 DEF SameRow, Row
  <2> QED BY <1>1, <2>1, <2>2, NothingNew
<1> QED BY <1>2, <1>3, <1>5, <1>6, <1>7, InsertsFresh
        DEF StoreNext, UploadNext, UploadStep, CloseEngagement, RemoveObject, uploadVars

\* At the beginning there are no versions.
LEMMA InitSerial == UploadInit => SerialInv
<1> SUFFICES ASSUME UploadInit PROVE SerialInv
  OBVIOUS
<1>1. Live = {} /\ \A e \in Evidence : uploads[e].stage \notin UnderWay
  BY DEF UploadInit, Live, NoRow, NoUpload, UnderWay
<1> QED BY <1>1, InitUpload DEF SerialInv, OneAtATime, VersionsDiffer, DuplicatesAreWanted

-----------------------------------------------------------------------------
(***************************************************************************)
(* Custody: how its steps look to the uploads, and to the queue.           *)
(***************************************************************************)

\* The steps of scans, holds and of the purges that touch nothing else.
ScanStep == Scanning \/ ScannerDies
HoldStep == \E h \in HoldIds :
                PlaceHold(h) \/ ReleaseHold(h) \/ \E e \in Evidence : CheckForHold(h, e)
PurgeStep == Show \/ \E p \in Purgers : Purging(p)

\* What a step is, without the order that Free imposes.
LEMMA StepsOfCustody ==
    ASSUME [Next]_vars
    PROVE  \/ Uploading \/ (\E e \in Evidence : InsertWithScan(e) \/ Expire(e))
           \/ ScanStep \/ QueueStep \/ HoldStep \/ PurgeStep \/ UNCHANGED vars
BY DEF Next, Purging, ScanStep, HoldStep, PurgeStep

\* A purge is at a row that it has locked, and then destroyed.
Purge == [stage : {"idle", "next", "locked", "delete"}, todo : SUBSET Evidence,
          at : Evidence \cup {None}, gone : 0..Cardinality(Evidence),
          shown : 0..Cardinality(Evidence)]
Hold == [stage : {"none", "checked", "active", "released"},
         evidence : Evidence \cup {None}, late : BOOLEAN]

Destroyed == {e \in Evidence : rows[e].state = "destroyed"}

\* What a purge has done, and what it still has on its list, is no more than what was
\* shown to the operator.
Busy(p) == IF purges[p].stage = "locked" THEN 1 ELSE 0
PurgeInOrder(p) ==
    /\ purges[p].stage \in {"locked", "delete"} => purges[p].at \in Filed
    /\ purges[p].stage \notin {"locked", "delete"} => purges[p].at = None
    /\ purges[p].stage = "delete" => purges[p].at \in Destroyed
    /\ purges[p].gone <= Cardinality(Destroyed)
    /\ p = Operator =>
          IF purges[p].stage = "idle" THEN purges[p].gone <= purges[p].shown
          ELSE purges[p].gone + Cardinality(purges[p].todo) + Busy(p) <= purges[p].shown

\* A hold placed in time is on a row that no purge is at.
HoldInOrder(h) ==
    /\ holds[h].stage # "none" => holds[h].evidence \in Evidence
    /\ holds[h].stage = "active" /\ ~holds[h].late =>
          /\ rows[holds[h].evidence].state = "active"
          /\ \A p \in Purgers : purges[p].at # holds[h].evidence

RetentionInv ==
    /\ UploadInv
    /\ holds \in [HoldIds -> Hold]
    /\ purges \in [Purgers -> Purge]
    /\ \A p \in Purgers : PurgeInOrder(p)
    /\ \A h \in HoldIds : HoldInOrder(h)

\* To the uploads, custody destroys rows and removes the objects of destroyed rows.
LEMMA CustodyToStore ==
    ASSUME RetentionInv, [Next]_vars
    PROVE  [StoreNext]_uploadVars
<1>1. CASE Uploading \/ \E e \in Evidence : InsertWithScan(e)
  BY <1>1 DEF Uploading, InsertWithScan, StoreNext, UploadNext
<1>2. CASE (\E e \in Evidence : Expire(e)) \/ HoldStep \/ UNCHANGED vars
  BY <1>2 DEF Expire, HoldStep, PlaceHold, ReleaseHold, CheckForHold, vars
<1>3. CASE ScanStep \/ QueueStep
  BY <1>3 DEF ScanStep, Scanning, ScannerDies, ScanBegin, ScanSkipped, ScanThrows, Verdict,
              QueueStep
<1>4. CASE Show
  BY <1>4 DEF Show
<1>5. ASSUME NEW p \in Purgers, Destroy(p)
      PROVE  [StoreNext]_uploadVars
  <2>1. purges[p].at \in Evidence /\ DestroyRow(purges[p].at)
    BY <1>5 DEF Destroy, DestroyRow, Live
  <2> QED BY <2>1 DEF StoreNext
<1>6. ASSUME NEW p \in Purgers, DeleteObject(p)
      PROVE  [StoreNext]_uploadVars
  <2>1. purges[p].at \in Destroyed
    BY <1>6 DEF DeleteObject, RetentionInv, PurgeInOrder
  <2>2. RemoveObject(purges[p].at) \/ UNCHANGED uploadVars
    BY <1>6, <2>1 DEF DeleteObject, RemoveObject, uploadVars, Destroyed
  <2> QED BY <2>1, <2>2 DEF StoreNext, Destroyed
<1>7. ASSUME NEW p \in Purgers, Purging(p)
      PROVE  [StoreNext]_uploadVars
  BY <1>5, <1>6, <1>7 DEF Purging, StartPurge, DestroyFails, EndPurge, PurgerDies,
                          SelectForUpdate
<1> QED BY <1>1, <1>2, <1>3, <1>4, <1>7, StepsOfCustody DEF PurgeStep

\* To the queue, custody is one of the services that work by its contract.
LEMMA CustodyToQueue ==
    ASSUME [Next]_vars
    PROVE  [ContractNext]_jobVars
<1>1. CASE Uploading \/ (\E e \in Evidence : Expire(e)) \/ HoldStep \/ UNCHANGED vars
  BY <1>1 DEF Uploading, Expire, HoldStep, PlaceHold, ReleaseHold, CheckForHold, vars
<1>2. ASSUME NEW e \in Evidence, InsertWithScan(e)
      PROVE  [ContractNext]_jobVars
  BY <1>2, JobsAssumption DEF InsertWithScan, ContractNext
<1>3. CASE Scanning
  BY <1>3 DEF Scanning, ScanBegin, ScanSkipped, ScanThrows, Verdict, ContractNext
<1>4. CASE ScannerDies
  BY <1>4 DEF ScannerDies, ContractNext
<1>5. CASE QueueStep
  BY <1>5 DEF QueueStep, ContractNext
<1>6. CASE PurgeStep
  BY <1>6 DEF PurgeStep, Show, Purging, StartPurge, Destroy, DestroyFails, DeleteObject,
              EndPurge, PurgerDies, SelectForUpdate
<1> QED BY <1>1, <1>2, <1>3, <1>4, <1>5, <1>6, StepsOfCustody DEF ScanStep

-----------------------------------------------------------------------------
(***************************************************************************)
(* Custody: purges and holds.                                              *)
(***************************************************************************)

\* A set of rows is finite, and no larger than the set of all rows.
LEMMA CountsOfRows ==
    ASSUME NEW S \in SUBSET Evidence
    PROVE  /\ IsFiniteSet(S) /\ Cardinality(S) \in 0..Cardinality(Evidence)
           /\ Cardinality(Evidence) \in Nat
<1>1. IsFiniteSet(Evidence)
  BY UploadAssumption
<1>2. Cardinality(Evidence) \in Nat
  BY <1>1, FS_CardinalityType
<1>3. IsFiniteSet(S) /\ Cardinality(S) <= Cardinality(Evidence)
  BY <1>1, FS_Subset
<1>4. Cardinality(S) \in Nat
  BY <1>3, FS_CardinalityType
<1> QED BY <1>2, <1>3, <1>4

\* At the beginning nothing is on hold, and no purge is under way.
LEMMA InitRetention == Init => RetentionInv
<1> SUFFICES ASSUME Init PROVE RetentionInv
  OBVIOUS
<1>1. UploadInv
  BY InitUpload DEF Init
<1>2. Cardinality(Evidence) \in Nat /\ Cardinality(Destroyed) \in Nat
  BY CountsOfRows DEF Destroyed
<1>3. holds \in [HoldIds -> Hold] /\ purges \in [Purgers -> Purge]
  BY <1>2 DEF Init, NoHold, NoPurge, Hold, Purge
<1>4. ASSUME NEW p \in Purgers PROVE PurgeInOrder(p)
  BY <1>2 DEF Init, NoPurge, PurgeInOrder, Busy
<1>5. ASSUME NEW h \in HoldIds PROVE HoldInOrder(h)
  BY DEF Init, NoHold, HoldInOrder
<1> QED BY <1>1, <1>3, <1>4, <1>5 DEF RetentionInv

\* Steps beside purges and holds: they may insert a row, and destroy none.
LEMMA RetentionAside ==
    ASSUME RetentionInv, UploadInv', purges' = purges, holds' = holds,
           \A x \in Evidence : \/ rows'[x].state = rows[x].state
                               \/ rows[x].state = "absent" /\ rows'[x].state # "destroyed"
    PROVE  RetentionInv'
<1>1. Destroyed' = Destroyed /\ Filed \subseteq Filed'
  BY DEF Destroyed, Filed, RetentionInv, UploadInv, UploadTypeOK, Row
<1>2. Hold' = Hold /\ Purge' = Purge
  BY DEF Hold, Purge
<1>3. ASSUME NEW p \in Purgers PROVE PurgeInOrder(p)'
  BY <1>1 DEF RetentionInv, PurgeInOrder, Busy
<1>4. ASSUME NEW h \in HoldIds PROVE HoldInOrder(h)'
  BY DEF RetentionInv, HoldInOrder
<1> QED BY <1>2, <1>3, <1>4 DEF RetentionInv

\* Holds are placed and released; one that comes after a purge is late.
LEMMA HoldsKeep ==
    ASSUME RetentionInv, HoldStep
    PROVE  RetentionInv'
<1> HIDE DEF Hold
<1>1. PICK h \in HoldIds :
          PlaceHold(h) \/ ReleaseHold(h) \/ \E e \in Evidence : CheckForHold(h, e)
  BY DEF HoldStep
<1>2. /\ rows' = rows /\ objects' = objects /\ uploads' = uploads /\ writable' = writable
      /\ purges' = purges
  BY <1>1 DEF PlaceHold, ReleaseHold, CheckForHold, uploadVars
<1>3. UploadInv'
  BY <1>2, StoreKeeps DEF uploadVars, RetentionInv
<1>4. Destroyed' = Destroyed /\ Filed' = Filed /\ Hold' = Hold /\ Purge' = Purge
  BY <1>2 DEF Destroyed, Filed, Hold, Purge
<1>5. ASSUME NEW p \in Purgers PROVE PurgeInOrder(p)'
  BY <1>2, <1>4 DEF RetentionInv, PurgeInOrder, Busy
<1>6. holds \in [HoldIds -> Hold] /\ holds[h] \in Hold
  BY DEF RetentionInv
<1>7. holds' \in [HoldIds -> Hold] /\ \A g \in HoldIds : HoldInOrder(g)'
  <2>1. CASE \E e \in Evidence : CheckForHold(h, e)
    <3>1. PICK e \in Evidence : CheckForHold(h, e)
      BY <2>1
    <3> DEFINE n == [holds[h] EXCEPT !.stage = "checked", !.evidence = e]
    <3>2. holds' = [holds EXCEPT ![h] = n]
      BY <1>6, <3>1 DEF CheckForHold
    <3>3. n \in Hold /\ n.stage = "checked" /\ n.evidence = e
      BY <1>6 DEF Hold
    <3> HIDE DEF n
    <3>4. /\ holds' \in [HoldIds -> Hold] /\ holds'[h] = n
          /\ \A g \in HoldIds \ {h} : holds'[g] = holds[g]
      BY <1>6, <3>2, <3>3
    <3> QED BY <1>2, <3>3, <3>4 DEF RetentionInv, HoldInOrder
  <2>2. CASE PlaceHold(h)
    <3> DEFINE e == holds[h].evidence
               late == e \notin Live \/ \E p \in Purgers : purges[p].at = e
               n == [holds[h] EXCEPT !.stage = "active", !.late = late]
    <3>1. holds' = [holds EXCEPT ![h] = n] /\ holds[h].stage = "checked"
      BY <1>6, <2>2 DEF PlaceHold
    <3>2. n \in Hold /\ n.stage = "active" /\ n.evidence = e /\ n.late = late
      BY <1>6 DEF Hold
    <3> HIDE DEF n
    <3>3. /\ holds' \in [HoldIds -> Hold] /\ holds'[h] = n
          /\ \A g \in HoldIds \ {h} : holds'[g] = holds[g]
      BY <1>6, <3>1, <3>2
    <3>4. e \in Evidence
      BY <3>1 DEF RetentionInv, HoldInOrder
    <3> QED BY <1>2, <3>2, <3>3, <3>4 DEF RetentionInv, HoldInOrder, Live
  <2>3. CASE ReleaseHold(h)
    <3> DEFINE n == [holds[h] EXCEPT !.stage = "released"]
    <3>1. holds' = [holds EXCEPT ![h] = n] /\ holds[h].stage = "active"
      BY <1>6, <2>3 DEF ReleaseHold
    <3>2. n \in Hold /\ n.stage = "released" /\ n.evidence = holds[h].evidence
      BY <1>6 DEF Hold
    <3> HIDE DEF n
    <3>3. /\ holds' \in [HoldIds -> Hold] /\ holds'[h] = n
          /\ \A g \in HoldIds \ {h} : holds'[g] = holds[g]
      BY <1>6, <3>1, <3>2
    <3> QED BY <1>2, <3>1, <3>2, <3>3 DEF RetentionInv, HoldInOrder
  <2> QED BY <1>1, <2>1, <2>2, <2>3
<1> QED BY <1>2, <1>3, <1>4, <1>5, <1>7 DEF RetentionInv

\* A purge goes on from its row in purges to the row q, and destroys nothing now.
LEMMA PurgeGoesOn ==
    ASSUME RetentionInv, UploadInv', NEW p \in Purgers, NEW q \in Purge,
           rows' = rows, holds' = holds, purges' = [purges EXCEPT ![p] = q],
           q.stage \in {"locked", "delete"} => q.at \in Filed,
           q.stage \notin {"locked", "delete"} => q.at = None,
           q.stage = "delete" => q.at \in Destroyed,
           q.gone = purges[p].gone,
           p = Operator =>
              IF q.stage = "idle" THEN q.gone <= q.shown
              ELSE q.gone + Cardinality(q.todo) + (IF q.stage = "locked" THEN 1 ELSE 0)
                      <= q.shown,
           q.at = None \/ q.at = purges[p].at \/ ~OnHold(q.at)
    PROVE  RetentionInv'
<1> HIDE DEF Purge
<1>1. Destroyed' = Destroyed /\ Filed' = Filed /\ Hold' = Hold /\ Purge' = Purge
  BY DEF Destroyed, Filed, Hold, Purge
<1>2. /\ purges' \in [Purgers -> Purge] /\ purges'[p] = q
      /\ \A x \in Purgers \ {p} : purges'[x] = purges[x]
  BY DEF RetentionInv
<1>3. ASSUME NEW x \in Purgers PROVE PurgeInOrder(x)'
  <2>1. CASE x = p
    BY <1>1, <1>2, <2>1 DEF RetentionInv, PurgeInOrder, Busy
  <2>2. CASE x # p
    BY <1>1, <1>2, <2>2 DEF RetentionInv, PurgeInOrder, Busy
  <2> QED BY <2>1, <2>2
<1>4. ASSUME NEW h \in HoldIds PROVE HoldInOrder(h)'
  <2>1. HoldInOrder(h)
    BY DEF RetentionInv
  <2>2. holds[h].evidence \in Evidence => holds[h].evidence # None
    BY NamesAssumption DEF None
  <2>3. ASSUME holds[h].stage = "active", ~holds[h].late, NEW x \in Purgers
        PROVE  purges'[x].at # holds[h].evidence
    BY <1>2, <2>1, <2>2, <2>3 DEF HoldInOrder, OnHold
  <2> QED BY <2>1, <2>3 DEF HoldInOrder
<1> QED BY <1>1, <1>2, <1>3, <1>4 DEF RetentionInv

\* The steps of a purge but the one that destroys.
LEMMA PurgesKeep ==
    ASSUME RetentionInv, UploadInv', PurgeStep, \A p \in Purgers : ~Destroy(p)
    PROVE  RetentionInv'
<1> USE DEF PurgeInOrder, Busy
<1>1. /\ purges \in [Purgers -> Purge]
      /\ \A p \in Purgers : PurgeInOrder(p) /\ purges[p] \in Purge
  BY DEF RetentionInv
<1>2. Preview \in SUBSET Evidence /\ Cardinality(Preview) \in 0..Cardinality(Evidence)
  BY CountsOfRows DEF Preview
<1>3. ASSUME NEW p \in Purgers
      PROVE  /\ purges[p].todo \in SUBSET Evidence /\ IsFiniteSet(purges[p].todo)
             /\ Cardinality(purges[p].todo) \in Nat
             /\ purges[p].gone \in 0..Cardinality(Evidence)
             /\ purges[p].shown \in 0..Cardinality(Evidence)
             /\ purges[p].gone \in Nat /\ purges[p].shown \in Nat
  BY <1>1, CountsOfRows DEF Purge
<1>4. CASE Show
  <2> DEFINE q == [purges[Operator] EXCEPT !.shown = Cardinality(Preview)]
  <2>1. /\ Operator \in Purgers /\ rows' = rows /\ holds' = holds
        /\ purges' = [purges EXCEPT ![Operator] = q]
        /\ purges[Operator].stage = "idle" /\ purges[Operator].gone = 0
    BY <1>1, <1>4 DEF Show, uploadVars
  <2>2. /\ q \in Purge /\ q.stage = "idle" /\ q.at = purges[Operator].at /\ q.gone = 0
        /\ q.shown = Cardinality(Preview)
    BY <1>1, <1>2, <2>1 DEF Purge
  <2> HIDE DEF q
  <2>3. q.gone <= q.shown
    BY <1>2, <2>2
  <2> QED BY <1>1, <2>1, <2>2, <2>3, PurgeGoesOn
<1>5. ASSUME NEW p \in Purgers, StartPurge(p) PROVE RetentionInv'
  <2> DEFINE q == [purges[p] EXCEPT !.stage = "next", !.todo = Preview]
  <2>1. /\ rows' = rows /\ holds' = holds /\ purges' = [purges EXCEPT ![p] = q]
        /\ purges[p].stage = "idle"
        /\ p = Operator => Cardinality(Preview) = purges[p].shown /\ purges[p].gone = 0
    BY <1>1, <1>5 DEF StartPurge, Confirmed, uploadVars
  <2>2. /\ q \in Purge /\ q.stage = "next" /\ q.at = purges[p].at /\ q.gone = purges[p].gone
        /\ q.todo = Preview /\ q.shown = purges[p].shown
    BY <1>1, <1>2 DEF Purge
  <2> HIDE DEF q
  <2>3. p = Operator => q.gone + Cardinality(q.todo) + 0 <= q.shown
    BY <1>2, <2>1, <2>2
  <2> QED BY <1>1, <2>1, <2>2, <2>3, PurgeGoesOn
<1>6. ASSUME NEW p \in Purgers, NEW e \in Evidence, SelectForUpdate(p, e)
      PROVE  RetentionInv'
  <2> DEFINE q == [purges[p] EXCEPT !.todo = purges[p].todo \ {e},
                                    !.stage = IF Eligible(e) THEN "locked" ELSE "next",
                                    !.at = IF Eligible(e) THEN e ELSE None]
             T == purges[p].todo
             U == T \ {e}
  <2>1. /\ rows' = rows /\ holds' = holds /\ purges' = [purges EXCEPT ![p] = q]
        /\ purges[p].stage = "next" /\ e \in T
    BY <1>1, <1>6 DEF SelectForUpdate, uploadVars
  <2>2. /\ q \in Purge /\ q.stage = (IF Eligible(e) THEN "locked" ELSE "next")
        /\ q.at = (IF Eligible(e) THEN e ELSE None) /\ q.gone = purges[p].gone
        /\ q.todo = U /\ q.shown = purges[p].shown
    BY <1>1 DEF Purge
  <2>3. IsFiniteSet(T) /\ Cardinality(T) \in Nat /\ e \in T
    BY <1>3, <2>1
  <2>4. p = Operator => purges[p].gone + Cardinality(T) + 0 <= purges[p].shown
    BY <1>1, <2>1
  <2> HIDE DEF q, T
  <2>5. Cardinality(U) = Cardinality(T) - 1
    BY <2>3, FS_RemoveElement
  <2> HIDE DEF U
  <2>6. p = Operator =>
            q.gone + Cardinality(q.todo) + (IF q.stage = "locked" THEN 1 ELSE 0) <= q.shown
    <3>1. Cardinality(U) + 1 = Cardinality(T) /\ Cardinality(U) \in Int
      BY <2>3, <2>5
    <3> QED BY <1>3, <2>2, <2>3, <2>4, <3>1
  <2>7. Eligible(e) => e \in Filed /\ ~OnHold(e)
    BY DEF Eligible, Live, Filed
  <2> QED BY <2>1, <2>2, <2>6, <2>7, PurgeGoesOn
<1>7. ASSUME NEW p \in Purgers, DestroyFails(p) \/ PurgerDies(p) \/ DeleteObject(p)
                                \/ EndPurge(p)
      PROVE  RetentionInv'
  <2> DEFINE n == [purges[p] EXCEPT !.stage = "next", !.at = None]
             i == [purges[p] EXCEPT !.stage = "idle", !.todo = {}, !.at = None]
             f == [purges[p] EXCEPT !.stage = "idle"]
  <2>1. /\ rows' = rows /\ holds' = holds /\ purges[p].stage # "idle"
        /\ \/ purges' = [purges EXCEPT ![p] = n]
           \/ purges' = [purges EXCEPT ![p] = i]
           \/ purges' = [purges EXCEPT ![p] = f] /\ purges[p].stage = "next"
    BY <1>1, <1>7 DEF DestroyFails, PurgerDies, DeleteObject, EndPurge, uploadVars
  <2>2. /\ n \in Purge /\ n.stage = "next" /\ n.at = None /\ n.gone = purges[p].gone
        /\ n.todo = purges[p].todo /\ n.shown = purges[p].shown
        /\ i \in Purge /\ i.stage = "idle" /\ i.at = None /\ i.gone = purges[p].gone
        /\ i.shown = purges[p].shown
        /\ f \in Purge /\ f.stage = "idle" /\ f.at = purges[p].at /\ f.gone = purges[p].gone
        /\ f.shown = purges[p].shown
    BY <1>1 DEF Purge
  <2> HIDE DEF n, i, f
  <2>3. p = Operator => /\ n.gone + Cardinality(n.todo) + 0 <= n.shown
                        /\ i.gone <= i.shown /\ f.gone <= f.shown
    <3>1. p = Operator => purges[p].gone + Cardinality(purges[p].todo) <= purges[p].shown
      BY <1>1, <1>3, <2>1
    <3> QED BY <1>3, <2>2, <3>1
  <2>4. CASE purges' = [purges EXCEPT ![p] = n]
    BY <2>1, <2>2, <2>3, <2>4, PurgeGoesOn
  <2>5. CASE purges' = [purges EXCEPT ![p] = i]
    BY <2>1, <2>2, <2>3, <2>5, PurgeGoesOn
  <2>6. CASE purges' = [purges EXCEPT ![p] = f] /\ purges[p].stage = "next"
    BY <1>1, <2>1, <2>2, <2>3, <2>6, PurgeGoesOn
  <2> QED BY <2>1, <2>4, <2>5, <2>6
<1> QED BY <1>4, <1>5, <1>6, <1>7 DEF PurgeStep, Purging

\* A purge destroys its row, which no hold placed in time is on.
LEMMA DestroysInOrder ==
    ASSUME RetentionInv, NEW p \in Purgers, Destroy(p)
    PROVE  RetentionInv'
<1> DEFINE e == purges[p].at
           q == [purges[p] EXCEPT !.stage = "delete", !.gone = purges[p].gone + 1]
           D == Destroyed
           E == D \cup {e}
<1>1. /\ purges \in [Purgers -> Purge] /\ purges[p] \in Purge /\ PurgeInOrder(p)
      /\ holds' = holds /\ purges[p].stage = "locked" /\ e \in Live /\ e \in Evidence
      /\ DestroyRow(e)
  BY DEF RetentionInv, Destroy, DestroyRow, Live
<1>2. /\ UploadInv' /\ rows'[e].state = "destroyed"
      /\ \A x \in Evidence \ {e} : rows'[x] = rows[x]
  <2>1. rows[e] \in Row
    BY <1>1 DEF RetentionInv, UploadInv, UploadTypeOK
  <2>2. [rows[e] EXCEPT !.state = "destroyed"].state = "destroyed"
    BY <2>1 DEF Row
  <2> HIDE DEF e
  <2> QED BY <1>1, <2>2, DestroyRowKeeps DEF RetentionInv
<1>3. purges' = [purges EXCEPT ![p] = q]
  BY <1>1 DEF Destroy
<1>4. /\ Destroyed' = E /\ Destroyed \subseteq Destroyed' /\ e \notin D
      /\ E \in SUBSET Evidence /\ Filed' = Filed /\ e \in Filed
  BY <1>1, <1>2 DEF Destroyed, Filed, Live
<1> HIDE DEF E
<1>5. /\ Cardinality(Destroyed') = Cardinality(Destroyed) + 1
      /\ Cardinality(Destroyed) \in Nat
      /\ Cardinality(Destroyed') \in 0..Cardinality(Evidence)
      /\ Cardinality(Evidence) \in Nat
  <2>1. IsFiniteSet(D) /\ Cardinality(D) \in Nat
    <3>1. D \in SUBSET Evidence
      BY DEF Destroyed
    <3> HIDE DEF D
    <3> QED BY <3>1, CountsOfRows
  <2>2. Cardinality(E) \in 0..Cardinality(Evidence) /\ Cardinality(Evidence) \in Nat
    BY <1>4, CountsOfRows
  <2>3. Cardinality(D \cup {e}) = Cardinality(D) + 1
    <3> HIDE DEF D, e
    <3> QED BY <1>4, <2>1, FS_AddElement
  <2> QED BY <1>4, <2>1, <2>2, <2>3 DEF E
<1>6. purges[p].gone \in Nat /\ purges[p].gone <= Cardinality(Destroyed)
  BY <1>1 DEF Purge, PurgeInOrder
<1>7. /\ q \in Purge /\ q.stage = "delete" /\ q.at = e /\ q.gone = purges[p].gone + 1
      /\ q.todo = purges[p].todo /\ q.shown = purges[p].shown
  <2>1. purges[p].gone + 1 \in 0..Cardinality(Evidence)
    BY <1>5, <1>6
  <2> QED BY <1>1, <2>1 DEF Purge
<1> HIDE DEF q, D
<1>8. /\ purges' \in [Purgers -> Purge] /\ purges'[p] = q
      /\ \A x \in Purgers \ {p} : purges'[x] = purges[x]
  <2> HIDE DEF Purge, e
  <2> QED BY <1>1, <1>3, <1>7
<1>9. ASSUME NEW x \in Purgers PROVE PurgeInOrder(x)'
  <2>1. CASE x = p
    <3>1. q.gone <= Cardinality(Destroyed')
      BY <1>5, <1>6, <1>7
    <3>2. p = Operator =>
              q.gone + Cardinality(q.todo) + 0 <= q.shown
      <4>1. Cardinality(purges[p].todo) \in Nat /\ purges[p].shown \in Nat
        BY <1>1, CountsOfRows DEF Purge
      <4>2. p = Operator =>
                purges[p].gone + Cardinality(purges[p].todo) + 1 <= purges[p].shown
        BY <1>1 DEF PurgeInOrder, Busy
      <4> QED BY <1>6, <1>7, <4>1, <4>2
    <3> QED BY <1>4, <1>7, <1>8, <2>1, <3>1, <3>2 DEF PurgeInOrder, Busy, E
  <2>2. CASE x # p
    <3>1. PurgeInOrder(x) /\ purges'[x] = purges[x] /\ purges[x].gone \in Nat
      BY <1>8, <2>2 DEF RetentionInv, Purge
    <3>2. purges[x].gone <= Cardinality(Destroyed')
      BY <1>5, <3>1 DEF PurgeInOrder
    <3> QED BY <1>4, <3>1, <3>2 DEF PurgeInOrder, Busy
  <2> QED BY <2>1, <2>2
<1>10. ASSUME NEW h \in HoldIds PROVE HoldInOrder(h)'
  <2>1. HoldInOrder(h)
    BY DEF RetentionInv
  <2>2. \A x \in Purgers : purges'[x].at = purges[x].at
    BY <1>7, <1>8
  <2> QED BY <1>1, <1>2, <2>1, <2>2 DEF HoldInOrder
<1>11. Hold' = Hold /\ Purge' = Purge
  BY DEF Hold, Purge
<1> QED BY <1>1, <1>2, <1>8, <1>9, <1>10, <1>11 DEF RetentionInv

\* The invariant of purges and holds.
LEMMA RetentionKeeps ==
    ASSUME RetentionInv, [Next]_vars
    PROVE  RetentionInv'
<1>1. UploadInv'
  BY CustodyToStore, StoreKeeps DEF RetentionInv
<1>2. CASE HoldStep
  BY <1>2, HoldsKeep
<1>3. CASE PurgeStep
  BY <1>1, <1>3, PurgesKeep, DestroysInOrder
<1>4. ASSUME NEW e \in Evidence, InsertWithScan(e) PROVE RetentionInv'
  <2>1. /\ purges' = purges /\ holds' = holds
        /\ rows[e].state = "absent" /\ uploads[e].stage = "stored"
        /\ rows'[e] = uploads[e].row
        /\ \A x \in Evidence \ {e} : rows'[x] = rows[x]
    BY <1>4, InsertKeeps DEF InsertWithScan, RetentionInv
  <2>2. uploads[e].row.state = "active"
    BY <2>1 DEF RetentionInv, UploadInv, Accounted, UnderWay
  <2> QED BY <1>1, <2>1, <2>2, RetentionAside
<1>5. CASE \/ Uploading \/ (\E e \in Evidence : Expire(e)) \/ ScanStep \/ QueueStep
           \/ UNCHANGED vars
  <2>1. rows' = rows /\ purges' = purges /\ holds' = holds
    BY <1>5 DEF Uploading, UploadStep, CloseEngagement, PrepareNew, PrepareReplacement,
        Prepare, Put, PutFails, InsertFails, Compensate, CompensateFails, UploaderDies,
        Expire, ScanStep, Scanning, ScannerDies, ScanBegin, ScanSkipped, ScanThrows,
        Verdict, QueueStep, vars, uploadVars
  <2> QED BY <1>1, <2>1, RetentionAside
<1> QED BY <1>2, <1>3, <1>4, <1>5, StepsOfCustody

\* Purges, holds and uploads in the whole of custody.
THEOREM RetentionInvariant == Spec => []RetentionInv
BY InitRetention, RetentionKeeps, PTL DEF Spec

-----------------------------------------------------------------------------
(***************************************************************************)
(* Custody: the scans.                                                     *)
(***************************************************************************)

\* The whole state of custody: the queue keeps its contract, and what the scans write
\* are the attempts of the queue.
CustodyInv ==
    /\ RetentionInv /\ ContractInv
    /\ malware \in [Evidence -> {"pending", "clean", "infected"}]
    /\ infectedBy \in [Evidence -> 0..MaxAttempts]
    /\ scans \subseteq [job : Jobs, attempt : 1..MaxAttempts]
    /\ expired \subseteq Evidence

\* At the beginning nothing has been scanned.
LEMMA InitCustody == Init => CustodyInv
<1> SUFFICES ASSUME Init PROVE CustodyInv
  OBVIOUS
<1>1. RetentionInv /\ ContractInv
  BY InitRetention, ContractStarts, JobsAssumption DEF Init
<1>2. 0 \in 0..MaxAttempts
  BY JobsAssumption
<1> QED BY <1>1, <1>2 DEF Init, CustodyInv

\* Every step keeps the invariant.
LEMMA CustodyKeeps ==
    ASSUME CustodyInv, [Next]_vars
    PROVE  CustodyInv'
<1>1. RetentionInv' /\ ContractInv'
  BY RetentionKeeps, CustodyToQueue, ContractKeeps, JobsAssumption DEF CustodyInv
<1>2. \A h \in hands : /\ h.job \in Evidence /\ h.attempt \in 0..MaxAttempts
                       /\ Scan(h) \in [job : Jobs, attempt : 1..MaxAttempts]
  BY JobsAssumption DEF CustodyInv, ContractInv, ContractTypeOK, Scan
<1>3. 0 \in 0..MaxAttempts
  BY JobsAssumption
<1>4. CASE ScanStep
  <2>1. ASSUME NEW h \in hands, NEW clean \in BOOLEAN, Verdict(h, clean)
        PROVE  CustodyInv'
    <3> DEFINE v == IF clean THEN "clean" ELSE "infected"
               n == IF clean THEN 0 ELSE h.attempt
    <3>1. /\ malware' = [malware EXCEPT ![h.job] = v]
          /\ infectedBy' = [infectedBy EXCEPT ![h.job] = n]
          /\ scans' \subseteq scans /\ expired' = expired
      BY <2>1 DEF Verdict
    <3>2. v \in {"pending", "clean", "infected"} /\ n \in 0..MaxAttempts
      BY <1>2, <1>3
    <3> HIDE DEF v, n
    <3> QED BY <1>1, <3>1, <3>2 DEF CustodyInv
  <2>2. ASSUME NEW h \in hands, ScanBegin(h) \/ ScanSkipped(h) \/ ScanThrows(h)
        PROVE  CustodyInv'
    <3>1. /\ malware' = malware /\ infectedBy' = infectedBy /\ expired' = expired
          /\ scans' \subseteq scans \cup {Scan(h)}
      BY <2>2 DEF ScanBegin, ScanSkipped, ScanThrows, scanVars
    <3> QED BY <1>1, <1>2, <3>1 DEF CustodyInv
  <2>3. CASE ScannerDies
    <3>1. /\ malware' = malware /\ infectedBy' = infectedBy /\ expired' = expired
          /\ scans' \subseteq scans
      BY <2>3 DEF ScannerDies
    <3> QED BY <1>1, <3>1 DEF CustodyInv
  <2> QED BY <1>4, <2>1, <2>2, <2>3 DEF ScanStep, Scanning
<1>5. ASSUME UNCHANGED scanVars, expired' \subseteq Evidence
      PROVE  CustodyInv'
  BY <1>1, <1>5 DEF CustodyInv, scanVars
<1>6. CASE Uploading \/ (\E e \in Evidence : InsertWithScan(e) \/ Expire(e))
           \/ QueueStep \/ UNCHANGED vars
  BY <1>5, <1>6 DEF Uploading, InsertWithScan, Expire, QueueStep, vars, CustodyInv, Live
<1>7. CASE HoldStep
  BY <1>5, <1>7 DEF HoldStep, PlaceHold, ReleaseHold, CheckForHold, CustodyInv
<1>8. CASE PurgeStep
  BY <1>5, <1>8 DEF PurgeStep, Show, Purging, StartPurge, SelectForUpdate, Destroy,
                    DestroyFails, DeleteObject, EndPurge, PurgerDies, CustodyInv
<1> QED BY <1>4, <1>6, <1>7, <1>8, StepsOfCustody

\* The invariant says of every variable what its type is.
LEMMA CustodyTypes == CustodyInv => TypeOK
BY DEF CustodyInv, RetentionInv, UploadInv, ContractInv, TypeOK, Hold, Purge

\* The invariant of everything that happens to evidence.
THEOREM CustodyInvariant == Spec => [](CustodyInv /\ TypeOK)
BY InitCustody, CustodyKeeps, CustodyTypes, PTL DEF Spec

\* With leases that outlast the scans a row has one attempt in progress; the
\* attempt that quarantined it is an earlier one.
ScannedInTurn ==
    /\ CustodyInv
    /\ \A g, h \in hands : g.job = h.job => g = h
    /\ \A s \in scans : \E h \in hands : h.phase = "run" /\ Scan(h) = s
    /\ \A e \in Evidence : infectedBy[e] <= attempts[e]
    /\ \A h \in hands : h.phase \in {"claimed", "run"} => infectedBy[h.job] < h.attempt

\* Hands that leave, or move on without a verdict.
LEMMA TurnsGoOn ==
    ASSUME ScannedInTurn, CustodyInv', infectedBy' = infectedBy, attempts' = attempts,
           \A h \in hands' : \E g \in hands :
               /\ h.job = g.job /\ h.attempt = g.attempt
               /\ h.phase \in {"claimed", "run"} => g.phase \in {"claimed", "run"},
           \A g, h \in hands' : g.job = h.job => g = h,
           \A s \in scans' : \E h \in hands' : h.phase = "run" /\ Scan(h) = s
    PROVE  ScannedInTurn'
BY DEF ScannedInTurn, Scan

\* A hand moves on and no new attempt is made; its scan ends unless it has just begun.
LEMMA HandMovesOn ==
    ASSUME ScannedInTurn, CustodyInv', infectedBy' = infectedBy, attempts' = attempts,
           NEW h \in hands, NEW p \in Phases, Move(h, p),
           p = "run" => h.phase = "claimed", p # "claimed",
           \A s \in scans' : (s \in scans /\ s # Scan(h)) \/ (s = Scan(h) /\ p = "run")
    PROVE  ScannedInTurn'
<1> DEFINE g == [h EXCEPT !.phase = p]
<1>1. hands' = (hands \ {h}) \cup {g}
  BY DEF Move
<1>2. hands \subseteq HandType
  BY DEF ScannedInTurn, CustodyInv, ContractInv, ContractTypeOK, HandType
<1>3. g.job = h.job /\ g.attempt = h.attempt /\ g.phase = p
  BY <1>2 DEF HandType
<1> HIDE DEF g
<1>4. ASSUME NEW x \in hands'
      PROVE  \E y \in hands : /\ x.job = y.job /\ x.attempt = y.attempt
                              /\ x.phase \in {"claimed", "run"} => y.phase \in {"claimed", "run"}
  BY <1>1, <1>3
<1>5. ASSUME NEW x \in hands', NEW y \in hands', x.job = y.job PROVE x = y
  BY <1>1, <1>3, <1>5 DEF ScannedInTurn
<1>6. ASSUME NEW s \in scans' PROVE \E x \in hands' : x.phase = "run" /\ Scan(x) = s
  <2>1. CASE s = Scan(h) /\ p = "run"
    BY <1>1, <1>3, <2>1 DEF Scan
  <2>2. CASE s \in scans /\ s # Scan(h)
    BY <1>1, <2>2 DEF ScannedInTurn
  <2> QED BY <2>1, <2>2
<1> QED BY <1>4, <1>5, <1>6, TurnsGoOn

\* A hand leaves, and its scan with it.
LEMMA HandLeaves ==
    ASSUME ScannedInTurn, CustodyInv', infectedBy' = infectedBy, attempts' = attempts,
           NEW h \in hands, hands' = hands \ {h},
           scans' = scans \ {Scan(h)} \/ (scans' = scans /\ h.phase # "run")
    PROVE  ScannedInTurn'
<1>1. ASSUME NEW s \in scans' PROVE \E x \in hands' : x.phase = "run" /\ Scan(x) = s
  BY <1>1 DEF ScannedInTurn
<1> QED BY <1>1, TurnsGoOn DEF ScannedInTurn

\* A verdict that finds malware is that of the only attempt in progress, and one that
\* does not is later than the one that did.
LEMMA VerdictInTurn ==
    ASSUME ScannedInTurn, CustodyInv', NEW h \in hands, NEW clean \in BOOLEAN,
           Verdict(h, clean)
    PROVE  /\ ScannedInTurn'
           /\ \A e \in Evidence : infectedBy[e] # 0 /\ infectedBy'[e] = 0 =>
                 \E s \in scans \ scans' : s.job = e /\ s.attempt > infectedBy[e]
<1> DEFINE n == IF clean THEN 0 ELSE h.attempt
           g == [h EXCEPT !.phase = "ok"]
<1>1. /\ h.phase = "run" /\ hands' = (hands \ {h}) \cup {g} /\ attempts' = attempts
      /\ Scan(h) \in scans /\ scans' = scans \ {Scan(h)}
      /\ infectedBy' = [infectedBy EXCEPT ![h.job] = n]
  BY DEF Verdict, HandlerReturns, Move
<1>2. /\ \A x \in hands : /\ x \in HandType /\ x.job \in Evidence
                          /\ x.attempt \in Nat \ {0} /\ x.attempt <= attempts[x.job]
      /\ \A e \in Evidence : attempts[e] \in Nat /\ infectedBy[e] \in Nat
      /\ infectedBy \in [Evidence -> 0..MaxAttempts] /\ MaxAttempts \in Nat
  BY JobsAssumption DEF ScannedInTurn, CustodyInv, ContractInv, ContractTypeOK, HandType
<1>3. g.job = h.job /\ g.attempt = h.attempt /\ g.phase = "ok"
  BY <1>2 DEF HandType
<1>4. n \in {0, h.attempt}
  OBVIOUS
<1> HIDE DEF n, g
<1>5. infectedBy'[h.job] = n /\ \A e \in Evidence \ {h.job} : infectedBy'[e] = infectedBy[e]
  BY <1>1, <1>2
<1>6. \A e \in Evidence : infectedBy'[e] <= attempts'[e]
  BY <1>1, <1>2, <1>4, <1>5 DEF ScannedInTurn
<1>7. ASSUME NEW x \in hands', NEW y \in hands', x.job = y.job PROVE x = y
  BY <1>1, <1>3, <1>7 DEF ScannedInTurn
<1>8. ASSUME NEW x \in hands', x.phase \in {"claimed", "run"}
      PROVE  infectedBy'[x.job] < x.attempt
  <2>1. x \in hands /\ x.job # h.job
    BY <1>1, <1>3, <1>8 DEF ScannedInTurn
  <2> QED BY <1>2, <1>5, <1>8, <2>1 DEF ScannedInTurn
<1>9. ASSUME NEW s \in scans' PROVE \E x \in hands' : x.phase = "run" /\ Scan(x) = s
  BY <1>1, <1>9 DEF ScannedInTurn
<1>10. infectedBy[h.job] < h.attempt /\ h.job \in Evidence
  BY <1>1, <1>2 DEF ScannedInTurn
<1>11. ASSUME NEW e \in Evidence, infectedBy[e] # 0, infectedBy'[e] = 0
       PROVE  \E s \in scans \ scans' : s.job = e /\ s.attempt > infectedBy[e]
  <2>1. e = h.job
    BY <1>5, <1>11
  <2>2. Scan(h) \in scans \ scans' /\ Scan(h).job = h.job /\ Scan(h).attempt = h.attempt
    BY <1>1 DEF Scan
  <2>3. Scan(h).attempt > infectedBy[e]
    BY <1>2, <1>10, <2>1, <2>2
  <2> QED BY <2>1, <2>2, <2>3
<1> QED BY <1>6, <1>7, <1>8, <1>9, <1>11 DEF ScannedInTurn

\* A row is claimed when it is in nobody's hands.
LEMMA ClaimedInTurn ==
    ASSUME ScannedInTurn, CustodyInv', NEW j \in Jobs, Claim({j}),
           \A h \in hands : h.job # j, UNCHANGED scanVars
    PROVE  ScannedInTurn'
<1> DEFINE g == Hand(j, attempts[j] + 1, "claimed")
<1>1. /\ hands' = hands \cup {g} /\ attempts'[j] = attempts[j] + 1
      /\ \A i \in Jobs \ {j} : attempts'[i] = attempts[i]
      /\ infectedBy' = infectedBy /\ scans' = scans
  BY DEF Claim, scanVars
<1>2. g.job = j /\ g.attempt = attempts[j] + 1 /\ g.phase = "claimed"
  BY DEF Hand
<1>3. j \in Evidence /\ Jobs = Evidence
      /\ \A e \in Evidence : attempts[e] \in Nat /\ infectedBy[e] \in Nat
  BY JobsAssumption DEF ScannedInTurn, CustodyInv, ContractInv, ContractTypeOK
<1> HIDE DEF g
<1>4. \A e \in Evidence : infectedBy'[e] <= attempts'[e]
  BY <1>1, <1>3 DEF ScannedInTurn
<1>5. ASSUME NEW x \in hands', x.phase \in {"claimed", "run"}
      PROVE  infectedBy'[x.job] < x.attempt
  BY <1>1, <1>2, <1>3, <1>5 DEF ScannedInTurn
<1>6. ASSUME NEW x \in hands', NEW y \in hands', x.job = y.job PROVE x = y
  BY <1>1, <1>2, <1>6 DEF ScannedInTurn
<1> QED BY <1>1, <1>4, <1>5, <1>6 DEF ScannedInTurn

\* Every step of custody keeps the scans of a row in turn and the quarantine with them.
LEMMA ScannedKeeps ==
    ASSUME "lease" \notin Events, ScannedInTurn, [Next]_vars
    PROVE  /\ ScannedInTurn'
           /\ \A e \in Evidence : infectedBy[e] # 0 /\ infectedBy'[e] = 0 =>
                 \E s \in scans \ scans' : s.job = e /\ s.attempt > infectedBy[e]
<1>1. CustodyInv'
  BY CustodyKeeps DEF ScannedInTurn
<1>2. ASSUME infectedBy' = infectedBy
      PROVE  \A e \in Evidence : ~(infectedBy[e] # 0 /\ infectedBy'[e] = 0)
  BY <1>2
<1>3. ASSUME UNCHANGED <<attempts, hands>>, UNCHANGED scanVars
      PROVE  ScannedInTurn' /\ infectedBy' = infectedBy
  BY <1>1, <1>3 DEF scanVars, ScannedInTurn
<1>4. ASSUME NEW h \in hands, ScanBegin(h) \/ ScanSkipped(h) \/ ScanThrows(h)
      PROVE  ScannedInTurn' /\ infectedBy' = infectedBy
  <2>1. /\ infectedBy' = infectedBy /\ attempts' = attempts
        /\ \/ Move(h, "run") /\ h.phase = "claimed" /\ scans' \subseteq scans \cup {Scan(h)}
           \/ Move(h, "ok") /\ scans' = scans /\ Scan(h) \notin scans
           \/ Move(h, "err") /\ scans' = scans \ {Scan(h)}
    BY <1>4 DEF ScanBegin, ScanSkipped, ScanThrows, Begin, HandlerReturns, HandlerThrows,
                scanVars
  <2>2. CASE Move(h, "run") /\ h.phase = "claimed" /\ scans' \subseteq scans \cup {Scan(h)}
    BY <1>1, <2>1, <2>2, HandMovesOn DEF Phases
  <2>3. CASE Move(h, "ok") /\ scans' = scans /\ Scan(h) \notin scans
    BY <1>1, <2>1, <2>3, HandMovesOn DEF Phases
  <2>4. CASE Move(h, "err") /\ scans' = scans \ {Scan(h)}
    BY <1>1, <2>1, <2>4, HandMovesOn DEF Phases
  <2> QED BY <2>1, <2>2, <2>3, <2>4
<1>5. CASE ScannerDies
  <2>1. PICK h \in hands : Lose({h}) /\ scans' = scans \ {Scan(h)}
    BY <1>5 DEF ScannerDies
  <2>2. /\ infectedBy' = infectedBy /\ attempts' = attempts /\ hands' = hands \ {h}
    BY <1>5, <2>1 DEF ScannerDies, Lose
  <2> QED BY <1>1, <1>2, <2>1, <2>2, HandLeaves
<1>6. CASE QueueStep
  <2>1. infectedBy' = infectedBy /\ scans' = scans /\ UNCHANGED scanVars
    BY <1>6 DEF QueueStep, scanVars
  <2>2. ASSUME NEW j \in Jobs, LeaseOver(j), Claim({j}) \/ GiveUp({j})
        PROVE  ScannedInTurn'
    BY <1>1, <1>3, <2>1, <2>2, ClaimedInTurn DEF LeaseOver, GiveUp
  <2>3. ASSUME NEW h \in hands, Complete(h) \/ Fail(h)
        PROVE  ScannedInTurn'
    BY <1>1, <2>1, <2>3, HandLeaves DEF Complete, Fail
  <2>4. ASSUME NEW h \in hands, CompleteThrows(h)
        PROVE  ScannedInTurn'
    <3>1. /\ h.phase = "ok" /\ Move(h, "err") /\ attempts' = attempts
      BY <2>4 DEF CompleteThrows
    <3>2. Scan(h) \notin scans
      BY <3>1 DEF ScannedInTurn, Scan
    <3> QED BY <1>1, <2>1, <3>1, <3>2, HandMovesOn DEF Phases
  <2> QED BY <1>2, <1>6, <2>1, <2>2, <2>3, <2>4 DEF QueueStep
<1>7. CASE Uploading \/ (\E e \in Evidence : InsertWithScan(e) \/ Expire(e)) \/ HoldStep
           \/ PurgeStep \/ UNCHANGED vars
  <2>1. UNCHANGED <<attempts, hands>> /\ UNCHANGED scanVars
    <3>1. CASE Uploading \/ (\E e \in Evidence : Expire(e)) \/ UNCHANGED vars
      BY <3>1 DEF Uploading, Expire, vars, jobVars
    <3>2. CASE \E e \in Evidence : InsertWithScan(e)
      BY <3>2 DEF InsertWithScan, Submit
    <3>3. CASE HoldStep
      BY <3>3 DEF HoldStep, PlaceHold, ReleaseHold, CheckForHold, jobVars
    <3>4. CASE PurgeStep
      BY <3>4 DEF PurgeStep, Show, Purging, StartPurge, SelectForUpdate, Destroy,
                  DestroyFails, DeleteObject, EndPurge, PurgerDies, jobVars
    <3> QED BY <1>7, <3>1, <3>2, <3>3, <3>4
  <2> QED BY <1>2, <1>3, <2>1
<1>8. CASE Scanning
  BY <1>1, <1>2, <1>4, <1>8, VerdictInTurn DEF Scanning
<1> QED BY <1>5, <1>6, <1>7, <1>8, StepsOfCustody DEF ScanStep

-----------------------------------------------------------------------------
(***************************************************************************)
(* Custody: the store and the rows, when processes live and the store      *)
(* answers.                                                                *)
(***************************************************************************)

Reliable == {"crash", "storage"} \cap UploadEvents = {}

TidyInv == RetentionInv /\ NoOrphans /\ DestroyedIsGone

\* An object is stored by its upload, which is inserted or deletes it.
LEMMA NoOrphanComes ==
    ASSUME Reliable, UploadInv, NoOrphans, [StoreNext]_uploadVars
    PROVE  NoOrphans'
<1>1. UploadTypeOK
  BY DEF UploadInv
<1>2. ASSUME UNCHANGED uploads, objects' \subseteq objects
      PROVE  NoOrphans'
  BY <1>2 DEF NoOrphans
<1>3. ASSUME NEW e \in Evidence, NEW to,
             \/ Goes(e, "prepared", to) /\ to = "stored" /\ objects' = objects \cup {e}
             \/ Goes(e, "stored", to) /\ to \in {"failed", "inserted"} /\ objects' = objects
             \/ Goes(e, "failed", to) /\ objects' = objects \ {e}
      PROVE  NoOrphans'
  <2>1. /\ uploads'[e].stage = to
        /\ \A x \in Evidence \ {e} : uploads'[x] = uploads[x]
    BY <1>1, <1>3 DEF UploadTypeOK, Goes
  <2>2. objects \subseteq Evidence
    BY <1>1 DEF UploadTypeOK
  <2> QED BY <1>3, <2>1, <2>2 DEF NoOrphans
<1>4. ASSUME NEW e \in Evidence, NEW w, Prepare(e, w) PROVE NoOrphans'
  <2>1. /\ uploads[e].stage = "idle" /\ objects' = objects /\ e \notin objects
        /\ \A x \in Evidence \ {e} : uploads'[x] = uploads[x]
    BY <1>1, <1>4 DEF Prepare, NoOrphans, UploadTypeOK
  <2>2. objects \subseteq Evidence
    BY <1>1 DEF UploadTypeOK
  <2> QED BY <2>1, <2>2 DEF NoOrphans
<1>5. ASSUME NEW e \in Evidence, UploadStep(e) \/ Insert(e) PROVE NoOrphans'
  <2>1. CASE \/ \E h \in Hashes, allow \in BOOLEAN : PrepareNew(e, h, allow)
             \/ \E h \in Hashes, r \in Evidence : PrepareReplacement(e, h, r)
    BY <1>4, <2>1 DEF PrepareNew, PrepareReplacement
  <2>2. CASE Put(e) \/ InsertFails(e) \/ Compensate(e) \/ Insert(e)
    BY <1>3, <2>2 DEF Put, InsertFails, Compensate, Insert
  <2>3. ~PutFails(e) /\ ~CompensateFails(e) /\ ~UploaderDies(e)
    BY DEF Reliable, PutFails, CompensateFails, UploaderDies
  <2> QED BY <1>5, <2>1, <2>2, <2>3 DEF UploadStep
<1>6. CASE CloseEngagement \/ UNCHANGED uploadVars
           \/ \E e \in Evidence : DestroyRow(e) \/ RemoveObject(e)
  BY <1>2, <1>6 DEF CloseEngagement, uploadVars, DestroyRow, RemoveObject
<1> QED BY <1>5, <1>6 DEF StoreNext, UploadNext

\* Whoever destroys a row goes on to remove its object.
LEMMA RemovalFollows ==
    ASSUME Reliable, RetentionInv, DestroyedIsGone, [Next]_vars
    PROVE  DestroyedIsGone'
<1>1. /\ UploadInv /\ purges \in [Purgers -> Purge]
      /\ \A p \in Purgers : purges[p] \in Purge /\ DOMAIN purges = Purgers
  BY DEF RetentionInv
<1>2. ASSUME objects' \subseteq objects,
             \A x \in objects' : rows'[x].state = "destroyed" => rows[x].state = "destroyed",
             \A p \in Purgers : purges[p].stage = "delete" =>
                 purges'[p].stage = "delete" /\ purges'[p].at = purges[p].at
      PROVE  DestroyedIsGone'
  BY <1>2 DEF DestroyedIsGone
<1>3. ASSUME rows' = rows, objects' \subseteq objects, NEW p \in Purgers,
             purges[p].stage # "delete",
             \A x \in Purgers \ {p} : purges'[x] = purges[x]
      PROVE  DestroyedIsGone'
  BY <1>2, <1>3
<1>4. CASE PurgeStep
  <2>1. CASE Show
    BY <1>1, <1>3, <2>1 DEF Show, uploadVars
  <2>2. ASSUME NEW p \in Purgers,
               \/ StartPurge(p) \/ DestroyFails(p) \/ EndPurge(p)
               \/ \E e \in Evidence : SelectForUpdate(p, e)
        PROVE  DestroyedIsGone'
    BY <1>1, <1>3, <2>2 DEF StartPurge, DestroyFails, EndPurge, SelectForUpdate, uploadVars
  <2>3. ASSUME NEW p \in Purgers, Destroy(p) PROVE DestroyedIsGone'
    <3> DEFINE e == purges[p].at
    <3>1. /\ purges[p].stage = "locked" /\ e \in Live /\ objects' = objects
          /\ DestroyRow(e) /\ e \in Evidence
      BY <2>3 DEF Destroy, DestroyRow, Live
    <3>2. /\ purges'[p].stage = "delete" /\ purges'[p].at = e
          /\ \A x \in Purgers \ {p} : purges'[x] = purges[x]
      <4> DEFINE q == [purges[p] EXCEPT !.stage = "delete", !.gone = purges[p].gone + 1]
      <4>1. purges' = [purges EXCEPT ![p] = q]
        BY <1>1, <2>3 DEF Destroy
      <4>2. q.stage = "delete" /\ q.at = e
        BY <1>1 DEF Purge
      <4> HIDE DEF q, e
      <4> QED BY <1>1, <4>1, <4>2
    <3>3. \A x \in Evidence \ {e} : rows'[x] = rows[x]
      <4> HIDE DEF e
      <4> QED BY <1>1, <3>1, DestroyRowKeeps
    <3>4. objects \subseteq Evidence
      BY <1>1 DEF UploadInv, UploadTypeOK
    <3> HIDE DEF e
    <3>5. ASSUME NEW x \in objects', rows'[x].state = "destroyed"
          PROVE  \E y \in Purgers : purges'[y].stage = "delete" /\ purges'[y].at = x
      <4>1. CASE x = e
        BY <3>2, <4>1
      <4>2. CASE x # e
        <5>1. PICK y \in Purgers : purges[y].stage = "delete" /\ purges[y].at = x
          BY <3>1, <3>3, <3>4, <3>5, <4>2 DEF DestroyedIsGone
        <5>2. y # p
          BY <3>1, <5>1
        <5> QED BY <3>2, <5>1, <5>2
      <4> QED BY <4>1, <4>2
    <3> QED BY <3>5 DEF DestroyedIsGone
  <2>4. ASSUME NEW p \in Purgers, DeleteObject(p) PROVE DestroyedIsGone'
    <3>1. /\ objects' = objects \ {purges[p].at} /\ rows' = rows
          /\ \A x \in Purgers \ {p} : purges'[x] = purges[x]
      BY <1>1, <2>4 DEF DeleteObject, Reliable
    <3>2. ASSUME NEW x \in objects', rows'[x].state = "destroyed"
          PROVE  \E y \in Purgers : purges'[y].stage = "delete" /\ purges'[y].at = x
      <4>1. PICK y \in Purgers : purges[y].stage = "delete" /\ purges[y].at = x
        BY <3>1, <3>2 DEF DestroyedIsGone
      <4>2. y # p
        BY <3>1, <3>2, <4>1
      <4> QED BY <3>1, <4>1, <4>2
    <3> QED BY <3>2 DEF DestroyedIsGone
  <2>5. \A p \in Purgers : ~PurgerDies(p)
    BY DEF PurgerDies, Reliable
  <2> QED BY <1>4, <2>1, <2>2, <2>3, <2>4, <2>5 DEF PurgeStep, Purging
<1>5. ASSUME NEW e \in Evidence, UploadStep(e), purges' = purges
      PROVE  DestroyedIsGone'
  <2>1. rows' = rows
    BY <1>5 DEF UploadStep, PrepareNew, PrepareReplacement, Prepare, Put, PutFails,
                InsertFails, Compensate, CompensateFails, UploaderDies
  <2>2. objects' \subseteq objects \/ (objects' = objects \cup {e} /\ uploads[e].stage = "prepared")
    BY <1>5 DEF UploadStep, PrepareNew, PrepareReplacement, Prepare, Put, PutFails,
                InsertFails, Compensate, CompensateFails, UploaderDies, Goes
  <2>3. uploads[e].stage = "prepared" => rows[e].state = "absent"
    BY <1>1 DEF UploadInv, Accounted
  <2> QED BY <1>5, <2>1, <2>2, <2>3 DEF DestroyedIsGone
<1>6. ASSUME NEW e \in Evidence, InsertWithScan(e) PROVE DestroyedIsGone'
  <2>1. /\ purges' = purges /\ objects' = objects /\ uploads[e].stage = "stored"
        /\ rows'[e] = uploads[e].row /\ \A x \in Evidence \ {e} : rows'[x] = rows[x]
    BY <1>1, <1>6, InsertKeeps DEF InsertWithScan, Insert
  <2>2. uploads[e].row.state = "active" /\ objects \subseteq Evidence
    BY <1>1, <2>1 DEF UploadInv, UploadTypeOK, Accounted, UnderWay
  <2> QED BY <2>1, <2>2 DEF DestroyedIsGone
<1>7. CASE \/ (\E e \in Evidence : Expire(e)) \/ ScanStep \/ QueueStep \/ HoldStep
           \/ UNCHANGED vars
  <2>1. rows' = rows /\ purges' = purges /\ objects' = objects
    BY <1>7 DEF Expire, ScanStep, Scanning, ScannerDies, ScanBegin, ScanSkipped, ScanThrows,
        Verdict, QueueStep, HoldStep, PlaceHold, ReleaseHold, CheckForHold, vars, uploadVars
  <2> QED BY <2>1 DEF DestroyedIsGone
<1>8. CASE Uploading
  BY <1>5, <1>8 DEF Uploading, CloseEngagement, DestroyedIsGone
<1> QED BY <1>4, <1>6, <1>7, <1>8, StepsOfCustody

\* Every step of custody leaves the store in line with the rows.
LEMMA TidyKeeps ==
    ASSUME Reliable, TidyInv, [Next]_vars
    PROVE  TidyInv'
BY RetentionKeeps, CustodyToStore, NoOrphanComes, RemovalFollows DEF TidyInv, RetentionInv

\* The store is empty at the beginning.
LEMMA InitTidy == Init => TidyInv
BY InitRetention DEF Init, UploadInit, TidyInv, NoOrphans, DestroyedIsGone

-----------------------------------------------------------------------------
(***************************************************************************)
(* The theorems.                                                           *)
(***************************************************************************)

\* At the beginning no attempt is in progress.
LEMMA InitScanned == Init => ScannedInTurn
<1> SUFFICES ASSUME Init PROVE ScannedInTurn
  OBVIOUS
<1>1. \A e \in Evidence : infectedBy[e] = 0 /\ attempts[e] = 0
  BY JobsAssumption DEF Init, ContractInit
<1> QED BY <1>1, InitCustody DEF Init, ContractInit, ScannedInTurn

\* Evidence that can be listed can be downloaded, whatever fails and in whatever order
\* uploads and purges overtake each other (uploadEvidence, purgeExpiredEvidence).
THEOREM EvidenceHasObject == Spec => []ActiveHasObject
<1>1. RetentionInv => ActiveHasObject
  BY DEF RetentionInv, UploadInv, Accounted, ActiveHasObject, Live
<1> QED BY <1>1, RetentionInvariant, PTL

\* What the invariant says of an operator's purge and of a hold placed in time.
LEMMA RetentionConfines == RetentionInv => NoMoreThanConfirmed /\ TimelyHoldIsKept
<1> SUFFICES ASSUME RetentionInv PROVE NoMoreThanConfirmed /\ TimelyHoldIsKept
  OBVIOUS
<1>1. TimelyHoldIsKept
  BY DEF RetentionInv, HoldInOrder, TimelyHoldIsKept
<1>2. ASSUME NEW p \in Purgers, p = Operator PROVE purges[p].gone <= purges[p].shown
  <2>1. /\ purges[p].gone \in Nat /\ purges[p].shown \in Nat
        /\ Cardinality(purges[p].todo) \in Nat /\ Busy(p) \in Nat
    BY CountsOfRows DEF RetentionInv, Purge, Busy
  <2>2. PurgeInOrder(p)
    BY DEF RetentionInv
  <2> QED BY <1>2, <2>1, <2>2 DEF PurgeInOrder
<1> QED BY <1>1, <1>2 DEF NoMoreThanConfirmed

\* A purge by hand destroys no more than the number confirmed, and a hold placed before
\* any purge had picked its row protects the row until it is released.
THEOREM PurgeIsConfined == Spec => [](NoMoreThanConfirmed /\ TimelyHoldIsKept)
BY RetentionConfines, RetentionInvariant, PTL

\* With uploads one at a time, the versions of a piece of evidence differ and the same
\* contents are filed twice only on request, though rows are destroyed in between.
THEOREM VersionsStayInOrder == ~Overlap => (Spec => [](VersionsDiffer /\ DuplicatesAreWanted))
<1> SUFFICES ASSUME ~Overlap PROVE Spec => [](VersionsDiffer /\ DuplicatesAreWanted)
  OBVIOUS
<1>1. Init => RetentionInv /\ SerialInv
  BY InitRetention, InitSerial DEF Init
<1>2. RetentionInv /\ SerialInv /\ [Next]_vars => (RetentionInv /\ SerialInv)'
  BY RetentionKeeps, CustodyToStore, SerialKeeps
<1>3. SerialInv => VersionsDiffer /\ DuplicatesAreWanted
  BY DEF SerialInv
<1> QED BY <1>1, <1>2, <1>3, PTL DEF Spec

\* When processes live and the store answers, no object is left over by a failed upload
\* or by a purge.
THEOREM StoreMatchesRows == Reliable => (Spec => [](NoOrphans /\ DestroyedIsGone))
<1> SUFFICES ASSUME Reliable PROVE Spec => [](NoOrphans /\ DestroyedIsGone)
  OBVIOUS
<1>1. TidyInv /\ [Next]_vars => TidyInv'
  BY TidyKeeps
<1>2. TidyInv => NoOrphans /\ DestroyedIsGone
  BY DEF TidyInv
<1> QED BY InitTidy, <1>1, <1>2, PTL DEF Spec

\* With leases that outlast the scans, only a later scan lifts a quarantine.
THEOREM QuarantineHolds == "lease" \notin Events => (Spec => QuarantineIsSticky)
<1> SUFFICES ASSUME "lease" \notin Events PROVE Spec => QuarantineIsSticky
  OBVIOUS
<1> DEFINE F == \A e \in Evidence : infectedBy[e] # 0 /\ infectedBy'[e] = 0 =>
                    \E s \in scans \ scans' : s.job = e /\ s.attempt > infectedBy[e]
<1>1. ScannedInTurn /\ [Next]_vars => ScannedInTurn'
  BY ScannedKeeps
<1>2. ScannedInTurn /\ [Next]_vars => F
  BY ScannedKeeps
<1> HIDE DEF F
<1>3. ScannedInTurn /\ [Next]_vars => [F]_vars
  BY <1>2
<1>4. Spec => [][F]_vars
  BY InitScanned, <1>1, <1>3, PTL DEF Spec
<1> QED BY <1>4 DEF F, QuarantineIsSticky

\* Custody works by the contract of the job queue: one job a row, submitted with it.
THEOREM WorksByContract == Spec => ContractSpec
<1>1. Init => ContractInit
  BY DEF Init
<1>2. [Next]_vars => [ContractNext]_jobVars
  BY CustodyToQueue
<1> QED BY <1>1, <1>2, PTL DEF Spec, ContractSpec
=============================================================================
