------------------------- MODULE OrganisationProofs -------------------------
(***************************************************************************)
(* What the parts of MCOrganisation promise, for all members, items, tokens *)
(* and containers, and however many requests, posts, versions and runs       *)
(* there are.                                                              *)
(***************************************************************************)
EXTENDS MCOrganisation, FiniteSetTheorems, FunctionTheorems, TLAPS

-----------------------------------------------------------------------------
(* EngagementScope: what a request has read, as far as it still matters.    *)

Engagement == [status : Status, version : 1..MaxEngagement, archivedAt : BOOLEAN]
ScopeVersion ==
    [version : 1..MaxScope, draft : BOOLEAN, createdBy : Staff, items : SUBSET Items]
EditRead ==
    {NoEdit}
    \cup [kind : {"transition"}, read : Engagement, to : Status]
    \cup [kind : {"draft"}, by : Staff, latest : 0..(MaxScope - 1)]
    \cup [kind : {"item"}, row : Nat, items : SUBSET Items]
    \cup [kind : {"approve"}, row : Nat]

ScopeTypes ==
    /\ engagement \in Engagement
    /\ lastStatus \in Status
    /\ gaps \subseteq 1..MaxEngagement /\ imported \subseteq 1..MaxEngagement
    /\ scope \in Seq(ScopeVersion)
    /\ edits \in [Edits -> EditRead]

\* The version that was read is that of the status that was read, unless a bundle was
\* imported at that version.
FreshTransition(e) ==
    e.kind = "transition" =>
        /\ e.read.version < MaxEngagement
        /\ e.read.version <= engagement.version
        /\ e.read.version = engagement.version =>
              e.read.status = engagement.status \/ engagement.version \in imported

\* Nobody drafts after a draft, unless a newer version has come in between.
FreshDraft(e) ==
    e.kind = "draft" =>
        /\ e.latest <= Len(scope)
        /\ e.latest = Len(scope) /\ scope # << >> => ~scope[Len(scope)].draft

\* A version stays, and having had an item keeps one.
FreshRow(e) ==
    /\ e.kind \in {"item", "approve"} => e.row \in DOMAIN scope
    /\ e.kind = "item" => e.items # {}
    /\ e.kind = "approve" => scope[e.row].items # {}

FreshRead(e) == FreshTransition(e) /\ FreshDraft(e) /\ FreshRow(e)

ScopeInv ==
    /\ ScopeTypes
    /\ EngagementInOrder
    /\ \A q \in Edits : FreshRead(edits[q])

\* An engagement that was just made is in order.
LEMMA InitScope == ScopeInit => ScopeInv
<1> SUFFICES ASSUME ScopeInit PROVE ScopeInv
  OBVIOUS
<1>1. ScopeTypes
  <2>1. PICK s \in Status :
           engagement = [status |-> s, version |-> 1, archivedAt |-> s = "archived"]
    BY DEF ScopeInit
  <2>2. engagement \in Engagement
    BY <2>1, ScopeAssumption DEF Engagement
  <2>3. edits \in [Edits -> EditRead]
    BY DEF ScopeInit, EditRead
  <2>4. scope \in Seq(ScopeVersion)
    BY DEF ScopeInit
  <2> QED BY <2>2, <2>3, <2>4 DEF ScopeInit, ScopeTypes
<1>2. EngagementInOrder
  BY DEF ScopeInit, EngagementInOrder, TransitionsConnect, OneDraft, ApprovedHasItems
<1>3. \A q \in Edits : edits[q].kind = "none"
  BY DEF ScopeInit, NoEdit
<1> QED
  BY <1>1, <1>2, <1>3 DEF ScopeInv, FreshRead, FreshTransition, FreshDraft, FreshRow

\* The rows are in the order of their numbers.
LEMMA NewestIsLast ==
    ASSUME ScopeInv, scope # << >>
    PROVE  /\ Len(scope) \in DOMAIN scope
           /\ Newest = Len(scope) /\ scope[Newest].version = Len(scope)
<1>1. /\ Len(scope) \in DOMAIN scope
      /\ \A j \in DOMAIN scope : j \in Nat /\ j <= Len(scope) /\ scope[j].version = j
  BY DEF ScopeInv, ScopeTypes, EngagementInOrder, OneDraft
<1>2. \E i \in DOMAIN scope : \A j \in DOMAIN scope : scope[j].version <= scope[i].version
  BY <1>1
<1>3. /\ Newest \in DOMAIN scope
      /\ \A j \in DOMAIN scope : scope[j].version <= scope[Newest].version
  BY <1>2 DEF Newest
<1> QED BY <1>1, <1>3

\* A request that begins, or ends.
LEMMA EditMoves ==
    ASSUME ScopeInv, NEW q \in Edits, NEW e \in EditRead, FreshRead(e),
           edits' = [edits EXCEPT ![q] = e],
           UNCHANGED <<engagement, lastStatus, gaps, imported, scope>>
    PROVE  ScopeInv'
<1>1. edits' \in [Edits -> EditRead]
  BY DEF ScopeInv, ScopeTypes
<1>2. ASSUME NEW b \in Edits PROVE FreshRead(edits'[b])
  BY DEF ScopeInv, ScopeTypes
<1>3. ASSUME NEW b \in Edits PROVE FreshRead(edits[b])'
  BY <1>2 DEF FreshRead, FreshTransition, FreshDraft, FreshRow
<1> QED
  BY <1>1, <1>3 DEF ScopeInv, ScopeTypes, EngagementInOrder, TransitionsConnect, OneDraft,
     ApprovedHasItems

\* Whoever has read nothing is not wrong about it.
LEMMA NothingRead == NoEdit \in EditRead /\ FreshRead(NoEdit)
BY DEF NoEdit, EditRead, FreshRead, FreshTransition, FreshDraft, FreshRow

\* Whoever reads and decides keeps the invariant.
LEMMA Decides ==
    ASSUME ScopeInv, NEW q \in Edits,
           \/ \E to \in Status : BeginTransition(q, to)
           \/ \E m \in Staff : BeginDraft(q, m)
           \/ \E m \in Staff : \E i \in DOMAIN scope : BeginApproval(q, m, i)
           \/ \E i \in DOMAIN scope, x \in Items : BeginItem(q, i, {x})
    PROVE  ScopeInv'
<1>1. ASSUME NEW to \in Status, BeginTransition(q, to) PROVE ScopeInv'
  <2> DEFINE e == [kind |-> "transition", read |-> engagement, to |-> to]
  <2>1. e \in EditRead
    BY DEF EditRead, ScopeInv, ScopeTypes
  <2>2. FreshRead(e)
    BY <1>1 DEF BeginTransition, FreshRead, FreshTransition, FreshDraft, FreshRow, ScopeInv,
       ScopeTypes, Engagement
  <2> QED BY <1>1, <2>1, <2>2, EditMoves DEF BeginTransition, Begin
<1>2. ASSUME NEW m \in Staff, BeginDraft(q, m) PROVE ScopeInv'
  <2> DEFINE e == [kind |-> "draft", by |-> m, latest |-> NewestVersion]
  <2>1. NewestVersion = Len(scope) /\ Len(scope) \in Nat
    BY NewestIsLast DEF NewestVersion, ScopeInv, ScopeTypes
  <2>2. e \in EditRead
    BY <1>2, <2>1, ScopeAssumption DEF BeginDraft, EditRead
  <2>3. FreshRead(e)
    BY <1>2, <2>1, NewestIsLast DEF BeginDraft, FreshRead, FreshTransition, FreshDraft, FreshRow
  <2> QED BY <1>2, <2>2, <2>3, EditMoves DEF BeginDraft, Begin
<1>3. ASSUME NEW m \in Staff, NEW i \in DOMAIN scope, BeginApproval(q, m, i)
      PROVE  ScopeInv'
  <2> DEFINE e == [kind |-> "approve", row |-> i]
  <2>1. e \in EditRead
    BY DEF EditRead, ScopeInv, ScopeTypes
  <2>2. FreshRead(e)
    BY <1>3 DEF BeginApproval, FreshRead, FreshTransition, FreshDraft, FreshRow
  <2> QED BY <1>3, <2>1, <2>2, EditMoves DEF BeginApproval, Begin
<1>4. ASSUME NEW i \in DOMAIN scope, NEW x \in Items, BeginItem(q, i, {x})
      PROVE  ScopeInv'
  <2> DEFINE e == [kind |-> "item", row |-> i, items |-> {x}]
  <2>1. e \in EditRead
    BY DEF EditRead, ScopeInv, ScopeTypes
  <2>2. FreshRead(e)
    BY DEF FreshRead, FreshTransition, FreshDraft, FreshRow
  <2> QED BY <1>4, <2>1, <2>2, EditMoves DEF BeginItem, Begin
<1> QED BY <1>1, <1>2, <1>3, <1>4

\* The comparison of versions makes a transition start where the last one ended, or at
\* a version at which a bundle was imported.
LEMMA TransitionKeeps ==
    ASSUME ScopeInv, NEW q \in Edits, CommitTransition(q)
    PROVE  ScopeInv'
<1> DEFINE e == edits[q]
<1>1. /\ e.read \in Engagement /\ e.to \in Status
      /\ e.read.version = engagement.version /\ e.read.version < MaxEngagement
      /\ e.read.status = engagement.status \/ e.read.version \in imported
      /\ e.read.version \in 1..MaxEngagement
  BY DEF CommitTransition, StillTheVersion, ScopeInv, ScopeTypes, EditRead, NoEdit, FreshRead,
     FreshTransition, Engagement
<1>2. /\ engagement' = [status |-> e.to, version |-> e.read.version + 1,
                        archivedAt |-> e.to = "archived" \/ e.read.archivedAt]
      /\ gaps' = IF lastStatus # e.read.status THEN gaps \cup {e.read.version} ELSE gaps
      /\ lastStatus' = e.to /\ UNCHANGED <<imported, scope>>
      /\ edits' = [edits EXCEPT ![q] = NoEdit]
  BY DEF CommitTransition, End
<1>3. ScopeTypes'
  BY <1>1, <1>2, NothingRead, ScopeAssumption DEF ScopeInv, ScopeTypes, Engagement
<1>4. EngagementInOrder'
  BY <1>1, <1>2 DEF ScopeInv, EngagementInOrder, TransitionsConnect, OneDraft, ApprovedHasItems
<1>5. ASSUME NEW b \in Edits PROVE FreshRead(edits[b])'
  <2>1. CASE edits'[b] = NoEdit
    BY <2>1 DEF NoEdit, FreshRead, FreshTransition, FreshDraft, FreshRow
  <2>2. CASE edits'[b] = edits[b]
    <3>1. edits[b].kind = "transition" => edits[b].read.version \in Nat
      BY DEF ScopeInv, ScopeTypes, EditRead, NoEdit, Engagement
    <3>2. engagement.version \in Nat /\ engagement'.version = engagement.version + 1
      BY <1>1, <1>2 DEF ScopeInv, ScopeTypes, Engagement
    <3> QED
      BY <1>2, <2>2, <3>1, <3>2 DEF ScopeInv, FreshRead, FreshTransition, FreshDraft, FreshRow
  <2> QED BY <1>2, <2>1, <2>2 DEF ScopeInv, ScopeTypes
<1> QED BY <1>3, <1>4, <1>5 DEF ScopeInv

\* The unique index lets a draft in only behind the version that was the latest.
LEMMA DraftKeeps ==
    ASSUME ScopeInv, NEW q \in Edits, CommitDraft(q)
    PROVE  ScopeInv'
<1> DEFINE e == edits[q]
           n == Len(scope)
<1>1. /\ e.kind = "draft" /\ e.by \in Staff /\ e.latest \in 0..(MaxScope - 1)
      /\ e.latest <= n /\ n \in Nat
      /\ e.latest = n /\ scope # << >> => ~scope[n].draft
  BY DEF CommitDraft, ScopeInv, ScopeTypes, EditRead, NoEdit, FreshRead, FreshDraft
<1>2. PICK items \in SUBSET Items :
         /\ scope' = Append(scope, [version |-> e.latest + 1, draft |-> TRUE,
                                    createdBy |-> e.by, items |-> items])
         /\ edits' = [edits EXCEPT ![q] = NoEdit]
         /\ UNCHANGED <<engagement, lastStatus, gaps, imported>>
  <2> DEFINE copied == UNION {scope[i].items :
                 i \in {x \in DOMAIN scope : scope[x].version = edits[q].latest}}
  <2>1. \A i \in DOMAIN scope : scope[i].items \subseteq Items
    <3>1. \A i \in DOMAIN scope : scope[i] \in ScopeVersion
      BY DEF ScopeInv, ScopeTypes
    <3> QED BY <3>1 DEF ScopeVersion
  <2>2. copied \in SUBSET Items
    BY <2>1
  <2> QED BY <2>2 DEF CommitDraft, NextVersion, End
<1>3. e.latest = n
  <2>1. n \in Nat /\ DOMAIN scope = 1..n
    BY DEF ScopeInv, ScopeTypes
  <2>2. \A i \in DOMAIN scope : scope[i].version = i
    BY DEF ScopeInv, EngagementInOrder, OneDraft
  <2>3. \A i \in DOMAIN scope : scope[i].version # e.latest + 1
    BY DEF CommitDraft, UniqueVersion, NextVersion
  <2>4. e.latest \in Nat /\ e.latest <= n
    BY <1>1
  <2>5. e.latest + 1 \notin 1..n
    BY <2>1, <2>2, <2>3
  <2> HIDE DEF e, n
  <2> QED BY <2>1, <2>4, <2>5
<1>4. scope' \in Seq(ScopeVersion)
  <2>1. [version |-> e.latest + 1, draft |-> TRUE, createdBy |-> e.by, items |-> items]
           \in ScopeVersion
    BY <1>1, ScopeAssumption DEF ScopeVersion
  <2> QED BY <1>2, <2>1 DEF ScopeInv, ScopeTypes
<1>5. /\ Len(scope') = n + 1 /\ DOMAIN scope' = 1..(n + 1)
      /\ \A i \in DOMAIN scope : scope'[i] = scope[i]
      /\ scope'[n + 1].version = n + 1 /\ scope'[n + 1].draft
      /\ DOMAIN scope = 1..n /\ n \in Nat
  BY <1>1, <1>2, <1>3 DEF ScopeInv, ScopeTypes
<1>6. \A i \in DOMAIN scope : scope[i].version = i /\ ~scope[i].draft
  BY <1>1, <1>3, <1>5 DEF ScopeInv, EngagementInOrder, OneDraft
<1>7. EngagementInOrder'
  <2>1. OneDraft'
    BY <1>5, <1>6 DEF OneDraft
  <2>2. ApprovedHasItems'
    BY <1>5 DEF ScopeInv, EngagementInOrder, ApprovedHasItems
  <2> QED BY <1>2, <2>1, <2>2 DEF ScopeInv, EngagementInOrder, TransitionsConnect
<1>8. ASSUME NEW b \in Edits PROVE FreshRead(edits[b])'
  <2>1. CASE edits'[b] = NoEdit
    BY <2>1 DEF NoEdit, FreshRead, FreshTransition, FreshDraft, FreshRow
  <2>2. CASE edits'[b] = edits[b]
    <3>1. FreshRead(edits[b])
      BY DEF ScopeInv
    <3>2. FreshTransition(edits[b])'
      BY <1>2, <2>2, <3>1 DEF FreshRead, FreshTransition
    <3>3. FreshDraft(edits[b])'
      BY <1>5, <2>2, <3>1 DEF FreshRead, FreshDraft, ScopeInv, ScopeTypes, EditRead, NoEdit
    <3>4. FreshRow(edits[b])'
      BY <1>5, <2>2, <3>1 DEF FreshRead, FreshRow
    <3> QED BY <3>2, <3>3, <3>4 DEF FreshRead
  <2> QED BY <1>2, <2>1, <2>2 DEF ScopeInv, ScopeTypes
<1> QED
  BY <1>2, <1>4, <1>7, <1>8, NothingRead DEF ScopeInv, ScopeTypes

\* An item added or edited, and an approval: one version changes, and keeps its number.
LEMMA RowKeeps ==
    ASSUME ScopeInv, NEW q \in Edits, NEW i \in DOMAIN scope, NEW new \in ScopeVersion,
           new.version = scope[i].version, new.draft => scope[i].draft,
           new.items # {},
           scope' = [scope EXCEPT ![i] = new],
           edits' = [edits EXCEPT ![q] = NoEdit],
           UNCHANGED <<engagement, lastStatus, gaps, imported>>
    PROVE  ScopeInv'
<1>1. /\ scope' \in Seq(ScopeVersion) /\ Len(scope') = Len(scope)
      /\ DOMAIN scope' = DOMAIN scope /\ scope'[i] = new
      /\ \A j \in DOMAIN scope : j # i => scope'[j] = scope[j]
  BY DEF ScopeInv, ScopeTypes
<1>2. EngagementInOrder'
  BY <1>1 DEF ScopeInv, EngagementInOrder, TransitionsConnect, OneDraft, ApprovedHasItems
<1>3. ASSUME NEW b \in Edits PROVE FreshRead(edits[b])'
  <2>1. CASE edits'[b] = NoEdit
    BY <2>1 DEF NoEdit, FreshRead, FreshTransition, FreshDraft, FreshRow
  <2>2. CASE edits'[b] = edits[b]
    <3>1. FreshRead(edits[b])
      BY DEF ScopeInv
    <3>2. FreshTransition(edits[b])'
      BY <2>2, <3>1 DEF FreshRead, FreshTransition
    <3>3. FreshDraft(edits[b])'
      <4>1. scope # << >> => Len(scope) \in DOMAIN scope
        BY DEF ScopeInv, ScopeTypes
      <4>2. scope' # << >> => scope # << >>
        BY <1>1 DEF ScopeInv, ScopeTypes
      <4> QED BY <1>1, <2>2, <3>1, <4>1, <4>2 DEF FreshRead, FreshDraft
    <3>4. FreshRow(edits[b])'
      BY <1>1, <2>2, <3>1 DEF FreshRead, FreshRow
    <3> QED BY <3>2, <3>3, <3>4 DEF FreshRead
  <2> QED BY <2>1, <2>2 DEF ScopeInv, ScopeTypes
<1> QED
  BY <1>1, <1>2, <1>3, NothingRead DEF ScopeInv, ScopeTypes

\* Writing an item or an approval keeps the invariant.
LEMMA RowsKeep ==
    ASSUME ScopeInv, NEW q \in Edits, CommitItem(q) \/ CommitApproval(q)
    PROVE  ScopeInv'
<1> DEFINE e == edits[q]
           row == scope[e.row]
<1>0. e \in EditRead /\ FreshRead(e)
  BY DEF ScopeInv, ScopeTypes
<1>1. /\ e.kind \in {"item", "approve"} /\ e.row \in DOMAIN scope /\ row \in ScopeVersion
      /\ edits' = [edits EXCEPT ![q] = NoEdit]
      /\ UNCHANGED <<engagement, lastStatus, gaps, imported>>
  BY <1>0 DEF CommitItem, CommitApproval, End, FreshRead, FreshRow, ScopeInv, ScopeTypes
<1>2. CASE CommitApproval(q)
  <2>1. /\ scope' = [scope EXCEPT ![e.row] = [row EXCEPT !.draft = FALSE]]
        /\ row.items # {}
    BY <1>0, <1>2 DEF CommitApproval, FreshRead, FreshRow
  <2>2. [row EXCEPT !.draft = FALSE] \in ScopeVersion
    BY <1>1 DEF ScopeVersion
  <2> QED BY <1>1, <2>1, <2>2, RowKeeps DEF ScopeVersion
<1>3. CASE CommitItem(q)
  <2>1. e.items \in SUBSET Items /\ e.items # {}
    BY <1>0, <1>3 DEF CommitItem, EditRead, NoEdit, FreshRead, FreshRow
  <2>2. PICK items \in SUBSET Items :
           /\ items # {}
           /\ scope' = [scope EXCEPT ![e.row] = [row EXCEPT !.items = items]]
    <3>1. row.items \in SUBSET Items
      BY <1>1 DEF ScopeVersion
    <3>2. CASE scope' = [scope EXCEPT ![e.row].items = @ \cup e.items]
      BY <2>1, <3>1, <3>2
    <3>3. ASSUME NEW x \in row.items,
                 scope' = [scope EXCEPT ![e.row].items = (@ \ {x}) \cup e.items]
          PROVE  \E items \in SUBSET Items :
                    /\ items # {}
                    /\ scope' = [scope EXCEPT ![e.row] = [row EXCEPT !.items = items]]
      BY <2>1, <3>1, <3>3
    <3> QED BY <1>3, <3>2, <3>3 DEF CommitItem
  <2>3. [row EXCEPT !.items = items] \in ScopeVersion
    BY <1>1 DEF ScopeVersion
  <2> QED BY <1>1, <2>2, <2>3, RowKeeps DEF ScopeVersion
<1> QED BY <1>2, <1>3

\* Every step of the engagement keeps the invariant.
LEMMA ScopeStep == ScopeInv /\ [ScopeNext]_scopeVars => ScopeInv'
<1> SUFFICES ASSUME ScopeInv, [ScopeNext]_scopeVars PROVE ScopeInv'
  OBVIOUS
<1>1. ASSUME NEW q \in Edits, CommitTransition(q) PROVE ScopeInv'
  BY <1>1, TransitionKeeps
<1>2. ASSUME NEW q \in Edits, CommitDraft(q) PROVE ScopeInv'
  BY <1>2, DraftKeeps
<1>3. ASSUME NEW q \in Edits, CommitItem(q) \/ CommitApproval(q) PROVE ScopeInv'
  BY <1>3, RowsKeep
<1>4. ASSUME NEW q \in Edits, GiveUpEdit(q) PROVE ScopeInv'
  BY <1>4, NothingRead, EditMoves DEF GiveUpEdit, End
<1>5. ASSUME NEW status \in BundleStatuses, ImportBundle(status) PROVE ScopeInv'
  <2>1. ScopeTypes'
    BY <1>5, BundleAssumption DEF ImportBundle, ScopeInv, ScopeTypes, Engagement
  <2>2. EngagementInOrder'
    BY <1>5 DEF ImportBundle, ScopeInv, ScopeTypes, Engagement, EngagementInOrder,
       TransitionsConnect, OneDraft, ApprovedHasItems
  <2>3. ASSUME NEW b \in Edits PROVE FreshRead(edits[b])'
    BY <1>5 DEF ImportBundle, ScopeInv, FreshRead, FreshTransition, FreshDraft, FreshRow
  <2> QED BY <2>1, <2>2, <2>3 DEF ScopeInv
<1>6. CASE UNCHANGED scopeVars
  BY <1>6 DEF scopeVars, ScopeInv, ScopeTypes, EngagementInOrder, TransitionsConnect,
     OneDraft, ApprovedHasItems, FreshRead, FreshTransition, FreshDraft, FreshRow
<1>7. CASE \E q \in Edits :
              \/ \E to \in Status : BeginTransition(q, to)
              \/ \E m \in Staff : BeginDraft(q, m)
              \/ \E m \in Staff : \E i \in DOMAIN scope : BeginApproval(q, m, i)
              \/ \E i \in DOMAIN scope, x \in Items : BeginItem(q, i, {x})
  BY <1>7, Decides
<1> QED
  BY <1>1, <1>2, <1>3, <1>4, <1>5, <1>6, <1>7 DEF ScopeNext

\* Rows and requests have their types, and what a request has read is either still so
\* or will be noticed when it writes.
THEOREM ScopeInvariant == ScopeSpec => []ScopeInv
BY InitScope, ScopeStep, PTL DEF ScopeSpec

\* However requests of transitionEngagement, createScopeDraft, addScopeItem,
\* updateScopeItem, approveScopeVersion and importOrganisationBundle overlap, the
\* transitions on record connect, with a gap only at a version at which a bundle was
\* imported; the versions of the scope are numbered without a gap, only the newest is a
\* draft, and none is approved empty.
THEOREM EngagementStaysInOrder == ScopeSpec => []EngagementInOrder
<1>1. ScopeInv => EngagementInOrder
  BY DEF ScopeInv
<1> QED BY <1>1, ScopeInvariant, PTL

-----------------------------------------------------------------------------
(* SamlSignIn: what a post has got hold of, and what is left for the others. *)

AssertionRow == [answers : Nat, at : Nat, until : Nat]
PostRow == [stage : Stages, browser : Browsers, assertion : Nat, bound : BOOLEAN]

SamlTypes ==
    /\ clock \in Nat
    /\ started \in Seq([browser : Browsers, at : Nat])
    /\ issued \in Seq(AssertionRow)
    /\ posts \in Seq(PostRow)
    /\ cookie \in [Browsers -> Nat]

References ==
    /\ stored \subseteq Requests
    /\ \A a \in DOMAIN issued : issued[a].answers \in Requests \cup {NoRequest}
    /\ \A p \in DOMAIN posts : posts[p].assertion \in DOMAIN issued
    /\ signedIn \subseteq DOMAIN posts /\ late \subseteq DOMAIN posts

\* The cookie of a browser names a log-in that it began.
OwnCookies ==
    \A b \in Browsers :
        cookie[b] # NoRequest => cookie[b] \in Requests /\ started[cookie[b]].browser = b

Here(p) == Answered(p) # NoRequest => posts[p].browser = started[Answered(p)].browser

\* Who has passed the checks is, or was, bound to the browser that began the log-in.
Bound ==
    \A p \in DOMAIN posts :
        /\ posts[p].stage \in {"checked", "reserved"} => posts[p].bound
        /\ posts[p].bound \/ p \in signedIn => Here(p)
        /\ p \in signedIn => posts[p].stage = "over"

HasRequest(p) == posts[p].stage \in {"consumed", "checked", "reserved"} \/ p \in signedIn
HasAssertion(p) == posts[p].stage = "reserved" \/ p \in signedIn

\* A request that one post has consumed no other can have.
RequestsUsedUp ==
    \A p \in DOMAIN posts :
        HasRequest(p) /\ Answered(p) # NoRequest =>
            /\ Answered(p) \notin stored
            /\ \A q \in DOMAIN posts : HasRequest(q) /\ Answered(q) = Answered(p) => q = p

Used(a) == \E t \in tombstones : t.assertion = a
UsedUntilTooLate(a) ==
    \/ \E t \in tombstones : t.assertion = a /\ t.until = ReplayUntil(a)
    \/ clock >= ReplayUntil(a)

\* An assertion that one post has reserved no other can reserve in time: its row stays
\* until it is too late.
AssertionsUsedUp ==
    \A p \in DOMAIN posts :
        HasAssertion(p) =>
            /\ UsedUntilTooLate(posts[p].assertion)
            /\ \A q \in DOMAIN posts :
                  posts[q].assertion = posts[p].assertion /\ HasAssertion(q) =>
                      q = p \/ p \in late \/ q \in late

SamlInv ==
    SamlTypes /\ References /\ OwnCookies /\ Bound /\ RequestsUsedUp /\ AssertionsUsedUp

\* Before the first log-in all is in order.
LEMMA InitSaml == SamlInit => SamlInv
BY DEF SamlInit, SamlInv, SamlTypes, References, OwnCookies, Bound, RequestsUsedUp,
   AssertionsUsedUp, NoRequest, Requests

\* A post that is handled goes on, and is the only one that does.
LEMMA OnePostMoves ==
    ASSUME SamlInv, NEW p \in DOMAIN posts, NEW from, NEW to \in Stages, Goes(p, from, to)
    PROVE  /\ DOMAIN posts' = DOMAIN posts /\ posts' \in Seq(PostRow)
           /\ \A q \in DOMAIN posts :
                 /\ posts'[q].browser = posts[q].browser
                 /\ posts'[q].assertion = posts[q].assertion
                 /\ posts'[q].bound => posts[q].bound
                 /\ q # p => posts'[q] = posts[q]
           /\ posts'[p].stage = to /\ posts[p].stage = from
           /\ to # "over" => posts'[p].bound = posts[p].bound
<1>1. posts \in Seq(PostRow) /\ posts[p] \in PostRow
  BY DEF SamlInv, SamlTypes
<1> DEFINE new == [posts[p] EXCEPT !.stage = to, !.bound = posts[p].bound /\ to # "over"]
<1>2. new \in PostRow
  BY <1>1 DEF PostRow
<1>3. posts' = [posts EXCEPT ![p] = new]
  BY <1>1 DEF Goes
<1>4. /\ new.browser = posts[p].browser /\ new.assertion = posts[p].assertion
      /\ new.bound => posts[p].bound
      /\ new.stage = to /\ (to # "over" => new.bound = posts[p].bound)
  BY <1>1 DEF PostRow
<1> HIDE DEF new
<1>5. posts' \in Seq(PostRow) /\ DOMAIN posts' = DOMAIN posts
  BY <1>1, <1>2, <1>3
<1> QED BY <1>1, <1>3, <1>4, <1>5 DEF Goes

\* A log-in, an assertion and a post that are new stand behind the others.
LEMMA StartKeeps ==
    ASSUME SamlInv, NEW b \in Browsers, StartLogin(b)
    PROVE  SamlInv'
<1> DEFINE r == Len(started) + 1
<1>1. /\ started' \in Seq([browser : Browsers, at : Nat]) /\ Len(started') = r
      /\ Len(started) \in Nat
      /\ started'[r].browser = b
      /\ \A x \in Requests : started'[x] = started[x] /\ x # r /\ x \in Requests'
      /\ r \in Requests' /\ r # NoRequest
  BY DEF StartLogin, SamlInv, SamlTypes, Requests, NoRequest
<1>2. SamlTypes' /\ References'
  <2>1. SamlTypes'
    BY <1>1 DEF StartLogin, SamlInv, SamlTypes
  <2> QED BY <1>1, <2>1 DEF StartLogin, SamlInv, References
<1>3. OwnCookies'
  BY <1>1 DEF StartLogin, SamlInv, SamlTypes, OwnCookies
<1>4. \A p \in DOMAIN posts : Answered(p) # NoRequest => Answered(p) \in Requests
  BY DEF SamlInv, References, Answered
<1>5. Bound'
  <2>1. UNCHANGED <<issued, posts, signedIn, late>>
    BY DEF StartLogin
  <2>2. ASSUME NEW p \in DOMAIN posts, Here(p) PROVE Here(p)'
    <3>1. Answered(p)' = Answered(p)
      BY <2>1 DEF Answered
    <3>2. Answered(p) # NoRequest => started'[Answered(p)] = started[Answered(p)]
      BY <1>1, <1>4
    <3> QED BY <2>1, <2>2, <3>1, <3>2 DEF Here
  <2>3. Bound
    BY DEF SamlInv
  <2> QED BY <2>1, <2>2, <2>3 DEF Bound
<1>6. RequestsUsedUp'
  BY <1>1, <1>4 DEF StartLogin, SamlInv, RequestsUsedUp, HasRequest, Answered
<1>7. AssertionsUsedUp'
  BY DEF StartLogin, SamlInv, AssertionsUsedUp, HasAssertion, Used, UsedUntilTooLate,
     ReplayUntil
<1> QED BY <1>2, <1>3, <1>5, <1>6, <1>7 DEF SamlInv

\* An assertion that the identity provider issues keeps the invariant.
LEMMA IssueKeeps ==
    ASSUME SamlInv, NEW r \in Requests \cup {NoRequest}, NEW d \in Lifetimes,
           Issue(r, clock + d)
    PROVE  SamlInv'
<1> DEFINE new == [answers |-> r, at |-> clock, until |-> clock + d]
<1>1. new \in AssertionRow
  BY TimesAssumption DEF SamlInv, SamlTypes, Requests, NoRequest, AssertionRow
<1>2. issued' = Append(issued, new)
  BY DEF Issue
<1>3. new.answers = r
  OBVIOUS
<1> HIDE DEF new
<1>4. /\ issued' \in Seq(AssertionRow)
      /\ \A a \in DOMAIN issued : a \in DOMAIN issued' /\ issued'[a] = issued[a]
      /\ \A a \in DOMAIN issued' : a \in DOMAIN issued \/ issued'[a] = new
  BY <1>1, <1>2 DEF SamlInv, SamlTypes
<1>5. SamlTypes'
  BY <1>4 DEF Issue, SamlInv, SamlTypes
<1>6. References' /\ OwnCookies'
  BY <1>3, <1>4 DEF Issue, SamlInv, References, OwnCookies, Requests
<1>7. \A p \in DOMAIN posts :
         /\ Answered(p)' = Answered(p)
         /\ ReplayUntil(posts[p].assertion)' = ReplayUntil(posts[p].assertion)
  BY <1>4 DEF Issue, SamlInv, References, Answered, ReplayUntil, Latest
<1>8. Bound' /\ RequestsUsedUp'
  BY <1>7 DEF Issue, SamlInv, Bound, Here, RequestsUsedUp, HasRequest
<1>9. AssertionsUsedUp'
  BY <1>7 DEF Issue, SamlInv, AssertionsUsedUp, HasAssertion, Used, UsedUntilTooLate
<1> QED BY <1>5, <1>6, <1>8, <1>9 DEF SamlInv

\* A post that arrives keeps it.
LEMMA PostKeeps ==
    ASSUME SamlInv, NEW b \in Browsers, NEW a \in DOMAIN issued, Post(b, a)
    PROVE  SamlInv'
<1> DEFINE new == [stage |-> "posted", browser |-> b, assertion |-> a,
                   bound |-> BoundToBrowser(b, a)]
<1>0. PICK n \in Nat : n = Len(posts) + 1
  BY DEF SamlInv, SamlTypes
<1>1. new \in PostRow
  <2>1. BoundToBrowser(b, a) \in BOOLEAN /\ a \in Nat
    BY DEF BoundToBrowser, SamlInv, SamlTypes
  <2> QED BY <2>1 DEF PostRow, Stages
<1>2. /\ posts' = Append(posts, new)
      /\ UNCHANGED <<clock, started, stored, tombstones, cookie, issued, signedIn, late>>
  BY DEF Post
<1>3. /\ new.assertion = a /\ new.stage = "posted" /\ new.browser = b
      /\ new.bound = BoundToBrowser(b, a)
  OBVIOUS
<1> HIDE DEF new
<1>4. /\ posts' \in Seq(PostRow) /\ DOMAIN posts' = DOMAIN posts \cup {n}
      /\ posts'[n] = new /\ n \notin DOMAIN posts
      /\ \A p \in DOMAIN posts : posts'[p] = posts[p]
  <2>1. posts \in Seq(PostRow)
    BY DEF SamlInv, SamlTypes
  <2>2. /\ DOMAIN posts = 1..Len(posts) /\ DOMAIN posts' = 1..(Len(posts) + 1)
        /\ posts' \in Seq(PostRow) /\ posts'[Len(posts) + 1] = new
        /\ \A p \in 1..Len(posts) : posts'[p] = posts[p]
    BY <1>1, <1>2, <2>1
  <2> QED BY <1>0, <2>1, <2>2
<1>5. SamlTypes'
  BY <1>2, <1>4 DEF SamlInv, SamlTypes
<1>6. References' /\ OwnCookies'
  BY <1>2, <1>3, <1>4 DEF SamlInv, References, OwnCookies, Requests
<1>7. /\ \A p \in DOMAIN posts :
            /\ Answered(p)' = Answered(p) /\ (HasRequest(p)' <=> HasRequest(p))
            /\ (HasAssertion(p)' <=> HasAssertion(p)) /\ (Here(p)' <=> Here(p))
      /\ ~HasRequest(n)' /\ ~HasAssertion(n)' /\ n \notin signedIn
  BY <1>2, <1>3, <1>4 DEF SamlInv, References, Answered, HasRequest, HasAssertion, Here
<1>8. posts'[n].bound => Here(n)'
  <2>1. Answered(n)' = issued[a].answers /\ posts'[n].browser = b
    BY <1>2, <1>3, <1>4 DEF Answered
  <2>2. ASSUME BoundToBrowser(b, a), issued[a].answers # NoRequest
        PROVE  started[issued[a].answers].browser = b
    BY <2>2 DEF SamlInv, OwnCookies, BoundToBrowser
  <2>3. posts'[n].bound = BoundToBrowser(b, a)
    BY <1>3, <1>4
  <2> QED BY <1>2, <2>1, <2>2, <2>3 DEF Here
<1>9. Bound'
  BY <1>2, <1>3, <1>4, <1>7, <1>8 DEF SamlInv, Bound
<1>10. RequestsUsedUp'
  BY <1>2, <1>4, <1>7 DEF SamlInv, RequestsUsedUp
<1>11. AssertionsUsedUp'
  BY <1>2, <1>3, <1>4, <1>7 DEF SamlInv, AssertionsUsedUp, Used, UsedUntilTooLate, ReplayUntil
<1> QED BY <1>5, <1>6, <1>9, <1>10, <1>11 DEF SamlInv

\* What a post that moves leaves of the facts about posts: nobody else is disturbed.
LEMMA OthersStay ==
    ASSUME SamlInv, NEW p \in DOMAIN posts, NEW from, NEW to \in Stages,
           Goes(p, from, to), UNCHANGED <<started, issued>>
    PROVE  \A q \in DOMAIN posts :
              /\ Answered(q)' = Answered(q) /\ (Here(q)' <=> Here(q))
              /\ ReplayUntil(posts[q].assertion)' = ReplayUntil(posts[q].assertion)
BY OnePostMoves DEF Answered, Here, ReplayUntil

\* A request that is consumed is consumed once.
LEMMA ConsumeKeeps ==
    ASSUME SamlInv, NEW p \in DOMAIN posts, Consume(p)
    PROVE  SamlInv'
<1>1. /\ Goes(p, "posted", "consumed")
      /\ Answered(p) = NoRequest \/ Answered(p) \in stored
      /\ stored' = stored \ {Answered(p)}
      /\ UNCHANGED <<clock, started, tombstones, cookie, issued, signedIn, late>>
  BY DEF Consume, Answered
<1>2. /\ DOMAIN posts' = DOMAIN posts /\ posts' \in Seq(PostRow)
      /\ \A q \in DOMAIN posts :
            /\ posts'[q].browser = posts[q].browser
            /\ posts'[q].assertion = posts[q].assertion
            /\ posts'[q].bound => posts[q].bound
            /\ q # p => posts'[q] = posts[q]
            /\ Answered(q)' = Answered(q) /\ (Here(q)' <=> Here(q))
      /\ posts'[p].stage = "consumed" /\ posts[p].stage = "posted"
  BY <1>1, OnePostMoves, OthersStay DEF Stages
<1>3. SamlTypes' /\ References' /\ OwnCookies'
  BY <1>1, <1>2 DEF SamlInv, SamlTypes, References, OwnCookies, Requests
<1>4. Bound'
  BY <1>1, <1>2 DEF SamlInv, Bound
<1>5. /\ \A q \in DOMAIN posts : q # p => (HasRequest(q)' <=> HasRequest(q))
      /\ \A q \in DOMAIN posts : HasAssertion(q)' <=> HasAssertion(q)
      /\ ~HasAssertion(p)
  BY <1>1, <1>2 DEF SamlInv, Bound, HasRequest, HasAssertion
<1>6. RequestsUsedUp'
  BY <1>1, <1>2, <1>5 DEF SamlInv, RequestsUsedUp
<1>7. AssertionsUsedUp'
  BY <1>1, <1>2, <1>5 DEF SamlInv, AssertionsUsedUp, Used, UsedUntilTooLate, ReplayUntil
<1> QED BY <1>3, <1>4, <1>6, <1>7 DEF SamlInv

\* The row of an assertion has an end.
LEMMA DeadlineIsATime ==
    ASSUME SamlTypes, NEW a \in DOMAIN issued
    PROVE  ReplayUntil(a) \in Nat
<1>1. issued[a] \in AssertionRow
  BY DEF SamlTypes
<1>2. issued[a].until \in Nat /\ issued[a].at \in Nat
  BY <1>1 DEF AssertionRow
<1>3. \A until, at, age, skew \in Nat : Latest(until, at + age) + skew \in Nat
  BY DEF Latest
<1> QED BY <1>2, <1>3, TimesAssumption DEF ReplayUntil

\* The checks let pass only whom the browser's own log-in binds.
LEMMA CheckKeeps ==
    ASSUME SamlInv, NEW p \in DOMAIN posts, Check(p)
    PROVE  SamlInv'
<1>1. /\ Goes(p, "consumed", "checked")
      /\ posts[p].bound /\ clock < ReplayUntil(posts[p].assertion)
      /\ UNCHANGED <<clock, started, stored, tombstones, cookie, issued, signedIn, late>>
  BY DEF Check
<1>2. /\ DOMAIN posts' = DOMAIN posts /\ posts' \in Seq(PostRow)
      /\ \A q \in DOMAIN posts :
            /\ posts'[q].browser = posts[q].browser
            /\ posts'[q].assertion = posts[q].assertion
            /\ posts'[q].bound => posts[q].bound
            /\ q # p => posts'[q] = posts[q]
            /\ Answered(q)' = Answered(q) /\ (Here(q)' <=> Here(q))
      /\ posts'[p].stage = "checked" /\ posts[p].stage = "consumed"
      /\ posts'[p].bound = posts[p].bound
  BY <1>1, OnePostMoves, OthersStay DEF Stages
<1>3. SamlTypes' /\ References' /\ OwnCookies'
  BY <1>1, <1>2 DEF SamlInv, SamlTypes, References, OwnCookies, Requests
<1>4. Bound'
  <2>1. ASSUME NEW q \in DOMAIN posts, q # p
        PROVE  /\ posts'[q].stage \in {"checked", "reserved"} => posts'[q].bound
               /\ posts'[q].bound \/ q \in signedIn => Here(q)
               /\ q \in signedIn => posts'[q].stage = "over"
    BY <1>2, <2>1 DEF SamlInv, Bound
  <2>2. p \notin signedIn /\ Here(p) /\ posts'[p].bound
    BY <1>1, <1>2 DEF SamlInv, Bound
  <2> QED BY <1>1, <1>2, <2>1, <2>2 DEF Bound
<1>5. \A q \in DOMAIN posts :
         /\ HasRequest(q)' <=> HasRequest(q)
         /\ HasAssertion(q)' <=> HasAssertion(q)
  BY <1>1, <1>2 DEF SamlInv, Bound, HasRequest, HasAssertion
<1>6. RequestsUsedUp'
  BY <1>1, <1>2, <1>5 DEF SamlInv, RequestsUsedUp
<1>7. AssertionsUsedUp'
  BY <1>1, <1>2, <1>5 DEF SamlInv, AssertionsUsedUp, Used, UsedUntilTooLate, ReplayUntil
<1> QED BY <1>3, <1>4, <1>6, <1>7 DEF SamlInv

\* An assertion that is reserved is reserved once.
LEMMA ReserveKeeps ==
    ASSUME SamlInv, NEW p \in DOMAIN posts, Reserve(p)
    PROVE  SamlInv'
<1> DEFINE a == posts[p].assertion
<1>1. /\ Goes(p, "checked", "reserved")
      /\ ~Used(a)
      /\ tombstones' = tombstones \cup {[assertion |-> a, until |-> ReplayUntil(a)]}
      /\ late' = IF clock >= ReplayUntil(a) THEN late \cup {p} ELSE late
      /\ UNCHANGED <<clock, started, stored, cookie, issued, signedIn>>
  BY DEF Reserve, Used
<1>2. /\ DOMAIN posts' = DOMAIN posts /\ posts' \in Seq(PostRow)
      /\ \A q \in DOMAIN posts :
            /\ posts'[q].browser = posts[q].browser
            /\ posts'[q].assertion = posts[q].assertion
            /\ posts'[q].bound => posts[q].bound
            /\ q # p => posts'[q] = posts[q]
            /\ Answered(q)' = Answered(q) /\ (Here(q)' <=> Here(q))
      /\ posts'[p].stage = "reserved" /\ posts[p].stage = "checked"
      /\ posts'[p].bound = posts[p].bound
  BY <1>1, OnePostMoves, OthersStay DEF Stages
<1>3. SamlTypes' /\ References' /\ OwnCookies'
  BY <1>1, <1>2 DEF SamlInv, SamlTypes, References, OwnCookies, Requests
<1>4. Bound'
  <2>1. ASSUME NEW q \in DOMAIN posts, q # p
        PROVE  /\ posts'[q].stage \in {"checked", "reserved"} => posts'[q].bound
               /\ posts'[q].bound \/ q \in signedIn => Here(q)
               /\ q \in signedIn => posts'[q].stage = "over"
    BY <1>2, <2>1 DEF SamlInv, Bound
  <2>2. p \notin signedIn /\ Here(p) /\ posts'[p].bound
    BY <1>1, <1>2 DEF SamlInv, Bound
  <2> QED BY <1>1, <1>2, <2>1, <2>2 DEF Bound
<1>5. \A q \in DOMAIN posts :
         /\ HasRequest(q)' <=> HasRequest(q)
         /\ HasAssertion(q)' <=> HasAssertion(q) \/ q = p
  BY <1>1, <1>2 DEF SamlInv, Bound, HasRequest, HasAssertion
<1>6. RequestsUsedUp'
  BY <1>1, <1>2, <1>5 DEF SamlInv, RequestsUsedUp
<1>7. ASSUME NEW q \in DOMAIN posts, HasAssertion(q), posts[q].assertion = a
      PROVE  p \in late'
  <2>1. UsedUntilTooLate(a)
    BY <1>7 DEF SamlInv, AssertionsUsedUp
  <2> QED BY <1>1, <2>1 DEF UsedUntilTooLate, Used
<1>8. /\ \A q \in DOMAIN posts : UsedUntilTooLate(posts[q].assertion) =>
                                  UsedUntilTooLate(posts[q].assertion)'
      /\ \A q \in DOMAIN posts : Used(posts[q].assertion) => Used(posts[q].assertion)'
      /\ UsedUntilTooLate(a)' /\ Used(a)'
  <2>1. \A q \in DOMAIN posts :
           ReplayUntil(posts[q].assertion)' = ReplayUntil(posts[q].assertion)
    BY <1>1, <1>2 DEF ReplayUntil
  <2> DEFINE row == [assertion |-> a, until |-> ReplayUntil(a)]
  <2>2. row \in tombstones' /\ row.assertion = a /\ row.until = ReplayUntil(a)
    BY <1>1
  <2> HIDE DEF row
  <2> QED BY <1>1, <1>2, <2>1, <2>2 DEF UsedUntilTooLate, Used
<1>9. AssertionsUsedUp'
  BY <1>1, <1>2, <1>5, <1>7, <1>8 DEF SamlInv, AssertionsUsedUp
<1> QED BY <1>3, <1>4, <1>6, <1>9 DEF SamlInv

\* Signing in keeps the invariant.
LEMMA SignsInKeeps ==
    ASSUME SamlInv, NEW p \in DOMAIN posts, SignsIn(p)
    PROVE  SamlInv'
<1>1. /\ Goes(p, "reserved", "over")
      /\ signedIn' = signedIn \cup {p}
      /\ cookie' = [cookie EXCEPT ![posts[p].browser] = NoRequest]
      /\ UNCHANGED <<clock, started, stored, tombstones, issued, late>>
  BY DEF SignsIn
<1>2. /\ DOMAIN posts' = DOMAIN posts /\ posts' \in Seq(PostRow)
      /\ \A q \in DOMAIN posts :
            /\ posts'[q].browser = posts[q].browser
            /\ posts'[q].assertion = posts[q].assertion
            /\ posts'[q].bound => posts[q].bound
            /\ q # p => posts'[q] = posts[q]
            /\ Answered(q)' = Answered(q) /\ (Here(q)' <=> Here(q))
      /\ posts'[p].stage = "over" /\ posts[p].stage = "reserved"
  BY <1>1, OnePostMoves, OthersStay DEF Stages
<1>3. SamlTypes' /\ References' /\ OwnCookies'
  <2>1. cookie' \in [Browsers -> Nat] /\ \A b \in Browsers : cookie'[b] \in {cookie[b], NoRequest}
    BY <1>1 DEF SamlInv, SamlTypes, NoRequest
  <2> QED
    BY <1>1, <1>2, <2>1 DEF SamlInv, SamlTypes, References, OwnCookies, Requests
<1>4. Bound'
  BY <1>1, <1>2 DEF SamlInv, Bound
<1>5. \A q \in DOMAIN posts :
         /\ HasRequest(q)' <=> HasRequest(q)
         /\ HasAssertion(q)' <=> HasAssertion(q)
  BY <1>1, <1>2 DEF SamlInv, Bound, HasRequest, HasAssertion
<1>6. RequestsUsedUp'
  BY <1>1, <1>2, <1>5 DEF SamlInv, RequestsUsedUp
<1>7. AssertionsUsedUp'
  BY <1>1, <1>2, <1>5 DEF SamlInv, AssertionsUsedUp, Used, UsedUntilTooLate, ReplayUntil
<1> QED BY <1>3, <1>4, <1>6, <1>7 DEF SamlInv

\* A post that is refused, or ends, keeps it.
LEMMA EndsKeeps ==
    ASSUME SamlInv, NEW p \in DOMAIN posts, PostEnds(p)
    PROVE  SamlInv'
<1> DEFINE new == [posts[p] EXCEPT !.stage = "over", !.bound = FALSE]
<1>1. /\ posts[p].stage # "over"
      /\ posts' = [posts EXCEPT ![p] = new]
      /\ \/ UNCHANGED cookie
         \/ cookie' = [cookie EXCEPT ![posts[p].browser] = NoRequest]
      /\ UNCHANGED <<clock, started, stored, tombstones, issued, signedIn, late>>
  BY DEF PostEnds
<1>2. posts \in Seq(PostRow) /\ posts[p] \in PostRow
  BY DEF SamlInv, SamlTypes
<1>3. /\ new \in PostRow /\ new.stage = "over" /\ ~new.bound
      /\ new.browser = posts[p].browser /\ new.assertion = posts[p].assertion
  BY <1>2 DEF PostRow, Stages
<1> HIDE DEF new
<1>4. /\ DOMAIN posts' = DOMAIN posts /\ posts' \in Seq(PostRow) /\ posts'[p] = new
      /\ \A q \in DOMAIN posts : q # p => posts'[q] = posts[q]
  BY <1>1, <1>2, <1>3
<1>5. \A q \in DOMAIN posts :
         /\ posts'[q].assertion = posts[q].assertion
         /\ Answered(q)' = Answered(q) /\ (Here(q)' <=> Here(q))
         /\ HasRequest(q)' => HasRequest(q)
         /\ HasAssertion(q)' => HasAssertion(q)
         /\ posts'[q].stage = "checked" => posts[q].stage = "checked"
  <2> SUFFICES ASSUME NEW q \in DOMAIN posts
               PROVE  /\ posts'[q].assertion = posts[q].assertion
                      /\ Answered(q)' = Answered(q) /\ (Here(q)' <=> Here(q))
                      /\ HasRequest(q)' => HasRequest(q)
                      /\ HasAssertion(q)' => HasAssertion(q)
                      /\ posts'[q].stage = "checked" => posts[q].stage = "checked"
    OBVIOUS
  <2>1. /\ posts'[q].assertion = posts[q].assertion
        /\ posts'[q].browser = posts[q].browser
        /\ posts'[q].stage = posts[q].stage \/ posts'[q].stage = "over"
    BY <1>3, <1>4
  <2>2. Answered(q)' = Answered(q)
    BY <1>1, <2>1 DEF Answered
  <2> QED BY <1>1, <2>1, <2>2 DEF Here, HasRequest, HasAssertion
<1>6. SamlTypes' /\ References' /\ OwnCookies'
  <2>1. SamlTypes' /\ Requests' = Requests
    BY <1>1, <1>4 DEF SamlInv, SamlTypes, Requests, NoRequest
  <2>2. References'
    BY <1>1, <1>4, <1>5, <2>1 DEF SamlInv, References
  <2>3. OwnCookies'
    BY <1>1, <2>1 DEF SamlInv, SamlTypes, OwnCookies, NoRequest
  <2> QED BY <2>1, <2>2, <2>3
<1>7. Bound'
  BY <1>1, <1>3, <1>4, <1>5 DEF SamlInv, Bound
<1>8. RequestsUsedUp'
  BY <1>1, <1>4, <1>5 DEF SamlInv, RequestsUsedUp
<1>9. AssertionsUsedUp'
  BY <1>1, <1>4, <1>5 DEF SamlInv, AssertionsUsedUp, Used, UsedUntilTooLate, ReplayUntil
<1> QED BY <1>6, <1>7, <1>8, <1>9 DEF SamlInv

\* Rows are swept, and it gets late.
LEMMA TimeKeeps ==
    ASSUME SamlInv, Sweep \/ TimePasses \/ UNCHANGED samlVars
    PROVE  SamlInv'
<1>1. /\ UNCHANGED <<started, cookie, issued, posts, signedIn, late>>
      /\ stored' \subseteq stored /\ clock' \in Nat /\ clock' >= clock
  BY DEF Sweep, TimePasses, samlVars, SamlInv, SamlTypes
<1>2. SamlTypes' /\ References' /\ OwnCookies' /\ Bound' /\ RequestsUsedUp'
  BY <1>1 DEF SamlInv, SamlTypes, References, OwnCookies, Bound, RequestsUsedUp, HasRequest,
     Requests, Here, Answered
<1>3. ASSUME NEW a \in DOMAIN issued, UsedUntilTooLate(a) PROVE UsedUntilTooLate(a)'
  <2>1. ReplayUntil(a) \in Nat /\ ReplayUntil(a)' = ReplayUntil(a) /\ clock \in Nat
    BY <1>1, DeadlineIsATime DEF SamlInv, SamlTypes, ReplayUntil
  <2>2. CASE clock >= ReplayUntil(a)
    BY <1>1, <2>1, <2>2 DEF UsedUntilTooLate
  <2>3. ASSUME NEW t \in tombstones, t.assertion = a, t.until = ReplayUntil(a),
               ~(clock >= ReplayUntil(a))
        PROVE  UsedUntilTooLate(a)'
    <3>1. t \in tombstones'
      BY <2>1, <2>3 DEF Sweep, TimePasses, samlVars
    <3> QED BY <2>1, <2>3, <3>1 DEF UsedUntilTooLate
  <2> QED BY <1>3, <2>2, <2>3 DEF UsedUntilTooLate
<1>4. AssertionsUsedUp'
  BY <1>1, <1>3 DEF SamlInv, References, AssertionsUsedUp, HasAssertion
<1> QED BY <1>2, <1>4 DEF SamlInv

\* Every step of the sign-in keeps the invariant.
LEMMA SamlStep == SamlInv /\ [SamlNext]_samlVars => SamlInv'
<1> SUFFICES ASSUME SamlInv, [SamlNext]_samlVars PROVE SamlInv'
  OBVIOUS
<1> QED
  BY StartKeeps, IssueKeeps, PostKeeps, ConsumeKeeps, CheckKeeps, ReserveKeeps,
     SignsInKeeps, EndsKeeps, TimeKeeps DEF SamlNext

\* Requests and assertions that are in use are used up for all other posts, and a post
\* that has passed the checks is bound to the browser that began the log-in.
THEOREM SamlInvariant == SamlSpec => []SamlInv
BY InitSaml, SamlStep, PTL DEF SamlSpec

\* However many log-ins, answers, posts, replicas and sweeps there are, a request signs in
\* once, and an assertion once unless a post that was checked in time reserves it only
\* when its row may have been swept (consume and reserveSamlAssertionId of saml-cache.ts),
\* and only the browser that began the log-in (the cookie that samlAcs compares).
THEOREM SignsInOnce == SamlSpec => []SignInOnce
<1>1. ASSUME SamlInv PROVE SignInOnce
  <2>1. UsedOnce
    BY <1>1 DEF SamlInv, References, RequestsUsedUp, AssertionsUsedUp, HasRequest,
       HasAssertion, UsedOnce
  <2>2. SignedInWhereStarted
    BY <1>1 DEF SamlInv, References, Bound, Here, SignedInWhereStarted
  <2> QED BY <2>1, <2>2 DEF SignInOnce
<1> QED BY <1>1, SamlInvariant, PTL

-----------------------------------------------------------------------------
(* ScannerImport: what a run has planned, has made so far and has made.     *)

PlannedStages == {"read", "previewed", "applying", "applied"}
RunState ==
    {NoRun}
    \cup [stage : {"stored"}, batch : Batches]
    \cup [stage : PlannedStages, batch : Batches, creates : SUBSET Nat, chosen : SUBSET Nat,
          todo : SUBSET Nat, made : SUBSET Nat, fresh : SUBSET {Asset[f] : f \in Fingerprints},
          at : Nat]

IdIn(x, n) == Identifier[x.batch[n]]

\* What is to be created has an identifier each.
PlanInOrder(x) ==
    x.stage \in PlannedStages =>
        /\ x.creates \subseteq DOMAIN x.batch
        /\ x.made \subseteq x.chosen /\ x.chosen \subseteq x.creates
        /\ \A n, m \in x.creates : IdIn(x, n) = IdIn(x, m) => n = m
        /\ x.stage \in {"read", "previewed"} => x.at = 0

\* What has been made is not there yet for others; what has not is still to do or is there.
ProgressInOrder(x) ==
    x.stage = "applying" =>
        /\ x.todo \subseteq x.chosen /\ x.at \in x.todo \cup {0}
        /\ \A n \in x.chosen : n \in x.todo \/ n \in x.made \/ Taken(IdIn(x, n))
        /\ \A n \in x.made : ~Taken(IdIn(x, n))

ResultInOrder(r, x) ==
    x.stage = "applied" =>
        /\ \A n \in x.chosen : Taken(IdIn(x, n))
        /\ \A n \in x.made : \E row \in findings : row.run = r /\ row.fingerprint = x.batch[n]
        /\ \A row \in findings : row.run = r => \E n \in x.made : row.fingerprint = x.batch[n]

\* Of two transactions no two rows have one identifier.
Apart(x, y) ==
    x.stage = "applying" /\ y.stage = "applying" =>
        \A n \in x.made, m \in y.made : IdIn(x, n) # IdIn(y, m)

ImportInv ==
    /\ findings \subseteq Row /\ runs \in [Runs -> RunState]
    /\ OneFindingPerIdentifier
    /\ \A row \in findings : runs[row.run].stage = "applied"
    /\ \A r \in Runs : PlanInOrder(runs[r]) /\ ProgressInOrder(runs[r]) /\ ResultInOrder(r, runs[r])
    /\ \A r, q \in Runs : r # q => Apart(runs[r], runs[q])

\* Before the first run all is in order.
LEMMA InitImport == ImportInit => ImportInv
BY DEF ImportInit, ImportInv, RunState, NoRun, OneFindingPerIdentifier, PlanInOrder,
   ProgressInOrder, ResultInOrder, Apart, PlannedStages

\* A run moves on that neither was nor is applied: the findings stay.
LEMMA RunMoves ==
    ASSUME ImportInv, NEW r \in Runs, NEW x \in RunState, UNCHANGED findings,
           runs' = [runs EXCEPT ![r] = x],
           runs[r].stage # "applied", x.stage # "applied",
           PlanInOrder(x), ProgressInOrder(x),
           x.stage = "applying" => \A n \in x.made : ~HeldElsewhere(r, IdIn(x, n))
    PROVE  ImportInv'
<1>1. /\ runs' \in [Runs -> RunState] /\ runs'[r] = x
      /\ \A q \in Runs : q # r => runs'[q] = runs[q]
  BY DEF ImportInv
<1>2. \A row \in findings' : runs'[row.run].stage = "applied"
  BY <1>1 DEF ImportInv, Row
<1>3. ASSUME NEW q \in Runs
      PROVE  /\ PlanInOrder(runs[q])' /\ ProgressInOrder(runs[q])'
             /\ ResultInOrder(q, runs[q])'
  <2>1. CASE q = r
    BY <1>1, <2>1 DEF PlanInOrder, ProgressInOrder, ResultInOrder, Taken, IdIn
  <2>2. CASE q # r
    BY <1>1, <2>2 DEF ImportInv, PlanInOrder, ProgressInOrder, ResultInOrder, Taken, IdIn
  <2> QED BY <2>1, <2>2
<1>4. ASSUME NEW q \in Runs, q # r PROVE Apart(x, runs[q]) /\ Apart(runs[q], x)
  BY <1>4 DEF Apart, HeldElsewhere, Id, IdIn
<1>5. ASSUME NEW q \in Runs, NEW p \in Runs, q # p PROVE Apart(runs[q], runs[p])'
  <2>1. Apart(runs'[q], runs'[p])
    BY <1>1, <1>4, <1>5 DEF ImportInv
  <2> QED BY <2>1 DEF Apart, IdIn
<1> QED
  BY <1>1, <1>2, <1>3, <1>5 DEF ImportInv, OneFindingPerIdentifier

\* What a run that is planned holds.
LEMMA PlannedRun ==
    ASSUME ImportInv, NEW r \in Runs, runs[r].stage \in PlannedStages
    PROVE  /\ runs[r].batch \in Batches
           /\ runs[r].creates \subseteq Nat /\ runs[r].chosen \subseteq Nat
           /\ runs[r].todo \subseteq Nat /\ runs[r].made \subseteq Nat /\ runs[r].at \in Nat
           /\ runs[r].fresh \subseteq {Asset[f] : f \in Fingerprints}
           /\ runs[r] \in [stage : PlannedStages, batch : Batches, creates : SUBSET Nat,
                           chosen : SUBSET Nat, todo : SUBSET Nat, made : SUBSET Nat,
                           fresh : SUBSET {Asset[f] : f \in Fingerprints}, at : Nat]
<1>1. runs[r] \in RunState
  BY DEF ImportInv
<1>2. runs[r] \in [stage : PlannedStages, batch : Batches, creates : SUBSET Nat,
                   chosen : SUBSET Nat, todo : SUBSET Nat, made : SUBSET Nat,
                   fresh : SUBSET {Asset[f] : f \in Fingerprints}, at : Nat]
  BY <1>1 DEF RunState, NoRun, PlannedStages
<1> QED BY <1>2

\* What a batch would create has an identifier each.
LEMMA CreatesInOrder ==
    ASSUME NEW batch \in Batches
    PROVE  /\ Creates(batch) \subseteq DOMAIN batch /\ Creates(batch) \subseteq Nat
           /\ \A n, m \in Creates(batch) : Identifier[batch[n]] = Identifier[batch[m]] => n = m
<1>1. batch \in Seq(Fingerprints)
  BY ImportAssumption
<1>2. DOMAIN batch = 1..Len(batch) /\ Len(batch) \in Nat
  BY <1>1
<1> QED BY <1>2 DEF Creates

\* Reading, previewing and giving up a run keep the invariant.
LEMMA PreviewKeeps ==
    ASSUME ImportInv, NEW r \in Runs,
           \/ \E batch \in Batches : StoreReport(r, batch)
           \/ LookForDuplicates(r) \/ InsertRun(r) \/ GiveUp(r)
    PROVE  ImportInv'
<1>1. ASSUME NEW batch \in Batches, StoreReport(r, batch) PROVE ImportInv'
  <2> DEFINE x == [stage |-> "stored", batch |-> batch]
  <2>1. x \in RunState /\ PlanInOrder(x) /\ ProgressInOrder(x)
    BY DEF RunState, PlanInOrder, ProgressInOrder, PlannedStages
  <2>2. /\ runs[r].stage = "none" /\ x.stage = "stored" /\ UNCHANGED findings
        /\ runs' = [runs EXCEPT ![r] = x]
    BY <1>1 DEF StoreReport, NoRun
  <2> HIDE DEF x
  <2> QED BY <2>1, <2>2, RunMoves
<1>2. CASE LookForDuplicates(r)
  <2> DEFINE batch == runs[r].batch
             x == [stage |-> "read", batch |-> batch, creates |-> Creates(batch),
                   chosen |-> {}, todo |-> {}, made |-> {}, fresh |-> {}, at |-> 0]
  <2>1. batch \in Batches
    BY <1>2 DEF LookForDuplicates, ImportInv, RunState, NoRun, PlannedStages
  <2>2. x \in RunState /\ PlanInOrder(x) /\ ProgressInOrder(x)
    BY <2>1, CreatesInOrder DEF RunState, PlanInOrder, ProgressInOrder, PlannedStages, IdIn
  <2> QED BY <1>2, <2>2, RunMoves DEF LookForDuplicates
<1>3. CASE InsertRun(r)
  <2> DEFINE x == [runs[r] EXCEPT !.stage = "previewed"]
  <2>1. x \in RunState
    BY <1>3, PlannedRun DEF InsertRun, RunState, PlannedStages
  <2>2. /\ runs[r].stage = "read" /\ x.stage = "previewed" /\ x.batch = runs[r].batch
        /\ x.creates = runs[r].creates /\ x.made = runs[r].made
        /\ x.chosen = runs[r].chosen /\ x.at = runs[r].at
    BY <1>3, PlannedRun DEF InsertRun, PlannedStages
  <2> HIDE DEF x
  <2>3. PlanInOrder(x)
    <3>1. PlanInOrder(runs[r])
      BY DEF ImportInv
    <3> QED BY <2>2, <3>1 DEF PlanInOrder, PlannedStages, IdIn
  <2>4. ProgressInOrder(x)
    BY <2>2 DEF ProgressInOrder
  <2> USE DEF x
  <2> QED BY <1>3, <2>1, <2>3, <2>4, RunMoves, PlannedRun DEF InsertRun, PlannedStages
<1>4. CASE GiveUp(r)
  <2>1. CASE /\ runs[r].stage \in {"stored", "read"}
             /\ runs' = [runs EXCEPT ![r] = NoRun]
    BY <1>4, <2>1, RunMoves DEF GiveUp, NoRun, RunState, PlanInOrder, ProgressInOrder,
       PlannedStages
  <2>2. CASE runs[r].stage = "applying"
    <3> DEFINE x == [runs[r] EXCEPT !.stage = "previewed", !.chosen = {}, !.todo = {},
                                    !.made = {}, !.fresh = {}, !.at = 0]
    <3>1. x \in RunState
      BY <2>2, PlannedRun DEF RunState, PlannedStages
    <3>2. PlanInOrder(x) /\ ProgressInOrder(x)
      BY <2>2, PlannedRun DEF ImportInv, PlanInOrder, ProgressInOrder, PlannedStages, IdIn
    <3> QED BY <1>4, <2>2, <3>1, <3>2, RunMoves, PlannedRun DEF GiveUp, PlannedStages
  <2> QED BY <1>4, <2>1, <2>2 DEF GiveUp
<1> QED BY <1>1, <1>2, <1>3, <1>4

\* The steps of a run's transaction keep it.
LEMMA ApplyKeeps ==
    ASSUME ImportInv, NEW r \in Runs,
           \/ BeginApply(r) \/ InsertItem(r)
           \/ \E n \in runs[r].todo : SkipItem(r, n) \/ PrepareItem(r, n)
    PROVE  ImportInv'
<1> DEFINE Planned == [stage : PlannedStages, batch : Batches, creates : SUBSET Nat,
                       chosen : SUBSET Nat, todo : SUBSET Nat, made : SUBSET Nat,
                       fresh : SUBSET {Asset[f] : f \in Fingerprints}, at : Nat]
           old == runs[r]
<1>1. /\ old.stage \in {"previewed", "applying"} /\ UNCHANGED findings
      /\ old \in Planned /\ Planned \subseteq RunState
      /\ PlanInOrder(old) /\ ProgressInOrder(old)
  BY PlannedRun DEF BeginApply, SkipItem, PrepareItem, InsertItem, PlannedStages, ImportInv,
     RunState
<1>2. CASE BeginApply(r)
  <2>1. PICK chosen \in SUBSET old.creates :
          runs' = [runs EXCEPT ![r] =
              [old EXCEPT !.stage = "applying", !.chosen = chosen, !.todo = chosen, !.made = {}]]
    BY <1>2 DEF BeginApply
  <2> DEFINE x == [old EXCEPT !.stage = "applying", !.chosen = chosen, !.todo = chosen,
                              !.made = {}]
  <2>2. /\ x \in Planned /\ x.stage = "applying" /\ x.made = {} /\ x.chosen = chosen
        /\ x.todo = chosen /\ x.creates = old.creates /\ x.batch = old.batch /\ x.at = old.at
    BY <1>1 DEF PlannedStages
  <2>3. old.at = 0 /\ old.stage = "previewed"
    BY <1>1, <1>2 DEF BeginApply, PlanInOrder, PlannedStages
  <2> HIDE DEF x
  <2>4. PlanInOrder(x) /\ ProgressInOrder(x)
    BY <1>1, <2>2, <2>3 DEF PlanInOrder, ProgressInOrder, PlannedStages, IdIn
  <2>5. runs' = [runs EXCEPT ![r] = x]
    BY <2>1 DEF x
  <2> QED BY <1>1, <2>2, <2>3, <2>4, <2>5, RunMoves
<1>3. ASSUME NEW n \in old.todo, SkipItem(r, n) PROVE ImportInv'
  <2> DEFINE x == [old EXCEPT !.todo = old.todo \ {n}]
  <2>1. runs' = [runs EXCEPT ![r] = x] /\ old.stage = "applying" /\ old.at = 0
    BY <1>3 DEF SkipItem
  <2>2. x \in Planned /\ x.stage = "applying" /\ x.made = old.made
    BY <1>1, <2>1
  <2>3. PlanInOrder(x) /\ ProgressInOrder(x)
    BY <1>1, <1>3, <2>1 DEF PlanInOrder, ProgressInOrder, PlannedStages, IdIn, SkipItem, Id
  <2>4. \A m \in x.made : ~HeldElsewhere(r, IdIn(x, m))
    BY <1>1, <2>1 DEF ImportInv, Apart, HeldElsewhere, Id, IdIn
  <2> QED BY <1>1, <2>1, <2>2, <2>3, <2>4, RunMoves
<1>4. ASSUME NEW n \in old.todo, PrepareItem(r, n) PROVE ImportInv'
  <2> DEFINE a == Asset[old.batch[n]]
             fresh == IF a \in assets THEN old.fresh ELSE old.fresh \cup {a}
             x == [old EXCEPT !.at = n, !.fresh = fresh]
  <2>1. runs' = [runs EXCEPT ![r] = x] /\ old.stage = "applying"
    BY <1>4 DEF PrepareItem
  <2>2. a \in {Asset[f] : f \in Fingerprints} /\ n \in Nat
    <3>1. old.batch \in Seq(Fingerprints) /\ n \in DOMAIN old.batch
      BY <1>1, <2>1, ImportAssumption DEF PlanInOrder, ProgressInOrder
    <3>2. old.batch[n] \in Fingerprints /\ n \in Nat
      BY <3>1
    <3> QED BY <3>2
  <2>3. fresh \in SUBSET {Asset[f] : f \in Fingerprints}
    BY <1>1, <2>2
  <2> HIDE DEF fresh
  <2>4. x \in Planned /\ x.stage = "applying" /\ x.made = old.made
    BY <1>1, <2>1, <2>2, <2>3
  <2>5. PlanInOrder(x) /\ ProgressInOrder(x)
    BY <1>1, <2>1 DEF PlanInOrder, ProgressInOrder, PlannedStages, IdIn
  <2>6. \A m \in x.made : ~HeldElsewhere(r, IdIn(x, m))
    BY <1>1, <2>1 DEF ImportInv, Apart, HeldElsewhere, Id, IdIn
  <2> QED BY <1>1, <2>1, <2>4, <2>5, <2>6, RunMoves
<1>5. CASE InsertItem(r)
  <2> DEFINE n == old.at
             made == IF Taken(IdIn(old, n)) THEN old.made ELSE old.made \cup {n}
             x == [old EXCEPT !.at = 0, !.todo = old.todo \ {n}, !.made = made]
  <2>1. /\ runs' = [runs EXCEPT ![r] = x] /\ old.stage = "applying" /\ n \in old.todo
        /\ ~HeldElsewhere(r, IdIn(old, n))
    <3>1. /\ old.stage = "applying" /\ n # 0 /\ ~HeldElsewhere(r, IdIn(old, n))
          /\ runs' = [runs EXCEPT ![r].at = 0, ![r].todo = @ \ {n}, ![r].made = made]
      BY <1>5 DEF InsertItem, Conflicts, Id, IdIn
    <3> QED BY <1>1, <3>1 DEF ProgressInOrder
  <2>2. /\ x \in Planned /\ x.stage = "applying" /\ x.at = 0 /\ x.todo = old.todo \ {n}
        /\ x.made = made /\ x.chosen = old.chosen /\ x.creates = old.creates
        /\ x.batch = old.batch
    BY <1>1, <2>1
  <2>3. made \subseteq old.chosen /\ \A m \in made : ~Taken(IdIn(old, m))
    BY <1>1, <2>1 DEF PlanInOrder, ProgressInOrder, PlannedStages
  <2>4. PlanInOrder(x)
    BY <1>1, <2>1, <2>2, <2>3 DEF PlanInOrder, PlannedStages, IdIn
  <2>5. ProgressInOrder(x)
    BY <1>1, <2>1, <2>2, <2>3 DEF ProgressInOrder, IdIn
  <2>6. \A m \in old.made : ~HeldElsewhere(r, IdIn(old, m))
    BY <1>1, <2>1 DEF ImportInv, Apart, HeldElsewhere, Id, IdIn
  <2>7. \A m \in x.made : ~HeldElsewhere(r, IdIn(x, m))
    BY <2>1, <2>2, <2>6 DEF IdIn
  <2> HIDE DEF x
  <2> QED BY <1>1, <2>1, <2>2, <2>4, <2>5, <2>7, RunMoves
<1> QED BY <1>2, <1>3, <1>4, <1>5

\* The rows of a transaction become visible together, and collide with no other.
LEMMA CommitKeeps ==
    ASSUME ImportInv, NEW r \in Runs, CommitApply(r)
    PROVE  ImportInv'
<1> DEFINE old == runs[r]
           Made(n) == [fingerprint |-> old.batch[n], run |-> r, live |-> TRUE]
           x == [old EXCEPT !.stage = "applied", !.fresh = {}]
<1>1. /\ old.stage = "applying" /\ old.todo = {}
      /\ findings' = findings \cup {Made(n) : n \in old.made}
      /\ runs' = [runs EXCEPT ![r] = x]
  BY DEF CommitApply
<1>2. /\ PlanInOrder(old) /\ ProgressInOrder(old) /\ old.made \subseteq DOMAIN old.batch
      /\ old.batch \in Seq(Fingerprints)
  BY <1>1, PlannedRun, ImportAssumption DEF ImportInv, PlanInOrder, PlannedStages
<1>3. /\ x \in RunState /\ x.stage = "applied" /\ x.made = old.made
      /\ x.chosen = old.chosen /\ x.creates = old.creates /\ x.batch = old.batch
  BY <1>1, PlannedRun DEF RunState, PlannedStages
<1> HIDE DEF x
<1>4. /\ runs' \in [Runs -> RunState] /\ runs'[r] = x
      /\ \A q \in Runs : q # r => runs'[q] = runs[q]
  BY <1>1, <1>3 DEF ImportInv
<1>5. \A n \in old.made :
         /\ Made(n) \in Row /\ Made(n).run = r /\ Made(n).fingerprint = old.batch[n]
         /\ Made(n) \in findings'
  <2>1. \A n \in old.made : old.batch[n] \in Fingerprints
    BY <1>2
  <2> QED BY <1>1, <2>1 DEF Row
<1>6. \A row \in findings' :
         \/ row \in findings /\ row.run # r
         \/ \E n \in old.made : row = Made(n)
  BY <1>1 DEF ImportInv
<1> HIDE DEF Made
<1>7. findings' \subseteq Row
  BY <1>1, <1>5 DEF ImportInv
<1>8. OneFindingPerIdentifier'
  <2>1. ASSUME NEW row \in findings, NEW n \in old.made
        PROVE  Identifier[row.fingerprint] # Identifier[Made(n).fingerprint]
    BY <1>1, <1>2, <1>5 DEF ProgressInOrder, Taken, IdIn
  <2>2. ASSUME NEW n \in old.made, NEW m \in old.made,
               Identifier[Made(n).fingerprint] = Identifier[Made(m).fingerprint]
        PROVE  n = m
    BY <1>1, <1>2, <1>5, <2>2 DEF PlanInOrder, PlannedStages, IdIn
  <2>3. \A a, b \in findings :
           Identifier[a.fingerprint] = Identifier[b.fingerprint] => a = b
    BY DEF ImportInv, OneFindingPerIdentifier
  <2> QED BY <1>6, <2>1, <2>2, <2>3 DEF OneFindingPerIdentifier
<1>9. \A row \in findings' : runs'[row.run].stage = "applied"
  BY <1>3, <1>4, <1>5, <1>6 DEF ImportInv, Row
<1>10. \A id : Taken(id)' <=> Taken(id) \/ \E n \in old.made : IdIn(old, n) = id
  BY <1>1, <1>5, <1>6 DEF Taken, IdIn
<1>11. ASSUME NEW q \in Runs, q # r
       PROVE  /\ PlanInOrder(runs[q])' /\ ProgressInOrder(runs[q])'
              /\ ResultInOrder(q, runs[q])'
  <2>1. PlanInOrder(runs[q]) /\ ProgressInOrder(runs[q]) /\ ResultInOrder(q, runs[q])
    BY DEF ImportInv
  <2>2. PlanInOrder(runs[q])'
    BY <1>4, <1>11, <2>1 DEF PlanInOrder, IdIn
  <2>3. ProgressInOrder(runs[q])'
    <3>1. Apart(old, runs[q])
      BY <1>11 DEF ImportInv
    <3> QED BY <1>1, <1>4, <1>10, <1>11, <2>1, <3>1 DEF ProgressInOrder, Apart, IdIn
  <2>4. ResultInOrder(q, runs[q])'
    <3>1. \A row \in findings' : row.run = q => row \in findings
      BY <1>5, <1>6, <1>11
    <3>2. findings \subseteq findings'
      BY <1>1
    <3> QED BY <1>4, <1>10, <1>11, <2>1, <3>1, <3>2 DEF ResultInOrder, IdIn
  <2> QED BY <2>2, <2>3, <2>4
<1>12. PlanInOrder(x) /\ ProgressInOrder(x)
  BY <1>1, <1>2, <1>3 DEF PlanInOrder, ProgressInOrder, PlannedStages, IdIn
<1>13. ResultInOrder(r, runs[r])'
  <2>1. \A n \in old.chosen : Taken(IdIn(old, n)) \/ n \in old.made
    BY <1>1, <1>2 DEF ProgressInOrder
  <2>2. \A row \in findings' : row.run = r => \E n \in x.made : row.fingerprint = x.batch[n]
    BY <1>3, <1>5, <1>6
  <2>3. \A n \in x.made : \E row \in findings' : row.run = r /\ row.fingerprint = x.batch[n]
    BY <1>3, <1>5
  <2> QED BY <1>3, <1>4, <1>10, <2>1, <2>2, <2>3 DEF ResultInOrder, IdIn
<1>14. ASSUME NEW q \in Runs PROVE PlanInOrder(runs[q])' /\ ProgressInOrder(runs[q])'
  <2>1. CASE q = r
    BY <1>3, <1>4, <1>12, <2>1 DEF PlanInOrder, ProgressInOrder, IdIn
  <2> QED BY <1>11, <2>1
<1>15. ASSUME NEW q \in Runs, NEW p \in Runs, q # p PROVE Apart(runs[q], runs[p])'
  <2>1. CASE q # r /\ p # r
    BY <1>4, <1>15, <2>1 DEF ImportInv, Apart, IdIn
  <2>2. CASE q = r \/ p = r
    BY <1>3, <1>4, <2>2 DEF Apart
  <2> QED BY <2>1, <2>2
<1> QED
  BY <1>4, <1>7, <1>8, <1>9, <1>11, <1>13, <1>14, <1>15 DEF ImportInv

\* The deleted and the revived finding has its identifier still.
LEMMA DeleteKeeps ==
    ASSUME ImportInv, NEW row \in findings, DeleteOrRevive(row)
    PROVE  ImportInv'
<1> DEFINE new == [row EXCEPT !.live = ~row.live]
<1>1. /\ findings' = (findings \ {row}) \cup {new} /\ runs' = runs
      /\ new \in Row /\ new.fingerprint = row.fingerprint /\ new.run = row.run
  BY DEF DeleteOrRevive, ImportInv, Row
<1> HIDE DEF new
<1>2. /\ \A a \in findings' : \E b \in findings :
            a.fingerprint = b.fingerprint /\ a.run = b.run
      /\ \A b \in findings : \E a \in findings' : a.fingerprint = b.fingerprint /\ a.run = b.run
  <2>1. \A a \in findings' : a \in findings \/ a = new
    BY <1>1
  <2>2. \A b \in findings : b \in findings' \/ b = row
    BY <1>1
  <2> QED BY <1>1, <2>1, <2>2
<1>3. OneFindingPerIdentifier'
  BY <1>1 DEF ImportInv, OneFindingPerIdentifier
<1>4. findings' \subseteq Row /\ \A a \in findings' : runs'[a.run].stage = "applied"
  BY <1>1 DEF ImportInv
<1>5. \A id : Taken(id)' <=> Taken(id)
  BY <1>2 DEF Taken
<1>6. ASSUME NEW r \in Runs
      PROVE  /\ PlanInOrder(runs[r])' /\ ProgressInOrder(runs[r])'
             /\ ResultInOrder(r, runs[r])'
  <2>1. PlanInOrder(runs[r]) /\ ProgressInOrder(runs[r]) /\ ResultInOrder(r, runs[r])
    BY DEF ImportInv
  <2>2. PlanInOrder(runs[r])' /\ ProgressInOrder(runs[r])'
    BY <1>1, <1>5, <2>1 DEF PlanInOrder, ProgressInOrder, IdIn
  <2>3. ResultInOrder(r, runs[r])'
    BY <1>1, <1>2, <1>5, <2>1 DEF ResultInOrder, IdIn
  <2> QED BY <2>2, <2>3
<1>7. \A r, q \in Runs : r # q => Apart(runs[r], runs[q])'
  BY <1>1 DEF ImportInv, Apart, IdIn
<1> QED BY <1>1, <1>3, <1>4, <1>6, <1>7 DEF ImportInv

\* Every step of an import keeps the invariant.
LEMMA ImportStep == ImportInv /\ [ImportNext]_importVars => ImportInv'
<1> SUFFICES ASSUME ImportInv, [ImportNext]_importVars PROVE ImportInv'
  OBVIOUS
<1>1. CASE CloseEngagement \/ UNCHANGED importVars
  BY <1>1 DEF CloseEngagement, importVars, ImportInv, OneFindingPerIdentifier, PlanInOrder,
     ProgressInOrder, ResultInOrder, Apart, Taken, IdIn
<1> QED
  BY <1>1, PreviewKeeps, ApplyKeeps, CommitKeeps, DeleteKeeps DEF ImportNext

\* What a run has planned has an identifier each, what transactions hold is disjoint from
\* each other and from what is committed, and what a run made has its rows.
THEOREM ImportInvariant == ImportSpec => []ImportInv
BY InitImport, ImportStep, PTL DEF ImportSpec

\* Rows and the items they were made from are matched by their fingerprints.
LEMMA RowsPerItem ==
    ASSUME ImportInv, NEW r \in Runs, runs[r].stage = "applied"
    PROVE  Cardinality({x \in findings : x.run = r}) = Cardinality(runs[r].made)
<1> DEFINE made == runs[r].made
           rows == {x \in findings : x.run = r}
           print == [x \in rows |-> CHOOSE n \in made : x.fingerprint = runs[r].batch[n]]
<1>1. /\ PlanInOrder(runs[r]) /\ ResultInOrder(r, runs[r])
      /\ made \subseteq DOMAIN runs[r].batch /\ runs[r].batch \in Seq(Fingerprints)
  BY PlannedRun, ImportAssumption DEF ImportInv, PlanInOrder, PlannedStages
<1>2. /\ print \in [rows -> made]
      /\ \A x \in rows : x.fingerprint = runs[r].batch[print[x]]
  BY <1>1 DEF ResultInOrder
<1>3. \A n, m \in made : runs[r].batch[n] = runs[r].batch[m] => n = m
  BY <1>1 DEF PlanInOrder, PlannedStages, IdIn
<1>4. \A x, y \in rows : x.fingerprint = y.fingerprint => x = y
  BY DEF ImportInv, OneFindingPerIdentifier
<1>5. \A n \in made : \E x \in rows : print[x] = n
  BY <1>1, <1>2, <1>3 DEF ResultInOrder
<1>6. print \in Bijection(rows, made)
  <2> HIDE DEF print, made, rows
  <2>1. \A x, y \in rows : print[x] = print[y] => x = y
    BY <1>2, <1>4
  <2> QED BY <1>2, <1>5, <2>1, Fun_IsBij
<1>7. IsFiniteSet(made)
  <2>1. DOMAIN runs[r].batch = 1..Len(runs[r].batch) /\ Len(runs[r].batch) \in Nat
    BY <1>1
  <2>2. IsFiniteSet(1..Len(runs[r].batch))
    BY <2>1, FS_Interval
  <2> QED BY <1>1, <2>1, <2>2, FS_Subset
<1>8. Inverse(print, rows, made) \in Bijection(made, rows)
  BY <1>6, Fun_BijInverse
<1> HIDE DEF print, made, rows
<1>9. ExistsBijection(made, rows)
  BY <1>8 DEF ExistsBijection
<1> QED BY <1>7, <1>9, FS_Bijection DEF made, rows

\* However previews and applications of scanners' reports overlap, an identifier has one
\* finding in the engagement, and a run has made what it says, all of it or nothing.
THEOREM ImportsKeepCount == ImportSpec => []ImportsAddUp
<1>1. ASSUME ImportInv PROVE ImportsAddUp
  <2>1. OneFindingPerIdentifier
    BY <1>1 DEF ImportInv
  <2>2. ASSUME NEW r \in Runs, runs[r].stage # "applied"
        PROVE  {x \in findings : x.run = r} = {}
    BY <1>1, <2>2 DEF ImportInv
  <2>3. ASSUME NEW r \in Runs, runs[r].stage = "applied"
        PROVE  /\ Cardinality({x \in findings : x.run = r}) = Cardinality(runs[r].made)
               /\ \A n \in runs[r].chosen : Taken(Id(r, n))
    BY <1>1, <2>3, RowsPerItem DEF ImportInv, ResultInOrder, IdIn, Id
  <2> QED BY <2>1, <2>2, <2>3 DEF ImportsAddUp, RunsAddUp
<1> QED BY <1>1, ImportInvariant, PTL

-----------------------------------------------------------------------------
(* MemberAccess, with any number of requests between their steps.           *)

Times == 1..MaxTime
Membership == [state : {"none", "active", "deleted"}, role : Roles, cut : 0..MaxTime]
Session == [user : Members, created : Times, proved : Times]
Offer == [state : {"open"}, by : Members, user : Members, role : Roles]
Request ==
    [kind : {"revoke", "deactivate", "saml"}, user : Members, at : Times]
    \cup [kind : {"role", "push"}, user : Members, role : Roles]
    \cup [kind : {"accept"}, user : Members, role : Roles, invitation : Invitations]
    \cup [kind : {"rotate"}, session : Session]

AccessTypes ==
    /\ now \in Times
    /\ member \in [Members -> Membership]
    /\ sessions \subseteq Session
    /\ invitations \in [Invitations -> Offer \cup [state : {"none", "closed"}]]
    /\ pending \subseteq Request
    /\ IsFiniteSet(pending) /\ Cardinality(pending) <= MaxRequests
    /\ ended \in [Members -> 0..MaxTime]

\* What is under way together is on record: the sessions of a member who is not there,
\* and the owners when nothing is, are safe from one another's requests.
Recorded == Overtaken \subseteq overtaken /\ (contested \/ OneDethroned)

\* Whose ownership a request may end is not the only owner.
OwnerBehind(q) == Dethrones(q) => \E v \in Owners : v # q.user
HasOwner == Owners # {}
OwnersInv == HasOwner /\ \A q \in pending : OwnerBehind(q)

\* The row of a membership holds the latest revocation, and no session that was made
\* after it was proved before it.
CutKept(u) ==
    /\ member[u].cut = ended[u] /\ ended[u] <= now
    /\ member[u].state = "none" => ended[u] = 0
Proved(u) ==
    \A s \in sessions :
        s.user = u => s.created <= now /\ (s.created > ended[u] => s.proved > ended[u])

\* A request that was decided is still right about the revocations and sessions it saw.
StillRight(q) ==
    /\ Revokes(q) =>
          /\ ended[q.user] <= q.at /\ q.at <= now /\ member[q.user].state # "none"
          /\ \A s \in sessions : s.user = q.user /\ s.created > q.at => s.proved > q.at
    /\ q.kind = "saml" => q.at > ended[q.user]
    /\ q.kind = "rotate" => q.session.proved > ended[q.session.user]
OfMember(u) ==
    CutKept(u) /\ Proved(u) /\ \A q \in pending : Subject(q) = u => StillRight(q)
SessionsInv == \A u \in Members \ overtaken : OfMember(u)

\* The steps, by what they write: requests that are decided, and what is beside them.
Asks ==
    \/ \E a, u \in Members :
          BeginRevocation(a, u) \/ \E role \in Roles : BeginRoleChange(a, u, role)
    \/ \E u \in Members :
          BeginSaml(u) \/ BeginDeactivation(u) \/ \E role \in Assignable : BeginPush(u, role)
    \/ \E i \in Invitations : BeginAcceptance(i)
    \/ \E s \in sessions : BeginRotation(s)
Beside ==
    \/ \E a, u \in Members, i \in Invitations, role \in Roles : Invite(a, i, u, role)
    \/ \E i \in Invitations : WithdrawInvitation(i)
    \/ \E u \in Members :
          SignIn(u) \/ Reactivate(u) \/ \E state \in {"active", "deleted"} : Provision(u, state)
    \/ \E s \in sessions : EndSession(s)
    \/ Tick \/ UNCHANGED accessVars

\* An organisation begins with its founder, who owns it.
LEMMA InitAccess == AccessInit => AccessTypes /\ Recorded /\ OwnersInv /\ SessionsInv
<1> SUFFICES ASSUME AccessInit PROVE AccessTypes /\ Recorded /\ OwnersInv /\ SessionsInv
  OBVIOUS
<1>1. IsFiniteSet(pending) /\ Cardinality(pending) <= MaxRequests
  BY FS_EmptySet, AccessAssumption DEF AccessInit
<1>2. AccessTypes
  <2>1. [user |-> Founder, created |-> 1, proved |-> 1] \in Session
    BY AccessAssumption DEF Session, Times
  <2>2. NotMember \in Membership /\ [state |-> "active", role |-> "owner", cut |-> 0] \in Membership
    BY AccessAssumption DEF NotMember, Membership, Roles
  <2> QED BY <1>1, <2>1, <2>2, AccessAssumption DEF AccessInit, AccessTypes, Times
<1>3. Founder \in Owners
  BY AccessAssumption DEF AccessInit, Owners, Active
<1>4. \A u \in Members : CutKept(u) /\ Proved(u)
  BY AccessAssumption DEF AccessInit, CutKept, Proved, NotMember
<1>5. Recorded
  BY DEF AccessInit, Recorded, Overtaken, OneDethroned
<1> QED
  BY <1>2, <1>3, <1>4, <1>5 DEF AccessInit, OwnersInv, HasOwner, SessionsInv, OfMember

-----------------------------------------------------------------------------
\* What the steps write.

\* The check of the last owner finds another one.
LEMMA AnotherOwner ==
    ASSUME HasOwner, NEW u, OtherOwners(u)
    PROVE  \E v \in Owners : v # u
<1> SUFFICES ASSUME Owners \subseteq {u} PROVE FALSE
  OBVIOUS
<1>1. Owners = {u}
  BY DEF HasOwner
<1>2. Cardinality(Owners) = 1
  BY <1>1, FS_Singleton
<1>3. member[u].role = "owner"
  BY <1>1 DEF Owners
<1> QED BY <1>2, <1>3 DEF OtherOwners

\* What a request decides on is right in that moment.
RightlyAsked(q) ==
    /\ q \in Request /\ Begins(q)
    /\ UNCHANGED <<now, member, sessions, invitations, ended>>
    /\ HasOwner => OwnerBehind(q)
    /\ CutKept(Subject(q)) /\ Proved(Subject(q)) => StillRight(q)

\* Requests about members are decided rightly.
LEMMA RequestsOfMembers ==
    ASSUME AccessTypes, NEW u \in Members,
           \/ \E a \in Members :
                 BeginRevocation(a, u) \/ \E role \in Roles : BeginRoleChange(a, u, role)
           \/ BeginSaml(u) \/ BeginDeactivation(u)
           \/ \E role \in Assignable : BeginPush(u, role)
    PROVE  \E q : RightlyAsked(q)
<1>1. /\ member[u] \in Membership /\ now \in Times /\ now \in Nat /\ ended[u] \in Nat
      /\ \A s \in sessions : s.created \in Nat /\ s.proved \in Nat
  BY AccessAssumption DEF AccessTypes, Session, Times
<1>2. CutKept(u) => ended[u] <= now /\ member[u].cut = ended[u]
  BY DEF CutKept
<1>3. Proved(u) => \A s \in sessions : s.user = u => s.created <= now
  BY DEF Proved
<1>4. ASSUME NEW a \in Members, BeginRevocation(a, u) PROVE \E q : RightlyAsked(q)
  <2> DEFINE q == [kind |-> "revoke", user |-> u, at |-> now]
  <2>1. q \in Request
    BY <1>1 DEF Request
  <2>2. OwnerBehind(q) /\ (CutKept(u) /\ Proved(u) => StillRight(q))
    BY <1>1, <1>2, <1>3, <1>4
       DEF BeginRevocation, Active, OwnerBehind, Dethrones, Revokes, StillRight
  <2>3. RightlyAsked(q)
    BY <1>4, <2>1, <2>2 DEF BeginRevocation, RightlyAsked, Subject
  <2> QED BY <2>3
<1>5. ASSUME NEW a \in Members, NEW role \in Roles, BeginRoleChange(a, u, role)
      PROVE  \E q : RightlyAsked(q)
  <2> DEFINE q == [kind |-> "role", user |-> u, role |-> role]
  <2>1. q \in Request
    BY DEF Request
  <2>2. StillRight(q) /\ (HasOwner => OwnerBehind(q))
    BY <1>5, AnotherOwner DEF BeginRoleChange, OwnerBehind, Dethrones, Revokes, StillRight
  <2>3. RightlyAsked(q)
    BY <1>5, <2>1, <2>2 DEF BeginRoleChange, RightlyAsked, Subject
  <2> QED BY <2>3
<1>6. CASE BeginSaml(u)
  <2> DEFINE q == [kind |-> "saml", user |-> u, at |-> now]
  <2>1. q \in Request
    BY <1>1 DEF Request
  <2>2. OwnerBehind(q) /\ (CutKept(u) /\ Proved(u) => StillRight(q))
    BY <1>1, <1>2, <1>6 DEF BeginSaml, OwnerBehind, Dethrones, Revokes, StillRight
  <2>3. RightlyAsked(q)
    BY <1>6, <2>1, <2>2 DEF BeginSaml, RightlyAsked, Subject
  <2> QED BY <2>3
<1>7. CASE BeginDeactivation(u)
  <2> DEFINE q == [kind |-> "deactivate", user |-> u, at |-> now]
  <2>1. q \in Request
    BY <1>1 DEF Request
  <2>2. /\ HasOwner => OwnerBehind(q)
        /\ CutKept(u) /\ Proved(u) => StillRight(q)
    BY <1>1, <1>2, <1>3, <1>7, AnotherOwner
       DEF BeginDeactivation, Active, OwnerBehind, Dethrones, Revokes, StillRight
  <2>3. RightlyAsked(q)
    BY <1>7, <2>1, <2>2 DEF BeginDeactivation, RightlyAsked, Subject
  <2> QED BY <2>3
<1>8. ASSUME NEW role \in Assignable, BeginPush(u, role) PROVE \E q : RightlyAsked(q)
  <2> DEFINE q == [kind |-> "push", user |-> u, role |-> role]
  <2>1. q \in Request
    BY DEF Request, Assignable
  <2>2. StillRight(q) /\ (HasOwner => OwnerBehind(q))
    BY <1>8 DEF BeginPush, Protected, HasOwner, Owners, OwnerBehind, Dethrones, Revokes,
       StillRight
  <2>3. RightlyAsked(q)
    BY <1>8, <2>1, <2>2 DEF BeginPush, RightlyAsked
  <2> QED BY <2>3
<1> QED BY <1>4, <1>5, <1>6, <1>7, <1>8

\* So are acceptances of invitations and rotations of sessions.
LEMMA Asked == ASSUME AccessTypes, Asks PROVE \E q : RightlyAsked(q)
<1>1. ASSUME NEW i \in Invitations, BeginAcceptance(i) PROVE \E q : RightlyAsked(q)
  <2> DEFINE q == [kind |-> "accept", user |-> invitations[i].user,
                   role |-> invitations[i].role, invitation |-> i]
  <2>1. invitations[i] \in Offer
    BY <1>1 DEF BeginAcceptance, AccessTypes
  <2>2. q \in Request
    BY <2>1 DEF Request, Offer
  <2>3. StillRight(q) /\ (HasOwner => OwnerBehind(q))
    BY <1>1 DEF BeginAcceptance, HasOwner, Owners, OwnerBehind, Revokes, StillRight
  <2>4. RightlyAsked(q)
    BY <1>1, <2>2, <2>3 DEF BeginAcceptance, RightlyAsked
  <2> QED BY <2>4
<1>2. ASSUME NEW s \in sessions, BeginRotation(s) PROVE \E q : RightlyAsked(q)
  <2> DEFINE q == [kind |-> "rotate", session |-> s]
  <2>1. s \in Session /\ s.user \in Members /\ s.created \in Nat /\ ended[s.user] \in Nat
    BY AccessAssumption DEF AccessTypes, Session, Times
  <2>2. q \in Request
    BY <2>1 DEF Request
  <2>3. CutKept(s.user) => s.created > ended[s.user]
    BY <1>2, <2>1 DEF BeginRotation, Revoked, CutKept
  <2>4. OwnerBehind(q) /\ (CutKept(s.user) /\ Proved(s.user) => StillRight(q))
    BY <2>3 DEF Proved, OwnerBehind, Dethrones, Revokes, StillRight
  <2>5. RightlyAsked(q)
    BY <1>2, <2>2, <2>4 DEF BeginRotation, RightlyAsked, Subject
  <2> QED BY <2>5
<1> QED BY <1>1, <1>2, RequestsOfMembers DEF Asks

\* A request that begins has its types, and there is room for it.
LEMMA AskedTypes == ASSUME AccessTypes, NEW q, RightlyAsked(q) PROVE AccessTypes'
<1>1. Cardinality(pending) \in Nat
  BY FS_CardinalityType DEF AccessTypes
<1>2. IsFiniteSet(pending') /\ Cardinality(pending') <= Cardinality(pending) + 1
  <2>1. pending' = pending \cup {q} /\ IsFiniteSet(pending)
    BY DEF AccessTypes, RightlyAsked, Begins
  <2>2. /\ IsFiniteSet(pending \cup {q})
        /\ \/ Cardinality(pending \cup {q}) = Cardinality(pending)
           \/ Cardinality(pending \cup {q}) = Cardinality(pending) + 1
    BY <2>1, FS_AddElement
  <2> QED BY <1>1, <2>1, <2>2
<1>3. Cardinality(pending') \in Nat
  BY <1>2, FS_CardinalityType
<1>4. Cardinality(pending') <= MaxRequests
  BY <1>1, <1>2, <1>3, AccessAssumption DEF RightlyAsked, Begins
<1> QED BY <1>2, <1>4 DEF AccessTypes, RightlyAsked, Begins

\* What remains of the requests when one ends has its types.
LEMMA EndedTypes ==
    ASSUME AccessTypes, NEW q, Ends(q)
    PROVE  /\ q \in Request /\ pending' = pending \ {q} /\ pending' \subseteq Request
           /\ IsFiniteSet(pending') /\ Cardinality(pending') <= MaxRequests
<1>1. IsFiniteSet(pending') /\ Cardinality(pending') <= Cardinality(pending)
  BY FS_Subset DEF AccessTypes, Ends
<1>2. Cardinality(pending) \in Nat /\ Cardinality(pending') \in Nat
  BY <1>1, FS_CardinalityType DEF AccessTypes
<1> QED BY <1>1, <1>2, AccessAssumption DEF AccessTypes, Ends

\* A revocation, alone or with a deactivation, dates the row when it was decided.
LEMMA CutWrites ==
    ASSUME AccessTypes, NEW q \in pending, CommitRevocation(q) \/ CommitDeactivation(q)
    PROVE  /\ AccessTypes' /\ Ends(q) /\ UNCHANGED <<now, sessions, invitations>>
           /\ Revokes(q) /\ q.user \in Members /\ q.at \in Nat
           /\ \A v \in Members \ {q.user} : member'[v] = member[v] /\ ended'[v] = ended[v]
           /\ member'[q.user].cut = q.at /\ member'[q.user].role = member[q.user].role
           /\ ended'[q.user] = Later(ended[q.user], q.at)
           /\ member'[q.user].state =
                 IF q.kind = "revoke" THEN member[q.user].state ELSE "deleted"
<1> DEFINE u == q.user
           state == IF q.kind = "revoke" THEN member[u].state ELSE "deleted"
<1>1. /\ Revokes(q) /\ Ends(q) /\ UNCHANGED <<now, sessions, invitations>>
      /\ Cut(u, q.at, state)
  BY DEF CommitRevocation, CommitDeactivation, Revokes
<1>2. u \in Members /\ q.at \in Times
  BY <1>1, EndedTypes DEF Request, Revokes
<1>3. q.at \in Nat /\ q.at \in 0..MaxTime
  BY <1>2, AccessAssumption DEF Times
<1>4. /\ member[u] \in Membership /\ ended[u] \in 0..MaxTime
      /\ state \in {"none", "active", "deleted"}
  BY <1>2 DEF AccessTypes, Membership
<1>5. Later(ended[u], q.at) \in 0..MaxTime
  BY <1>3, <1>4 DEF Later
<1>6. PICK row \in Membership :
         /\ member' = [member EXCEPT ![u] = row]
         /\ row.cut = q.at /\ row.role = member[u].role /\ row.state = state
  <2> DEFINE row == [member[u] EXCEPT !.cut = q.at, !.state = state]
  <2>1. row \in Membership /\ row.cut = q.at /\ row.role = member[u].role /\ row.state = state
    BY <1>3, <1>4 DEF Membership
  <2>2. member' = [member EXCEPT ![u] = row]
    BY <1>1, <1>2 DEF Cut, AccessTypes
  <2> HIDE DEF row
  <2> QED BY <2>1, <2>2
<1>7. /\ member' \in [Members -> Membership] /\ ended' \in [Members -> 0..MaxTime]
      /\ \A v \in Members \ {u} : member'[v] = member[v] /\ ended'[v] = ended[v]
      /\ member'[u] = row /\ ended'[u] = Later(ended[u], q.at)
  <2>1. ended' = [ended EXCEPT ![u] = Later(ended[u], q.at)]
    BY <1>1 DEF Cut
  <2> QED BY <1>2, <1>5, <1>6, <2>1 DEF AccessTypes
<1>8. AccessTypes'
  BY <1>1, <1>7, EndedTypes DEF AccessTypes
<1> QED BY <1>1, <1>2, <1>3, <1>6, <1>7, <1>8

\* A role that is set by a member or a group, and an invitation that is accepted.
LEMMA RoleWrites ==
    ASSUME AccessTypes, NEW q \in pending, CommitRole(q) \/ CommitAcceptance(q)
    PROVE  /\ AccessTypes' /\ Ends(q) /\ UNCHANGED <<now, sessions, ended>>
           /\ q.kind \in {"role", "push", "accept"} /\ q.user \in Members
           /\ \A v \in Members \ {q.user} : member'[v] = member[v]
           /\ member'[q.user].cut = member[q.user].cut /\ member'[q.user].role = q.role
           /\ member'[q.user].state =
                 IF q.kind = "accept" THEN "active" ELSE member[q.user].state
<1> DEFINE u == q.user
           state == IF q.kind = "accept" THEN "active" ELSE member[u].state
<1>1. /\ q.kind \in {"role", "push", "accept"} /\ Ends(q)
      /\ UNCHANGED <<now, sessions, ended>>
  BY DEF CommitRole, CommitAcceptance
<1>2. u \in Members /\ q.role \in Roles
  BY <1>1, EndedTypes DEF Request
<1>3. member[u] \in Membership /\ state \in {"none", "active", "deleted"}
  BY <1>2 DEF AccessTypes, Membership
<1>4. PICK row \in Membership :
         /\ member' = [member EXCEPT ![u] = row]
         /\ row.cut = member[u].cut /\ row.role = q.role /\ row.state = state
  <2> DEFINE row == [member[u] EXCEPT !.state = state, !.role = q.role]
  <2>1. row \in Membership /\ row.cut = member[u].cut /\ row.role = q.role /\ row.state = state
    BY <1>2, <1>3 DEF Membership
  <2>2. CASE CommitRole(q)
    <3>1. member' = [member EXCEPT ![u] = [member[u] EXCEPT !.role = q.role]]
      BY <1>2, <2>2 DEF CommitRole, AccessTypes
    <3>2. row = [member[u] EXCEPT !.role = q.role]
      BY <1>3, <2>2 DEF CommitRole, Membership
    <3> QED BY <2>1, <3>1, <3>2
  <2>3. CASE CommitAcceptance(q)
    <3>1. member' = [member EXCEPT ![u] = row]
      BY <1>2, <2>3 DEF CommitAcceptance, Rejoined, AccessTypes
    <3> QED BY <2>1, <3>1
  <2> QED BY <2>2, <2>3
<1>5. /\ member' \in [Members -> Membership] /\ member'[u] = row
      /\ \A v \in Members \ {u} : member'[v] = member[v]
  BY <1>2, <1>4 DEF AccessTypes
<1>6. invitations' \in [Invitations -> Offer \cup [state : {"none", "closed"}]]
  BY DEF CommitRole, CommitAcceptance, AccessTypes
<1>7. AccessTypes'
  BY <1>1, <1>5, <1>6, EndedTypes DEF AccessTypes
<1> QED BY <1>1, <1>2, <1>4, <1>5, <1>7

\* A session that is written is dated now, and proved when its request says; who becomes
\* a member by it was none.
LEMMA SessionWrites ==
    ASSUME AccessTypes, NEW q \in pending, CommitRotation(q) \/ CommitSaml(q) \/ Abandon(q)
    PROVE  /\ AccessTypes' /\ Ends(q) /\ UNCHANGED <<now, invitations, ended>>
           /\ \A v \in Members :
                 \/ member'[v] = member[v]
                 \/ member[v].state = "none" /\ member'[v].state = "active" /\ member'[v].cut = 0
           /\ \A s \in sessions' \ sessions :
                 /\ s.created = now /\ s.user = Subject(q) /\ OfSessions(q) /\ ~Revokes(q)
                 /\ s.proved = IF q.kind = "saml" THEN q.at ELSE q.session.proved
<1>0. now \in Times /\ Ends(q) /\ UNCHANGED <<now, invitations, ended>> /\ q \in Request
  BY EndedTypes DEF CommitRotation, CommitSaml, Abandon, AccessTypes
<1>1. CASE Abandon(q)
  BY <1>0, <1>1, EndedTypes DEF Abandon, AccessTypes
<1>2. CASE CommitRotation(q)
  <2> DEFINE new == [q.session EXCEPT !.created = now]
  <2>1. q.session \in Session /\ q.kind = "rotate"
    BY <1>0, <1>2 DEF CommitRotation, Request
  <2>2. /\ new \in Session /\ new.created = now /\ new.user = q.session.user
        /\ new.proved = q.session.proved
    BY <1>0, <2>1 DEF Session
  <2>3. UNCHANGED member /\ sessions' \subseteq sessions \cup {new}
    BY <1>2 DEF CommitRotation
  <2> HIDE DEF new
  <2>4. AccessTypes'
    BY <1>0, <2>2, <2>3, EndedTypes DEF AccessTypes
  <2> QED BY <1>0, <2>1, <2>2, <2>3, <2>4 DEF Subject, OfSessions, Revokes
<1>3. CASE CommitSaml(q)
  <2> DEFINE u == q.user
             new == [user |-> u, created |-> now, proved |-> q.at]
  <2>1. u \in Members /\ q.at \in Times /\ q.kind = "saml" /\ member[u] \in Membership
    BY <1>0, <1>3 DEF CommitSaml, Request, AccessTypes
  <2>2. new \in Session /\ new.created = now /\ new.user = u /\ new.proved = q.at
    BY <1>0, <2>1 DEF Session
  <2>3. sessions' = sessions \cup {new}
    BY <1>3 DEF CommitSaml, Starts
  <2> HIDE DEF new
  <2>4. \/ UNCHANGED member
        \/ /\ member[u].state = "none"
           /\ \E row \in Membership :
                 /\ member' = [member EXCEPT ![u] = row]
                 /\ row.state = "active" /\ row.cut = 0
    <3>1. \/ UNCHANGED member
          \/ /\ member[u].state = "none"
             /\ \E role \in Assignable : member' =
                   [member EXCEPT ![u] = [NotMember EXCEPT !.state = "active", !.role = role]]
      BY <1>3 DEF CommitSaml
    <3>2. ASSUME NEW role \in Assignable,
                 member' = [member EXCEPT ![u] =
                     [NotMember EXCEPT !.state = "active", !.role = role]]
          PROVE  \E row \in Membership :
                    /\ member' = [member EXCEPT ![u] = row]
                    /\ row.state = "active" /\ row.cut = 0
      <4> DEFINE row == [NotMember EXCEPT !.state = "active", !.role = role]
      <4>1. NotMember \in Membership /\ NotMember.cut = 0
        BY AccessAssumption DEF NotMember, Membership, Roles
      <4>3. row \in Membership /\ row.state = "active" /\ row.cut = 0
        BY <4>1 DEF Membership, Assignable
      <4>2. member' = [member EXCEPT ![u] = row]
        BY <3>2
      <4> HIDE DEF row
      <4> QED BY <4>2, <4>3
    <3> QED BY <3>1, <3>2
  <2>5. /\ member' \in [Members -> Membership]
        /\ \A v \in Members :
              \/ member'[v] = member[v]
              \/ member[v].state = "none" /\ member'[v].state = "active" /\ member'[v].cut = 0
    BY <2>1, <2>4 DEF AccessTypes
  <2>6. AccessTypes'
    BY <1>0, <2>2, <2>3, <2>5, EndedTypes DEF AccessTypes
  <2> QED BY <1>0, <2>1, <2>2, <2>3, <2>5, <2>6 DEF Subject, OfSessions, Revokes
<1> QED BY <1>1, <1>2, <1>3

\* What is written beside the requests: sessions that were proved now, memberships that
\* begin or come back.
LEMMA BesideWrites ==
    ASSUME AccessTypes, Beside
    PROVE  /\ AccessTypes' /\ UNCHANGED <<pending, ended>> /\ now <= now'
           /\ \A v \in Members :
                 \/ member'[v] = member[v]
                 \/ /\ member[v].state # "active" /\ member'[v].state # "none"
                    /\ member'[v].cut = IF member[v].state = "none" THEN 0 ELSE member[v].cut
           /\ \A s \in sessions' \ sessions : s.created = now /\ s.proved = now
<1>0. now \in Times /\ now \in Nat
  BY AccessAssumption DEF AccessTypes, Times
<1>1. ASSUME NEW u \in Members, SignIn(u)
      PROVE  /\ AccessTypes' /\ UNCHANGED <<now, member, pending, ended>>
             /\ \A s \in sessions' \ sessions : s.created = now /\ s.proved = now
  <2> DEFINE new == [user |-> u, created |-> now, proved |-> now]
  <2>1. new \in Session /\ new.created = now /\ new.proved = now
    BY <1>0 DEF Session
  <2>2. /\ sessions' = sessions \cup {new}
        /\ UNCHANGED <<now, member, invitations, pending, ended>>
    BY <1>1 DEF SignIn, Starts
  <2> HIDE DEF new
  <2> QED BY <2>1, <2>2 DEF AccessTypes
<1>2. ASSUME NEW u \in Members,
             Reactivate(u) \/ \E state \in {"active", "deleted"} : Provision(u, state)
      PROVE  /\ AccessTypes' /\ UNCHANGED <<now, sessions, pending, ended>>
             /\ \A v \in Members :
                 \/ member'[v] = member[v]
                 \/ /\ member[v].state # "active" /\ member'[v].state # "none"
                    /\ member'[v].cut = IF member[v].state = "none" THEN 0 ELSE member[v].cut
  <2>1. member[u] \in Membership /\ UNCHANGED <<now, sessions, invitations, pending, ended>>
    BY <1>2 DEF Reactivate, Provision, AccessTypes
  <2>2. PICK row \in Membership :
             /\ member' = [member EXCEPT ![u] = row]
             /\ member[u].state # "active" /\ row.state # "none"
             /\ row.cut = IF member[u].state = "none" THEN 0 ELSE member[u].cut
    <3>1. CASE Reactivate(u)
      <4> DEFINE row == [member[u] EXCEPT !.state = "active"]
      <4>1. row \in Membership /\ row.state = "active" /\ row.cut = member[u].cut
        BY <2>1 DEF Membership
      <4>2. member' = [member EXCEPT ![u] = row] /\ member[u].state = "deleted"
        BY <3>1 DEF Reactivate
      <4> HIDE DEF row
      <4> QED BY <4>1, <4>2
    <3>2. ASSUME NEW state \in {"active", "deleted"}, Provision(u, state)
          PROVE  \E row \in Membership :
                    /\ member' = [member EXCEPT ![u] = row]
                    /\ member[u].state # "active" /\ row.state # "none"
                    /\ row.cut = IF member[u].state = "none" THEN 0 ELSE member[u].cut
      <4> DEFINE row == [NotMember EXCEPT !.state = state]
      <4>1. row \in Membership /\ row.state = state /\ row.cut = 0
        BY AccessAssumption DEF Membership, NotMember, Roles
      <4>2. member' = [member EXCEPT ![u] = row] /\ member[u].state = "none"
        BY <3>2 DEF Provision
      <4> HIDE DEF row
      <4> QED BY <4>1, <4>2
    <3> QED BY <1>2, <3>1, <3>2
  <2> QED BY <2>1, <2>2 DEF AccessTypes
<1>3. ASSUME \/ \E a, u \in Members, i \in Invitations, role \in Roles : Invite(a, i, u, role)
             \/ \E i \in Invitations : WithdrawInvitation(i)
             \/ \E s \in sessions : EndSession(s)
             \/ Tick \/ UNCHANGED accessVars
      PROVE  /\ AccessTypes' /\ UNCHANGED <<member, pending, ended>>
             /\ now <= now' /\ sessions' \subseteq sessions
  <2>1. CASE \E a, u \in Members, i \in Invitations, role \in Roles : Invite(a, i, u, role)
    BY <1>0, <2>1 DEF Invite, Offer, AccessTypes
  <2>2. CASE \E i \in Invitations : WithdrawInvitation(i)
    BY <1>0, <2>2 DEF WithdrawInvitation, AccessTypes
  <2>3. CASE \E s \in sessions : EndSession(s)
    BY <1>0, <2>3 DEF EndSession, AccessTypes
  <2>4. CASE Tick
    BY <1>0, <2>4, AccessAssumption DEF Tick, AccessTypes, Times
  <2>5. CASE UNCHANGED accessVars
    BY <1>0, <2>5 DEF accessVars, AccessTypes
  <2> QED BY <1>3, <2>1, <2>2, <2>3, <2>4, <2>5
<1> QED BY <1>0, <1>1, <1>2, <1>3 DEF Beside

\* Every step is one of these.
LEMMA StepsOfAccess ==
    ASSUME [AccessNext]_accessVars
    PROVE  \/ Asks \/ Beside
           \/ \E q \in pending :
                 \/ CommitRevocation(q) \/ CommitDeactivation(q)
                 \/ CommitRole(q) \/ CommitAcceptance(q)
                 \/ CommitRotation(q) \/ CommitSaml(q) \/ Abandon(q)
BY DEF AccessNext, AccessStep, Asks, Beside

\* Every step keeps the types.
LEMMA AccessTypesStep == AccessTypes /\ [AccessNext]_accessVars => AccessTypes'
BY StepsOfAccess, Asked, AskedTypes, CutWrites, RoleWrites, SessionWrites, BesideWrites

\* Rows, sessions, invitations and requests have their types, and no more requests are
\* under way than are let in.
THEOREM AccessTyped == AccessSpec => []AccessTypes
BY InitAccess, AccessTypesStep, PTL DEF AccessSpec

\* What overlaps is on record after every step.
LEMMA RecordedStep == Recorded /\ [AccessNext]_accessVars => Recorded'
<1> SUFFICES ASSUME Recorded, [AccessNext]_accessVars PROVE Recorded'
  OBVIOUS
<1>1. CASE AccessNext
  <2>1. Overtaken' \subseteq overtaken'
    BY <1>1 DEF AccessNext, Observed
  <2>2. contested' = ((contested \/ ~OneDethroned') /\ ~(pending' = {} /\ Owners' # {}))
    BY <1>1 DEF AccessNext, Observed
  <2>3. pending' = {} => OneDethroned'
    BY DEF OneDethroned
  <2> QED BY <2>1, <2>2, <2>3 DEF Recorded
<1>2. CASE UNCHANGED accessVars
  BY <1>2 DEF accessVars, Recorded, Overtaken, OneDethroned
<1> QED BY <1>1, <1>2

\* What is on record only grows, until an owner is seen at rest.
LEMMA RecordKept ==
    ASSUME [AccessNext]_accessVars
    PROVE  /\ overtaken \subseteq overtaken'
           /\ ~contested' => ~contested \/ (pending' = {} /\ HasOwner')
<1>1. CASE AccessNext
  <2>1. overtaken \subseteq overtaken'
    BY <1>1 DEF AccessNext, Observed
  <2>2. contested' = ((contested \/ ~OneDethroned') /\ ~(pending' = {} /\ HasOwner'))
    BY <1>1 DEF AccessNext, Observed, HasOwner
  <2> QED BY <2>1, <2>2
<1>2. CASE UNCHANGED accessVars
  BY <1>2 DEF accessVars
<1> QED BY <1>1, <1>2

\* The record has its types.
RecordTypes == overtaken \subseteq Members /\ contested \in BOOLEAN
LEMMA RecordTypesStep == AccessTypes' /\ RecordTypes /\ [AccessNext]_accessVars => RecordTypes'
<1> SUFFICES ASSUME AccessTypes', RecordTypes, [AccessNext]_accessVars PROVE RecordTypes'
  OBVIOUS
<1>1. Overtaken' \subseteq Members
  BY DEF Overtaken, AccessTypes, Request, Session, Revokes, OfSessions, Subject
<1> QED BY <1>1 DEF RecordTypes, AccessNext, Observed, accessVars

-----------------------------------------------------------------------------
\* The owners.

\* An owner who stays behind another's request is behind every other one as well, when
\* these may only end the same ownership.
LEMMA OwnersStep ==
    ASSUME AccessTypes, OneDethroned, OwnersInv, [AccessNext]_accessVars
    PROVE  OwnersInv'
<1>1. CASE Asks
  <2>1. PICK q : RightlyAsked(q)
    BY <1>1, Asked
  <2>2. Owners' = Owners /\ pending' = pending \cup {q}
    BY <2>1 DEF RightlyAsked, Begins, Owners, Active
  <2> QED BY <2>1, <2>2 DEF RightlyAsked, OwnersInv, HasOwner, OwnerBehind, Dethrones
<1>2. CASE Beside
  <2>1. Owners \subseteq Owners' /\ UNCHANGED pending
    BY <1>2, BesideWrites DEF Owners, Active
  <2> QED BY <2>1 DEF OwnersInv, HasOwner, OwnerBehind, Dethrones
<1>3. ASSUME NEW q \in pending, CommitRevocation(q) \/ CommitDeactivation(q) PROVE OwnersInv'
  <2>1. CASE q.kind = "revoke"
    <3>1. Owners \subseteq Owners' /\ pending' \subseteq pending
      BY <1>3, <2>1, CutWrites DEF Owners, Active, Ends
    <3> QED BY <3>1 DEF OwnersInv, HasOwner, OwnerBehind, Dethrones
  <2>2. CASE q.kind = "deactivate"
    <3>1. Owners \ {q.user} \subseteq Owners' /\ pending' \subseteq pending
      BY <1>3, CutWrites DEF Owners, Active, Ends
    <3>2. Dethrones(q)
      BY <2>2 DEF Dethrones
    <3> QED BY <3>1, <3>2 DEF OneDethroned, OwnersInv, HasOwner, OwnerBehind, Dethrones
  <2> QED BY <1>3, <2>1, <2>2, CutWrites DEF Revokes
<1>4. ASSUME NEW q \in pending, CommitRole(q) \/ CommitAcceptance(q) PROVE OwnersInv'
  <2>1. Owners \ {q.user} \subseteq Owners' /\ pending' \subseteq pending
    BY <1>4, RoleWrites DEF Owners, Active, Ends
  <2>2. CASE Dethrones(q)
    BY <2>1, <2>2 DEF OneDethroned, OwnersInv, HasOwner, OwnerBehind, Dethrones
  <2>3. CASE ~Dethrones(q)
    <3>1. Owners \subseteq Owners'
      BY <1>4, <2>1, <2>3, RoleWrites DEF Dethrones, Owners, Active
    <3> QED BY <2>1, <3>1 DEF OwnersInv, HasOwner, OwnerBehind, Dethrones
  <2> QED BY <2>2, <2>3
<1>5. ASSUME NEW q \in pending, CommitRotation(q) \/ CommitSaml(q) \/ Abandon(q)
      PROVE  OwnersInv'
  <2>1. Owners \subseteq Owners' /\ pending' \subseteq pending
    BY <1>5, SessionWrites DEF Owners, Active, Ends
  <2> QED BY <2>1 DEF OwnersInv, HasOwner, OwnerBehind, Dethrones
<1> QED BY <1>1, <1>2, <1>3, <1>4, <1>5, StepsOfAccess

\* However many requests overlap: an organisation keeps an owner, except when requests
\* that may end the ownership of two members are under way together
\* (updateOrganisationMemberRole, setScimMembershipActive, patchScimGroup,
\* acceptSecureInvitation), and when they are through and left one it keeps it again.
THEOREM OrganisationKeepsOwner == AccessSpec => []OwnerRemains
<1> DEFINE Safe == contested \/ OwnersInv
<1>1. ASSUME AccessTypes, Recorded, Safe, [AccessNext]_accessVars PROVE Safe'
  <2> SUFFICES ASSUME ~contested' PROVE OwnersInv'
    OBVIOUS
  <2>1. CASE pending' = {} /\ HasOwner'
    BY <2>1 DEF OwnersInv
  <2>2. CASE ~contested
    BY <1>1, <2>2, OwnersStep DEF Recorded
  <2> QED BY <1>1, <2>1, <2>2, RecordKept
<1>2. AccessInit => Safe /\ Recorded
  BY InitAccess
<1>3. Safe => OwnerRemains
  BY DEF OwnersInv, HasOwner, OwnerRemains
<1> QED BY <1>1, <1>2, <1>3, AccessTyped, RecordedStep, PTL DEF AccessSpec

-----------------------------------------------------------------------------
\* The sessions.

\* A request that is decided sees the revocations that took effect and the sessions there
\* are; only a revocation of the same member could make it wrong.
LEMMA SessionsStep ==
    ASSUME AccessTypes, [AccessNext]_accessVars, NEW u \in Members, u \notin Overtaken, OfMember(u)
    PROVE  OfMember(u)'
<1>0. /\ now \in Nat /\ ended[u] \in Nat /\ member[u] \in Membership
      /\ \A s \in sessions : s.user \in Members /\ s.created \in Nat /\ s.proved \in Nat
      /\ \A q \in pending : /\ Revokes(q) \/ q.kind = "saml" => q.user \in Members /\ q.at \in Nat
                            /\ q.kind = "rotate" => q.session \in Session
  BY AccessAssumption DEF AccessTypes, Session, Times, Request, Revokes
<1>1. CASE Asks
  <2>1. PICK q : RightlyAsked(q)
    BY <1>1, Asked
  <2>2. ASSUME NEW p \in pending', Subject(p) = u PROVE StillRight(p)'
    <3>1. StillRight(p)
      BY <2>1, <2>2 DEF RightlyAsked, Begins, OfMember
    <3> QED BY <2>1, <3>1 DEF RightlyAsked, StillRight, Revokes
  <2> QED BY <2>1, <2>2 DEF RightlyAsked, OfMember, CutKept, Proved
<1>2. CASE Beside
  <2>0. now' \in Nat /\ \A s \in sessions' : s.user \in Members
    BY <1>2, BesideWrites, AccessAssumption DEF AccessTypes, Times, Session
  <2>1. CutKept(u)'
    BY <1>0, <1>2, <2>0, BesideWrites DEF OfMember, CutKept
  <2>2. Proved(u)'
    BY <1>0, <1>2, <2>0, BesideWrites DEF OfMember, Proved
  <2>3. ASSUME NEW q \in pending, Subject(q) = u PROVE StillRight(q)'
    <3>1. StillRight(q)
      BY <2>3 DEF OfMember
    <3> QED BY <1>0, <1>2, <2>0, <3>1, BesideWrites DEF StillRight, Revokes
  <2> QED BY <1>2, <2>1, <2>2, <2>3, BesideWrites DEF OfMember
<1>3. ASSUME NEW q \in pending, CommitRevocation(q) \/ CommitDeactivation(q) PROVE OfMember(u)'
  <2>1. /\ Revokes(q) /\ q.user \in Members /\ q.at \in Nat
        /\ UNCHANGED <<now, sessions>> /\ pending' = pending \ {q}
        /\ q.user # u => member'[u] = member[u] /\ ended'[u] = ended[u]
        /\ member'[q.user].cut = q.at /\ ended'[q.user] = Later(ended[q.user], q.at)
        /\ member'[q.user].state = IF q.kind = "revoke" THEN member[q.user].state ELSE "deleted"
    BY <1>3, CutWrites DEF Ends
  <2>2. CASE q.user # u
    <3>1. ASSUME NEW p \in pending', Subject(p) = u PROVE StillRight(p)'
      <4>1. p \in pending /\ StillRight(p)
        BY <2>1, <3>1 DEF OfMember
      <4>2. CASE Revokes(p) \/ p.kind = "saml"
        BY <2>1, <2>2, <3>1, <4>1, <4>2 DEF StillRight, Subject, Revokes
      <4>3. CASE p.kind = "rotate"
        BY <2>1, <2>2, <3>1, <4>1, <4>3 DEF StillRight, Subject, Revokes
      <4> QED BY <4>2, <4>3 DEF StillRight
    <3> QED BY <2>1, <2>2, <3>1 DEF OfMember, CutKept, Proved
  <2>3. CASE q.user = u
    <3>1. Subject(q) = u
      BY <2>1, <2>3 DEF Subject, Revokes
    <3>2. StillRight(q)
      BY <3>1 DEF OfMember
    <3>3. ended'[u] = q.at
      BY <1>0, <2>1, <2>3, <3>2 DEF StillRight, Later
    <3>4. CutKept(u)'
      BY <1>0, <2>1, <2>3, <3>2, <3>3 DEF OfMember, CutKept, StillRight
    <3>5. Proved(u)'
      BY <1>0, <2>1, <2>3, <3>2, <3>3 DEF OfMember, Proved, StillRight
    <3>6. ASSUME NEW p \in pending', Subject(p) = u PROVE ~OfSessions(p)
      BY <2>1, <3>1, <3>6 DEF Overtaken
    <3>7. ASSUME NEW p \in pending', Subject(p) = u PROVE StillRight(p)'
      BY <3>6, <3>7 DEF OfSessions, StillRight, Revokes
    <3> QED BY <3>4, <3>5, <3>7 DEF OfMember
  <2> QED BY <2>2, <2>3
<1>4. ASSUME NEW q \in pending, CommitRole(q) \/ CommitAcceptance(q) PROVE OfMember(u)'
  <2>1. /\ UNCHANGED <<now, sessions, ended>> /\ pending' \subseteq pending
        /\ \A v \in Members :
              member'[v].cut = member[v].cut
              /\ (member'[v].state = member[v].state \/ member'[v].state = "active")
    BY <1>4, RoleWrites DEF Ends
  <2>2. ASSUME NEW p \in pending', Subject(p) = u PROVE StillRight(p)'
    BY <1>0, <2>1, <2>2 DEF OfMember, StillRight, Revokes
  <2> QED BY <2>1, <2>2 DEF OfMember, CutKept, Proved
<1>5. ASSUME NEW q \in pending, CommitRotation(q) \/ CommitSaml(q) \/ Abandon(q)
      PROVE  OfMember(u)'
  <2>1. /\ UNCHANGED <<now, ended>> /\ pending' \subseteq pending
        /\ q \notin pending'
        /\ \A v \in Members :
              \/ member'[v] = member[v]
              \/ member[v].state = "none" /\ member'[v].state = "active" /\ member'[v].cut = 0
        /\ \A s \in sessions' \ sessions :
              /\ s.created = now /\ s.user = Subject(q) /\ OfSessions(q) /\ ~Revokes(q)
              /\ s.proved = IF q.kind = "saml" THEN q.at ELSE q.session.proved
    BY <1>5, SessionWrites DEF Ends
  <2>2. CutKept(u)'
    BY <1>0, <2>1 DEF OfMember, CutKept
  <2>3. ASSUME NEW s \in sessions' \ sessions, s.user = u PROVE s.proved > ended[u]
    <3>1. Subject(q) = u /\ StillRight(q)
      BY <2>1, <2>3 DEF OfMember
    <3> QED BY <2>1, <2>3, <3>1 DEF StillRight, OfSessions, Subject, Revokes
  <2>4. Proved(u)'
    BY <1>0, <2>1, <2>3 DEF OfMember, Proved
  <2>5. ASSUME NEW p \in pending', Subject(p) = u PROVE StillRight(p)'
    <3>1. p \in pending /\ p # q /\ StillRight(p)
      BY <2>1, <2>5 DEF OfMember
    <3>2. ASSUME Revokes(p), NEW s \in sessions' \ sessions PROVE s.user # p.user
      <4>1. p.user = u
        BY <2>5, <3>2 DEF Subject, Revokes
      <4>2. OfSessions(q) /\ Subject(q) = s.user
        BY <2>1, <3>2
      <4> QED BY <2>5, <3>1, <3>2, <4>1, <4>2 DEF Overtaken
    <3> QED BY <1>0, <2>1, <3>1, <3>2 DEF StillRight, Revokes
  <2> QED BY <2>2, <2>4, <2>5 DEF OfMember
<1> QED BY <1>1, <1>2, <1>3, <1>4, <1>5, StepsOfAccess

\* However many requests overlap: nobody enters an organisation
\* (resolveActiveOrganisation) with a proof of identity that is no newer than a revocation,
\* except members of whom a revocation overlapped another request about their sessions.
THEOREM RevokedStayOut == AccessSpec => []RevokedStaysOut
<1>1. ASSUME AccessTypes, Recorded, SessionsInv, [AccessNext]_accessVars PROVE SessionsInv'
  <2>1. ASSUME NEW u \in Members \ overtaken' PROVE OfMember(u)'
    <3>1. u \in Members \ overtaken
      BY <1>1, RecordKept
    <3>2. u \notin Overtaken
      BY <1>1, <3>1 DEF Recorded
    <3> QED BY <1>1, <3>1, <3>2, SessionsStep DEF SessionsInv
  <2> QED BY <2>1 DEF SessionsInv
<1>2. AccessInit => SessionsInv /\ Recorded
  BY InitAccess
<1>3. ASSUME AccessTypes, SessionsInv PROVE RevokedStaysOut
  <2>1. \A s \in sessions : s.user \in Members /\ s.created \in Nat /\ ended[s.user] \in Nat
    BY <1>3, AccessAssumption DEF AccessTypes, Session, Times
  <2> QED BY <1>3, <2>1 DEF SessionsInv, OfMember, CutKept, Proved, RevokedStaysOut, Opens, Revoked
<1> QED BY <1>1, <1>2, <1>3, AccessTyped, RecordedStep, PTL DEF AccessSpec

-----------------------------------------------------------------------------
(* DomainClaims: no domain is verified twice, or without a proof.           *)

ClaimsInv == DomainTypeOK /\ DomainInv

\* What every step of one claim leaves alone.
OthersClaim(c) == \A b \in Claims \ {c} : claims'[b] = claims[b]

\* Before the first claim all is in order.
LEMMA InitDomain == DomainInit => ClaimsInv
BY DEF DomainInit, ClaimsInv, DomainTypeOK, DomainInv, OneVerifier, ProvedBeforeVerified,
       HolderInv, HoldsRow, Verified, Idle, Entry, Record

-----------------------------------------------------------------------------
\* Types.

\* Domains that are added, removed or published have their types.
LEMMA PolicyTypes ==
    ASSUME DomainTypeOK, NEW o \in Orgs, NEW d \in Domains,
           RemoveDomain(o, d) \/ Publish(o) \/ \E t \in Tokens : AddDomain(o, d, t)
    PROVE  DomainTypeOK'
<1>1. CASE RemoveDomain(o, d)
    BY <1>1 DEF DomainTypeOK, RemoveDomain
<1>2. CASE Publish(o)
    BY <1>2 DEF DomainTypeOK, Publish, Entry, Record
<1>3. ASSUME NEW t \in Tokens, AddDomain(o, d, t)
      PROVE  DomainTypeOK'
    <2>1. [domain |-> d, token |-> t, verified |-> FALSE] \in Entry
        BY DEF Entry
    <2>2. policy' \in [Orgs -> SUBSET Entry] /\ drawn' \subseteq Tokens
        BY <1>3, <2>1 DEF DomainTypeOK, AddDomain
    <2>3. UNCHANGED <<dns, found, claims>>
        BY <1>3 DEF AddDomain
    <2> QED BY <2>2, <2>3 DEF DomainTypeOK
<1> QED BY <1>1, <1>2, <1>3

\* A claim that begins has its type, and leaves the others alone.
LEMMA BeginTypes ==
    ASSUME DomainTypeOK, NEW c \in Claims, NEW o \in Orgs,
           BeginVerification(c, o) \/ BeginSettings(c, o)
    PROVE  DomainTypeOK' /\ OthersClaim(c)
<1>1. CASE BeginVerification(c, o)
    <2>1. PICK e \in policy[o] :
            claims' = [claims EXCEPT ![c] =
                [stage |-> "asking", org |-> o,
                 entry |-> [domain |-> e.domain, token |-> e.token]]]
        BY <1>1 DEF BeginVerification
    <2>2. [domain |-> e.domain, token |-> e.token] \in Record
        BY DEF DomainTypeOK, Entry, Record
    <2> QED BY <1>1, <2>1, <2>2 DEF DomainTypeOK, BeginVerification, OthersClaim
<1>2. CASE BeginSettings(c, o)
    BY <1>2 DEF DomainTypeOK, BeginSettings, OthersClaim
<1> QED BY <1>1, <1>2

\* What a claim has read, by its stage.
LEMMA ClaimFields ==
    ASSUME DomainTypeOK, NEW c \in Claims
    PROVE  /\ claims[c].stage \in {"idle", "asking", "found", "locked", "claiming", "settings"}
           /\ claims[c].stage = "idle" => claims[c] = Idle
           /\ claims[c].stage \in {"asking", "found"} =>
                 claims[c] \in [stage : {"asking", "found"}, org : Orgs, entry : Record]
           /\ claims[c].stage \in {"locked", "claiming"} =>
                 claims[c] \in [stage : {"locked", "claiming"}, org : Orgs, entry : Record,
                                read : SUBSET Entry]
           /\ claims[c].stage = "settings" =>
                 claims[c] \in [stage : {"settings"}, org : Orgs, read : SUBSET Entry]
BY DEF DomainTypeOK, Idle

\* An answer of the name server is kept with what was claimed.
LEMMA AskTypes ==
    ASSUME DomainTypeOK, NEW c \in Claims, AskNameServer(c)
    PROVE  /\ DomainTypeOK' /\ OthersClaim(c)
           /\ claims'[c] = [stage |-> "found", org |-> claims[c].org, entry |-> claims[c].entry]
<1>1. claims[c] \in [stage : {"asking", "found"}, org : Orgs, entry : Record]
    BY ClaimFields DEF AskNameServer
<1>2. claims' = [claims EXCEPT ![c] = [claims[c] EXCEPT !.stage = "found"]]
    BY DEF AskNameServer
<1>3. [claims[c] EXCEPT !.stage = "found"]
        = [stage |-> "found", org |-> claims[c].org, entry |-> claims[c].entry]
    BY <1>1
<1>4. claims'[c] = [stage |-> "found", org |-> claims[c].org, entry |-> claims[c].entry]
    BY <1>2, <1>3 DEF DomainTypeOK
<1> QED BY <1>1, <1>2, <1>3, <1>4 DEF DomainTypeOK, OthersClaim, AskNameServer

\* A claim that locks the settings has read them.
LEMMA LockPolicyTypes ==
    ASSUME DomainTypeOK, NEW c \in Claims, LockPolicy(c)
    PROVE  /\ DomainTypeOK' /\ OthersClaim(c)
           /\ claims'[c] = [stage |-> "locked", org |-> claims[c].org,
                            entry |-> claims[c].entry, read |-> policy[claims[c].org]]
<1>1. claims[c] \in [stage : {"asking", "found"}, org : Orgs, entry : Record]
    BY ClaimFields DEF LockPolicy
<1> QED BY <1>1 DEF DomainTypeOK, OthersClaim, LockPolicy

\* One that locks the domain goes on with what it found and read.
LEMMA LockDomainTypes ==
    ASSUME DomainTypeOK, NEW c \in Claims, LockDomain(c)
    PROVE  /\ DomainTypeOK' /\ OthersClaim(c)
           /\ claims'[c] = [stage |-> "claiming", org |-> claims[c].org,
                            entry |-> claims[c].entry, read |-> claims[c].read]
<1>1. claims[c] \in [stage : {"locked", "claiming"}, org : Orgs, entry : Record,
                     read : SUBSET Entry]
    BY ClaimFields DEF LockDomain
<1>2. claims' = [claims EXCEPT ![c] = [claims[c] EXCEPT !.stage = "claiming"]]
    BY DEF LockDomain
<1>3. [claims[c] EXCEPT !.stage = "claiming"]
        = [stage |-> "claiming", org |-> claims[c].org,
           entry |-> claims[c].entry, read |-> claims[c].read]
    BY <1>1
<1>4. claims'[c] = [stage |-> "claiming", org |-> claims[c].org,
                    entry |-> claims[c].entry, read |-> claims[c].read]
    BY <1>2, <1>3 DEF DomainTypeOK
<1> QED BY <1>1, <1>2, <1>3, <1>4 DEF DomainTypeOK, OthersClaim, LockDomain

\* A claim that ends leaves no trace in its memory.
LEMMA EndTypes ==
    ASSUME DomainTypeOK, NEW c \in Claims,
           CommitVerification(c) \/ CommitSettings(c) \/ ClaimEnds(c)
    PROVE  DomainTypeOK' /\ OthersClaim(c) /\ claims'[c] = Idle
<1>1. CASE CommitVerification(c)
    <2>1. claims[c] \in [stage : {"locked", "claiming"}, org : Orgs, entry : Record,
                         read : SUBSET Entry]
        BY <1>1, ClaimFields DEF CommitVerification
    <2>2. ASSUME NEW e \in claims[c].read
          PROVE  [e EXCEPT !.verified = TRUE] \in Entry
        BY <2>1 DEF Entry
    <2>3. {IF SameEntry(e, claims[c].entry) THEN [e EXCEPT !.verified = TRUE] ELSE e :
              e \in claims[c].read} \subseteq Entry
        BY <2>1, <2>2
    <2> QED BY <1>1, <2>1, <2>3 DEF DomainTypeOK, OthersClaim, CommitVerification
<1>2. CASE CommitSettings(c)
    <2>1. claims[c] \in [stage : {"settings"}, org : Orgs, read : SUBSET Entry]
        BY <1>2, ClaimFields DEF CommitSettings
    <2> QED BY <1>2, <2>1 DEF DomainTypeOK, OthersClaim, CommitSettings
<1>3. CASE ClaimEnds(c)
    BY <1>3 DEF DomainTypeOK, OthersClaim, ClaimEnds
<1> QED BY <1>1, <1>2, <1>3
-----------------------------------------------------------------------------
\* The invariant, by what a step does to the policies and to the claims.

\* A step that verifies nothing new, and changes no policy whose row is held.
LEMMA NothingVerified ==
    ASSUME ClaimsInv, DomainTypeOK', claims' = claims, found' = found,
           \A o \in Orgs : policy'[o] = policy[o] \/ RowFree(o),
           \A o \in Orgs : \A e \in policy'[o] : e.verified => e \in policy[o]
    PROVE  ClaimsInv'
<1>1. \A o \in Orgs, d \in Domains : Verified(o, d)' => Verified(o, d)
    BY DEF Verified
<1>2. OneVerifier'
    BY <1>1 DEF ClaimsInv, DomainInv, OneVerifier
<1>3. ProvedBeforeVerified'
    BY DEF ClaimsInv, DomainInv, ProvedBeforeVerified
<1>4. ASSUME NEW c \in Claims
      PROVE  HolderInv(c)'
    <2>1. HolderInv(c) /\ \A b \in Claims, o \in Orgs : HoldsRow(b, o)' <=> HoldsRow(b, o)
        BY DEF ClaimsInv, DomainInv, HoldsRow
    <2>2. ASSUME NEW o \in Orgs, HoldsRow(c, o)
          PROVE  claims'[c].read = policy'[o]
        BY <2>1, <2>2 DEF HolderInv, RowFree
    <2>3. claims[c].stage = "claiming" => claims[c].entry \in Record
        BY ClaimFields DEF ClaimsInv
    <2> QED BY <1>1, <2>1, <2>2, <2>3 DEF HolderInv, Record
<1> QED BY <1>2, <1>3, <1>4 DEF ClaimsInv, DomainInv

\* A step in which one claim waits for the name server, has its answer, or ends.
LEMMA HoldsNothing ==
    ASSUME ClaimsInv, DomainTypeOK', policy' = policy, found \subseteq found',
           NEW c \in Claims, OthersClaim(c),
           claims'[c].stage \in {"idle", "asking", "found"},
           claims'[c].stage = "found" => claims'[c].entry \in found'
    PROVE  ClaimsInv'
<1>1. \A o \in Orgs, d \in Domains : Verified(o, d)' <=> Verified(o, d)
    BY DEF Verified
<1>2. OneVerifier' /\ ProvedBeforeVerified'
    BY <1>1 DEF ClaimsInv, DomainInv, OneVerifier, ProvedBeforeVerified
<1>3. \A b \in Claims, o \in Orgs : HoldsRow(b, o)' => b # c /\ HoldsRow(b, o)
    BY DEF HoldsRow, OthersClaim
<1>4. ASSUME NEW b \in Claims
      PROVE  HolderInv(b)'
    <2>1. HolderInv(b)
        BY DEF ClaimsInv, DomainInv
    <2>2. CASE b = c
        BY <1>3, <2>2 DEF HolderInv
    <2>3. CASE b # c
        <3>1. claims'[b] = claims[b]
            BY <2>3 DEF OthersClaim
        <3>2. ASSUME NEW o \in Orgs, HoldsRow(b, o)'
              PROVE  claims'[b].read = policy'[o] /\ \A a \in Claims : HoldsRow(a, o)' => a = b
            BY <1>3, <2>1, <3>1, <3>2 DEF HolderInv
        <3>3. claims'[b].stage = "claiming" => claims[b].entry.domain \in Domains
            BY <3>1, ClaimFields DEF ClaimsInv, Record
        <3>4. ASSUME claims'[b].stage = "claiming"
              PROVE  /\ \A o \in Orgs \ {claims'[b].org} : (~Verified(o, claims[b].entry.domain))'
                     /\ \A a \in Claims : claims'[a].stage = "claiming" /\
                            claims'[a].entry.domain = claims'[b].entry.domain => a = b
            BY <1>1, <2>1, <3>1, <3>3, <3>4 DEF HolderInv, OthersClaim
        <3>5. claims'[b].stage \in {"found", "locked", "claiming"} => claims'[b].entry \in found'
            BY <2>1, <3>1 DEF HolderInv
        <3> QED BY <3>2, <3>4, <3>5 DEF HolderInv
    <2> QED BY <2>2, <2>3
<1> QED BY <1>2, <1>4 DEF ClaimsInv, DomainInv

\* A step in which one claim takes the row of an organisation, that nobody holds, and
\* reads it.
LEMMA TakesRow ==
    ASSUME ClaimsInv, DomainTypeOK', policy' = policy, found' = found,
           NEW c \in Claims, OthersClaim(c), NEW o \in Orgs, RowFree(o),
           claims'[c].stage \in {"locked", "settings"},
           claims'[c].org = o, claims'[c].read = policy[o],
           claims'[c].stage = "locked" => claims'[c].entry \in found
    PROVE  ClaimsInv'
<1>1. \A p \in Orgs, d \in Domains : Verified(p, d)' <=> Verified(p, d)
    BY DEF Verified
<1>2. OneVerifier' /\ ProvedBeforeVerified'
    BY <1>1 DEF ClaimsInv, DomainInv, OneVerifier, ProvedBeforeVerified
<1>3. \A b \in Claims, p \in Orgs : HoldsRow(b, p)' <=> IF b = c THEN p = o ELSE HoldsRow(b, p)
    BY DEF HoldsRow, OthersClaim
<1>4. ASSUME NEW b \in Claims
      PROVE  HolderInv(b)'
    <2>1. HolderInv(b)
        BY DEF ClaimsInv, DomainInv
    <2>2. CASE b = c
        BY <1>3, <2>2 DEF HolderInv, RowFree
    <2>3. CASE b # c
        <3>1. claims'[b] = claims[b]
            BY <2>3 DEF OthersClaim
        <3>2. ASSUME NEW p \in Orgs, HoldsRow(b, p)'
              PROVE  claims'[b].read = policy'[p] /\ \A a \in Claims : HoldsRow(a, p)' => a = b
            BY <1>3, <2>1, <2>3, <3>1, <3>2 DEF HolderInv, RowFree
        <3>3. claims'[b].stage = "claiming" => claims[b].entry.domain \in Domains
            BY <3>1, ClaimFields DEF ClaimsInv, Record
        <3>4. ASSUME claims'[b].stage = "claiming"
              PROVE  /\ \A p \in Orgs \ {claims'[b].org} : (~Verified(p, claims[b].entry.domain))'
                     /\ \A a \in Claims : claims'[a].stage = "claiming" /\
                            claims'[a].entry.domain = claims'[b].entry.domain => a = b
            BY <1>1, <2>1, <3>1, <3>3, <3>4 DEF HolderInv, OthersClaim
        <3>5. claims'[b].stage \in {"found", "locked", "claiming"} => claims'[b].entry \in found'
            BY <2>1, <3>1 DEF HolderInv
        <3> QED BY <3>2, <3>4, <3>5 DEF HolderInv
    <2> QED BY <2>2, <2>3
<1> QED BY <1>2, <1>4 DEF ClaimsInv, DomainInv

\* The advisory lock of the domain: no other claim is past this point, and no other
\* organisation has verified it.
LEMMA TakesDomain ==
    ASSUME ClaimsInv, NEW c \in Claims, LockDomain(c)
    PROVE  ClaimsInv'
<1>1. /\ DomainTypeOK' /\ OthersClaim(c)
      /\ claims'[c] = [stage |-> "claiming", org |-> claims[c].org,
                       entry |-> claims[c].entry, read |-> claims[c].read]
      /\ claims[c].stage = "locked" /\ policy' = policy /\ found' = found
    BY LockDomainTypes DEF ClaimsInv, LockDomain
<1>2. claims[c].entry.domain \in Domains
    BY <1>1, ClaimFields DEF ClaimsInv, Record
<1>3. \A p \in Orgs, d \in Domains : Verified(p, d)' <=> Verified(p, d)
    BY <1>1 DEF Verified
<1>4. OneVerifier' /\ ProvedBeforeVerified'
    BY <1>1, <1>3 DEF ClaimsInv, DomainInv, OneVerifier, ProvedBeforeVerified
<1>5. \A b \in Claims, p \in Orgs : HoldsRow(b, p)' <=> HoldsRow(b, p)
    BY <1>1 DEF HoldsRow, OthersClaim
<1>6. ASSUME NEW b \in Claims
      PROVE  HolderInv(b)'
    <2>1. HolderInv(b) /\ HolderInv(c)
        BY DEF ClaimsInv, DomainInv
    <2>2. claims'[b].org = claims[b].org /\ claims'[b].entry = claims[b].entry
        BY <1>1 DEF OthersClaim
    <2>3. ASSUME NEW p \in Orgs, HoldsRow(b, p)'
          PROVE  claims'[b].read = policy'[p] /\ \A a \in Claims : HoldsRow(a, p)' => a = b
        <3>1. claims'[b].read = claims[b].read
            BY <1>1 DEF OthersClaim
        <3> QED BY <1>1, <1>5, <2>1, <2>3, <3>1 DEF HolderInv
    <2>4. claims'[b].stage \in {"found", "locked", "claiming"} => claims'[b].entry \in found'
        BY <1>1, <2>1, <2>2 DEF HolderInv, OthersClaim
    <2>5. ASSUME claims'[b].stage = "claiming"
          PROVE  /\ \A p \in Orgs \ {claims'[b].org} : (~Verified(p, claims[b].entry.domain))'
                 /\ \A a \in Claims : claims'[a].stage = "claiming" /\
                        claims'[a].entry.domain = claims'[b].entry.domain => a = b
        <3>1. CASE b = c
            BY <1>1, <1>2, <1>3, <3>1 DEF LockDomain, DomainFree, OthersClaim
        <3>2. CASE b # c
            <4>1. claims'[b] = claims[b] /\ claims[b].stage = "claiming"
                BY <1>1, <2>5, <3>2 DEF OthersClaim
            <4>2. claims[b].entry.domain \in Domains
                BY <4>1, ClaimFields DEF ClaimsInv, Record
            <4>3. claims[b].entry.domain # claims[c].entry.domain
                BY <4>1 DEF LockDomain, DomainFree
            <4> QED BY <1>1, <1>3, <2>1, <4>1, <4>2, <4>3 DEF HolderInv, OthersClaim
        <3> QED BY <3>1, <3>2
    <2> QED BY <2>3, <2>4, <2>5 DEF HolderInv
<1> QED BY <1>1, <1>4, <1>6 DEF ClaimsInv, DomainInv

\* The verification itself.
LEMMA Verifies ==
    ASSUME ClaimsInv, NEW c \in Claims, CommitVerification(c)
    PROVE  ClaimsInv'
<1> DEFINE q == claims[c]
<1>1. /\ DomainTypeOK' /\ OthersClaim(c) /\ claims'[c] = Idle
      /\ claims[c].stage = "claiming" /\ found' = found
    BY EndTypes DEF ClaimsInv, CommitVerification
<1>2. q \in [stage : {"locked", "claiming"}, org : Orgs, entry : Record, read : SUBSET Entry]
    BY <1>1, ClaimFields DEF ClaimsInv
<1>3. HolderInv(c) /\ HoldsRow(c, q.org)
    BY <1>1 DEF ClaimsInv, DomainInv, HoldsRow
<1>4. q.read = policy[q.org]
    BY <1>2, <1>3 DEF HolderInv
<1>5. /\ \A p \in Orgs \ {q.org} : policy'[p] = policy[p]
      /\ policy'[q.org] = {IF SameEntry(e, q.entry) THEN [e EXCEPT !.verified = TRUE] ELSE e :
                               e \in policy[q.org]}
    BY <1>2, <1>4 DEF ClaimsInv, DomainTypeOK, CommitVerification
<1>6. ASSUME NEW e \in policy'[q.org], e.verified
      PROVE  \/ e \in policy[q.org]
             \/ [domain |-> e.domain, token |-> e.token] = q.entry
    <2>1. PICK f \in policy[q.org] :
            e = IF SameEntry(f, q.entry) THEN [f EXCEPT !.verified = TRUE] ELSE f
        BY <1>5
    <2>2. f \in Entry
        BY <1>2 DEF ClaimsInv, DomainTypeOK
    <2>3. CASE SameEntry(f, q.entry)
        BY <1>2, <2>1, <2>2, <2>3 DEF SameEntry, Entry, Record
    <2> QED BY <2>1, <2>3
<1>7. \A p \in Orgs, d \in Domains :
        Verified(p, d)' => Verified(p, d) \/ (p = q.org /\ d = q.entry.domain)
    <2> SUFFICES ASSUME NEW p \in Orgs, NEW d \in Domains, NEW e \in policy'[p],
                        e.domain = d, e.verified
                 PROVE  Verified(p, d) \/ (p = q.org /\ d = q.entry.domain)
        BY DEF Verified
    <2>1. CASE p # q.org
        BY <1>5, <2>1 DEF Verified
    <2>2. CASE p = q.org /\ e \in policy[q.org]
        BY <2>2 DEF Verified
    <2>3. CASE p = q.org /\ [domain |-> e.domain, token |-> e.token] = q.entry
        <3>1. [domain |-> e.domain, token |-> e.token].domain = q.entry.domain
            BY <2>3
        <3> QED BY <2>3, <3>1
    <2> QED BY <1>6, <2>1, <2>2, <2>3
<1>8. \A p \in Orgs \ {q.org} : ~Verified(p, q.entry.domain)
    BY <1>1, <1>3 DEF HolderInv
<1>9. OneVerifier'
    BY <1>7, <1>8 DEF ClaimsInv, DomainInv, OneVerifier
<1>10. ProvedBeforeVerified'
    <2>1. q.entry \in found
        BY <1>1, <1>3 DEF HolderInv
    <2> QED BY <1>1, <1>5, <1>6, <2>1 DEF ClaimsInv, DomainInv, ProvedBeforeVerified
<1>11. \A b \in Claims, p \in Orgs : HoldsRow(b, p)' => b # c /\ HoldsRow(b, p) /\ p # q.org
    BY <1>1, <1>2, <1>3 DEF HoldsRow, OthersClaim, HolderInv, Idle
<1>12. ASSUME NEW b \in Claims
       PROVE  HolderInv(b)'
    <2>1. HolderInv(b)
        BY DEF ClaimsInv, DomainInv
    <2>2. CASE b = c
        BY <1>1, <1>11, <2>2 DEF HolderInv, Idle
    <2>3. CASE b # c
        <3>1. claims'[b] = claims[b]
            BY <1>1, <2>3 DEF OthersClaim
        <3>2. ASSUME NEW p \in Orgs, HoldsRow(b, p)'
              PROVE  claims'[b].read = policy'[p] /\ \A a \in Claims : HoldsRow(a, p)' => a = b
            BY <1>5, <1>11, <2>1, <3>1, <3>2 DEF HolderInv
        <3>3. claims'[b].stage \in {"found", "locked", "claiming"} => claims'[b].entry \in found'
            BY <1>1, <2>1, <3>1 DEF HolderInv
        <3>4. ASSUME claims'[b].stage = "claiming"
              PROVE  /\ \A p \in Orgs \ {claims'[b].org} : (~Verified(p, claims[b].entry.domain))'
                     /\ \A a \in Claims : claims'[a].stage = "claiming" /\
                            claims'[a].entry.domain = claims'[b].entry.domain => a = b
            <4>1. claims[b].entry.domain \in Domains
                BY <3>1, <3>4, ClaimFields DEF ClaimsInv, Record
            <4>2. claims[b].entry.domain # q.entry.domain
                BY <1>1, <1>3, <2>3, <3>1, <3>4 DEF HolderInv
            <4>3. \A a \in Claims : claims'[a].stage = "claiming" => claims'[a] = claims[a]
                BY <1>1 DEF OthersClaim, Idle
            <4> QED BY <1>7, <2>1, <3>1, <3>4, <4>1, <4>2, <4>3 DEF HolderInv
        <3> QED BY <3>2, <3>3, <3>4 DEF HolderInv
    <2> QED BY <2>2, <2>3
<1> QED BY <1>1, <1>9, <1>10, <1>12 DEF ClaimsInv, DomainInv

-----------------------------------------------------------------------------
\* Every step about domains keeps the invariant.
LEMMA DomainStep == ClaimsInv /\ [DomainNext]_domainVars => ClaimsInv'
<1> SUFFICES ASSUME ClaimsInv, [DomainNext]_domainVars
             PROVE  ClaimsInv'
    OBVIOUS
<1>1. ASSUME NEW o \in Orgs, NEW d \in Domains, RemoveDomain(o, d)
      PROVE  ClaimsInv'
    <2>1. DomainTypeOK'
        BY <1>1, PolicyTypes DEF ClaimsInv
    <2> QED BY <1>1, <2>1, NothingVerified DEF ClaimsInv, DomainTypeOK, RemoveDomain
<1>2. ASSUME NEW o \in Orgs, NEW d \in Domains, NEW t \in Tokens, AddDomain(o, d, t)
      PROVE  ClaimsInv'
    <2>1. DomainTypeOK'
        BY <1>2, PolicyTypes DEF ClaimsInv
    <2>2. /\ \A p \in Orgs : policy'[p] = policy[p] \/ RowFree(p)
          /\ \A p \in Orgs : \A e \in policy'[p] : e.verified => e \in policy[p]
        BY <1>2 DEF ClaimsInv, DomainTypeOK, AddDomain
    <2> QED BY <1>2, <2>1, <2>2, NothingVerified DEF AddDomain
<1>3. ASSUME NEW o \in Orgs, Publish(o)
      PROVE  ClaimsInv'
    <2>1. DomainTypeOK'
        BY <1>3 DEF ClaimsInv, DomainTypeOK, Publish, Entry, Record
    <2> QED BY <1>3, <2>1, NothingVerified DEF Publish
<1>4. ASSUME NEW c \in Claims, NEW o \in Orgs, BeginVerification(c, o)
      PROVE  ClaimsInv'
    <2>1. DomainTypeOK' /\ OthersClaim(c)
        BY <1>4, BeginTypes DEF ClaimsInv
    <2>2. claims'[c].stage = "asking"
        BY <1>4 DEF ClaimsInv, DomainTypeOK, BeginVerification
    <2> QED BY <1>4, <2>1, <2>2, HoldsNothing DEF BeginVerification
<1>5. ASSUME NEW c \in Claims, NEW o \in Orgs, BeginSettings(c, o)
      PROVE  ClaimsInv'
    <2>1. DomainTypeOK' /\ OthersClaim(c)
        BY <1>5, BeginTypes DEF ClaimsInv
    <2>2. claims'[c] = [stage |-> "settings", org |-> o, read |-> policy[o]]
        BY <1>5 DEF ClaimsInv, DomainTypeOK, BeginSettings
    <2> QED BY <1>5, <2>1, <2>2, TakesRow DEF BeginSettings
<1>6. ASSUME NEW c \in Claims, AskNameServer(c)
      PROVE  ClaimsInv'
    <2>1. /\ DomainTypeOK' /\ OthersClaim(c)
          /\ claims'[c] = [stage |-> "found", org |-> claims[c].org, entry |-> claims[c].entry]
        BY <1>6, AskTypes DEF ClaimsInv
    <2> QED BY <1>6, <2>1, HoldsNothing DEF AskNameServer
<1>7. ASSUME NEW c \in Claims, LockPolicy(c)
      PROVE  ClaimsInv'
    <2>1. /\ DomainTypeOK' /\ OthersClaim(c)
          /\ claims'[c] = [stage |-> "locked", org |-> claims[c].org,
                           entry |-> claims[c].entry, read |-> policy[claims[c].org]]
        BY <1>7, LockPolicyTypes DEF ClaimsInv
    <2>2. claims[c].org \in Orgs
        BY <1>7, ClaimFields DEF ClaimsInv, LockPolicy
    <2>3. claims[c].entry \in found
        BY <1>7 DEF ClaimsInv, DomainInv, HolderInv, LockPolicy
    <2> QED BY <1>7, <2>1, <2>2, <2>3, TakesRow DEF LockPolicy
<1>8. ASSUME NEW c \in Claims, CommitSettings(c)
      PROVE  ClaimsInv'
    <2>1. DomainTypeOK' /\ OthersClaim(c) /\ claims'[c] = Idle
        BY <1>8, EndTypes DEF ClaimsInv
    <2>2. claims[c].org \in Orgs /\ HoldsRow(c, claims[c].org)
        BY <1>8, ClaimFields DEF ClaimsInv, CommitSettings, HoldsRow
    <2>3. claims[c].read = policy[claims[c].org]
        BY <2>2 DEF ClaimsInv, DomainInv, HolderInv
    <2>4. policy' = policy
        BY <1>8, <2>2, <2>3 DEF ClaimsInv, DomainTypeOK, CommitSettings
    <2> QED BY <1>8, <2>1, <2>4, HoldsNothing DEF CommitSettings, Idle
<1>9. ASSUME NEW c \in Claims, ClaimEnds(c)
      PROVE  ClaimsInv'
    <2>1. DomainTypeOK' /\ OthersClaim(c) /\ claims'[c] = Idle
        BY <1>9, EndTypes DEF ClaimsInv
    <2> QED BY <1>9, <2>1, HoldsNothing DEF ClaimEnds, Idle
<1>10. ASSUME NEW c \in Claims, LockDomain(c) \/ CommitVerification(c)
       PROVE  ClaimsInv'
    BY <1>10, TakesDomain, Verifies
<1>11. CASE UNCHANGED domainVars
    BY <1>11, NothingVerified DEF domainVars, ClaimsInv, DomainTypeOK
<1> QED BY <1>1, <1>2, <1>3, <1>4, <1>5, <1>6, <1>7, <1>8, <1>9, <1>10, <1>11 DEF DomainNext

\* The locks keep the inductive invariant, in every reachable state: what a request has
\* read of a policy it holds is what is there, and a claimed domain is nobody else's.
THEOREM DomainInvariant == DomainSpec => [](DomainTypeOK /\ DomainInv)
<1>1. DomainSpec => []ClaimsInv
    BY InitDomain, DomainStep, PTL DEF DomainSpec
<1> QED BY <1>1 DEF ClaimsInv

\* A domain is verified by one organisation at most, and only with its own proof, in
\* every reachable state of any instance.
THEOREM VerifiedOnceAndProved == DomainSpec => []DomainsAreProved
<1>1. ClaimsInv => DomainsAreProved
    BY DEF ClaimsInv, DomainInv, DomainsAreProved
<1>2. DomainSpec => []ClaimsInv
    BY InitDomain, DomainStep, PTL DEF DomainSpec
<1> QED BY <1>1, <1>2, PTL

-----------------------------------------------------------------------------
(* ReplicaLicence: no container serves long after its subscription ended,   *)
(* and none keeps the seat of its application.                              *)

ReplicaStages == {"absent", "consume", "fallback", "serving", "returning", "stopped", "out"}
Replica ==
    [stage : ReplicaStages, program : Programs, attempt : 1..Attempts, token : 0..Attempts,
     transient : 0..(Limit - 1), beat : Answers \cup {"none", "asked"}]

LicenceTypes ==
    /\ entitled \in BOOLEAN
    /\ replica \in [Replicas -> Replica]
    /\ unheard \in [Replicas -> Nat]

\* Heartbeats that went unheard were counted, but for the one under way.
Heard(r) ==
    /\ entitled \/ replica[r].stage \in {"absent", "consume", "fallback"} => unheard[r] = 0
    /\ In(r, "serving") =>
          /\ replica[r].beat = "none" => unheard[r] <= replica[r].transient
          /\ replica[r].beat = "yes" => unheard[r] = 0
          /\ unheard[r] <= replica[r].transient + 1

\* Only who serves, or returns it, has a seat of the application, and knows it.
Seated(r) ==
    r \in faulty \/ \A n \in 1..Attempts :
        <<r, "app", n>> \in seats =>
            /\ replica[r].stage \in {"serving", "returning"}
            /\ replica[r].token = n

LicenceInv == LicenceTypes /\ \A r \in Replicas : Heard(r) /\ Seated(r)

\* What a step of one replica leaves to the others.
OtherReplicasStay(r) ==
    /\ \A q \in Replicas \ {r} : replica'[q] = replica[q] /\ unheard'[q] = unheard[q]
    /\ entitled' = entitled
    /\ faulty \subseteq faulty'
    /\ \A q \in Replicas \ {r}, n \in 1..Attempts :
          <<q, "app", n>> \in seats' => <<q, "app", n>> \in seats

Moves(r) ==
    \/ Start(r) \/ CheckOut(r) \/ Refused(r) \/ Fallback(r) \/ StartFails(r)
    \/ AskHeartbeat(r) \/ AnswerHeartbeat(r) \/ EndHeartbeat(r)
    \/ Shutdown(r) \/ CheckIn(r) \/ Die(r)

\* A program that starts has the type of a replica.
LEMMA FreshType ==
    ASSUME NEW s \in ReplicaStages, NEW p \in Programs, NEW t \in 0..Attempts,
           NEW n \in 0..(Limit - 1)
    PROVE  Fresh(s, p, t, n) \in Replica
BY LicenceAssumption, SMT DEF Fresh, Replica, ReplicaStages, Programs, Answers

\* Before the first container all is in order.
LEMMA InitLicence == LicenceInit => LicenceInv
<1> SUFFICES ASSUME LicenceInit PROVE LicenceInv
    OBVIOUS
<1>1. LicenceTypes
    BY FreshType, LicenceAssumption DEF LicenceInit, LicenceTypes, ReplicaStages, Programs
<1>2. \A r \in Replicas : Heard(r) /\ Seated(r)
    BY DEF LicenceInit, Heard, Seated, In, Fresh
<1> QED BY <1>1, <1>2 DEF LicenceInv

-----------------------------------------------------------------------------
\* What becomes of the replica that moves.

\* A replica that leaves is out or stopped.
LEMMA LeavesType ==
    ASSUME LicenceTypes, NEW r \in Replicas, Leaves(r) \/ Stops(r)
    PROVE  /\ replica' \in [Replicas -> Replica]
           /\ replica'[r].stage \in {"out", "stopped"}
           /\ \A q \in Replicas \ {r} : replica'[q] = replica[q]
<1>1. Fresh("out", "enforcer", 0, 0) \in Replica /\ Fresh("stopped", "app", 0, 0) \in Replica
    BY FreshType, LicenceAssumption DEF ReplicaStages, Programs
<1> QED BY <1>1 DEF LicenceTypes, Leaves, Stops, Fresh

\* With its seat the enforcer makes way for the application, which serves.
LEMMA ValidatedType ==
    ASSUME LicenceTypes, NEW r \in Replicas, NEW token \in 0..Attempts, Validated(r, token)
    PROVE  /\ replica' \in [Replicas -> Replica]
           /\ \A q \in Replicas \ {r} : replica'[q] = replica[q]
           /\ replica[r].program = "enforcer" => replica'[r].stage = "consume"
           /\ replica[r].program = "app" =>
                 /\ replica'[r].stage = "serving" /\ replica'[r].token = token
                 /\ replica'[r].beat = "none" /\ replica'[r].transient = 0
<1>1. Fresh("consume", "app", 0, 0) \in Replica /\ Fresh("serving", "app", token, 0) \in Replica
    BY FreshType, LicenceAssumption DEF ReplicaStages, Programs
<1> QED BY <1>1 DEF LicenceTypes, Validated, Fresh

\* A replica that was refused tries again, or is out.
LEMMA RetriesType ==
    ASSUME LicenceTypes, NEW r \in Replicas, Retries(r)
    PROVE  /\ replica' \in [Replicas -> Replica]
           /\ replica'[r].stage \in {"out", "consume"}
           /\ \A q \in Replicas \ {r} : replica'[q] = replica[q]
<1>1. CASE replica[r].attempt = Attempts
    <2>1. Leaves(r)
        BY <1>1 DEF Retries
    <2>2. replica'[r].stage = "out"
        BY <2>1 DEF Leaves, LicenceTypes, Fresh
    <2> QED BY <2>1, <2>2, LeavesType
<1>2. CASE replica[r].attempt # Attempts
    BY <1>2, LicenceAssumption, SMT DEF LicenceTypes, Retries, Replica, ReplicaStages
<1> QED BY <1>1, <1>2

\* A replica that goes on serving keeps its token.
LEMMA ServesType ==
    ASSUME LicenceTypes, NEW r \in Replicas, NEW n \in 0..(Limit - 1), Serves(r, n)
    PROVE  /\ replica' \in [Replicas -> Replica]
           /\ replica'[r].stage = "serving" /\ replica'[r].token = replica[r].token
           /\ replica'[r].beat = "none" /\ replica'[r].transient = n
           /\ \A q \in Replicas \ {r} : replica'[q] = replica[q]
<1>1. replica[r].token \in 0..Attempts
    BY DEF LicenceTypes, Replica
<1>2. Fresh("serving", "app", replica[r].token, n) \in Replica
    BY <1>1, FreshType DEF ReplicaStages, Programs
<1> QED BY <1>2 DEF LicenceTypes, Serves, Fresh

\* A replica that is stopped returns the seat it has.
LEMMA ExitsType ==
    ASSUME LicenceTypes, NEW r \in Replicas, In(r, "serving"), ChecksInAndExits(r)
    PROVE  /\ replica' \in [Replicas -> Replica]
           /\ \A q \in Replicas \ {r} : replica'[q] = replica[q]
           /\ IF replica[r].token # 0
              THEN replica'[r].stage = "returning" /\ replica'[r].token = replica[r].token
              ELSE replica'[r].stage = "stopped"
<1>1. CASE replica[r].token # 0
    BY <1>1, SMT DEF LicenceTypes, ChecksInAndExits, Replica, ReplicaStages, Answers, In
<1>2. CASE replica[r].token = 0
    <2>1. Stops(r)
        BY <1>2 DEF ChecksInAndExits
    <2>2. replica'[r].stage = "stopped"
        BY <2>1 DEF Stops, LicenceTypes, Fresh
    <2> QED BY <1>2, <2>1, <2>2, LeavesType
<1> QED BY <1>1, <1>2

-----------------------------------------------------------------------------
\* The steps of a start: nobody holds a seat whose answer has come, but who serves.

\* Starting keeps the invariant of the replica, and leaves the others alone.
LEMMA ReplicaStarts ==
    ASSUME LicenceInv, NEW r \in Replicas,
           Start(r) \/ CheckOut(r) \/ Refused(r) \/ Fallback(r) \/ StartFails(r)
    PROVE  LicenceTypes' /\ OtherReplicasStay(r) /\ Heard(r)' /\ Seated(r)'
<1> USE DEF LicenceInv
<1>0. replica[r] \in Replica
    BY DEF LicenceTypes
<1>1. CASE Start(r)
    BY <1>0, <1>1, SMT
       DEF Start, In, LicenceTypes, OtherReplicasStay, Heard, Seated, Replica, ReplicaStages
<1>2. CASE Refused(r)
    BY <1>0, <1>2, SMT
       DEF Refused, In, LicenceTypes, OtherReplicasStay, Heard, Seated, Replica, ReplicaStages
<1>3. CASE Fallback(r)
    <2>1. CASE entitled
        <3>1. Validated(r, 0)
            BY <1>3, <2>1 DEF Fallback
        <3>2. 0 \in 0..Attempts
            BY LicenceAssumption
        <3>3. UNCHANGED <<entitled, seats, faulty, unheard>> /\ In(r, "fallback")
            BY <1>3 DEF Fallback
        <3>4. /\ replica' \in [Replicas -> Replica]
              /\ \A q \in Replicas \ {r} : replica'[q] = replica[q]
              /\ replica'[r].stage = "consume"
                    \/ (replica'[r].stage = "serving" /\ replica'[r].beat = "none")
            BY <3>1, <3>2, <1>0, ValidatedType DEF Replica, Programs
        <3>5. replica'[r].transient \in Nat
            BY <3>4, LicenceAssumption DEF Replica
        <3> QED BY <3>3, <3>4, <3>5 DEF LicenceTypes, OtherReplicasStay, Heard, Seated, In
    <2>2. CASE ~entitled
        <3>1. Leaves(r) /\ UNCHANGED <<entitled, seats, faulty, unheard>> /\ In(r, "fallback")
            BY <1>3, <2>2 DEF Fallback
        <3> QED BY <3>1, LeavesType DEF LicenceTypes, OtherReplicasStay, Heard, Seated, In
    <2> QED BY <2>1, <2>2
<1>4. CASE StartFails(r)
    <2>1. Retries(r) \/ Leaves(r)
        BY <1>4 DEF StartFails
    <2>2. /\ replica' \in [Replicas -> Replica]
          /\ replica'[r].stage \in {"out", "stopped", "consume"}
          /\ \A q \in Replicas \ {r} : replica'[q] = replica[q]
        BY <2>1, LeavesType, RetriesType
    <2>3. UNCHANGED <<entitled, seats, faulty, unheard>>
          /\ replica[r].stage \in {"consume", "fallback"}
        BY <1>4 DEF StartFails, In
    <2> QED BY <2>2, <2>3 DEF LicenceTypes, OtherReplicasStay, Heard, Seated, In
<1>5. CASE CheckOut(r)
    <2>1. /\ In(r, "consume") /\ UNCHANGED <<entitled, unheard>>
          /\ seats' = seats \cup {<<r, replica[r].program, replica[r].attempt>>}
        BY <1>5 DEF CheckOut
    <2>2. CASE Validated(r, replica[r].attempt) /\ UNCHANGED faulty
        <3>1. replica[r].attempt \in 1..Attempts /\ replica[r].attempt \in 0..Attempts
            BY <1>0, LicenceAssumption, SMT DEF Replica
        <3>2. /\ replica' \in [Replicas -> Replica]
              /\ \A q \in Replicas \ {r} : replica'[q] = replica[q]
            BY <2>2, <3>1, ValidatedType
        <3>3. replica'[r].transient \in Nat
            BY <3>2, LicenceAssumption DEF Replica
        <3>4. CASE replica[r].program = "enforcer"
            <4>1. replica'[r].stage = "consume"
                BY <2>2, <3>1, <3>4, ValidatedType
            <4> QED BY <2>1, <2>2, <3>2, <3>3, <3>4, <4>1 DEF LicenceTypes, OtherReplicasStay, Heard, Seated, In
        <3>5. CASE replica[r].program = "app"
            <4>1. /\ replica'[r].stage = "serving" /\ replica'[r].token = replica[r].attempt
                  /\ replica'[r].beat = "none"
                BY <2>2, <3>1, <3>5, ValidatedType
            <4> QED BY <2>1, <2>2, <3>2, <3>3, <3>5, <4>1 DEF LicenceTypes, OtherReplicasStay, Heard, Seated, In
        <3> QED BY <1>0, <3>4, <3>5 DEF Replica, Programs
    <2>3. CASE Retries(r) /\ Faulty(r)
        BY <2>1, <2>3, RetriesType DEF LicenceTypes, OtherReplicasStay, Heard, Seated, In, Faulty
    <2> QED BY <1>5, <2>2, <2>3 DEF CheckOut
<1> QED BY <1>1, <1>2, <1>3, <1>4, <1>5

\* The steps of a replica that serves: what it has not heard, it counts.
LEMMA HeartbeatKeeps ==
    ASSUME LicenceInv, NEW r \in Replicas, AskHeartbeat(r) \/ AnswerHeartbeat(r) \/ EndHeartbeat(r)
    PROVE  LicenceTypes' /\ OtherReplicasStay(r) /\ Heard(r)' /\ Seated(r)'
<1> USE DEF LicenceInv
<1>0. /\ replica[r] \in Replica /\ unheard[r] \in Nat
      /\ replica[r].transient \in Nat /\ replica[r].beat \in Answers \cup {"none", "asked"}
    BY LicenceAssumption, SMT DEF LicenceTypes, Replica
<1>1. CASE AskHeartbeat(r)
    BY <1>0, <1>1, SMT DEF AskHeartbeat, In, LicenceTypes, OtherReplicasStay, Heard, Seated, Replica, Answers
<1>2. CASE AnswerHeartbeat(r)
    BY <1>0, <1>2, SMT DEF AnswerHeartbeat, In, LicenceTypes, OtherReplicasStay, Heard, Seated, Replica, Answers
<1>3. CASE EndHeartbeat(r)
    <2>1. In(r, "serving") /\ UNCHANGED <<entitled, seats, faulty, unheard>>
        BY <1>3 DEF EndHeartbeat
    <2>2. CASE replica[r].beat = "yes"
        <3>1. Serves(r, 0)
            BY <1>3, <2>2 DEF EndHeartbeat
        <3>2. 0 \in 0..(Limit - 1)
            BY LicenceAssumption
        <3>3. unheard[r] = 0
            BY <2>1, <2>2 DEF Heard
        <3> QED BY <1>0, <2>1, <3>1, <3>2, <3>3, ServesType DEF In, LicenceTypes, OtherReplicasStay, Heard, Seated
    <2>3. CASE replica[r].beat = "unavailable" /\ Counted(replica[r].transient) < Limit
        <3>1. Serves(r, replica[r].transient + 1)
            BY <1>3, <2>3 DEF EndHeartbeat, Counted
        <3>2. replica[r].transient + 1 \in 0..(Limit - 1)
            BY <1>0, <2>3, LicenceAssumption DEF Counted
        <3> QED BY <1>0, <2>1, <2>3, <3>1, <3>2, ServesType DEF In, LicenceTypes, OtherReplicasStay, Heard, Seated
    <2>4. CASE ~(replica[r].beat = "yes")
               /\ ~(replica[r].beat = "unavailable" /\ Counted(replica[r].transient) < Limit)
        <3>1. ChecksInAndExits(r)
            BY <1>3, <2>4 DEF EndHeartbeat
        <3> QED BY <2>1, <3>1, ExitsType DEF In, LicenceTypes, OtherReplicasStay, Heard, Seated
    <2> QED BY <2>2, <2>3, <2>4
<1> QED BY <1>1, <1>2, <1>3

\* The steps of the end: the token is what is returned.
LEMMA EndKeeps ==
    ASSUME LicenceInv, NEW r \in Replicas, Shutdown(r) \/ CheckIn(r) \/ Die(r)
    PROVE  LicenceTypes' /\ OtherReplicasStay(r) /\ Heard(r)' /\ Seated(r)'
<1> USE DEF LicenceInv
<1>1. CASE Shutdown(r)
    BY <1>1, ExitsType DEF Shutdown, In, LicenceTypes, OtherReplicasStay, Heard, Seated
<1>2. CASE CheckIn(r)
    BY <1>2, LeavesType DEF CheckIn, In, LicenceTypes, OtherReplicasStay, Heard, Seated
<1>3. CASE Die(r)
    BY <1>3, LeavesType DEF Die, Faulty, In, LicenceTypes, OtherReplicasStay, Heard, Seated
<1> QED BY <1>1, <1>2, <1>3

-----------------------------------------------------------------------------
\* What leaves the others alone keeps their part of the invariant.
LEMMA OthersKeep ==
    ASSUME LicenceInv, NEW r \in Replicas, OtherReplicasStay(r), NEW q \in Replicas \ {r}
    PROVE  Heard(q)' /\ Seated(q)'
BY DEF LicenceInv, OtherReplicasStay, Heard, Seated, In

\* A subscription that begins or ends keeps the invariant.
LEMMA SubscribeKeeps == LicenceInv /\ Subscribe => LicenceInv'
<1> SUFFICES ASSUME LicenceInv, Subscribe PROVE LicenceInv'
    OBVIOUS
<1>1. LicenceTypes'
    BY DEF LicenceInv, LicenceTypes, Subscribe
<1>2. ASSUME NEW r \in Replicas PROVE Heard(r)' /\ Seated(r)'
    <2>1. replica[r].transient \in Nat
        BY LicenceAssumption, SMT DEF LicenceInv, LicenceTypes, Replica
    <2> QED BY <2>1, SMT DEF LicenceInv, Subscribe, Heard, Seated, In
<1> QED BY <1>1, <1>2 DEF LicenceInv

\* Every step about the licence keeps the invariant.
LEMMA NextLicence == LicenceInv /\ [LicenceNext]_licenceVars => LicenceInv'
<1> SUFFICES ASSUME LicenceInv, [LicenceNext]_licenceVars PROVE LicenceInv'
    OBVIOUS
<1>1. ASSUME NEW r \in Replicas, Moves(r) PROVE LicenceInv'
    <2>1. LicenceTypes' /\ OtherReplicasStay(r) /\ Heard(r)' /\ Seated(r)'
        BY <1>1, ReplicaStarts, HeartbeatKeeps, EndKeeps DEF Moves
    <2> QED BY <2>1, OthersKeep DEF LicenceInv
<1>2. CASE UNCHANGED licenceVars
    BY <1>2 DEF LicenceInv, LicenceTypes, Heard, Seated, In, licenceVars
<1> QED BY <1>1, <1>2, SubscribeKeeps DEF LicenceNext, Moves

\* The inductive invariant: every heartbeat that went unheard since the subscription ended
\* has been counted, and every seat of an application is known to the replica that holds it.
THEOREM LicenceInvariant == LicenceSpec => []LicenceInv
BY InitLicence, NextLicence, PTL DEF LicenceSpec

\* The invariant implies what the run checks.
LEMMA LicenceFollows == LicenceInv => LicenceKept
<1> SUFFICES ASSUME LicenceInv PROVE FailsClosed /\ AppSeatReturned
    BY DEF LicenceKept
<1>1. FailsClosed
    <2> SUFFICES ASSUME NEW r \in Replicas, In(r, "serving"), replica[r].beat = "none"
                 PROVE  unheard[r] < Limit
        BY DEF FailsClosed
    <2>1. unheard[r] <= replica[r].transient /\ unheard[r] \in Nat
        BY DEF LicenceInv, Heard, LicenceTypes
    <2>2. replica[r].transient \in 0..(Limit - 1)
        BY DEF LicenceInv, LicenceTypes, Replica
    <2> QED BY <2>1, <2>2, LicenceAssumption
<1>2. AppSeatReturned
    BY DEF LicenceInv, Seated, AppSeatReturned, In
<1> QED BY <1>1, <1>2

\* Whatever AWS answers, loses or refuses, and whenever replicas are told to stop: the end
\* of a subscription is noticed after the limit at the latest, and the application's seat
\* comes back from every replica that lost no answer and did not die.
THEOREM LicenceIsKept == LicenceSpec => []LicenceKept
BY LicenceInvariant, LicenceFollows, PTL

-----------------------------------------------------------------------------
(* The types of the columns, as far as the invariants leave them open.      *)

\* Times stay within the clock, tombstones name assertions.
SamlRanges ==
    /\ clock \in 0..MaxClock
    /\ \A r \in Requests : started[r].at \in 0..MaxClock
    /\ \A a \in DOMAIN issued : issued[a].at \in 0..MaxClock
    /\ tombstones \subseteq [assertion : DOMAIN issued, until : Nat]

\* Every step of a sign-in keeps them.
LEMMA SamlRangesStep == SamlInv /\ SamlRanges /\ [SamlNext]_samlVars => SamlRanges'
<1> SUFFICES ASSUME SamlInv, SamlRanges, [SamlNext]_samlVars PROVE SamlRanges'
    OBVIOUS
<1>1. started \in Seq([browser : Browsers, at : Nat]) /\ issued \in Seq(AssertionRow)
    BY DEF SamlInv, SamlTypes
<1>2. ASSUME NEW b \in Browsers, StartLogin(b) PROVE SamlRanges'
    <2> DEFINE row == [browser |-> b, at |-> clock]
    <2>1. /\ started' = Append(started, row) /\ UNCHANGED <<clock, tombstones, issued>>
          /\ row \in [browser : Browsers, at : Nat] /\ row.at \in 0..MaxClock
        BY <1>2, TimesAssumption DEF StartLogin, SamlRanges
    <2> HIDE DEF row
    <2>2. \A r \in 1..Len(started') : started'[r].at \in 0..MaxClock
        BY <1>1, <2>1 DEF SamlRanges, Requests
    <2> QED BY <2>1, <2>2 DEF SamlRanges, Requests
<1>3. ASSUME NEW r \in Requests \cup {NoRequest}, NEW d \in Lifetimes, Issue(r, clock + d)
      PROVE  SamlRanges'
    <2> DEFINE row == [answers |-> r, at |-> clock, until |-> clock + d]
    <2>1. /\ issued' = Append(issued, row) /\ UNCHANGED <<clock, tombstones, started>>
          /\ row \in AssertionRow /\ row.at \in 0..MaxClock
        BY <1>1, <1>3, TimesAssumption
           DEF Issue, SamlRanges, AssertionRow, Requests, NoRequest
    <2> HIDE DEF row
    <2>2. /\ DOMAIN issued \subseteq DOMAIN issued'
          /\ \A a \in DOMAIN issued' : issued'[a].at \in 0..MaxClock
        BY <1>1, <2>1 DEF SamlRanges
    <2> QED BY <2>1, <2>2 DEF SamlRanges, Requests
<1>4. ASSUME NEW p \in DOMAIN posts, Reserve(p) PROVE SamlRanges'
    <2>1. posts[p].assertion \in DOMAIN issued
        BY DEF SamlInv, References
    <2>2. ReplayUntil(posts[p].assertion) \in Nat
        BY <2>1, DeadlineIsATime DEF SamlInv
    <2> QED BY <1>4, <2>1, <2>2 DEF Reserve, SamlRanges, Requests
<1>5. CASE TimePasses
    BY <1>5, TimesAssumption DEF TimePasses, SamlRanges, Requests
<1>6. CASE Sweep
    BY <1>6 DEF Sweep, SamlRanges, Requests
<1>7. ASSUME UNCHANGED <<clock, started, issued, tombstones>> PROVE SamlRanges'
    BY <1>7 DEF SamlRanges, Requests
<1>8. ASSUME NEW b \in Browsers, NEW a \in DOMAIN issued, Post(b, a) PROVE SamlRanges'
    BY <1>7, <1>8 DEF Post
<1>9. ASSUME NEW p \in DOMAIN posts, Consume(p) \/ Check(p) \/ SignsIn(p) \/ PostEnds(p)
      PROVE  SamlRanges'
    BY <1>7, <1>9 DEF Consume, Check, SignsIn, PostEnds
<1> QED BY <1>2, <1>3, <1>4, <1>5, <1>6, <1>7, <1>8, <1>9 DEF SamlNext, samlVars

\* A sequence has the type its elements have.
LEMMA ElementsTypeSequence ==
    ASSUME NEW A, NEW B, NEW s \in Seq(A), \A i \in 1..Len(s) : s[i] \in B
    PROVE  s \in Seq(B)
OBVIOUS

\* Log-ins, rows, cookies, assertions and posts have their types.
THEOREM SamlTyped == SamlSpec => []SamlTypeOK
<1>1. SamlInit => SamlRanges
    BY TimesAssumption DEF SamlInit, SamlRanges, Requests
<1>2. ASSUME SamlInv, SamlRanges PROVE SamlTypeOK
    <2>1. started \in Seq([browser : Browsers, at : 0..MaxClock])
        <3>1. started \in Seq([browser : Browsers, at : Nat])
            BY <1>2 DEF SamlInv, SamlTypes
        <3>2. ASSUME NEW r \in 1..Len(started)
              PROVE  started[r] \in [browser : Browsers, at : 0..MaxClock]
            <4> DEFINE LoginRow == [browser : Browsers, at : Nat]
            <4>1. started \in Seq(LoginRow)
                BY <3>1
            <4> HIDE DEF LoginRow
            <4>2. started[r] \in LoginRow
                BY <4>1
            <4> USE DEF LoginRow
            <4>3. started[r].at \in 0..MaxClock
                BY <1>2 DEF SamlRanges, Requests
            <4> QED BY <4>2, <4>3
        <3> QED BY <3>1, <3>2, ElementsTypeSequence
    <2>2. issued \in Seq([answers : Requests \cup {NoRequest}, at : 0..MaxClock, until : Nat])
        <3>1. issued \in Seq(AssertionRow)
            BY <1>2 DEF SamlInv, SamlTypes
        <3>2. ASSUME NEW a \in 1..Len(issued)
              PROVE  issued[a] \in
                        [answers : Requests \cup {NoRequest}, at : 0..MaxClock, until : Nat]
            <4>1. issued[a] \in AssertionRow /\ a \in DOMAIN issued
                BY <3>1
            <4>2. issued[a].at \in 0..MaxClock /\ issued[a].answers \in Requests \cup {NoRequest}
                BY <1>2, <4>1 DEF SamlInv, References, SamlRanges
            <4> QED BY <4>1, <4>2 DEF AssertionRow
        <3> QED BY <3>1, <3>2, ElementsTypeSequence
    <2>3. posts \in Seq([stage : Stages, browser : Browsers, assertion : DOMAIN issued,
                         bound : BOOLEAN])
        <3>1. posts \in Seq(PostRow)
            BY <1>2 DEF SamlInv, SamlTypes
        <3>2. ASSUME NEW p \in 1..Len(posts)
              PROVE  posts[p] \in [stage : Stages, browser : Browsers, assertion : DOMAIN issued,
                                   bound : BOOLEAN]
            <4>1. posts[p] \in PostRow /\ p \in DOMAIN posts
                BY <3>1
            <4>2. posts[p].assertion \in DOMAIN issued
                BY <1>2, <4>1 DEF SamlInv, References
            <4> QED BY <4>1, <4>2 DEF PostRow
        <3> QED BY <3>1, <3>2, ElementsTypeSequence
    <2>4. cookie \in [Browsers -> Requests \cup {NoRequest}]
        BY <1>2 DEF SamlInv, SamlTypes, OwnCookies
    <2> QED BY <1>2, <2>1, <2>2, <2>3, <2>4 DEF SamlInv, References, SamlRanges, SamlTypeOK
<1> QED BY <1>1, <1>2, SamlRangesStep, SamlInvariant, PTL DEF SamlSpec

\* What is still to do has been chosen, and so has what is in hand.
InHand(x) ==
    x.stage \in PlannedStages => x.todo \subseteq x.chosen /\ x.at \in x.todo \cup {0}
ImportRanges ==
    /\ assets \subseteq {Asset[f] : f \in Fingerprints} /\ writable \in BOOLEAN
    /\ \A r \in Runs : InHand(runs[r])

\* A run that has stepped is in order when its own row is.
LEMMA RowInHand ==
    ASSUME ImportInv, ImportRanges, NEW r \in Runs, NEW x, runs' = [runs EXCEPT ![r] = x],
           UNCHANGED <<assets, writable>>, InHand(x)
    PROVE  ImportRanges'
<1>1. \A q \in Runs : runs'[q] = IF q = r THEN x ELSE runs[q]
    BY DEF ImportInv
<1> QED BY <1>1 DEF ImportRanges, InHand

\* Every step of an import keeps them.
LEMMA ImportRangesStep == ImportInv /\ ImportRanges /\ [ImportNext]_importVars => ImportRanges'
<1> SUFFICES ASSUME ImportInv, ImportRanges, [ImportNext]_importVars PROVE ImportRanges'
    OBVIOUS
<1>1. ASSUME NEW r \in Runs, NEW batch \in Batches, StoreReport(r, batch) PROVE ImportRanges'
    BY <1>1, RowInHand DEF StoreReport, InHand, PlannedStages
<1>2. ASSUME NEW r \in Runs, LookForDuplicates(r) PROVE ImportRanges'
    BY <1>2, RowInHand DEF LookForDuplicates, InHand
<1>3. ASSUME NEW r \in Runs, InsertRun(r) PROVE ImportRanges'
    BY <1>3, RowInHand, PlannedRun DEF InsertRun, ImportRanges, InHand, PlannedStages
<1>4. ASSUME NEW r \in Runs, BeginApply(r) PROVE ImportRanges'
    <2>1. PICK chosen \in SUBSET runs[r].creates :
             runs' = [runs EXCEPT ![r] = [runs[r] EXCEPT !.stage = "applying",
                          !.chosen = chosen, !.todo = chosen, !.made = {}]]
        BY <1>4 DEF BeginApply, ImportInv
    <2>2. runs[r].at = 0 /\ runs[r].stage \in PlannedStages
        BY <1>4 DEF BeginApply, ImportInv, PlanInOrder, PlannedStages
    <2> QED BY <1>4, <2>1, <2>2, RowInHand, PlannedRun DEF BeginApply, InHand
<1>5. ASSUME NEW r \in Runs, NEW n \in runs[r].todo, SkipItem(r, n) \/ PrepareItem(r, n)
      PROVE  ImportRanges'
    <2>1. runs[r].stage \in PlannedStages /\ InHand(runs[r])
        BY <1>5 DEF SkipItem, PrepareItem, PlannedStages, ImportRanges
    <2>2. CASE SkipItem(r, n)
        BY <2>1, <2>2, RowInHand, PlannedRun DEF SkipItem, InHand, ImportInv
    <2>3. CASE PrepareItem(r, n)
        <3> DEFINE a == Asset[runs[r].batch[n]]
                   kept == IF a \in assets THEN runs[r].fresh ELSE runs[r].fresh \cup {a}
                   x == [runs[r] EXCEPT !.at = n, !.fresh = kept]
        <3>1. runs' = [runs EXCEPT ![r] = x] /\ UNCHANGED <<assets, writable>>
            BY <2>3 DEF PrepareItem, ImportInv
        <3>2. x.stage = runs[r].stage /\ x.todo = runs[r].todo /\ x.chosen = runs[r].chosen /\ x.at = n
            BY <2>1, PlannedRun
        <3> HIDE DEF x
        <3> QED BY <2>1, <3>1, <3>2, RowInHand DEF InHand
    <2> QED BY <1>5, <2>2, <2>3
<1>6. ASSUME NEW r \in Runs, InsertItem(r) PROVE ImportRanges'
    <2>1. runs[r].stage \in PlannedStages /\ InHand(runs[r])
        BY <1>6 DEF InsertItem, PlannedStages, ImportRanges
    <2> QED BY <1>6, <2>1, RowInHand, PlannedRun DEF InsertItem, InHand, ImportInv
<1>7. ASSUME NEW r \in Runs, CommitApply(r) PROVE ImportRanges'
    <2>1. /\ runs[r].stage \in PlannedStages /\ InHand(runs[r])
          /\ runs[r].fresh \subseteq {Asset[f] : f \in Fingerprints}
        BY <1>7, PlannedRun DEF CommitApply, PlannedStages, ImportRanges
    <2>2. \A q \in Runs : /\ q # r => runs'[q] = runs[q]
                          /\ q = r => InHand(runs'[q])
        BY <1>7, <2>1, PlannedRun DEF CommitApply, InHand, ImportInv
    <2> QED BY <1>7, <2>1, <2>2 DEF CommitApply, ImportRanges, InHand
<1>8. ASSUME NEW r \in Runs, GiveUp(r) PROVE ImportRanges'
    <2>1. CASE runs[r].stage \in {"stored", "read"}
        BY <1>8, <2>1, RowInHand DEF GiveUp, InHand, NoRun, PlannedStages
    <2>2. CASE runs[r].stage = "applying"
        BY <1>8, <2>2, RowInHand, PlannedRun DEF GiveUp, InHand, PlannedStages, ImportInv
    <2> QED BY <1>8, <2>1, <2>2 DEF GiveUp
<1>9. ASSUME \/ \E row \in findings : DeleteOrRevive(row)
             \/ CloseEngagement \/ UNCHANGED importVars
      PROVE  ImportRanges'
    BY <1>9 DEF DeleteOrRevive, CloseEngagement, importVars, ImportRanges, InHand
<1> QED BY <1>1, <1>2, <1>3, <1>4, <1>5, <1>6, <1>7, <1>8, <1>9 DEF ImportNext

\* Findings, assets and runs have their types.
THEOREM ImportTyped == ImportSpec => []ImportTypeOK
<1>1. ImportInit => ImportRanges
    BY DEF ImportInit, ImportRanges, InHand, NoRun, PlannedStages
<1>2. ASSUME ImportInv, ImportRanges PROVE ImportTypeOK
    <2> SUFFICES ASSUME NEW r \in Runs
                 PROVE  \/ runs[r] = NoRun
                        \/ runs[r].stage = "stored" /\ runs[r].batch \in Batches
                        \/ /\ runs[r].stage \in PlannedStages
                           /\ runs[r].batch \in Batches
                           /\ runs[r].creates \cup runs[r].chosen \cup runs[r].todo \subseteq Positions(r)
                           /\ runs[r].made \subseteq runs[r].chosen
                           /\ runs[r].fresh \subseteq {Asset[f] : f \in Fingerprints}
                           /\ runs[r].at \in Positions(r) \cup {0}
        BY <1>2 DEF ImportInv, ImportRanges, ImportTypeOK, PlannedStages
    <2>1. CASE runs[r].stage \in PlannedStages
        BY <1>2, <2>1, PlannedRun DEF ImportInv, ImportRanges, InHand, PlanInOrder, Positions
    <2>2. CASE runs[r].stage \notin PlannedStages
        BY <1>2, <2>2 DEF ImportInv, RunState
    <2> QED BY <2>1, <2>2
<1> QED BY <1>1, <1>2, ImportRangesStep, ImportInvariant, PTL DEF ImportSpec

\* No more seats are taken than the contract has, and no more heartbeats go unheard than
\* the limit.
LicenceRanges ==
    /\ seats \subseteq Replicas \X Programs \X (1..Attempts)
    /\ IsFiniteSet(seats) /\ Cardinality(seats) <= Seats
    /\ faulty \subseteq Replicas
    /\ \A r \in Replicas : unheard[r] <= Limit

\* Every step about the licence keeps them.
LEMMA LicenceRangesStep ==
    LicenceInv /\ LicenceRanges /\ [LicenceNext]_licenceVars => LicenceRanges'
<1> SUFFICES ASSUME LicenceInv, LicenceRanges, [LicenceNext]_licenceVars PROVE LicenceRanges'
    OBVIOUS
<1>0. /\ \A r \in Replicas : replica[r] \in Replica /\ unheard[r] \in Nat
      /\ Cardinality(seats) \in Nat
    BY FS_CardinalityType DEF LicenceInv, LicenceTypes, LicenceRanges
<1>1. ASSUME NEW r \in Replicas, CheckOut(r) PROVE LicenceRanges'
    <2> DEFINE seat == <<r, replica[r].program, replica[r].attempt>>
    <2>1. seats' = seats \cup {seat} /\ Cardinality(seats) < Seats /\ UNCHANGED unheard
        BY <1>1 DEF CheckOut, SeatFree
    <2>2. seat \in Replicas \X Programs \X (1..Attempts)
        BY <1>0 DEF Replica
    <2> HIDE DEF seat
    <2>3. /\ IsFiniteSet(seats \cup {seat})
          /\ \/ Cardinality(seats \cup {seat}) = Cardinality(seats)
             \/ Cardinality(seats \cup {seat}) = Cardinality(seats) + 1
        BY FS_AddElement DEF LicenceRanges
    <2>4. Cardinality(seats') <= Seats /\ IsFiniteSet(seats')
        BY <1>0, <2>1, <2>3, LicenceAssumption
    <2>5. faulty' \subseteq Replicas
        BY <1>1 DEF CheckOut, Faulty, LicenceRanges
    <2> QED BY <2>1, <2>2, <2>4, <2>5 DEF LicenceRanges
<1>2. ASSUME NEW r \in Replicas, CheckIn(r) PROVE LicenceRanges'
    <2>1. seats' \subseteq seats /\ UNCHANGED <<faulty, unheard>>
        BY <1>2 DEF CheckIn
    <2>2. IsFiniteSet(seats') /\ Cardinality(seats') <= Cardinality(seats)
        BY <2>1, FS_Subset DEF LicenceRanges
    <2>3. Cardinality(seats') <= Seats
        BY <1>0, <2>2, FS_CardinalityType, LicenceAssumption DEF LicenceRanges
    <2> QED BY <2>1, <2>2, <2>3 DEF LicenceRanges
<1>3. ASSUME NEW r \in Replicas, AskHeartbeat(r) PROVE LicenceRanges'
    <2>1. unheard[r] <= replica[r].transient /\ replica[r].transient \in 0..(Limit - 1)
        BY <1>0, <1>3 DEF AskHeartbeat, LicenceInv, Heard, In, Replica
    <2>2. unheard[r] + 1 <= Limit
        BY <1>0, <2>1, LicenceAssumption
    <2>3. \A q \in Replicas : unheard'[q] <= Limit
        BY <1>0, <1>3, <2>2 DEF AskHeartbeat, LicenceInv, LicenceTypes, LicenceRanges
    <2> QED BY <1>3, <2>3 DEF AskHeartbeat, LicenceRanges
<1>4. CASE Subscribe
    BY <1>4, LicenceAssumption DEF Subscribe, LicenceRanges
<1>5. ASSUME NEW r \in Replicas, Die(r) PROVE LicenceRanges'
    BY <1>5 DEF Die, Faulty, LicenceRanges
<1>6. ASSUME UNCHANGED <<seats, faulty, unheard>> PROVE LicenceRanges'
    BY <1>6 DEF LicenceRanges
<1>7. ASSUME NEW r \in Replicas,
             \/ Start(r) \/ Refused(r) \/ Fallback(r) \/ StartFails(r)
             \/ AnswerHeartbeat(r) \/ EndHeartbeat(r) \/ Shutdown(r)
      PROVE  LicenceRanges'
    BY <1>6, <1>7 DEF Start, Refused, Fallback, StartFails, AnswerHeartbeat, EndHeartbeat, Shutdown
<1> QED BY <1>1, <1>2, <1>3, <1>4, <1>5, <1>6, <1>7 DEF LicenceNext, licenceVars

\* Seats, containers and what is counted have their types.
THEOREM LicenceTyped == LicenceSpec => []LicenceTypeOK
<1>1. LicenceInit => LicenceRanges
    BY FS_EmptySet, LicenceAssumption DEF LicenceInit, LicenceRanges
<1>2. ASSUME LicenceInv, LicenceRanges PROVE LicenceTypeOK
    <2>1. unheard \in [Replicas -> 0..Limit]
        BY <1>2, LicenceAssumption DEF LicenceInv, LicenceTypes, LicenceRanges
    <2> QED BY <1>2, <2>1 DEF LicenceInv, LicenceTypes, LicenceRanges, LicenceTypeOK, Replica,
         ReplicaStages
<1> QED BY <1>1, <1>2, LicenceRangesStep, LicenceInvariant, PTL DEF LicenceSpec

\* Memberships, sessions, invitations and requests have their types.
LEMMA AccessTypesFollow == AccessTypes /\ RecordTypes => AccessTypeOK
BY AccessAssumption DEF AccessTypes, RecordTypes, AccessTypeOK, Membership, Session, Times, Offer

\* What is on record of the requests that overlapped has its types.
LEMMA RecordTyped == AccessSpec => []RecordTypes
<1>1. AccessInit => RecordTypes
    BY DEF AccessInit, RecordTypes
<1> QED BY <1>1, RecordTypesStep, AccessTyped, PTL DEF AccessSpec

\* An engagement, its versions and the edits of it have their types.
LEMMA ScopeTypesFollow == ScopeInv => ScopeTypeOK
<1> SUFFICES ASSUME ScopeInv PROVE ScopeTypeOK
    OBVIOUS
<1>1. \A q \in Edits : edits[q].kind \in {"none", "transition", "draft", "item", "approve"}
    BY DEF ScopeInv, ScopeTypes, EditRead, NoEdit
<1> QED BY <1>1 DEF ScopeInv, ScopeTypes, ScopeTypeOK, Engagement, ScopeVersion

-----------------------------------------------------------------------------
(* The parts together, as the run checks them.                              *)

\* A behaviour moves one of the parts.
PartNamed == part \in {"members", "overlap", "signin", "domains", "scope", "imports", "licence"}

\* A behaviour of the run is one of each part: it moves one and leaves the others.
THEOREM PartsOfOrganisation ==
    OrganisationSpec => /\ AccessSpec /\ SamlSpec /\ DomainSpec
                        /\ ScopeSpec /\ ImportSpec /\ LicenceSpec
<1>1. OrganisationInit => /\ AccessInit /\ SamlInit /\ DomainInit
                          /\ ScopeInit /\ ImportInit /\ LicenceInit
  BY DEF OrganisationInit
<1>2. [OrganisationNext]_allVars =>
          /\ [AccessNext]_accessVars /\ [SamlNext]_samlVars /\ [DomainNext]_domainVars
          /\ [ScopeNext]_scopeVars /\ [ImportNext]_importVars /\ [LicenceNext]_licenceVars
  BY DEF OrganisationNext, allVars
<1> QED
  BY <1>1, <1>2, PTL
     DEF OrganisationSpec, AccessSpec, SamlSpec, DomainSpec, ScopeSpec, ImportSpec, LicenceSpec

\* The rows, cookies, posts, requests and seats of the part that moves have their types,
\* however many requests overlap.
THEOREM OrganisationTyped == OrganisationSpec => []OrganisationTypeOK
<1>1. /\ AccessTypes /\ RecordTypes /\ SamlTypeOK /\ (DomainTypeOK /\ DomainInv) /\ ScopeInv
      /\ ImportTypeOK /\ LicenceTypeOK /\ PartNamed
      => OrganisationTypeOK
  BY AccessTypesFollow, ScopeTypesFollow DEF OrganisationTypeOK, PartNamed
<1>2. OrganisationInit => PartNamed
  BY DEF OrganisationInit, PartNamed
<1>3. PartNamed /\ [OrganisationNext]_allVars => PartNamed'
  BY DEF OrganisationNext, allVars, PartNamed
<1>4. OrganisationSpec => []PartNamed
  BY <1>2, <1>3, PTL DEF OrganisationSpec
<1> QED
  BY <1>1, <1>4, PartsOfOrganisation, AccessTyped, RecordTyped, SamlTyped, DomainInvariant, ScopeInvariant,
     ImportTyped, LicenceTyped, PTL

\* What the run checks of its parts.
OrganisationSafe ==
    /\ RevokedStaysOut /\ OwnerRemains /\ SignInOnce
    /\ DomainsAreProved /\ EngagementInOrder /\ ImportsAddUp /\ LicenceKept

\* Every invariant of the run holds for all values of the constants, over the
\* specification of the run.
THEOREM OrganisationHolds == OrganisationSpec => []OrganisationSafe
BY RevokedStayOut, OrganisationKeepsOwner, PartsOfOrganisation, SignsInOnce,
   VerifiedOnceAndProved, EngagementStaysInOrder, ImportsKeepCount, LicenceIsKept, PTL
   DEF OrganisationSafe
=============================================================================
