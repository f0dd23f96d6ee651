----------------------------- MODULE FindingProofs ---------------------------
(* What holds of a finding for any members, requests, fields and number of   *)
(* versions: of FindingWorkflow first, then of RetestPortal.                 *)
EXTENDS MCFindingRegimes, FiniteSetTheorems, TLAPS

-----------------------------------------------------------------------------
(* The workflow.  *)

\* An enrichment writes back the references it read, so it must not be overtaken.
EnrichedAlone == "enrich" \in Events => ~Overlap

Reading == {"transition", "edit", "template", "enrich"}

FindingInOrder ==
    /\ finding.approved <= finding.version
    /\ finding.approved = finding.version =>
          approval.content.written = finding.content.written
    /\ \A v \in DOMAIN snapshots : v <= finding.version
    /\ finding.version \in DOMAIN snapshots =>
          snapshots[finding.version].written = finding.content.written
    /\ \A f \in Fields : finding.content.written[f] <= finding.version

\* What was read at the version that is still there was read right.
ReadStands(q) ==
    /\ q.kind \in Reading =>
          /\ q.read.version <= finding.version
          /\ q.read.approved <= q.read.version
          /\ q.read.version = finding.version =>
                /\ q.read.content.written = finding.content.written
                /\ q.read.approved = q.read.version =>
                      approval.content.written = finding.content.written
    /\ q.kind \in {"open", "edit"} =>
          \A f \in Fields : q.seen.written[f] <= finding.version

\* What a request has decided stays true of what it read.
Decided(q) ==
    /\ q.kind = "transition" => Permitted(q.read, q.actor, q.to, q.reason)
    /\ q.kind \in {"edit", "template"} => q.read.status \in Editable
    /\ q.kind = "enrich" => "enrich" \in Events

\* Requests that come one at a time see the finding as it is.
Alone(r) ==
    ~Overlap =>
        /\ requests[r].kind \in Reading => requests[r].read = finding
        /\ requests[r].kind \in {"open", "edit"} => requests[r].seen = finding.content
        /\ \A s \in Requests : requests[r] # Idle /\ requests[s] # Idle => r = s

WorkflowInv ==
    /\ WorkflowTypeOK
    /\ EnrichedAlone => FindingInOrder /\ PublishedIsApproved
    /\ \A r \in Requests :
          /\ EnrichedAlone => ReadStands(requests[r])
          /\ Decided(requests[r])
          /\ Alone(r)
-----------------------------------------------------------------------------
\* What the types say of a finding and of what a request has read.
LEMMA FindingFields ==
    ASSUME NEW f \in Finding
    PROVE  /\ f.status \in FindingStatus /\ f.version \in 1..MaxVersion
           /\ f.content \in Contents /\ f.reviewer \in Members \cup {None}
           /\ f.approved \in 0..MaxVersion
           /\ f.version \in Nat /\ f.approved \in Nat
<1> QED BY WorkflowAssumption DEF Finding

\* What the types say of a content.
LEMMA ContentFields ==
    ASSUME NEW c \in Contents
    PROVE  /\ c.written \in Content /\ c.linked \in BOOLEAN
           /\ \A f \in Fields : c.written[f] \in 1..MaxVersion
<1> QED BY DEF Contents, Content

\* What the types say of a request: what it read, saw and wants.
LEMMA RequestFields ==
    ASSUME NEW q \in Request
    PROVE  /\ q.kind \in Reading => q.read \in Finding
           /\ q.kind \in {"open", "edit"} => q.seen \in Contents
           /\ q.kind = "transition" =>
                 q.actor \in Members /\ q.to \in FindingStatus /\ q.reason \in BOOLEAN
<1>1. CASE q = Idle
  BY <1>1 DEF Idle, Reading
<1>2. CASE q \in [kind : {"transition"}, actor : Members, to : FindingStatus,
                  reason : BOOLEAN, read : Finding]
  BY <1>2
<1>3. CASE q \in [kind : {"open"}, seen : Contents]
  BY <1>3 DEF Reading
<1>4. CASE q \in [kind : {"edit"}, seen : Contents, read : Finding]
  BY <1>4
<1>5. CASE q \in [kind : {"template", "enrich"}, read : Finding]
  BY <1>5
<1> QED BY <1>1, <1>2, <1>3, <1>4, <1>5 DEF Request

\* Some parts are written anew, the others are as they were.
LEMMA WrittenContent ==
    ASSUME NEW c \in Contents, NEW fields, NEW v \in 1..MaxVersion
    PROVE  /\ Written(c, fields, v) \in Contents
           /\ \A f \in Fields : Written(c, fields, v).written[f] \in {v, c.written[f]}
<1>1. Written(c, fields, v) =
         [c EXCEPT !.written = [f \in Fields |-> IF f \in fields THEN v ELSE c.written[f]]]
  BY DEF Written
<1>2. [f \in Fields |-> IF f \in fields THEN v ELSE c.written[f]] \in Content
  BY ContentFields DEF Content
<1> QED BY <1>1, <1>2 DEF Contents

-----------------------------------------------------------------------------
\* A finding that was just created is in order.
LEMMA InitWorkflow == WorkflowInit => WorkflowInv
<1> SUFFICES ASSUME WorkflowInit PROVE WorkflowInv
  OBVIOUS
<1>1. FirstDraft \in Contents /\ \A f \in Fields : FirstDraft.written[f] = 1
  BY WorkflowAssumption DEF FirstDraft, Contents, Content
<1>2. /\ NewFinding \in Finding /\ NewFinding.status = "draft" /\ NewFinding.version = 1
      /\ NewFinding.approved = 0 /\ NewFinding.content = FirstDraft
  <2>1. "draft" \in FindingStatus /\ 1 \in 1..MaxVersion /\ 0 \in 0..MaxVersion
    BY WorkflowAssumption DEF FindingStatus, Workflow
  <2> QED BY <1>1, <2>1 DEF NewFinding, Finding
<1>3. DOMAIN snapshots = {1} /\ snapshots[1] = FirstDraft
  BY DEF WorkflowInit
<1>4. WorkflowTypeOK
  BY <1>1, <1>2, <1>3, WorkflowAssumption DEF WorkflowInit, WorkflowTypeOK, Request
<1>5. FindingInOrder /\ PublishedIsApproved
  BY <1>1, <1>2, <1>3 DEF WorkflowInit, FindingInOrder, PublishedIsApproved
<1>6. ASSUME NEW r \in Requests
      PROVE  ReadStands(requests[r]) /\ Decided(requests[r]) /\ Alone(r)
  BY DEF WorkflowInit, Idle, ReadStands, Decided, Alone, Reading
<1> QED BY <1>4, <1>5, <1>6 DEF WorkflowInv

\* A request reads, or ends: the finding is as it was.
LEMMA RequestMoves ==
    ASSUME WorkflowInv, NEW r \in Requests, NEW q \in Request,
           requests' = [requests EXCEPT ![r] = q],
           UNCHANGED <<finding, snapshots, approval>>, writable' \in BOOLEAN,
           EnrichedAlone => ReadStands(q),
           Decided(q),
           ~Overlap =>
               /\ q.kind \in Reading => q.read = finding
               /\ q.kind \in {"open", "edit"} => q.seen = finding.content
               /\ q # Idle => \A s \in Requests : s # r => requests[s] = Idle
    PROVE  WorkflowInv'
<1>1. /\ requests' \in [Requests -> Request] /\ requests'[r] = q
      /\ \A s \in Requests : s # r => requests'[s] = requests[s]
  BY DEF WorkflowInv, WorkflowTypeOK
<1>2. WorkflowTypeOK'
  BY <1>1 DEF WorkflowInv, WorkflowTypeOK
<1>3. EnrichedAlone => FindingInOrder' /\ PublishedIsApproved'
  BY DEF WorkflowInv, FindingInOrder, PublishedIsApproved
<1>4. ASSUME NEW s \in Requests
      PROVE  /\ EnrichedAlone => ReadStands(requests[s])'
             /\ Decided(requests[s])'
             /\ Alone(s)'
  <2>1. EnrichedAlone => ReadStands(requests[s])'
    <3>1. EnrichedAlone => ReadStands(requests[s])
      BY DEF WorkflowInv
    <3> QED BY <1>1, <3>1 DEF ReadStands
  <2>2. Decided(requests[s])'
    <3>1. Decided(requests[s])
      BY DEF WorkflowInv
    <3> QED BY <1>1, <3>1 DEF Decided
  <2>3. Alone(s)'
    <3>1. \A t \in Requests : Alone(t)
      BY DEF WorkflowInv
    <3> QED BY <1>1, <3>1 DEF Alone
  <2> QED BY <2>1, <2>2, <2>3
<1> QED BY <1>2, <1>3, <1>4 DEF WorkflowInv, EnrichedAlone

\* The finding moves on, and requests may end: what the others have read stands.
LEMMA FindingMoves ==
    ASSUME WorkflowInv, WorkflowTypeOK',
           EnrichedAlone => FindingInOrder' /\ PublishedIsApproved',
           finding.version <= finding'.version,
           EnrichedAlone /\ finding'.version = finding.version =>
               /\ finding'.content.written = finding.content.written
               /\ approval'.content.written \in
                     {approval.content.written, finding'.content.written},
           \A s \in Requests : requests'[s] \in {Idle, requests[s]},
           ~Overlap => \A s \in Requests : requests'[s] = Idle
    PROVE  WorkflowInv'
<1>1. ASSUME NEW s \in Requests
      PROVE  /\ EnrichedAlone => ReadStands(requests[s])'
             /\ Decided(requests[s])'
             /\ Alone(s)'
  <2>1. CASE requests'[s] = Idle
    BY <2>1 DEF Idle, ReadStands, Decided, Alone, Reading
  <2>2. CASE requests'[s] = requests[s] /\ requests'[s] # Idle
    <3>1. Decided(requests[s])' /\ Alone(s)'
      BY <2>2 DEF WorkflowInv, Decided, Alone
    <3>2. ASSUME EnrichedAlone PROVE ReadStands(requests[s])'
      <4>1. ReadStands(requests[s])
        BY <3>2 DEF WorkflowInv
      <4>2. /\ finding \in Finding /\ finding' \in Finding
            /\ requests[s].kind \in Reading => requests[s].read \in Finding
            /\ requests[s].kind \in {"open", "edit"} => requests[s].seen \in Contents
        BY RequestFields DEF WorkflowInv, WorkflowTypeOK
      <4>3. /\ finding.version \in Nat /\ finding'.version \in Nat
            /\ requests[s].kind \in Reading => requests[s].read.version \in Nat
            /\ requests[s].kind \in {"open", "edit"} =>
                  \A f \in Fields : requests[s].seen.written[f] \in Nat
        BY <4>2, FindingFields, ContentFields, WorkflowAssumption
      <4> QED BY <2>2, <3>2, <4>1, <4>3 DEF ReadStands
    <3> QED BY <3>1, <3>2
  <2> QED BY <2>1, <2>2
<1> QED BY <1>1 DEF WorkflowInv, EnrichedAlone

\* What a request read last it ends with.
LEMMA RequestEnds ==
    ASSUME WorkflowInv, NEW r \in Requests, requests[r] # Idle, End(r)
    PROVE  /\ requests' \in [Requests -> Request]
           /\ \A s \in Requests : requests'[s] \in {Idle, requests[s]}
           /\ ~Overlap => \A s \in Requests : requests'[s] = Idle
<1>1. requests \in [Requests -> Request] /\ Idle \in Request
  BY DEF WorkflowInv, WorkflowTypeOK, Request
<1>2. /\ requests' \in [Requests -> Request] /\ requests'[r] = Idle
      /\ \A s \in Requests : s # r => requests'[s] = requests[s]
  BY <1>1 DEF End
<1>3. ~Overlap => \A s \in Requests : s # r => requests[s] = Idle
  BY DEF WorkflowInv, Alone
<1> QED BY <1>2, <1>3

\* The row moves from status to status: the rules are asked of what was read.
LEMMA MovedFinding ==
    ASSUME NEW now \in Finding, NEW read \in Finding, NEW m \in Members,
           NEW to \in FindingStatus
    PROVE  /\ Moved(now, read, m, to) \in Finding
           /\ Moved(now, read, m, to).status = to
           /\ Moved(now, read, m, to).version = now.version
           /\ Moved(now, read, m, to).content = now.content
           /\ Moved(now, read, m, to).reviewer =
                 IF to \in {"peer_reviewed", "qa_approved"} THEN m ELSE read.reviewer
           /\ Moved(now, read, m, to).approved =
                 IF to = "qa_approved" THEN read.version ELSE read.approved
<1>1. read.version \in 0..MaxVersion
  BY WorkflowAssumption DEF Finding
<1> QED BY <1>1 DEF Moved, Finding

\* An approval records the content of the row, a publication whether it was waived.
LEMMA RecordedApproval ==
    ASSUME WorkflowTypeOK, NEW now \in Finding, NEW read, NEW to, Recorded(now, read, to)
    PROVE  /\ approval' \in [content : Contents, waived : BOOLEAN]
           /\ approval'.content = IF to = "qa_approved" THEN now.content ELSE approval.content
           /\ to = "published" => approval'.waived \/ read.approved = read.version
<1>1. now.content \in Contents /\ approval \in [content : Contents, waived : BOOLEAN]
  BY DEF Finding, WorkflowTypeOK
<1>2. CASE to = "qa_approved"
  BY <1>1, <1>2 DEF Recorded
<1>3. CASE to = "published"
  <2>1. approval' = [approval EXCEPT !.waived = read.approved # read.version]
    BY <1>3 DEF Recorded
  <2> QED BY <1>1, <1>3, <2>1
<1>4. CASE to \notin {"qa_approved", "published"}
  BY <1>1, <1>4 DEF Recorded
<1> QED BY <1>2, <1>3, <1>4

\* A transition that is committed keeps the invariant (transitionFindingInTransaction).
LEMMA CommitTransitionKeeps ==
    ASSUME WorkflowInv, NEW r \in Requests, CommitTransition(r)
    PROVE  WorkflowInv'
<1> DEFINE q == requests[r]
           new == Moved(finding, q.read, q.actor, q.to)
<1>1. /\ q.kind = "transition" /\ q # Idle /\ StillAsRead(q.read)
      /\ finding' = new /\ Recorded(finding, q.read, q.to)
      /\ End(r) /\ UNCHANGED <<snapshots, writable>>
  BY DEF CommitTransition, Idle
<1>2. /\ finding \in Finding /\ q.read \in Finding /\ q.actor \in Members
      /\ q.to \in FindingStatus
  BY <1>1, RequestFields DEF WorkflowInv, WorkflowTypeOK, Reading
<1> HIDE DEF q
<1>3. /\ new \in Finding /\ new.status = q.to /\ new.version = finding.version
      /\ new.content = finding.content
      /\ new.approved = IF q.to = "qa_approved" THEN q.read.version ELSE q.read.approved
  BY <1>2, MovedFinding, SMTT(30)
<1>4. /\ approval' \in [content : Contents, waived : BOOLEAN]
      /\ approval'.content = IF q.to = "qa_approved" THEN finding.content ELSE approval.content
      /\ q.to = "published" => approval'.waived \/ q.read.approved = q.read.version
  BY <1>1, <1>2, RecordedApproval DEF WorkflowInv
<1> HIDE DEF new
<1>5. WorkflowTypeOK'
  <2>1. requests' \in [Requests -> Request]
    BY <1>1, RequestEnds DEF q
  <2> QED BY <1>1, <1>3, <1>4, <2>1 DEF WorkflowInv, WorkflowTypeOK
<1>6. ASSUME EnrichedAlone PROVE FindingInOrder' /\ PublishedIsApproved'
  <2>1. /\ q.read.approved <= finding.version /\ q.read.version = finding.version
        /\ q.read.content.written = finding.content.written
        /\ q.read.approved = finding.version =>
              approval.content.written = finding.content.written
    BY <1>1, <1>6 DEF WorkflowInv, ReadStands, Reading, StillAsRead, q
  <2>2. FindingInOrder'
    <3>1. finding.version \in Nat
      BY <1>2, FindingFields
    <3>2. FindingInOrder
      BY <1>6 DEF WorkflowInv
    <3> QED BY <1>1, <1>3, <1>4, <2>1, <3>1, <3>2 DEF FindingInOrder
  <2>3. PublishedIsApproved'
    BY <1>1, <1>3, <1>4, <2>1 DEF PublishedIsApproved
  <2> QED BY <2>2, <2>3
<1>7. finding.version <= finding'.version
  BY <1>1, <1>2, <1>3, FindingFields
<1> QED
  BY <1>1, <1>3, <1>4, <1>5, <1>6, <1>7, RequestEnds, FindingMoves DEF q

\* A snapshot is taken of the version that is left, unless there is one.
LEMMA SnapshotTaken ==
    ASSUME WorkflowTypeOK, NEW f \in Finding, Snapshot(f)
    PROVE  /\ DOMAIN snapshots' = DOMAIN snapshots \cup {f.version}
           /\ \A v \in DOMAIN snapshots : snapshots'[v] = snapshots[v]
           /\ f.version \notin DOMAIN snapshots => snapshots'[f.version] = f.content
           /\ DOMAIN snapshots' \subseteq 1..MaxVersion
           /\ \A v \in DOMAIN snapshots' : snapshots'[v] \in Contents
<1>1. /\ DOMAIN snapshots' = DOMAIN snapshots \cup {f.version}
      /\ \A v \in DOMAIN snapshots : snapshots'[v] = snapshots[v]
      /\ f.version \notin DOMAIN snapshots => snapshots'[f.version] = f.content
  BY DEF Snapshot
<1>2. /\ DOMAIN snapshots \subseteq 1..MaxVersion
      /\ \A v \in DOMAIN snapshots : snapshots[v] \in Contents
  BY DEF WorkflowTypeOK
<1> QED BY <1>1, <1>2, FindingFields

\* An edit, a template or an import writes a new version, while the finding is being
\* written, out of what was there.
Authors(read, content) ==
    /\ NewVersion(read, content)
    /\ read.status \in Editable
    /\ EnrichedAlone =>
          /\ read.content.written = finding.content.written
          /\ \A f \in Fields : content.written[f] <= finding.version + 1
    /\ ~Overlap => \A f \in Fields :
          content.written[f] \in {finding.version + 1, finding.content.written[f]}

Authored == \E read \in Finding, content \in Contents : Authors(read, content)

\* Whoever writes a new version, and ends his request with it, keeps the invariant.
LEMMA AuthoredKeeps ==
    ASSUME WorkflowInv, Authored,
           requests' \in [Requests -> Request],
           \A s \in Requests : requests'[s] \in {Idle, requests[s]},
           ~Overlap => \A s \in Requests : requests'[s] = Idle,
           UNCHANGED <<writable, approval>>
    PROVE  WorkflowInv'
<1> PICK read \in Finding, content \in Contents : Authors(read, content)
  BY DEF Authored
<1>1. /\ finding.status = read.status /\ finding.version = read.version
      /\ read.status \in Editable
      /\ read.version < MaxVersion
      /\ finding' = [finding EXCEPT !.version = read.version + 1, !.content = content]
      /\ Snapshot(read)
  BY DEF Authors, NewVersion, StillAsRead
<1>2. /\ finding \in Finding /\ MaxVersion \in Nat
      /\ finding.version \in 1..MaxVersion /\ finding.approved \in 0..MaxVersion
  BY FindingFields, WorkflowAssumption DEF WorkflowInv, WorkflowTypeOK
<1>3. /\ finding' \in Finding /\ finding'.version = finding.version + 1
      /\ finding'.status = finding.status /\ finding'.content = content
      /\ finding'.approved = finding.approved
  <2>1. read.version + 1 \in 1..MaxVersion
    BY <1>1, <1>2
  <2> DEFINE v == read.version + 1
  <2>2. finding' = [finding EXCEPT !.version = v, !.content = content] /\ v \in 1..MaxVersion
    BY <1>1, <2>1
  <2>3. v = finding.version + 1
    BY <1>1
  <2> HIDE DEF v
  <2> QED BY <1>2, <2>2, <2>3 DEF Finding
<1>4. WorkflowTypeOK'
  <2>1. /\ DOMAIN snapshots' \subseteq 1..MaxVersion
        /\ \A v \in DOMAIN snapshots' : snapshots'[v] \in Contents
    BY <1>1, SnapshotTaken DEF WorkflowInv
  <2> QED BY <1>3, <2>1 DEF WorkflowInv, WorkflowTypeOK
<1>5. ASSUME EnrichedAlone PROVE FindingInOrder' /\ PublishedIsApproved'
  <2>1. FindingInOrder
    BY <1>5 DEF WorkflowInv
  <2>2. finding.status # "published"
    BY <1>1 DEF Editable
  <2>3. /\ DOMAIN snapshots' = DOMAIN snapshots \cup {finding.version}
        /\ DOMAIN snapshots \subseteq 1..MaxVersion
    BY <1>1, SnapshotTaken DEF WorkflowInv, WorkflowTypeOK
  <2>4. FindingInOrder'
    BY <1>2, <1>3, <1>5, <2>1, <2>3 DEF FindingInOrder, Authors
  <2> QED BY <1>3, <2>2, <2>4 DEF PublishedIsApproved
<1> QED
  BY <1>2, <1>3, <1>4, <1>5, FindingMoves

\* The status that the editor read is the one the row still has.
LEMMA EditorsRead ==
    ASSUME WorkflowInv, NEW r \in Requests, requests[r].kind \in {"edit", "template"},
           StillAsRead(requests[r].read)
    PROVE  /\ requests[r] # Idle /\ requests[r].read \in Finding
           /\ requests[r].read.status \in Editable
           /\ requests[r].read.version = finding.version
           /\ EnrichedAlone => requests[r].read.content.written = finding.content.written
<1>1. requests[r] \in Request /\ Decided(requests[r])
  BY DEF WorkflowInv, WorkflowTypeOK
<1>2. requests[r].kind \in Reading /\ requests[r].read \in Finding /\ requests[r] # Idle
  BY <1>1, RequestFields DEF Reading, Idle
<1>3. EnrichedAlone => ReadStands(requests[r])
  BY DEF WorkflowInv
<1> QED BY <1>1, <1>2, <1>3 DEF StillAsRead, Decided, ReadStands

\* Saving a narrative writes a new version so.
LEMMA EditAuthors ==
    ASSUME WorkflowInv, NEW r \in Requests, CommitEdit(r)
    PROVE  Authored
<1> DEFINE q == requests[r]
<1>1. PICK f \in Fields : NewVersion(q.read, Written(q.seen, {f}, q.read.version + 1))
  BY DEF CommitEdit
<1>2. /\ q.kind = "edit" /\ StillAsRead(q.read) /\ q.read.version < MaxVersion
      /\ End(r) /\ UNCHANGED <<writable, approval>>
  BY <1>1 DEF CommitEdit, NewVersion
<1>10. ~Overlap => q.seen = finding.content
  BY <1>2 DEF WorkflowInv, Alone
<1>3. /\ q # Idle /\ q.read \in Finding /\ q.read.status \in Editable
      /\ q.read.version = finding.version
      /\ EnrichedAlone => q.read.content.written = finding.content.written
  BY <1>2, EditorsRead
<1>4. /\ q.seen \in Contents /\ finding.version \in Nat
      /\ q.read.version + 1 \in 1..MaxVersion
  BY <1>2, <1>3, RequestFields, FindingFields, WorkflowAssumption
     DEF WorkflowInv, WorkflowTypeOK
<1>5. EnrichedAlone => \A g \in Fields : q.seen.written[g] <= finding.version
  BY <1>2 DEF WorkflowInv, ReadStands
<1> HIDE DEF q
<1> DEFINE content == Written(q.seen, {f}, q.read.version + 1)
<1>6. /\ content \in Contents
      /\ \A g \in Fields : content.written[g] \in {q.read.version + 1, q.seen.written[g]}
  BY <1>4, WrittenContent
<1>7. \A g \in Fields : q.seen.written[g] \in Nat
  BY <1>4, ContentFields
<1> HIDE DEF content
<1>8. EnrichedAlone => \A g \in Fields : content.written[g] <= finding.version + 1
  BY <1>3, <1>4, <1>5, <1>6, <1>7
<1>9. NewVersion(q.read, content)
  BY <1>1 DEF content
<1> QED
  BY <1>3, <1>6, <1>8, <1>9, <1>10 DEF Authored, Authors

\* Taking over the latest template writes a new version so.
LEMMA TemplateAuthors ==
    ASSUME WorkflowInv, NEW r \in Requests, CommitTemplate(r)
    PROVE  Authored
<1> DEFINE q == requests[r]
           content == [written |-> [f \in Fields |-> q.read.version + 1], linked |-> FALSE]
<1>1. /\ q.kind = "template" /\ NewVersion(q.read, content) /\ StillAsRead(q.read)
      /\ q.read.version < MaxVersion
      /\ End(r) /\ UNCHANGED <<writable, approval>>
  BY DEF CommitTemplate, NewVersion
<1>2. /\ q # Idle /\ q.read \in Finding /\ q.read.status \in Editable
      /\ q.read.version = finding.version
      /\ EnrichedAlone => q.read.content.written = finding.content.written
  BY <1>1, EditorsRead
<1>3. q.read.version \in Nat /\ q.read.version + 1 \in 1..MaxVersion
  BY <1>1, <1>2, FindingFields, WorkflowAssumption
<1> HIDE DEF q
<1>4. content \in Contents /\ \A f \in Fields : content.written[f] = q.read.version + 1
  BY <1>3 DEF Contents, Content
<1> HIDE DEF content
<1>5. \A f \in Fields : content.written[f] <= finding.version + 1
  BY <1>2, <1>3, <1>4
<1> QED
  BY <1>1, <1>2, <1>4, <1>5 DEF Authored, Authors

\* The import of a bundle writes a new version so.
LEMMA ImportAuthors ==
    ASSUME WorkflowInv, ImportBundle
    PROVE  Authored
<1> DEFINE content == Written(finding.content, {"text", "severity"}, finding.version + 1)
<1>1. /\ NewVersion(finding, content) /\ finding.status \in Editable
      /\ finding.version < MaxVersion
      /\ MayStart /\ UNCHANGED <<requests, writable, approval>>
  BY DEF ImportBundle, NewVersion, MayEdit
<1>2. /\ finding \in Finding /\ finding.content \in Contents /\ finding.version \in Nat
      /\ finding.version + 1 \in 1..MaxVersion
  BY <1>1, FindingFields, WorkflowAssumption DEF WorkflowInv, WorkflowTypeOK
<1>3. /\ content \in Contents
      /\ \A f \in Fields :
            content.written[f] \in {finding.version + 1, finding.content.written[f]}
  BY <1>2, WrittenContent
<1>4. EnrichedAlone => \A f \in Fields : finding.content.written[f] <= finding.version
  BY DEF WorkflowInv, FindingInOrder
<1>5. \A f \in Fields : finding.content.written[f] \in Nat
  BY <1>2, ContentFields
<1> HIDE DEF content
<1>6. EnrichedAlone => \A f \in Fields : content.written[f] <= finding.version + 1
  BY <1>2, <1>3, <1>4, <1>5
<1> QED BY <1>1, <1>2, <1>3, <1>6 DEF Authored, Authors

\* An enrichment that is not overtaken changes nothing that was written.
LEMMA EnrichedFinding ==
    ASSUME WorkflowInv, NEW r \in Requests, CommitEnrich(r)
    PROVE  /\ "enrich" \in Events /\ requests[r] # Idle
           /\ finding' \in Finding
           /\ finding'.status = finding.status /\ finding'.version = finding.version
           /\ finding'.approved = finding.approved
           /\ ~Overlap => finding'.content.written = finding.content.written
           /\ \A f \in Fields \ {"references"} :
                 finding'.content.written[f] = finding.content.written[f]
<1> DEFINE q == requests[r]
           ref == q.read.content.written["references"]
           written == [finding.content.written EXCEPT !["references"] = ref]
           content == [finding.content EXCEPT !.written = written, !.linked = TRUE]
<1>1. /\ q.kind = "enrich" /\ q # Idle
      /\ finding' = [finding EXCEPT !.content.written["references"] = ref,
                                    !.content.linked = TRUE]
  BY DEF CommitEnrich, Idle
<1>2. q \in Request /\ Decided(q) /\ Alone(r) /\ finding \in Finding
  BY DEF WorkflowInv, WorkflowTypeOK
<1>3. q.read \in Finding /\ "enrich" \in Events /\ "references" \in Fields
  BY <1>1, <1>2, RequestFields, WorkflowAssumption DEF Decided, Reading
<1>4. /\ finding.content \in Contents /\ finding.content.written \in [Fields -> 1..MaxVersion]
      /\ ref \in 1..MaxVersion
  BY <1>2, <1>3, FindingFields, ContentFields DEF Content
<1>5. finding' = [finding EXCEPT !.content = content]
  BY <1>1, <1>2, <1>4 DEF Finding, Contents
<1>6. written \in Content
  BY <1>3, <1>4 DEF Content
<1>7. /\ ~Overlap => written = finding.content.written
      /\ \A f \in Fields \ {"references"} : written[f] = finding.content.written[f]
  BY <1>1, <1>2, <1>3, <1>4 DEF Alone, Reading
<1> HIDE DEF written, q
<1>8. content \in Contents /\ content.written = written
  BY <1>4, <1>6 DEF Contents
<1> HIDE DEF content
<1> QED BY <1>1, <1>2, <1>3, <1>5, <1>7, <1>8 DEF Finding, q

\* An enrichment that is committed keeps the invariant.
LEMMA CommitEnrichKeeps ==
    ASSUME WorkflowInv, NEW r \in Requests, CommitEnrich(r)
    PROVE  WorkflowInv'
<1>1. /\ "enrich" \in Events /\ requests[r] # Idle
      /\ finding' \in Finding
      /\ finding'.status = finding.status /\ finding'.version = finding.version
      /\ finding'.approved = finding.approved
      /\ ~Overlap => finding'.content.written = finding.content.written
  BY EnrichedFinding
<1>2. End(r) /\ UNCHANGED <<snapshots, writable, approval>>
  BY DEF CommitEnrich
<1>3. /\ requests' \in [Requests -> Request]
      /\ \A s \in Requests : requests'[s] \in {Idle, requests[s]}
      /\ ~Overlap => \A s \in Requests : requests'[s] = Idle
  BY <1>1, <1>2, RequestEnds
<1>4. WorkflowTypeOK'
  BY <1>1, <1>2, <1>3 DEF WorkflowInv, WorkflowTypeOK
<1>5. EnrichedAlone => FindingInOrder' /\ PublishedIsApproved'
  BY <1>1, <1>2 DEF WorkflowInv, EnrichedAlone, FindingInOrder, PublishedIsApproved
<1>6. finding.version <= finding'.version
  BY <1>1, FindingFields
<1> QED BY <1>1, <1>2, <1>3, <1>4, <1>5, <1>6, FindingMoves DEF EnrichedAlone

\* A bulk update edits first, which undoes an approval, and then moves on.
LEMMA BulkUpdateKeeps ==
    ASSUME WorkflowInv, NEW m \in Members, NEW edited \in BOOLEAN,
           NEW to \in Targets \cup {finding.status}, BulkUpdate(m, edited, to)
    PROVE  WorkflowInv'
<1> DEFINE v == finding.version + 1
           content == Written(finding.content, {"severity"}, v)
           f == IF edited THEN [finding EXCEPT !.version = v, !.content = content] ELSE finding
<1>1. finding \in Finding /\ finding.version \in Nat /\ finding.approved \in Nat
  BY FindingFields DEF WorkflowInv, WorkflowTypeOK
<1>2. /\ MayStart /\ UNCHANGED <<requests, writable>>
      /\ edited => finding.status \in Editable /\ finding.version < MaxVersion
      /\ to # finding.status => Permitted(f, m, to, FALSE)
      /\ finding' = IF to = finding.status THEN f ELSE Moved(f, f, m, to)
      /\ IF edited THEN Snapshot(finding) ELSE UNCHANGED snapshots
      /\ IF to = finding.status THEN UNCHANGED approval ELSE Recorded(f, f, to)
  BY DEF BulkUpdate, MayEdit
<1>3. edited => /\ v \in 1..MaxVersion /\ content \in Contents
                /\ \A x \in Fields : content.written[x] \in {v, finding.content.written[x]}
  BY <1>1, <1>2, FindingFields, WrittenContent, WorkflowAssumption
<1> HIDE DEF content
<1>4. /\ f \in Finding /\ f.status = finding.status /\ f.approved = finding.approved
      /\ f.version = IF edited THEN v ELSE finding.version
      /\ f.content = IF edited THEN content ELSE finding.content
  BY <1>1, <1>3 DEF Finding
<1> HIDE DEF f
<1>5. to \in FindingStatus
  BY <1>1, WorkflowAssumption DEF Finding, FindingStatus
<1>6. /\ finding' \in Finding /\ finding'.status = to /\ finding'.version = f.version
      /\ finding'.content = f.content
      /\ finding'.approved = IF to = "qa_approved" /\ to # finding.status
                              THEN f.version ELSE f.approved
  BY <1>2, <1>4, <1>5, MovedFinding
<1>7. /\ approval' \in [content : Contents, waived : BOOLEAN]
      /\ to = finding.status => approval' = approval
      /\ to # finding.status =>
            /\ approval'.content = IF to = "qa_approved" THEN f.content ELSE approval.content
            /\ to = "published" => approval'.waived \/ f.approved = f.version
  BY <1>2, <1>4, RecordedApproval DEF WorkflowInv, WorkflowTypeOK
<1>8. /\ edited => DOMAIN snapshots' = DOMAIN snapshots \cup {finding.version}
      /\ ~edited => snapshots' = snapshots
      /\ DOMAIN snapshots' \subseteq 1..MaxVersion
      /\ \A x \in DOMAIN snapshots' : snapshots'[x] \in Contents
  BY <1>1, <1>2, SnapshotTaken DEF WorkflowInv, WorkflowTypeOK
<1>9. WorkflowTypeOK'
  BY <1>2, <1>6, <1>7, <1>8 DEF WorkflowInv, WorkflowTypeOK
<1>10. ASSUME EnrichedAlone PROVE FindingInOrder' /\ PublishedIsApproved'
  <2>1. FindingInOrder /\ PublishedIsApproved
    BY <1>10 DEF WorkflowInv
  <2>2. \A x \in DOMAIN snapshots : x \in Nat
    BY DEF WorkflowInv, WorkflowTypeOK
  <2>3. \A x \in Fields : finding.content.written[x] \in Nat
    BY <1>1, FindingFields, ContentFields
  <2>4. CASE edited
    <3>1. f.approved < f.version /\ f.approved # f.version
      BY <1>1, <1>4, <2>1, <2>4 DEF FindingInOrder
    <3>2. finding.status # "published"
      BY <1>2, <2>4 DEF Editable
    <3>3. /\ finding'.approved <= finding'.version
          /\ finding'.approved = finding'.version =>
                approval'.content.written = finding'.content.written
      BY <1>1, <1>4, <1>6, <1>7, <2>1, <2>4, <3>1 DEF FindingInOrder
    <3>4. /\ \A x \in DOMAIN snapshots' : x <= finding'.version
          /\ finding'.version \notin DOMAIN snapshots'
      BY <1>1, <1>4, <1>6, <1>8, <2>1, <2>2, <2>4 DEF FindingInOrder
    <3>5. \A x \in Fields : finding'.content.written[x] <= finding'.version
      BY <1>1, <1>3, <1>4, <1>6, <2>1, <2>3, <2>4 DEF FindingInOrder
    <3>6. PublishedIsApproved'
      BY <1>4, <1>6, <1>7, <3>1, <3>2 DEF PublishedIsApproved
    <3> QED BY <3>3, <3>4, <3>5, <3>6 DEF FindingInOrder
  <2>5. CASE ~edited
    <3>1. FindingInOrder'
      BY <1>1, <1>4, <1>6, <1>7, <1>8, <2>1, <2>5 DEF FindingInOrder
    <3>2. PublishedIsApproved'
      BY <1>4, <1>6, <1>7, <2>1, <2>5 DEF PublishedIsApproved, FindingInOrder
    <3> QED BY <3>1, <3>2
  <2> QED BY <2>4, <2>5
<1>11. /\ finding.version <= finding'.version
       /\ finding'.version = finding.version => finding'.content = finding.content
       /\ approval'.content.written \in {approval.content.written, finding'.content.written}
  BY <1>1, <1>4, <1>6, <1>7
<1>12. /\ \A s \in Requests : requests'[s] \in {Idle, requests[s]}
       /\ ~Overlap => \A s \in Requests : requests'[s] = Idle
  BY <1>2 DEF MayStart
<1> QED BY <1>9, <1>10, <1>11, <1>12, FindingMoves

\* What is read now stands, and is the finding as it is.
LEMMA ReadsKeep ==
    ASSUME WorkflowInv, NEW r \in Requests, NEW q \in Request,
           requests' = [requests EXCEPT ![r] = q],
           UNCHANGED <<finding, snapshots, writable, approval>>,
           q.kind \in Reading => q.read = finding,
           q.kind = "open" => q.seen = finding.content,
           q.kind = "edit" => requests[r].kind = "open" /\ q.seen = requests[r].seen,
           Decided(q),
           ~Overlap => \A s \in Requests : s # r => requests[s] = Idle
    PROVE  WorkflowInv'
<1>1. EnrichedAlone => ReadStands(q)
  <2> SUFFICES ASSUME EnrichedAlone PROVE ReadStands(q)
    OBVIOUS
  <2>1. FindingInOrder /\ ReadStands(requests[r])
    BY DEF WorkflowInv
  <2>2. finding.version \in Nat
    BY FindingFields DEF WorkflowInv, WorkflowTypeOK
  <2>3. q.kind \in {"open", "edit"} => \A f \in Fields : q.seen.written[f] <= finding.version
    BY <2>1 DEF FindingInOrder, ReadStands
  <2>4. ASSUME q.kind \in Reading
        PROVE  /\ q.read.version <= finding.version
               /\ q.read.approved <= q.read.version
               /\ q.read.content.written = finding.content.written
               /\ q.read.approved = q.read.version =>
                     approval.content.written = finding.content.written
    BY <2>1, <2>2, <2>4 DEF FindingInOrder
  <2> QED BY <2>3, <2>4 DEF ReadStands
<1>2. ~Overlap => (q.kind \in {"open", "edit"} => q.seen = finding.content)
  BY DEF WorkflowInv, Alone
<1>3. writable' \in BOOLEAN
  BY DEF WorkflowInv, WorkflowTypeOK
<1> QED BY <1>1, <1>2, <1>3, RequestMoves

\* A request that reads keeps the invariant.
LEMMA BeginsKeep ==
    ASSUME WorkflowInv, NEW r \in Requests,
           \/ \E m \in Members, to \in Targets, reason \in BOOLEAN :
                 BeginTransition(r, m, to, reason)
           \/ OpenFinding(r) \/ ReadForEdit(r) \/ BeginTemplate(r) \/ BeginEnrich(r)
    PROVE  WorkflowInv'
<1>1. finding \in Finding /\ finding.content \in Contents
  BY FindingFields DEF WorkflowInv, WorkflowTypeOK
<1>2. MayStart => (~Overlap => \A s \in Requests : requests[s] = Idle)
  BY DEF MayStart
<1>3. ASSUME NEW m \in Members, NEW to \in Targets, NEW reason \in BOOLEAN,
             BeginTransition(r, m, to, reason)
      PROVE  WorkflowInv'
  <2> DEFINE q == [kind |-> "transition", actor |-> m, to |-> to, reason |-> reason,
                   read |-> finding]
  <2>1. to \in FindingStatus
    BY WorkflowAssumption DEF FindingStatus
  <2>2. q \in Request /\ Decided(q) /\ q.kind = "transition" /\ q.read = finding
    BY <1>1, <1>3, <2>1 DEF Request, Decided, BeginTransition
  <2>3. /\ MayStart /\ requests' = [requests EXCEPT ![r] = q]
        /\ UNCHANGED <<finding, snapshots, writable, approval>>
    BY <1>3 DEF BeginTransition, Begin
  <2> HIDE DEF q
  <2> QED BY <1>2, <2>2, <2>3, ReadsKeep DEF Reading
<1>4. CASE OpenFinding(r)
  <2> DEFINE q == [kind |-> "open", seen |-> finding.content]
  <2>1. q \in Request /\ Decided(q) /\ q.kind = "open" /\ q.seen = finding.content
    BY <1>1 DEF Request, Decided
  <2>2. /\ MayStart /\ requests' = [requests EXCEPT ![r] = q]
        /\ UNCHANGED <<finding, snapshots, writable, approval>>
    BY <1>4 DEF OpenFinding, Begin
  <2> HIDE DEF q
  <2> QED BY <1>2, <2>1, <2>2, ReadsKeep DEF Reading
<1>5. CASE ReadForEdit(r)
  <2> DEFINE q == [kind |-> "edit", seen |-> requests[r].seen, read |-> finding]
  <2>1. /\ requests[r].kind = "open" /\ finding.status \in Editable
        /\ requests' = [requests EXCEPT ![r] = q]
        /\ UNCHANGED <<finding, snapshots, writable, approval>>
    BY <1>5 DEF ReadForEdit, MayEdit
  <2>2. requests[r] \in Request /\ requests[r].seen \in Contents /\ requests[r] # Idle
    BY <2>1, RequestFields DEF WorkflowInv, WorkflowTypeOK, Idle
  <2>3. /\ q \in Request /\ Decided(q) /\ q.kind = "edit" /\ q.read = finding
        /\ q.seen = requests[r].seen
    BY <1>1, <2>1, <2>2 DEF Request, Decided
  <2>4. ~Overlap => \A s \in Requests : s # r => requests[s] = Idle
    BY <2>2 DEF WorkflowInv, Alone
  <2> HIDE DEF q
  <2> QED BY <2>1, <2>3, <2>4, ReadsKeep
<1>6. CASE BeginTemplate(r)
  <2> DEFINE q == [kind |-> "template", read |-> finding]
  <2>1. /\ MayStart /\ finding.status \in Editable /\ requests' = [requests EXCEPT ![r] = q]
        /\ UNCHANGED <<finding, snapshots, writable, approval>>
    BY <1>6 DEF BeginTemplate, Begin, MayEdit
  <2>2. q \in Request /\ Decided(q) /\ q.kind = "template" /\ q.read = finding
    BY <1>1, <2>1 DEF Request, Decided
  <2> HIDE DEF q
  <2> QED BY <1>2, <2>1, <2>2, ReadsKeep DEF Reading
<1>7. CASE BeginEnrich(r)
  <2> DEFINE q == [kind |-> "enrich", read |-> finding]
  <2>1. /\ MayStart /\ "enrich" \in Events /\ requests' = [requests EXCEPT ![r] = q]
        /\ UNCHANGED <<finding, snapshots, writable, approval>>
    BY <1>7 DEF BeginEnrich, Begin
  <2>2. q \in Request /\ Decided(q) /\ q.kind = "enrich" /\ q.read = finding
    BY <1>1, <2>1 DEF Request, Decided
  <2> HIDE DEF q
  <2> QED BY <1>2, <2>1, <2>2, ReadsKeep DEF Reading
<1> QED BY <1>3, <1>4, <1>5, <1>6, <1>7

\* Every step keeps the invariant.
LEMMA NextWorkflow == WorkflowInv /\ [WorkflowNext]_workflowVars => WorkflowInv'
<1> SUFFICES ASSUME WorkflowInv, [WorkflowNext]_workflowVars PROVE WorkflowInv'
  OBVIOUS
<1>1. ASSUME NEW r \in Requests, Abandon(r) PROVE WorkflowInv'
  <2>1. Idle \in Request /\ Decided(Idle) /\ Idle.kind = "idle"
    BY DEF Request, Idle, Decided
  <2>2. /\ requests[r] # Idle /\ requests' = [requests EXCEPT ![r] = Idle]
        /\ UNCHANGED <<finding, snapshots, writable, approval>>
    BY <1>1 DEF Abandon, End
  <2>3. ~Overlap => \A s \in Requests : s # r => requests[s] = Idle
    BY <2>2 DEF WorkflowInv, Alone
  <2> QED BY <2>1, <2>2, <2>3, ReadsKeep DEF Reading
<1>2. CASE CloseEngagement
  <2>1. UNCHANGED <<finding, snapshots, requests, approval>> /\ writable' \in BOOLEAN
    BY <1>2 DEF CloseEngagement
  <2>2. WorkflowTypeOK'
    BY <2>1 DEF WorkflowInv, WorkflowTypeOK
  <2>3. ASSUME NEW s \in Requests
        PROVE  /\ EnrichedAlone => ReadStands(requests[s])'
               /\ Decided(requests[s])' /\ Alone(s)'
    BY <2>1 DEF WorkflowInv, ReadStands, Decided, Alone
  <2>4. EnrichedAlone => FindingInOrder' /\ PublishedIsApproved'
    BY <2>1 DEF WorkflowInv, FindingInOrder, PublishedIsApproved
  <2> QED BY <2>2, <2>3, <2>4 DEF WorkflowInv, EnrichedAlone
<1>3. CASE UNCHANGED workflowVars
  BY <1>3 DEF workflowVars, WorkflowInv, WorkflowTypeOK, FindingInOrder, PublishedIsApproved,
     ReadStands, Decided, Alone, EnrichedAlone
<1>4. ASSUME NEW r \in Requests, CommitEdit(r) \/ CommitTemplate(r) PROVE WorkflowInv'
  <2>1. requests[r] # Idle /\ End(r) /\ UNCHANGED <<writable, approval>>
    BY <1>4 DEF CommitEdit, CommitTemplate, Idle
  <2>2. Authored
    BY <1>4, EditAuthors, TemplateAuthors
  <2> QED BY <2>1, <2>2, RequestEnds, AuthoredKeeps
<1>5. CASE ImportBundle
  <2>1. Authored
    BY <1>5, ImportAuthors
  <2>2. MayStart /\ UNCHANGED <<requests, writable, approval>>
    BY <1>5 DEF ImportBundle
  <2>3. /\ requests' \in [Requests -> Request]
        /\ \A s \in Requests : requests'[s] \in {Idle, requests[s]}
        /\ ~Overlap => \A s \in Requests : requests'[s] = Idle
    BY <2>2 DEF MayStart, WorkflowInv, WorkflowTypeOK
  <2> QED BY <2>1, <2>2, <2>3, AuthoredKeeps
<1> QED
  BY <1>1, <1>2, <1>3, <1>4, <1>5, BeginsKeep, CommitTransitionKeeps, CommitEnrichKeeps,
     BulkUpdateKeeps DEF WorkflowNext

\* The row, its snapshots and what the requests have read have the types of their
\* columns; what was read at the version that is still there was read right.
THEOREM WorkflowInvariant == WorkflowSpec => []WorkflowInv
<1> QED BY InitWorkflow, NextWorkflow, PTL DEF WorkflowSpec

\* However requests overlap, all that was written of a published finding is what QA
\* approved last, unless somebody gave a reason; an enrichment must not be overtaken.
THEOREM PublishedWasApproved ==
    EnrichedAlone => (WorkflowSpec => []PublishedIsApproved)
<1> SUFFICES ASSUME EnrichedAlone PROVE WorkflowSpec => []PublishedIsApproved
  OBVIOUS
<1>1. WorkflowInv => PublishedIsApproved
  BY DEF WorkflowInv
<1> QED BY <1>1, WorkflowInvariant, PTL

-----------------------------------------------------------------------------
\* What a step does to the row.
LEMMA BulkUpdated ==
    ASSUME WorkflowInv, NEW m \in Members, NEW edited \in BOOLEAN,
           NEW to \in Targets \cup {finding.status}, BulkUpdate(m, edited, to)
    PROVE  /\ ~edited => /\ finding'.content = finding.content
                         /\ finding'.version = finding.version
           /\ edited => /\ finding.status \in Editable /\ Snapshot(finding)
                        /\ finding'.version = finding.version + 1
                        /\ \A f \in Fields : finding'.content.written[f]
                              \in {finding.version + 1, finding.content.written[f]}
           /\ finding'.status = "qa_approved" /\ finding.status # "qa_approved" =>
                 finding'.reviewer = m /\ finding.reviewer # m
<1> DEFINE v == finding.version + 1
           content == Written(finding.content, {"severity"}, v)
           f == IF edited THEN [finding EXCEPT !.version = v, !.content = content] ELSE finding
<1>1. finding \in Finding /\ finding.version \in Nat
  BY FindingFields DEF WorkflowInv, WorkflowTypeOK
<1>2. /\ edited => /\ finding.status \in Editable /\ finding.version < MaxVersion
                   /\ Snapshot(finding)
      /\ to # finding.status => Permitted(f, m, to, FALSE)
      /\ finding' = IF to = finding.status THEN f ELSE Moved(f, f, m, to)
  BY DEF BulkUpdate, MayEdit
<1>3. edited => /\ v \in 1..MaxVersion /\ content \in Contents
                /\ \A x \in Fields : content.written[x] \in {v, finding.content.written[x]}
  BY <1>1, <1>2, FindingFields, WrittenContent, WorkflowAssumption
<1> HIDE DEF content
<1>4. /\ f \in Finding /\ f.status = finding.status /\ f.reviewer = finding.reviewer
      /\ f.version = IF edited THEN v ELSE finding.version
      /\ f.content = IF edited THEN content ELSE finding.content
  BY <1>1, <1>3 DEF Finding
<1> HIDE DEF f
<1>5. to \in FindingStatus
  BY <1>1, WorkflowAssumption DEF Finding, FindingStatus
<1>6. /\ finding'.status = to /\ finding'.version = f.version
      /\ finding'.content = f.content
      /\ to # finding.status /\ to = "qa_approved" => finding'.reviewer = m
  BY <1>2, <1>4, <1>5, MovedFinding
<1>7. to # finding.status /\ to = "qa_approved" => f.reviewer # m
  BY <1>2 DEF Permitted
<1> QED BY <1>2, <1>3, <1>4, <1>6, <1>7

\* A transition leaves the content, and a QA approval names its approver.
LEMMA TransitionCommitted ==
    ASSUME WorkflowInv, NEW r \in Requests, CommitTransition(r)
    PROVE  /\ finding'.content = finding.content /\ finding'.version = finding.version
           /\ finding'.status = requests[r].to
           /\ finding'.status = "qa_approved" =>
                 /\ finding'.reviewer = requests[r].actor
                 /\ ~Overlap => finding.reviewer # requests[r].actor
<1> DEFINE q == requests[r]
<1>1. q.kind = "transition" /\ finding' = Moved(finding, q.read, q.actor, q.to)
  BY DEF CommitTransition
<1>2. /\ finding \in Finding /\ q.read \in Finding /\ q.actor \in Members
      /\ q.to \in FindingStatus
  BY <1>1, RequestFields DEF WorkflowInv, WorkflowTypeOK, Reading
<1>3. Decided(q) /\ (~Overlap => q.read = finding)
  BY <1>1 DEF WorkflowInv, Alone, Reading
<1>4. q.to = "qa_approved" => q.read.reviewer # q.actor
  BY <1>1, <1>3 DEF Decided, Permitted
<1> HIDE DEF q
<1>5. /\ finding'.content = finding.content /\ finding'.version = finding.version
      /\ finding'.status = q.to
      /\ q.to = "qa_approved" => finding'.reviewer = q.actor
  BY <1>1, <1>2, MovedFinding
<1> QED BY <1>3, <1>4, <1>5 DEF q

\* A new version follows the one that was read, which was editable.
LEMMA WritesNewVersion ==
    ASSUME WorkflowInv, Authored
    PROVE  /\ finding.status \in Editable /\ finding'.status = finding.status
           /\ finding'.version = finding.version + 1
           /\ \E read \in Finding :
                 /\ Snapshot(read) /\ read.version = finding.version
                 /\ EnrichedAlone => read.content.written = finding.content.written
           /\ ~Overlap => \A f \in Fields : finding'.content.written[f]
                 \in {finding.version + 1, finding.content.written[f]}
<1> PICK read \in Finding, content \in Contents : Authors(read, content)
  BY DEF Authored
<1>1. /\ finding.status = read.status /\ finding.version = read.version
      /\ read.status \in Editable
      /\ finding' = [finding EXCEPT !.version = read.version + 1, !.content = content]
      /\ Snapshot(read)
  BY DEF Authors, NewVersion, StillAsRead
<1>2. finding \in Finding
  BY DEF WorkflowInv, WorkflowTypeOK
<1>3. /\ finding'.status = finding.status /\ finding'.version = finding.version + 1
      /\ finding'.content = content
  BY <1>1, <1>2 DEF Finding
<1> QED BY <1>1, <1>3 DEF Authors

\* Only these steps write the row.
LEMMA RowSteps ==
    ASSUME WorkflowInv, [WorkflowNext]_workflowVars
    PROVE  \/ UNCHANGED finding
           \/ \E r \in Requests : CommitTransition(r)
           \/ Authored
           \/ \E m \in Members, edited \in BOOLEAN, to \in Targets \cup {finding.status} :
                 BulkUpdate(m, edited, to)
           \/ \E r \in Requests : CommitEnrich(r)
<1>1. ASSUME NEW r \in Requests, CommitEdit(r) \/ CommitTemplate(r) PROVE Authored
  BY <1>1, EditAuthors, TemplateAuthors
<1>2. CASE ImportBundle
  BY <1>2, ImportAuthors
<1>3. CASE UNCHANGED workflowVars
  BY <1>3 DEF workflowVars
<1> QED
  BY <1>1, <1>2, <1>3 DEF WorkflowNext, BeginTransition, Abandon, OpenFinding, ReadForEdit,
     BeginTemplate, BeginEnrich, CloseEngagement

\* A version is followed by the next, and leaves a snapshot of all that was written in it
\* (the insert into finding_versions, on conflict do nothing).
THEOREM HistoryStaysExact == EnrichedAlone => (WorkflowSpec => HistoryIsExact)
<1> SUFFICES ASSUME EnrichedAlone PROVE WorkflowSpec => HistoryIsExact
  OBVIOUS
<1> DEFINE Exact ==
        finding'.version # finding.version =>
          /\ finding'.version = finding.version + 1
          /\ finding.version \in DOMAIN snapshots'
          /\ snapshots'[finding.version].written = finding.content.written
<1>1. ASSUME WorkflowInv, [WorkflowNext]_workflowVars PROVE Exact
  <2>1. ASSUME NEW read \in Finding, Snapshot(read), read.version = finding.version,
               read.content.written = finding.content.written
        PROVE  /\ finding.version \in DOMAIN snapshots'
               /\ snapshots'[finding.version].written = finding.content.written
    <3>1. /\ DOMAIN snapshots' = DOMAIN snapshots \cup {read.version}
          /\ \A v \in DOMAIN snapshots : snapshots'[v] = snapshots[v]
          /\ read.version \notin DOMAIN snapshots => snapshots'[read.version] = read.content
      BY <1>1, <2>1, SnapshotTaken DEF WorkflowInv
    <3>2. finding.version \in DOMAIN snapshots =>
              snapshots[finding.version].written = finding.content.written
      BY <1>1 DEF WorkflowInv, FindingInOrder
    <3> QED BY <2>1, <3>1, <3>2
  <2>2. CASE Authored
    BY <1>1, <2>1, <2>2, WritesNewVersion
  <2>3. ASSUME NEW r \in Requests, CommitTransition(r) \/ CommitEnrich(r) PROVE Exact
    BY <1>1, <2>3, TransitionCommitted, EnrichedFinding
  <2>4. ASSUME NEW m \in Members, NEW edited \in BOOLEAN,
               NEW to \in Targets \cup {finding.status}, BulkUpdate(m, edited, to)
        PROVE  Exact
    <3>1. finding \in Finding
      BY <1>1 DEF WorkflowInv, WorkflowTypeOK
    <3> QED BY <1>1, <2>1, <2>4, <3>1, BulkUpdated
  <2> QED BY <1>1, <2>2, <2>3, <2>4, RowSteps
<1>2. WorkflowInv /\ [WorkflowNext]_workflowVars => [Exact]_workflowVars
  BY <1>1
<1> QED BY <1>2, WorkflowInvariant, PTL DEF WorkflowSpec, HistoryIsExact

\* "Finding content can only change during authoring or requested changes": the update
\* compares the status with the one that was read, so this holds however requests overlap,
\* of everything but enrichment.
THEOREM ContentStaysFrozen == "enrich" \notin Events => (WorkflowSpec => ContentIsFrozen)
<1> SUFFICES ASSUME "enrich" \notin Events PROVE WorkflowSpec => ContentIsFrozen
  OBVIOUS
<1>1. ASSUME WorkflowInv, [WorkflowNext]_workflowVars
      PROVE  finding'.content # finding.content => finding.status \in Editable
  <2>1. ASSUME NEW r \in Requests, CommitTransition(r) \/ CommitEnrich(r)
        PROVE  finding'.content = finding.content
    BY <1>1, <2>1, TransitionCommitted, EnrichedFinding
  <2> QED BY <1>1, <2>1, RowSteps, WritesNewVersion, BulkUpdated
<1>2. WorkflowInv /\ [WorkflowNext]_workflowVars =>
          [finding'.content # finding.content => finding.status \in Editable]_workflowVars
  BY <1>1
<1> QED BY <1>2, WorkflowInvariant, PTL DEF WorkflowSpec, ContentIsFrozen

\* "QA must differ from reviewer": with requests one at a time nobody gives both approvals
\* of one round, with or without an override.
THEOREM QaStaysIndependent == ~Overlap => (WorkflowSpec => QaByAnother)
<1> SUFFICES ASSUME ~Overlap PROVE WorkflowSpec => QaByAnother
  OBVIOUS
<1> DEFINE Another ==
        finding.status = "peer_reviewed" /\ finding'.status = "qa_approved" =>
          finding'.reviewer # finding.reviewer
<1>1. ASSUME WorkflowInv, [WorkflowNext]_workflowVars PROVE Another
  <2>1. ASSUME NEW r \in Requests, CommitTransition(r) \/ CommitEnrich(r) PROVE Another
    BY <1>1, <2>1, TransitionCommitted, EnrichedFinding
  <2> QED BY <1>1, <2>1, RowSteps, WritesNewVersion, BulkUpdated
<1>2. WorkflowInv /\ [WorkflowNext]_workflowVars => [Another]_workflowVars
  BY <1>1
<1> QED BY <1>2, WorkflowInvariant, PTL DEF WorkflowSpec, QaByAnother

-----------------------------------------------------------------------------
(* What was written, however requests overlap and enrichments overtake them: *)
(* every part but the references, which an enrichment writes back.           *)

Parts == Fields \ {"references"}

\* Nothing is newer than the version; the row of an editor, if its version is still
\* there, holds what is there.
WrittenBefore(c) == \A f \in Parts : c.written[f] <= finding.version
ReadRight(q) ==
    /\ q.kind \in {"open", "edit"} => WrittenBefore(q.seen)
    /\ q.kind = "edit" =>
          /\ q.read.version <= finding.version
          /\ q.read.version = finding.version =>
                \A f \in Parts : q.read.content.written[f] = finding.content.written[f]

PartsInOrder ==
    /\ WrittenBefore(finding.content)
    /\ \A r \in Requests : ReadRight(requests[r])

\* What a save of an older form may do, and nothing else.
NoneTakenBack ==
    \A f \in DOMAIN finding.content.written \ {"references"} :
        finding'.content.written[f] < finding.content.written[f] =>
            \E r \in DOMAIN requests :
                /\ requests[r].kind = "edit" /\ requests'[r].kind = "idle"
                /\ requests[r].seen # requests[r].read.content

\* The parts and versions are numbers.
LEMMA PartsAreNumbers ==
    ASSUME WorkflowTypeOK
    PROVE  /\ finding \in Finding /\ finding.version \in Nat
           /\ DOMAIN finding.content.written = Fields /\ DOMAIN requests = Requests
           /\ \A f \in Fields : finding.content.written[f] \in Nat
           /\ \A r \in Requests :
                 /\ requests[r].kind \in {"open", "edit"} =>
                       \A f \in Fields : requests[r].seen.written[f] \in Nat
                 /\ requests[r].kind = "edit" => requests[r].read.version \in Nat
<1>1. finding \in Finding /\ finding.content.written \in Content
  BY FindingFields, ContentFields DEF WorkflowTypeOK
<1>2. \A f \in Fields : finding.content.written[f] \in Nat
  BY <1>1 DEF Content
<1>3. ASSUME NEW r \in Requests
      PROVE  /\ requests[r].kind \in {"open", "edit"} =>
                   \A f \in Fields : requests[r].seen.written[f] \in Nat
             /\ requests[r].kind = "edit" => requests[r].read.version \in Nat
  <2>1. requests[r] \in Request
    BY DEF WorkflowTypeOK
  <2>2. ASSUME requests[r].kind \in {"open", "edit"}
        PROVE  \A f \in Fields : requests[r].seen.written[f] \in 1..MaxVersion
    BY <2>1, <2>2, RequestFields, ContentFields
  <2>3. requests[r].kind = "edit" => requests[r].read.version \in Nat
    BY <2>1, RequestFields, FindingFields DEF Reading
  <2> QED BY <2>2, <2>3
<1> QED BY <1>1, <1>2, <1>3, FindingFields DEF Content, WorkflowTypeOK

\* The row is as it was, or a newer version of it: what the requests read stays right,
\* and a request that goes on has read the row as it is.
LEMMA PartsMove ==
    ASSUME WorkflowTypeOK, WorkflowTypeOK', PartsInOrder,
           finding'.version >= finding.version, WrittenBefore(finding.content)',
           finding'.version = finding.version =>
               \A f \in Parts : finding'.content.written[f] = finding.content.written[f],
           \A r \in Requests :
               \/ requests'[r] = requests[r]
               \/ requests'[r].kind \notin {"open", "edit"}
               \/ /\ requests'[r].kind = "open" /\ finding' = finding
                  /\ requests'[r].seen = finding.content
               \/ /\ requests'[r].kind = "edit" /\ requests[r].kind = "open"
                  /\ requests'[r].seen = requests[r].seen
                  /\ requests'[r].read = finding /\ finding' = finding
    PROVE  PartsInOrder'
<1>1. /\ finding.version \in Nat /\ finding'.version \in Nat
      /\ \A r \in Requests :
            /\ requests[r].kind \in {"open", "edit"} =>
                  \A f \in Parts : requests[r].seen.written[f] \in Nat
            /\ requests[r].kind = "edit" => requests[r].read.version \in Nat
  BY PartsAreNumbers, FindingFields DEF Parts, WorkflowTypeOK
<1>2. ASSUME NEW r \in Requests PROVE ReadRight(requests[r])'
  <2>1. ReadRight(requests[r]) /\ WrittenBefore(finding.content)
    BY DEF PartsInOrder
  <2>2. CASE requests'[r] = requests[r]
    BY <1>1, <2>1, <2>2 DEF ReadRight, WrittenBefore
  <2>3. CASE requests'[r].kind \notin {"open", "edit"}
    BY <2>3 DEF ReadRight
  <2>4. CASE /\ requests'[r].kind = "open" /\ finding' = finding
             /\ requests'[r].seen = finding.content
    BY <2>1, <2>4 DEF ReadRight, WrittenBefore
  <2>5. CASE /\ requests'[r].kind = "edit" /\ requests[r].kind = "open"
             /\ requests'[r].seen = requests[r].seen
             /\ requests'[r].read = finding /\ finding' = finding
    BY <1>1, <2>1, <2>5 DEF ReadRight, WrittenBefore
  <2> QED BY <2>2, <2>3, <2>4, <2>5
<1> QED BY <1>2 DEF PartsInOrder

\* A new version holds what is written in it, whoever read the row before.
LEMMA VersionHolds ==
    ASSUME WorkflowInv, NEW read \in Finding, NEW content \in Contents,
           NewVersion(read, content)
    PROVE  /\ read.version = finding.version /\ finding'.version = finding.version + 1
           /\ finding'.content = content
<1>1. /\ finding.version = read.version
      /\ finding' = [finding EXCEPT !.version = read.version + 1, !.content = content]
  BY DEF NewVersion, StillAsRead
<1>2. finding \in Finding
  BY DEF WorkflowInv, WorkflowTypeOK
<1> QED BY <1>1, <1>2 DEF Finding

\* What may happen to the parts in a step.
PartsKept ==
    /\ finding'.version >= finding.version /\ WrittenBefore(finding.content)'
    /\ finding'.version = finding.version =>
          \A f \in Parts : finding'.content.written[f] = finding.content.written[f]
    /\ NoneTakenBack

\* A save writes one part anew and the others as its form had them.
LEMMA EditKeepsParts ==
    ASSUME WorkflowInv, PartsInOrder, NEW r \in Requests, CommitEdit(r)
    PROVE  PartsKept
<1> DEFINE q == requests[r]
           v == q.read.version + 1
<1>1. PICK g \in Fields : NewVersion(q.read, Written(q.seen, {g}, v))
  BY DEF CommitEdit
<1>2. /\ q.kind = "edit" /\ StillAsRead(q.read) /\ q.read.version < MaxVersion /\ End(r)
  BY <1>1 DEF CommitEdit, NewVersion
<1>3. /\ q.read \in Finding /\ q.seen \in Contents /\ q.read.version = finding.version
      /\ v \in 1..MaxVersion
  BY <1>2, EditorsRead, RequestFields, FindingFields, WorkflowAssumption
     DEF WorkflowInv, WorkflowTypeOK
<1>4. /\ Written(q.seen, {g}, v) \in Contents
      /\ \A f \in Fields : Written(q.seen, {g}, v).written[f] \in {v, q.seen.written[f]}
  BY <1>3, WrittenContent
<1>5. /\ finding'.version = finding.version + 1 /\ v = finding.version + 1
      /\ \A f \in Fields : finding'.content.written[f] \in {v, q.seen.written[f]}
  BY <1>1, <1>3, <1>4, VersionHolds
<1>6. /\ finding.version \in Nat /\ DOMAIN finding.content.written = Fields
      /\ DOMAIN requests = Requests
      /\ \A f \in Fields : finding.content.written[f] \in Nat /\ q.seen.written[f] \in Nat
  BY <1>2, PartsAreNumbers DEF WorkflowInv
<1>7. /\ WrittenBefore(finding.content) /\ WrittenBefore(q.seen)
      /\ \A f \in Parts : q.read.content.written[f] = finding.content.written[f]
  BY <1>2, <1>3 DEF PartsInOrder, ReadRight
<1>8. requests'[r].kind = "idle"
  BY <1>2, <1>6 DEF End, Idle
<1> HIDE DEF q, v
<1>9. finding'.version >= finding.version /\ WrittenBefore(finding.content)'
  BY <1>5, <1>6, <1>7 DEF WrittenBefore, Parts
<1>10. ASSUME NEW f \in Parts, finding'.content.written[f] < finding.content.written[f]
       PROVE  q.seen # q.read.content
  BY <1>5, <1>6, <1>7, <1>10 DEF WrittenBefore, Parts
<1>11. NoneTakenBack
  BY <1>2, <1>6, <1>8, <1>10 DEF NoneTakenBack, Parts, q
<1> QED BY <1>5, <1>6, <1>9, <1>11 DEF PartsKept

\* Whatever is written anew is newer than what was there.
LEMMA AnewKeepsParts ==
    ASSUME WorkflowInv, PartsInOrder, finding'.version = finding.version + 1,
           \A f \in Fields : finding'.content.written[f]
                                \in {finding.version + 1, finding.content.written[f]}
    PROVE  PartsKept
<1>1. /\ finding.version \in Nat /\ DOMAIN finding.content.written = Fields
      /\ \A f \in Fields : finding.content.written[f] \in Nat
  BY PartsAreNumbers DEF WorkflowInv
<1>2. WrittenBefore(finding.content)
  BY DEF PartsInOrder
<1>3. WrittenBefore(finding.content)' /\ finding'.version > finding.version
  BY <1>1, <1>2 DEF WrittenBefore, Parts
<1>4. NoneTakenBack
  BY <1>1, <1>2 DEF NoneTakenBack, WrittenBefore, Parts
<1> QED BY <1>1, <1>3, <1>4 DEF PartsKept

\* A template replaces every part, an import those that the bundle holds.
LEMMA WholesaleKeepsParts ==
    ASSUME WorkflowInv, PartsInOrder,
           ImportBundle \/ \E r \in Requests : CommitTemplate(r)
    PROVE  PartsKept
<1>1. CASE ImportBundle
  <2> DEFINE v == finding.version + 1
  <2>1. /\ NewVersion(finding, Written(finding.content, {"text", "severity"}, v))
        /\ finding.version < MaxVersion
    BY <1>1 DEF ImportBundle, NewVersion
  <2>2. finding \in Finding /\ finding.content \in Contents /\ v \in 1..MaxVersion
    BY <2>1, FindingFields, WorkflowAssumption DEF WorkflowInv, WorkflowTypeOK
  <2> DEFINE content == Written(finding.content, {"text", "severity"}, v)
  <2>3. /\ content \in Contents
        /\ \A f \in Fields : content.written[f] \in {v, finding.content.written[f]}
    BY <2>2, WrittenContent
  <2>4. NewVersion(finding, content)
    BY <2>1
  <2> HIDE DEF content
  <2> QED BY <2>2, <2>3, <2>4, VersionHolds, AnewKeepsParts
<1>2. ASSUME NEW r \in Requests, CommitTemplate(r) PROVE PartsKept
  <2> DEFINE q == requests[r]
             content == [written |-> [f \in Fields |-> q.read.version + 1], linked |-> FALSE]
  <2>1. /\ q.kind = "template" /\ NewVersion(q.read, content) /\ StillAsRead(q.read)
        /\ q.read.version < MaxVersion
    BY <1>2 DEF CommitTemplate, NewVersion
  <2>2. q.read \in Finding /\ q.read.version = finding.version
        /\ q.read.version + 1 \in 1..MaxVersion
    BY <2>1, EditorsRead, FindingFields, WorkflowAssumption DEF WorkflowInv, WorkflowTypeOK
  <2> HIDE DEF q
  <2>3. content \in Contents /\ \A f \in Fields : content.written[f] = q.read.version + 1
    BY <2>2 DEF Contents, Content
  <2> HIDE DEF content
  <2> QED BY <2>1, <2>2, <2>3, VersionHolds, AnewKeepsParts
<1> QED BY <1>1, <1>2

\* Every step keeps the parts.
LEMMA StepsKeepParts ==
    ASSUME WorkflowInv, PartsInOrder, [WorkflowNext]_workflowVars
    PROVE  PartsKept
<1>1. /\ finding.version \in Nat /\ DOMAIN finding.content.written = Fields
      /\ \A f \in Fields : finding.content.written[f] \in Nat
  BY PartsAreNumbers DEF WorkflowInv
<1>2. WrittenBefore(finding.content)
  BY DEF PartsInOrder
<1>3. ASSUME finding'.version = finding.version,
             \A f \in Parts : finding'.content.written[f] = finding.content.written[f]
      PROVE  PartsKept
  BY <1>1, <1>2, <1>3 DEF PartsKept, WrittenBefore, NoneTakenBack, Parts
<1>4. CASE UNCHANGED finding
  BY <1>3, <1>4
<1>5. ASSUME NEW r \in Requests, CommitTransition(r) \/ CommitEnrich(r) PROVE PartsKept
  BY <1>3, <1>5, TransitionCommitted, EnrichedFinding DEF Parts
<1>6. ASSUME NEW m \in Members, NEW edited \in BOOLEAN,
             NEW to \in Targets \cup {finding.status}, BulkUpdate(m, edited, to)
      PROVE  PartsKept
  <2>1. CASE edited
    BY <1>6, <2>1, BulkUpdated, AnewKeepsParts
  <2>2. CASE ~edited
    BY <1>3, <1>6, <2>2, BulkUpdated
  <2> QED BY <2>1, <2>2
<1>7. CASE UNCHANGED workflowVars
  BY <1>4, <1>7 DEF workflowVars
<1> QED
  BY <1>4, <1>5, <1>6, <1>7, EditKeepsParts, WholesaleKeepsParts
     DEF WorkflowNext, BeginTransition, Abandon, OpenFinding, ReadForEdit, BeginTemplate,
         BeginEnrich, CloseEngagement

\* Forms and rows for an edit are read as they are.
LEMMA FormsAreRead ==
    ASSUME WorkflowTypeOK, [WorkflowNext]_workflowVars, NEW s \in Requests
    PROVE  \/ requests'[s] = requests[s]
           \/ requests'[s].kind \notin {"open", "edit"}
           \/ /\ requests'[s].kind = "open" /\ finding' = finding
              /\ requests'[s].seen = finding.content
           \/ /\ requests'[s].kind = "edit" /\ requests[s].kind = "open"
              /\ requests'[s].seen = requests[s].seen
              /\ requests'[s].read = finding /\ finding' = finding
<1>1. DOMAIN requests = Requests
  BY DEF WorkflowTypeOK
<1>2. ASSUME NEW r \in Requests, NEW q, requests' = [requests EXCEPT ![r] = q]
      PROVE  requests'[s] = IF s = r THEN q ELSE requests[s]
  BY <1>1, <1>2
<1>3. ASSUME NEW r \in Requests,
             \/ \E m \in Members, to \in Targets, reason \in BOOLEAN :
                   BeginTransition(r, m, to, reason)
             \/ BeginTemplate(r) \/ BeginEnrich(r)
      PROVE  requests'[s] = requests[s] \/ requests'[s].kind \notin {"open", "edit"}
  BY <1>2, <1>3 DEF BeginTransition, BeginTemplate, BeginEnrich, Begin
<1>4. ASSUME NEW r \in Requests, OpenFinding(r)
      PROVE  \/ requests'[s] = requests[s]
             \/ /\ requests'[s].kind = "open" /\ finding' = finding
                /\ requests'[s].seen = finding.content
  BY <1>2, <1>4 DEF OpenFinding, Begin
<1>5. ASSUME NEW r \in Requests, ReadForEdit(r)
      PROVE  \/ requests'[s] = requests[s]
             \/ /\ requests'[s].kind = "edit" /\ requests[s].kind = "open"
                /\ requests'[s].seen = requests[s].seen
                /\ requests'[s].read = finding /\ finding' = finding
  BY <1>2, <1>5 DEF ReadForEdit
<1>6. ASSUME NEW r \in Requests, End(r)
      PROVE  requests'[s] = requests[s] \/ requests'[s].kind \notin {"open", "edit"}
  BY <1>2, <1>6 DEF End, Idle
<1>7. CASE UNCHANGED requests
  BY <1>7
<1> QED
  BY <1>3, <1>4, <1>5, <1>6, <1>7
     DEF WorkflowNext, CommitTransition, Abandon, CommitEdit, CommitTemplate, CommitEnrich,
         BulkUpdate, ImportBundle, CloseEngagement, workflowVars

\* "Optimistic conflicts only", for any members, requests and fields, however requests and
\* enrichments overlap: a part that somebody wrote is taken back only by a save whose form,
\* or whose patch, was older than the row its update compares.
THEOREM NothingIsTakenBack == WorkflowSpec => NothingTakenBack
<1>1. WorkflowInit => PartsInOrder
  <2> SUFFICES ASSUME WorkflowInit PROVE PartsInOrder
    OBVIOUS
  <2>1. finding.version = 1 /\ \A f \in Fields : finding.content.written[f] = 1
    BY DEF WorkflowInit, NewFinding, FirstDraft
  <2>2. \A r \in Requests : requests[r].kind = "idle"
    BY DEF WorkflowInit, Idle
  <2> QED BY <2>1, <2>2 DEF PartsInOrder, WrittenBefore, ReadRight, Parts
<1>2. WorkflowInv /\ WorkflowInv' /\ PartsInOrder /\ [WorkflowNext]_workflowVars
         => PartsInOrder' /\ NoneTakenBack
  <2> SUFFICES ASSUME WorkflowInv, WorkflowInv', PartsInOrder, [WorkflowNext]_workflowVars
               PROVE  PartsInOrder' /\ NoneTakenBack
    OBVIOUS
  <2>1. WorkflowTypeOK /\ WorkflowTypeOK'
    BY DEF WorkflowInv
  <2>2. PartsKept
    BY StepsKeepParts
  <2> QED BY <2>1, <2>2, FormsAreRead, PartsMove DEF PartsKept
<1>3. WorkflowInv /\ WorkflowInv' /\ PartsInOrder /\ [WorkflowNext]_workflowVars
         => [NoneTakenBack]_workflowVars
  BY <1>2
<1>4. WorkflowSpec => [][NoneTakenBack]_workflowVars
  BY <1>1, <1>2, <1>3, WorkflowInvariant, PTL DEF WorkflowSpec
<1> QED BY <1>4 DEF NoneTakenBack, NothingTakenBack

-----------------------------------------------------------------------------
(* The portal.  *)

Completed == {a \in Attempts : attempts[a].status = "completed"}

\* A published finding is not written any more, and every version of it but the first is
\* that of a retest.
PortalInOrder ==
    /\ finding.status \in Visible
    /\ finding.content = FirstDraft /\ approval.content = FirstDraft
    /\ finding.version \in DOMAIN snapshots
    /\ snapshots[finding.version] = finding.content
    /\ IsFiniteSet(Completed)

\* What a request decided about what it read.
PortalDecided(q) ==
    /\ q.kind = "transition" => q.to \in Workflow[q.read.status]
    /\ q.kind = "remediation" => q.to \in Visible /\ NotReopening(q.read, q.to)

PortalInv ==
    /\ PortalTypeOK
    /\ PortalInOrder
    /\ TrailIsConnected
    /\ OneVersionPerRetest
    /\ ApiOpensOne
    /\ \A r \in Requests : PortalDecided(requests[r])

\* From a status that a client sees no transition leads back to publication.
LEMMA VisibleStatus ==
    /\ Visible \subseteq FindingStatus
    /\ \A v \in Visible : Workflow[v] \subseteq Visible \ {"published"}
BY DEF Visible, FindingStatus, Workflow

\* What the types say of a request about a published finding.
LEMMA PortalRequestFields ==
    ASSUME NEW q \in PortalRequest
    PROVE  /\ q.kind \in {"transition", "remediation"} =>
                 q.read \in Finding /\ q.to \in FindingStatus /\ q # Idle
           /\ q.kind = "transition" => q.actor \in Members
<1>1. CASE q = Idle
  BY <1>1 DEF Idle
<1>2. CASE q \in [kind : {"transition"}, actor : Testers, to : FindingStatus,
                  reason : {FALSE}, read : Finding]
  BY <1>2, PortalAssumption DEF Idle
<1>3. CASE q \in [kind : {"remediation"}, to : FindingStatus, read : Finding]
  BY <1>3 DEF Idle
<1>4. CASE q \in [kind : {"retest"}] \cup [kind : {"api"}] \cup [kind : {"revision"}]
  BY <1>4
<1> QED BY <1>1, <1>2, <1>3, <1>4 DEF PortalRequest

\* A published finding with no retest is in order.
LEMMA InitPortal == PortalInit => PortalInv
<1> SUFFICES ASSUME PortalInit PROVE PortalInv
  OBVIOUS
<1>1. FirstDraft \in Contents
  BY WorkflowAssumption DEF FirstDraft, Contents, Content
<1>2. "published" \in Visible /\ "published" \in FindingStatus
  BY DEF Visible, FindingStatus, Workflow
<1>3. PICK m \in Members \ {Author} :
         finding = [NewFinding EXCEPT !.status = "published", !.approved = 1, !.reviewer = m]
  BY DEF PortalInit
<1>4. /\ finding \in Finding /\ finding.status = "published" /\ finding.version = 1
      /\ finding.content = FirstDraft
  <2>1. 1 \in 1..MaxVersion /\ 1 \in 0..MaxVersion
    BY WorkflowAssumption
  <2>2. finding = [status |-> "published", version |-> 1, content |-> FirstDraft,
                   reviewer |-> m, approved |-> 1]
    BY <1>3 DEF NewFinding
  <2> QED BY <1>1, <1>2, <2>1, <2>2 DEF Finding
<1>5. DOMAIN snapshots = {1} /\ snapshots[1] = FirstDraft
  BY DEF PortalInit
<1>6. /\ requests \in [Requests -> PortalRequest]
      /\ \A r \in Requests : requests[r].kind = "idle"
  BY DEF PortalInit, PortalRequest, Idle
<1>7. /\ attempts \in [Attempts -> Attempt]
      /\ \A a \in Attempts : attempts[a].status = "absent"
  BY DEF PortalInit, NoAttempt, Attempt
<1>8. Completed = {}
  BY <1>7 DEF Completed
<1>9. PortalTypeOK
  BY <1>1, <1>2, <1>4, <1>5, <1>6, <1>7 DEF PortalTypeOK, PortalInit
<1>10. PortalInOrder
  BY <1>2, <1>4, <1>5, <1>8, FS_EmptySet DEF PortalInOrder, PortalInit
<1>11. OneVersionPerRetest
  BY <1>4, <1>8, FS_EmptySet DEF OneVersionPerRetest, Completed
<1>12. TrailIsConnected /\ ApiOpensOne
  BY <1>4, <1>7 DEF TrailIsConnected, ApiOpensOne, Open, OpenAttempt, PortalInit
<1> QED BY <1>6, <1>9, <1>10, <1>11, <1>12 DEF PortalInv, PortalDecided

\* A request reads, fails, or only leaves a trace in the report.
LEMMA PortalRequestMoves ==
    ASSUME PortalInv, NEW r \in Requests, NEW q \in PortalRequest, PortalDecided(q),
           requests' = [requests EXCEPT ![r] = q],
           UNCHANGED <<finding, snapshots, approval, trail, attempts>>,
           report' \in {"published", "draft"}
    PROVE  PortalInv'
<1>1. /\ requests' \in [Requests -> PortalRequest] /\ requests'[r] = q
      /\ \A s \in Requests : s # r => requests'[s] = requests[s]
  BY DEF PortalInv, PortalTypeOK
<1>2. PortalTypeOK'
  BY <1>1 DEF PortalInv, PortalTypeOK
<1>3. PortalInOrder' /\ TrailIsConnected' /\ OneVersionPerRetest' /\ ApiOpensOne'
  BY DEF PortalInv, PortalInOrder, Completed, TrailIsConnected, OneVersionPerRetest,
     ApiOpensOne, Open
<1>4. \A s \in Requests : PortalDecided(requests[s])'
  BY <1>1 DEF PortalInv, PortalDecided
<1> QED BY <1>2, <1>3, <1>4 DEF PortalInv

\* The finding moves from a status that a client sees to another, and is logged.
LEMMA PortalRowMoves ==
    ASSUME PortalInv, finding' \in Finding, finding'.status \in Visible,
           finding'.content = finding.content, finding'.version = finding.version,
           approval'.content = FirstDraft, trail' = finding'.status,
           requests' \in [Requests -> PortalRequest],
           \A s \in Requests : requests'[s] \in {Idle, requests[s]},
           UNCHANGED <<snapshots, attempts, report>>
    PROVE  PortalInv'
<1>1. PortalTypeOK'
  BY VisibleStatus DEF PortalInv, PortalTypeOK
<1>2. PortalInOrder'
  BY DEF PortalInv, PortalInOrder, Completed
<1>3. TrailIsConnected' /\ OneVersionPerRetest' /\ ApiOpensOne'
  BY DEF PortalInv, TrailIsConnected, OneVersionPerRetest, ApiOpensOne, Open
<1>4. \A s \in Requests : PortalDecided(requests[s])'
  BY DEF PortalInv, PortalDecided, Idle
<1> QED BY <1>1, <1>2, <1>3, <1>4 DEF PortalInv

\* A request that ends leaves the others as they were.
LEMMA PortalRequestEnds ==
    ASSUME PortalInv, NEW r \in Requests, End(r)
    PROVE  /\ requests' \in [Requests -> PortalRequest]
           /\ \A s \in Requests : requests'[s] \in {Idle, requests[s]}
<1>1. requests \in [Requests -> PortalRequest] /\ Idle \in PortalRequest
  BY DEF PortalInv, PortalTypeOK, PortalRequest
<1> QED BY <1>1 DEF End

\* A member's transition of a published finding keeps the portal's invariant.
LEMMA TransitioningKeeps ==
    ASSUME PortalInv, Transitioning, UNCHANGED <<attempts, report>>
    PROVE  PortalInv'
<1>1. /\ finding \in Finding /\ finding.status \in Visible /\ trail = finding.status
      /\ approval.content = FirstDraft
  BY DEF PortalInv, PortalTypeOK, PortalInOrder, TrailIsConnected
<1>2. ASSUME NEW r \in Requests, NEW m \in Testers, NEW to \in Targets,
             BeginTransition(r, m, to, FALSE), UNCHANGED trail
      PROVE  PortalInv'
  <2> DEFINE q == [kind |-> "transition", actor |-> m, to |-> to, reason |-> FALSE,
                   read |-> finding]
  <2>1. to \in FindingStatus
    BY WorkflowAssumption DEF FindingStatus
  <2>2. q \in PortalRequest /\ PortalDecided(q)
    BY <1>1, <1>2, <2>1 DEF PortalRequest, PortalDecided, BeginTransition, Permitted
  <2>3. /\ requests' = [requests EXCEPT ![r] = q]
        /\ UNCHANGED <<finding, snapshots, writable, approval>>
    BY <1>2 DEF BeginTransition, Begin
  <2>4. report' \in {"published", "draft"}
    BY DEF PortalInv, PortalTypeOK
  <2> HIDE DEF q
  <2> QED BY <1>2, <2>2, <2>3, <2>4, PortalRequestMoves
<1>3. ASSUME NEW r \in Requests, CommitTransition(r),
             Logged(requests[r].read.status, requests[r].to)
      PROVE  PortalInv'
  <2> DEFINE q == requests[r]
  <2>1. /\ q.kind = "transition" /\ StillAsRead(q.read)
        /\ finding' = Moved(finding, q.read, q.actor, q.to)
        /\ Recorded(finding, q.read, q.to) /\ End(r) /\ UNCHANGED snapshots
    BY <1>3 DEF CommitTransition
  <2>2. q \in PortalRequest /\ PortalDecided(q)
    BY DEF PortalInv, PortalTypeOK
  <2>3. q.read \in Finding /\ q.to \in FindingStatus /\ q.actor \in Members
    BY <2>1, <2>2, PortalRequestFields
  <2>4. q.to \in Visible \ {"published"} /\ q.read.status = finding.status
    BY <1>1, <2>1, <2>2, VisibleStatus DEF PortalDecided, StillAsRead
  <2>5. approval'.content = FirstDraft
    <3>1. q.to \notin {"qa_approved", "published"}
      BY <2>4 DEF Visible
    <3> QED BY <1>1, <2>1, <3>1 DEF Recorded
  <2>6. trail' = q.to
    BY <1>1, <1>3, <2>4 DEF Logged
  <2>7. requests' \in [Requests -> PortalRequest]
        /\ \A s \in Requests : requests'[s] \in {Idle, requests[s]}
    BY <2>1, PortalRequestEnds
  <2> HIDE DEF q
  <2>8. /\ finding' \in Finding /\ finding'.status = q.to
        /\ finding'.content = finding.content /\ finding'.version = finding.version
    BY <1>1, <2>1, <2>3, MovedFinding
  <2> QED BY <2>1, <2>4, <2>5, <2>6, <2>7, <2>8, PortalRowMoves
<1>4. ASSUME NEW m \in Testers, NEW to \in Targets, BulkUpdate(m, FALSE, to),
             Logged(finding.status, to)
      PROVE  PortalInv'
  <2>1. /\ to # finding.status /\ to \in Workflow[finding.status]
        /\ finding' = Moved(finding, finding, m, to) /\ Recorded(finding, finding, to)
        /\ UNCHANGED <<snapshots, requests>>
    BY <1>4 DEF BulkUpdate, Permitted
  <2>2. to \in Visible \ {"published"} /\ to \in FindingStatus /\ m \in Members
    BY <1>1, <2>1, VisibleStatus, PortalAssumption
  <2>3. approval'.content = FirstDraft
    <3>1. to \notin {"qa_approved", "published"}
      BY <2>2 DEF Visible
    <3> QED BY <1>1, <2>1, <3>1 DEF Recorded
  <2>4. trail' = to
    BY <1>1, <1>4 DEF Logged
  <2>5. /\ finding' \in Finding /\ finding'.status = to
        /\ finding'.content = finding.content /\ finding'.version = finding.version
    BY <1>1, <2>1, <2>2, MovedFinding
  <2>6. requests' \in [Requests -> PortalRequest]
    BY <2>1 DEF PortalInv, PortalTypeOK
  <2> QED BY <2>1, <2>2, <2>3, <2>4, <2>5, <2>6, PortalRowMoves
<1> QED BY <1>2, <1>3, <1>4 DEF Transitioning

\* A request that is given up keeps it.
LEMMA GiveUpKeeps ==
    ASSUME PortalInv, NEW r \in Requests, GiveUp(r)
    PROVE  PortalInv'
<1>1. Idle \in PortalRequest /\ PortalDecided(Idle)
  BY DEF PortalRequest, PortalDecided, Idle
<1>2. /\ requests' = [requests EXCEPT ![r] = Idle]
      /\ UNCHANGED <<finding, snapshots, approval, trail, attempts, report>>
  BY DEF GiveUp, Abandon, End
<1> QED BY <1>1, <1>2, PortalRequestMoves DEF PortalInv, PortalTypeOK

\* What the client may ask for is decided on what was read.
LEMMA RemediationKeeps ==
    ASSUME PortalInv, NEW r \in Requests, BeginRemediation(r) \/ CommitRemediation(r)
    PROVE  PortalInv'
<1>1. /\ finding \in Finding /\ finding.status \in Visible /\ trail = finding.status
      /\ approval.content = FirstDraft /\ report \in {"published", "draft"}
  BY DEF PortalInv, PortalTypeOK, PortalInOrder, TrailIsConnected
<1>2. CASE BeginRemediation(r)
  <2>1. PICK status \in Remediation :
           /\ NotReopening(finding, RemediationStatus(status, finding))
           /\ requests' = [requests EXCEPT ![r] =
                  [kind |-> "remediation", to |-> RemediationStatus(status, finding),
                   read |-> finding]]
           /\ UNCHANGED <<finding, snapshots, approval, trail, attempts, report>>
    BY <1>2 DEF BeginRemediation, Begin
  <2> DEFINE to == RemediationStatus(status, finding)
             q == [kind |-> "remediation", to |-> to, read |-> finding]
  <2>2. to \in Visible
    BY <1>1 DEF RemediationStatus, Visible
  <2> HIDE DEF to
  <2>3. to \in FindingStatus
    BY <2>2, VisibleStatus
  <2>4. q \in PortalRequest /\ q.kind = "remediation" /\ q.to = to /\ q.read = finding
    BY <1>1, <2>3 DEF PortalRequest
  <2>5. requests' = [requests EXCEPT ![r] = q] /\ NotReopening(finding, to)
    BY <2>1 DEF to
  <2> HIDE DEF q
  <2>6. PortalDecided(q)
    BY <2>2, <2>4, <2>5 DEF PortalDecided
  <2> QED BY <1>1, <2>1, <2>4, <2>5, <2>6, PortalRequestMoves
<1>3. CASE CommitRemediation(r)
  <2> DEFINE q == requests[r]
  <2>1. /\ q.kind = "remediation" /\ StillAsRead(q.read)
        /\ finding' = [finding EXCEPT !.status = q.to]
        /\ IF q.to # q.read.status THEN Logged(q.read.status, q.to) ELSE UNCHANGED trail
        /\ End(r) /\ UNCHANGED <<snapshots, approval, attempts, report>>
    BY <1>3 DEF CommitRemediation
  <2>2. PortalDecided(q)
    BY DEF PortalInv
  <2>3. requests' \in [Requests -> PortalRequest]
        /\ \A s \in Requests : requests'[s] \in {Idle, requests[s]}
    BY <2>1, PortalRequestEnds
  <2> HIDE DEF q
  <2>4. q.to \in Visible /\ q.to \in FindingStatus
    BY <2>1, <2>2, VisibleStatus DEF PortalDecided
  <2>5. /\ finding' \in Finding /\ finding'.status = q.to
        /\ finding'.content = finding.content /\ finding'.version = finding.version
    BY <1>1, <2>1, <2>4 DEF Finding
  <2>6. trail' = q.to
    BY <1>1, <2>1 DEF Logged, StillAsRead
  <2> QED BY <1>1, <2>1, <2>3, <2>4, <2>5, <2>6, PortalRowMoves
<1> QED BY <1>2, <1>3

\* An attempt is opened, or given a date: nothing is completed.
LEMMA AttemptMoves ==
    ASSUME PortalInv, NEW a \in Attempts, NEW new \in Attempt,
           attempts[a].status # "completed", new.status # "completed",
           attempts' = [attempts EXCEPT ![a] = new],
           \/ new.by = "portal"
           \/ \A b \in Attempts : ~Open(b)
           \/ Open(a) /\ new.by = attempts[a].by,
           requests' \in [Requests -> PortalRequest],
           \A s \in Requests : requests'[s] \in {Idle, requests[s]},
           UNCHANGED <<finding, snapshots, approval, trail, report>>
    PROVE  PortalInv'
<1>1. /\ attempts' \in [Attempts -> Attempt] /\ attempts'[a] = new
      /\ \A b \in Attempts : b # a => attempts'[b] = attempts[b]
  BY DEF PortalInv, PortalTypeOK
<1>2. PortalTypeOK'
  BY <1>1 DEF PortalInv, PortalTypeOK
<1>3. Completed' = Completed
  BY <1>1 DEF Completed
<1>4. PortalInOrder' /\ TrailIsConnected'
  BY <1>3 DEF PortalInv, PortalInOrder, TrailIsConnected
<1>5. OneVersionPerRetest'
  BY <1>3 DEF PortalInv, OneVersionPerRetest, Completed
<1>6. ApiOpensOne'
  BY <1>1 DEF PortalInv, ApiOpensOne, Open
<1>7. \A s \in Requests : PortalDecided(requests[s])'
  BY DEF PortalInv, PortalDecided, Idle
<1> QED BY <1>2, <1>4, <1>5, <1>6, <1>7 DEF PortalInv

\* Asking for a retest, in the portal or by the API, keeps it.
LEMMA RetestRequestKeeps ==
    ASSUME PortalInv, NEW r \in Requests,
           \/ BeginPortalRetest(r) \/ CommitPortalRetest(r)
           \/ BeginApiRetest(r) \/ CommitApiRetest(r)
    PROVE  PortalInv'
<1>1. CASE BeginPortalRetest(r) \/ BeginApiRetest(r)
  <2>1. PICK q \in {[kind |-> "retest"], [kind |-> "api"]} :
           requests' = [requests EXCEPT ![r] = q]
    BY <1>1 DEF BeginPortalRetest, BeginApiRetest, Begin
  <2>2. q \in [kind : {"retest"}] \/ q \in [kind : {"api"}]
    OBVIOUS
  <2>3. q \in PortalRequest /\ PortalDecided(q)
    BY <2>2 DEF PortalRequest, PortalDecided
  <2>4. UNCHANGED <<finding, snapshots, approval, trail, attempts, report>>
    BY <1>1 DEF BeginPortalRetest, BeginApiRetest
  <2>5. report \in {"published", "draft"}
    BY DEF PortalInv, PortalTypeOK
  <2> QED BY <2>1, <2>3, <2>4, <2>5, PortalRequestMoves
<1>2. CASE CommitPortalRetest(r) \/ CommitApiRetest(r)
  <2>1. PICK a \in Attempts, by \in {"portal", "api"} :
           /\ Requested(a, by)
           /\ by = "portal" \/ NoneOpen
    BY <1>2 DEF CommitPortalRetest, CommitApiRetest
  <2> DEFINE new == [status |-> "requested", by |-> by]
  <2>2. /\ attempts[a].status = "absent" /\ attempts' = [attempts EXCEPT ![a] = new]
        /\ by = "portal" \/ \A b \in Attempts : ~Open(b)
    BY <2>1 DEF Requested, NoneOpen
  <2>3. new \in Attempt /\ new.status = "requested" /\ new.by = by
    BY DEF Attempt, OpenAttempt
  <2>4. End(r) /\ UNCHANGED <<finding, snapshots, approval, trail, report>>
    BY <1>2 DEF CommitPortalRetest, CommitApiRetest
  <2>5. requests' \in [Requests -> PortalRequest]
        /\ \A s \in Requests : requests'[s] \in {Idle, requests[s]}
    BY <2>4, PortalRequestEnds
  <2> HIDE DEF new
  <2>6. attempts[a].status # "completed" /\ new.status # "completed"
    BY <2>2, <2>3
  <2> QED BY <2>2, <2>3, <2>4, <2>5, <2>6, AttemptMoves
<1> QED BY <1>1, <1>2

\* Scheduling a retest keeps it.
LEMMA ScheduleKeeps ==
    ASSUME PortalInv, NEW a \in Attempts, ScheduleRetest(a)
    PROVE  PortalInv'
<1> DEFINE new == [attempts[a] EXCEPT !.status = "scheduled"]
<1>1. /\ Open(a) /\ UNCHANGED <<workflowVars, trail, report>>
      /\ attempts' = [attempts EXCEPT ![a] = new]
  BY DEF ScheduleRetest, LockedRetest
<1>2. attempts[a] \in Attempt /\ requests \in [Requests -> PortalRequest]
  BY DEF PortalInv, PortalTypeOK
<1>3. new \in Attempt /\ new.status = "scheduled" /\ new.by = attempts[a].by
  BY <1>2 DEF Attempt, OpenAttempt
<1>4. attempts[a].status # "completed"
  BY <1>1 DEF Open, OpenAttempt
<1> HIDE DEF new
<1>5. new.status # "completed"
  BY <1>3
<1> QED BY <1>1, <1>2, <1>3, <1>4, <1>5, AttemptMoves DEF workflowVars

\* The hops of a retest lead to its outcome.
LEMMA PathLeadsTo ==
    ASSUME NEW from, NEW to PROVE Last(Path(from, to)) = to
<1> DEFINE Hops == {"remediation_in_progress", "ready_for_retest", "retested"}
           first == IF from = "retested" THEN <<"remediation_in_progress">> ELSE <<>>
           second == IF from = "ready_for_retest" THEN <<>> ELSE <<"ready_for_retest">>
           last == IF to = "retested" THEN <<>> ELSE <<to>>
           start == first \o second
           before == start \o <<"retested">>
<1>1. first \in Seq(Hops) /\ second \in Seq(Hops)
  <2>1. /\ <<>> \in Seq(Hops) /\ <<"remediation_in_progress">> \in Seq(Hops)
        /\ <<"ready_for_retest">> \in Seq(Hops)
    OBVIOUS
  <2> HIDE DEF Hops
  <2> QED BY <2>1, Zenon
<1>2. Path(from, to) = before \o last
  BY DEF Path
<1> HIDE DEF first, second
<1>3. start \in Seq(Hops)
  BY <1>1
<1> HIDE DEF start
<1>4. /\ before \in Seq(Hops) /\ Len(before) \in Nat /\ Len(before) > 0
      /\ before[Len(before)] = "retested"
  BY <1>3
<1> HIDE DEF before
<1>5. CASE to = "retested"
  BY <1>2, <1>4, <1>5 DEF Last
<1>6. CASE to # "retested"
  BY <1>2, <1>4, <1>6 DEF Last
<1> QED BY <1>5, <1>6

\* One more attempt is completed, and one more version made.
LEMMA CompleteKeeps ==
    ASSUME PortalInv, NEW r \in Requests, NEW a \in Attempts, NEW to \in Outcomes,
           CompleteRetest(r, a, to)
    PROVE  PortalInv'
<1> DEFINE v == finding.version + 1
           new == [attempts[a] EXCEPT !.status = "completed"]
<1>1. /\ Open(a) /\ finding.version < MaxVersion
      /\ attempts' = [attempts EXCEPT ![a] = new]
      /\ snapshots' = [u \in DOMAIN snapshots \cup {v} |->
                          IF u = v THEN finding.content ELSE snapshots[u]]
      /\ finding' = [finding EXCEPT !.status = to, !.version = v]
      /\ Logged(finding.status, Last(Path(finding.status, to)))
      /\ requests' = [requests EXCEPT ![r] = [kind |-> "revision"]]
      /\ UNCHANGED <<approval, report>>
  BY DEF CompleteRetest, LockedRetest
<1>2. /\ finding \in Finding /\ finding.version \in Nat /\ v \in 1..MaxVersion
      /\ finding.content \in Contents
  <2>1. finding \in Finding
    BY DEF PortalInv, PortalTypeOK
  <2> QED BY <1>1, <2>1, FindingFields, WorkflowAssumption
<1>3. to \in Visible /\ to \in FindingStatus
  BY VisibleStatus DEF Outcomes, Visible
<1>4. /\ finding' \in Finding /\ finding'.status = to /\ finding'.version = finding.version + 1
      /\ finding'.content = finding.content
  <2>1. finding' = [finding EXCEPT !.status = to, !.version = v] /\ v = finding.version + 1
    BY <1>1
  <2> HIDE DEF v
  <2> QED BY <1>2, <1>3, <2>1 DEF Finding
<1>5. trail' = to
  BY <1>1, PathLeadsTo DEF PortalInv, TrailIsConnected, Logged
<1>6. /\ new \in Attempt /\ new.status = "completed"
      /\ attempts' \in [Attempts -> Attempt] /\ attempts'[a] = new
      /\ \A b \in Attempts : b # a => attempts'[b] = attempts[b]
  <2>1. attempts \in [Attempts -> Attempt]
    BY DEF PortalInv, PortalTypeOK
  <2>2. new \in Attempt /\ new.status = "completed"
    BY <2>1 DEF Attempt
  <2> HIDE DEF new
  <2> QED BY <1>1, <2>1, <2>2
<1> HIDE DEF new
<1>7. /\ DOMAIN snapshots' = DOMAIN snapshots \cup {v}
      /\ snapshots'[v] = finding.content
      /\ \A u \in DOMAIN snapshots' : snapshots'[u] \in Contents
  BY <1>1, <1>2 DEF PortalInv, PortalTypeOK
<1>8. /\ requests' \in [Requests -> PortalRequest]
      /\ \A s \in Requests : requests'[s] = requests[s] \/ requests'[s] = [kind |-> "revision"]
  <2>1. [kind |-> "revision"] \in PortalRequest
    BY DEF PortalRequest
  <2> QED BY <1>1, <2>1 DEF PortalInv, PortalTypeOK
<1>9. Completed' = Completed \cup {a} /\ a \notin Completed
  <2>1. attempts[a].status # "completed"
    BY <1>1 DEF Open, OpenAttempt
  <2> QED BY <1>6, <2>1 DEF Completed
<1>10. /\ IsFiniteSet(Completed') /\ Cardinality(Completed') = Cardinality(Completed) + 1
       /\ Cardinality(Completed) \in Nat
  <2>1. IsFiniteSet(Completed)
    BY DEF PortalInv, PortalInOrder
  <2> QED BY <1>9, <2>1, FS_AddElement, FS_CardinalityType
<1>11. PortalTypeOK'
  BY <1>1, <1>3, <1>4, <1>5, <1>6, <1>7, <1>8 DEF PortalInv, PortalTypeOK
<1>12. PortalInOrder'
  BY <1>1, <1>3, <1>4, <1>7, <1>10 DEF PortalInv, PortalInOrder
<1>13. TrailIsConnected'
  BY <1>4, <1>5 DEF TrailIsConnected
<1>14. OneVersionPerRetest'
  <2>1. finding.version = 1 + Cardinality(Completed)
    BY DEF PortalInv, OneVersionPerRetest, Completed
  <2>2. finding'.version = 1 + Cardinality(Completed')
    BY <1>4, <1>10, <2>1
  <2> QED BY <2>2 DEF OneVersionPerRetest, Completed
<1>15. ApiOpensOne'
  BY <1>6 DEF PortalInv, ApiOpensOne, Open, OpenAttempt
<1>16. \A s \in Requests : PortalDecided(requests[s])'
  BY <1>8 DEF PortalInv, PortalDecided
<1> QED BY <1>11, <1>12, <1>13, <1>14, <1>15, <1>16 DEF PortalInv

\* A revision of the report keeps it.
LEMMA ReviseKeeps ==
    ASSUME PortalInv, NEW r \in Requests, ReviseReport(r)
    PROVE  PortalInv'
<1>1. Idle \in PortalRequest /\ PortalDecided(Idle)
  BY DEF PortalRequest, PortalDecided, Idle
<1>2. /\ requests' = [requests EXCEPT ![r] = Idle]
      /\ UNCHANGED <<finding, snapshots, approval, trail, attempts>>
      /\ report' \in {"published", "draft"}
  BY DEF ReviseReport, End, PortalInv, PortalTypeOK
<1> QED BY <1>1, <1>2, PortalRequestMoves

\* It speaks of these variables alone.
LEMMA PortalRests ==
    ASSUME PortalInv, UNCHANGED <<finding, snapshots, requests, approval, trail, attempts, report>>
    PROVE  PortalInv'
BY DEF PortalInv, PortalTypeOK, PortalInOrder, Completed, TrailIsConnected,
   OneVersionPerRetest, ApiOpensOne, Open, PortalDecided

\* Every step keeps the portal's invariant.
LEMMA NextPortal == PortalInv /\ [PortalNext]_portalVars => PortalInv'
<1> SUFFICES ASSUME PortalInv, [PortalNext]_portalVars PROVE PortalInv'
  OBVIOUS
<1>1. CASE EndEngagement \/ UNCHANGED portalVars
  BY <1>1, PortalRests DEF EndEngagement, CloseEngagement, portalVars, workflowVars
<1>2. CASE Transitioning /\ UNCHANGED <<attempts, report>>
  BY <1>2, TransitioningKeeps
<1>3. ASSUME NEW r \in Requests, NEW a \in Attempts, NEW to \in Outcomes,
             CompleteRetest(r, a, to)
      PROVE  PortalInv'
  BY <1>3, CompleteKeeps
<1>4. ASSUME NEW a \in Attempts, ScheduleRetest(a) PROVE PortalInv'
  BY <1>4, ScheduleKeeps
<1>5. ASSUME NEW r \in Requests,
             \/ GiveUp(r) \/ BeginRemediation(r) \/ CommitRemediation(r)
             \/ BeginPortalRetest(r) \/ CommitPortalRetest(r)
             \/ BeginApiRetest(r) \/ CommitApiRetest(r) \/ ReviseReport(r)
      PROVE  PortalInv'
  BY <1>5, GiveUpKeeps, RemediationKeeps, RetestRequestKeeps, ReviseKeeps
<1> QED BY <1>1, <1>2, <1>3, <1>4, <1>5 DEF PortalNext

-----------------------------------------------------------------------------
\* Rows, requests and attempts have the types of their columns; a published finding is
\* not written any more.
THEOREM PortalInvariant == PortalSpec => []PortalInv
<1> QED BY InitPortal, NextPortal, PTL DEF PortalSpec

\* Whatever client, testers and retests do together, the rows of finding_transitions lead
\* from one to the next and to the status the finding has.
THEOREM TrailStaysConnected == PortalSpec => []TrailIsConnected
<1>1. PortalInv => TrailIsConnected
  BY DEF PortalInv
<1> QED BY <1>1, PortalInvariant, PTL

\* "Concurrent schedule/complete calls serialise and cannot act twice": as many versions
\* have been made as retests completed.
THEOREM RetestsSerialise == PortalSpec => []OneVersionPerRetest
<1>1. PortalInv => OneVersionPerRetest
  BY DEF PortalInv
<1> QED BY <1>1, PortalInvariant, PTL

\* The API opens no second attempt beside another of its own (the lock and the second look
\* of requestRetestForApi).
THEOREM ApiOpensNoSecond == PortalSpec => []ApiOpensOne
<1>1. PortalInv => ApiOpensOne
  BY DEF PortalInv
<1> QED BY <1>1, PortalInvariant, PTL

\* What the client sees as published is what QA approved.
THEOREM PortalShowsApproved == PortalSpec => []PublishedIsApproved
<1>1. PortalInv => PublishedIsApproved
  BY DEF PortalInv, PortalInOrder, PublishedIsApproved
<1> QED BY <1>1, PortalInvariant, PTL

\* "Closed and resolved are tester decisions": a client's report cannot take a finding out
\* of them, even if the tester decides while the client is writing (the check on the read
\* of submitRemediationUpdate, and the update that compares status and version).
THEOREM ClientsNeverReopen == PortalSpec => ClientNeverReopens
<1> DEFINE Untouched ==
        \A r \in DOMAIN requests :
          /\ requests[r].kind = "remediation" /\ requests'[r] = Idle
          /\ finding.status \in {"closed", "resolved"}
          => finding'.status = finding.status
<1>1. ASSUME PortalInv, [PortalNext]_portalVars PROVE Untouched
  <2> SUFFICES ASSUME NEW r \in Requests, requests[r].kind = "remediation",
                      requests'[r] = Idle, finding.status \in {"closed", "resolved"}
               PROVE  finding'.status = finding.status
    BY <1>1 DEF PortalInv, PortalTypeOK
  <2>1. finding \in Finding /\ requests \in [Requests -> PortalRequest] /\ requests[r] # Idle
    BY <1>1 DEF PortalInv, PortalTypeOK, Idle
  <2>2. ASSUME NEW s \in Requests, NEW q, requests' = [requests EXCEPT ![s] = q] PROVE s = r
    BY <2>1, <2>2
  <2>3. CASE CommitRemediation(r)
    <3>1. PortalDecided(requests[r])
      BY <1>1 DEF PortalInv
    <3> QED BY <2>1, <2>3, <3>1
            DEF CommitRemediation, StillAsRead, PortalDecided, NotReopening, Finding
  <2>4. ASSUME NEW s \in Requests, CommitRemediation(s) PROVE s = r
    BY <2>2, <2>4 DEF CommitRemediation, End
  <2>5. ASSUME NEW s \in Requests, CommitTransition(s) PROVE FALSE
    <3>1. s = r
      BY <2>2, <2>5 DEF CommitTransition, End
    <3> QED BY <2>5, <3>1 DEF CommitTransition
  <2>6. ASSUME NEW m, NEW to, BulkUpdate(m, FALSE, to) PROVE FALSE
    BY <2>1, <2>6 DEF BulkUpdate
  <2>7. ASSUME NEW s \in Requests, NEW a, NEW to, CompleteRetest(s, a, to) PROVE FALSE
    <3>1. s = r
      BY <2>2, <2>7 DEF CompleteRetest
    <3> QED BY <2>1, <2>7, <3>1 DEF CompleteRetest
  <2>8. \/ UNCHANGED finding
        \/ \E s \in Requests : CommitRemediation(s) \/ CommitTransition(s)
        \/ \E m, to : BulkUpdate(m, FALSE, to)
        \/ \E s \in Requests, a \in Attempts, to \in Outcomes : CompleteRetest(s, a, to)
    <3>1. CASE Transitioning
      BY <3>1 DEF Transitioning, BeginTransition
    <3>2. CASE EndEngagement \/ UNCHANGED portalVars \/ \E a \in Attempts : ScheduleRetest(a)
      BY <3>2 DEF EndEngagement, CloseEngagement, portalVars, workflowVars, ScheduleRetest
    <3>3. ASSUME NEW s \in Requests,
                 \/ GiveUp(s) \/ BeginRemediation(s) \/ BeginPortalRetest(s)
                 \/ CommitPortalRetest(s) \/ BeginApiRetest(s) \/ CommitApiRetest(s)
                 \/ ReviseReport(s)
          PROVE  UNCHANGED finding
      BY <3>3 DEF GiveUp, Abandon, BeginRemediation, BeginPortalRetest, CommitPortalRetest,
         BeginApiRetest, CommitApiRetest, ReviseReport
    <3> QED BY <1>1, <3>1, <3>2, <3>3 DEF PortalNext
  <2> QED BY <2>3, <2>4, <2>5, <2>6, <2>7, <2>8
<1>2. PortalInv /\ [PortalNext]_portalVars => [Untouched]_portalVars
  BY <1>1
<1> QED BY <1>2, PortalInvariant, PTL DEF PortalSpec, ClientNeverReopens

-----------------------------------------------------------------------------
(* The portal's regime of the run, whose invariants are those of PortalSpec.  *)

\* In the portal's regime of the run its invariant holds.
LEMMA RegimeKeepsPortal ==
    RegimesSpec => [](regime = "portal" => PortalInv)
<1> DEFINE Inv == regime = "portal" => PortalInv
<1>1. RegimesInit => Inv
  BY InitPortal DEF RegimesInit
<1>2. Inv /\ [RegimesNext]_regimeVars => Inv'
  <2> SUFFICES ASSUME Inv, [RegimesNext]_regimeVars, regime' = "portal" PROVE PortalInv'
    OBVIOUS
  <2>1. regime = "portal" /\ [PortalNext]_portalVars
    BY DEF RegimesNext, regimeVars
  <2> QED BY <2>1, NextPortal
<1> QED BY <1>1, <1>2, PTL DEF RegimesSpec

\* In the portal's regime the transitions on record have no gap.
THEOREM RegimeTrailConnects == RegimesSpec => []PortalTrailConnects
<1>1. (regime = "portal" => PortalInv) => PortalTrailConnects
  BY DEF PortalTrailConnects, PortalInv
<1> QED BY <1>1, RegimeKeepsPortal, PTL

\* In the portal's regime retests serialise, and the API opens no second attempt.
THEOREM RegimeRetestsSerialise == RegimesSpec => []PortalRetestsSerialise
<1>1. (regime = "portal" => PortalInv) => PortalRetestsSerialise
  BY DEF PortalRetestsSerialise, PortalInv
<1> QED BY <1>1, RegimeKeepsPortal, PTL

-----------------------------------------------------------------------------
(* The hurried regime: what a request may write, whatever overtakes it.  The *)
(* two regimes of the workflow have constants of their own, so the lemmas   *)
(* about WorkflowNext do not speak of them.                                  *)

HurriedKinds == {"idle", "transition", "open", "edit", "template"}
HurriedInv ==
    /\ "content" \in DOMAIN finding
    /\ DOMAIN requests = Requests
    /\ \A r \in Requests :
          /\ requests[r].kind \in HurriedKinds
          /\ requests[r].kind \in {"edit", "template"} => requests[r].read.status \in Editable

\* A request that begins or goes on is one of these.
LEMMA HurriedRequestMoves ==
    ASSUME HurriedInv, NEW r \in Requests, NEW q, requests' = [requests EXCEPT ![r] = q],
           q.kind \in HurriedKinds,
           q.kind \in {"edit", "template"} => q.read.status \in Editable,
           "content" \in DOMAIN finding'
    PROVE  HurriedInv'
<1>1. DOMAIN requests' = Requests
  BY DEF HurriedInv
<1>2. \A s \in Requests : requests'[s] = IF s = r THEN q ELSE requests[s]
  BY DEF HurriedInv
<1> QED BY <1>1, <1>2 DEF HurriedInv

\* Only edits and templates write content, and only where they may.
LEMMA HurriedKeeps ==
    ASSUME HurriedInv, Hurried!WorkflowNext
    PROVE  HurriedInv' /\ (finding'.content # finding.content => finding.status \in Editable)
<1> DEFINE Frozen == finding'.content # finding.content => finding.status \in Editable
<1>1. ASSUME NEW r \in Requests, NEW m \in Members, NEW to, NEW reason,
             Hurried!BeginTransition(r, m, to, reason)
      PROVE  HurriedInv' /\ Frozen
  BY <1>1, HurriedRequestMoves
     DEF HurriedInv, HurriedKinds, Hurried!BeginTransition, Hurried!Begin
<1>2. ASSUME NEW r \in Requests, Hurried!CommitTransition(r) PROVE HurriedInv' /\ Frozen
  <2>1. /\ finding' = [finding EXCEPT !.status = finding'.status,
                                      !.reviewer = finding'.reviewer,
                                      !.approved = finding'.approved]
        /\ requests' = [requests EXCEPT ![r] = Hurried!Idle]
    BY <1>2 DEF Hurried!CommitTransition, Hurried!Moved, Hurried!End, HurriedInv
  <2>2. "content" \in DOMAIN finding' /\ finding'.content = finding.content
    BY <2>1 DEF HurriedInv
  <2> QED BY <2>1, <2>2, HurriedRequestMoves DEF HurriedKinds, Hurried!Idle
<1>3. ASSUME NEW r \in Requests, Hurried!Abandon(r) \/ Hurried!OpenFinding(r)
      PROVE  HurriedInv' /\ Frozen
  BY <1>3, HurriedRequestMoves
     DEF HurriedInv, HurriedKinds, Hurried!Abandon, Hurried!OpenFinding, Hurried!Begin,
         Hurried!End, Hurried!Idle
<1>4. ASSUME NEW r \in Requests, Hurried!ReadForEdit(r) \/ Hurried!BeginTemplate(r)
      PROVE  HurriedInv' /\ Frozen
  BY <1>4, HurriedRequestMoves
     DEF HurriedInv, HurriedKinds, Hurried!ReadForEdit, Hurried!BeginTemplate, Hurried!Begin,
         Hurried!MayEdit, Hurried!Editable, Editable
<1>5. ASSUME NEW r \in Requests, NEW read, NEW content, Hurried!NewVersion(read, content),
             read.status \in Editable, Hurried!End(r)
      PROVE  HurriedInv' /\ Frozen
  <2>1. /\ finding' = [finding EXCEPT !.version = read.version + 1, !.content = content]
        /\ finding.status = read.status
        /\ requests' = [requests EXCEPT ![r] = Hurried!Idle]
    BY <1>5 DEF Hurried!NewVersion, Hurried!StillAsRead, Hurried!End
  <2>2. "content" \in DOMAIN finding'
    BY <2>1 DEF HurriedInv
  <2> QED BY <1>5, <2>1, <2>2, HurriedRequestMoves DEF HurriedKinds, Hurried!Idle
<1>6. ASSUME NEW r \in Requests, Hurried!CommitEdit(r) \/ Hurried!CommitTemplate(r)
      PROVE  HurriedInv' /\ Frozen
  <2>1. requests[r].read.status \in Editable /\ Hurried!End(r)
    BY <1>6 DEF Hurried!CommitEdit, Hurried!CommitTemplate, HurriedInv
  <2>2. \E content : Hurried!NewVersion(requests[r].read, content)
    BY <1>6 DEF Hurried!CommitEdit, Hurried!CommitTemplate
  <2> QED BY <1>5, <2>1, <2>2
<1>7. ASSUME NEW r \in Requests, Hurried!BeginEnrich(r) \/ Hurried!CommitEnrich(r)
      PROVE  FALSE
  BY <1>7 DEF Hurried!BeginEnrich, Hurried!CommitEnrich, HurriedInv, HurriedKinds
<1>8. ASSUME NEW m, NEW edited, NEW to, Hurried!BulkUpdate(m, edited, to)
      PROVE  HurriedInv' /\ Frozen
  <2> DEFINE f == IF edited
                  THEN [finding EXCEPT !.version = finding.version + 1,
                           !.content = Hurried!Written(@, {"severity"}, finding.version + 1)]
                  ELSE finding
  <2>1. /\ finding' = IF to = finding.status THEN f ELSE Hurried!Moved(f, f, m, to)
        /\ edited => finding.status \in Editable
        /\ requests' = requests
    BY <1>8 DEF Hurried!BulkUpdate, Hurried!MayEdit, Hurried!Editable, Editable
  <2>2. "content" \in DOMAIN f /\ (~edited => f.content = finding.content)
    BY DEF HurriedInv
  <2> HIDE DEF f
  <2>3. "content" \in DOMAIN finding' /\ finding'.content = f.content
    BY <2>1, <2>2 DEF Hurried!Moved
  <2> QED BY <2>1, <2>2, <2>3 DEF HurriedInv
<1>9. CASE Hurried!ImportBundle
  <2>1. PICK content : Hurried!NewVersion(finding, content)
    BY <1>9 DEF Hurried!ImportBundle
  <2>2. /\ finding' = [finding EXCEPT !.version = finding.version + 1, !.content = content]
        /\ finding.status \in Editable /\ requests' = requests
    BY <1>9, <2>1 DEF Hurried!ImportBundle, Hurried!NewVersion, Hurried!MayEdit,
       Hurried!Editable, Editable
  <2>3. "content" \in DOMAIN finding'
    BY <2>2 DEF HurriedInv
  <2> QED BY <2>2, <2>3 DEF HurriedInv
<1>10. CASE Hurried!CloseEngagement
  BY <1>10 DEF Hurried!CloseEngagement
<1> QED
  BY <1>1, <1>2, <1>3, <1>4, <1>6, <1>7, <1>8, <1>9, <1>10 DEF Hurried!WorkflowNext

\* "Finding content can only change during authoring or requested changes", in the hurried
\* regime of the run: the update compares status and version with what was read.
THEOREM HurriedContentStaysFrozen == RegimesSpec => HurriedContentIsFrozen
<1> DEFINE Inv == regime = "hurried" => HurriedInv
           Frozen == regime = "hurried" /\ finding'.content # finding.content =>
                        finding.status \in Editable
<1>1. RegimesInit => Inv
  BY DEF RegimesInit, Hurried!WorkflowInit, Hurried!NewFinding, Hurried!Idle, HurriedInv,
     HurriedKinds
<1>2. Inv /\ [RegimesNext]_regimeVars => Inv' /\ Frozen
  <2>1. CASE UNCHANGED regimeVars
    BY <2>1 DEF regimeVars, portalVars, workflowVars, HurriedInv
  <2>2. CASE RegimesNext /\ regime = "hurried"
    BY <2>2, HurriedKeeps DEF RegimesNext
  <2>3. CASE RegimesNext /\ regime # "hurried"
    BY <2>3 DEF RegimesNext
  <2> QED BY <2>1, <2>2, <2>3
<1> HIDE DEF Inv, Frozen
<1>3. Inv /\ [RegimesNext]_regimeVars => [Frozen]_regimeVars
  BY <1>2
<1>4. RegimesSpec => [][Frozen]_regimeVars
  BY <1>1, <1>2, <1>3, PTL DEF RegimesSpec
<1> QED BY <1>4 DEF Frozen, HurriedContentIsFrozen

-----------------------------------------------------------------------------
(* The quiet regime: one request at a time, which has read what is there.   *)

QuietFields == {"severity", "references"}
QuietContent == [written : [QuietFields -> Nat], linked : BOOLEAN]
QuietFinding ==
    [status : FindingStatus, version : Nat, content : QuietContent,
     reviewer : QuietMembers \cup {None}, approved : Nat]

\* Nothing is newer than the version, and the request knows the row as it is.
WrittenInOrder(row) == \A f \in QuietFields : row.content.written[f] <= row.version
Informed(q) ==
    /\ q.kind \in {"transition", "edit", "template", "enrich"} => q.read = finding
    /\ q.kind \in {"open", "edit"} => q.seen = finding.content
    /\ q.kind = "transition" =>
          /\ q.actor \in QuietMembers /\ q.to \in FindingStatus
          /\ q.to = "qa_approved" => finding.reviewer # q.actor

QuietInv ==
    /\ finding \in QuietFinding /\ WrittenInOrder(finding)
    /\ DOMAIN requests = QuietRequests
    /\ \A r \in QuietRequests : requests[r] # Idle => Informed(requests[r])
    /\ \A r, s \in QuietRequests : requests[r] # Idle /\ requests[s] # Idle => r = s

\* What a step may never do to the row.
KeepsReviews ==
    /\ finding.status = "peer_reviewed" /\ finding'.status = "qa_approved" =>
          finding'.reviewer # finding.reviewer
    /\ \A f \in QuietFields : finding'.content.written[f] >= finding.content.written[f]

\* A request begins, or goes on, or is given up.
LEMMA QuietRequestMoves ==
    ASSUME QuietInv, NEW r \in QuietRequests, NEW q, requests' = [requests EXCEPT ![r] = q],
           requests[r] # Idle \/ \A s \in QuietRequests : requests[s] = Idle,
           q # Idle => Informed(q), finding' = finding
    PROVE  QuietInv' /\ KeepsReviews
<1>1. DOMAIN requests' = QuietRequests
  BY DEF QuietInv
<1>2. \A s \in QuietRequests : requests'[s] = IF s = r THEN q ELSE requests[s]
  BY DEF QuietInv
<1>3. \A s \in QuietRequests : s # r => requests[s] = Idle
  BY DEF QuietInv
<1>4. \A s \in QuietRequests : requests'[s] # Idle => s = r /\ Informed(q)
  BY <1>2, <1>3
<1>5. (\A s \in QuietRequests : requests[s] # Idle => Informed(requests[s]))'
  BY <1>2, <1>4 DEF Informed
<1>6. finding' \in QuietFinding /\ WrittenInOrder(finding)'
  BY DEF QuietInv, WrittenInOrder
<1>7. KeepsReviews
  BY DEF KeepsReviews, QuietInv, QuietFinding, QuietContent
<1> QED BY <1>1, <1>4, <1>5, <1>6, <1>7 DEF QuietInv

\* The row is written when no other request knows it.
LEMMA QuietRowMoves ==
    ASSUME QuietInv, DOMAIN requests' = QuietRequests,
           \A s \in QuietRequests : requests'[s] = Idle,
           finding' \in QuietFinding, WrittenInOrder(finding)'
    PROVE  QuietInv'
BY DEF QuietInv

\* A request that ends leaves none behind.
LEMMA QuietLastRequest ==
    ASSUME QuietInv, NEW r \in QuietRequests, requests[r] # Idle,
           requests' = [requests EXCEPT ![r] = Idle]
    PROVE  DOMAIN requests' = QuietRequests /\ \A s \in QuietRequests : requests'[s] = Idle
BY DEF QuietInv

\* A transition moves the status, and the reviewer with it.
LEMMA QuietMoves ==
    ASSUME NEW now \in QuietFinding, NEW read \in QuietFinding, NEW m \in QuietMembers,
           NEW to \in FindingStatus
    PROVE  LET row == Quiet!Moved(now, read, m, to)
           IN  /\ row \in QuietFinding /\ row.status = to
               /\ row.version = now.version /\ row.content = now.content
               /\ to = "qa_approved" => row.reviewer = m
BY DEF Quiet!Moved, QuietFinding

\* Some parts are written anew, the others are as they were.
LEMMA QuietWrites ==
    ASSUME NEW c \in QuietContent, NEW fields, NEW v \in Nat
    PROVE  /\ Quiet!Written(c, fields, v) \in QuietContent
           /\ \A f \in QuietFields : Quiet!Written(c, fields, v).written[f] \in {v, c.written[f]}
BY DEF Quiet!Written, QuietContent, QuietFields

\* A new version of the content that was there, or of a template.
LEMMA QuietVersion ==
    ASSUME QuietInv, NEW content \in QuietContent,
           \A f \in QuietFields :
              content.written[f] \in {finding.version + 1, finding.content.written[f]},
           finding' = [finding EXCEPT !.version = finding.version + 1, !.content = content]
    PROVE  finding' \in QuietFinding /\ WrittenInOrder(finding)' /\ KeepsReviews
<1>1. /\ finding' \in QuietFinding /\ finding'.version = finding.version + 1
      /\ finding'.content = content /\ finding'.status = finding.status
  <2>1. finding \in QuietFinding /\ finding.version + 1 \in Nat
    BY DEF QuietInv, QuietFinding
  <2> QED BY <2>1 DEF QuietFinding
<1>2. finding.version \in Nat /\ \A f \in QuietFields :
          /\ finding.content.written[f] \in Nat
          /\ finding.content.written[f] <= finding.version
  BY DEF QuietInv, QuietFinding, QuietContent, WrittenInOrder
<1> QED BY <1>1, <1>2 DEF WrittenInOrder, KeepsReviews

\* Transitions, edits, templates and enrichments that are committed have read the row as
\* it still is.
LEMMA QuietTransitionKeeps ==
    ASSUME QuietInv, NEW r \in QuietRequests, Quiet!CommitTransition(r)
    PROVE  QuietInv' /\ KeepsReviews
<1> DEFINE q == requests[r]
<1>1. /\ q # Idle /\ q.kind = "transition"
      /\ finding' = Quiet!Moved(finding, q.read, q.actor, q.to)
      /\ requests' = [requests EXCEPT ![r] = Idle]
  BY DEF Quiet!CommitTransition, Quiet!End, Quiet!Idle, Idle
<1>2. /\ finding \in QuietFinding /\ q.read = finding
      /\ q.actor \in QuietMembers /\ q.to \in FindingStatus
      /\ q.to = "qa_approved" => finding.reviewer # q.actor
  BY <1>1 DEF QuietInv, Informed
<1> HIDE DEF q
<1>3. /\ finding' \in QuietFinding /\ finding'.status = q.to
      /\ finding'.version = finding.version /\ finding'.content = finding.content
      /\ q.to = "qa_approved" => finding'.reviewer = q.actor
  BY <1>1, <1>2, QuietMoves
<1>4. WrittenInOrder(finding)'
  BY <1>3 DEF QuietInv, WrittenInOrder
<1>5. KeepsReviews
  BY <1>2, <1>3 DEF KeepsReviews, QuietFinding, QuietContent
<1> QED BY <1>1, <1>3, <1>4, <1>5, QuietLastRequest, QuietRowMoves DEF q

\* An edit writes one field anew, a template all of them.
LEMMA QuietEditKeeps ==
    ASSUME QuietInv, NEW r \in QuietRequests, Quiet!CommitEdit(r) \/ Quiet!CommitTemplate(r)
    PROVE  QuietInv' /\ KeepsReviews
<1> DEFINE v == finding.version + 1
<1>0. /\ finding \in QuietFinding /\ finding.version \in Nat /\ v \in Nat
      /\ finding.content \in QuietContent
  BY DEF QuietInv, QuietFinding
<1>1. /\ requests[r] # Idle /\ requests[r].kind \in {"edit", "template"}
      /\ requests' = [requests EXCEPT ![r] = Idle]
  BY DEF Quiet!CommitEdit, Quiet!CommitTemplate, Quiet!End, Quiet!Idle, Idle
<1>2. /\ requests[r].read = finding
      /\ requests[r].kind = "edit" => requests[r].seen = finding.content
  BY <1>1 DEF QuietInv, Informed
<1>3. \E content \in QuietContent :
         /\ finding' = [finding EXCEPT !.version = v, !.content = content]
         /\ \A f \in QuietFields : content.written[f] \in {v, finding.content.written[f]}
  <2>1. CASE Quiet!CommitEdit(r)
    <3>1. PICK f \in QuietFields :
             finding' = [finding EXCEPT !.version = v,
                                        !.content = Quiet!Written(finding.content, {f}, v)]
      BY <1>2, <2>1 DEF Quiet!CommitEdit, Quiet!NewVersion, QuietFields
    <3> QED BY <1>0, <3>1, QuietWrites
  <2>2. CASE Quiet!CommitTemplate(r)
    <3> DEFINE content == [written |-> [f \in QuietFields |-> v], linked |-> FALSE]
    <3>1. finding' = [finding EXCEPT !.version = v, !.content = content]
      BY <1>2, <2>2 DEF Quiet!CommitTemplate, Quiet!NewVersion, QuietFields
    <3>2. content \in QuietContent /\ \A f \in QuietFields : content.written[f] = v
      BY <1>0 DEF QuietContent
    <3> QED BY <3>1, <3>2
  <2> QED BY <2>1, <2>2
<1>4. finding' \in QuietFinding /\ WrittenInOrder(finding)' /\ KeepsReviews
  BY <1>0, <1>3, QuietVersion
<1> QED BY <1>1, <1>4, QuietLastRequest, QuietRowMoves

\* An enrichment writes back the references that are still there.
LEMMA QuietEnrichKeeps ==
    ASSUME QuietInv, NEW r \in QuietRequests, Quiet!CommitEnrich(r)
    PROVE  QuietInv' /\ KeepsReviews
<1>1. /\ requests[r] # Idle /\ requests[r].kind = "enrich"
      /\ requests' = [requests EXCEPT ![r] = Idle]
  BY DEF Quiet!CommitEnrich, Quiet!End, Quiet!Idle, Idle
<1>2. requests[r].read = finding /\ finding \in QuietFinding
  BY <1>1 DEF QuietInv, Informed
<1>3. finding' = [finding EXCEPT !.content.written["references"] =
                                    finding.content.written["references"],
                                 !.content.linked = TRUE]
  BY <1>2 DEF Quiet!CommitEnrich
<1> DEFINE old == finding.content
           content == [old EXCEPT !.written["references"] = old.written["references"],
                                  !.linked = TRUE]
<1>4. content \in QuietContent /\ content.written = old.written
  BY <1>2 DEF QuietFinding, QuietContent, QuietFields
<1>5. finding' = [finding EXCEPT !.content = content]
  BY <1>2, <1>3 DEF QuietFinding, QuietContent
<1> HIDE DEF content
<1>6. /\ finding' \in QuietFinding /\ finding'.content = content
      /\ finding'.version = finding.version /\ finding'.status = finding.status
  BY <1>2, <1>4, <1>5 DEF QuietFinding
<1>7. WrittenInOrder(finding)' /\ KeepsReviews
  BY <1>2, <1>4, <1>6 DEF QuietInv, WrittenInOrder, KeepsReviews, QuietFinding, QuietContent
<1> QED BY <1>1, <1>6, <1>7, QuietLastRequest, QuietRowMoves

\* Imports and bulk updates find no request under way.
LEMMA QuietImportKeeps == QuietInv /\ Quiet!ImportBundle => QuietInv' /\ KeepsReviews
<1> SUFFICES ASSUME QuietInv, Quiet!ImportBundle PROVE QuietInv' /\ KeepsReviews
  OBVIOUS
<1> DEFINE v == finding.version + 1
           content == Quiet!Written(finding.content, {"text", "severity"}, v)
<1>1. /\ \A s \in QuietRequests : requests'[s] = Idle
      /\ DOMAIN requests' = QuietRequests
  BY DEF Quiet!ImportBundle, Quiet!MayStart, Quiet!Idle, Idle, QuietInv
<1>2. finding' = [finding EXCEPT !.version = v, !.content = content]
  BY DEF Quiet!ImportBundle, Quiet!NewVersion
<1>3. finding.content \in QuietContent /\ v \in Nat
  BY DEF QuietInv, QuietFinding
<1>4. /\ content \in QuietContent
      /\ \A f \in QuietFields : content.written[f] \in {v, finding.content.written[f]}
  BY <1>3, QuietWrites
<1> HIDE DEF content
<1> QED BY <1>1, <1>2, <1>4, QuietVersion, QuietRowMoves

\* A bulk update writes the severity anew, and decides about the row as it is.
LEMMA QuietBulkKeeps ==
    ASSUME QuietInv, NEW m \in QuietMembers, NEW edited \in BOOLEAN,
           NEW to \in FindingStatus \cup {finding.status}, Quiet!BulkUpdate(m, edited, to)
    PROVE  QuietInv' /\ KeepsReviews
<1> DEFINE v == finding.version + 1
           f == IF edited
                THEN [finding EXCEPT !.version = v,
                         !.content = Quiet!Written(finding.content, {"severity"}, v)]
                ELSE finding
<1>1. /\ finding \in QuietFinding /\ finding.version \in Nat /\ v \in Nat
      /\ finding.content \in QuietContent /\ to \in FindingStatus
  BY DEF QuietInv, QuietFinding
<1>2. /\ \A s \in QuietRequests : requests'[s] = Idle
      /\ DOMAIN requests' = QuietRequests
  BY DEF Quiet!BulkUpdate, Quiet!MayStart, Quiet!Idle, Idle, QuietInv
<1>3. /\ finding' = IF to = finding.status THEN f ELSE Quiet!Moved(f, f, m, to)
      /\ to # finding.status => Quiet!Permitted(f, m, to, FALSE)
  BY <1>1 DEF Quiet!BulkUpdate, QuietFinding
<1>4. Quiet!Written(finding.content, {"severity"}, v) \in QuietContent
  BY <1>1, QuietWrites
<1>5. /\ f \in QuietFinding /\ f.status = finding.status /\ f.reviewer = finding.reviewer
      /\ f.version = IF edited THEN v ELSE finding.version
      /\ f.content = IF edited THEN Quiet!Written(finding.content, {"severity"}, v)
                     ELSE finding.content
  BY <1>1, <1>4 DEF QuietFinding
<1> HIDE DEF f
<1>6. /\ finding' \in QuietFinding /\ finding'.status = to
      /\ finding'.version = f.version /\ finding'.content = f.content
      /\ to # finding.status /\ to = "qa_approved" =>
            finding'.reviewer = m /\ m # finding.reviewer
  BY <1>1, <1>3, <1>5, QuietMoves DEF Quiet!Permitted
<1>7. \A x \in QuietFields :
          /\ finding.content.written[x] \in Nat
          /\ finding.content.written[x] <= finding.version
          /\ f.content.written[x] \in {f.version, finding.content.written[x]}
  BY <1>1, <1>5, QuietWrites DEF QuietInv, WrittenInOrder, QuietFinding, QuietContent
<1>8. f.version \in Nat /\ f.version >= finding.version
  BY <1>1, <1>5
<1>9. WrittenInOrder(finding)' /\ KeepsReviews
  BY <1>1, <1>6, <1>7, <1>8 DEF WrittenInOrder, KeepsReviews
<1> QED BY <1>2, <1>6, <1>9, QuietRowMoves

\* Who decides a transition has read the row, and gives no second approval.
LEMMA QuietDecideKeeps ==
    ASSUME QuietInv, NEW r \in QuietRequests, NEW m \in QuietMembers, NEW to \in FindingStatus,
           NEW reason \in BOOLEAN, Quiet!BeginTransition(r, m, to, reason)
    PROVE  QuietInv' /\ KeepsReviews
<1> DEFINE reads == [kind |-> "transition", actor |-> m, to |-> to, reason |-> reason,
                     read |-> finding]
<1>1. Informed(reads)
  BY DEF Quiet!BeginTransition, Quiet!Permitted, Informed
<1> QED BY <1>1, QuietRequestMoves
        DEF Quiet!BeginTransition, Quiet!Begin, Quiet!MayStart, Quiet!Idle, Idle

\* Whoever reads knows the row as it is.
LEMMA QuietReadKeeps ==
    ASSUME QuietInv, NEW r \in QuietRequests,
           \/ Quiet!Abandon(r) \/ Quiet!OpenFinding(r) \/ Quiet!ReadForEdit(r)
           \/ Quiet!BeginTemplate(r) \/ Quiet!BeginEnrich(r)
    PROVE  QuietInv' /\ KeepsReviews
<1>1. CASE Quiet!Abandon(r)
  BY <1>1, QuietRequestMoves DEF Quiet!Abandon, Quiet!End, Quiet!Idle, Idle
<1>2. CASE Quiet!OpenFinding(r)
  BY <1>2, QuietRequestMoves
     DEF Quiet!OpenFinding, Quiet!Begin, Quiet!MayStart, Quiet!Idle, Idle, Informed
<1>3. CASE Quiet!ReadForEdit(r)
  <2>1. /\ requests[r] # Idle /\ requests[r].seen = finding.content
        /\ requests' = [requests EXCEPT ![r] =
                           [kind |-> "edit", seen |-> requests[r].seen, read |-> finding]]
        /\ finding' = finding
    BY <1>3 DEF Quiet!ReadForEdit, Idle, QuietInv, Informed
  <2> QED BY <2>1, QuietRequestMoves DEF Informed
<1>4. CASE Quiet!BeginTemplate(r) \/ Quiet!BeginEnrich(r)
  BY <1>4, QuietRequestMoves
     DEF Quiet!BeginTemplate, Quiet!BeginEnrich, Quiet!Begin, Quiet!MayStart, Quiet!Idle, Idle,
         Informed
<1> QED BY <1>1, <1>2, <1>3, <1>4

\* Every step of the quiet regime keeps its invariant, and its reviews.
LEMMA QuietKeeps == QuietInv /\ Quiet!WorkflowNext => QuietInv' /\ KeepsReviews
<1> SUFFICES ASSUME QuietInv, Quiet!WorkflowNext PROVE QuietInv' /\ KeepsReviews
  OBVIOUS
<1>1. CASE Quiet!CloseEngagement
  BY <1>1 DEF Quiet!CloseEngagement, QuietInv, WrittenInOrder, Informed, KeepsReviews,
     QuietFinding, QuietContent
<1>2. CASE Quiet!ImportBundle
  BY <1>2, QuietImportKeeps
<1>3. ASSUME NEW m \in QuietMembers, NEW edited \in BOOLEAN,
             NEW to \in FindingStatus \cup {finding.status}, Quiet!BulkUpdate(m, edited, to)
      PROVE  QuietInv' /\ KeepsReviews
  BY <1>3, QuietBulkKeeps
<1>4. ASSUME NEW r \in QuietRequests, NEW m \in QuietMembers, NEW to \in FindingStatus,
             NEW reason \in BOOLEAN, Quiet!BeginTransition(r, m, to, reason)
      PROVE  QuietInv' /\ KeepsReviews
  BY <1>4, QuietDecideKeeps
<1>5. ASSUME NEW r \in QuietRequests,
             \/ Quiet!Abandon(r) \/ Quiet!OpenFinding(r) \/ Quiet!ReadForEdit(r)
             \/ Quiet!BeginTemplate(r) \/ Quiet!BeginEnrich(r)
      PROVE  QuietInv' /\ KeepsReviews
  BY <1>5, QuietReadKeeps
<1>6. ASSUME NEW r \in QuietRequests,
             \/ Quiet!CommitTransition(r) \/ Quiet!CommitEdit(r) \/ Quiet!CommitTemplate(r)
             \/ Quiet!CommitEnrich(r)
      PROVE  QuietInv' /\ KeepsReviews
  BY <1>6, QuietTransitionKeeps, QuietEditKeeps, QuietEnrichKeeps
<1> QED BY <1>1, <1>2, <1>3, <1>4, <1>5, <1>6 DEF Quiet!WorkflowNext

\* The quiet regime keeps its invariant, and its reviews.
LEMMA RegimeKeepsReviews ==
    RegimesSpec => [][regime = "quiet" => KeepsReviews]_regimeVars
<1> DEFINE Inv == regime = "quiet" => QuietInv
           Kept == regime = "quiet" => KeepsReviews
<1>1. RegimesInit => Inv
  <2>1. ASSUME Quiet!WorkflowInit PROVE QuietInv
    <3>1. Quiet!FirstDraft \in QuietContent
          /\ \A f \in QuietFields : Quiet!FirstDraft.written[f] = 1
      BY DEF Quiet!FirstDraft, QuietContent, QuietFields
    <3>2. /\ finding.version = 1 /\ finding.content = Quiet!FirstDraft
          /\ finding \in QuietFinding
      BY <2>1, <3>1 DEF Quiet!WorkflowInit, Quiet!NewFinding, Quiet!None, None, QuietFinding,
         FindingStatus, Workflow
    <3>3. requests = [r \in QuietRequests |-> Idle]
      BY <2>1 DEF Quiet!WorkflowInit, Quiet!Idle, Idle
    <3> QED BY <3>1, <3>2, <3>3 DEF QuietInv, WrittenInOrder
  <2> QED BY <2>1 DEF RegimesInit
<1>2. Inv /\ [RegimesNext]_regimeVars => Inv' /\ Kept
  <2>1. CASE UNCHANGED regimeVars
    BY <2>1 DEF regimeVars, portalVars, workflowVars, QuietInv, WrittenInOrder, Informed,
       KeepsReviews, QuietFinding, QuietContent
  <2>2. CASE RegimesNext /\ regime = "quiet"
    BY <2>2, QuietKeeps DEF RegimesNext
  <2>3. CASE RegimesNext /\ regime # "quiet"
    BY <2>3 DEF RegimesNext
  <2> QED BY <2>1, <2>2, <2>3
<1> HIDE DEF Inv, Kept
<1>3. Inv /\ [RegimesNext]_regimeVars => [Kept]_regimeVars
  BY <1>2
<1>4. RegimesSpec => [][Kept]_regimeVars
  BY <1>1, <1>2, <1>3, PTL DEF RegimesSpec
<1> QED BY <1>4 DEF Kept

\* "QA must differ from reviewer", in the quiet regime of the run: with requests one at a
\* time nobody gives both approvals of one round, with or without an override.
THEOREM QuietQaIsByAnother == RegimesSpec => QuietQaByAnother
<1> DEFINE Kept == regime = "quiet" => KeepsReviews
           Another == regime = "quiet" /\ finding.status = "peer_reviewed"
                      /\ finding'.status = "qa_approved" => finding'.reviewer # finding.reviewer
<1>1. RegimesSpec => [][Kept]_regimeVars
  BY RegimeKeepsReviews
<1>2. [Kept]_regimeVars => [Another]_regimeVars
  BY DEF KeepsReviews
<1> HIDE DEF Kept, Another
<1>3. RegimesSpec => [][Another]_regimeVars
  BY <1>1, <1>2, PTL
<1> QED BY <1>3 DEF Another, QuietQaByAnother

-----------------------------------------------------------------------------
(* The types, in all three regimes of the run: those of the workflow are     *)
(* shown of each, with its own members, requests, fields and versions.      *)

\* The statuses are those of the module.
LEMMA QuietStatuses == Quiet!FindingStatus = FindingStatus
BY DEF Quiet!FindingStatus, FindingStatus, Quiet!Workflow, Workflow

\* What the types say of a request: what it read, saw and wants.
LEMMA QuietRequestFields ==
    ASSUME NEW q \in Quiet!Request
    PROVE  /\ q.kind \in Reading => q.read \in Quiet!Finding
           /\ q.kind \in {"open", "edit"} => q.seen \in Quiet!Contents
           /\ q.kind = "transition" => q.actor \in QuietMembers /\ q.to \in FindingStatus
<1>1. CASE q = Quiet!Idle
  BY <1>1 DEF Quiet!Idle, Reading
<1>2. CASE q \in [kind : {"transition"}, actor : QuietMembers, to : Quiet!FindingStatus,
                  reason : BOOLEAN, read : Quiet!Finding]
  BY <1>2, QuietStatuses
<1>3. CASE q \in [kind : {"open"}, seen : Quiet!Contents]
  BY <1>3 DEF Reading
<1>4. CASE q \in [kind : {"edit"}, seen : Quiet!Contents, read : Quiet!Finding]
  BY <1>4
<1>5. CASE q \in [kind : {"template", "enrich"}, read : Quiet!Finding]
  BY <1>5
<1> QED BY <1>1, <1>2, <1>3, <1>4, <1>5 DEF Quiet!Request

\* A content with parts written anew is a content.
LEMMA QuietWrittenTyped ==
    ASSUME NEW c \in Quiet!Contents, NEW fields, NEW v \in 1..MaxVersion
    PROVE  Quiet!Written(c, fields, v) \in Quiet!Contents
<1> DEFINE w == [f \in {"severity", "references"} |-> IF f \in fields THEN v ELSE c.written[f]]
<1>1. w \in Quiet!Content
  BY DEF Quiet!Contents, Quiet!Content
<1> HIDE DEF w
<1>2. Quiet!Written(c, fields, v) = [c EXCEPT !.written = w]
  BY DEF Quiet!Written, w
<1> QED BY <1>1, <1>2 DEF Quiet!Contents

\* A row that moves has its type.
LEMMA QuietMovedTyped ==
    ASSUME NEW now \in Quiet!Finding, NEW read \in Quiet!Finding, NEW m \in QuietMembers,
           NEW to \in FindingStatus
    PROVE  Quiet!Moved(now, read, m, to) \in Quiet!Finding
<1>1. read.version \in 0..MaxVersion
  BY WorkflowAssumption DEF Quiet!Finding
<1> QED BY <1>1, QuietStatuses DEF Quiet!Moved, Quiet!Finding

\* A request begins, goes on or ends.
LEMMA QuietRequestTyped ==
    ASSUME Quiet!WorkflowTypeOK, NEW r, NEW q \in Quiet!Request,
           requests' = [requests EXCEPT ![r] = q],
           UNCHANGED <<finding, snapshots, approval>>, writable' \in BOOLEAN
    PROVE  Quiet!WorkflowTypeOK'
BY DEF Quiet!WorkflowTypeOK

\* The row is written, with its snapshot.
LEMMA QuietRowTyped ==
    ASSUME Quiet!WorkflowTypeOK, finding' \in Quiet!Finding,
           requests' \in [QuietRequests -> Quiet!Request],
           \/ UNCHANGED snapshots
           \/ \E f \in Quiet!Finding : Quiet!Snapshot(f),
           approval' \in [content : Quiet!Contents, waived : BOOLEAN], UNCHANGED writable
    PROVE  Quiet!WorkflowTypeOK'
<1>1. ASSUME NEW f \in Quiet!Finding, Quiet!Snapshot(f)
      PROVE  /\ DOMAIN snapshots' \subseteq 1..MaxVersion
             /\ \A v \in DOMAIN snapshots' : snapshots'[v] \in Quiet!Contents
  <2>1. f.version \in 1..MaxVersion /\ f.content \in Quiet!Contents
    BY DEF Quiet!Finding
  <2> QED BY <1>1, <2>1 DEF Quiet!Snapshot, Quiet!WorkflowTypeOK
<1> QED BY <1>1 DEF Quiet!WorkflowTypeOK

\* A new version of a row that may still have one.
LEMMA QuietVersionTyped ==
    ASSUME Quiet!WorkflowTypeOK, NEW f \in Quiet!Finding, NEW content \in Quiet!Contents,
           Quiet!NewVersion(f, content), requests' \in [QuietRequests -> Quiet!Request],
           UNCHANGED <<writable, approval>>
    PROVE  Quiet!WorkflowTypeOK'
<1>1. finding' = [finding EXCEPT !.version = f.version + 1, !.content = content]
  BY DEF Quiet!NewVersion
<1>2. f.version + 1 \in 1..MaxVersion
  BY WorkflowAssumption DEF Quiet!NewVersion, Quiet!Finding
<1>3. finding' \in Quiet!Finding
  BY <1>1, <1>2 DEF Quiet!Finding, Quiet!WorkflowTypeOK
<1> QED BY <1>3, QuietRowTyped DEF Quiet!NewVersion, Quiet!WorkflowTypeOK

\* A committed request has read, and written, what the columns hold.
LEMMA QuietCommitTyped ==
    ASSUME Quiet!WorkflowTypeOK, NEW r \in QuietRequests,
           \/ Quiet!CommitTransition(r) \/ Quiet!CommitEdit(r) \/ Quiet!CommitTemplate(r)
    PROVE  Quiet!WorkflowTypeOK'
<1> DEFINE q == requests[r]
<1>1. /\ q \in Quiet!Request /\ Quiet!Idle \in Quiet!Request /\ finding \in Quiet!Finding
      /\ approval \in [content : Quiet!Contents, waived : BOOLEAN]
  BY DEF Quiet!WorkflowTypeOK, Quiet!Request
<1>2. requests' \in [QuietRequests -> Quiet!Request]
  BY <1>1 DEF Quiet!CommitTransition, Quiet!CommitEdit, Quiet!CommitTemplate, Quiet!End,
     Quiet!WorkflowTypeOK
<1> HIDE DEF q
<1>3. CASE Quiet!CommitTransition(r)
  <2>1. /\ q.kind = "transition" /\ finding' = Quiet!Moved(finding, q.read, q.actor, q.to)
        /\ Quiet!Recorded(finding, q.read, q.to) /\ UNCHANGED <<snapshots, writable>>
    BY <1>3 DEF Quiet!CommitTransition, q
  <2>2. q.read \in Quiet!Finding /\ q.actor \in QuietMembers /\ q.to \in FindingStatus
    BY <1>1, <2>1, QuietRequestFields DEF Reading
  <2>3. finding' \in Quiet!Finding
    BY <1>1, <2>1, <2>2, QuietMovedTyped
  <2>4. approval' \in [content : Quiet!Contents, waived : BOOLEAN]
    BY <1>1, <2>1 DEF Quiet!Recorded, Quiet!Finding
  <2> QED BY <1>2, <2>1, <2>3, <2>4, QuietRowTyped
<1>4. CASE Quiet!CommitEdit(r) \/ Quiet!CommitTemplate(r)
  <2>1. q.kind \in {"edit", "template"} /\ UNCHANGED <<writable, approval>>
    BY <1>4 DEF Quiet!CommitEdit, Quiet!CommitTemplate, q
  <2>2. q.read \in Quiet!Finding /\ (q.kind = "edit" => q.seen \in Quiet!Contents)
    BY <1>1, <2>1, QuietRequestFields DEF Reading
  <2>3. q.read.version < MaxVersion => q.read.version + 1 \in 1..MaxVersion
    BY <2>2, WorkflowAssumption DEF Quiet!Finding
  <2>4. \E content \in Quiet!Contents : Quiet!NewVersion(q.read, content)
    <3>1. CASE Quiet!CommitEdit(r)
      <4>1. PICK f \in {"severity", "references"} :
               Quiet!NewVersion(q.read, Quiet!Written(q.seen, {f}, q.read.version + 1))
        BY <3>1 DEF Quiet!CommitEdit, q
      <4>2. q.kind = "edit" /\ q.read.version < MaxVersion
        BY <3>1, <4>1 DEF Quiet!CommitEdit, Quiet!NewVersion, q
      <4> QED BY <2>2, <2>3, <4>1, <4>2, QuietWrittenTyped
    <3>2. CASE Quiet!CommitTemplate(r)
      <4> DEFINE new == q.read.version + 1
                 content == [written |-> [f \in {"severity", "references"} |-> new],
                             linked |-> FALSE]
      <4>1. Quiet!NewVersion(q.read, content)
        BY <3>2 DEF Quiet!CommitTemplate, q
      <4>2. content \in Quiet!Contents
        BY <2>3, <4>1 DEF Quiet!NewVersion, Quiet!Contents, Quiet!Content
      <4> QED BY <4>1, <4>2
    <3> QED BY <1>4, <3>1, <3>2
  <2> QED BY <1>2, <2>1, <2>2, <2>4, QuietVersionTyped
<1> QED BY <1>3, <1>4

\* So do bulk updates and imports.
LEMMA QuietBulkTyped ==
    ASSUME Quiet!WorkflowTypeOK, NEW m \in QuietMembers, NEW edited \in BOOLEAN,
           NEW to \in FindingStatus \cup {finding.status}, Quiet!BulkUpdate(m, edited, to)
    PROVE  Quiet!WorkflowTypeOK'
<1> DEFINE v == finding.version + 1
           f == IF edited
                THEN [finding EXCEPT !.version = v,
                         !.content = Quiet!Written(finding.content, {"severity"}, v)]
                ELSE finding
<1>1. /\ finding \in Quiet!Finding /\ finding.content \in Quiet!Contents /\ to \in FindingStatus
      /\ approval \in [content : Quiet!Contents, waived : BOOLEAN]
      /\ requests \in [QuietRequests -> Quiet!Request]
  BY QuietStatuses DEF Quiet!WorkflowTypeOK, Quiet!Finding
<1>2. /\ finding' = IF to = finding.status THEN f ELSE Quiet!Moved(f, f, m, to)
      /\ IF edited THEN Quiet!Snapshot(finding) ELSE UNCHANGED snapshots
      /\ IF to = finding.status THEN UNCHANGED approval ELSE Quiet!Recorded(f, f, to)
      /\ edited => finding.version < MaxVersion
      /\ UNCHANGED <<requests, writable>>
  BY <1>1 DEF Quiet!BulkUpdate, Quiet!Finding
<1>3. f \in Quiet!Finding
  <2>1. CASE edited
    <3>1. v \in 1..MaxVersion
      BY <1>1, <1>2, <2>1, WorkflowAssumption DEF Quiet!Finding
    <3>2. Quiet!Written(finding.content, {"severity"}, v) \in Quiet!Contents
      BY <1>1, <3>1, QuietWrittenTyped
    <3> QED BY <1>1, <2>1, <3>1, <3>2 DEF Quiet!Finding
  <2> QED BY <1>1, <2>1
<1> HIDE DEF f
<1>4. finding' \in Quiet!Finding
  BY <1>1, <1>2, <1>3, QuietMovedTyped
<1>5. approval' \in [content : Quiet!Contents, waived : BOOLEAN]
  <2>1. f.content \in Quiet!Contents
    BY <1>3 DEF Quiet!Finding
  <2>2. CASE to = finding.status
    BY <1>1, <1>2, <2>2
  <2>3. CASE to # finding.status
    <3>1. Quiet!Recorded(f, f, to)
      BY <1>2, <2>3
    <3> QED BY <1>1, <2>1, <3>1 DEF Quiet!Recorded
  <2> QED BY <2>2, <2>3
<1> QED BY <1>1, <1>2, <1>4, <1>5, QuietRowTyped

\* Every step of the regime keeps the types.
LEMMA QuietTyped ==
    ASSUME Quiet!WorkflowTypeOK, Quiet!WorkflowNext
    PROVE  Quiet!WorkflowTypeOK'
<1>0. /\ finding \in Quiet!Finding /\ Quiet!Idle \in Quiet!Request
      /\ requests \in [QuietRequests -> Quiet!Request] /\ writable \in BOOLEAN
      /\ finding.content \in Quiet!Contents
  BY DEF Quiet!WorkflowTypeOK, Quiet!Request, Quiet!Finding
<1>1. ASSUME NEW r \in QuietRequests, NEW m \in QuietMembers, NEW to \in FindingStatus,
             NEW reason \in BOOLEAN, Quiet!BeginTransition(r, m, to, reason)
      PROVE  Quiet!WorkflowTypeOK'
  <2>1. [kind |-> "transition", actor |-> m, to |-> to, reason |-> reason,
         read |-> finding] \in Quiet!Request
    BY <1>0, QuietStatuses DEF Quiet!Request
  <2> QED BY <1>0, <1>1, <2>1, QuietRequestTyped DEF Quiet!BeginTransition, Quiet!Begin
<1>2. ASSUME NEW r \in QuietRequests, Quiet!Abandon(r) \/ Quiet!OpenFinding(r)
      PROVE  Quiet!WorkflowTypeOK'
  <2>1. [kind |-> "open", seen |-> finding.content] \in Quiet!Request
    BY <1>0 DEF Quiet!Request
  <2> QED BY <1>0, <1>2, <2>1, QuietRequestTyped
          DEF Quiet!Abandon, Quiet!End, Quiet!OpenFinding, Quiet!Begin
<1>3. ASSUME NEW r \in QuietRequests, Quiet!ReadForEdit(r)
      PROVE  Quiet!WorkflowTypeOK'
  <2>1. requests[r].seen \in Quiet!Contents
    BY <1>0, <1>3, QuietRequestFields DEF Quiet!ReadForEdit
  <2>2. [kind |-> "edit", seen |-> requests[r].seen, read |-> finding] \in Quiet!Request
    BY <1>0, <2>1 DEF Quiet!Request
  <2> QED BY <1>0, <1>3, <2>2, QuietRequestTyped DEF Quiet!ReadForEdit
<1>4. ASSUME NEW r \in QuietRequests, Quiet!BeginTemplate(r) \/ Quiet!BeginEnrich(r)
      PROVE  Quiet!WorkflowTypeOK'
  <2>1. \A k \in {"template", "enrich"} : [kind |-> k, read |-> finding] \in Quiet!Request
    BY <1>0 DEF Quiet!Request
  <2> QED BY <1>0, <1>4, <2>1, QuietRequestTyped
          DEF Quiet!BeginTemplate, Quiet!BeginEnrich, Quiet!Begin
<1>5. ASSUME NEW r \in QuietRequests, Quiet!CommitEnrich(r)
      PROVE  Quiet!WorkflowTypeOK'
  <2> DEFINE old == finding.content
             seen == requests[r].read.content
             content == [old EXCEPT !.written["references"] = seen.written["references"],
                                    !.linked = TRUE]
  <2>1. seen \in Quiet!Contents
    BY <1>0, <1>5, QuietRequestFields DEF Quiet!CommitEnrich, Quiet!Finding, Reading
  <2>2. content \in Quiet!Contents
    BY <1>0, <2>1 DEF Quiet!Contents, Quiet!Content
  <2>3. finding' = [finding EXCEPT !.content = content]
    BY <1>0, <1>5 DEF Quiet!CommitEnrich, Quiet!Finding, Quiet!Contents, Quiet!Content
  <2> HIDE DEF content
  <2>4. finding' \in Quiet!Finding
    BY <1>0, <2>2, <2>3 DEF Quiet!Finding
  <2>5. requests' \in [QuietRequests -> Quiet!Request] /\ UNCHANGED <<snapshots, writable, approval>>
    BY <1>0, <1>5 DEF Quiet!CommitEnrich, Quiet!End
  <2> QED BY <2>4, <2>5, QuietRowTyped DEF Quiet!WorkflowTypeOK
<1>6. ASSUME NEW m \in QuietMembers, NEW edited \in BOOLEAN,
             NEW to \in FindingStatus \cup {finding.status}, Quiet!BulkUpdate(m, edited, to)
      PROVE  Quiet!WorkflowTypeOK'
  BY <1>6, QuietBulkTyped
<1>7. CASE Quiet!ImportBundle
  <2>1. finding.version < MaxVersion => finding.version + 1 \in 1..MaxVersion
    BY <1>0, WorkflowAssumption DEF Quiet!Finding
  <2>2. \E content \in Quiet!Contents : Quiet!NewVersion(finding, content)
    BY <1>0, <1>7, <2>1, QuietWrittenTyped DEF Quiet!ImportBundle, Quiet!NewVersion
  <2> QED BY <1>0, <1>7, <2>2, QuietVersionTyped DEF Quiet!ImportBundle
<1>8. CASE Quiet!CloseEngagement
  BY <1>8 DEF Quiet!CloseEngagement, Quiet!WorkflowTypeOK
<1> QED
  BY <1>1, <1>2, <1>3, <1>4, <1>5, <1>6, <1>7, <1>8, QuietCommitTyped, QuietStatuses
     DEF Quiet!WorkflowNext

\* A finding that was just created has the types.
LEMMA QuietInitTyped == Quiet!WorkflowInit => Quiet!WorkflowTypeOK
<1> SUFFICES ASSUME Quiet!WorkflowInit PROVE Quiet!WorkflowTypeOK
  OBVIOUS
<1>1. 1 \in 1..MaxVersion /\ 0 \in 0..MaxVersion /\ "draft" \in Quiet!FindingStatus
  BY WorkflowAssumption, QuietStatuses DEF FindingStatus, Workflow
<1>2. Quiet!FirstDraft \in Quiet!Contents
  BY <1>1 DEF Quiet!FirstDraft, Quiet!Contents, Quiet!Content
<1>3. Quiet!NewFinding \in Quiet!Finding
  BY <1>1, <1>2 DEF Quiet!NewFinding, Quiet!Finding
<1>4. Quiet!Idle \in Quiet!Request
  BY DEF Quiet!Request
<1> QED BY <1>1, <1>2, <1>3, <1>4 DEF Quiet!WorkflowInit, Quiet!WorkflowTypeOK

\* The statuses are those of the module, in review or not.
LEMMA HurriedStatuses ==
    Hurried!FindingStatus = FindingStatus /\ ReviewStatuses \subseteq FindingStatus
BY DEF Hurried!FindingStatus, FindingStatus, Hurried!Workflow, Workflow, ReviewStatuses

\* What the types say of a request: what it read, saw and wants.
LEMMA HurriedRequestFields ==
    ASSUME NEW q \in Hurried!Request
    PROVE  /\ q.kind \in Reading => q.read \in Hurried!Finding
           /\ q.kind \in {"open", "edit"} => q.seen \in Hurried!Contents
           /\ q.kind = "transition" => q.actor \in Members /\ q.to \in FindingStatus
<1>1. CASE q = Hurried!Idle
  BY <1>1 DEF Hurried!Idle, Reading
<1>2. CASE q \in [kind : {"transition"}, actor : Members, to : Hurried!FindingStatus,
                  reason : BOOLEAN, read : Hurried!Finding]
  BY <1>2, HurriedStatuses
<1>3. CASE q \in [kind : {"open"}, seen : Hurried!Contents]
  BY <1>3 DEF Reading
<1>4. CASE q \in [kind : {"edit"}, seen : Hurried!Contents, read : Hurried!Finding]
  BY <1>4
<1>5. CASE q \in [kind : {"template", "enrich"}, read : Hurried!Finding]
  BY <1>5
<1> QED BY <1>1, <1>2, <1>3, <1>4, <1>5 DEF Hurried!Request

\* A content with parts written anew is a content.
LEMMA HurriedWrittenTyped ==
    ASSUME NEW c \in Hurried!Contents, NEW fields, NEW v \in 1..3
    PROVE  Hurried!Written(c, fields, v) \in Hurried!Contents
<1> DEFINE w == [f \in Fields |-> IF f \in fields THEN v ELSE c.written[f]]
<1>1. w \in Hurried!Content
  BY DEF Hurried!Contents, Hurried!Content
<1> HIDE DEF w
<1>2. Hurried!Written(c, fields, v) = [c EXCEPT !.written = w]
  BY DEF Hurried!Written, w
<1> QED BY <1>1, <1>2 DEF Hurried!Contents

\* A row that moves has its type.
LEMMA HurriedMovedTyped ==
    ASSUME NEW now \in Hurried!Finding, NEW read \in Hurried!Finding, NEW m \in Members,
           NEW to \in FindingStatus
    PROVE  Hurried!Moved(now, read, m, to) \in Hurried!Finding
<1>1. read.version \in 0..3
  BY WorkflowAssumption DEF Hurried!Finding
<1> QED BY <1>1, HurriedStatuses DEF Hurried!Moved, Hurried!Finding

\* A request begins, goes on or ends.
LEMMA HurriedRequestTyped ==
    ASSUME Hurried!WorkflowTypeOK, NEW r, NEW q \in Hurried!Request,
           requests' = [requests EXCEPT ![r] = q],
           UNCHANGED <<finding, snapshots, approval>>, writable' \in BOOLEAN
    PROVE  Hurried!WorkflowTypeOK'
BY DEF Hurried!WorkflowTypeOK

\* The row is written, with its snapshot.
LEMMA HurriedRowTyped ==
    ASSUME Hurried!WorkflowTypeOK, finding' \in Hurried!Finding,
           requests' \in [Requests -> Hurried!Request],
           \/ UNCHANGED snapshots
           \/ \E f \in Hurried!Finding : Hurried!Snapshot(f),
           approval' \in [content : Hurried!Contents, waived : BOOLEAN], UNCHANGED writable
    PROVE  Hurried!WorkflowTypeOK'
<1>1. ASSUME NEW f \in Hurried!Finding, Hurried!Snapshot(f)
      PROVE  /\ DOMAIN snapshots' \subseteq 1..3
             /\ \A v \in DOMAIN snapshots' : snapshots'[v] \in Hurried!Contents
  <2>1. f.version \in 1..3 /\ f.content \in Hurried!Contents
    BY DEF Hurried!Finding
  <2> QED BY <1>1, <2>1 DEF Hurried!Snapshot, Hurried!WorkflowTypeOK
<1> QED BY <1>1 DEF Hurried!WorkflowTypeOK

\* A new version of a row that may still have one.
LEMMA HurriedVersionTyped ==
    ASSUME Hurried!WorkflowTypeOK, NEW f \in Hurried!Finding, NEW content \in Hurried!Contents,
           Hurried!NewVersion(f, content), requests' \in [Requests -> Hurried!Request],
           UNCHANGED <<writable, approval>>
    PROVE  Hurried!WorkflowTypeOK'
<1>1. finding' = [finding EXCEPT !.version = f.version + 1, !.content = content]
  BY DEF Hurried!NewVersion
<1>2. f.version + 1 \in 1..3
  BY WorkflowAssumption DEF Hurried!NewVersion, Hurried!Finding
<1>3. finding' \in Hurried!Finding
  BY <1>1, <1>2 DEF Hurried!Finding, Hurried!WorkflowTypeOK
<1> QED BY <1>3, HurriedRowTyped DEF Hurried!NewVersion, Hurried!WorkflowTypeOK

\* A committed request has read, and written, what the columns hold.
LEMMA HurriedCommitTyped ==
    ASSUME Hurried!WorkflowTypeOK, NEW r \in Requests,
           \/ Hurried!CommitTransition(r) \/ Hurried!CommitEdit(r) \/ Hurried!CommitTemplate(r)
    PROVE  Hurried!WorkflowTypeOK'
<1> DEFINE q == requests[r]
<1>1. /\ q \in Hurried!Request /\ Hurried!Idle \in Hurried!Request /\ finding \in Hurried!Finding
      /\ approval \in [content : Hurried!Contents, waived : BOOLEAN]
  BY DEF Hurried!WorkflowTypeOK, Hurried!Request
<1>2. requests' \in [Requests -> Hurried!Request]
  BY <1>1 DEF Hurried!CommitTransition, Hurried!CommitEdit, Hurried!CommitTemplate, Hurried!End,
     Hurried!WorkflowTypeOK
<1> HIDE DEF q
<1>3. CASE Hurried!CommitTransition(r)
  <2>1. /\ q.kind = "transition" /\ finding' = Hurried!Moved(finding, q.read, q.actor, q.to)
        /\ Hurried!Recorded(finding, q.read, q.to) /\ UNCHANGED <<snapshots, writable>>
    BY <1>3 DEF Hurried!CommitTransition, q
  <2>2. q.read \in Hurried!Finding /\ q.actor \in Members /\ q.to \in FindingStatus
    BY <1>1, <2>1, HurriedRequestFields DEF Reading
  <2>3. finding' \in Hurried!Finding
    BY <1>1, <2>1, <2>2, HurriedMovedTyped
  <2>4. approval' \in [content : Hurried!Contents, waived : BOOLEAN]
    BY <1>1, <2>1 DEF Hurried!Recorded, Hurried!Finding
  <2> QED BY <1>2, <2>1, <2>3, <2>4, HurriedRowTyped
<1>4. CASE Hurried!CommitEdit(r) \/ Hurried!CommitTemplate(r)
  <2>1. q.kind \in {"edit", "template"} /\ UNCHANGED <<writable, approval>>
    BY <1>4 DEF Hurried!CommitEdit, Hurried!CommitTemplate, q
  <2>2. q.read \in Hurried!Finding /\ (q.kind = "edit" => q.seen \in Hurried!Contents)
    BY <1>1, <2>1, HurriedRequestFields DEF Reading
  <2>3. q.read.version < 3 => q.read.version + 1 \in 1..3
    BY <2>2, WorkflowAssumption DEF Hurried!Finding
  <2>4. \E content \in Hurried!Contents : Hurried!NewVersion(q.read, content)
    <3>1. CASE Hurried!CommitEdit(r)
      <4>1. PICK f \in Fields :
               Hurried!NewVersion(q.read, Hurried!Written(q.seen, {f}, q.read.version + 1))
        BY <3>1 DEF Hurried!CommitEdit, q
      <4>2. q.kind = "edit" /\ q.read.version < 3
        BY <3>1, <4>1 DEF Hurried!CommitEdit, Hurried!NewVersion, q
      <4> QED BY <2>2, <2>3, <4>1, <4>2, HurriedWrittenTyped
    <3>2. CASE Hurried!CommitTemplate(r)
      <4> DEFINE content == [written |-> [f \in Fields |-> q.read.version + 1],
                             linked |-> FALSE]
      <4>1. Hurried!NewVersion(q.read, content)
        BY <3>2 DEF Hurried!CommitTemplate, q
      <4>2. content \in Hurried!Contents
        BY <2>3, <4>1 DEF Hurried!NewVersion, Hurried!Contents, Hurried!Content
      <4> QED BY <4>1, <4>2
    <3> QED BY <1>4, <3>1, <3>2
  <2> QED BY <1>2, <2>1, <2>2, <2>4, HurriedVersionTyped
<1> QED BY <1>3, <1>4

\* So do bulk updates and imports.
LEMMA HurriedBulkTyped ==
    ASSUME Hurried!WorkflowTypeOK, NEW m \in Members, NEW edited \in BOOLEAN,
           NEW to \in FindingStatus \cup {finding.status}, Hurried!BulkUpdate(m, edited, to)
    PROVE  Hurried!WorkflowTypeOK'
<1> DEFINE v == finding.version + 1
           f == IF edited
                THEN [finding EXCEPT !.version = v,
                         !.content = Hurried!Written(finding.content, {"severity"}, v)]
                ELSE finding
<1>1. /\ finding \in Hurried!Finding /\ finding.content \in Hurried!Contents /\ to \in FindingStatus
      /\ approval \in [content : Hurried!Contents, waived : BOOLEAN]
      /\ requests \in [Requests -> Hurried!Request]
  BY HurriedStatuses DEF Hurried!WorkflowTypeOK, Hurried!Finding
<1>2. /\ finding' = IF to = finding.status THEN f ELSE Hurried!Moved(f, f, m, to)
      /\ IF edited THEN Hurried!Snapshot(finding) ELSE UNCHANGED snapshots
      /\ IF to = finding.status THEN UNCHANGED approval ELSE Hurried!Recorded(f, f, to)
      /\ edited => finding.version < 3
      /\ UNCHANGED <<requests, writable>>
  BY <1>1 DEF Hurried!BulkUpdate, Hurried!Finding
<1>3. f \in Hurried!Finding
  <2>1. CASE edited
    <3>1. v \in 1..3
      BY <1>1, <1>2, <2>1, WorkflowAssumption DEF Hurried!Finding
    <3>2. Hurried!Written(finding.content, {"severity"}, v) \in Hurried!Contents
      BY <1>1, <3>1, HurriedWrittenTyped
    <3> QED BY <1>1, <2>1, <3>1, <3>2 DEF Hurried!Finding
  <2> QED BY <1>1, <2>1
<1> HIDE DEF f
<1>4. finding' \in Hurried!Finding
  BY <1>1, <1>2, <1>3, HurriedMovedTyped
<1>5. approval' \in [content : Hurried!Contents, waived : BOOLEAN]
  <2>1. f.content \in Hurried!Contents
    BY <1>3 DEF Hurried!Finding
  <2>2. CASE to = finding.status
    BY <1>1, <1>2, <2>2
  <2>3. CASE to # finding.status
    <3>1. Hurried!Recorded(f, f, to)
      BY <1>2, <2>3
    <3> QED BY <1>1, <2>1, <3>1 DEF Hurried!Recorded
  <2> QED BY <2>2, <2>3
<1> QED BY <1>1, <1>2, <1>4, <1>5, HurriedRowTyped

\* Every step of the regime keeps the types.
LEMMA HurriedTyped ==
    ASSUME Hurried!WorkflowTypeOK, Hurried!WorkflowNext
    PROVE  Hurried!WorkflowTypeOK'
<1>0. /\ finding \in Hurried!Finding /\ Hurried!Idle \in Hurried!Request
      /\ requests \in [Requests -> Hurried!Request] /\ writable \in BOOLEAN
      /\ finding.content \in Hurried!Contents
  BY DEF Hurried!WorkflowTypeOK, Hurried!Request, Hurried!Finding
<1>1. ASSUME NEW r \in Requests, NEW m \in Members, NEW to \in FindingStatus,
             NEW reason \in BOOLEAN, Hurried!BeginTransition(r, m, to, reason)
      PROVE  Hurried!WorkflowTypeOK'
  <2>1. [kind |-> "transition", actor |-> m, to |-> to, reason |-> reason,
         read |-> finding] \in Hurried!Request
    BY <1>0, HurriedStatuses DEF Hurried!Request
  <2> QED BY <1>0, <1>1, <2>1, HurriedRequestTyped DEF Hurried!BeginTransition, Hurried!Begin
<1>2. ASSUME NEW r \in Requests, Hurried!Abandon(r) \/ Hurried!OpenFinding(r)
      PROVE  Hurried!WorkflowTypeOK'
  <2>1. [kind |-> "open", seen |-> finding.content] \in Hurried!Request
    BY <1>0 DEF Hurried!Request
  <2> QED BY <1>0, <1>2, <2>1, HurriedRequestTyped
          DEF Hurried!Abandon, Hurried!End, Hurried!OpenFinding, Hurried!Begin
<1>3. ASSUME NEW r \in Requests, Hurried!ReadForEdit(r)
      PROVE  Hurried!WorkflowTypeOK'
  <2>1. requests[r].seen \in Hurried!Contents
    BY <1>0, <1>3, HurriedRequestFields DEF Hurried!ReadForEdit
  <2>2. [kind |-> "edit", seen |-> requests[r].seen, read |-> finding] \in Hurried!Request
    BY <1>0, <2>1 DEF Hurried!Request
  <2> QED BY <1>0, <1>3, <2>2, HurriedRequestTyped DEF Hurried!ReadForEdit
<1>4. ASSUME NEW r \in Requests, Hurried!BeginTemplate(r) \/ Hurried!BeginEnrich(r)
      PROVE  Hurried!WorkflowTypeOK'
  <2>1. \A k \in {"template", "enrich"} : [kind |-> k, read |-> finding] \in Hurried!Request
    BY <1>0 DEF Hurried!Request
  <2> QED BY <1>0, <1>4, <2>1, HurriedRequestTyped
          DEF Hurried!BeginTemplate, Hurried!BeginEnrich, Hurried!Begin
<1>5. ASSUME NEW r \in Requests, Hurried!CommitEnrich(r)
      PROVE  Hurried!WorkflowTypeOK'
  <2> DEFINE old == finding.content
             seen == requests[r].read.content
             content == [old EXCEPT !.written["references"] = seen.written["references"],
                                    !.linked = TRUE]
  <2>1. seen \in Hurried!Contents
    BY <1>0, <1>5, HurriedRequestFields DEF Hurried!CommitEnrich, Hurried!Finding, Reading
  <2>2. content \in Hurried!Contents
    BY <1>0, <2>1 DEF Hurried!Contents, Hurried!Content
  <2>3. finding' = [finding EXCEPT !.content = content]
    BY <1>0, <1>5 DEF Hurried!CommitEnrich, Hurried!Finding, Hurried!Contents, Hurried!Content
  <2> HIDE DEF content
  <2>4. finding' \in Hurried!Finding
    BY <1>0, <2>2, <2>3 DEF Hurried!Finding
  <2>5. requests' \in [Requests -> Hurried!Request] /\ UNCHANGED <<snapshots, writable, approval>>
    BY <1>0, <1>5 DEF Hurried!CommitEnrich, Hurried!End
  <2> QED BY <2>4, <2>5, HurriedRowTyped DEF Hurried!WorkflowTypeOK
<1>6. ASSUME NEW m \in Members, NEW edited \in BOOLEAN,
             NEW to \in FindingStatus \cup {finding.status}, Hurried!BulkUpdate(m, edited, to)
      PROVE  Hurried!WorkflowTypeOK'
  BY <1>6, HurriedBulkTyped
<1>7. CASE Hurried!ImportBundle
  <2>1. finding.version < 3 => finding.version + 1 \in 1..3
    BY <1>0, WorkflowAssumption DEF Hurried!Finding
  <2>2. \E content \in Hurried!Contents : Hurried!NewVersion(finding, content)
    BY <1>0, <1>7, <2>1, HurriedWrittenTyped DEF Hurried!ImportBundle, Hurried!NewVersion
  <2> QED BY <1>0, <1>7, <2>2, HurriedVersionTyped DEF Hurried!ImportBundle
<1>8. CASE Hurried!CloseEngagement
  BY <1>8 DEF Hurried!CloseEngagement, Hurried!WorkflowTypeOK
<1> QED
  BY <1>1, <1>2, <1>3, <1>4, <1>5, <1>6, <1>7, <1>8, HurriedCommitTyped, HurriedStatuses
     DEF Hurried!WorkflowNext

\* A finding that was just created has the types.
LEMMA HurriedInitTyped == Hurried!WorkflowInit => Hurried!WorkflowTypeOK
<1> SUFFICES ASSUME Hurried!WorkflowInit PROVE Hurried!WorkflowTypeOK
  OBVIOUS
<1>1. 1 \in 1..3 /\ 0 \in 0..3 /\ "draft" \in Hurried!FindingStatus
  BY WorkflowAssumption, HurriedStatuses DEF FindingStatus, Workflow
<1>2. Hurried!FirstDraft \in Hurried!Contents
  BY <1>1 DEF Hurried!FirstDraft, Hurried!Contents, Hurried!Content
<1>3. Hurried!NewFinding \in Hurried!Finding
  BY <1>1, <1>2 DEF Hurried!NewFinding, Hurried!Finding
<1>4. Hurried!Idle \in Hurried!Request
  BY DEF Hurried!Request
<1> QED BY <1>1, <1>2, <1>3, <1>4 DEF Hurried!WorkflowInit, Hurried!WorkflowTypeOK

\* In every regime of the run the row, its snapshots, the requests and the attempts have
\* the types of their columns, and no version is passed that there may be.
THEOREM RegimesTyped == RegimesSpec => []RegimesTypeOK
<1> DEFINE Typed == /\ regime \in {"portal", "quiet", "hurried"}
                    /\ regime = "quiet" => Quiet!WorkflowTypeOK
                    /\ regime = "hurried" => Hurried!WorkflowTypeOK
<1>1. RegimesInit => Typed
  BY QuietInitTyped, HurriedInitTyped DEF RegimesInit
<1>2. Typed /\ [RegimesNext]_regimeVars => Typed'
  <2> SUFFICES ASSUME Typed, [RegimesNext]_regimeVars PROVE Typed'
    OBVIOUS
  <2>1. CASE UNCHANGED regimeVars
    BY <2>1 DEF regimeVars, portalVars, workflowVars, Quiet!WorkflowTypeOK,
       Hurried!WorkflowTypeOK
  <2>2. CASE RegimesNext
    BY <2>2, QuietTyped, HurriedTyped DEF RegimesNext
  <2> QED BY <2>1, <2>2
<1>3. Typed /\ (regime = "portal" => PortalInv) => RegimesTypeOK
  BY DEF RegimesTypeOK, PortalInv
<1> HIDE DEF Typed
<1> QED BY <1>1, <1>2, <1>3, RegimeKeepsPortal, PTL DEF RegimesSpec
=============================================================================
