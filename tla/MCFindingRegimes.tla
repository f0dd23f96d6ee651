-------------------------- MODULE MCFindingRegimes --------------------------
(* A finding in three regimes, checked in one run: the quiet one, where      *)
(* requests come one at a time, some may override the workflow, references   *)
(* are enriched and the engagement is archived; the hurried one, where two   *)
(* requests overtake each other; and that of RetestPortal, where the finding *)
(* is published and its client takes part.                                   *)
EXTENDS RetestPortal, TLC

CONSTANTS QuietMembers, QuietOverriders, QuietRequests
VARIABLE regime

regimeVars == <<portalVars, regime>>

ReviewStatuses ==
    {"in_progress", "ready_for_review", "changes_requested", "peer_reviewed",
     "qa_approved", "published"}

Quiet == INSTANCE FindingWorkflow
         WITH Members <- QuietMembers, Overriders <- QuietOverriders,
              Requests <- QuietRequests, Fields <- {"severity", "references"},
              Targets <- FindingStatus, Overlap <- FALSE, Events <- {"close", "enrich"}

Hurried == INSTANCE FindingWorkflow
           WITH Targets <- ReviewStatuses, MaxVersion <- 3, Events <- {}

PortalAsleep == <<trail, attempts, report>>

RegimesInit ==
    \/ regime = "portal" /\ PortalInit
    \/ /\ \/ regime = "quiet" /\ Quiet!WorkflowInit
          \/ regime = "hurried" /\ Hurried!WorkflowInit
       /\ trail = "published" /\ report = "published"
       /\ attempts = [a \in Attempts |-> NoAttempt]

\* A bound of the hurried regime: a third version is written of drafts only, and they
\* are not submitted then.
DraftsOnly == finding'.version < 3 \/ finding'.status = "draft"

RegimesNext ==
    /\ \/ regime = "portal" /\ PortalNext
       \/ regime = "quiet" /\ Quiet!WorkflowNext /\ UNCHANGED PortalAsleep
       \/ regime = "hurried" /\ Hurried!WorkflowNext /\ DraftsOnly /\ UNCHANGED PortalAsleep
    /\ UNCHANGED regime

RegimesSpec == RegimesInit /\ [][RegimesNext]_regimeVars

FindingSymmetry ==
    Permutations(Requests) \cup Permutations(Attempts) \cup
    {p \in Permutations(Members) :
        p[Author] = Author /\ \A m \in Testers : p[m] \in Testers}

-----------------------------------------------------------------------------
\* The row, its snapshots, the requests and the attempts have the types of their columns.
RegimesTypeOK ==
    CASE regime = "portal" -> PortalTypeOK
      [] regime = "quiet" -> Quiet!WorkflowTypeOK
      [] regime = "hurried" -> Hurried!WorkflowTypeOK

\* With requests one at a time nobody gives both approvals of one round.
QuietQaByAnother ==
    [][regime = "quiet" /\ finding.status = "peer_reviewed" /\ finding'.status = "qa_approved" =>
          finding'.reviewer # finding.reviewer]_regimeVars

\* However requests overlap, and with no enrichment, the content changes only
\* while it is being written.
HurriedContentIsFrozen ==
    [][regime = "hurried" /\ finding'.content # finding.content =>
          finding.status \in Editable]_regimeVars

\* What client, testers and retests do to a published finding together leaves no gap in
\* the transitions on record.
PortalTrailConnects == regime = "portal" => TrailIsConnected

\* However they overlap, each completed retest made one version, and the API opens no
\* second attempt beside another of its own.
PortalRetestsSerialise == regime = "portal" => OneVersionPerRetest /\ ApiOpensOne
=============================================================================
