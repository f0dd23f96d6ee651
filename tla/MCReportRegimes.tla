-------------------------- MODULE MCReportRegimes ---------------------------
(* ReportLifecycle in two regimes, checked in one run: the quiet one, where *)
(* the requests of members come one at a time, but those of portal contacts *)
(* take as long as they like and renders are tried again; and the hurried   *)
(* one, where members overtake each other and crashes, failing statements   *)
(* and the retention job get in the way.                                    *)
EXTENDS ReportLifecycle, TLC

CONSTANT HurriedJobs
VARIABLE quiet

Hurried == INSTANCE ReportLifecycle
           WITH Jobs <- HurriedJobs, MaxAttempts <- 2, Clients <- {}, Slow <- Users,
                Events <- {"crash", "dberror", "retention", "archive"}

RegimesInit == (quiet = TRUE /\ Init) \/ (quiet = FALSE /\ Hurried!Init)

\* A bound of the quiet regime: there is a second render job only while no portal contact
\* keeps others waiting, or has done so too long, and while the engagement is open.
OneJob == Cardinality({j \in Jobs : status'[j] # "absent"}) <= 1
Prompt == ~late' /\ \A c \in Clients : request[c] # NoRequest => request'[c] = NoRequest
Bounded == OneJob \/ (Prompt /\ writable')

RegimesNext ==
    /\ (quiet /\ Next /\ Bounded) \/ (~quiet /\ Hurried!Next)
    /\ UNCHANGED quiet
RegimesSpec == RegimesInit /\ [][RegimesNext]_<<vars, quiet>>

ReportSymmetry == Permutations(Users) \cup Permutations(Jobs)

-----------------------------------------------------------------------------
\* The rows and the handlers' memory have the types of their columns.
RegimesTypeOK == IF quiet THEN TypeOK ELSE Hurried!TypeOK

\* With members' requests one at a time a report and its version agree on the status,
\* until a portal approval comes after the review it has read.
QuietStatusAgreement == quiet => StatusAgreement

\* Until then no author gives QA approval, and no QA approver the final one.
QuietFourEyes == quiet => FourEyes

\* Until then what is approved or published is what QA has seen.
QuietQaSawContent == quiet => QaSawContent

\* In both regimes completed exports show the version's content, unless a job was tried
\* again; and no version waits for exports that nobody will write, but for a dead letter
\* where workers die or statements fail.
RegimesExportsInStep == IF quiet THEN ExportsInStep ELSE Hurried!ExportsInStep

\* What is published keeps its exports and approvals but for retries and the portal, with
\* members' requests one at a time; its content never changes, and a closed engagement's
\* report stays as it is, in both regimes.
FrozenStaysFrozen ==
    [][/\ quiet => \A v \in VersionNo : FrozenKept(v)
       /\ \A v \in VersionNo : ContentKept(v)
       /\ ~writable => ClosedKept]_<<vars, quiet>>
=============================================================================
