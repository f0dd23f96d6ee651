----------------------------- MODULE ScannerImport ---------------------------
(***************************************************************************)
(* Findings out of a scanner's report: previewScannerImport and            *)
(* applyScannerImport of src/server/services/data-exchange.ts, for one     *)
(* engagement.                                                             *)
(*                                                                         *)
(* A preview looks for what is there already, in a transaction of its own; *)
(* the application of a run is one transaction that locks the run.  Rows a *)
(* transaction has inserted are held in its run until it commits: others   *)
(* do not see them, but a unique index makes them wait for them.  Of two   *)
(* that wait for each other the database ends one (GiveUp).                *)
(***************************************************************************)
EXTENDS Naturals, FiniteSets, Sequences

CONSTANTS
    Runs,
    Fingerprints,
    Identifier,     \* importIdentifier: a fingerprint, cut short
    Asset,          \* the host an item names
    Batches         \* what scanners report: sequences of fingerprints

ASSUME ImportAssumption ==
    /\ Fingerprints \subseteq DOMAIN Identifier /\ Fingerprints \subseteq DOMAIN Asset
    /\ Batches \subseteq Seq(Fingerprints)

VARIABLES
    findings,       \* committed rows; each knows the run that made it
    assets,         \* identifiers of committed rows
    runs,           \* import_runs with their items, and the transactions on them
    writable        \* isEngagementWritable

importVars == <<findings, assets, runs, writable>>

Row == [fingerprint : Fingerprints, run : Runs, live : BOOLEAN]
NoRun == [stage |-> "none"]
Positions(r) == DOMAIN runs[r].batch
Id(r, n) == Identifier[runs[r].batch[n]]

ImportInit ==
    /\ findings = {} /\ assets = {}
    /\ runs = [r \in Runs |-> NoRun]
    /\ writable = TRUE

ImportTypeOK ==
    /\ findings \subseteq Row
    /\ assets \subseteq {Asset[f] : f \in Fingerprints}
    /\ writable \in BOOLEAN
    /\ \A r \in Runs :
        \/ runs[r] = NoRun
        \/ runs[r].stage = "stored" /\ runs[r].batch \in Batches
        \/ /\ runs[r].stage \in {"read", "previewed", "applying", "applied"}
           /\ runs[r].batch \in Batches
           /\ runs[r].creates \cup runs[r].chosen \cup runs[r].todo \subseteq Positions(r)
           /\ runs[r].made \subseteq runs[r].chosen
           /\ runs[r].fresh \subseteq {Asset[f] : f \in Fingerprints}
           /\ runs[r].at \in Positions(r) \cup {0}

-----------------------------------------------------------------------------
(* The preview                                                              *)

\* The report is stored as evidence before anything is read.
StoreReport(r, batch) ==
    /\ writable /\ runs[r] = NoRun
    /\ runs' = [runs EXCEPT ![r] = [stage |-> "stored", batch |-> batch]]
    /\ UNCHANGED <<findings, assets, writable>>

\* Of live findings the fingerprint counts, of deleted ones only the identifier.
Known(batch) ==
    LET prints == {batch[n] : n \in DOMAIN batch}
        ids == {Identifier[f] : f \in prints} IN
    {Identifier[row.fingerprint] : row \in
        {x \in findings : (x.live /\ x.fingerprint \in prints) \/ Identifier[x.fingerprint] \in ids}}

Creates(batch) ==
    {n \in DOMAIN batch :
        /\ Identifier[batch[n]] \notin Known(batch)
        /\ \A m \in 1..(n - 1) : Identifier[batch[m]] # Identifier[batch[n]]}

LookForDuplicates(r) ==
    /\ runs[r].stage = "stored"
    /\ runs' = [runs EXCEPT ![r] =
          [stage |-> "read", batch |-> @.batch, creates |-> Creates(@.batch),
           chosen |-> {}, todo |-> {}, made |-> {}, fresh |-> {}, at |-> 0]]
    /\ UNCHANGED <<findings, assets, writable>>

InsertRun(r) ==
    /\ runs[r].stage = "read"
    /\ runs' = [runs EXCEPT ![r].stage = "previewed"]
    /\ UNCHANGED <<findings, assets, writable>>

-----------------------------------------------------------------------------
(* The application                                                          *)

\* Under the lock of the run its status is asked again.  The user may choose among the
\* items that were to be created.
BeginApply(r) ==
    /\ runs[r].stage = "previewed" /\ writable
    /\ \E chosen \in SUBSET runs[r].creates :
          runs' = [runs EXCEPT ![r] =
              [@ EXCEPT !.stage = "applying", !.chosen = chosen, !.todo = chosen, !.made = {}]]
    /\ UNCHANGED <<findings, assets, writable>>

Taken(id) == \E row \in findings : Identifier[row.fingerprint] = id
HeldElsewhere(r, id) ==
    \E q \in Runs \ {r} : runs[q].stage = "applying" /\ \E n \in runs[q].made : Id(q, n) = id
AssetHeldElsewhere(r, a) == \E q \in Runs \ {r} : runs[q].stage = "applying" /\ a \in runs[q].fresh

\* The items come in any order.  One whose identifier is taken is skipped.
SkipItem(r, n) ==
    /\ runs[r].stage = "applying" /\ runs[r].at = 0 /\ n \in runs[r].todo
    /\ Taken(Id(r, n))
    /\ runs' = [runs EXCEPT ![r].todo = @ \ {n}]
    /\ UNCHANGED <<findings, assets, writable>>

\* Of the others, the asset is found or made.
PrepareItem(r, n) ==
    LET a == Asset[runs[r].batch[n]] IN
    /\ runs[r].stage = "applying" /\ runs[r].at = 0 /\ n \in runs[r].todo
    /\ ~Taken(Id(r, n))
    /\ ~AssetHeldElsewhere(r, a)
    /\ runs' = [runs EXCEPT ![r].at = n, ![r].fresh = IF a \in assets THEN @ ELSE @ \cup {a}]
    /\ UNCHANGED <<findings, assets, writable>>

\* findings_engagement_identifier_uq, with onConflictDoNothing.  Variant: no index.
InsertsAnyway(id) == FALSE
Conflicts(id) == Taken(id)

InsertItem(r) ==
    LET n == runs[r].at IN
    /\ runs[r].stage = "applying" /\ n # 0
    /\ ~HeldElsewhere(r, Id(r, n))
    /\ runs' = [runs EXCEPT ![r].at = 0, ![r].todo = @ \ {n},
                            ![r].made = IF Conflicts(Id(r, n)) THEN @ ELSE @ \cup {n}]
    /\ UNCHANGED <<findings, assets, writable>>

CommitApply(r) ==
    /\ runs[r].stage = "applying" /\ runs[r].todo = {}
    /\ findings' = findings \cup
          {[fingerprint |-> runs[r].batch[n], run |-> r, live |-> TRUE] : n \in runs[r].made}
    /\ assets' = assets \cup runs[r].fresh
    /\ runs' = [runs EXCEPT ![r] = [@ EXCEPT !.stage = "applied", !.fresh = {}]]
    /\ UNCHANGED writable

\* A check fails, the database ends a transaction, or the process dies.
GiveUp(r) ==
    /\ \/ /\ runs[r].stage \in {"stored", "read"}
          /\ runs' = [runs EXCEPT ![r] = NoRun]
       \/ /\ runs[r].stage = "applying"
          /\ runs' = [runs EXCEPT ![r] =
                [@ EXCEPT !.stage = "previewed", !.chosen = {}, !.todo = {}, !.made = {},
                          !.fresh = {}, !.at = 0]]
    /\ UNCHANGED <<findings, assets, writable>>

-----------------------------------------------------------------------------
\* The retention job deletes a finding, and the import of a bundle brings it back.
DeleteOrRevive(row) ==
    /\ findings' = (findings \ {row}) \cup {[row EXCEPT !.live = ~@]}
    /\ UNCHANGED <<assets, runs, writable>>

CloseEngagement ==
    /\ writable /\ writable' = FALSE
    /\ UNCHANGED <<findings, assets, runs>>

ImportNext ==
    \/ \E r \in Runs :
          \/ \E batch \in Batches : StoreReport(r, batch)
          \/ LookForDuplicates(r) \/ InsertRun(r)
          \/ BeginApply(r)
          \/ runs[r].stage = "applying" /\ \E n \in runs[r].todo : SkipItem(r, n) \/ PrepareItem(r, n)
          \/ InsertItem(r) \/ CommitApply(r) \/ GiveUp(r)
    \/ \E row \in findings : DeleteOrRevive(row)
    \/ CloseEngagement

ImportSpec == ImportInit /\ [][ImportNext]_importVars

-----------------------------------------------------------------------------
\* However previews and applications overlap, an identifier has one finding.
OneFindingPerIdentifier ==
    \A x, y \in findings :
        Identifier[x.fingerprint] = Identifier[y.fingerprint] => x = y

\* A run has made what it says it has, all of it or nothing, and what its user chose is
\* there, from this run or another one.
RunsAddUp ==
    \A r \in Runs :
        LET rows == {x \in findings : x.run = r} IN
        IF runs[r].stage # "applied" THEN rows = {}
        ELSE /\ Cardinality(rows) = Cardinality(runs[r].made)
             /\ \A n \in runs[r].chosen : Taken(Id(r, n))

ImportsAddUp == OneFindingPerIdentifier /\ RunsAddUp
=============================================================================
