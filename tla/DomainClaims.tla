----------------------------- MODULE DomainClaims ----------------------------
(***************************************************************************)
(* The domains organisations claim and verify:                             *)
(* src/server/services/domain-verification.ts, beside the actions of       *)
(* src/server/actions/security.ts that rewrite the policy they are kept in.*)
(*                                                                         *)
(* The policy of an organisation is one JSON column.  Every writer locks   *)
(* its row, reads the whole column and writes the whole column, so a       *)
(* request in stage "locked", "claiming" or "settings" holds the row of    *)
(* its organisation; in "claiming" it also holds the advisory lock of its  *)
(* domain.  The locks go when the transaction commits or dies.             *)
(***************************************************************************)
EXTENDS Naturals, FiniteSets

CONSTANTS
    Orgs,
    Domains,
    Claims,         \* requests of administrators that take several steps
    Tokens          \* the random tokens that are drawn

VARIABLES
    policy,         \* scimDomains of each organisation
    drawn,          \* tokens that were handed out
    dns,            \* TXT records: domain and token
    found,          \* records a look-up has seen
    claims          \* requests under way, with what they have read

domainVars == <<policy, drawn, dns, found, claims>>

Record == [domain : Domains, token : Tokens]
Entry == [domain : Domains, token : Tokens, verified : BOOLEAN]
Idle == [stage |-> "idle"]

DomainInit ==
    /\ policy = [o \in Orgs |-> {}]
    /\ drawn = {} /\ dns = {} /\ found = {}
    /\ claims = [c \in Claims |-> Idle]

DomainTypeOK ==
    /\ policy \in [Orgs -> SUBSET Entry]
    /\ drawn \subseteq Tokens /\ dns \subseteq Record /\ found \subseteq Record
    /\ claims \in [Claims ->
          {Idle}
          \cup [stage : {"asking", "found"}, org : Orgs, entry : Record]
          \cup [stage : {"locked", "claiming"}, org : Orgs, entry : Record, read : SUBSET Entry]
          \cup [stage : {"settings"}, org : Orgs, read : SUBSET Entry]]

-----------------------------------------------------------------------------
Verified(o, d) == \E e \in policy[o] : e.domain = d /\ e.verified

HoldsRow(c, o) == claims[c].stage \in {"locked", "claiming", "settings"} /\ claims[c].org = o
RowFree(o) == \A c \in Claims : ~HoldsRow(c, o)

\* pg_advisory_xact_lock of the domain.  Variant: nothing is locked.
Unlocked(d) == TRUE
DomainFree(d) ==
    \A c \in Claims : claims[c].stage = "claiming" => claims[c].entry.domain # d

-----------------------------------------------------------------------------
AddDomain(o, d, t) ==
    /\ RowFree(o)
    /\ \A e \in policy[o] : e.domain # d
    /\ t \notin drawn
    /\ drawn' = drawn \cup {t}
    /\ policy' = [policy EXCEPT ![o] = @ \cup {[domain |-> d, token |-> t, verified |-> FALSE]}]
    /\ UNCHANGED <<dns, found, claims>>

RemoveDomain(o, d) ==
    /\ RowFree(o)
    /\ \E e \in policy[o] : e.domain = d
    /\ policy' = [policy EXCEPT ![o] = {e \in @ : e.domain # d}]
    /\ UNCHANGED <<drawn, dns, found, claims>>

\* verifyScimDomain: the entry is read without a lock, and the name server asked.
BeginVerification(c, o) ==
    /\ claims[c] = Idle
    /\ \E e \in policy[o] :
          /\ ~e.verified
          /\ claims' = [claims EXCEPT ![c] =
                [stage |-> "asking", org |-> o,
                 entry |-> [domain |-> e.domain, token |-> e.token]]]
    /\ UNCHANGED <<policy, drawn, dns, found>>

AskNameServer(c) ==
    /\ claims[c].stage = "asking" /\ claims[c].entry \in dns
    /\ found' = found \cup {claims[c].entry}
    /\ claims' = [claims EXCEPT ![c].stage = "found"]
    /\ UNCHANGED <<policy, drawn, dns>>

\* The entry must still be there.
SameEntry(e, r) == e.domain = r.domain /\ e.token = r.token

LockPolicy(c) ==
    LET q == claims[c] IN
    /\ q.stage = "found" /\ RowFree(q.org)
    /\ \E e \in policy[q.org] : SameEntry(e, q.entry)
    /\ claims' = [claims EXCEPT ![c] =
          [stage |-> "locked", org |-> q.org, entry |-> q.entry, read |-> policy[q.org]]]
    /\ UNCHANGED <<policy, drawn, dns, found>>

\* No other organisation may have verified it.
LockDomain(c) ==
    LET q == claims[c] IN
    /\ q.stage = "locked" /\ DomainFree(q.entry.domain)
    /\ \A o \in Orgs \ {q.org} : ~Verified(o, q.entry.domain)
    /\ claims' = [claims EXCEPT ![c].stage = "claiming"]
    /\ UNCHANGED <<policy, drawn, dns, found>>

CommitVerification(c) ==
    LET q == claims[c]
        WithVerified == {IF SameEntry(e, q.entry) THEN [e EXCEPT !.verified = TRUE] ELSE e :
                            e \in q.read} IN
    /\ q.stage = "claiming"
    /\ policy' = [policy EXCEPT ![q.org] = WithVerified]
    /\ claims' = [claims EXCEPT ![c] = Idle]
    /\ UNCHANGED <<drawn, dns, found>>

\* saveMfaPolicyAction and saveSsoPolicyAction.
BeginSettings(c, o) ==
    /\ claims[c] = Idle /\ RowFree(o)
    /\ claims' = [claims EXCEPT ![c] = [stage |-> "settings", org |-> o, read |-> policy[o]]]
    /\ UNCHANGED <<policy, drawn, dns, found>>

CommitSettings(c) ==
    LET q == claims[c] IN
    /\ q.stage = "settings"
    /\ policy' = [policy EXCEPT ![q.org] = q.read]
    /\ claims' = [claims EXCEPT ![c] = Idle]
    /\ UNCHANGED <<drawn, dns, found>>

\* A check fails, or the process dies.
ClaimEnds(c) ==
    /\ claims[c] # Idle
    /\ claims' = [claims EXCEPT ![c] = Idle]
    /\ UNCHANGED <<policy, drawn, dns, found>>

\* The owner of a domain publishes the token that was handed out, or takes it back.
Publish(o) ==
    /\ \E e \in policy[o] :
          LET r == [domain |-> e.domain, token |-> e.token] IN
          dns' = IF r \in dns THEN dns \ {r} ELSE dns \cup {r}
    /\ UNCHANGED <<policy, drawn, found, claims>>

DomainNext ==
    \/ \E o \in Orgs :
          \/ \E d \in Domains : RemoveDomain(o, d) \/ \E t \in Tokens : AddDomain(o, d, t)
          \/ \E c \in Claims : BeginVerification(c, o) \/ BeginSettings(c, o)
          \/ Publish(o)
    \/ \E c \in Claims :
          \/ AskNameServer(c) \/ LockPolicy(c) \/ LockDomain(c) \/ CommitVerification(c)
          \/ CommitSettings(c) \/ ClaimEnds(c)

DomainSpec == DomainInit /\ [][DomainNext]_domainVars

-----------------------------------------------------------------------------
\* A domain is verified by one organisation at most.
OneVerifier ==
    \A o, p \in Orgs, d \in Domains : Verified(o, d) /\ Verified(p, d) => o = p

\* What is verified was proved: the very token of the entry was found in the domain's
\* records.
ProvedBeforeVerified ==
    \A o \in Orgs : \A e \in policy[o] :
        e.verified => [domain |-> e.domain, token |-> e.token] \in found

\* Both, whichever requests overlap on whichever policies.
DomainsAreProved == OneVerifier /\ ProvedBeforeVerified

\* What the locks keep true (see OrganisationProofs).
HolderInv(c) ==
    /\ \A o \in Orgs : HoldsRow(c, o) =>
          /\ claims[c].read = policy[o]
          /\ \A b \in Claims : HoldsRow(b, o) => b = c
    /\ claims[c].stage \in {"found", "locked", "claiming"} => claims[c].entry \in found
    /\ claims[c].stage = "claiming" =>
          /\ \A o \in Orgs \ {claims[c].org} : ~Verified(o, claims[c].entry.domain)
          /\ \A b \in Claims : claims[b].stage = "claiming" /\
                claims[b].entry.domain = claims[c].entry.domain => b = c

DomainInv ==
    /\ OneVerifier
    /\ ProvedBeforeVerified
    /\ \A c \in Claims : HolderInv(c)
=============================================================================
