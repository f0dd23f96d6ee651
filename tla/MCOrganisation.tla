---------------------------- MODULE MCOrganisation ---------------------------
(* Parts that share no state, checked in one run: who may enter an           *)
(* organisation (one request after another, and requests that overlap), how  *)
(* its identity provider signs members in, which domains it has verified,    *)
(* the scope of an engagement, the findings imported into it, and the        *)
(* licence of the containers that run the program.  Each behaviour moves one *)
(* part; the others stay as they are at first.                               *)
EXTENDS MemberAccess, SamlSignIn, DomainClaims, EngagementScope, ScannerImport,
        ReplicaLicence, TLC

VARIABLE part

allVars == <<accessVars, samlVars, domainVars, scopeVars, importVars, licenceVars, part>>

\* Three fingerprints, of which two are cut to one identifier.
IdentifierOf == [f \in Fingerprints |-> IF f = "f3" THEN "i2" ELSE "i1"]
AssetOf == [f \in Fingerprints |-> IF f = "f2" THEN "h2" ELSE "h1"]
Reports == {<<"f1", "f3">>, <<"f2", "f3">>, <<"f1", "f1">>}

OrganisationInit ==
    /\ part \in {"members", "overlap", "signin", "domains", "scope", "imports", "licence"}
    /\ AccessInit /\ SamlInit /\ DomainInit /\ ScopeInit /\ ImportInit /\ LicenceInit
    /\ part # "scope" => engagement.status = "proposed"

\* Bounds of the part in which requests overlap: one session at a time, no invitation
\* and no administrator.  The part "members" has these, one request after another.
Narrow ==
    /\ Cardinality(sessions) <= 1
    /\ \A u \in Members : member[u].role # "administrator"

OrganisationNext ==
    /\ \/ /\ part \in {"members", "overlap"} /\ AccessNext
          /\ part = "members" => Cardinality(pending') <= 1
          /\ part = "overlap" => Narrow' /\ UNCHANGED invitations
          /\ UNCHANGED <<samlVars, domainVars, scopeVars, importVars, licenceVars>>
       \/ /\ part = "signin" /\ SamlNext
          /\ UNCHANGED <<accessVars, domainVars, scopeVars, importVars, licenceVars>>
       \/ /\ part = "domains" /\ DomainNext
          /\ UNCHANGED <<accessVars, samlVars, scopeVars, importVars, licenceVars>>
       \/ /\ part = "scope" /\ ScopeNext
          /\ UNCHANGED <<accessVars, samlVars, domainVars, importVars, licenceVars>>
       \/ /\ part = "imports" /\ ImportNext
          /\ UNCHANGED <<accessVars, samlVars, domainVars, scopeVars, licenceVars>>
       \/ /\ part = "licence" /\ LicenceNext
          /\ UNCHANGED <<accessVars, samlVars, domainVars, scopeVars, importVars>>
    /\ UNCHANGED part

OrganisationSpec == OrganisationInit /\ [][OrganisationNext]_allVars

OrganisationSymmetry == Permutations(Browsers) \cup Permutations(Edits)

-----------------------------------------------------------------------------
\* The rows, cookies, posts, requests and seats of every part have the types of their
\* columns.
OrganisationTypeOK ==
    CASE part \in {"members", "overlap"} -> AccessTypeOK
      [] part = "signin" -> SamlTypeOK
      [] part = "domains" -> DomainTypeOK
      [] part = "scope" -> ScopeTypeOK
      [] part = "imports" -> ImportTypeOK
      [] part = "licence" -> LicenceTypeOK
=============================================================================
