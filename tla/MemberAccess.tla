----------------------------- MODULE MemberAccess ----------------------------
(***************************************************************************)
(* Who may enter an organisation: src/server/services/account-security.ts, *)
(* scim.ts and saml-sso.ts over organisation_members, with the sessions of *)
(* the browsers and the two checks that refuse revoked ones                *)
(* (src/lib/auth/active-organisation.ts, revoked-session-guard.ts).        *)
(*                                                                         *)
(* None of these services locks a membership.  Each request reads, decides *)
(* and then writes by id: it is two steps here, Begin and Commit, and      *)
(* MaxRequests bounds how many are between the two.                        *)
(***************************************************************************)
EXTENDS Naturals, FiniteSets

CONSTANTS
    Members,        \* users that are or may become members
    Founder,        \* the first owner
    Invitations,
    MaxTime,        \* bounds the clock, in milliseconds that are told apart
    MaxSessions,    \* bounds the sessions at one time
    MaxRequests     \* bounds the requests that are under way

ASSUME AccessAssumption ==
    Founder \in Members /\ MaxTime \in Nat \ {0} /\ MaxRequests \in Nat

VARIABLES
    now,
    member,         \* organisation_members
    sessions,       \* with the time at which the user proved who they are
    invitations,
    pending,        \* requests decided and not yet written
    ended,          \* the latest revocation of each user's sessions that took effect
    overtaken,      \* members of whom a revocation was under way together with another
                    \* request about their sessions
    contested       \* requests that may end the ownership of two members were under way
                    \* together, and an owner has not been seen at rest since

accessVars == <<now, member, sessions, invitations, pending, ended, overtaken, contested>>

Roles == {"owner", "administrator", "reader"}
Protected == {"owner"}
Assignable == Roles \ Protected
Rank == [owner |-> 1, administrator |-> 2, reader |-> 9]
CanGrant(actor, target) == Rank[target] >= Rank[actor]

NotMember == [state |-> "none", role |-> "reader", cut |-> 0]

AccessInit ==
    /\ now = 1
    /\ member = [u \in Members |->
          IF u = Founder THEN [state |-> "active", role |-> "owner", cut |-> 0] ELSE NotMember]
    /\ sessions = {[user |-> Founder, created |-> 1, proved |-> 1]}
    /\ invitations = [i \in Invitations |-> [state |-> "none"]]
    /\ pending = {}
    /\ ended = [u \in Members |-> 0]
    /\ overtaken = {}
    /\ contested = FALSE

AccessTypeOK ==
    /\ now \in 1..MaxTime
    /\ member \in [Members -> [state : {"none", "active", "deleted"}, role : Roles,
                               cut : 0..MaxTime]]
    /\ sessions \subseteq [user : Members, created : 1..MaxTime, proved : 1..MaxTime]
    /\ \A i \in Invitations :
          invitations[i].state \in {"none", "open", "closed"}
    /\ Cardinality(pending) <= MaxRequests
    /\ ended \in [Members -> 0..MaxTime]
    /\ overtaken \subseteq Members
    /\ contested \in BOOLEAN

-----------------------------------------------------------------------------
Active(u) == member[u].state = "active"
Owners == {u \in Members : Active(u) /\ member[u].role = "owner"}

\* sessionRevokedForMembership, and its copy in the hook of revoked-session-guard.
Revoked(s) == member[s.user].cut >= s.created

\* resolveActiveOrganisation, the single choke point for access from a session.
Opens(s) == Active(s.user) /\ ~Revoked(s)

\* requirePermission("user:manage")
Manages(a) ==
    /\ \E s \in sessions : s.user = a /\ Opens(s)
    /\ member[a].role \in {"owner", "administrator"}

\* The last owner may be neither demoted nor deactivated.
\* Variant: the member itself is counted.
AnyOwner(u) == member[u].role = "owner" => Cardinality(Owners) >= 1
OtherOwners(u) == member[u].role = "owner" => Cardinality(Owners) > 1

Begins(q) == Cardinality(pending) < MaxRequests /\ pending' = pending \cup {q}
Ends(q) == q \in pending /\ pending' = pending \ {q}

Later(x, y) == IF x > y THEN x ELSE y

\* A revocation, dated when it was decided, takes effect.
Cut(u, at, state) ==
    /\ member' = [member EXCEPT ![u].cut = at, ![u].state = state]
    /\ ended' = [ended EXCEPT ![u] = Later(@, at)]

-----------------------------------------------------------------------------
(* account-security.ts                                                      *)

BeginRevocation(a, u) ==
    /\ Manages(a) /\ Active(u) /\ CanGrant(member[a].role, member[u].role)
    /\ Begins([kind |-> "revoke", user |-> u, at |-> now])
    /\ UNCHANGED <<now, member, sessions, invitations, ended>>

CommitRevocation(q) ==
    /\ q.kind = "revoke" /\ Ends(q)
    /\ Cut(q.user, q.at, member[q.user].state)
    /\ UNCHANGED <<now, sessions, invitations>>

BeginRoleChange(a, u, role) ==
    /\ Manages(a) /\ a # u /\ Active(u)
    /\ CanGrant(member[a].role, role) /\ CanGrant(member[a].role, member[u].role)
    /\ role # "owner" => OtherOwners(u)
    /\ Begins([kind |-> "role", user |-> u, role |-> role])
    /\ UNCHANGED <<now, member, sessions, invitations, ended>>

\* updateOrganisationMemberRole, and patchScimGroup for one member of the group.
CommitRole(q) ==
    /\ q.kind \in {"role", "push"} /\ Ends(q)
    /\ member' = [member EXCEPT ![q.user].role = q.role]
    /\ UNCHANGED <<now, sessions, invitations, ended>>

Invite(a, i, u, role) ==
    /\ Manages(a) /\ CanGrant(member[a].role, role)
    /\ invitations[i].state = "none"
    /\ invitations' = [invitations EXCEPT ![i] =
                          [state |-> "open", by |-> a, user |-> u, role |-> role]]
    /\ UNCHANGED <<now, member, sessions, pending, ended>>

\* revokeSecureInvitation, or 72 hours.  An invitation whose acceptance is under way
\* is locked.  What was offered is of no more use.
WithdrawInvitation(i) ==
    /\ invitations[i].state = "open"
    /\ \A q \in pending : q.kind = "accept" => q.invitation # i
    /\ invitations' = [invitations EXCEPT ![i] = [state |-> "closed"]]
    /\ UNCHANGED <<now, member, sessions, pending, ended>>

\* acceptSecureInvitation, by anyone who can sign in with that address.  The inviter
\* must still be entitled to what was offered.
BeginAcceptance(i) ==
    LET v == invitations[i] IN
    /\ v.state = "open"
    /\ \A q \in pending : q.kind = "accept" => q.invitation # i
    /\ Active(v.by) /\ CanGrant(member[v.by].role, v.role)
    /\ ~Active(v.user)
    /\ Begins([kind |-> "accept", user |-> v.user, role |-> v.role, invitation |-> i])
    /\ UNCHANGED <<now, member, sessions, invitations, ended>>

\* What is left of an earlier membership.  Variant: a new one is begun.
Anew(old, role) == [state |-> "active", role |-> role, cut |-> 0]
Rejoined(old, role) == [old EXCEPT !.state = "active", !.role = role]

CommitAcceptance(q) ==
    /\ q.kind = "accept" /\ Ends(q)
    /\ member' = [member EXCEPT ![q.user] = Rejoined(@, q.role)]
    /\ invitations' = [invitations EXCEPT ![q.invitation] = [state |-> "closed"]]
    /\ UNCHANGED <<now, sessions, ended>>

-----------------------------------------------------------------------------
(* scim.ts, called by the directory of the organisation.                    *)

\* createScimUser, for somebody who is not a member yet.
Provision(u, state) ==
    /\ member[u].state = "none" /\ state \in {"active", "deleted"}
    /\ member' = [member EXCEPT ![u] = [NotMember EXCEPT !.state = state]]
    /\ UNCHANGED <<now, sessions, invitations, pending, ended>>

\* setScimMembershipActive, from PATCH, DELETE and a repeated POST.
BeginDeactivation(u) ==
    /\ Active(u) /\ OtherOwners(u)
    /\ Begins([kind |-> "deactivate", user |-> u, at |-> now])
    /\ UNCHANGED <<now, member, sessions, invitations, ended>>

CommitDeactivation(q) ==
    /\ q.kind = "deactivate" /\ Ends(q)
    /\ Cut(q.user, q.at, "deleted")
    /\ UNCHANGED <<now, sessions, invitations>>

Reactivate(u) ==
    /\ member[u].state = "deleted"
    /\ member' = [member EXCEPT ![u].state = "active"]
    /\ UNCHANGED <<now, sessions, invitations, pending, ended>>

\* patchScimGroup
BeginPush(u, role) ==
    /\ role \in Assignable
    /\ Active(u) /\ member[u].role \notin Protected \cup {role}
    /\ Begins([kind |-> "push", user |-> u, role |-> role])
    /\ UNCHANGED <<now, member, sessions, invitations, ended>>

-----------------------------------------------------------------------------
(* Sessions.  They belong to users, not to organisations: revoking leaves   *)
(* the row.                                                                 *)

Starts(u, proved) ==
    /\ Cardinality(sessions) < MaxSessions
    /\ sessions' = sessions \cup {[user |-> u, created |-> now, proved |-> proved]}

SignIn(u) ==
    /\ Starts(u, now)
    /\ UNCHANGED <<now, member, invitations, pending, ended>>

\* Endpoints that replace a session without asking for a proof: two-factor enrolment,
\* the change of a password, the registration of a passkey.
BeginRotation(s) ==
    /\ ~Revoked(s)
    /\ Begins([kind |-> "rotate", session |-> s])
    /\ UNCHANGED <<now, member, sessions, invitations, ended>>

CommitRotation(q) ==
    /\ q.kind = "rotate" /\ Ends(q)
    /\ sessions' = (sessions \ {q.session}) \cup {[q.session EXCEPT !.created = now]}
    /\ UNCHANGED <<now, member, invitations, ended>>

EndSession(s) ==
    /\ sessions' = sessions \ {s}
    /\ UNCHANGED <<now, member, invitations, pending, ended>>

\* resolveSamlSignIn: never for an owner, a deactivated member or one whose sessions
\* are revoked in this very moment; others may become members.
BeginSaml(u) ==
    /\ ~(Active(u) /\ member[u].role \in Protected)
    /\ member[u].state # "deleted" /\ member[u].cut < now
    /\ Begins([kind |-> "saml", user |-> u, at |-> now])
    /\ UNCHANGED <<now, member, sessions, invitations, ended>>

CommitSaml(q) ==
    /\ q.kind = "saml" /\ Ends(q)
    /\ IF member[q.user].state = "none"
       THEN \E role \in Assignable :
               member' = [member EXCEPT ![q.user] = [NotMember EXCEPT !.state = "active", !.role = role]]
       ELSE UNCHANGED member
    /\ Starts(q.user, q.at)
    /\ UNCHANGED <<now, invitations, ended>>

\* Any request may fail before it writes.
Abandon(q) ==
    /\ Ends(q)
    /\ UNCHANGED <<now, member, sessions, invitations, ended>>

Tick ==
    /\ now < MaxTime
    /\ now' = now + 1
    /\ UNCHANGED <<member, sessions, invitations, pending, ended>>

\* A revocation and another request about the sessions of the same member.
Revokes(q) == q.kind \in {"revoke", "deactivate"}
OfSessions(q) == Revokes(q) \/ q.kind \in {"saml", "rotate"}
Subject(q) == IF q.kind = "rotate" THEN q.session.user ELSE q.user
Overtaken ==
    {Subject(p) : p \in {p \in pending : \E q \in pending :
        p # q /\ Revokes(p) /\ OfSessions(q) /\ Subject(p) = Subject(q)}}

\* Requests that may end the ownership of two members.
Dethrones(q) ==
    q.kind \in {"role", "push", "accept", "deactivate"} /\ ~(q.kind = "role" /\ q.role = "owner")
OneDethroned ==
    \A p, q \in pending : Dethrones(p) /\ Dethrones(q) => p.user = q.user

\* What overlapped is on record: auxiliary variables, which no step reads.
Observed ==
    /\ overtaken' = overtaken \cup Overtaken'
    /\ contested' = ((contested \/ ~OneDethroned') /\ ~(pending' = {} /\ Owners' # {}))

AccessStep ==
    \/ \E a, u \in Members :
          \/ BeginRevocation(a, u)
          \/ \E role \in Roles : BeginRoleChange(a, u, role)
          \/ \E i \in Invitations, role \in Roles : Invite(a, i, u, role)
    \/ \E i \in Invitations : WithdrawInvitation(i) \/ BeginAcceptance(i)
    \/ \E u \in Members :
          \/ SignIn(u) \/ BeginSaml(u) \/ BeginDeactivation(u) \/ Reactivate(u)
          \/ \E state \in {"active", "deleted"} : Provision(u, state)
          \/ \E role \in Assignable : BeginPush(u, role)
    \/ \E s \in sessions : BeginRotation(s) \/ EndSession(s)
    \/ \E q \in pending :
          \/ CommitRevocation(q) \/ CommitRole(q) \/ CommitAcceptance(q)
          \/ CommitDeactivation(q) \/ CommitRotation(q) \/ CommitSaml(q) \/ Abandon(q)
    \/ Tick

AccessNext == AccessStep /\ Observed

AccessSpec == AccessInit /\ [][AccessNext]_accessVars

-----------------------------------------------------------------------------
\* "Pre-deactivation sessions stay dead for this tenant": whatever happens to a
\* membership afterwards - reactivation, a new invitation, a change of role, the
\* replacement of the session - nobody enters with a proof of identity that is no
\* newer than a revocation.  The exception are members of whom a revocation overlapped
\* a sign-in through the identity provider, the replacement of a session or another
\* revocation: these decide by what they read, and write a session, or an older date,
\* after the revocation.
RevokedStaysOut ==
    \A s \in sessions : Opens(s) /\ s.user \notin overtaken => s.proved > ended[s.user]

\* An organisation keeps an owner, except when requests that may end the ownership of two
\* members overlap: each counts the other's owner, and both go through
\* (account-security.ts:347-359, scim.ts:271-287).  However many other requests overlap.
OwnerRemains == contested \/ Owners # {}
=============================================================================
