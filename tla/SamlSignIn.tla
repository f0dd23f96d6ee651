------------------------------ MODULE SamlSignIn -----------------------------
(***************************************************************************)
(* Sign-in through an organisation's identity provider:                    *)
(* src/lib/auth/saml-plugin.ts over the rows of saml-cache.ts, which all   *)
(* replicas share, and the checks of saml-config.ts.                       *)
(*                                                                         *)
(* A post of an assertion is handled in steps: the library consumes the    *)
(* request it answers, the cookie and the times are checked, the assertion *)
(* is reserved, a session is made.  Posts overlap, on any replica, and end *)
(* after any step.  Identity provider, browsers and the sweep of expired   *)
(* rows by Better Auth are external.                                       *)
(***************************************************************************)
EXTENDS Naturals, Sequences

CONSTANTS
    Browsers,
    MaxLogins,      \* bounds the log-ins that are begun,
    MaxAssertions,  \* the assertions that are signed
    MaxPosts,       \* and the times they are posted
    Ttl,            \* SAML_REQUEST_TTL_MS
    MaxAge,         \* SAML_MAX_ASSERTION_AGE_MS
    Lifetimes,      \* for how long the identity provider may sign
    Skew,           \* SAML_CLOCK_SKEW_MS
    MaxClock        \* bounds the clock

ASSUME TimesAssumption ==
    /\ Ttl \in Nat /\ MaxAge \in Nat /\ Skew \in Nat /\ Lifetimes \subseteq Nat
    /\ MaxClock \in Nat

VARIABLES
    clock,
    started,        \* log-ins: the browser and the time of each request
    stored,         \* rows of requests in verification_tokens
    tombstones,     \* rows of used assertions there: assertion and expiry
    cookie,         \* SAML_REQUEST_COOKIE of each browser, or NoRequest
    issued,         \* assertions, as the identity provider has signed them
    posts,          \* the handlers of posts, and what they have got to
    signedIn,       \* the posts that made a session
    late            \* history: the posts that waited for their lock until the assertion
                    \* was no longer acceptable

samlVars == <<clock, started, stored, tombstones, cookie, issued, posts, signedIn, late>>

NoRequest == 0
Requests == 1..Len(started)
Stages == {"posted", "consumed", "checked", "reserved", "over"}

SamlInit ==
    /\ clock = 0
    /\ started = << >> /\ issued = << >> /\ posts = << >>
    /\ stored = {} /\ tombstones = {} /\ signedIn = {} /\ late = {}
    /\ cookie = [b \in Browsers |-> NoRequest]

SamlTypeOK ==
    /\ clock \in 0..MaxClock
    /\ started \in Seq([browser : Browsers, at : 0..MaxClock])
    /\ stored \subseteq Requests
    /\ tombstones \subseteq [assertion : DOMAIN issued, until : Nat]
    /\ cookie \in [Browsers -> Requests \cup {NoRequest}]
    /\ issued \in Seq([answers : Requests \cup {NoRequest}, at : 0..MaxClock, until : Nat])
    /\ posts \in Seq([stage : Stages, browser : Browsers, assertion : DOMAIN issued,
                      bound : BOOLEAN])
    /\ signedIn \subseteq DOMAIN posts /\ late \subseteq DOMAIN posts

-----------------------------------------------------------------------------
Expired(r) == clock >= started[r].at + Ttl

\* checkSignedAssertion: every time must be met, and the replay deadline is the latest.
Least(x, y) == IF x < y THEN x ELSE y
Latest(x, y) == IF x > y THEN x ELSE y
Accepted(a) == clock < Least(issued[a].until, issued[a].at + MaxAge) + Skew
ReplayUntil(a) == Latest(issued[a].until, issued[a].at + MaxAge) + Skew

Goes(p, from, to) ==
    /\ posts[p].stage = from
    /\ posts' = [posts EXCEPT ![p].stage = to, ![p].bound = @ /\ to # "over"]

-----------------------------------------------------------------------------
\* startLogin.  A second log-in replaces the cookie of the first.
StartLogin(b) ==
    LET r == Len(started) + 1 IN
    /\ r <= MaxLogins
    /\ started' = Append(started, [browser |-> b, at |-> clock])
    /\ stored' = stored \cup {r}
    /\ cookie' = [cookie EXCEPT ![b] = r]
    /\ UNCHANGED <<clock, tombstones, issued, posts, signedIn, late>>

\* The identity provider answers a request, twice if it is asked twice, or nobody.
Issue(r, until) ==
    /\ Len(issued) < MaxAssertions
    /\ issued' = Append(issued, [answers |-> r, at |-> clock, until |-> until])
    /\ UNCHANGED <<clock, started, stored, tombstones, cookie, posts, signedIn, late>>

\* An answer to a request needs the cookie of that request, as it was sent with the post.
\* Variant: any browser will do.
AnyBrowser(b, a) == TRUE
BoundToBrowser(b, a) ==
    issued[a].answers # NoRequest => cookie[b] = issued[a].answers

\* A browser posts an assertion, again if its user goes back and forth.
Post(b, a) ==
    /\ Len(posts) < MaxPosts
    /\ posts' = Append(posts, [stage |-> "posted", browser |-> b, assertion |-> a,
                               bound |-> BoundToBrowser(b, a)])
    /\ UNCHANGED <<clock, started, stored, tombstones, cookie, issued, signedIn, late>>

\* validatePostResponseAsync through createSamlRequestCache.
Consume(p) ==
    LET r == issued[posts[p].assertion].answers IN
    /\ Goes(p, "posted", "consumed")
    /\ r = NoRequest \/ (r \in stored /\ ~Expired(r))
    /\ stored' = stored \ {r}
    /\ UNCHANGED <<clock, started, tombstones, cookie, issued, signedIn, late>>

\* The checks, and the look of reserveSamlAssertionId at the clock before it waits
\* for its lock.
Check(p) ==
    /\ Goes(p, "consumed", "checked")
    /\ posts[p].bound /\ Accepted(posts[p].assertion)
    /\ clock < ReplayUntil(posts[p].assertion)
    /\ UNCHANGED <<clock, started, stored, tombstones, cookie, issued, signedIn, late>>

\* With the lock, the row is looked for and inserted; the clock is not looked at again.
Reserve(p) ==
    LET a == posts[p].assertion IN
    /\ Goes(p, "checked", "reserved")
    /\ \A t \in tombstones : t.assertion # a
    /\ tombstones' = tombstones \cup {[assertion |-> a, until |-> ReplayUntil(a)]}
    /\ late' = IF clock >= ReplayUntil(a) THEN late \cup {p} ELSE late
    /\ UNCHANGED <<clock, started, stored, cookie, issued, signedIn>>

\* createSession; the cookie of the log-in is taken back with the answer, whatever it
\* holds by now.
SignsIn(p) ==
    /\ Goes(p, "reserved", "over")
    /\ signedIn' = signedIn \cup {p}
    /\ cookie' = [cookie EXCEPT ![posts[p].browser] = NoRequest]
    /\ UNCHANGED <<clock, started, stored, tombstones, issued, late>>

\* A check fails, a member may not sign in, or the replica dies.
PostEnds(p) ==
    /\ posts[p].stage # "over"
    /\ posts' = [posts EXCEPT ![p].stage = "over", ![p].bound = FALSE]
    /\ \/ UNCHANGED cookie
       \/ /\ posts[p].stage \in {"checked", "reserved"}
          /\ cookie' = [cookie EXCEPT ![posts[p].browser] = NoRequest]
    /\ UNCHANGED <<clock, started, stored, tombstones, issued, signedIn, late>>

\* Better Auth removes expired rows, whatever is under way.
Sweep ==
    /\ stored' = {r \in stored : ~Expired(r)}
    /\ tombstones' = {t \in tombstones : t.until > clock}
    /\ <<stored, tombstones>>' # <<stored, tombstones>>
    /\ UNCHANGED <<clock, started, cookie, issued, posts, signedIn, late>>

TimePasses ==
    /\ clock < MaxClock
    /\ clock' = clock + 1
    /\ UNCHANGED <<started, stored, tombstones, cookie, issued, posts, signedIn, late>>

SamlNext ==
    \/ \E b \in Browsers : StartLogin(b) \/ \E a \in DOMAIN issued : Post(b, a)
    \/ \E r \in Requests \cup {NoRequest}, d \in Lifetimes : Issue(r, clock + d)
    \/ \E p \in DOMAIN posts :
          Consume(p) \/ Check(p) \/ Reserve(p) \/ SignsIn(p) \/ PostEnds(p)
    \/ Sweep \/ TimePasses

SamlSpec == SamlInit /\ [][SamlNext]_samlVars

-----------------------------------------------------------------------------
Answered(p) == issued[posts[p].assertion].answers

\* A request signs in once, however many answers, posts, replicas and sweeps there are.
\* So does an assertion, but for a post that has looked at the clock in time and then
\* waited for its lock beyond the assertion's last moment: the row of the first use may
\* have been swept by then, and the post is taken for the first.
UsedOnce ==
    \A p, q \in signedIn : p # q =>
        /\ posts[p].assertion = posts[q].assertion => p \in late \/ q \in late
        /\ Answered(p) = NoRequest \/ Answered(p) # Answered(q)

\* Whoever began a log-in is the one who is signed in by its answer.
SignedInWhereStarted ==
    \A p \in signedIn :
        Answered(p) # NoRequest => posts[p].browser = started[Answered(p)].browser

\* An assertion that is reserved in time and a request sign in once, in the browser that
\* began the log-in.
SignInOnce == UsedOnce /\ SignedInWhereStarted
=============================================================================
