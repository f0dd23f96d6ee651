---------------------------- MODULE EventDelivery ---------------------------
(***************************************************************************)
(* Domain events on their way out: src/server/services/domain-events.ts,   *)
(* webhooks.ts and notifications.ts, composed with the promise of the job  *)
(* queue.                                                                  *)
(*                                                                         *)
(* A service changes the database and then emits an event, one statement   *)
(* after another.  Where the request runs in a tenant scope these belong to *)
(* the transaction of the change, with a savepoint for each guarded part;  *)
(* elsewhere each is committed by itself, after the change.  A delivery is *)
(* sent by a job, which reads the row, asks the receiver, and writes down  *)
(* what came of it.                                                        *)
(***************************************************************************)
EXTENDS JobContract, FiniteSets

CONSTANTS
    Changes,        \* committed changes that are worth an event
    Hooks,          \* webhooks that subscribe to the events
    Channels,       \* notification channels
    Rotated,        \* webhooks whose secret is rotated
    MaxSecret,      \* bounds the rotations of a secret
    MaxHands,       \* bounds the attempts that are in progress at once
    Faults          \* what may go wrong, a subset of AllFaults

\* A statement of the database fails; a worker dies; the process that emits dies;
\* a lease runs out while its worker is alive.
AllFaults == {"statement", "worker", "emitter", "lease"}

Targets == Hooks \cup Channels
None == "none"

ASSUME DeliveryAssumption ==
    /\ Hooks \cap Channels = {} /\ None \notin Targets
    /\ Jobs = Changes \X Targets
    /\ Rotated \subseteq Hooks /\ Faults \subseteq AllFaults
    /\ {MaxAttempts, MaxSecret, MaxHands} \subseteq Nat \ {0}

VARIABLES
    emitter,    \* how far the emission of each change's event has come
    written,    \* what its statements have inserted; in a tenant scope nobody else
                \* sees it before the commit
    inbox,      \* the changes that members find in their inbox
    rows,       \* webhook_deliveries and notification_deliveries
    sending,    \* the handlers' memory
    accepted,   \* deliveries that a receiver has taken (not in the database)
    hook,       \* secrets of each webhook
    receiver,   \* the secret that each receiver checks with
    rotating,   \* rotations under way: the webhook, and the secret that was read
    raced       \* history: webhooks whose last rotation replaced another secret than
                \* it had read

emissionVars == <<emitter, written, inbox>>
secretVars == <<hook, receiver, rotating, raced>>
vars == <<jobVars, emissionVars, rows, sending, accepted, secretVars>>

NoRow == [state |-> "absent", attempts |-> 0]
\* Variant: the first attempt is counted when the row is made.
CountedRow == [state |-> "pending", attempts |-> 1]
NewRow == [state |-> "pending", attempts |-> 0]
Nothing == [inbox |-> FALSE, rows |-> {}, jobs |-> {}]

Init ==
    /\ ContractInit
    /\ emitter = [c \in Changes |-> [stage |-> "idle", scoped |-> FALSE, todo |-> {}, row |-> None]]
    /\ written = [c \in Changes |-> Nothing]
    /\ inbox = {}
    /\ rows = [d \in Jobs |-> NoRow]
    /\ sending = {}
    /\ accepted = {}
    /\ hook = [w \in Hooks |-> [secret |-> 1, previous |-> 0]]
    /\ receiver = [w \in Hooks |-> 1]
    /\ rotating = {} /\ raced = {}

Stages == {"idle", "inbox", "hooks", "channels", "done", "lost"}

DeliveryTypeOK ==
    /\ ContractTypeOK
    /\ emitter \in [Changes -> [stage : Stages, scoped : BOOLEAN, todo : SUBSET Targets,
                                row : Targets \cup {None}]]
    /\ written \in [Changes -> [inbox : BOOLEAN, rows : SUBSET Targets, jobs : SUBSET Targets]]
    /\ inbox \subseteq Changes
    /\ rows \in [Jobs -> [state : {"absent", "pending", "retrying", "delivered", "failed"},
                          attempts : 0..MaxAttempts]]
    /\ \A s \in sending : /\ s.job \in Jobs /\ s.attempt \in 1..MaxAttempts
                          /\ s.answer \in {None, "ok", "error"}
    /\ accepted \subseteq Jobs
    /\ hook \in [Hooks -> [secret : 1..MaxSecret, previous : 0..MaxSecret]]
    /\ receiver \in [Hooks -> 1..MaxSecret]
    /\ rotating \subseteq Hooks \X (1..MaxSecret) /\ raced \subseteq Hooks

-----------------------------------------------------------------------------
(* Emission.                                                                *)

Goes(c, stage, todo, row) ==
    emitter' = [emitter EXCEPT ![c] = [stage |-> stage, scoped |-> emitter[c].scoped,
                                       todo |-> todo, row |-> row]]

Inserted(D) == rows' = [d \in Jobs |-> IF d \in D THEN NewRow ELSE rows[d]]
Writes(c, new) == written' = [written EXCEPT ![c] = new]

\* A service that has changed something emits its event: inside its tenant scope, or
\* after the change is committed.
Emit(c, scoped) ==
    /\ emitter[c].stage = "idle"
    /\ emitter' = [emitter EXCEPT ![c] = [stage |-> "inbox", scoped |-> scoped, todo |-> {},
                                          row |-> None]]
    /\ UNCHANGED <<jobVars, written, inbox, rows, sending, accepted, secretVars>>

\* insertInbox: one statement for all members.
InsertInbox(c) ==
    /\ emitter[c].stage = "inbox"
    /\ Goes(c, "hooks", Hooks, None)
    /\ \E made \in {TRUE} \cup (IF "statement" \in Faults THEN {FALSE} ELSE {}) :
          /\ Writes(c, [Nothing EXCEPT !.inbox = made])
          /\ inbox' = IF made /\ ~emitter[c].scoped THEN inbox \cup {c} ELSE inbox
    /\ UNCHANGED <<jobVars, rows, sending, accepted, secretVars>>

\* enqueueWebhookEvent and queueNotification: a row, and then its job.
InsertRow(c, t) ==
    LET e == emitter[c] IN
    /\ e.stage \in {"hooks", "channels"} /\ e.row = None /\ t \in e.todo
    /\ Goes(c, e.stage, e.todo \ {t}, t)
    /\ Writes(c, [written[c] EXCEPT !.rows = @ \cup {t}])
    /\ IF e.scoped THEN UNCHANGED rows ELSE Inserted({<<c, t>>})
    /\ UNCHANGED <<jobVars, inbox, sending, accepted, secretVars>>

InsertJob(c) ==
    LET e == emitter[c] IN
    /\ e.row # None
    /\ Goes(c, e.stage, e.todo, None)
    /\ Writes(c, [written[c] EXCEPT !.jobs = @ \cup {e.row}])
    /\ IF e.scoped THEN UNCHANGED jobVars ELSE Submit({<<c, e.row>>})
    /\ UNCHANGED <<inbox, rows, sending, accepted, secretVars>>

NextPart(c) ==
    /\ emitter[c].row = None /\ emitter[c].todo = {}
    /\ \/ emitter[c].stage = "hooks" /\ Goes(c, "channels", Channels, None)
       \/ emitter[c].stage = "channels" /\ ~emitter[c].scoped /\ Goes(c, "done", {}, None)
    /\ UNCHANGED <<jobVars, written, inbox, rows, sending, accepted, secretVars>>

\* savepointIfScoped: in a tenant scope a guarded part that fails is rolled back to its
\* savepoint; elsewhere what it has inserted is there.
\* Variant: a savepoint for each delivery instead of one for all webhooks.
SavepointEach(c, part) ==
    IF emitter[c].scoped THEN [written[c] EXCEPT !.rows = @ \ {emitter[c].row}] ELSE written[c]
RolledBack(c, part) ==
    IF emitter[c].scoped
    THEN [written[c] EXCEPT !.rows = @ \ part, !.jobs = @ \ part]
    ELSE written[c]

\* Something fails in a guarded part: all webhooks are one, each channel is one.
StatementFails(c) ==
    LET e == emitter[c] IN
    /\ "statement" \in Faults
    /\ \/ /\ e.stage = "hooks" /\ Goes(c, "channels", Channels, None)
          /\ Writes(c, RolledBack(c, Hooks))
       \/ /\ e.stage = "channels" /\ e.row # None /\ Goes(c, "channels", e.todo, None)
          /\ Writes(c, RolledBack(c, {e.row}))
       \/ /\ e.stage = "channels" /\ e.row = None
          /\ \E t \in e.todo : Goes(c, "channels", e.todo \ {t}, None)
          /\ UNCHANGED written
    /\ UNCHANGED <<jobVars, inbox, rows, sending, accepted, secretVars>>

\* The transaction of the change and its event is committed.
CommitScoped(c) ==
    /\ emitter[c].scoped /\ emitter[c].stage = "channels"
    /\ emitter[c].row = None /\ emitter[c].todo = {}
    /\ Goes(c, "done", {}, None)
    /\ inbox' = IF written[c].inbox THEN inbox \cup {c} ELSE inbox
    /\ Inserted({c} \X written[c].rows)
    /\ Submit({c} \X written[c].jobs)
    /\ UNCHANGED <<written, sending, accepted, secretVars>>

\* The process dies, or the transaction is rolled back and the change with it.
EmitterDies(c) ==
    /\ "emitter" \in Faults /\ emitter[c].stage \in {"inbox", "hooks", "channels"}
    /\ Goes(c, "lost", {}, None)
    /\ Writes(c, IF emitter[c].scoped THEN Nothing ELSE written[c])
    /\ UNCHANGED <<jobVars, inbox, rows, sending, accepted, secretVars>>

Emitting(c) ==
    \/ \E scoped \in BOOLEAN : Emit(c, scoped)
    \/ InsertInbox(c) \/ InsertJob(c) \/ NextPart(c) \/ StatementFails(c)
    \/ CommitScoped(c) \/ EmitterDies(c)
    \/ \E t \in Targets : InsertRow(c, t)

-----------------------------------------------------------------------------
(* Delivery.                                                                *)

\* The secrets that a delivery is signed with: the previous one for 24 hours.
\* previous is zero before the first rotation and after the 24 hours.
Signatures(w) == {hook[w].secret, hook[w].previous} \ {0}

Sending(h, answer) ==
    {s \in sending : s.job = h.job /\ s.attempt = h.attempt /\ s.answer \in answer}

\* deliverWebhookJob and deliverNotificationJob read the row and the secrets.
ReadDelivery(h) ==
    /\ Begin(h)
    /\ sending' = sending \cup
          {[job |-> h.job, attempt |-> h.attempt, read |-> rows[h.job].attempts,
            signed |-> IF h.job[2] \in Hooks THEN Signatures(h.job[2]) ELSE {},
            answer |-> None]}
    /\ UNCHANGED <<emissionVars, rows, accepted, secretVars>>

\* The request, or its answer, may be lost; a receiver that checks takes only what
\* is signed with its secret.
Ask(h) ==
    \E s \in Sending(h, {None}), answer \in {"ok", "error"}, taken \in BOOLEAN :
        LET w == h.job[2] IN
        /\ answer = "ok" => taken
        /\ taken /\ w \in Hooks => receiver[w] \in s.signed
        /\ sending' = (sending \ {s}) \cup {[s EXCEPT !.answer = answer]}
        /\ accepted' = IF taken THEN accepted \cup {h.job} ELSE accepted
        /\ UNCHANGED <<jobVars, emissionVars, rows, secretVars>>

\* recordAttempt: whatever has become of the row.
Failed(n) == IF n >= MaxAttempts THEN "failed" ELSE "retrying"

\* Variant: the handler returns whatever the answer.
Swallowed(h, s) == HandlerReturns(h)
Reported(h, s) == IF s.answer = "ok" THEN HandlerReturns(h) ELSE HandlerThrows(h)

Record(h) ==
    \E s \in Sending(h, {"ok", "error"}) :
        /\ rows' = [rows EXCEPT ![h.job] =
                       [state |-> IF s.answer = "ok" THEN "delivered" ELSE Failed(s.read + 1),
                        attempts |-> s.read + 1]]
        /\ sending' = sending \ {s}
        /\ Reported(h, s)
        /\ UNCHANGED <<emissionVars, accepted, secretVars>>

\* The update fails.  For a notification the catch clause tries another one.
RecordFails(h) ==
    /\ "statement" \in Faults
    /\ \E s \in Sending(h, {"ok", "error"}) :
        /\ sending' = sending \ {s}
        /\ \/ UNCHANGED rows
           \/ /\ h.job[2] \in Channels /\ s.answer = "ok"
              /\ rows' = [rows EXCEPT ![h.job] = [state |-> Failed(s.read + 1),
                                                  attempts |-> s.read + 1]]
    /\ HandlerThrows(h)
    /\ UNCHANGED <<emissionVars, accepted, secretVars>>

Delivering(h) == ReadDelivery(h) \/ Ask(h) \/ Record(h) \/ RecordFails(h)

-----------------------------------------------------------------------------
(* The queue: a lease that covers the handler, unless "lease" is a fault.   *)

LeaseOver(j) == "lease" \in Faults \/ \A h \in hands : h.job # j

\* Variant: nobody sweeps the rows whose last attempt did not come back.
ClaimOnly(j) == Cardinality(hands) < MaxHands /\ Claim({j})
ClaimOrSweep(j) == GiveUp({j}) \/ ClaimOnly(j)

Take(j) ==
    /\ LeaseOver(j) /\ ClaimOrSweep(j)
    /\ UNCHANGED <<emissionVars, rows, sending, accepted, secretVars>>

Settle(h) ==
    /\ Complete(h) \/ CompleteThrows(h) \/ Fail(h)
    /\ UNCHANGED <<emissionVars, rows, sending, accepted, secretVars>>

WorkerDies(h) ==
    /\ "worker" \in Faults
    /\ Lose({h})
    /\ sending' = sending \ Sending(h, {None, "ok", "error"})
    /\ UNCHANGED <<emissionVars, rows, accepted, secretVars>>

-----------------------------------------------------------------------------
(* Secrets.  Rotations of one webhook may overlap, and its receiver is given *)
(* the new secret whenever its owner finds the time.                         *)

\* rotateWebhookSecret reads the secret, with no lock.
BeginRotation(w) ==
    /\ w \in Rotated
    /\ rotating' = rotating \cup {<<w, hook[w].secret>>}
    /\ UNCHANGED <<jobVars, emissionVars, rows, sending, accepted, hook, receiver, raced>>

\* Variant: the secret before the previous one is kept.
KeepOldest(old, read) == IF old.previous # 0 THEN old.previous ELSE read
Predecessor(old, read) == read

\* It keeps the secret that was read as the previous one; another rotation that has
\* read the same may still be under way.
RotateSecret(w) ==
    \E read \in {r[2] : r \in {r \in rotating : r[1] = w}} :
        /\ hook[w].secret < MaxSecret
        /\ hook' = [hook EXCEPT ![w] = [secret |-> @.secret + 1,
                                        previous |-> Predecessor(@, read)]]
        /\ rotating' \in {rotating, rotating \ {<<w, read>>}}
        /\ raced' = IF read = hook[w].secret THEN raced \ {w} ELSE raced \cup {w}
        /\ UNCHANGED <<jobVars, emissionVars, rows, sending, accepted, receiver>>

RotationFails(w) ==
    /\ \E r \in rotating : r[1] = w /\ rotating' = rotating \ {r}
    /\ UNCHANGED <<jobVars, emissionVars, rows, sending, accepted, hook, receiver, raced>>

\* The receiver is given a newer one of the secrets that were shown.
ReceiverTakes(w, secret) ==
    /\ receiver[w] < secret /\ secret <= hook[w].secret
    /\ receiver' = [receiver EXCEPT ![w] = secret]
    /\ UNCHANGED <<jobVars, emissionVars, rows, sending, accepted, hook, rotating, raced>>

\* The 24 hours are over.
WindowEnds(w) ==
    /\ hook[w].previous # 0
    /\ hook' = [hook EXCEPT ![w].previous = 0]
    /\ UNCHANGED <<jobVars, emissionVars, rows, sending, accepted, receiver, rotating, raced>>

Rotating(w) ==
    \/ BeginRotation(w) \/ RotateSecret(w) \/ RotationFails(w) \/ WindowEnds(w)
    \/ \E secret \in 1..MaxSecret : ReceiverTakes(w, secret)

Next ==
    \/ \E c \in Changes : Emitting(c)
    \/ \E h \in hands : Delivering(h) \/ Settle(h) \/ WorkerDies(h)
    \/ \E j \in Jobs : Take(j)
    \/ \E w \in Hooks : Rotating(w)

\* The queue is polled and handlers come to an end: runner.ts and the timeouts of
\* the requests.
Attempt(j) == \E h \in hands : h.job = j /\ (Delivering(h) \/ Settle(h))
Fairness == \A j \in Jobs : WF_vars(Take(j)) /\ WF_vars(Attempt(j))

Spec == Init /\ [][Next]_vars /\ Fairness

-----------------------------------------------------------------------------
\* A job that completed, and a delivery on record as delivered, were accepted by their
\* receiver, whatever rotations, crashes and failing statements came between; and however
\* attempts overlap, a row is called failed only when its job has no attempt left: row and
\* job count the attempts apart, and the row must not give up first.
RowsTellTheTruth ==
    \A d \in DOMAIN rows :
        /\ status[d] = "completed" \/ rows[d].state = "delivered" => d \in accepted
        /\ rows[d].state = "failed" => attempts[d] = MaxAttempts

\* An event is not left half done.  In a tenant scope, whatever failed in between: all
\* webhooks get their delivery or none does, and each delivery has its job.  Elsewhere a
\* failure, or a death, between a row and its job leaves a delivery that nothing will send,
\* but no more than one of the webhooks'.
Has(c, t) == <<c, t>> \in DOMAIN rows /\ rows[<<c, t>>].state # "absent"
Unsent(c, t) == Has(c, t) /\ status[<<c, t>>] = "absent"
EventsAreWhole ==
    \A c \in DOMAIN emitter :
        IF emitter[c].scoped
        THEN /\ \A t \in {d[2] : d \in DOMAIN rows} : ~Unsent(c, t)
             /\ \A w, x \in DOMAIN hook : Has(c, w) <=> Has(c, x)
        ELSE \A w, x \in DOMAIN hook : Unsent(c, w) /\ Unsent(c, x) => w = x

\* A receiver that keeps up holds the present secret, or within the 24 hours the one
\* before it.
KeepsUp(w) ==
    \/ receiver[w] = hook[w].secret
    \/ receiver[w] = hook[w].secret - 1 /\ hook[w].previous # 0

\* A receiver that keeps up can check what is signed from now on, and whatever is under
\* way that was read since the last rotation; those that were read before may be refused,
\* and are tried again.  The exception are rotations that overlap: the later one puts the
\* secret that both read in the place of the one that the earlier one has shown.
RotationIsSmooth ==
    \A w \in DOMAIN hook \ raced : KeepsUp(w) =>
        /\ receiver[w] \in Signatures(w)
        /\ \A s \in sending :
              s.job[2] = w /\ hook[w].secret \in s.signed => receiver[w] \in s.signed

\* Every delivery that has a job comes to an end.
EveryDeliveryEnds ==
    \A d \in Jobs : status[d] = "waiting" ~> status[d] \in {"completed", "dead_letter"}
=============================================================================
