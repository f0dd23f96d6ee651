--------------------------- MODULE DeliveryProofs ---------------------------
(***************************************************************************)
(* What becomes of domain events, for any changes, webhooks, channels,     *)
(* attempts, workers, rotations and faults: proofs about EventDelivery.    *)
(***************************************************************************)
EXTENDS EventDelivery, JobContractProofs, FiniteSetTheorems

RowState == {"absent", "pending", "retrying", "delivered", "failed"}
RowType == [state : RowState, attempts : Nat]
EmitterType == [stage : Stages, scoped : BOOLEAN, todo : SUBSET Targets,
                row : Targets \cup {None}]
WrittenType == [inbox : BOOLEAN, rows : SUBSET Targets, jobs : SUBSET Targets]
SendType == [job : Jobs, attempt : 1..MaxAttempts, read : Nat,
             signed : SUBSET (0..MaxSecret), answer : {None, "ok", "error"}]

-----------------------------------------------------------------------------
(***************************************************************************)
(* The invariant.                                                          *)
(***************************************************************************)

Exists(d) == rows[d].state # "absent"

\* Whether others see what the statements of an emission have inserted.
Visible(c) == ~emitter[c].scoped \/ emitter[c].stage = "done"

\* Rows that an emission has inserted without their job.
Bare(w) == w.rows \ w.jobs

\* What an emission that is as far as e has inserted: a row before its job; and in a scope
\* nothing of a part that failed.
StepByStep(e, w) ==
    /\ w.jobs \subseteq w.rows
    /\ e.stage \in {"idle", "inbox"} => w.rows = {}
    /\ e.stage \notin {"hooks", "channels"} => e.row = None
    /\ e.row # None => e.row \in Bare(w)
    /\ e.stage = "hooks" =>
          e.todo \subseteq Hooks /\ w.rows = Hooks \ e.todo /\ Bare(w) \subseteq {e.row}
    /\ e.stage = "channels" =>
          e.todo \subseteq Channels \ w.rows /\ e.row \notin Hooks
    /\ e.scoped /\ e.stage \in {"channels", "done"} =>
          Hooks \cap w.rows \in {{}, Hooks} /\ Bare(w) \subseteq {e.row}
    /\ ~e.scoped => \A x, y \in Hooks \cap Bare(w) : x = y

\* What others see of an emission is what its statements have inserted.
InOrder(c) ==
    /\ \A t \in Targets : Exists(<<c, t>>) <=> Visible(c) /\ t \in written[c].rows
    /\ \A t \in Targets : status[<<c, t>>] # "absent" <=> Visible(c) /\ t \in written[c].jobs
    /\ StepByStep(emitter[c], written[c])

EmissionInv ==
    /\ emitter \in [Changes -> EmitterType] /\ written \in [Changes -> WrittenType]
    /\ inbox \subseteq Changes
    /\ rows \in [Jobs -> RowType]
    /\ \A c \in Changes : InOrder(c)

\* The attempts of a delivery that have not been written down yet.
Open(H, d) ==
    {h.attempt : h \in {g \in H : g.job = d /\ g.phase \in {"claimed", "run"}}}

\* The row counts the attempts that were written down; with those that may still be, they
\* are no more than the job has made.  The same is true of a count that was read before.
Budget(H, made, counted, memory) ==
    /\ \A d \in Jobs : counted[d].attempts + Cardinality(Open(H, d)) <= made[d]
    /\ \A s \in memory : s.read + Cardinality(Open(H, s.job)) <= made[s.job]

\* A row gives up only when its job has no attempt left.
FailedIsFinal == \A d \in Jobs : rows[d].state = "failed" => attempts[d] = MaxAttempts

AttemptInv ==
    /\ sending \subseteq SendType
    /\ Budget(hands, attempts, rows, sending)
    /\ FailedIsFinal

\* Completed jobs and delivered rows were accepted.
CompletedWasAccepted ==
    \A d \in Jobs : status[d] = "completed" \/ rows[d].state = "delivered" => d \in accepted

\* Who says that a receiver took the delivery is right.
AcceptInv ==
    /\ accepted \subseteq Jobs
    /\ CompletedWasAccepted
    /\ \A h \in hands : h.phase = "ok" => h.job \in accepted
    /\ \A s \in sending : s.answer = "ok" => s.job \in accepted

\* Unless rotations have overlapped, the previous secret is the one before the present.
SecretsFollow(w) ==
    /\ hook[w].previous < hook[w].secret
    /\ w \notin raced => hook[w].previous \in {0, hook[w].secret - 1}

\* What is signed with the present secret is signed with the previous one too, within the
\* 24 hours.
SignedFor(s, w) ==
    /\ s.signed \subseteq 1..hook[w].secret
    /\ hook[w].secret \in s.signed /\ hook[w].previous # 0 => hook[w].previous \in s.signed

SecretInv ==
    /\ hook \in [Hooks -> [secret : 1..MaxSecret, previous : 0..MaxSecret]]
    /\ receiver \in [Hooks -> 1..MaxSecret]
    /\ rotating \subseteq Hooks \X (1..MaxSecret) /\ raced \subseteq Hooks
    /\ \A r \in rotating : r[2] <= hook[r[1]].secret
    /\ \A w \in Hooks : SecretsFollow(w)
    /\ \A s \in sending : s.job[2] \in Hooks => SignedFor(s, s.job[2])

DeliveryInv == ContractInv /\ EmissionInv /\ AttemptInv /\ AcceptInv /\ SecretInv

\* What the assumption of EventDelivery says of the numbers.
LEMMA Sizes ==
    /\ MaxAttempts \in Nat \ {0} /\ MaxSecret \in Nat \ {0}
    /\ Jobs = Changes \X Targets /\ Hooks \subseteq Targets /\ Channels \subseteq Targets
    /\ Hooks \cap Channels = {} /\ None \notin Targets
BY DeliveryAssumption DEF Targets

\* The open attempts of a delivery are finitely many.
LEMMA OpenIsFinite ==
    ASSUME NEW H \in SUBSET HandType, NEW d
    PROVE  /\ Open(H, d) \subseteq 1..MaxAttempts
           /\ IsFiniteSet(Open(H, d)) /\ Cardinality(Open(H, d)) \in Nat
<1>1. Open(H, d) \subseteq 1..MaxAttempts
  BY DEF Open, HandType
<1>2. IsFiniteSet(1..MaxAttempts)
  BY Sizes, FS_Interval
<1> DEFINE S == Open(H, d)
           T == 1..MaxAttempts
<1>3. S \in SUBSET T /\ IsFiniteSet(T)
  BY <1>1, <1>2
<1> HIDE DEF S, T
<1>4. IsFiniteSet(S)
  BY <1>3, FS_Subset
<1>5. Cardinality(S) \in Nat
  BY <1>4, FS_CardinalityType
<1> QED BY <1>1, <1>4, <1>5 DEF S

\* Of fewer hands, fewer attempts are open.
LEMMA FewerOpen ==
    ASSUME NEW H \in SUBSET HandType, NEW G \in SUBSET HandType, NEW d,
           Open(G, d) \subseteq Open(H, d)
    PROVE  Cardinality(Open(G, d)) <= Cardinality(Open(H, d))
<1> DEFINE S == Open(H, d)
           T == Open(G, d)
<1>1. IsFiniteSet(S) /\ T \in SUBSET S
  BY OpenIsFinite
<1> HIDE DEF S, T
<1>2. Cardinality(T) <= Cardinality(S)
  BY <1>1, FS_Subset
<1> QED BY <1>2 DEF S, T

\* The hands of the contract have the type of the lemmas.
LEMMA HandsTyped == ContractInv => hands \subseteq HandType /\ attempts \in [Jobs -> 0..MaxAttempts]
BY DEF ContractInv, ContractTypeOK, HandType

\* At first nothing is emitted, sent or rotated.
LEMMA InitDelivery == Init => DeliveryInv
<1> SUFFICES ASSUME Init PROVE DeliveryInv
  OBVIOUS
<1>1. ContractInv
  BY Sizes, ContractStarts DEF Init
<1>2. EmissionInv
  <2>1. emitter \in [Changes -> EmitterType] /\ written \in [Changes -> WrittenType]
    BY DEF Init, EmitterType, WrittenType, Stages, Nothing
  <2>2. rows \in [Jobs -> RowType] /\ inbox \subseteq Changes
    BY DEF Init, RowType, RowState, NoRow
  <2>3. ASSUME NEW c \in Changes PROVE InOrder(c)
    BY Sizes DEF Init, ContractInit, InOrder, StepByStep, Exists, Bare, Visible, NoRow, Nothing
  <2> QED BY <2>1, <2>2, <2>3 DEF EmissionInv
<1>3. AttemptInv
  <2>1. \A d \in Jobs : Open(hands, d) = {}
    BY DEF Init, ContractInit, Open
  <2>2. \A d \in Jobs : Cardinality(Open(hands, d)) = 0
    BY <2>1, FS_EmptySet
  <2> QED BY <2>2 DEF Init, ContractInit, AttemptInv, Budget, FailedIsFinal, NoRow
<1>4. AcceptInv
  BY DEF Init, ContractInit, AcceptInv, CompletedWasAccepted, NoRow
<1>5. SecretInv
  BY Sizes DEF Init, SecretInv, SecretsFollow
<1> QED BY <1>1, <1>2, <1>3, <1>4, <1>5 DEF DeliveryInv

-----------------------------------------------------------------------------
(***************************************************************************)
(* The queue.                                                              *)
(***************************************************************************)

\* Whatever happens to a delivery, the queue does as its contract says: a transaction puts
\* in jobs that are new to it, and handlers, workers and the sweep do what it lets them.
LEMMA QueueOfDelivery == ASSUME DeliveryInv, [Next]_vars PROVE [ContractNext]_jobVars
<1> USE DEF DeliveryInv
<1>1. ASSUME NEW c \in Changes, CommitScoped(c) PROVE ContractNext
  <2>1. Submit({c} \X written[c].jobs)
    BY <1>1 DEF CommitScoped
  <2>2. {c} \X written[c].jobs \in SUBSET Jobs
    BY Sizes DEF EmissionInv, WrittenType
  <2> QED BY <2>1, <2>2 DEF ContractNext
<1>2. ASSUME NEW c \in Changes, InsertJob(c), ~emitter[c].scoped PROVE ContractNext
  <2>1. Submit({<<c, emitter[c].row>>}) /\ emitter[c].row # None
    BY <1>2 DEF InsertJob
  <2>2. {<<c, emitter[c].row>>} \in SUBSET Jobs
    BY <2>1, Sizes DEF EmissionInv, EmitterType
  <2> QED BY <2>1, <2>2 DEF ContractNext
<1>3. ASSUME NEW c \in Changes,
             \/ (InsertJob(c) /\ emitter[c].scoped)
             \/ \E scoped \in BOOLEAN : Emit(c, scoped)
             \/ InsertInbox(c) \/ NextPart(c) \/ StatementFails(c)
             \/ EmitterDies(c) \/ \E t \in Targets : InsertRow(c, t)
      PROVE  UNCHANGED jobVars
  BY <1>3 DEF InsertJob, Emit, InsertInbox, NextPart, StatementFails, EmitterDies, InsertRow
<1>4. ASSUME NEW h \in hands, ReadDelivery(h) PROVE ContractNext
  BY <1>4 DEF ReadDelivery, ContractNext
<1>5. ASSUME NEW h \in hands, Ask(h) PROVE UNCHANGED jobVars
  BY <1>5 DEF Ask
<1>6. ASSUME NEW h \in hands, Record(h) \/ RecordFails(h) PROVE ContractNext
  <2>1. HandlerReturns(h) \/ HandlerThrows(h)
    BY <1>6 DEF Record, RecordFails, Reported
  <2> QED BY <2>1 DEF ContractNext
<1>7. ASSUME NEW h \in hands, Settle(h) PROVE ContractNext
  BY <1>7 DEF Settle, ContractNext
<1>8. ASSUME NEW h \in hands, WorkerDies(h) PROVE ContractNext
  BY <1>8 DEF WorkerDies, ContractNext
<1>9. ASSUME NEW j \in Jobs, Take(j) PROVE ContractNext
  <2>1. \E S \in SUBSET Jobs : Claim(S) \/ GiveUp(S)
    BY <1>9 DEF Take, ClaimOrSweep, ClaimOnly
  <2> QED BY <2>1 DEF ContractNext
<1>10. ASSUME NEW w \in Hooks, Rotating(w) PROVE UNCHANGED jobVars
  BY <1>10 DEF Rotating, BeginRotation, RotateSecret, RotationFails, ReceiverTakes, WindowEnds
<1>11. ASSUME UNCHANGED vars PROVE UNCHANGED jobVars
  BY <1>11 DEF vars
<1> QED
  BY <1>1, <1>2, <1>3, <1>4, <1>5, <1>6, <1>7, <1>8, <1>9, <1>10, <1>11
     DEF Next, Emitting, Delivering

\* And keeps the contract's invariant by it.
LEMMA ContractOfDelivery == ASSUME DeliveryInv, [Next]_vars PROVE ContractInv'
<1>1. MaxAttempts \in Nat \ {0} /\ ContractInv
  BY Sizes DEF DeliveryInv
<1> QED BY <1>1, QueueOfDelivery, ContractKeeps

-----------------------------------------------------------------------------
(***************************************************************************)
(* Secrets.                                                                *)
(***************************************************************************)

\* Emissions, the queue and what handlers write down say nothing of secrets; what is being
\* sent was signed when it was read.
LEMMA SecretsAside ==
    ASSUME SecretInv, UNCHANGED secretVars,
           \A s \in sending' : \E t \in sending : s.job = t.job /\ s.signed = t.signed
    PROVE  SecretInv'
BY DEF SecretInv, secretVars, SecretsFollow, SignedFor

\* An attempt that is read now is signed with all the secrets that there are.
LEMMA SignsWithAll ==
    ASSUME DeliveryInv, NEW h \in hands, ReadDelivery(h)
    PROVE  SecretInv'
<1> DEFINE signed == IF h.job[2] \in Hooks THEN Signatures(h.job[2]) ELSE {}
           new == [job |-> h.job, attempt |-> h.attempt, read |-> rows[h.job].attempts,
                   signed |-> signed, answer |-> None]
<1>1. sending' = sending \cup {new} /\ UNCHANGED secretVars
  BY DEF ReadDelivery
<1>2. new.job[2] \in Hooks => SignedFor(new, new.job[2])
  <2>1. ASSUME NEW w \in Hooks
        PROVE  /\ Signatures(w) \subseteq 1..hook[w].secret
               /\ hook[w].secret \in Signatures(w)
               /\ hook[w].previous # 0 => hook[w].previous \in Signatures(w)
    <3>1. /\ hook[w].secret \in Nat \ {0} /\ hook[w].previous \in Nat
          /\ hook[w].previous < hook[w].secret
      BY Sizes DEF DeliveryInv, SecretInv, SecretsFollow
    <3> QED BY <3>1 DEF Signatures
  <2> QED BY <2>1 DEF SignedFor
<1> HIDE DEF new
<1> QED BY <1>1, <1>2 DEF DeliveryInv, SecretInv, secretVars, SecretsFollow, SignedFor

\* A rotation replaces the secret by a new one, which nothing has been signed with yet.
LEMMA RotateKeeps ==
    ASSUME DeliveryInv, NEW w \in Hooks, RotateSecret(w)
    PROVE  SecretInv'
<1>1. PICK read \in {r[2] : r \in {r \in rotating : r[1] = w}} :
          /\ hook[w].secret < MaxSecret
          /\ hook' = [hook EXCEPT ![w] = [secret |-> hook[w].secret + 1,
                                          previous |-> read]]
          /\ rotating' \in {rotating, rotating \ {<<w, read>>}}
          /\ raced' = IF read = hook[w].secret THEN raced \ {w} ELSE raced \cup {w}
          /\ UNCHANGED <<sending, receiver>>
  BY DEF RotateSecret, Predecessor
<1> DEFINE new == [secret |-> hook[w].secret + 1, previous |-> read]
<1>2. /\ hook[w].secret \in 1..MaxSecret /\ read \in 1..MaxSecret /\ read <= hook[w].secret
      /\ \A v \in Hooks : hook[v].secret \in Nat /\ hook[v].previous \in Nat
  BY <1>1, Sizes DEF DeliveryInv, SecretInv
<1>3. /\ new \in [secret : 1..MaxSecret, previous : 0..MaxSecret]
      /\ new.secret = hook[w].secret + 1 /\ new.previous = read
  BY <1>1, <1>2, Sizes
<1>4. hook' = [hook EXCEPT ![w] = new]
  BY <1>1
<1> HIDE DEF new
<1>5. /\ hook' \in [Hooks -> [secret : 1..MaxSecret, previous : 0..MaxSecret]]
      /\ hook'[w] = new /\ \A v \in Hooks : v # w => hook'[v] = hook[v]
  BY <1>3, <1>4 DEF DeliveryInv, SecretInv
<1>6. \A r \in rotating' : r[2] <= hook'[r[1]].secret
  <2>1. ASSUME NEW r \in rotating' PROVE r[2] <= hook'[r[1]].secret
    <3>1. r \in rotating /\ r[1] \in Hooks /\ r[2] \in Nat /\ r[2] <= hook[r[1]].secret
      BY <1>1, Sizes DEF DeliveryInv, SecretInv
    <3> QED BY <1>2, <1>3, <1>5, <3>1
  <2> QED BY <2>1
<1>7. ASSUME NEW v \in Hooks PROVE SecretsFollow(v)'
  <2>1. SecretsFollow(v)
    BY DEF DeliveryInv, SecretInv
  <2>2. CASE v = w
    BY <1>1, <1>2, <1>3, <1>5, <2>2 DEF SecretsFollow
  <2>3. CASE v # w
    BY <1>1, <1>5, <2>1, <2>3 DEF SecretsFollow
  <2> QED BY <2>2, <2>3
<1>8. ASSUME NEW s \in sending, s.job[2] \in Hooks PROVE SignedFor(s, s.job[2])'
  <2>1. SignedFor(s, s.job[2])
    BY <1>8 DEF DeliveryInv, SecretInv
  <2>2. CASE s.job[2] = w
    <3>1. s.signed \subseteq 1..hook[w].secret
      BY <2>1, <2>2 DEF SignedFor
    <3>2. hook'[w].secret \notin s.signed /\ s.signed \subseteq 1..hook'[w].secret
      BY <1>2, <1>3, <1>5, <3>1
    <3> QED BY <2>2, <3>2 DEF SignedFor
  <2>3. CASE s.job[2] # w
    BY <1>5, <1>8, <2>1, <2>3 DEF SignedFor
  <2> QED BY <2>2, <2>3
<1> QED BY <1>1, <1>5, <1>6, <1>7, <1>8 DEF DeliveryInv, SecretInv

\* Whatever is done with the secrets of a webhook, they follow one another.
LEMMA SecretsKeep ==
    ASSUME DeliveryInv, NEW w \in Hooks, Rotating(w)
    PROVE  SecretInv'
<1> USE DEF DeliveryInv, SecretInv
<1>1. CASE BeginRotation(w)
  <2>1. /\ UNCHANGED <<hook, receiver, raced, sending>>
        /\ rotating' = rotating \cup {<<w, hook[w].secret>>}
    BY <1>1 DEF BeginRotation
  <2>2. hook[w].secret \in 1..MaxSecret /\ hook[w].secret <= hook[w].secret
    BY Sizes
  <2> QED BY <2>1, <2>2 DEF SecretsFollow, SignedFor
<1>2. CASE RotateSecret(w)
  BY <1>2, RotateKeeps
<1>3. CASE RotationFails(w)
  <2>1. UNCHANGED <<hook, receiver, raced, sending>> /\ rotating' \subseteq rotating
    BY <1>3 DEF RotationFails
  <2> QED BY <2>1 DEF SecretsFollow, SignedFor
<1>4. ASSUME NEW secret \in 1..MaxSecret, ReceiverTakes(w, secret) PROVE SecretInv'
  <2>1. /\ UNCHANGED <<hook, rotating, raced, sending>>
        /\ receiver' = [receiver EXCEPT ![w] = secret]
    BY <1>4 DEF ReceiverTakes
  <2> QED BY <2>1 DEF SecretsFollow, SignedFor
<1>5. CASE WindowEnds(w)
  <2> DEFINE new == [hook[w] EXCEPT !.previous = 0]
  <2>1. hook' = [hook EXCEPT ![w] = new] /\ UNCHANGED <<receiver, rotating, raced, sending>>
    BY <1>5 DEF WindowEnds
  <2>2. /\ new \in [secret : 1..MaxSecret, previous : 0..MaxSecret]
        /\ new.secret = hook[w].secret /\ new.previous = 0
        /\ 0 < new.secret
    BY Sizes
  <2> HIDE DEF new
  <2>3. /\ hook' \in [Hooks -> [secret : 1..MaxSecret, previous : 0..MaxSecret]]
        /\ hook'[w] = new /\ \A v \in Hooks : v # w => hook'[v] = hook[v]
    BY <2>1, <2>2
  <2>4. \A v \in Hooks : hook'[v].secret = hook[v].secret
    BY <2>2, <2>3
  <2>5. ASSUME NEW v \in Hooks PROVE SecretsFollow(v)'
    BY <2>1, <2>2, <2>3 DEF SecretsFollow
  <2>6. ASSUME NEW s \in sending, s.job[2] \in Hooks PROVE SignedFor(s, s.job[2])'
    BY <2>1, <2>2, <2>3, <2>6 DEF SignedFor
  <2>7. \A r \in rotating : r[1] \in Hooks
    OBVIOUS
  <2> QED BY <2>1, <2>3, <2>4, <2>5, <2>6, <2>7
<1> QED BY <1>1, <1>2, <1>3, <1>4, <1>5 DEF Rotating

\* A receiver that keeps up holds a secret that signs.
LEMMA SecretsAgree == DeliveryInv => RotationIsSmooth
<1> SUFFICES ASSUME DeliveryInv PROVE RotationIsSmooth
  OBVIOUS
<1>1. ASSUME NEW w \in Hooks \ raced, KeepsUp(w)
      PROVE  /\ receiver[w] \in Signatures(w)
             /\ \A s \in sending :
                   s.job[2] = w /\ hook[w].secret \in s.signed => receiver[w] \in s.signed
  <2>1. /\ hook[w].secret \in Nat \ {0} /\ hook[w].previous \in Nat
        /\ hook[w].previous \in {0, hook[w].secret - 1} /\ receiver[w] \in Nat \ {0}
    BY Sizes DEF DeliveryInv, SecretInv, SecretsFollow
  <2>2. \/ receiver[w] = hook[w].secret
        \/ receiver[w] = hook[w].previous /\ hook[w].previous # 0
    BY <1>1, <2>1 DEF KeepsUp
  <2>3. \A s \in sending : s.job[2] = w => SignedFor(s, w)
    BY DEF DeliveryInv, SecretInv
  <2> QED BY <2>1, <2>2, <2>3 DEF Signatures, SignedFor
<1>2. DOMAIN hook = Hooks
  BY DEF DeliveryInv, SecretInv
<1> QED BY <1>1, <1>2 DEF RotationIsSmooth

-----------------------------------------------------------------------------
(***************************************************************************)
(* Emission.                                                               *)
(***************************************************************************)

\* A row that is inserted has no attempts and no outcome.
LEMMA NewRowIsFresh ==
    NewRow \in RowType /\ NewRow.state = "pending" /\ NewRow.attempts = 0
BY DEF NewRow, RowType, RowState

\* Rows are as they were, or new; jobs are as they were, or wait.
LEMMA EmissionChanges ==
    ASSUME DeliveryInv, NEW c \in Changes, Emitting(c)
    PROVE  /\ \A d \in Jobs : rows'[d] = rows[d] \/ rows'[d] = NewRow
           /\ \A d \in Jobs : status'[d] = status[d] \/ status'[d] = "waiting"
           /\ rows' \in [Jobs -> RowType]
           /\ UNCHANGED <<attempts, hands, sending, accepted>>
<1> USE DEF DeliveryInv, EmissionInv
<1>1. NewRow \in RowType /\ rows \in [Jobs -> RowType] /\ status = [d \in Jobs |-> status[d]]
  BY NewRowIsFresh DEF ContractInv, ContractTypeOK
<1>2. CASE CommitScoped(c)
  BY <1>1, <1>2 DEF CommitScoped, Inserted, Submit
<1>3. CASE InsertJob(c)
  BY <1>1, <1>3 DEF InsertJob, Submit, jobVars
<1>4. ASSUME NEW t \in Targets, InsertRow(c, t)
      PROVE  /\ \A d \in Jobs : rows'[d] = rows[d] \/ rows'[d] = NewRow
             /\ \A d \in Jobs : status'[d] = status[d]
             /\ rows' \in [Jobs -> RowType]
             /\ UNCHANGED <<attempts, hands, sending, accepted>>
  BY <1>1, <1>4 DEF InsertRow, Inserted, jobVars
<1>5. CASE \/ \E scoped \in BOOLEAN : Emit(c, scoped)
           \/ InsertInbox(c) \/ NextPart(c) \/ StatementFails(c) \/ EmitterDies(c)
  BY <1>1, <1>5 DEF Emit, InsertInbox, NextPart, StatementFails, EmitterDies, jobVars
<1> QED BY <1>2, <1>3, <1>4, <1>5 DEF Emitting

\* No attempt is counted and none begins.
LEMMA EmissionCounts ==
    ASSUME DeliveryInv, NEW c \in Changes, Emitting(c)
    PROVE  AttemptInv'
<1>1. /\ \A d \in Jobs : rows'[d] = rows[d] \/ rows'[d] = NewRow
      /\ UNCHANGED <<attempts, hands, sending>>
  BY EmissionChanges
<1>2. \A d \in Jobs : attempts[d] \in Nat /\ Cardinality(Open(hands, d)) \in Nat
                       /\ rows[d].attempts \in Nat
  BY HandsTyped, OpenIsFinite DEF DeliveryInv, EmissionInv, RowType
<1>3. \A d \in Jobs : rows'[d].attempts + Cardinality(Open(hands, d)) <= attempts[d]
  BY <1>1, <1>2, NewRowIsFresh DEF DeliveryInv, AttemptInv, Budget
<1>4. \A d \in Jobs : rows'[d].state = "failed" => rows[d].state = "failed"
  BY <1>1, NewRowIsFresh
<1> QED BY <1>1, <1>3, <1>4 DEF DeliveryInv, AttemptInv, Budget, FailedIsFinal

\* Nothing is said to be accepted.
LEMMA EmissionAccepts ==
    ASSUME DeliveryInv, NEW c \in Changes, Emitting(c)
    PROVE  AcceptInv'
BY EmissionChanges, NewRowIsFresh DEF DeliveryInv, AcceptInv, CompletedWasAccepted

\* A step of the emission of one change: its own rows and jobs, and how far it is.
EmitsFor(c) ==
    /\ \A b \in Changes \ {c} : emitter'[b] = emitter[b] /\ written'[b] = written[b]
    /\ \A d \in Jobs : d[1] # c => rows'[d] = rows[d] /\ status'[d] = status[d]

\* An emission says nothing of another change.
LEMMA OwnEmission ==
    ASSUME DeliveryInv, NEW c \in Changes, Emitting(c)
    PROVE  EmitsFor(c)
<1> USE DEF DeliveryInv, EmissionInv
<1>1. \A b \in Changes \ {c} : emitter'[b] = emitter[b]
  BY DEF Emitting, Emit, CommitScoped, InsertInbox, InsertJob, NextPart, StatementFails,
     EmitterDies, InsertRow, Goes
<1>2. \A b \in Changes \ {c} : written'[b] = written[b]
  BY DEF Emitting, Emit, CommitScoped, InsertInbox, InsertJob, NextPart, StatementFails,
     EmitterDies, InsertRow, Writes
<1>3. ASSUME NEW d \in Jobs, d[1] # c PROVE rows'[d] = rows[d] /\ status'[d] = status[d]
  <2>1. CASE CommitScoped(c)
    <3>1. d \notin {c} \X written[c].rows /\ d \notin {c} \X written[c].jobs
      BY <1>3
    <3> QED BY <2>1, <3>1 DEF CommitScoped, Inserted, Submit
  <2>2. CASE InsertJob(c)
    BY <1>3, <2>2 DEF InsertJob, Submit, jobVars
  <2>3. ASSUME NEW t \in Targets, InsertRow(c, t)
        PROVE  rows'[d] = rows[d] /\ status'[d] = status[d]
    BY <1>3, <2>3 DEF InsertRow, Inserted, jobVars
  <2>4. CASE \/ \E scoped \in BOOLEAN : Emit(c, scoped)
             \/ InsertInbox(c) \/ NextPart(c) \/ StatementFails(c) \/ EmitterDies(c)
    BY <2>4 DEF Emit, InsertInbox, NextPart, StatementFails, EmitterDies, jobVars
  <2> QED BY <2>1, <2>2, <2>3, <2>4 DEF Emitting
<1> QED BY <1>1, <1>2, <1>3 DEF EmitsFor

\* How far an emission is, and what it has inserted, have their types.
LEMMA EmissionTypes ==
    ASSUME DeliveryInv, NEW c \in Changes, Emitting(c)
    PROVE  /\ emitter' \in [Changes -> EmitterType] /\ written' \in [Changes -> WrittenType]
           /\ inbox' \subseteq Changes
<1>1. /\ emitter \in [Changes -> EmitterType] /\ written \in [Changes -> WrittenType]
      /\ inbox \subseteq Changes /\ emitter[c] \in EmitterType /\ written[c] \in WrittenType
  BY DEF DeliveryInv, EmissionInv
<1>2. /\ emitter[c].todo \subseteq Targets /\ emitter[c].stage \in Stages
      /\ emitter[c].scoped \in BOOLEAN /\ emitter[c].row \in Targets \cup {None}
  BY <1>1 DEF EmitterType
<1>3. ASSUME NEW s \in Stages, NEW T \in SUBSET Targets, NEW r \in Targets \cup {None},
             Goes(c, s, T, r)
      PROVE  emitter' \in [Changes -> EmitterType]
  <2> DEFINE e == [stage |-> s, scoped |-> emitter[c].scoped, todo |-> T, row |-> r]
  <2>1. e \in EmitterType /\ emitter' = [emitter EXCEPT ![c] = e]
    BY <1>2, <1>3 DEF Goes, EmitterType
  <2> HIDE DEF e
  <2> QED BY <1>1, <2>1
<1>4. ASSUME NEW w \in WrittenType, Writes(c, w) PROVE written' \in [Changes -> WrittenType]
  BY <1>1, <1>4 DEF Writes
<1>5. {"inbox", "hooks", "channels", "done", "lost"} \subseteq Stages
  BY DEF Stages
<1>6. ASSUME NEW scoped \in BOOLEAN, Emit(c, scoped)
      PROVE  emitter' \in [Changes -> EmitterType]
  <2> DEFINE e == [stage |-> "inbox", scoped |-> scoped, todo |-> {}, row |-> None]
  <2>1. e \in EmitterType /\ emitter' = [emitter EXCEPT ![c] = e]
    BY <1>5, <1>6 DEF Emit, EmitterType
  <2> HIDE DEF e
  <2> QED BY <1>1, <2>1
<1>7. emitter' \in [Changes -> EmitterType]
  <2>1. CASE InsertInbox(c) \/ NextPart(c) \/ StatementFails(c)
    BY <1>2, <1>3, <1>5, <2>1, Sizes DEF InsertInbox, NextPart, StatementFails
  <2>2. CASE CommitScoped(c) \/ InsertJob(c) \/ EmitterDies(c)
    BY <1>2, <1>3, <1>5, <2>2 DEF CommitScoped, InsertJob, EmitterDies
  <2>3. ASSUME NEW t \in Targets, InsertRow(c, t) PROVE emitter' \in [Changes -> EmitterType]
    BY <1>2, <1>3, <2>3 DEF InsertRow
  <2> QED BY <1>6, <2>1, <2>2, <2>3 DEF Emitting
<1>8. written' \in [Changes -> WrittenType]
  <2>1. ASSUME NEW made \in BOOLEAN, Writes(c, [Nothing EXCEPT !.inbox = made])
        PROVE  written' \in [Changes -> WrittenType]
    <3>1. [Nothing EXCEPT !.inbox = made] \in WrittenType
      BY DEF Nothing, WrittenType
    <3> QED BY <1>4, <2>1, <3>1
  <2>2. CASE InsertInbox(c)
    BY <2>1, <2>2 DEF InsertInbox
  <2>3. CASE InsertJob(c)
    <3>1. [written[c] EXCEPT !.jobs = @ \cup {emitter[c].row}] \in WrittenType
      BY <1>1, <1>2, <2>3 DEF InsertJob, WrittenType
    <3> QED BY <1>4, <2>3, <3>1 DEF InsertJob
  <2>4. ASSUME NEW t \in Targets, InsertRow(c, t) PROVE written' \in [Changes -> WrittenType]
    <3>1. [written[c] EXCEPT !.rows = @ \cup {t}] \in WrittenType
      BY <1>1 DEF WrittenType
    <3> QED BY <1>4, <2>4, <3>1 DEF InsertRow
  <2>5. CASE StatementFails(c)
    <3>1. \A part : RolledBack(c, part) \in WrittenType
      BY <1>1 DEF RolledBack, WrittenType
    <3> QED BY <1>1, <1>4, <2>5, <3>1 DEF StatementFails
  <2>6. CASE EmitterDies(c)
    <3>1. Nothing \in WrittenType
      BY DEF Nothing, WrittenType
    <3> QED BY <1>1, <1>4, <2>6, <3>1 DEF EmitterDies
  <2>7. CASE NextPart(c) \/ CommitScoped(c) \/ \E scoped \in BOOLEAN : Emit(c, scoped)
    BY <1>1, <2>7 DEF NextPart, CommitScoped, Emit
  <2> QED BY <2>2, <2>3, <2>4, <2>5, <2>6, <2>7 DEF Emitting
<1>9. inbox' \subseteq Changes
  BY <1>1 DEF Emitting, Emit, CommitScoped, InsertInbox, InsertJob, NextPart, StatementFails,
     EmitterDies, InsertRow
<1> QED BY <1>7, <1>8, <1>9

\* Where an emission goes.
LEMMA WhereItGoes ==
    ASSUME DeliveryInv, NEW c \in Changes, NEW stage, NEW todo, NEW row,
           Goes(c, stage, todo, row)
    PROVE  /\ emitter'[c].stage = stage /\ emitter'[c].scoped = emitter[c].scoped
           /\ emitter'[c].todo = todo /\ emitter'[c].row = row
<1>1. emitter'[c] = [stage |-> stage, scoped |-> emitter[c].scoped, todo |-> todo, row |-> row]
  BY DEF Goes, DeliveryInv, EmissionInv
<1> QED BY <1>1

\* Each step inserts in order.
LEMMA WrittenInOrder ==
    ASSUME DeliveryInv, NEW c \in Changes, Emitting(c)
    PROVE  StepByStep(emitter'[c], written'[c])
<1> DEFINE e == emitter[c]
           w == written[c]
<1>1. /\ StepByStep(e, w) /\ written \in [Changes -> WrittenType] /\ w \in WrittenType
      /\ emitter \in [Changes -> EmitterType] /\ e \in EmitterType
  BY DEF DeliveryInv, EmissionInv, InOrder
<1>2. ASSUME NEW new, Writes(c, new) PROVE written'[c] = new
  BY <1>1, <1>2 DEF Writes
<1>3. ASSUME NEW scoped \in BOOLEAN, Emit(c, scoped)
      PROVE  StepByStep(emitter'[c], written'[c])
  <2>1. /\ emitter'[c].stage = "inbox" /\ emitter'[c].row = None
        /\ written' = written /\ e.stage = "idle"
    BY <1>1, <1>3 DEF Emit
  <2> QED BY <1>1, <2>1 DEF StepByStep, Bare
<1>4. CASE InsertInbox(c)
  <2>1. PICK made : Writes(c, [Nothing EXCEPT !.inbox = made])
    BY <1>4 DEF InsertInbox
  <2>2. written'[c].rows = {} /\ written'[c].jobs = {}
    BY <1>2, <2>1 DEF Nothing
  <2>3. emitter'[c].stage = "hooks" /\ emitter'[c].todo = Hooks /\ emitter'[c].row = None
    BY <1>4, WhereItGoes DEF InsertInbox
  <2> QED BY <2>2, <2>3 DEF StepByStep, Bare
<1>5. ASSUME NEW t \in Targets, InsertRow(c, t) PROVE StepByStep(emitter'[c], written'[c])
  <2>1. /\ e.stage \in {"hooks", "channels"} /\ e.row = None /\ t \in e.todo /\ t # None
        /\ emitter'[c].stage = e.stage /\ emitter'[c].scoped = e.scoped
        /\ emitter'[c].todo = e.todo \ {t} /\ emitter'[c].row = t
    BY <1>5, WhereItGoes, Sizes DEF InsertRow
  <2>2. written'[c].rows = w.rows \cup {t} /\ written'[c].jobs = w.jobs
    BY <1>1, <1>2, <1>5 DEF InsertRow, WrittenType
  <2>3. t \notin w.rows
    BY <1>1, <2>1 DEF StepByStep
  <2>4. None \notin w.rows
    BY <1>1, Sizes DEF WrittenType
  <2>5. CASE e.stage = "hooks"
    <3>1. Bare(w) = {}
      BY <1>1, <2>1, <2>4, <2>5 DEF StepByStep, Bare
    <3> QED BY <1>1, <2>1, <2>2, <2>3, <2>5, <3>1 DEF StepByStep, Bare
  <2>6. CASE e.stage = "channels"
    <3>1. t \in Channels /\ t \notin Hooks
      BY <1>1, <2>1, <2>6, Sizes DEF StepByStep
    <3>2. e.scoped => Bare(w) = {}
      BY <1>1, <2>1, <2>4, <2>6 DEF StepByStep, Bare
    <3> QED BY <1>1, <2>1, <2>2, <2>3, <2>6, <3>1, <3>2 DEF StepByStep, Bare
  <2> QED BY <2>1, <2>5, <2>6
<1>6. CASE InsertJob(c)
  <2>1. /\ e.row # None /\ emitter'[c].stage = e.stage /\ emitter'[c].scoped = e.scoped
        /\ emitter'[c].todo = e.todo /\ emitter'[c].row = None
    BY <1>6, WhereItGoes DEF InsertJob
  <2>2. written'[c].rows = w.rows /\ written'[c].jobs = w.jobs \cup {e.row}
    BY <1>1, <1>2, <1>6 DEF InsertJob, WrittenType
  <2>3. None \notin Hooks
    BY Sizes
  <2> QED BY <1>1, <2>1, <2>2, <2>3 DEF StepByStep, Bare
<1>7. CASE NextPart(c)
  <2>1. /\ written' = written /\ e.row = None /\ e.todo = {}
        /\ emitter'[c].scoped = e.scoped /\ emitter'[c].row = None
        /\ \/ /\ e.stage = "hooks" /\ emitter'[c].stage = "channels"
              /\ emitter'[c].todo = Channels
           \/ e.stage = "channels" /\ ~e.scoped /\ emitter'[c].stage = "done"
    BY <1>7, WhereItGoes DEF NextPart
  <2>2. Hooks \cap Channels = {} /\ None \notin Hooks
    BY Sizes
  <2> QED BY <1>1, <2>1, <2>2 DEF StepByStep, Bare
<1>8. CASE StatementFails(c)
  <2>1. CASE e.stage = "hooks"
    <3>1. /\ emitter'[c].stage = "channels" /\ emitter'[c].scoped = e.scoped
          /\ emitter'[c].todo = Channels /\ emitter'[c].row = None
          /\ written'[c] = RolledBack(c, Hooks)
      BY <1>2, <1>8, <2>1, WhereItGoes DEF StatementFails
    <3>2. Hooks \cap Channels = {} /\ None \notin Hooks
      BY Sizes
    <3>3. CASE e.scoped
      <4>1. written'[c].rows = w.rows \ Hooks /\ written'[c].jobs = w.jobs \ Hooks
        BY <1>1, <3>1, <3>3 DEF RolledBack, WrittenType
      <4> QED BY <1>1, <2>1, <3>1, <3>2, <3>3, <4>1 DEF StepByStep, Bare
    <3>4. CASE ~e.scoped
      <4>1. written'[c] = w
        BY <3>1, <3>4 DEF RolledBack
      <4> QED BY <1>1, <2>1, <3>1, <3>2, <3>4, <4>1 DEF StepByStep, Bare
    <3> QED BY <3>3, <3>4
  <2>2. CASE e.stage = "channels" /\ e.row # None
    <3>1. /\ emitter'[c].stage = "channels" /\ emitter'[c].scoped = e.scoped
          /\ emitter'[c].todo = e.todo /\ emitter'[c].row = None
          /\ written'[c] = RolledBack(c, {e.row})
      BY <1>2, <1>8, <2>2, WhereItGoes DEF StatementFails
    <3>2. None \notin Hooks
      BY Sizes
    <3>3. CASE e.scoped
      <4>1. written'[c].rows = w.rows \ {e.row} /\ written'[c].jobs = w.jobs \ {e.row}
        BY <1>1, <3>1, <3>3 DEF RolledBack, WrittenType
      <4>2. /\ e.row \notin Hooks /\ Hooks \cap w.rows \in {{}, Hooks}
            /\ Bare(w) \subseteq {e.row} /\ w.jobs \subseteq w.rows
            /\ e.todo \subseteq Channels \ w.rows
        BY <1>1, <2>2, <3>3 DEF StepByStep
      <4>3. Bare(written'[c]) = {} /\ written'[c].jobs \subseteq written'[c].rows
        BY <4>1, <4>2 DEF Bare
      <4>4. Hooks \cap written'[c].rows \in {{}, Hooks}
        <5>1. Hooks \cap written'[c].rows = Hooks \cap w.rows
          BY <4>1, <4>2
        <5> QED BY <4>2, <5>1
      <4> QED BY <3>1, <3>2, <3>3, <4>1, <4>2, <4>3, <4>4 DEF StepByStep
    <3>4. CASE ~e.scoped
      <4>1. written'[c] = w
        BY <3>1, <3>4 DEF RolledBack
      <4> QED BY <1>1, <2>2, <3>1, <3>2, <3>4, <4>1 DEF StepByStep, Bare
    <3> QED BY <3>3, <3>4
  <2>3. CASE e.stage = "channels" /\ e.row = None
    <3>1. PICK t \in e.todo : Goes(c, "channels", e.todo \ {t}, None) /\ UNCHANGED written
      BY <1>8, <2>3 DEF StatementFails
    <3>2. /\ emitter'[c].stage = "channels" /\ emitter'[c].scoped = e.scoped
          /\ emitter'[c].todo = e.todo \ {t} /\ emitter'[c].row = None
      BY <3>1, WhereItGoes
    <3> QED BY <1>1, <2>3, <3>1, <3>2, Sizes DEF StepByStep, Bare
  <2> QED BY <1>8, <2>1, <2>2, <2>3 DEF StatementFails
<1>9. CASE CommitScoped(c)
  <2>1. /\ written' = written /\ e.row = None /\ e.stage = "channels" /\ e.scoped
        /\ emitter'[c].stage = "done" /\ emitter'[c].scoped = e.scoped
        /\ emitter'[c].row = None
    BY <1>9, WhereItGoes DEF CommitScoped
  <2> QED BY <1>1, <2>1 DEF StepByStep, Bare
<1>10. CASE EmitterDies(c)
  <2>1. /\ emitter'[c].stage = "lost" /\ emitter'[c].scoped = e.scoped
        /\ emitter'[c].row = None
        /\ written'[c] = IF e.scoped THEN Nothing ELSE w
    BY <1>2, <1>10, WhereItGoes DEF EmitterDies
  <2>2. Nothing.rows = {} /\ Nothing.jobs = {}
    BY DEF Nothing
  <2> QED BY <1>1, <2>1, <2>2 DEF StepByStep, Bare
<1> QED BY <1>3, <1>4, <1>5, <1>6, <1>7, <1>8, <1>9, <1>10 DEF Emitting

\* And others see it when it is committed.
LEMMA ShownInOrder ==
    ASSUME DeliveryInv, NEW c \in Changes, Emitting(c), NEW t \in Targets
    PROVE  /\ Exists(<<c, t>>)' <=> Visible(c)' /\ t \in written'[c].rows
           /\ status'[<<c, t>>] # "absent" <=> Visible(c)' /\ t \in written'[c].jobs
<1> DEFINE e == emitter[c]
           w == written[c]
           d == <<c, t>>
<1>1. /\ StepByStep(e, w) /\ written \in [Changes -> WrittenType] /\ w \in WrittenType
      /\ emitter \in [Changes -> EmitterType] /\ e \in EmitterType
      /\ Exists(d) <=> Visible(c) /\ t \in w.rows
      /\ status[d] # "absent" <=> Visible(c) /\ t \in w.jobs
      /\ d \in Jobs
  BY Sizes DEF DeliveryInv, EmissionInv, InOrder
<1>2. ASSUME NEW new, Writes(c, new) PROVE written'[c] = new
  BY <1>1, <1>2 DEF Writes
<1>3. ASSUME NEW scoped \in BOOLEAN, Emit(c, scoped)
      PROVE  /\ Exists(d)' <=> Visible(c)' /\ t \in written'[c].rows
             /\ status'[d] # "absent" <=> Visible(c)' /\ t \in written'[c].jobs
  <2>1. /\ w.rows = {} /\ w.jobs = {} /\ UNCHANGED <<written, rows, status>>
    BY <1>1, <1>3 DEF Emit, StepByStep, jobVars
  <2> QED BY <1>1, <2>1 DEF Exists
<1>4. CASE InsertInbox(c)
  <2>1. /\ w.rows = {} /\ w.jobs = {} /\ UNCHANGED <<rows, status>>
    BY <1>1, <1>4 DEF InsertInbox, StepByStep, jobVars
  <2>2. written'[c].rows = {} /\ written'[c].jobs = {}
    BY <1>2, <1>4 DEF InsertInbox, Nothing
  <2> QED BY <1>1, <2>1, <2>2 DEF Exists
<1>5. ASSUME NEW u \in Targets, InsertRow(c, u)
      PROVE  /\ Exists(d)' <=> Visible(c)' /\ t \in written'[c].rows
             /\ status'[d] # "absent" <=> Visible(c)' /\ t \in written'[c].jobs
  <2>1. /\ e.stage \in {"hooks", "channels"} /\ status' = status
        /\ emitter'[c].stage = e.stage /\ emitter'[c].scoped = e.scoped
        /\ rows' = IF e.scoped THEN rows
                   ELSE [x \in Jobs |-> IF x \in {<<c, u>>} THEN NewRow ELSE rows[x]]
    BY <1>5, WhereItGoes DEF InsertRow, Inserted, jobVars
  <2>2. written'[c].rows = w.rows \cup {u} /\ written'[c].jobs = w.jobs
    BY <1>1, <1>2, <1>5 DEF InsertRow, WrittenType
  <2>3. Visible(c)' <=> Visible(c)
    BY <2>1 DEF Visible
  <2> QED BY <1>1, <2>1, <2>2, <2>3, NewRowIsFresh DEF Exists, Visible
<1>6. CASE InsertJob(c)
  <2>1. /\ emitter'[c].stage = e.stage /\ emitter'[c].scoped = e.scoped /\ rows' = rows
        /\ e.stage \in {"hooks", "channels"}
        /\ status' = IF e.scoped THEN status
                     ELSE [x \in Jobs |-> IF x \in {<<c, e.row>>} THEN "waiting" ELSE status[x]]
    BY <1>1, <1>6, WhereItGoes DEF InsertJob, Submit, StepByStep, jobVars
  <2>2. written'[c].rows = w.rows /\ written'[c].jobs = w.jobs \cup {e.row}
    BY <1>1, <1>2, <1>6 DEF InsertJob, WrittenType
  <2>3. Visible(c)' <=> Visible(c)
    BY <2>1 DEF Visible
  <2> QED BY <1>1, <2>1, <2>2, <2>3 DEF Exists, Visible
<1>7. CASE NextPart(c)
  <2>1. /\ UNCHANGED <<written, rows, status>> /\ emitter'[c].scoped = e.scoped
        /\ e.stage \in {"hooks", "channels"}
        /\ emitter'[c].stage = "channels" \/ ~e.scoped
    BY <1>7, WhereItGoes DEF NextPart, jobVars
  <2>2. Visible(c)' <=> Visible(c)
    BY <2>1 DEF Visible
  <2> QED BY <1>1, <2>1, <2>2 DEF Exists
<1>8. CASE StatementFails(c)
  <2>1. /\ UNCHANGED <<rows, status>> /\ emitter'[c].scoped = e.scoped
        /\ e.stage \in {"hooks", "channels"} /\ emitter'[c].stage = "channels"
    BY <1>8, WhereItGoes DEF StatementFails, jobVars
  <2>2. Visible(c)' <=> Visible(c)
    BY <2>1 DEF Visible
  <2>3. ~e.scoped => written'[c] = w
    BY <1>2, <1>8 DEF StatementFails, RolledBack
  <2> QED BY <1>1, <2>1, <2>2, <2>3 DEF Exists, Visible
<1>9. CASE CommitScoped(c)
  <2>1. /\ emitter'[c].stage = "done" /\ e.stage = "channels" /\ e.scoped
        /\ written' = written
    BY <1>9, WhereItGoes DEF CommitScoped
  <2>2. /\ rows' = [x \in Jobs |-> IF x \in {c} \X w.rows THEN NewRow ELSE rows[x]]
        /\ status' = [x \in Jobs |-> IF x \in {c} \X w.jobs THEN "waiting" ELSE status[x]]
    BY <1>9 DEF CommitScoped, Inserted, Submit
  <2>3. ~Visible(c) /\ Visible(c)'
    BY <2>1 DEF Visible
  <2> QED BY <1>1, <2>1, <2>2, <2>3, NewRowIsFresh DEF Exists
<1>10. CASE EmitterDies(c)
  <2>1. /\ UNCHANGED <<rows, status>> /\ emitter'[c].scoped = e.scoped
        /\ e.stage \in {"inbox", "hooks", "channels"} /\ emitter'[c].stage = "lost"
    BY <1>10, WhereItGoes DEF EmitterDies, jobVars
  <2>2. Visible(c)' <=> Visible(c)
    BY <2>1 DEF Visible
  <2>3. ~e.scoped => written'[c] = w
    BY <1>2, <1>10 DEF EmitterDies
  <2> QED BY <1>1, <2>1, <2>2, <2>3 DEF Exists, Visible
<1> QED BY <1>3, <1>4, <1>5, <1>6, <1>7, <1>8, <1>9, <1>10 DEF Emitting

\* Emission keeps its own part of the invariant.
LEMMA EmissionKeeps ==
    ASSUME DeliveryInv, NEW c \in Changes, Emitting(c)
    PROVE  EmissionInv'
<1>1. InOrder(c)'
  BY WrittenInOrder, ShownInOrder DEF InOrder
<1>2. ASSUME NEW b \in Changes \ {c} PROVE InOrder(b)'
  <2>1. InOrder(b)
    BY DEF DeliveryInv, EmissionInv
  <2>2. emitter'[b] = emitter[b] /\ written'[b] = written[b]
    BY OwnEmission DEF EmitsFor
  <2>3. \A t \in Targets : rows'[<<b, t>>] = rows[<<b, t>>] /\ status'[<<b, t>>] = status[<<b, t>>]
    BY OwnEmission, Sizes DEF EmitsFor
  <2> QED BY <2>1, <2>2, <2>3 DEF InOrder, Exists, Visible
<1>3. rows' \in [Jobs -> RowType]
  BY EmissionChanges
<1> QED BY <1>1, <1>2, <1>3, EmissionTypes DEF EmissionInv

-----------------------------------------------------------------------------
(***************************************************************************)
(* Delivery, and what the queue does with it.                              *)
(***************************************************************************)

\* Handlers and the queue leave emissions alone, and rows and jobs where they are.
LEMMA EmissionsRest ==
    ASSUME DeliveryInv, UNCHANGED emissionVars, rows' \in [Jobs -> RowType],
           \A d \in Jobs : Exists(d)' <=> Exists(d),
           \A d \in Jobs : status'[d] = "absent" <=> status[d] = "absent"
    PROVE  EmissionInv'
<1> USE DEF DeliveryInv, EmissionInv
<1>1. emitter' = emitter /\ written' = written /\ inbox' = inbox
  BY DEF emissionVars
<1>2. \A c \in Changes : InOrder(c)'
  <2>1. \A c \in Changes, t \in Targets : <<c, t>> \in Jobs
    BY Sizes
  <2>2. \A c \in Changes : Visible(c)' = Visible(c)
    BY <1>1 DEF Visible
  <2> QED BY <1>1, <2>1, <2>2 DEF InOrder
<1> QED BY <1>1, <1>2

\* The queue's own steps never put a row in or take one out.
LEMMA QueueKeepsRows ==
    ASSUME ContractInv,
           \/ \E S \in SUBSET Jobs : Claim(S) \/ GiveUp(S)
           \/ \E h \in hands : Complete(h) \/ CompleteThrows(h) \/ Fail(h)
           \/ UNCHANGED status
    PROVE  \A d \in Jobs : status'[d] = "absent" <=> status[d] = "absent"
<1>1. ASSUME NEW S \in SUBSET Jobs, Claim(S) \/ GiveUp(S), NEW d \in Jobs
      PROVE  status'[d] = "absent" <=> status[d] = "absent"
  BY <1>1 DEF Claim, GiveUp
<1>2. ASSUME NEW h \in hands, Complete(h) \/ CompleteThrows(h) \/ Fail(h), NEW d \in Jobs
      PROVE  status'[d] = "absent" <=> status[d] = "absent"
  <2>1. UNCHANGED status \/ \E s \in {"completed", "dead_letter", "waiting"} : SettleNewest(h, s)
    BY <1>2 DEF Complete, CompleteThrows, Fail
  <2> QED BY <2>1 DEF SettleNewest, Newest, ContractInv, ContractTypeOK
<1> QED BY <1>1, <1>2

\* A hand has a job, a row and an attempt that the job has made.
LEMMA HandHasRow ==
    ASSUME DeliveryInv, NEW h \in hands
    PROVE  /\ h \in HandType /\ Exists(h.job)
           /\ h.phase \in {"claimed", "run"} => h.attempt \in Open(hands, h.job)
<1>1. h \in HandType /\ h.attempt <= attempts[h.job]
  BY HandsTyped DEF DeliveryInv, ContractInv
<1>2. status[h.job] # "absent"
  BY <1>1 DEF DeliveryInv, ContractInv, HandType
<1>3. Exists(h.job)
  <2>1. PICK c \in Changes, t \in Targets : h.job = <<c, t>>
    BY <1>1, Sizes DEF HandType
  <2>2. InOrder(c)
    BY DEF DeliveryInv, EmissionInv
  <2> QED BY <1>2, <2>1, <2>2 DEF InOrder, StepByStep
<1> QED BY <1>1, <1>3 DEF Open, HandType

\* Hands that move on to their end, or leave, are not open any more.
LEMMA Closes ==
    ASSUME DeliveryInv, NEW h \in hands,
           hands' \subseteq hands \/ \E p \in {"ok", "err"} : Move(h, p)
    PROVE  /\ hands' \subseteq HandType
           /\ \A d \in Jobs : Open(hands', d) \subseteq Open(hands, d)
<1>1. hands \subseteq HandType /\ h \in HandType
  BY HandsTyped DEF DeliveryInv
<1>2. CASE hands' \subseteq hands
  BY <1>1, <1>2 DEF Open
<1>3. ASSUME NEW p \in {"ok", "err"}, Move(h, p)
      PROVE  /\ hands' \subseteq HandType
             /\ \A d \in Jobs : Open(hands', d) \subseteq Open(hands, d)
  <2> DEFINE g == [h EXCEPT !.phase = p]
  <2>1. g \in HandType /\ g.phase = p /\ hands' = (hands \ {h}) \cup {g}
    BY <1>1, <1>3 DEF HandType, Move, Phases
  <2> HIDE DEF g
  <2> QED BY <1>1, <2>1 DEF Open
<1> QED BY <1>2, <1>3

\* Attempts that come to an end free what they had of the budget.
LEMMA BudgetFreed ==
    ASSUME DeliveryInv, NEW H \in SUBSET HandType, NEW memory \in SUBSET sending,
           \A d \in Jobs : Open(H, d) \subseteq Open(hands, d)
    PROVE  Budget(H, attempts, rows, memory)
<1>1. /\ Budget(hands, attempts, rows, sending)
      /\ hands \subseteq HandType /\ attempts \in [Jobs -> Nat] /\ sending \subseteq SendType
      /\ \A d \in Jobs : rows[d].attempts \in Nat
  BY HandsTyped, Sizes DEF DeliveryInv, AttemptInv, EmissionInv, RowType
<1>2. \A d \in Jobs : /\ Cardinality(Open(H, d)) <= Cardinality(Open(hands, d))
                       /\ Cardinality(Open(H, d)) \in Nat
                       /\ Cardinality(Open(hands, d)) \in Nat
  BY <1>1, FewerOpen, OpenIsFinite
<1>3. \A s \in memory : s \in sending /\ s.job \in Jobs /\ s.read \in Nat
  BY <1>1 DEF SendType
<1> QED BY <1>1, <1>2, <1>3 DEF Budget

\* A handler begins: its attempt is still open, and it reads a count within the budget.
LEMMA ReadKeeps ==
    ASSUME DeliveryInv, NEW h \in hands, ReadDelivery(h)
    PROVE  EmissionInv' /\ AttemptInv' /\ AcceptInv'
<1> DEFINE signed == IF h.job[2] \in Hooks THEN Signatures(h.job[2]) ELSE {}
           s == [job |-> h.job, attempt |-> h.attempt, read |-> rows[h.job].attempts,
                 signed |-> signed, answer |-> None]
           g == [h EXCEPT !.phase = "run"]
<1>1. /\ h \in HandType /\ hands \subseteq HandType
      /\ h.phase = "claimed" /\ Move(h, "run")
      /\ UNCHANGED <<status, attempts, emissionVars, rows, accepted>>
      /\ sending' = sending \cup {s}
  BY HandsTyped DEF ReadDelivery, Begin, DeliveryInv
<1>2. /\ g \in HandType /\ g.phase = "run" /\ g.job = h.job /\ g.attempt = h.attempt
      /\ hands' = (hands \ {h}) \cup {g}
  BY <1>1 DEF Move, HandType, Phases
<1>3. s \in SendType /\ s.read = rows[s.job].attempts /\ s.answer = None
  <2>1. h.job \in Jobs /\ rows[h.job].attempts \in Nat
    BY <1>1 DEF HandType, DeliveryInv, EmissionInv, RowType
  <2>2. signed \in SUBSET (0..MaxSecret)
    BY Sizes DEF Signatures, DeliveryInv, SecretInv
  <2> HIDE DEF signed
  <2> QED BY <1>1, <2>1, <2>2 DEF SendType, HandType
<1> HIDE DEF s, g
<1>4. \A d \in Jobs : Open(hands', d) = Open(hands, d)
  BY <1>1, <1>2 DEF Open
<1>5. EmissionInv'
  BY <1>1, EmissionsRest DEF Exists, DeliveryInv, EmissionInv
<1>6. AttemptInv'
  <2>1. \A x \in sending' : x \in SendType /\ x.job \in Jobs
    BY <1>1, <1>3 DEF DeliveryInv, AttemptInv, SendType
  <2>2. \A x \in sending' : x.read + Cardinality(Open(hands, x.job)) <= attempts[x.job]
    BY <1>1, <1>3, <2>1 DEF DeliveryInv, AttemptInv, Budget
  <2>3. Budget(hands', attempts', rows', sending')
    BY <1>1, <1>4, <2>1, <2>2 DEF DeliveryInv, AttemptInv, Budget
  <2> QED BY <1>1, <2>1, <2>3 DEF DeliveryInv, AttemptInv, FailedIsFinal
<1>7. AcceptInv'
  <2>1. \A x \in sending' : x.answer = "ok" => x.job \in accepted
    BY <1>1, <1>3 DEF DeliveryInv, AcceptInv, None
  <2>2. \A x \in hands' : x.phase = "ok" => x.job \in accepted
    BY <1>1, <1>2 DEF DeliveryInv, AcceptInv
  <2> QED BY <1>1, <2>1, <2>2 DEF DeliveryInv, AcceptInv, CompletedWasAccepted
<1> QED BY <1>5, <1>6, <1>7

\* A receiver answers, or its answer is lost.
LEMMA AskKeeps ==
    ASSUME DeliveryInv, NEW h \in hands, Ask(h)
    PROVE  EmissionInv' /\ AttemptInv' /\ AcceptInv'
<1>1. PICK s \in Sending(h, {None}), answer \in {"ok", "error"}, taken \in BOOLEAN :
          /\ answer = "ok" => taken
          /\ sending' = (sending \ {s}) \cup {[s EXCEPT !.answer = answer]}
          /\ accepted' = IF taken THEN accepted \cup {h.job} ELSE accepted
          /\ UNCHANGED <<jobVars, emissionVars, rows, secretVars>>
  BY DEF Ask
<1> DEFINE t == [s EXCEPT !.answer = answer]
<1>2. s \in sending /\ s \in SendType /\ s.job = h.job
  BY DEF Sending, DeliveryInv, AttemptInv
<1>3. t \in SendType /\ t.job = h.job /\ t.read = s.read /\ t.answer = answer
  BY <1>2 DEF SendType
<1>4. h.job \in Jobs /\ accepted \subseteq accepted' /\ accepted' \subseteq Jobs
  BY <1>1, <1>2 DEF SendType, DeliveryInv, AcceptInv
<1>5. /\ sending' = (sending \ {s}) \cup {t}
      /\ UNCHANGED <<status, attempts, hands, emissionVars, rows>>
  BY <1>1 DEF jobVars
<1> HIDE DEF t
<1>6. EmissionInv'
  BY <1>5, EmissionsRest DEF Exists, DeliveryInv, EmissionInv
<1>7. AttemptInv'
  <2>1. \A x \in sending' : \E y \in sending : x.job = y.job /\ x.read = y.read
    BY <1>2, <1>3, <1>5
  <2>2. Budget(hands', attempts', rows', sending')
    BY <1>5, <2>1 DEF DeliveryInv, AttemptInv, Budget
  <2> QED BY <1>3, <1>5, <2>2 DEF DeliveryInv, AttemptInv, FailedIsFinal
<1>8. AcceptInv'
  <2>1. t.answer = "ok" => t.job \in accepted'
    BY <1>1, <1>3
  <2> QED BY <1>4, <1>5, <2>1 DEF DeliveryInv, AcceptInv, CompletedWasAccepted
<1> QED BY <1>6, <1>7, <1>8

\* An attempt that is written down is not open any more, and no other has its number.
LEMMA OneLessOpen ==
    ASSUME DeliveryInv, NEW h \in hands, h.phase = "run",
           NEW p \in {"ok", "err"}, Move(h, p)
    PROVE  Cardinality(Open(hands', h.job)) + 1 <= Cardinality(Open(hands, h.job))
<1> DEFINE S == Open(hands, h.job)
           T == Open(hands', h.job)
           g == [h EXCEPT !.phase = p]
<1>1. /\ h \in HandType /\ hands \subseteq HandType
      /\ \A x, y \in hands : x.job = y.job /\ x.attempt = y.attempt => x = y
  BY HandsTyped DEF DeliveryInv, ContractInv
<1>2. /\ g \in HandType /\ g.phase = p /\ hands' = (hands \ {h}) \cup {g}
  BY <1>1 DEF Move, HandType, Phases
<1> HIDE DEF g
<1>3. T \subseteq S \ {h.attempt} /\ h.attempt \in S
  BY <1>1, <1>2 DEF Open
<1>4. IsFiniteSet(S) /\ Cardinality(S) \in Nat
  BY <1>1, OpenIsFinite
<1> HIDE DEF S, T
<1> DEFINE R == S \ {h.attempt}
<1>5. IsFiniteSet(R) /\ Cardinality(R) = Cardinality(S) - 1
  BY <1>3, <1>4, FS_RemoveElement
<1>6. T \in SUBSET R
  BY <1>3
<1> HIDE DEF R
<1>7. Cardinality(T) <= Cardinality(R) /\ IsFiniteSet(T)
  BY <1>5, <1>6, FS_Subset
<1>8. Cardinality(T) \in Nat
  BY <1>7, FS_CardinalityType
<1> QED BY <1>4, <1>5, <1>7, <1>8 DEF S, T

\* recordAttempt: the count that was read is one too low by now, and within the budget;
\* it reaches the last attempt only when the job has made it.
LEMMA CountedInBudget ==
    ASSUME DeliveryInv, NEW h \in hands, h.phase = "run",
           NEW p \in {"ok", "err"}, Move(h, p), UNCHANGED attempts,
           NEW s \in sending, s.job = h.job, sending' = sending \ {s},
           NEW r \in RowType, rows' = [rows EXCEPT ![h.job] = r],
           r.attempts = s.read + 1, r.state = "failed" => s.read + 1 >= MaxAttempts
    PROVE  AttemptInv'
<1>1. /\ h \in HandType /\ hands' \subseteq HandType /\ hands \subseteq HandType
      /\ attempts \in [Jobs -> 0..MaxAttempts]
      /\ sending \subseteq SendType /\ Budget(hands, attempts, rows, sending)
      /\ rows \in [Jobs -> RowType] /\ MaxAttempts \in Nat
  BY Closes, HandsTyped, Sizes DEF DeliveryInv, AttemptInv, EmissionInv
<1>2. h.job \in Jobs /\ s.read \in Nat /\ attempts[h.job] \in 0..MaxAttempts
  BY <1>1 DEF HandType, SendType
<1>3. s.read + Cardinality(Open(hands, h.job)) <= attempts[h.job]
  BY <1>1 DEF Budget
<1>4. /\ Cardinality(Open(hands', h.job)) + 1 <= Cardinality(Open(hands, h.job))
      /\ Cardinality(Open(hands', h.job)) \in Nat /\ Cardinality(Open(hands, h.job)) \in Nat
  BY <1>1, OneLessOpen, OpenIsFinite
<1>5. r.attempts + Cardinality(Open(hands', h.job)) <= attempts[h.job]
  BY <1>2, <1>3, <1>4
<1>6. Budget(hands', attempts, rows, sending')
  <2>1. \A d \in Jobs : Open(hands', d) \subseteq Open(hands, d)
    BY Closes
  <2> QED BY <1>1, <2>1, BudgetFreed
<1>7. Budget(hands', attempts', rows', sending')
  BY <1>1, <1>2, <1>5, <1>6 DEF Budget
<1>8. r.state = "failed" => attempts[h.job] = MaxAttempts
  BY <1>1, <1>2, <1>3, <1>4
<1>9. FailedIsFinal'
  BY <1>1, <1>2, <1>8 DEF FailedIsFinal, DeliveryInv, AttemptInv
<1> QED BY <1>1, <1>7, <1>9 DEF AttemptInv

\* A row that comes to an end is still there.
LEMMA OutcomeKeepsRow ==
    ASSUME DeliveryInv, NEW h \in hands, NEW r \in RowType, r.state # "absent",
           rows' = [rows EXCEPT ![h.job] = r], UNCHANGED <<emissionVars, status>>
    PROVE  EmissionInv'
<1>1. h.job \in Jobs /\ Exists(h.job) /\ rows \in [Jobs -> RowType]
  BY HandHasRow DEF HandType, DeliveryInv, EmissionInv
<1>2. rows' \in [Jobs -> RowType] /\ \A d \in Jobs : Exists(d)' <=> Exists(d)
  BY <1>1 DEF Exists
<1> QED BY <1>2, EmissionsRest

\* What a handler reports to the queue is what its receiver answered.
LEMMA ReportedWasAccepted ==
    ASSUME DeliveryInv, NEW h \in hands, NEW p \in {"ok", "err"}, Move(h, p),
           p = "ok" => h.job \in accepted,
           \A d \in Jobs : rows'[d].state = "delivered" =>
               rows[d].state = "delivered" \/ d \in accepted,
           sending' \subseteq sending, UNCHANGED <<status, accepted>>
    PROVE  AcceptInv'
<1> DEFINE g == [h EXCEPT !.phase = p]
<1>1. h \in HandType
  BY HandHasRow
<1>2. g.phase = p /\ g.job = h.job /\ hands' = (hands \ {h}) \cup {g}
  BY <1>1 DEF Move, HandType, Phases
<1> HIDE DEF g
<1>3. \A x \in hands' : x.phase = "ok" => x.job \in accepted
  BY <1>2 DEF DeliveryInv, AcceptInv
<1> QED BY <1>3 DEF DeliveryInv, AcceptInv, CompletedWasAccepted

\* The handler writes down what came of its attempt.
LEMMA RecordKeeps ==
    ASSUME DeliveryInv, NEW h \in hands, Record(h)
    PROVE  EmissionInv' /\ AttemptInv' /\ AcceptInv'
<1>1. PICK s \in Sending(h, {"ok", "error"}) :
          /\ rows' = [rows EXCEPT ![h.job] =
                 [state |-> IF s.answer = "ok" THEN "delivered" ELSE Failed(s.read + 1),
                  attempts |-> s.read + 1]]
          /\ sending' = sending \ {s}
          /\ Reported(h, s)
          /\ UNCHANGED <<emissionVars, accepted, secretVars>>
  BY DEF Record
<1> DEFINE r == [state |-> IF s.answer = "ok" THEN "delivered" ELSE Failed(s.read + 1),
                 attempts |-> s.read + 1]
           p == IF s.answer = "ok" THEN "ok" ELSE "err"
<1>2. s \in sending /\ s.job = h.job /\ s \in SendType
  BY DEF Sending, DeliveryInv, AttemptInv
<1>3. h.phase = "run" /\ Move(h, p) /\ UNCHANGED <<status, attempts>> /\ p \in {"ok", "err"}
  BY <1>1 DEF Reported, HandlerReturns, HandlerThrows
<1>4. /\ r \in RowType /\ r.attempts = s.read + 1 /\ r.state # "absent"
      /\ r.state = "failed" => s.read + 1 >= MaxAttempts
      /\ r.state = "delivered" => s.answer = "ok"
  BY <1>2 DEF RowType, RowState, Failed, SendType
<1>5. s.answer = "ok" => h.job \in accepted
  BY <1>2 DEF DeliveryInv, AcceptInv
<1>6. rows' = [rows EXCEPT ![h.job] = r]
  BY <1>1
<1>7. p = "ok" => s.answer = "ok"
  OBVIOUS
<1> HIDE DEF r, p
<1>8. AttemptInv'
  BY <1>1, <1>2, <1>3, <1>4, <1>6, CountedInBudget
<1>9. EmissionInv'
  BY <1>1, <1>3, <1>4, <1>6, OutcomeKeepsRow
<1>10. \A d \in Jobs : rows'[d].state = "delivered" =>
           rows[d].state = "delivered" \/ d \in accepted
  BY <1>4, <1>5, <1>6 DEF DeliveryInv, EmissionInv
<1>11. AcceptInv'
  BY <1>1, <1>3, <1>5, <1>7, <1>10, ReportedWasAccepted
<1> QED BY <1>8, <1>9, <1>11

\* Or fails to; the catch clause of a notification may still call it a failure.
LEMMA RecordFailsKeeps ==
    ASSUME DeliveryInv, NEW h \in hands, RecordFails(h)
    PROVE  EmissionInv' /\ AttemptInv' /\ AcceptInv'
<1>1. PICK s \in Sending(h, {"ok", "error"}) :
          /\ sending' = sending \ {s}
          /\ \/ UNCHANGED rows
             \/ rows' = [rows EXCEPT ![h.job] = [state |-> Failed(s.read + 1),
                                                 attempts |-> s.read + 1]]
  BY DEF RecordFails
<1>2. s \in sending /\ s.job = h.job /\ s \in SendType
  BY DEF Sending, DeliveryInv, AttemptInv
<1>3. /\ h.phase = "run" /\ Move(h, "err")
      /\ UNCHANGED <<status, attempts, emissionVars, accepted>>
  BY DEF RecordFails, HandlerThrows
<1>4. CASE UNCHANGED rows
  <2>1. /\ hands' \subseteq HandType /\ sending' \in SUBSET sending
        /\ \A d \in Jobs : Open(hands', d) \subseteq Open(hands, d)
    BY <1>1, <1>3, Closes
  <2>2. AttemptInv'
    BY <1>3, <1>4, <2>1, BudgetFreed DEF DeliveryInv, AttemptInv, FailedIsFinal
  <2>3. EmissionInv'
    BY <1>3, <1>4, EmissionsRest DEF Exists, DeliveryInv, EmissionInv
  <2>4. AcceptInv'
    BY <1>3, <1>4, <2>1, ReportedWasAccepted
  <2> QED BY <2>2, <2>3, <2>4
<1>5. CASE rows' = [rows EXCEPT ![h.job] = [state |-> Failed(s.read + 1), attempts |-> s.read + 1]]
  <2> DEFINE r == [state |-> Failed(s.read + 1), attempts |-> s.read + 1]
  <2>1. /\ r \in RowType /\ r.attempts = s.read + 1 /\ r.state \notin {"absent", "delivered"}
        /\ r.state = "failed" => s.read + 1 >= MaxAttempts
    BY <1>2 DEF RowType, RowState, Failed, SendType
  <2>2. rows' = [rows EXCEPT ![h.job] = r]
    BY <1>5
  <2> HIDE DEF r
  <2>3. AttemptInv'
    BY <1>1, <1>2, <1>3, <2>1, <2>2, CountedInBudget
  <2>4. EmissionInv'
    BY <1>3, <2>1, <2>2, OutcomeKeepsRow
  <2>5. \A d \in Jobs : rows'[d].state = "delivered" => rows[d].state = "delivered"
    BY <2>1, <2>2 DEF DeliveryInv, EmissionInv
  <2>6. AcceptInv'
    BY <1>1, <1>3, <2>5, ReportedWasAccepted
  <2> QED BY <2>3, <2>4, <2>6
<1> QED BY <1>1, <1>4, <1>5

\* The queue settles an attempt that has come to its end.
LEMMA SettleKeeps ==
    ASSUME DeliveryInv, NEW h \in hands, Settle(h)
    PROVE  EmissionInv' /\ AttemptInv' /\ AcceptInv'
<1>1. /\ Complete(h) \/ CompleteThrows(h) \/ Fail(h)
      /\ UNCHANGED <<attempts, emissionVars, rows, sending, accepted>>
      /\ hands' \subseteq hands \/ Move(h, "err")
      /\ h.phase \in {"ok", "err"}
  BY DEF Settle, Complete, CompleteThrows, Fail
<1>2. /\ hands' \subseteq HandType
      /\ \A d \in Jobs : Open(hands', d) \subseteq Open(hands, d)
  BY <1>1, Closes
<1>3. AttemptInv'
  BY <1>1, <1>2, BudgetFreed DEF DeliveryInv, AttemptInv, FailedIsFinal
<1>4. EmissionInv'
  BY <1>1, QueueKeepsRows, EmissionsRest DEF Exists, DeliveryInv, EmissionInv
<1>5. AcceptInv'
  <2>1. h \in HandType
    BY HandHasRow
  <2>2. \A x \in hands' : x.phase = "ok" => x \in hands
    BY <1>1, <2>1 DEF Move, HandType
  <2>3. ASSUME NEW d \in Jobs, status'[d] = "completed" PROVE d \in accepted
    <3>1. \/ UNCHANGED status
          \/ \E s \in {"completed", "dead_letter", "waiting"} :
                SettleNewest(h, s) /\ (s = "completed" => h.phase = "ok")
      BY <1>1 DEF Complete, CompleteThrows, Fail
    <3>2. status \in [Jobs -> {"absent", "waiting", "running", "completed", "dead_letter"}]
      BY DEF DeliveryInv, ContractInv, ContractTypeOK
    <3>3. status[d] = "completed" \/ (d = h.job /\ h.phase = "ok")
      BY <2>1, <2>3, <3>1, <3>2 DEF SettleNewest, HandType
    <3> QED BY <3>3 DEF DeliveryInv, AcceptInv, CompletedWasAccepted
  <2> QED BY <1>1, <2>2, <2>3 DEF DeliveryInv, AcceptInv, CompletedWasAccepted
<1> QED BY <1>3, <1>4, <1>5

\* A worker dies, and what it had in mind is forgotten.
LEMMA DeathKeeps ==
    ASSUME DeliveryInv, NEW h \in hands, WorkerDies(h)
    PROVE  EmissionInv' /\ AttemptInv' /\ AcceptInv'
<1>1. /\ hands' \subseteq hands /\ sending' \in SUBSET sending
      /\ UNCHANGED <<status, attempts, emissionVars, rows, accepted>>
  BY DEF WorkerDies, Lose
<1>2. /\ hands' \subseteq HandType
      /\ \A d \in Jobs : Open(hands', d) \subseteq Open(hands, d)
  BY <1>1, Closes
<1>3. AttemptInv'
  BY <1>1, <1>2, BudgetFreed DEF DeliveryInv, AttemptInv, FailedIsFinal
<1>4. EmissionInv'
  BY <1>1, EmissionsRest DEF Exists, DeliveryInv, EmissionInv
<1>5. AcceptInv'
  BY <1>1 DEF DeliveryInv, AcceptInv, CompletedWasAccepted
<1> QED BY <1>3, <1>4, <1>5

\* A claim opens one attempt, and the job counts it.
LEMMA ClaimOpensOne ==
    ASSUME DeliveryInv, NEW j \in Jobs, Claim({j})
    PROVE  /\ Budget(hands', attempts', rows, sending)
           /\ \A d \in Jobs : attempts'[d] = attempts[d] \/ attempts[d] # MaxAttempts
<1> DEFINE n == attempts[j] + 1
           g == Hand(j, n, "claimed")
<1>1. /\ attempts[j] < MaxAttempts
      /\ attempts' = [d \in Jobs |-> IF d = j THEN n ELSE attempts[d]]
      /\ hands' = hands \cup {g}
  BY DEF Claim
<1>2. /\ hands \subseteq HandType /\ attempts \in [Jobs -> 0..MaxAttempts] /\ MaxAttempts \in Nat
      /\ \A h \in hands : h.attempt <= attempts[h.job]
  BY HandsTyped, Sizes DEF DeliveryInv, ContractInv
<1>3. n \in 1..MaxAttempts /\ attempts[j] \in Nat
  BY <1>1, <1>2
<1>4. g \in HandType /\ g.job = j /\ g.attempt = n /\ g.phase = "claimed"
  BY <1>3 DEF Hand, HandType, Phases
<1> HIDE DEF g
<1>5. hands' \subseteq HandType
  BY <1>1, <1>2, <1>4
<1>6. ASSUME NEW d \in Jobs
      PROVE  Cardinality(Open(hands', d)) =
                 Cardinality(Open(hands, d)) + (IF d = j THEN 1 ELSE 0)
  <2> DEFINE S == Open(hands, d)
             T == Open(hands', d)
  <2>1. IsFiniteSet(S) /\ Cardinality(S) \in Nat
    BY <1>2, OpenIsFinite
  <2>2. CASE d # j
    <3>1. T = S
      BY <1>1, <1>4, <2>2 DEF Open
    <3> HIDE DEF S, T
    <3>2. Cardinality(T) = Cardinality(S) + 0
      BY <2>1, <3>1
    <3> QED BY <2>2, <3>2 DEF S, T
  <2>3. CASE d = j
    <3>1. T = S \cup {n}
      BY <1>1, <1>4, <2>3 DEF Open
    <3>2. n \notin S
      BY <1>2, <1>3, <2>3 DEF Open, HandType
    <3> HIDE DEF S, T, n
    <3>3. Cardinality(S \cup {n}) = Cardinality(S) + 1
      BY <2>1, <3>2, FS_AddElement
    <3>4. Cardinality(T) = Cardinality(S) + 1
      BY <3>1, <3>3
    <3> QED BY <2>3, <3>4 DEF S, T
  <2> QED BY <2>2, <2>3
<1>7. \A d \in Jobs : attempts'[d] = attempts[d] + (IF d = j THEN 1 ELSE 0)
  BY <1>1, <1>2, <1>3
<1>8. ASSUME NEW d \in Jobs, NEW k \in Nat, k + Cardinality(Open(hands, d)) <= attempts[d]
      PROVE  k + Cardinality(Open(hands', d)) <= attempts'[d]
  <2>1. Cardinality(Open(hands, d)) \in Nat /\ attempts[d] \in Nat
    BY <1>2, OpenIsFinite
  <2> QED BY <1>6, <1>7, <1>8, <2>1
<1>9. /\ \A s \in sending : s.job \in Jobs /\ s.read \in Nat
      /\ \A d \in Jobs : rows[d].attempts \in Nat
  BY DEF DeliveryInv, AttemptInv, EmissionInv, SendType, RowType
<1>10. Budget(hands', attempts', rows, sending)
  BY <1>8, <1>9 DEF DeliveryInv, AttemptInv, Budget
<1>11. \A d \in Jobs : attempts'[d] = attempts[d] \/ attempts[d] # MaxAttempts
  BY <1>1, <1>2
<1> QED BY <1>10, <1>11

\* The queue claims a job, or gives it up.
LEMMA TakeKeeps ==
    ASSUME DeliveryInv, NEW j \in Jobs, Take(j)
    PROVE  EmissionInv' /\ AttemptInv' /\ AcceptInv'
<1>1. /\ GiveUp({j}) \/ Claim({j})
      /\ UNCHANGED <<emissionVars, rows, sending, accepted>>
  BY DEF Take, ClaimOrSweep, ClaimOnly
<1>2. EmissionInv'
  BY <1>1, QueueKeepsRows, EmissionsRest DEF Exists, DeliveryInv, EmissionInv
<1>3. AttemptInv'
  <2>1. CASE GiveUp({j})
    BY <1>1, <2>1 DEF GiveUp, DeliveryInv, AttemptInv, FailedIsFinal
  <2>2. CASE Claim({j})
    BY <1>1, <2>2, ClaimOpensOne DEF DeliveryInv, AttemptInv, FailedIsFinal
  <2> QED BY <1>1, <2>1, <2>2
<1>4. AcceptInv'
  <2>1. \A d \in Jobs : status'[d] = "completed" => status[d] = "completed"
    BY <1>1 DEF Claim, GiveUp
  <2>2. \A x \in hands' : x.phase = "ok" => x \in hands
    BY <1>1 DEF Claim, GiveUp, Hand
  <2> QED BY <1>1, <2>1, <2>2 DEF DeliveryInv, AcceptInv, CompletedWasAccepted
<1> QED BY <1>2, <1>3, <1>4

-----------------------------------------------------------------------------
(***************************************************************************)
(* Theorems.                                                               *)
(***************************************************************************)

\* Secrets do not touch deliveries.
LEMMA SecretsLeave ==
    ASSUME DeliveryInv, NEW w \in Hooks, Rotating(w)
    PROVE  EmissionInv' /\ AttemptInv' /\ AcceptInv'
<1>1. UNCHANGED <<jobVars, emissionVars, rows, sending, accepted>>
  BY DEF Rotating, BeginRotation, RotateSecret, RotationFails, ReceiverTakes, WindowEnds
<1>2. EmissionInv'
  BY <1>1, EmissionsRest DEF Exists, DeliveryInv, EmissionInv, jobVars
<1>3. AttemptInv' /\ AcceptInv'
  BY <1>1 DEF jobVars, DeliveryInv, AttemptInv, AcceptInv, FailedIsFinal, CompletedWasAccepted
<1> QED BY <1>2, <1>3

\* Every step keeps the invariant.
LEMMA DeliveryKeeps == DeliveryInv /\ [Next]_vars => DeliveryInv'
<1>1. ASSUME DeliveryInv, Next PROVE EmissionInv' /\ AttemptInv' /\ AcceptInv'
  BY <1>1, EmissionKeeps, EmissionCounts, EmissionAccepts, ReadKeeps, AskKeeps, RecordKeeps,
     RecordFailsKeeps, SettleKeeps, DeathKeeps, TakeKeeps, SecretsLeave DEF Next, Delivering
<1>2. ASSUME DeliveryInv, Next PROVE SecretInv'
  <2>1. ASSUME NEW c \in Changes, Emitting(c)
        PROVE  UNCHANGED secretVars /\ sending' \subseteq sending
    BY <2>1 DEF Emitting, Emit, CommitScoped, InsertInbox, InsertJob, NextPart,
       StatementFails, EmitterDies, InsertRow
  <2>2. ASSUME NEW h \in hands, Record(h) \/ RecordFails(h) \/ Settle(h) \/ WorkerDies(h)
        PROVE  UNCHANGED secretVars /\ sending' \subseteq sending
    BY <2>2 DEF Record, RecordFails, Settle, WorkerDies
  <2>3. ASSUME NEW j \in Jobs, Take(j) PROVE UNCHANGED secretVars /\ sending' \subseteq sending
    BY <2>3 DEF Take
  <2>4. ASSUME NEW h \in hands, Ask(h)
        PROVE  /\ UNCHANGED secretVars
               /\ \A s \in sending' : \E t \in sending : s.job = t.job /\ s.signed = t.signed
    <3>1. PICK s \in sending, answer \in {"ok", "error"} :
             sending' = (sending \ {s}) \cup {[s EXCEPT !.answer = answer]}
      BY <2>4 DEF Ask, Sending
    <3>2. s \in SendType
      BY <1>2 DEF DeliveryInv, AttemptInv
    <3>3. /\ [s EXCEPT !.answer = answer].job = s.job
          /\ [s EXCEPT !.answer = answer].signed = s.signed
      BY <3>2 DEF SendType
    <3>4. UNCHANGED secretVars
      BY <2>4 DEF Ask
    <3> QED BY <3>1, <3>3, <3>4
  <2>5. SecretInv
    BY <1>2 DEF DeliveryInv
  <2>6. \/ \E h \in hands : ReadDelivery(h)
        \/ \E w \in Hooks : Rotating(w)
        \/ /\ UNCHANGED secretVars
           /\ \A s \in sending' : \E t \in sending : s.job = t.job /\ s.signed = t.signed
    BY <1>2, <2>1, <2>2, <2>3, <2>4 DEF Next, Delivering
  <2> QED BY <1>2, <2>5, <2>6, SecretsAside, SignsWithAll, SecretsKeep
<1>3. ASSUME DeliveryInv, UNCHANGED vars PROVE DeliveryInv'
  <2>1. ContractInv'
    BY <1>3, Sizes, ContractKeeps DEF DeliveryInv, vars
  <2>2. EmissionInv'
    BY <1>3, EmissionsRest DEF vars, jobVars, Exists, DeliveryInv, EmissionInv
  <2>3. AttemptInv' /\ AcceptInv'
    BY <1>3 DEF vars, jobVars, DeliveryInv, AttemptInv, AcceptInv, FailedIsFinal,
       CompletedWasAccepted
  <2>4. SecretInv'
    BY <1>3, SecretsAside DEF vars, DeliveryInv
  <2> QED BY <2>1, <2>2, <2>3, <2>4 DEF DeliveryInv
<1> QED BY <1>1, <1>2, <1>3, ContractOfDelivery DEF DeliveryInv

\* The types of the columns follow: a row counts no more attempts than its job may make.
LEMMA DeliveryTypes == DeliveryInv => DeliveryTypeOK
<1> SUFFICES ASSUME DeliveryInv PROVE DeliveryTypeOK
  OBVIOUS
<1>1. ASSUME NEW d \in Jobs PROVE rows[d].attempts \in 0..MaxAttempts
  <2>1. /\ rows[d].attempts + Cardinality(Open(hands, d)) <= attempts[d]
        /\ rows[d].attempts \in Nat /\ attempts[d] \in 0..MaxAttempts
        /\ Cardinality(Open(hands, d)) \in Nat /\ MaxAttempts \in Nat
    BY HandsTyped, OpenIsFinite, Sizes
       DEF DeliveryInv, AttemptInv, Budget, EmissionInv, RowType
  <2> QED BY <2>1
<1>2. rows \in [Jobs -> [state : RowState, attempts : 0..MaxAttempts]]
  <2>1. rows \in [Jobs -> RowType]
    BY DEF DeliveryInv, EmissionInv
  <2>2. \A d \in Jobs : rows[d] \in [state : RowState, attempts : 0..MaxAttempts]
    BY <1>1, <2>1 DEF RowType
  <2> QED BY <2>1, <2>2
<1>3. \A s \in sending : /\ s.job \in Jobs /\ s.attempt \in 1..MaxAttempts
                         /\ s.answer \in {None, "ok", "error"}
  BY DEF DeliveryInv, AttemptInv, SendType
<1>4. /\ emitter \in [Changes -> [stage : Stages, scoped : BOOLEAN, todo : SUBSET Targets,
                                  row : Targets \cup {None}]]
      /\ written \in [Changes -> [inbox : BOOLEAN, rows : SUBSET Targets, jobs : SUBSET Targets]]
  BY DEF DeliveryInv, EmissionInv, EmitterType, WrittenType
<1> QED
  BY <1>2, <1>3, <1>4
     DEF DeliveryTypeOK, DeliveryInv, ContractInv, EmissionInv, AcceptInv, SecretInv, RowState

\* The invariant holds of any changes, webhooks, channels, attempts, workers and faults.
THEOREM DeliveryInvariant == Spec => [](DeliveryInv /\ DeliveryTypeOK)
BY InitDelivery, DeliveryKeeps, DeliveryTypes, PTL DEF Spec

\* Deliveries use the queue as its contract allows: a transaction puts in jobs that are new
\* to the queue, and handlers report what the newest attempt came to.
THEOREM DeliversByContract == Spec => ContractSpec
<1>1. Init => ContractInit
  BY DEF Init
<1>2. DeliveryInv /\ [Next]_vars => [ContractNext]_jobVars
  BY QueueOfDelivery
<1> QED BY <1>1, <1>2, DeliveryInvariant, PTL DEF Spec, ContractSpec

\* However attempts, crashes, rotations and failing statements overlap: a job that
\* completed, and a row that says delivered, were accepted by their receiver; and a row
\* says failed only when its job has no attempt left (recordAttempt of webhooks.ts and
\* notifications.ts).
THEOREM DeliveriesTellTheTruth == Spec => []RowsTellTheTruth
<1>1. DeliveryInv /\ DeliveryTypeOK => RowsTellTheTruth
  BY DEF DeliveryInv, AttemptInv, AcceptInv, CompletedWasAccepted, FailedIsFinal,
         DeliveryTypeOK, RowsTellTheTruth
<1> QED BY <1>1, DeliveryInvariant, PTL

\* Whatever fails and whoever dies between the statements of an emission: in a tenant scope
\* the webhooks all get their delivery or none does, and each delivery has its job
\* (savepointIfScoped); elsewhere no more than one delivery of a webhook is left without
\* its job.
THEOREM EventsStayWhole == Spec => []EventsAreWhole
<1>1. ASSUME DeliveryInv PROVE EventsAreWhole
  <2>1. ASSUME NEW c \in Changes, NEW t, Has(c, t)
        PROVE  t \in Targets /\ Exists(<<c, t>>)
    BY <1>1, <2>1, Sizes DEF Has, Exists, DeliveryInv, EmissionInv
  <2>2. ASSUME NEW c \in Changes, NEW t \in Targets
        PROVE  /\ Has(c, t) <=> Visible(c) /\ t \in written[c].rows
               /\ Unsent(c, t) <=> Visible(c) /\ t \in Bare(written[c])
    <3>1. InOrder(c) /\ <<c, t>> \in DOMAIN rows
      BY <1>1, Sizes DEF DeliveryInv, EmissionInv
    <3> QED BY <3>1 DEF InOrder, Has, Unsent, Exists, Bare
  <2>3. ASSUME NEW c \in Changes
        PROVE  StepByStep(emitter[c], written[c]) /\ written[c] \in WrittenType
    BY <1>1 DEF DeliveryInv, EmissionInv, InOrder
  <2>4. ASSUME NEW c \in Changes, emitter[c].scoped, NEW t PROVE ~Unsent(c, t)
    <3>1. SUFFICES ASSUME Unsent(c, t) PROVE FALSE
      OBVIOUS
    <3>2. Visible(c) /\ t \in Bare(written[c]) /\ t # None
      BY <2>1, <2>2, <3>1, Sizes DEF Unsent
    <3> QED BY <2>3, <2>4, <3>2 DEF Visible, StepByStep
  <2>5. ASSUME NEW c \in Changes, emitter[c].scoped, NEW w \in Hooks, NEW x \in Hooks
        PROVE  Has(c, w) <=> Has(c, x)
    BY <2>2, <2>3, <2>5, Sizes DEF Visible, StepByStep
  <2>6. ASSUME NEW c \in Changes, ~emitter[c].scoped, NEW w \in Hooks, NEW x \in Hooks,
               Unsent(c, w), Unsent(c, x)
        PROVE  w = x
    BY <2>2, <2>3, <2>6, Sizes DEF StepByStep
  <2>7. DOMAIN emitter = Changes /\ DOMAIN hook = Hooks
    BY <1>1 DEF DeliveryInv, EmissionInv, SecretInv
  <2> QED BY <2>4, <2>5, <2>6, <2>7 DEF EventsAreWhole
<1> QED BY <1>1, DeliveryInvariant, PTL

\* However attempts and rotations overlap, a receiver that keeps up can check what is signed
\* from now on, and whatever is under way that was read since the last rotation; unless that
\* rotation has replaced another secret than it had read (the previous secret of
\* webhooks.ts).
THEOREM RotationStaysSmooth == Spec => []RotationIsSmooth
BY SecretsAgree, DeliveryInvariant, PTL
=============================================================================
