---------------------------- MODULE OutboxProof ----------------------------
(* What the outbox keeps for every set of events, consumers and relays.        *)
EXTENDS Outbox, FiniteSetTheorems, TLAPS

-----------------------------------------------------------------------------
(* Types, under every fault *)

\* A relay that is recording a failure still holds the delivery that failed, so
\* outbox_fail is always called with a row the relay claimed.
FailingIsHeld == \A w \in Relay : pc[w] # "deliver" => failing[w] \in batch[w]

Typed == TypeOK /\ FailingIsHeld

\* The types hold on an empty outbox.
LEMMA TypedInit == Init => Typed
BY ConstantsOK DEF Init, Typed, TypeOK, FailingIsHeld, Status

\* Every step keeps the types.
LEMMA TypedStep == Typed /\ [Next]_vars => Typed'
<1> SUFFICES ASSUME Typed, [Next]_vars PROVE Typed'
    OBVIOUS
<1> USE ConstantsOK DEF Typed, TypeOK, FailingIsHeld, Status
<1>1. ASSUME NEW e \in Event, EventEmit(e) PROVE Typed'
    BY <1>1 DEF EventEmit, relays, faults
<1>2. ASSUME NEW w \in Relay, Claim(w) PROVE Typed'
    <2>1. PICK S \in SUBSET Due : Take(w, S)
        BY <1>2 DEF Claim
    <2>2. S \subseteq Key
        BY DEF Due
    <2>3. status' \in [Key -> Status] /\ leased' \in [Key -> BOOLEAN]
        BY <2>1, <2>2 DEF Take
    <2>4. attempts' \in [Key -> Nat]
        BY <2>1, <2>2 DEF Take, Counted
    <2>5. batch' \in [Relay -> SUBSET Key] /\ pc[w] = "deliver"
        BY <1>2, <2>1, <2>2 DEF Claim, Take
    <2> QED
        BY <1>2, <2>1, <2>3, <2>4, <2>5 DEF Claim, Take, faults
<1>3. ASSUME NEW w \in Relay, Deliver(w) PROVE Typed'
    BY <1>3 DEF Deliver, Commit, faults
<1>4. ASSUME NEW w \in Relay, DeliverUnconfirmed(w) PROVE Typed'
    BY <1>4 DEF DeliverUnconfirmed, Commit, faults
<1>5. ASSUME NEW w \in Relay, DeliverFails(w) PROVE Typed'
    BY <1>5 DEF DeliverFails, rows, faults
<1>6. ASSUME NEW w \in Relay, FailRead(w) PROVE Typed'
    BY <1>6 DEF FailRead, rows, faults
<1>7. ASSUME NEW w \in Relay, FailWrite(w) PROVE Typed'
    <2>1. failing[w] \in Key
        BY <1>7 DEF FailWrite
    <2>2. status' \in [Key -> Status] /\ deadLetters' \subseteq Key
        BY <1>7, <2>1 DEF FailWrite, MarkDead, MarkPending
    <2>3. waiting' \in [Key -> BOOLEAN] /\ leased' \in [Key -> BOOLEAN]
        BY <1>7, <2>1 DEF FailWrite, MarkDead, MarkPending
    <2>4. batch' \in [Relay -> SUBSET Key] /\ FailingIsHeld'
        BY <1>7 DEF FailWrite, Rest
    <2> QED
        BY <1>7, <2>2, <2>3, <2>4 DEF FailWrite, Rest, faults
<1>8. ASSUME NEW w \in Relay, AbortPass(w) PROVE Typed'
    <2>1. aborts' \in 0..MaxAborts
        BY <1>8 DEF AbortPass
    <2>2. batch' \in [Relay -> SUBSET Key] /\ FailingIsHeld'
        BY <1>8 DEF AbortPass, Rest
    <2> QED
        BY <1>8, <2>1, <2>2 DEF AbortPass, Rest, rows
<1>9. ASSUME NEW k \in Key, BackoffElapses(k) PROVE Typed'
    BY <1>9 DEF BackoffElapses, relays, faults
<1>10. ASSUME NEW k \in Key, LeaseLapses(k) PROVE Typed'
    BY <1>10 DEF LeaseLapses, Held, relays
<1>11. CASE UNCHANGED vars
    BY <1>11 DEF vars, rows, relays, faults
<1> QED
    BY <1>1, <1>2, <1>3, <1>4, <1>5, <1>6, <1>7, <1>8, <1>9, <1>10, <1>11
    DEF Next, Work

\* Every variable keeps its type whatever lapses, crashes or gets lost.
THEOREM TypeCorrect == Spec => []TypeOK
<1>1. Typed => TypeOK
    BY DEF Typed
<1> QED
    BY TypedInit, TypedStep, <1>1, PTL DEF Spec

-----------------------------------------------------------------------------
(* Exactly once, while no lease is overrun and every commit is confirmed *)

ConfirmedInTime == MaxOverruns = 0 /\ MaxLostCommits = 0

\* A relay's claim is good: the row is still 'claimed' and its lease holds.
HoldsLease == \A w \in Relay : \A k \in batch[w] : status[k] = "claimed" /\ leased[k]

\* No row is held by two relays.
Disjoint == \A v, w \in Relay : v # w => batch[v] \cap batch[w] = {}

\* A row appears with its event.
Unwritten == \A k \in Key : k[1] \notin log => status[k] = "absent"

\* The invariant the results below rest on.  ExactlyOnce alone is not inductive:
\* FailWrite would take back a delivered row if its relay could hold one, and
\* HoldsLease says it cannot; HoldsLease in turn needs Disjoint, or another
\* relay could settle the row first.
Orderly ==
    /\ Typed
    /\ Unwritten
    /\ HoldsLease
    /\ Disjoint
    /\ ExactlyOnce
    /\ DeadIsRecorded

Final == \A k \in Key : status[k] \in {"delivered", "dead"} => status'[k] = status[k]

\* The order of a delivery's states holds on an empty outbox.
LEMMA OrderlyInit == Init => Orderly
<1> SUFFICES ASSUME Init PROVE Orderly
    OBVIOUS
<1>1. Typed
    BY TypedInit
<1> QED
    BY <1>1 DEF Init, Orderly, Unwritten, HoldsLease, Disjoint, ExactlyOnce, DeadIsRecorded

\* Every step keeps it.
LEMMA OrderlyStep ==
    ASSUME ConfirmedInTime, Orderly, [Next]_vars
    PROVE  Orderly' /\ Final
<1> DEFINE Goal ==
        Unwritten' /\ HoldsLease' /\ Disjoint' /\ ExactlyOnce' /\ DeadIsRecorded' /\ Final
<1>t. Typed'
    BY TypedStep DEF Orderly
<1> SUFFICES Goal
    BY <1>t DEF Orderly
<1> USE DEF Orderly, Unwritten, HoldsLease, Disjoint, ExactlyOnce, DeadIsRecorded, Final, Typed, TypeOK
<1>1. ASSUME NEW e \in Event, EventEmit(e) PROVE Goal
    <2>1. \A k \in Key : k[1] = e => status[k] = "absent"
        BY <1>1 DEF EventEmit
    <2>2. \A k \in Key : status[k] # "absent" => status'[k] = status[k]
        BY <1>1, <2>1 DEF EventEmit
    <2>3. \A k \in Key : status'[k] = status[k] \/ (status[k] = "absent" /\ status'[k] = "pending")
        BY <1>1, <2>1 DEF EventEmit
    <2>4. UNCHANGED <<batch, leased, effects, deadLetters>>
        BY <1>1 DEF EventEmit, relays
    <2>5. Unwritten'
        BY <1>1 DEF EventEmit
    <2> QED
        BY <2>2, <2>3, <2>4, <2>5
<1>2. ASSUME NEW w \in Relay, Claim(w) PROVE Goal
    <2>1. PICK S \in SUBSET Due : Take(w, S)
        BY <1>2 DEF Claim
    <2>2. S \subseteq Key /\ \A k \in S : status[k] \in {"pending", "claimed"} /\ ~leased[k]
        BY DEF Due
    <2>3. \A v \in Relay : batch[v] \cap S = {}
        BY <2>2
    <2>4. Disjoint'
        BY <2>1, <2>3 DEF Take
    <2>5. HoldsLease'
        BY <2>1, <2>2 DEF Take
    <2>6. Unwritten' /\ ExactlyOnce' /\ DeadIsRecorded' /\ Final
        BY <1>2, <2>1, <2>2 DEF Claim, Take
    <2> QED
        BY <2>4, <2>5, <2>6
<1>3. ASSUME NEW w \in Relay, Deliver(w) PROVE Goal
    <2>1. PICK k \in batch[w] : Commit(k) /\ batch' = [batch EXCEPT ![w] = @ \ {k}]
        BY <1>3 DEF Deliver
    <2>2. k \in Key /\ log' = log
        BY <2>1 DEF Commit
    <2>3. Disjoint'
        BY <2>1
    <2>4. HoldsLease'
        BY <2>1, <2>2 DEF Commit
    <2>5. Unwritten' /\ ExactlyOnce' /\ DeadIsRecorded' /\ Final
        BY <2>1, <2>2 DEF Commit
    <2> QED
        BY <2>3, <2>4, <2>5
<1>4. ASSUME NEW w \in Relay, DeliverUnconfirmed(w) PROVE Goal
    BY <1>4 DEF DeliverUnconfirmed, ConfirmedInTime
<1>5. ASSUME NEW w \in Relay, DeliverFails(w) PROVE Goal
    BY <1>5 DEF DeliverFails, rows
<1>6. ASSUME NEW w \in Relay, FailRead(w) PROVE Goal
    BY <1>6 DEF FailRead, rows
<1>7. ASSUME NEW w \in Relay, FailWrite(w) PROVE Goal
    <2>1. failing[w] \in batch[w] /\ failing[w] \in Key
        BY <1>7 DEF FailWrite, FailingIsHeld
    <2>2. status[failing[w]] = "claimed" /\ failing[w] \notin deadLetters
        BY <2>1
    <2>3. batch' = [batch EXCEPT ![w] = @ \ {failing[w]}] /\ log' = log /\ effects' = effects
        BY <1>7 DEF FailWrite
    <2>4. CASE MarkDead(failing[w])
        BY <2>1, <2>2, <2>3, <2>4 DEF MarkDead
    <2>5. CASE MarkPending(failing[w])
        BY <2>1, <2>2, <2>3, <2>5 DEF MarkPending
    <2> QED
        BY <1>7, <2>4, <2>5 DEF FailWrite
<1>8. ASSUME NEW w \in Relay, AbortPass(w) PROVE Goal
    BY <1>8 DEF AbortPass, rows
<1>9. ASSUME NEW k \in Key, BackoffElapses(k) PROVE Goal
    BY <1>9 DEF BackoffElapses, relays
<1>10. ASSUME NEW k \in Key, LeaseLapses(k) PROVE Goal
    BY <1>10 DEF LeaseLapses, Held, relays, ConfirmedInTime
<1>11. CASE UNCHANGED vars
    BY <1>11 DEF vars, rows, relays
<1> QED
    BY <1>1, <1>2, <1>3, <1>4, <1>5, <1>6, <1>7, <1>8, <1>9, <1>10, <1>11
    DEF Next, Work

\* When no batch outlasts its lease and every commit is confirmed, a consumer's
\* writes land exactly once per delivered row and never for a dead one, through
\* any number of crashes, retries and relays.
THEOREM DeliveredExactlyOnce ==
    ASSUME ConfirmedInTime
    PROVE  Spec => []ExactlyOnce
<1>1. Orderly => ExactlyOnce
    BY DEF Orderly
<1>2. Orderly /\ [Next]_vars => Orderly'
    BY OrderlyStep
<1> QED
    BY OrderlyInit, <1>1, <1>2, PTL DEF Spec

\* Under the same condition no claim is shared and none goes stale.
THEOREM ClaimsAreExclusive ==
    ASSUME ConfirmedInTime
    PROVE  Spec => []OneHolder
<1>1. Orderly => OneHolder
    BY DEF Orderly, OneHolder, HoldsLease, Disjoint
<1>2. Orderly /\ [Next]_vars => Orderly'
    BY OrderlyStep
<1> QED
    BY OrderlyInit, <1>1, <1>2, PTL DEF Spec

\* Under the same condition a row is dead exactly when it has a dead letter.
THEOREM DeadLettersMatch ==
    ASSUME ConfirmedInTime
    PROVE  Spec => []DeadIsRecorded
<1>1. Orderly => DeadIsRecorded
    BY DEF Orderly
<1>2. Orderly /\ [Next]_vars => Orderly'
    BY OrderlyStep
<1> QED
    BY OrderlyInit, <1>1, <1>2, PTL DEF Spec

\* Under the same condition a settled delivery stays as it settled.
THEOREM SettledStays ==
    ASSUME ConfirmedInTime
    PROVE  Spec => SettledIsFinal
<1>1. Orderly /\ [Next]_vars => Orderly' /\ [Final]_vars
    BY OrderlyStep
<1>2. [Final]_vars <=> [\A k \in Key : status[k] \in {"delivered", "dead"} => status'[k] = status[k]]_vars
    BY DEF Final
<1> QED
    BY OrderlyInit, <1>1, <1>2, PTL DEF Spec, SettledIsFinal

-----------------------------------------------------------------------------
(* The refinement *)

\* An empty outbox has promised nothing.
LEMMA PromiseInit == Init => Promise!DInit
BY DEF Init, Promise!DInit, Owed

\* Emitting, delivering and giving up are the abstract steps; claims, failures,
\* crashes and the clock are invisible to the consumer.
LEMMA PromiseStep ==
    ASSUME ConfirmedInTime, Orderly, [Next]_vars
    PROVE  [Promise!DNext]_(Promise!dvars)
<1> DEFINE done == {k \in Key : effects[k] > 0}
<1> DEFINE Goal == [Promise!DNext]_(Promise!dvars)
<1> USE DEF Orderly, Typed, TypeOK, Owed, Promise!dvars
<1>0. ASSUME UNCHANGED <<log, effects, deadLetters>>, Owed' = Owed PROVE Goal
    BY <1>0
<1>1. ASSUME NEW e \in Event, EventEmit(e) PROVE Goal
    <2>1. \A k \in Key : k[1] = e => status[k] = "absent"
        BY <1>1 DEF EventEmit, Unwritten
    <2>2. {e} \X FanOut(e) = {k \in Key : k[1] = e /\ k[2] \in FanOut(e)}
        BY ConstantsOK DEF Key, FanOut
    <2>3. Owed' = Owed \cup ({e} \X FanOut(e))
        BY <1>1, <2>1, <2>2 DEF EventEmit
    <2>4. [x \in Event |-> FanOut(x)][e] = FanOut(e)
        OBVIOUS
    <2>5. Promise!Emit(e)
        BY <1>1, <2>3, <2>4 DEF EventEmit, Promise!Emit
    <2> QED
        BY <2>5 DEF Promise!DNext
<1>2. ASSUME NEW w \in Relay, Claim(w) PROVE Goal
    <2>1. PICK S \in SUBSET Due : Take(w, S)
        BY <1>2 DEF Claim
    <2>2. Owed' = Owed
        BY <2>1 DEF Take, Due
    <2> QED
        BY <1>0, <1>2, <2>2 DEF Claim
<1>3. ASSUME NEW w \in Relay, Deliver(w) PROVE Goal
    <2>1. PICK k \in batch[w] : Commit(k)
        BY <1>3 DEF Deliver
    <2>2. k \in Key /\ k \in Owed
        BY <2>1 DEF Commit
    <2>3. Owed' = Owed \ {k}
        BY <2>1, <2>2 DEF Commit
    <2>4. done' = done \cup {k}
        BY <2>1, <2>2 DEF Commit
    <2>5. Promise!TakeEffect(k)
        BY <2>1, <2>2, <2>3, <2>4 DEF Commit, Promise!TakeEffect
    <2> QED
        BY <2>2, <2>5 DEF Promise!DNext, Promise!Settle, Key
<1>4. ASSUME NEW w \in Relay, DeliverUnconfirmed(w) PROVE Goal
    BY <1>4 DEF DeliverUnconfirmed, ConfirmedInTime
<1>5. ASSUME NEW w \in Relay, DeliverFails(w) PROVE Goal
    BY <1>0, <1>5 DEF DeliverFails, rows
<1>6. ASSUME NEW w \in Relay, FailRead(w) PROVE Goal
    BY <1>0, <1>6 DEF FailRead, rows
<1>7. ASSUME NEW w \in Relay, FailWrite(w) PROVE Goal
    <2>0. PICK k \in batch[w] : k = failing[w]
        BY <1>7 DEF FailWrite, FailingIsHeld
    <2>1. k \in Key /\ k \in Owed /\ status[k] = "claimed"
        BY DEF HoldsLease
    <2>2. log' = log /\ effects' = effects
        BY <1>7 DEF FailWrite
    <2>3. ASSUME MarkDead(k) PROVE Goal
        <3>1. Owed' = Owed \ {k}
            BY <2>1, <2>3 DEF MarkDead
        <3>2. Promise!GiveUp(k)
            BY <2>1, <2>2, <2>3, <3>1 DEF MarkDead, Promise!GiveUp
        <3> QED
            BY <2>1, <3>2 DEF Promise!DNext, Promise!Settle, Key
    <2>4. ASSUME MarkPending(k) PROVE Goal
        <3>1. Owed' = Owed
            BY <2>1, <2>4 DEF MarkPending
        <3> QED
            BY <1>0, <2>2, <2>4, <3>1 DEF MarkPending
    <2> QED
        BY <1>7, <2>0, <2>3, <2>4 DEF FailWrite
<1>8. ASSUME NEW w \in Relay, AbortPass(w) PROVE Goal
    BY <1>0, <1>8 DEF AbortPass, rows
<1>9. ASSUME NEW k \in Key, BackoffElapses(k) PROVE Goal
    BY <1>0, <1>9 DEF BackoffElapses
<1>10. ASSUME NEW k \in Key, LeaseLapses(k) PROVE Goal
    BY <1>0, <1>10 DEF LeaseLapses
<1>11. CASE UNCHANGED vars
    BY <1>0, <1>11 DEF vars, rows
<1> QED
    BY <1>1, <1>2, <1>3, <1>4, <1>5, <1>6, <1>7, <1>8, <1>9, <1>10, <1>11
    DEF Next, Work

\* Under the same condition the outbox implements Delivery, its liveness apart:
\* every event becomes its deliveries at once, and each of those takes effect or
\* is given up, once.
THEOREM ImplementsDelivery ==
    ASSUME ConfirmedInTime
    PROVE  Spec => Promise!DSafe
<1>1. Orderly /\ [Next]_vars => Orderly' /\ [Promise!DNext]_(Promise!dvars)
    BY OrderlyStep, PromiseStep
<1> QED
    BY OrderlyInit, PromiseInit, <1>1, PTL DEF Spec, Promise!DSafe

-----------------------------------------------------------------------------
(* How often a row is tried *)

\* Attempts spent and not yet paid for by a failure: a row waiting for its next
\* claim has room for one more, and only an aborted pass leaves a claimed row
\* that nobody holds.  A failure being written was read with nothing in between.
Accounted ==
    /\ \A k \in Key :
        /\ attempts[k] <= MaxAttempts[k[2]] + aborts
        /\ status[k] = "absent" => attempts[k] = 0
        /\ status[k] = "pending" \/ (status[k] = "claimed" /\ ~Held(k))
              => attempts[k] < MaxAttempts[k[2]] + aborts
    /\ \A w \in Relay : pc[w] = "fail_write" => seen[w] = attempts[failing[w]]

\* The attempts are accounted for on an empty outbox.
LEMMA AccountedInit == Init => Accounted
<1> USE ConstantsOK DEF Init
<1>1. ASSUME Init, NEW k \in Key PROVE MaxAttempts[k[2]] \in Nat \ {0}
    BY DEF Key
<1> QED
    BY <1>1 DEF Accounted

\* Every step keeps them accounted for.
LEMMA AccountedStep ==
    ASSUME ConfirmedInTime, Orderly, Accounted, [Next]_vars
    PROVE  Accounted'
<1>m. \A k \in Key : MaxAttempts[k[2]] \in Nat \ {0}
    BY ConstantsOK DEF Key
<1>n. aborts \in Nat
    BY ConstantsOK DEF Orderly, Typed, TypeOK
<1> USE <1>m, <1>n DEF Orderly, Typed, TypeOK, Accounted, Held
<1>1. ASSUME NEW e \in Event, EventEmit(e) PROVE Accounted'
    <2>1. \A k \in Key : k[1] = e => status[k] = "absent"
        BY <1>1 DEF EventEmit, Unwritten
    <2>2. \A k \in Key : status'[k] = status[k] \/ (status[k] = "absent" /\ status'[k] = "pending")
        BY <1>1, <2>1 DEF EventEmit
    <2>3. UNCHANGED <<attempts, aborts, batch, pc, seen, failing>>
        BY <1>1 DEF EventEmit, relays, faults
    <2>4. ASSUME NEW k \in Key, status[k] = "absent"
          PROVE  attempts[k] = 0 /\ attempts[k] < MaxAttempts[k[2]] + aborts
        <3>1. attempts[k] = 0
            BY <2>4
        <3>2. MaxAttempts[k[2]] \in Nat /\ MaxAttempts[k[2]] > 0
            BY <1>m
        <3> QED
            BY <3>1, <3>2, <1>n
    <2>5. ASSUME NEW k \in Key
          PROVE  /\ attempts'[k] <= MaxAttempts[k[2]] + aborts'
                 /\ status'[k] = "absent" => attempts'[k] = 0
                 /\ status'[k] = "pending" \/ (status'[k] = "claimed" /\ ~Held(k)')
                       => attempts'[k] < MaxAttempts[k[2]] + aborts'
        BY <2>2, <2>3, <2>4
    <2>6. \A v \in Relay : pc'[v] = "fail_write" => seen'[v] = attempts'[failing'[v]]
        BY <2>3
    <2> QED
        BY <2>5, <2>6
<1>2. ASSUME NEW w \in Relay, Claim(w) PROVE Accounted'
    <2>1. PICK S \in SUBSET Due : Take(w, S)
        BY <1>2 DEF Claim
    <2>2. UNCHANGED <<pc, failing, seen, aborts>> /\ batch[w] = {}
        BY <1>2 DEF Claim, faults
    <2>3. \A v \in Relay : batch[v] \cap S = {}
        BY DEF Due, HoldsLease
    <2>4. \A k \in S : k \in Key /\ attempts[k] < MaxAttempts[k[2]] + aborts
        BY <2>3 DEF Due
    <2>5. \A v \in Relay : pc[v] = "fail_write" => failing[v] \in batch[v] /\ failing[v] \notin S
        BY <2>3 DEF FailingIsHeld
    <2>6. \A k \in Key : /\ k \in S => /\ status'[k] = "claimed"
                                        /\ attempts'[k] = attempts[k] + 1
                                        /\ k \in batch'[w]
                         /\ k \notin S => /\ status'[k] = status[k]
                                           /\ attempts'[k] = attempts[k]
        BY <2>1 DEF Take, Counted
    <2>7. \A v \in Relay : \A k \in batch[v] : k \in batch'[v]
        BY <2>1, <2>2 DEF Take
    <2>8. \A v \in Relay : pc'[v] = "fail_write" => seen'[v] = attempts'[failing'[v]]
        BY <2>2, <2>5, <2>6
    <2>9. \A k \in Key : /\ attempts'[k] <= MaxAttempts[k[2]] + aborts'
                         /\ status'[k] = "absent" => attempts'[k] = 0
                         /\ status'[k] = "pending" \/ (status'[k] = "claimed" /\ ~Held(k)')
                               => attempts'[k] < MaxAttempts[k[2]] + aborts'
        BY <2>2, <2>4, <2>6, <2>7
    <2> QED
        BY <2>8, <2>9
<1>3. ASSUME NEW w \in Relay, Deliver(w) PROVE Accounted'
    <2>1. PICK k \in batch[w] : Commit(k) /\ batch' = [batch EXCEPT ![w] = @ \ {k}]
        BY <1>3 DEF Deliver
    <2>2. \A j \in Key : j # k => (Held(j)' <=> Held(j))
        BY <2>1
    <2> QED
        BY <1>3, <2>1, <2>2 DEF Deliver, Commit, faults
<1>4. ASSUME NEW w \in Relay, DeliverUnconfirmed(w) PROVE Accounted'
    BY <1>4 DEF DeliverUnconfirmed, ConfirmedInTime
<1>5. ASSUME NEW w \in Relay, DeliverFails(w) PROVE Accounted'
    BY <1>5 DEF DeliverFails, rows, faults
<1>6. ASSUME NEW w \in Relay, FailRead(w) PROVE Accounted'
    BY <1>6 DEF FailRead, rows, faults
<1>7. ASSUME NEW w \in Relay, FailWrite(w) PROVE Accounted'
    <2> DEFINE k == failing[w]
    <2>1. k \in Key /\ k \in batch[w] /\ seen[w] = attempts[k]
        BY <1>7 DEF FailWrite, FailingIsHeld
    <2>2. UNCHANGED <<attempts, aborts>> /\ batch' = [batch EXCEPT ![w] = @ \ {k}]
        BY <1>7 DEF FailWrite, faults
    <2>3. \A j \in Key : j # k => (Held(j)' <=> Held(j)) /\ status'[j] = status[j]
        BY <1>7, <2>1, <2>2 DEF FailWrite, MarkDead, MarkPending
    <2>4. \/ status'[k] = "dead"
          \/ status'[k] = "pending" /\ attempts[k] < MaxAttempts[k[2]]
        BY <1>7, <2>1 DEF FailWrite, MarkDead, MarkPending, Exhausted
    <2>5. \A v \in Relay : pc'[v] = "fail_write" => seen'[v] = attempts'[failing'[v]]
        BY <1>7, <2>2 DEF FailWrite, Rest
    <2> QED
        BY <2>1, <2>2, <2>3, <2>4, <2>5
<1>8. ASSUME NEW w \in Relay, AbortPass(w) PROVE Accounted'
    BY <1>8 DEF AbortPass, Rest, rows
<1>9. ASSUME NEW k \in Key, BackoffElapses(k) PROVE Accounted'
    BY <1>9 DEF BackoffElapses, relays, faults
<1>10. ASSUME NEW k \in Key, LeaseLapses(k) PROVE Accounted'
    BY <1>10 DEF LeaseLapses, relays
<1>11. CASE UNCHANGED vars
    BY <1>11 DEF vars, rows, relays, faults
<1> QED
    BY <1>1, <1>2, <1>3, <1>4, <1>5, <1>6, <1>7, <1>8, <1>9, <1>10, <1>11
    DEF Next, Work

\* Under the same condition no row is tried more often than max_attempts plus
\* once for each pass that was cut short.
THEOREM AttemptsAreAccounted ==
    ASSUME ConfirmedInTime
    PROVE  Spec => []AttemptsAccounted
<1>1. Accounted => AttemptsAccounted
    BY DEF Accounted, AttemptsAccounted
<1>2. Orderly /\ Accounted /\ [Next]_vars => Orderly' /\ Accounted'
    BY OrderlyStep, AccountedStep
<1> QED
    BY OrderlyInit, AccountedInit, <1>1, <1>2, PTL DEF Spec

-----------------------------------------------------------------------------
(* Attempts pay for effects, under every fault *)

\* The relays that may still commit the effect of k.
Running(k) == {w \in Relay : k \in batch[w] /\ failing[w] # k}

\* A relay that records no failure is at none, and finitely many hold a row.
Paid ==
    /\ Typed
    /\ \A w \in Relay : pc[w] = "deliver" => failing[w] = NoKey
    /\ \A k \in Key : IsFiniteSet(Running(k)) /\ effects[k] + Cardinality(Running(k)) <= attempts[k]

\* Nothing runs on an empty outbox.
LEMMA PaidInit == Init => Paid
<1> SUFFICES ASSUME Init PROVE Paid
    OBVIOUS
<1>1. \A k \in Key : Running(k) = {}
    BY DEF Init, Running
<1>2. IsFiniteSet({}) /\ Cardinality({}) = 0
    BY FS_EmptySet
<1> QED
    BY <1>1, <1>2, TypedInit DEF Init, Paid

\* One relay more, or fewer, runs k.
LEMMA OneMoreRuns ==
    ASSUME NEW X, IsFiniteSet(X), NEW w, w \notin X
    PROVE  /\ IsFiniteSet(X \cup {w}) /\ Cardinality(X) \in Nat
           /\ Cardinality(X \cup {w}) = Cardinality(X) + 1
BY FS_AddElement, FS_CardinalityType

LEMMA OneFewerRuns ==
    ASSUME NEW X, IsFiniteSet(X), NEW w
    PROVE  /\ IsFiniteSet(X \ {w}) /\ Cardinality(X) \in Nat /\ Cardinality(X \ {w}) \in Nat
           /\ Cardinality(X \ {w}) <= Cardinality(X)
           /\ w \in X => Cardinality(X \ {w}) = Cardinality(X) - 1
<1>1. IsFiniteSet(X \ {w}) /\ Cardinality(X) \in Nat /\ Cardinality(X \ {w}) \in Nat
    BY FS_RemoveElement, FS_CardinalityType
<1>2. CASE w \in X
    <2>1. Cardinality(X \ {w}) = Cardinality(X) - 1
        BY <1>2, FS_RemoveElement
    <2> QED
        BY <1>1, <1>2, <2>1
<1>3. CASE w \notin X
    <2>1. Cardinality(X \ {w}) = Cardinality(X)
        <3>1. X \ {w} = X
            BY <1>3
        <3> QED
            BY <3>1
    <2>2. PICK n \in Nat : n = Cardinality(X)
        BY <1>1
    <2> QED
        BY <1>1, <1>3, <2>1, <2>2
<1> QED
    BY <1>2, <1>3

\* A step after which no row is run by more relays, and none has more effects or
\* fewer attempts.
LEMMA NoneRunsMore ==
    ASSUME Paid, Typed', \A w \in Relay : (pc[w] = "deliver" => failing[w] = NoKey)',
           UNCHANGED <<effects, attempts>>, NEW w \in Relay,
           \A k \in Key : Running(k)' = Running(k) \/ Running(k)' = Running(k) \ {w}
    PROVE  Paid'
<1> SUFFICES ASSUME NEW k \in Key
             PROVE  /\ IsFiniteSet(Running(k)')
                    /\ effects'[k] + Cardinality(Running(k)') <= attempts'[k]
    BY DEF Paid
<1>1. /\ IsFiniteSet(Running(k)) /\ effects[k] + Cardinality(Running(k)) <= attempts[k]
      /\ effects[k] \in Nat /\ attempts[k] \in Nat
    BY DEF Paid, Typed, TypeOK
<1>2. CASE Running(k)' = Running(k)
    BY <1>1, <1>2
<1>3. CASE Running(k)' = Running(k) \ {w}
    <2>1. /\ IsFiniteSet(Running(k) \ {w}) /\ Cardinality(Running(k)) \in Nat
          /\ Cardinality(Running(k) \ {w}) \in Nat
          /\ Cardinality(Running(k) \ {w}) <= Cardinality(Running(k))
        BY <1>1, OneFewerRuns
    <2> QED
        BY <1>1, <1>3, <2>1
<1> QED
    BY <1>2, <1>3

\* The commit spends what the claim of its relay paid.
LEMMA CommitIsPaid ==
    ASSUME Paid, Typed', \A w \in Relay : (pc[w] = "deliver" => failing[w] = NoKey)',
           NEW w \in Relay, NEW k \in batch[w], pc[w] = "deliver", Commit(k),
           \A l \in Key : Running(l)' = IF l = k THEN Running(l) \ {w} ELSE Running(l)
    PROVE  Paid'
<1>1. k \in Key /\ k # NoKey /\ failing[w] = NoKey
    BY ConstantsOK DEF Paid, Typed, TypeOK
<1>2. w \in Running(k)
    BY <1>1 DEF Running
<1>3. attempts' = attempts /\ effects' = [effects EXCEPT ![k] = @ + 1]
    BY DEF Commit
<1> SUFFICES ASSUME NEW l \in Key
             PROVE  /\ IsFiniteSet(Running(l)')
                    /\ effects'[l] + Cardinality(Running(l)') <= attempts'[l]
    BY DEF Paid
<1>4. /\ IsFiniteSet(Running(l)) /\ effects[l] + Cardinality(Running(l)) <= attempts[l]
      /\ effects[l] \in Nat /\ attempts[l] \in Nat
      /\ effects'[l] = IF l = k THEN effects[l] + 1 ELSE effects[l]
    BY <1>3 DEF Paid, Typed, TypeOK
<1>5. CASE l = k
    <2>1. /\ IsFiniteSet(Running(l) \ {w}) /\ Cardinality(Running(l)) \in Nat
          /\ Cardinality(Running(l) \ {w}) = Cardinality(Running(l)) - 1
        BY <1>2, <1>4, <1>5, OneFewerRuns
    <2>2. Running(l)' = Running(l) \ {w}
        BY <1>5
    <2> QED
        BY <1>3, <1>4, <1>5, <2>1, <2>2
<1>6. CASE l # k
    BY <1>3, <1>4, <1>6
<1> QED
    BY <1>5, <1>6

\* Every step keeps the accounts.
LEMMA PaidStep == Paid /\ [Next]_vars => Paid'
<1> SUFFICES ASSUME Paid, [Next]_vars PROVE Paid'
    OBVIOUS
<1>t. Typed /\ Typed'
    BY TypedStep DEF Paid
<1>f. \A w \in Relay : pc[w] = "deliver" => failing[w] = NoKey
    BY DEF Paid
<1>0. ASSUME UNCHANGED <<effects, attempts, batch, failing, pc>> PROVE Paid'
    <2>1. \A k \in Key : Running(k)' = Running(k)
        BY <1>0 DEF Running
    <2> QED
        BY <1>0, <1>t, <1>f, <2>1 DEF Paid
<1>1. ASSUME NEW e \in Event, EventEmit(e) PROVE Paid'
    BY <1>0, <1>1 DEF EventEmit, relays
<1>2. ASSUME NEW w \in Relay, Claim(w) PROVE Paid'
    <2>1. PICK S \in SUBSET Due : Take(w, S)
        BY <1>2 DEF Claim
    <2>2. batch[w] = {} /\ UNCHANGED <<effects, failing, pc>>
        BY <1>2 DEF Claim
    <2>3. failing[w] = NoKey
        <3>1. pc[w] = "deliver"
            BY <1>t, <2>2 DEF Typed, TypeOK, FailingIsHeld
        <3> QED
            BY <1>f, <3>1
    <2>4. batch' = [batch EXCEPT ![w] = S]
        BY <2>1 DEF Take
    <2>5. \A v \in Relay : batch'[v] = IF v = w THEN S ELSE batch[v]
        BY <1>t, <2>4 DEF Typed, TypeOK
    <2> SUFFICES ASSUME NEW k \in Key
                 PROVE  /\ IsFiniteSet(Running(k)')
                        /\ effects'[k] + Cardinality(Running(k)') <= attempts'[k]
        BY <1>t, <1>f, <2>2 DEF Paid
    <2>6. /\ IsFiniteSet(Running(k)) /\ effects[k] + Cardinality(Running(k)) <= attempts[k]
          /\ effects[k] \in Nat /\ attempts[k] \in Nat
          /\ attempts'[k] = IF k \in S THEN attempts[k] + 1 ELSE attempts[k]
        BY <1>t, <2>1 DEF Paid, Typed, TypeOK, Take, Counted
    <2>7. w \notin Running(k)
        BY <2>2 DEF Running
    <2>8. CASE k \in S
        <3>1. Running(k)' = Running(k) \cup {w}
            BY <2>2, <2>3, <2>5, <2>8, ConstantsOK DEF Running
        <3>2. /\ IsFiniteSet(Running(k) \cup {w}) /\ Cardinality(Running(k)) \in Nat
              /\ Cardinality(Running(k) \cup {w}) = Cardinality(Running(k)) + 1
            BY <2>6, <2>7, OneMoreRuns
        <3> QED
            BY <2>2, <2>6, <2>8, <3>1, <3>2
    <2>9. CASE k \notin S
        <3>1. Running(k)' = Running(k)
            BY <2>2, <2>5, <2>9 DEF Running
        <3> QED
            BY <2>2, <2>6, <2>9, <3>1
    <2> QED
        BY <2>8, <2>9
<1>3. ASSUME NEW w \in Relay, Deliver(w) PROVE Paid'
    <2>1. PICK k \in batch[w] : Commit(k) /\ batch' = [batch EXCEPT ![w] = @ \ {k}]
        BY <1>3 DEF Deliver
    <2>2. pc[w] = "deliver" /\ UNCHANGED <<pc, failing>>
        BY <1>3 DEF Deliver
    <2>3. \A v \in Relay : batch'[v] = IF v = w THEN batch[v] \ {k} ELSE batch[v]
        BY <1>t, <2>1 DEF Typed, TypeOK
    <2>4. \A l \in Key : Running(l)' = IF l = k THEN Running(l) \ {w} ELSE Running(l)
        BY <2>2, <2>3 DEF Running
    <2> QED
        BY <1>t, <1>f, <2>1, <2>2, <2>4, CommitIsPaid
<1>4. ASSUME NEW w \in Relay, DeliverUnconfirmed(w) PROVE Paid'
    <2>1. PICK k \in batch[w] : /\ Commit(k) /\ failing' = [failing EXCEPT ![w] = k]
                                /\ pc' = [pc EXCEPT ![w] = "fail_read"]
        BY <1>4 DEF DeliverUnconfirmed
    <2>2. pc[w] = "deliver" /\ batch' = batch /\ failing[w] = NoKey
        BY <1>4, <1>f DEF DeliverUnconfirmed
    <2>3. \A v \in Relay : /\ failing'[v] = IF v = w THEN k ELSE failing[v]
                           /\ pc'[v] = IF v = w THEN "fail_read" ELSE pc[v]
        BY <1>t, <2>1 DEF Typed, TypeOK
    <2>4. \A l \in Key : Running(l)' = IF l = k THEN Running(l) \ {w} ELSE Running(l)
        BY <2>2, <2>3, ConstantsOK DEF Running
    <2>5. \A v \in Relay : (pc[v] = "deliver" => failing[v] = NoKey)'
        BY <1>f, <2>3
    <2> QED
        BY <1>t, <2>1, <2>2, <2>4, <2>5, CommitIsPaid
<1>5. ASSUME NEW w \in Relay, DeliverFails(w) PROVE Paid'
    <2>1. PICK k \in batch[w] : /\ failing' = [failing EXCEPT ![w] = k]
                                /\ pc' = [pc EXCEPT ![w] = "fail_read"]
        BY <1>5 DEF DeliverFails
    <2>2. /\ pc[w] = "deliver" /\ UNCHANGED <<batch, effects, attempts>> /\ failing[w] = NoKey
        BY <1>5, <1>f DEF DeliverFails, rows
    <2>3. \A v \in Relay : /\ failing'[v] = IF v = w THEN k ELSE failing[v]
                           /\ pc'[v] = IF v = w THEN "fail_read" ELSE pc[v]
        BY <1>t, <2>1 DEF Typed, TypeOK
    <2>4. \A l \in Key : Running(l)' = Running(l) \/ Running(l)' = Running(l) \ {w}
        <3>1. \A l \in Key : Running(l)' = IF l = k THEN Running(l) \ {w} ELSE Running(l)
            BY <2>2, <2>3, ConstantsOK DEF Running
        <3> QED
            BY <3>1
    <2>5. \A v \in Relay : (pc[v] = "deliver" => failing[v] = NoKey)'
        BY <1>f, <2>3
    <2> QED
        BY <1>t, <2>2, <2>4, <2>5, NoneRunsMore
<1>6. ASSUME NEW w \in Relay, FailRead(w) PROVE Paid'
    <2>1. /\ UNCHANGED <<batch, failing, effects, attempts>>
          /\ pc' = [pc EXCEPT ![w] = "fail_write"]
        BY <1>6 DEF FailRead, rows
    <2>2. \A v \in Relay : pc'[v] = "deliver" => pc[v] = "deliver"
        BY <1>t, <2>1 DEF Typed, TypeOK
    <2>3. \A k \in Key : Running(k)' = Running(k)
        BY <2>1 DEF Running
    <2>4. \A v \in Relay : (pc[v] = "deliver" => failing[v] = NoKey)'
        BY <1>f, <2>1, <2>2
    <2> QED
        BY <1>t, <2>1, <2>3, <2>4, NoneRunsMore
<1>7. ASSUME NEW w \in Relay, FailWrite(w) PROVE Paid'
    <2>1. /\ pc[w] = "fail_write" /\ UNCHANGED <<effects, attempts>>
          /\ batch' = [batch EXCEPT ![w] = @ \ {failing[w]}]
          /\ pc' = [pc EXCEPT ![w] = "deliver"] /\ failing' = [failing EXCEPT ![w] = NoKey]
        BY <1>7 DEF FailWrite, Rest
    <2>2. \A v \in Relay : /\ batch'[v] = IF v = w THEN batch[v] \ {failing[w]} ELSE batch[v]
                           /\ failing'[v] = IF v = w THEN NoKey ELSE failing[v]
                           /\ v # w => pc'[v] = pc[v]
        BY <1>t, <2>1 DEF Typed, TypeOK
    <2>3. \A k \in Key : Running(k)' = Running(k)
        BY <2>2, ConstantsOK DEF Running
    <2>4. \A v \in Relay : (pc[v] = "deliver" => failing[v] = NoKey)'
        BY <1>f, <2>2
    <2> QED
        BY <1>t, <2>1, <2>3, <2>4, NoneRunsMore
<1>8. ASSUME NEW w \in Relay, AbortPass(w) PROVE Paid'
    <2>1. /\ UNCHANGED <<effects, attempts>> /\ batch' = [batch EXCEPT ![w] = {}]
          /\ pc' = [pc EXCEPT ![w] = "deliver"] /\ failing' = [failing EXCEPT ![w] = NoKey]
        BY <1>8 DEF AbortPass, Rest, rows
    <2>2. \A v \in Relay : /\ batch'[v] = IF v = w THEN {} ELSE batch[v]
                           /\ failing'[v] = IF v = w THEN NoKey ELSE failing[v]
                           /\ v # w => pc'[v] = pc[v]
        BY <1>t, <2>1 DEF Typed, TypeOK
    <2>3. \A k \in Key : Running(k)' = Running(k) \ {w}
        BY <2>2 DEF Running
    <2>4. \A v \in Relay : (pc[v] = "deliver" => failing[v] = NoKey)'
        BY <1>f, <2>2
    <2> QED
        BY <1>t, <2>1, <2>3, <2>4, NoneRunsMore
<1>9. ASSUME NEW k \in Key, BackoffElapses(k) PROVE Paid'
    BY <1>0, <1>9 DEF BackoffElapses, relays
<1>10. ASSUME NEW k \in Key, LeaseLapses(k) PROVE Paid'
    BY <1>0, <1>10 DEF LeaseLapses, relays
<1>11. CASE UNCHANGED vars
    BY <1>0, <1>11 DEF vars, rows, relays
<1> QED
    BY <1>1, <1>2, <1>3, <1>4, <1>5, <1>6, <1>7, <1>8, <1>9, <1>10, <1>11
    DEF Next, Work

\* However many leases lapse under a relay, commits get lost and processes crash,
\* a consumer's writes land at most once for each attempt its row counts.
THEOREM EffectsArePaidFor == Spec => []EveryRunWasClaimed
<1>1. Paid => EveryRunWasClaimed
    BY DEF Paid, EveryRunWasClaimed, Running
<1> QED
    BY PaidInit, PaidStep, <1>1, PTL DEF Spec
=============================================================================
