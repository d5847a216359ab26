------------------------------- MODULE Outbox -------------------------------
(* The transactional outbox: app.event_emit fans an event out to its          *)
(* consumers, and one or more relay processes claim, deliver and acknowledge   *)
(* the rows (app/modules/events/relay.ts over migrations 0043, 0049, 0051 and  *)
(* 0052).  An action is one database transaction, or one statement where the   *)
(* code runs several without a lock between them.                              *)
(*                                                                             *)
(* Time is abstracted to what the claim's predicate tells apart: `waiting` is  *)
(* next_attempt_at in the future, `leased` is claimed_at within the lease.     *)
(* How long a rung of the backoff or a lease lasts is left open.               *)
EXTENDS Naturals, FiniteSets

CONSTANTS
    Event,          \* events the application emits
    Consumer,       \* consumer_name
    Relay,          \* processes running the relay loop
    Registered,     \* Registered[e]: consumers with an event_consumer row for e
    Queued,         \* consumers whose delivery is 'outbox' or 'pgboss'
    Built,          \* consumers with handler_built
    Handled,        \* keys of the relay's CONSUMERS map
    MaxAttempts,    \* event_consumer.max_attempts, by consumer
    BatchSize,      \* LIMIT of a claim
    MaxAborts,      \* bound: passes cut short by a crash or a failed write
    MaxOverruns,    \* bound: leases that lapse under a relay still working
    MaxLostCommits, \* bound: commits whose confirmation never reaches the relay
    NoKey           \* a relay with no failure to record

Key == Event \X Consumer

ASSUME ConstantsOK ==
    /\ Registered \in [Event -> SUBSET Consumer]
    /\ Queued \subseteq Consumer
    /\ Built \subseteq Consumer
    /\ Handled \subseteq Consumer
    /\ MaxAttempts \in [Consumer -> Nat \ {0}]
    /\ BatchSize \in Nat \ {0}
    /\ MaxAborts \in Nat
    /\ MaxOverruns \in Nat
    /\ MaxLostCommits \in Nat
    /\ NoKey \notin Key

VARIABLES
    log,            \* event_log: events written
    status,         \* event_outbox.status, "absent" before the fan-out
    attempts,       \* event_outbox.attempts
    waiting,        \* next_attempt_at is still ahead
    leased,         \* claimed_at is set and the lease has not lapsed
    deadLetters,    \* dead_letter rows of origin 'outbox_delivery'
    effects,        \* handler effects committed, a history of the deliveries
    batch,          \* deliveries a relay has claimed and not yet finished
    pc,             \* what a relay does next
    failing,        \* the delivery whose failure a relay is recording
    seen,           \* attempts as outbox_fail's unlocked SELECT read it
    aborts,         \* passes cut short so far
    overruns,       \* leases lapsed under a working relay so far
    lostCommits     \* commits not confirmed so far

rows   == <<status, attempts, waiting, leased>>
relays == <<batch, pc, failing, seen>>
faults == <<aborts, overruns, lostCommits>>
vars   == <<log, rows, deadLetters, effects, relays, faults>>

Status == {"absent", "pending", "claimed", "delivered", "dead"}

TypeOK ==
    /\ log \subseteq Event
    /\ status \in [Key -> Status]
    /\ attempts \in [Key -> Nat]
    /\ waiting \in [Key -> BOOLEAN]
    /\ leased \in [Key -> BOOLEAN]
    /\ deadLetters \subseteq Key
    /\ effects \in [Key -> Nat]
    /\ batch \in [Relay -> SUBSET Key]
    /\ pc \in [Relay -> {"deliver", "fail_read", "fail_write"}]
    /\ failing \in [Relay -> Key \cup {NoKey}]
    /\ seen \in [Relay -> Nat]
    /\ aborts \in 0..MaxAborts
    /\ overruns \in 0..MaxOverruns
    /\ lostCommits \in 0..MaxLostCommits

Init ==
    /\ log = {}
    /\ status = [k \in Key |-> "absent"]
    /\ attempts = [k \in Key |-> 0]
    /\ waiting = [k \in Key |-> FALSE]
    /\ leased = [k \in Key |-> FALSE]
    /\ deadLetters = {}
    /\ effects = [k \in Key |-> 0]
    /\ batch = [w \in Relay |-> {}]
    /\ pc = [w \in Relay |-> "deliver"]
    /\ failing = [w \in Relay |-> NoKey]
    /\ seen = [w \in Relay |-> 0]
    /\ aborts = 0
    /\ overruns = 0
    /\ lostCommits = 0

-----------------------------------------------------------------------------
(* Emission *)

\* The consumers event_emit writes an outbox row for.
FanOut(e) == Registered[e] \cap Queued \cap Built

\* event_emit: a natural key already in the log returns at once, so only the
\* first call writes; the log row and its fan-out are one transaction.
EventEmit(e) ==
    /\ e \notin log
    /\ log' = log \cup {e}
    /\ status' = [k \in Key |-> IF k[1] = e /\ k[2] \in FanOut(e)
                                THEN "pending" ELSE status[k]]
    /\ UNCHANGED <<attempts, waiting, leased, deadLetters, effects, relays, faults>>

-----------------------------------------------------------------------------
(* The relay *)

\* Wrong variants of the claim: one that forgets the lease, one that never takes
\* an abandoned row back, one that counts the first attempt only.
DueIgnoringLease == {k \in Key : status[k] \in {"pending", "claimed"} /\ ~waiting[k]}
DuePendingOnly   == {k \in Key : status[k] = "pending" /\ ~waiting[k] /\ ~leased[k]}
CountFirst(k)    == IF status[k] = "pending" THEN attempts[k] + 1 ELSE attempts[k]

\* Rows the claim may take.  max_attempts is not part of the predicate.
Due == {k \in Key : /\ status[k] \in {"pending", "claimed"}
                    /\ ~waiting[k]
                    /\ ~leased[k]}

\* SET attempts = o.attempts + 1.
Counted(k) == attempts[k] + 1

\* The UPDATE of outbox_claim on the rows it selected.
Take(w, S) ==
    /\ batch' = [batch EXCEPT ![w] = S]
    /\ status' = [k \in Key |-> IF k \in S THEN "claimed" ELSE status[k]]
    /\ leased' = [k \in Key |-> IF k \in S THEN TRUE ELSE leased[k]]
    /\ attempts' = [k \in Key |-> IF k \in S THEN Counted(k) ELSE attempts[k]]

\* outbox_claim: any due rows up to the batch size, since which rows other
\* transactions hold locked (SKIP LOCKED) is not the relay's to choose.
Claim(w) ==
    /\ batch[w] = {}
    /\ \E S \in SUBSET Due : S # {} /\ Cardinality(S) <= BatchSize /\ Take(w, S)
    /\ UNCHANGED <<log, waiting, deadLetters, effects, pc, failing, seen, faults>>

\* The transaction of deliver: the handler's writes and outbox_ack commit
\* together, and the ack touches the row only while it is 'claimed' -- by whom
\* is not asked.
Commit(k) ==
    /\ k[2] \in Handled
    /\ status[k] = "claimed"
    /\ status' = [status EXCEPT ![k] = "delivered"]
    /\ effects' = [effects EXCEPT ![k] = @ + 1]
    /\ UNCHANGED <<log, attempts, waiting, leased, deadLetters>>

\* deliver returns true.
Deliver(w) ==
    /\ pc[w] = "deliver"
    /\ \E k \in batch[w] :
        /\ Commit(k)
        /\ batch' = [batch EXCEPT ![w] = @ \ {k}]
    /\ UNCHANGED <<pc, failing, seen, faults>>

\* The transaction committed but the connection broke before saying so: deliver
\* throws, and the relay records a failure of a delivery that succeeded.
DeliverUnconfirmed(w) ==
    /\ pc[w] = "deliver"
    /\ lostCommits < MaxLostCommits
    /\ lostCommits' = lostCommits + 1
    /\ \E k \in batch[w] :
        /\ Commit(k)
        /\ failing' = [failing EXCEPT ![w] = k]
        /\ pc' = [pc EXCEPT ![w] = "fail_read"]
    /\ UNCHANGED <<batch, seen, aborts, overruns>>

\* The delivery rolled back: no handler, no body, a handler that threw, or an
\* ack that found the row no longer 'claimed'.  Nothing of it is left in the
\* database; the relay goes on to record the failure in a new transaction.
DeliverFails(w) ==
    /\ pc[w] = "deliver"
    /\ \E k \in batch[w] :
        /\ failing' = [failing EXCEPT ![w] = k]
        /\ pc' = [pc EXCEPT ![w] = "fail_read"]
    /\ UNCHANGED <<log, rows, deadLetters, effects, batch, seen, faults>>

\* The failure is recorded, or never will be: on to the next delivery.
Rest(w) ==
    /\ pc' = [pc EXCEPT ![w] = "deliver"]
    /\ failing' = [failing EXCEPT ![w] = NoKey]
    /\ seen' = [seen EXCEPT ![w] = 0]

\* outbox_fail, first statement: the row is read without a lock.
FailRead(w) ==
    /\ pc[w] = "fail_read"
    /\ seen' = [seen EXCEPT ![w] = attempts[failing[w]]]
    /\ pc' = [pc EXCEPT ![w] = "fail_write"]
    /\ UNCHANGED <<log, rows, deadLetters, effects, batch, failing, faults>>

\* Wrong variants: one attempt too many, a dead row without its dead letter, a
\* given-up row in a status the enum does not have.
ExhaustedLate(w) == seen[w] > MaxAttempts[failing[w][2]]
MarkDeadQuietly(k) ==
    /\ status' = [status EXCEPT ![k] = "dead"]
    /\ UNCHANGED <<leased, waiting, deadLetters>>
MarkFailed(k) ==
    /\ status' = [status EXCEPT ![k] = "failed"]
    /\ deadLetters' = deadLetters \cup {k}
    /\ UNCHANGED <<leased, waiting>>

\* outbox_fail, the rest: dead with a dead letter when the attempts read are
\* used up, back to pending behind the backoff otherwise.  Neither UPDATE looks
\* at the row's status.
Exhausted(w) == seen[w] >= MaxAttempts[failing[w][2]]

MarkDead(k) ==
    /\ status' = [status EXCEPT ![k] = "dead"]
    /\ deadLetters' = deadLetters \cup {k}
    /\ UNCHANGED <<leased, waiting>>

MarkPending(k) ==
    /\ status' = [status EXCEPT ![k] = "pending"]
    /\ leased' = [leased EXCEPT ![k] = FALSE]
    /\ waiting' = [waiting EXCEPT ![k] = TRUE]
    /\ UNCHANGED deadLetters

FailWrite(w) ==
    /\ pc[w] = "fail_write"
    /\ \/ Exhausted(w) /\ MarkDead(failing[w])
       \/ ~Exhausted(w) /\ MarkPending(failing[w])
    /\ batch' = [batch EXCEPT ![w] = @ \ {failing[w]}]
    /\ Rest(w)
    /\ UNCHANGED <<log, attempts, effects, faults>>

\* The pass ends with deliveries still claimed: the process died, or
\* recordFailure threw and the exception left relayOnce.  The next pass starts
\* from nothing; the rows wait for their lease.
AbortPass(w) ==
    /\ batch[w] # {}
    /\ aborts < MaxAborts
    /\ aborts' = aborts + 1
    /\ batch' = [batch EXCEPT ![w] = {}]
    /\ Rest(w)
    /\ UNCHANGED <<log, rows, deadLetters, effects, overruns, lostCommits>>

-----------------------------------------------------------------------------
(* The clock *)

\* next_attempt_at passes.
BackoffElapses(k) ==
    /\ waiting[k]
    /\ waiting' = [waiting EXCEPT ![k] = FALSE]
    /\ UNCHANGED <<log, status, attempts, leased, deadLetters, effects, relays, faults>>

Held(k) == \E w \in Relay : k \in batch[w]

\* claimed_at falls behind the lease.  Under a relay still holding the row this
\* is an overrun: the batch took longer than five minutes.
LeaseLapses(k) ==
    /\ status[k] = "claimed"
    /\ leased[k]
    /\ leased' = [leased EXCEPT ![k] = FALSE]
    /\ IF Held(k)
       THEN overruns < MaxOverruns /\ overruns' = overruns + 1
       ELSE UNCHANGED overruns
    /\ UNCHANGED <<log, status, attempts, waiting, deadLetters, effects, relays, aborts, lostCommits>>

-----------------------------------------------------------------------------
\* What a relay that keeps running does next.
Work(w) == Claim(w) \/ Deliver(w) \/ DeliverFails(w) \/ FailRead(w) \/ FailWrite(w)

Next ==
    \/ \E e \in Event : EventEmit(e)
    \/ \E w \in Relay : Work(w) \/ DeliverUnconfirmed(w) \/ AbortPass(w)
    \/ \E k \in Key : BackoffElapses(k) \/ LeaseLapses(k)

\* The relay loop re-arms itself after every pass (worker.ts), and time passes.
\* Nothing obliges the application to emit, or a process to crash.
Fairness ==
    /\ \A w \in Relay : WF_vars(Work(w))
    /\ \A k \in Key : WF_vars(BackoffElapses(k)) /\ WF_vars(LeaseLapses(k))

Spec == Init /\ [][Next]_vars /\ Fairness

-----------------------------------------------------------------------------
(* Properties *)

\* A row's `attempts` pays for everything done with it: each committed handler
\* effect took a claim of its own, and so did each relay that may still commit
\* one.  So the number of times a consumer's writes can land is bounded by a
\* counter an operator can read, whatever leases lapse (outbox_claim,
\* outbox_ack).
EveryRunWasClaimed ==
    \A k \in Key :
        effects[k] + Cardinality({w \in Relay : k \in batch[w] /\ failing[w] # k})
            <= attempts[k]

\* The consumer's writes and the delivered mark are one transaction (relay.ts
\* "ONE TRANSACTION, HANDLER AND ACK TOGETHER"): a row is delivered exactly when
\* its effect landed, once; a dead or pending row has had no effect.
ExactlyOnce ==
    \A k \in Key : effects[k] = IF status[k] = "delivered" THEN 1 ELSE 0

\* 0051 on outbox_ack: handler and mark in one transaction is "what makes a
\* database-only consumer exactly-once rather than at-least-once".
NeverTwice == \A k \in Key : effects[k] <= 1

\* A delivery is never lost silently: dead rows have a dead letter, and a dead
\* letter is never raised for a delivery that later goes through.
DeadIsRecorded == \A k \in Key : status[k] = "dead" <=> k \in deadLetters

\* Between them, failures and interrupted passes account for every attempt: a
\* row is tried at most max_attempts times plus once per aborted pass.
AttemptsAccounted == \A k \in Key : attempts[k] <= MaxAttempts[k[2]] + aborts

\* Delivered and dead are final: no stale relay, late ack or late failure takes
\* a row out of them.
SettledIsFinal ==
    [][\A k \in Key : status[k] \in {"delivered", "dead"} => status'[k] = status[k]]_vars

\* A claimed delivery has its lease held by at most one relay, and every relay
\* that holds a row holds it with the row still claimed.
OneHolder ==
    /\ \A v, w \in Relay : v # w => batch[v] \cap batch[w] = {}
    /\ \A w \in Relay : \A k \in batch[w] : status[k] = "claimed"

\* Whatever crashes and overruns happen, a delivery that is owed is in the end
\* delivered or a dead letter, and stays so: no row is parked for ever (the
\* lease, the backoff and `dead` are there for this).
EveryDeliverySettles ==
    \A k \in Key :
        status[k] = "pending" ~> [](status[k] \in {"delivered", "dead"})

\* ADR-009 and 0051 give max_attempts = 1 to a consumer whose effect must not be
\* repeated: no row is handed to its handler more often than max_attempts.
WithinMaxAttempts == \A k \in Key : attempts[k] <= MaxAttempts[k[2]]

\* The outbox as its consumers see it.
Owed == {k \in Key : status[k] \in {"pending", "claimed"}}
Promise ==
    INSTANCE Delivery WITH
        Wanted  <- [e \in Event |-> FanOut(e)],
        emitted <- log,
        owed    <- Owed,
        done    <- {k \in Key : effects[k] > 0},
        givenUp <- deadLetters

\* While no relay outlives its lease and every commit is confirmed, the rows,
\* leases, retries and dead letters implement Delivery, crashes included.
KeepsPromise == Promise!DSpec

=============================================================================
