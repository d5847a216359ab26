------------------------------ MODULE Dispatch ------------------------------
(* Reminders: schedule_job keeps one live job per episode, scheduled_job_claim  *)
(* leases the oldest due job of each tenant, and a dispatcher's tick resolves   *)
(* each job it claimed, in transactions of its own.                             *)
(*                                                                             *)
(* A call of schedule_job is a READ COMMITTED transaction of two statements: an *)
(* UPDATE that finds the live row in its snapshot and locks it as it is by then, *)
(* and an INSERT that meets the unique index.  Its commit is one with the       *)
(* insert: what others see of both changes they see at once.                    *)
(*                                                                             *)
(* The claim is one statement but two steps: it picks from its snapshot, then   *)
(* locks and updates the rows it picked as they are by then.  The lease is a    *)
(* flag that lapses, under a dispatcher still at work only when MaxOverruns     *)
(* allows it.  The clock serves fire_at and lateness and stops at MaxTime.      *)
EXTENDS Integers, FiniteSets, FiniteSetsExt

CONSTANTS
    Job,            \* scheduled_job rows that may be inserted
    Episode,        \* (kind, idempotency_key)
    EpisodeOf,      \* EpisodeOf[j]: the episode a row is of
    Reminder,       \* episodes of kind meeting_reminder
    Tenant,
    TenantOf,       \* TenantOf[e]: the tenant an episode belongs to
    Dispatcher,
    FireAt,         \* fire times jobs may be given
    DropAfter,      \* DROP_AFTER_MINUTES
    Limit,          \* p_limit of a claim
    MaxRounds,      \* rounds of a tick
    MaxTime,        \* bound on the clock
    MaxFaults,      \* bound on failed transactions and crashes
    MaxOverruns,    \* bound on leases that lapse under a dispatcher
    Nobody          \* no job

ASSUME DispatchConstants ==
    /\ EpisodeOf \in [Job -> Episode]
    /\ TenantOf \in [Episode -> Tenant]
    /\ Reminder \subseteq Episode
    /\ FireAt \subseteq 0..MaxTime
    /\ {DropAfter, MaxTime, MaxFaults, MaxOverruns} \subseteq Nat
    /\ {Limit, MaxRounds} \subseteq Nat \ {0}
    /\ Nobody \notin Job /\ IsFiniteSet(Dispatcher)

VARIABLES
    now,            \* clock_timestamp()
    status,         \* scheduled_job.status, "absent" before the insert
    fireAt,         \* scheduled_job.fire_at
    leased,         \* claimed_at is set and younger than the lease
    claims,         \* how often a job has been claimed
    consulted,      \* verdicts reminder_gate recorded for a job
    call,           \* the next statement of the schedule_job call that inserts j
    found,          \* rows its UPDATE found, and once they are locked, canceled
    pc,             \* where each dispatcher is in its tick
    tickAt,         \* `now` of dispatchDueJobs, read once per tick
    rounds,         \* rounds a tick has left
    picked,         \* the claim's CTE `due`: rows chosen but not locked yet
    batch,          \* claimed jobs still to handle
    current,        \* the job whose gate has answered
    served,         \* tenants this tick has taken a job of
    faults, overruns

rows == <<status, fireAt, leased, claims, consulted>>
tick == <<pc, tickAt, rounds, picked, batch, current, served>>
calls == <<call, found>>
vars == <<now, rows, calls, tick, faults, overruns>>

Terminal == {"skipped", "dropped_late"}
Status == {"absent", "pending", "canceled"} \cup Terminal
Tenants(S) == {TenantOf[EpisodeOf[j]] : j \in S}
Held == UNION {batch[d] : d \in Dispatcher} \cup {current[d] : d \in Dispatcher}

DispatchTypeOK ==
    /\ now \in 0..MaxTime
    /\ status \in [Job -> Status]
    /\ fireAt \in [Job -> 0..MaxTime]
    /\ leased \in [Job -> BOOLEAN]
    /\ claims \in [Job -> Nat] /\ consulted \in [Job -> Nat]
    /\ call \in [Job -> {"none", "update", "insert"}] /\ found \in [Job -> SUBSET Job]
    /\ pc \in [Dispatcher -> {"idle", "claim", "lock", "work", "resolve"}]
    /\ tickAt \in [Dispatcher -> 0..MaxTime]
    /\ rounds \in [Dispatcher -> 0..MaxRounds]
    /\ picked \in [Dispatcher -> SUBSET Job]
    /\ batch \in [Dispatcher -> SUBSET Job]
    /\ current \in [Dispatcher -> Job \cup {Nobody}]
    /\ served \in [Dispatcher -> SUBSET Tenant]
    /\ faults \in 0..MaxFaults
    /\ overruns \in 0..MaxOverruns

Init ==
    /\ now = 0
    /\ status = [j \in Job |-> "absent"]
    /\ fireAt = [j \in Job |-> 0]
    /\ leased = [j \in Job |-> FALSE]
    /\ claims = [j \in Job |-> 0] /\ consulted = [j \in Job |-> 0]
    /\ call = [j \in Job |-> "none"] /\ found = [j \in Job |-> {}]
    /\ pc = [d \in Dispatcher |-> "idle"]
    /\ tickAt = [d \in Dispatcher |-> 0]
    /\ rounds = [d \in Dispatcher |-> 0]
    /\ picked = [d \in Dispatcher |-> {}]
    /\ batch = [d \in Dispatcher |-> {}]
    /\ current = [d \in Dispatcher |-> Nobody]
    /\ served = [d \in Dispatcher |-> {}]
    /\ faults = 0 /\ overruns = 0

-----------------------------------------------------------------------------
(* schedule_job *)

\* The rows with canceled_at IS NULL of an episode, terminal ones included.
Live(e) == {j \in Job : EpisodeOf[j] = e /\ status[j] \notin {"absent", "canceled"}}

\* Rows a call has canceled and not committed yet.  Others still read them as they were,
\* cannot change them, and wait or skip them.
Locked == UNION {found[j] : j \in {k \in Job : call[k] = "insert"}}

CallEnds(j) ==
    /\ call' = [call EXCEPT ![j] = "none"]
    /\ found' = [found EXCEPT ![j] = {}]

\* A call begins: the UPDATE's snapshot.
FindLive(j) ==
    /\ status[j] = "absent" /\ call[j] = "none"
    /\ call' = [call EXCEPT ![j] = "update"]
    /\ found' = [found EXCEPT ![j] = Live(EpisodeOf[j])]
    /\ UNCHANGED <<now, rows, tick, faults, overruns>>

\* The UPDATE waits for a row another call has canceled; one that is canceled by then
\* is left out, and nobody looks for the row that took its place.
CancelLive(j) ==
    /\ call[j] = "update" /\ found[j] \cap Locked = {}
    /\ call' = [call EXCEPT ![j] = "insert"]
    /\ found' = [found EXCEPT ![j] = @ \cap Live(EpisodeOf[j])]
    /\ UNCHANGED <<now, rows, tick, faults, overruns>>

\* scheduled_job_episode_uidx: a live row of the episode which the call has not canceled.
Collides(j) == ~(Live(EpisodeOf[j]) \subseteq found[j])

Inserts(j, t) ==
    /\ status' = [i \in Job |-> IF i = j THEN "pending"
                                ELSE IF i \in found[j] THEN "canceled" ELSE status[i]]
    /\ fireAt' = [fireAt EXCEPT ![j] = t]

\* Wrong variant: no unique index.
InsertUnindexed(j, t) ==
    /\ call[j] = "insert"
    /\ Inserts(j, t) /\ CallEnds(j)
    /\ UNCHANGED <<now, leased, claims, consulted, tick, faults, overruns>>

\* The INSERT, and the commit; 23505 rolls the call's own cancel back as well.
InsertJob(j, t) ==
    /\ call[j] = "insert"
    /\ IF Collides(j) THEN UNCHANGED <<status, fireAt>> ELSE Inserts(j, t)
    /\ CallEnds(j)
    /\ UNCHANGED <<now, leased, claims, consulted, tick, faults, overruns>>

\* The transaction fails or its connection is lost before the commit.
CallFails(j) ==
    /\ call[j] # "none" /\ faults < MaxFaults
    /\ CallEnds(j)
    /\ faults' = faults + 1
    /\ UNCHANGED <<now, rows, tick, overruns>>

GoesOn(j) == CancelLive(j) \/ \E t \in FireAt : InsertJob(j, t)

-----------------------------------------------------------------------------
(* scheduled_job_claim *)

\* Wrong variant: jobs never claimed before only.
DueUnclaimed == {j \in Job : status[j] = "pending" /\ fireAt[j] <= now /\ claims[j] = 0}

\* Pending, due, and not under another claim's lease.
Due == {j \in Job : status[j] = "pending" /\ fireAt[j] <= now /\ ~leased[j]}

\* Wrong variant: plain fire_at order, without the tenants.
OldestFirst ==
    {S \in SUBSET Due :
        /\ Cardinality(S) = Min({Limit, Cardinality(Due)})
        /\ \A i \in S, j \in Due \ S : fireAt[i] <= fireAt[j]}

\* CTE `fair`: of each tenant with a due job, one that is due the longest.
Fair ==
    {S \in SUBSET Due :
        /\ \A t \in Tenants(Due) : Cardinality({j \in S : TenantOf[EpisodeOf[j]] = t}) = 1
        /\ \A j \in S : \A i \in Due : Tenants({i}) = Tenants({j}) => fireAt[j] <= fireAt[i]}

\* CTE `due`: ORDER BY fire_at LIMIT p_limit over those.
BatchChoices ==
    {P \in SUBSET Due :
        \E S \in Fair :
            /\ P \subseteq S
            /\ Cardinality(P) = Min({Limit, Cardinality(S)})
            /\ \A i \in P, j \in S \ P : fireAt[i] <= fireAt[j]}

Idle(d) ==
    /\ pc' = [pc EXCEPT ![d] = "idle"]
    /\ tickAt' = [tickAt EXCEPT ![d] = 0]
    /\ rounds' = [rounds EXCEPT ![d] = 0]
    /\ picked' = [picked EXCEPT ![d] = {}]
    /\ batch' = [batch EXCEPT ![d] = {}]
    /\ current' = [current EXCEPT ![d] = Nobody]
    /\ served' = [served EXCEPT ![d] = {}]

\* dispatchDueJobs begins and reads the clock.
StartTick(d) ==
    /\ pc[d] = "idle"
    /\ pc' = [pc EXCEPT ![d] = "claim"]
    /\ tickAt' = [tickAt EXCEPT ![d] = now]
    /\ rounds' = [rounds EXCEPT ![d] = MaxRounds]
    /\ UNCHANGED <<now, rows, calls, picked, batch, current, served, faults, overruns>>

\* The claim's snapshot; a round that finds nothing ends the tick.
Pick(d) ==
    /\ pc[d] = "claim"
    /\ IF Due = {} THEN Idle(d)
       ELSE /\ \E P \in BatchChoices : picked' = [picked EXCEPT ![d] = P]
            /\ pc' = [pc EXCEPT ![d] = "lock"]
            /\ rounds' = [rounds EXCEPT ![d] = @ - 1]
            /\ UNCHANGED <<tickAt, batch, current, served>>
    /\ UNCHANGED <<now, rows, calls, faults, overruns>>

\* FOR UPDATE SKIP LOCKED and the UPDATE.  A row a schedule_job call has canceled and
\* not committed is skipped.  A row changed since the snapshot may be, if the transaction
\* that changed it still holds the lock; once it has committed the row is taken, since
\* only its id is checked again.
LockClaim(d) ==
    /\ pc[d] = "lock"
    /\ \E skip \in SUBSET {j \in picked[d] : leased[j] \/ status[j] # "pending"} :
        LET taken == picked[d] \ (skip \cup Locked)
        IN  IF taken = {} THEN Idle(d) /\ UNCHANGED rows
            ELSE /\ leased' = [j \in Job |-> j \in taken \/ leased[j]]
                 /\ claims' = [j \in Job |-> IF j \in taken THEN claims[j] + 1 ELSE claims[j]]
                 /\ batch' = [batch EXCEPT ![d] = taken]
                 /\ served' = [served EXCEPT ![d] = @ \cup Tenants(taken)]
                 /\ picked' = [picked EXCEPT ![d] = {}]
                 /\ pc' = [pc EXCEPT ![d] = "work"]
                 /\ UNCHANGED <<status, fireAt, consulted, tickAt, rounds, current>>
    /\ UNCHANGED <<now, calls, faults, overruns>>

-----------------------------------------------------------------------------
(* handle *)

\* Wrong variant: a resolution that claims to have sent.
ResolveFired(j, terminal) ==
    /\ j \notin Locked
    /\ status' = [status EXCEPT ![j] = IF @ = "pending" THEN "fired" ELSE @]

\* scheduled_job_resolve: WHERE status = 'pending', by the row as it is once no call
\* holds it.
Resolve(j, terminal) ==
    /\ j \notin Locked
    /\ status' = [status EXCEPT ![j] = IF @ = "pending" THEN terminal ELSE @]

\* The job is done with; after the last one comes the next round, if any is left.
Onward(d, left) ==
    IF left = {} /\ rounds[d] = 0 THEN Idle(d)
    ELSE /\ pc' = [pc EXCEPT ![d] = IF left = {} THEN "claim" ELSE "work"]
         /\ batch' = [batch EXCEPT ![d] = left]
         /\ current' = [current EXCEPT ![d] = Nobody]
         /\ UNCHANGED <<tickAt, rounds, picked, served>>

\* Late by the clock of the tick's start.
TooLate(d, j) == tickAt[d] - fireAt[j] > DropAfter

DropLate(d, j) ==
    /\ pc[d] = "work" /\ j \in batch[d]
    /\ TooLate(d, j)
    /\ Resolve(j, "dropped_late")
    /\ Onward(d, batch[d] \ {j})
    /\ UNCHANGED <<now, fireAt, leased, claims, consulted, calls, faults, overruns>>

\* reminder_gate records a verdict and commits; it does not look at the status.
Consult(d, j) ==
    /\ pc[d] = "work" /\ j \in batch[d]
    /\ ~TooLate(d, j) /\ EpisodeOf[j] \in Reminder
    /\ consulted' = [consulted EXCEPT ![j] = @ + 1]
    /\ pc' = [pc EXCEPT ![d] = "resolve"]
    /\ batch' = [batch EXCEPT ![d] = @ \ {j}]
    /\ current' = [current EXCEPT ![d] = j]
    /\ UNCHANGED <<now, status, fireAt, leased, claims, calls, tickAt, rounds, picked,
                   served, faults, overruns>>

\* Whatever the verdict, the job is skipped: there is no transport yet.
ResolveConsulted(d) ==
    /\ pc[d] = "resolve"
    /\ Resolve(current[d], "skipped")
    /\ Onward(d, batch[d])
    /\ UNCHANGED <<now, fireAt, leased, claims, consulted, calls, faults, overruns>>

\* Every other kind has no handler.
SkipOther(d, j) ==
    /\ pc[d] = "work" /\ j \in batch[d]
    /\ ~TooLate(d, j) /\ EpisodeOf[j] \notin Reminder
    /\ Resolve(j, "skipped")
    /\ Onward(d, batch[d] \ {j})
    /\ UNCHANGED <<now, fireAt, leased, claims, consulted, calls, faults, overruns>>

\* Wrong variant: a job whose resolution failed is handled again at once.
HandleRetries(d) ==
    /\ faults < MaxFaults
    /\ pc[d] = "resolve" /\ Onward(d, batch[d] \cup {current[d]})
    /\ faults' = faults + 1
    /\ UNCHANGED <<now, rows, calls, overruns>>

\* A transaction of handle throws: the job stays pending and leased.
HandleFails(d) ==
    /\ faults < MaxFaults
    /\ \/ pc[d] = "work" /\ \E j \in batch[d] : Onward(d, batch[d] \ {j})
       \/ pc[d] = "resolve" /\ Onward(d, batch[d])
    /\ faults' = faults + 1
    /\ UNCHANGED <<now, rows, calls, overruns>>

\* The worker dies between two transactions.
Crash(d) ==
    /\ pc[d] \in {"work", "resolve"} /\ faults < MaxFaults
    /\ Idle(d)
    /\ faults' = faults + 1
    /\ UNCHANGED <<now, rows, calls, overruns>>

\* claimed_at grows older than the lease.
LeaseLapses(j) ==
    /\ leased[j]
    /\ j \in Held => overruns < MaxOverruns
    /\ overruns' = IF j \in Held THEN overruns + 1 ELSE overruns
    /\ leased' = [leased EXCEPT ![j] = FALSE]
    /\ UNCHANGED <<now, status, fireAt, claims, consulted, calls, tick, faults>>

Clock ==
    /\ now < MaxTime
    /\ now' = now + 1
    /\ UNCHANGED <<rows, calls, tick, faults, overruns>>

Handle(d) ==
    \/ \E j \in batch[d] : DropLate(d, j) \/ Consult(d, j) \/ SkipOther(d, j)
    \/ ResolveConsulted(d)

Dispatches(d) == StartTick(d) \/ Pick(d) \/ LockClaim(d) \/ Handle(d)

Next ==
    \/ \E j \in Job : FindLive(j) \/ GoesOn(j) \/ CallFails(j)
    \/ \E d \in Dispatcher : Dispatches(d) \/ HandleFails(d) \/ Crash(d)
    \/ \E j \in Job : LeaseLapses(j)
    \/ Clock

\* The cron re-arms every tick, a tick and a call of schedule_job go on to their end,
\* leases run out, and time passes.  Nothing makes anybody schedule, fail or crash.
Fairness ==
    /\ \A j \in Job : WF_vars(GoesOn(j))
    /\ \A d \in Dispatcher : WF_vars(Dispatches(d))
    /\ \A j \in Job : WF_vars(LeaseLapses(j))
    /\ WF_vars(Clock)

Spec == Init /\ [][Next]_vars /\ Fairness

-----------------------------------------------------------------------------
(* Properties *)

\* schedule_job: "there is never a window in which two live jobs exist for the same
\* episode".  However calls for one episode overlap, wait for each other, fail or are
\* refused, and whatever becomes of the row meanwhile, an episode that was ever scheduled
\* has exactly one live row: none cancels without a successor, none is added beside it.
OneLiveRow ==
    \A e \in Episode :
        Cardinality(Live(e)) =
            IF \E j \in Job : EpisodeOf[j] = e /\ status[j] # "absent" THEN 1 ELSE 0

\* The gate is asked about a job at most once for each claim of it, even when
\* leases are overrun, transactions fail and workers die.
ConsultedPerClaim == \A j \in Job : consulted[j] <= claims[j]

\* Nothing is asked about or decided of a job before its fire time, although the
\* due test is made in the claim and the decision in a later transaction.
NotEarly ==
    \A j \in Job : (consulted[j] > 0 \/ status[j] \in Terminal) => fireAt[j] <= now

\* The gate is asked about a due job, and once for each claim that took it,
\* however dispatchers race and transactions fail (dispatch.ts, reminder_gate).
AskedRightly == ConsultedPerClaim /\ NotEarly

\* dispatchDueJobs: "a storm tenant still never gets a second job before a quiet
\* tenant gets its first".  A tick picks a second job of a tenant only if it leaves
\* no tenant it has not served with a job due.
NoSecondHelping ==
    [][\A d \in Dispatcher :
          (/\ picked'[d] # picked[d]
           /\ \/ Tenants(picked'[d]) \cap served[d] # {}
              \/ Cardinality(Tenants(picked'[d])) < Cardinality(picked'[d])) =>
              Tenants(Due) \subseteq served[d] \cup Tenants(picked'[d])]_vars

\* 0015: "skipped is first-class ... the evidence that a reminder was skipped
\* rather than lost".  No job is lost: every pending one gets a terminal row or is
\* canceled, through failures, dead workers and lapsed leases.
NoJobLost ==
    \A j \in Job : status[j] = "pending" ~> status[j] \in Terminal \cup {"canceled"}

\* 0020: FOR UPDATE SKIP LOCKED "stops two claims in flight from picking one row".
HeldByOne ==
    \A c, d \in Dispatcher : c # d => batch[c] \cap batch[d] = {}

\* handle: "A batch that takes a minute to work through must not let its own
\* duration decide whether the last job in it was too late".
NeverAskedLate ==
    [][\A j \in Job : consulted'[j] > consulted[j] => now - fireAt[j] <= DropAfter]_vars

\* 0015: "rescheduling the meeting moves it rather than adding a second", and no call
\* is refused for another's sake.
NeverRefused == \A j \in Job : call[j] = "insert" => ~Collides(j)

\* 0015: "one live reminder per meeting, and rescheduling the meeting moves it
\* rather than adding a second".
NeverAskedForCanceled ==
    [][\A j \in Job : consulted'[j] > consulted[j] => status[j] # "canceled"]_vars
=============================================================================
