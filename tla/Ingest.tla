------------------------------- MODULE Ingest -------------------------------
(***************************************************************************)
(* What the provider tells about one call: a delivery waits for a permit, is *)
(* stored once with its merge job, and the jobs of the call are merged one   *)
(* by one into its row.  The provider promises no order and never sends      *)
(* again by itself, but the same bytes may come twice.  A process stops at   *)
(* any step; a job whose run outlasts its lease runs again beside it.        *)
(***************************************************************************)
EXTENDS Naturals, Sequences, FiniteSets, SequencesExt, FiniteSetsExt

CONSTANTS
    Body,           \* the payloads that can come; Empty is the one of no bytes
    Empty,
    Envelope,       \* what each says: see Says
    Token,          \* the endpoint tokens presented; Live is the one issued
    Live,
    Absent,         \* a key the payload does not have
    Permits,        \* INGEST_MAX_CONCURRENT
    RetryLimit,     \* retryLimit of the merge queues
    MaxDeliveries,  \* bound: deliveries made
    MaxIngestFaults       \* bound: transactions and runs that fail, leases that expire, restarts

\* The keys of an envelope that anything is decided by.
Says == {"event", "call", "status", "disposition", "recording", "user", "created", "updated"}

ASSUME IngestAssumption ==
    /\ Empty \in Body /\ Live \in Token
    /\ \A b \in Body \ {Empty} : DOMAIN Envelope[b] = Says
    /\ Permits \in Nat \ {0} /\ RetryLimit \in Nat
    /\ MaxDeliveries \in Nat /\ MaxIngestFaults \in Nat

\* What the row of a call can hold, and that having no value is none of the values.
Told == {Envelope[b][k] : b \in Body \ {Empty}, k \in Says} \cup {Absent}
CallRow == [state : {"initiated", "completed"}, disposition : Told, recording : Told,
            owner : Told, created : Told, last : Told]

ASSUME AbsentAssumption ==
    /\ Absent \notin {"accepted", "duplicate", "unknown_token", "error", "initiated", "completed"}
    /\ Absent \notin Nat /\ Absent \notin CallRow
    /\ \A b \in Body \ {Empty} : {Envelope[b].created, Envelope[b].updated} \subseteq Nat \cup {Absent}

VARIABLES
    deliveries,     \* the requests, in the order they came
    waiting,        \* IngestSemaphore.waiting
    woken,          \* the delivery next() has woken, 0 for none
    inFlight,
    events,         \* the bodies of inbound_webhook_event
    vault,          \* for each body, its rows in raw_payload_vault
    jobs,           \* the merge jobs, in the order they were queued
    call,           \* the row of the call
    letters,        \* the jobs dead_letter tells of
    ingestFaults

webVars    == <<deliveries, waiting, woken, inFlight>>
storeVars  == <<events, vault>>
ingestVars == <<webVars, storeVars, jobs, call, letters, ingestFaults>>

Fault == ingestFaults < MaxIngestFaults /\ ingestFaults' = ingestFaults + 1

----------------------------------------------------------------------------
\* aloware-ingest.ts: what decides where a delivery goes.
CANONICAL(event) ==
    CASE event \in {"OutboundPhoneCall", "InboundPhoneCall"} -> "call.initiated"
      [] event \in {"OutboundPhoneCall-DispositionCompleted", "OutboundPhoneCall-DispositionFailed",
                    "InboundPhoneCall-DispositionCompleted", "InboundPhoneCall-DispositionMissed",
                    "Call-Disposed"} -> "call.completed"
      [] event \in {"Recording-Saved", "transcription.call.summarized"} -> "call.enriched"
      [] event = "OutboundSMS-DispositionInvalid" -> "message.delivery_failed"
      [] OTHER -> Absent

extractKeys(b) ==
    IF Envelope[b].event = Absent
    THEN [canonical |-> Absent, alowareCallId |-> Absent]
    ELSE [canonical |-> CANONICAL(Envelope[b].event), alowareCallId |-> Envelope[b].call]

Queue(canonical) ==
    CASE canonical \in {"call.initiated", "call.completed", "call.enriched"} -> "call-merge"
      [] canonical \in {"message.received", "message.delivery_failed"} -> "message-merge"
      [] OTHER -> Absent

Routable(b) == /\ b # Empty /\ Queue(extractKeys(b).canonical) # Absent
               /\ extractKeys(b).alowareCallId # Absent

\* aloware-call-fields.ts: what a delivery says of the call.
stateOf(b) ==
    CASE Envelope[b].status \in {9, 19} -> "completed"
      [] Envelope[b].status \in {1, 2} -> "initiated"
      [] OTHER -> IF extractKeys(b).canonical = "call.completed" THEN "completed" ELSE "initiated"

mapCallFields(b) ==
    [state |-> stateOf(b), disposition |-> Envelope[b].disposition,
     recording |-> Envelope[b].recording, owner |-> Envelope[b].user,
     created |-> Envelope[b].created,
     last |-> IF Envelope[b].updated # Absent THEN Envelope[b].updated ELSE Envelope[b].created]

----------------------------------------------------------------------------
IngestInit ==
    /\ deliveries = <<>> /\ waiting = <<>> /\ woken = 0 /\ inFlight = 0
    /\ events = {} /\ vault = [b \in Body |-> 0]
    /\ jobs = <<>> /\ call = Absent /\ letters = {}
    /\ ingestFaults = 0

\* Wrong variant: an empty body is admitted like any other.
ArriveEmptyToo(b, token) ==
    /\ woken = 0 /\ Len(deliveries) < MaxDeliveries
    /\ LET came(phase) == Append(deliveries,
                [body |-> b, token |-> token, phase |-> phase, answer |-> Absent])
       IN  IF inFlight >= Permits
           THEN /\ deliveries' = came("waiting")
                /\ waiting' = Append(waiting, Len(deliveries) + 1)
                /\ UNCHANGED inFlight
           ELSE deliveries' = came("admitted") /\ inFlight' = inFlight + 1 /\ UNCHANGED waiting
    /\ UNCHANGED <<woken, storeVars, jobs, call, letters, ingestFaults>>

\* The route's action up to admitDelivery.  A woken delivery goes first: it
\* runs before the event loop takes the next request.
Arrive(b, token) ==
    /\ woken = 0 /\ Len(deliveries) < MaxDeliveries
    /\ LET d == Len(deliveries) + 1
           came(phase, answer) == Append(deliveries,
                [body |-> b, token |-> token, phase |-> phase, answer |-> answer])
       IN  IF b = Empty
           THEN deliveries' = came("answered", "accepted") /\ UNCHANGED <<waiting, inFlight>>
           ELSE IF inFlight >= Permits
           THEN deliveries' = came("waiting", Absent) /\ waiting' = Append(waiting, d)
                /\ UNCHANGED inFlight
           ELSE deliveries' = came("admitted", Absent) /\ inFlight' = inFlight + 1
                /\ UNCHANGED waiting
    /\ UNCHANGED <<woken, storeVars, jobs, call, letters, ingestFaults>>

\* run, after its await.
Resume ==
    /\ woken # 0 /\ woken' = 0
    /\ inFlight' = inFlight + 1
    /\ deliveries' = [deliveries EXCEPT ![woken].phase = "admitted"]
    /\ UNCHANGED <<waiting, storeVars, jobs, call, letters, ingestFaults>>

\* Wrong variant: the permit is given back and nobody woken.
LeaveWakesNobody(d, answer) ==
    /\ deliveries' = [deliveries EXCEPT ![d].phase = "answered", ![d].answer = answer]
    /\ inFlight' = inFlight - 1
    /\ UNCHANGED <<woken, waiting>>

\* run's finally, whatever became of the transaction.
Leave(d, answer) ==
    /\ deliveries' = [deliveries EXCEPT ![d].phase = "answered", ![d].answer = answer]
    /\ inFlight' = inFlight - 1
    /\ woken' = IF waiting = <<>> THEN 0 ELSE Head(waiting)
    /\ waiting' = IF waiting = <<>> THEN <<>> ELSE Tail(waiting)

\* webhook_ingest: the credential and the probe that spares a storm the insert.
IngestLooksUp(d) ==
    /\ woken = 0 /\ deliveries[d].phase = "admitted"
    /\ IF deliveries[d].token # Live THEN Leave(d, "unknown_token")
       ELSE IF deliveries[d].body \in events THEN Leave(d, "duplicate")
       ELSE deliveries' = [deliveries EXCEPT ![d].phase = "inserting"]
            /\ UNCHANGED <<waiting, woken, inFlight>>
    /\ UNCHANGED <<storeVars, jobs, call, letters, ingestFaults>>

MergeJob(b) ==
    [body |-> b, queue |-> Queue(extractKeys(b).canonical), key |-> extractKeys(b).alowareCallId,
     state |-> "created", tries |-> 0, runs |-> 0, merged |-> FALSE]

\* Wrong variant: the probe decides, no unique index behind it.
IngestCommitsBoth(d) ==
    /\ woken = 0 /\ deliveries[d].phase = "inserting"
    /\ LET raw == deliveries[d].body
       IN  /\ Leave(d, "accepted")
           /\ events' = events \cup {raw} /\ vault' = [vault EXCEPT ![raw] = @ + 1]
           /\ jobs' = IF Routable(raw) THEN Append(jobs, MergeJob(raw)) ELSE jobs
    /\ UNCHANGED <<call, letters, ingestFaults>>

\* ... and its commit: the vault row, the event row the unique index admits, the
\* job.  A row the index refuses takes the vault row back with it.
IngestCommits(d) ==
    /\ woken = 0 /\ deliveries[d].phase = "inserting"
    /\ LET raw == deliveries[d].body
       IN  IF raw \in events
           THEN Leave(d, "duplicate") /\ UNCHANGED <<storeVars, jobs>>
           ELSE /\ Leave(d, "accepted")
                /\ events' = events \cup {raw} /\ vault' = [vault EXCEPT ![raw] = @ + 1]
                /\ jobs' = IF Routable(raw) THEN Append(jobs, MergeJob(raw)) ELSE jobs
    /\ UNCHANGED <<call, letters, ingestFaults>>

\* The transaction fails, and nothing of it stays.
IngestFails(d) ==
    /\ woken = 0 /\ deliveries[d].phase \in {"admitted", "inserting"}
    /\ Fault
    /\ Leave(d, "error")
    /\ UNCHANGED <<storeVars, jobs, call, letters>>

----------------------------------------------------------------------------
\* pg-boss: key_strict_fifo lets a job start when no other of its key is
\* active, waiting for a retry, or failed.
StartJob(j) ==
    /\ jobs[j].state \in {"created", "retry"}
    /\ \A k \in DOMAIN jobs \ {j} :
          (jobs[k].queue = jobs[j].queue /\ jobs[k].key = jobs[j].key) =>
              /\ jobs[k].state \notin {"active", "retry", "failed"}
              /\ k < j => jobs[k].state = "completed"
    /\ jobs' = [jobs EXCEPT ![j].state = "active", ![j].runs = @ + 1]
    /\ UNCHANGED <<webVars, storeVars, call, letters, ingestFaults>>

\* The state a job that did not complete goes to.
Failing(job) == IF job.tries < RetryLimit THEN "retry" ELSE "failed"

Expire(j) ==
    /\ jobs[j].state = "active" /\ Fault
    /\ jobs' = [jobs EXCEPT ![j].state = Failing(jobs[j]), ![j].tries = @ + 1]
    /\ UNCHANGED <<webVars, storeVars, call, letters>>

MergeFails(j) ==
    /\ jobs[j].runs > 0 /\ Fault
    /\ jobs' = [jobs EXCEPT ![j].runs = @ - 1,
                    ![j].state = IF jobs[j].state = "active" THEN Failing(jobs[j]) ELSE @,
                    ![j].tries = IF jobs[j].state = "active" THEN @ + 1 ELSE @]
    /\ UNCHANGED <<webVars, storeVars, call, letters>>

Coalesce(new, old) == IF new # Absent THEN new ELSE old
Earlier(a, b) == IF a = Absent THEN b ELSE IF b = Absent THEN a ELSE Min({a, b})
Later(a, b)   == IF a = Absent THEN b ELSE IF b = Absent THEN a ELSE Max({a, b})

\* call_merge and the trigger under it.  Additive values fill; a disposition is
\* corrected by a delivery that is not older than the last merged; the state
\* never goes back.
call_merge(old, new) ==
    IF old = Absent THEN new
    ELSE [state       |-> IF old.state = "completed" THEN "completed" ELSE new.state,
          recording   |-> Coalesce(new.recording, old.recording),
          owner       |-> Coalesce(new.owner, old.owner),
          created     |-> Earlier(old.created, new.created),
          last        |-> Later(old.last, new.last),
          disposition |->
              IF new.disposition = Absent THEN old.disposition
              ELSE IF old.disposition = Absent THEN new.disposition
              ELSE IF new.last # Absent /\ (old.last = Absent \/ new.last >= old.last)
                   THEN new.disposition ELSE old.disposition]

\* mergeCallFromEvent, and the job it completes unless the process stops in
\* between or the lease is gone.
mergeCallFromEvent(j) ==
    /\ jobs[j].runs > 0 /\ jobs[j].queue = "call-merge"
    /\ call' = call_merge(call, mapCallFields(jobs[j].body))
    /\ jobs' = [jobs EXCEPT ![j].runs = @ - 1, ![j].merged = TRUE,
                    ![j].state = IF jobs[j].state = "active" THEN "completed" ELSE @]
    /\ UNCHANGED <<webVars, storeVars, letters, ingestFaults>>

\* The dead-letter job of a failed one, which has one try.
recordJobDeadLetter(j) ==
    /\ jobs[j].state = "failed" /\ j \notin letters
    /\ letters' = letters \cup {j}
    /\ UNCHANGED <<webVars, storeVars, jobs, call, ingestFaults>>

\* The process stops: what it held is gone, what it committed stays; its jobs
\* are still active until their lease expires.
Restart ==
    /\ Fault
    /\ deliveries' = [d \in DOMAIN deliveries |->
            IF deliveries[d].phase = "answered" THEN deliveries[d]
            ELSE [deliveries[d] EXCEPT !.phase = "answered", !.answer = "error"]]
    /\ waiting' = <<>> /\ woken' = 0 /\ inFlight' = 0
    /\ jobs' = [j \in DOMAIN jobs |-> [jobs[j] EXCEPT !.runs = 0]]
    /\ UNCHANGED <<storeVars, call, letters>>

IngestNext ==
    \/ \E b \in Body, token \in Token : Arrive(b, token)
    \/ Resume \/ Restart
    \/ \E d \in DOMAIN deliveries : IngestLooksUp(d) \/ IngestCommits(d) \/ IngestFails(d)
    \/ \E j \in DOMAIN jobs : \/ StartJob(j) \/ Expire(j) \/ MergeFails(j)
                              \/ mergeCallFromEvent(j) \/ recordJobDeadLetter(j)

IngestSpec == IngestInit /\ [][IngestNext]_ingestVars

----------------------------------------------------------------------------
IngestTypeOK ==
    /\ \A d \in DOMAIN deliveries :
          /\ deliveries[d].phase \in {"waiting", "admitted", "inserting", "answered"}
          /\ (deliveries[d].answer # Absent) <=> (deliveries[d].phase = "answered")
    /\ events \subseteq Body \ {Empty} /\ letters \subseteq DOMAIN jobs
    /\ \A j \in DOMAIN jobs :
          /\ jobs[j].state \in {"created", "active", "retry", "completed", "failed"}
          /\ jobs[j].tries \in 0..(RetryLimit + 1)
    /\ ingestFaults \in 0..MaxIngestFaults

\* No delivery waits while a permit is free, and no more than the permits are
\* in the database, although a permit is given back before the delivery it is
\* meant for takes it (semaphore.ts:115-137).
NoIdlePermit ==
    LET taken == inFlight + (IF woken = 0 THEN 0 ELSE 1)
    IN  taken <= Permits /\ (waiting # <<>> => taken = Permits)

JobsOf(b) == {j \in DOMAIN jobs : jobs[j].body = b}

\* The provider never sends again: what it was told is accepted is kept, once,
\* byte for byte, with the one job that merges it, however often it came, two at
\* a time included (0050_message_merge.sql:253-414, routes/api/webhooks-aloware.ts:94-134).
AcceptedIsKept ==
    /\ \A d \in DOMAIN deliveries : deliveries[d].answer \in {"accepted", "duplicate"} =>
          deliveries[d].body \in events \cup {Empty}
    /\ \A b \in Body : /\ vault[b] = IF b \in events THEN 1 ELSE 0
                       /\ Cardinality(JobsOf(b)) = IF b \in events /\ Routable(b) THEN 1 ELSE 0

Merged == {jobs[j].body : j \in {k \in DOMAIN jobs : jobs[k].merged}}

\* Whatever order the deliveries are merged in and however often one is, the row
\* has what each of them said and none took back: it is completed once one was,
\* keeps a recording, an owner, a disposition once it had one, and its clocks
\* are the earliest and the latest (0049_dead_letter_and_alerts.sql:343-428).
NothingIsForgotten ==
    LET told        == {mapCallFields(b) : b \in Merged}
        Said(field) == {t[field] : t \in told} \ {Absent}
    IN  call # Absent =>
            /\ (call.state = "completed") <=> ("completed" \in Said("state"))
            /\ \A field \in {"recording", "owner", "disposition"} :
                  IF Said(field) = {} THEN call[field] = Absent ELSE call[field] \in Said(field)
            /\ call.created = IF Said("created") = {} THEN Absent ELSE Min(Said("created"))
            /\ call.last = IF Said("last") = {} THEN Absent ELSE Max(Said("last"))

\* "All three arms are commutative" (0049_dead_letter_and_alerts.sql:396): with
\* clocks that differ, the disposition is that of the latest to carry one.
DispositionIsTheLatest ==
    LET telling == {b \in Merged : mapCallFields(b).disposition # Absent}
    IN  \A b \in telling :
            (\A c \in telling \ {b} : mapCallFields(c).last < mapCallFields(b).last) =>
                call.disposition = mapCallFields(b).disposition

\* "The second job queues behind the first and one runs at a time"
\* (queues.ts:46-49): none waits behind one that failed for good.
NoneWaitsForAFailedOne ==
    \A j, k \in DOMAIN jobs :
        (jobs[j].state = "created" /\ jobs[k].key = jobs[j].key) => jobs[k].state # "failed"
=============================================================================
