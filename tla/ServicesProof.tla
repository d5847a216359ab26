--------------------------- MODULE ServicesProof ----------------------------
(***************************************************************************)
(* Proofs about the services of a process, for every value of their        *)
(* constants: the webhooks it accepts, the requests it answers, the calls it*)
(* makes, what it checks when it comes up and what it tells of its own loop.*)
(***************************************************************************)
EXTENDS Session, Boot, Ingest, Dial, Saturation, SequenceTheorems,
        FiniteSetTheorems, TLAPS

-----------------------------------------------------------------------------
\* The webhooks: no permit is idle, and no delivery lost.

\* What a delivery can be.
WebDelivery == [body : Body, token : Token,
                phase : {"waiting", "admitted", "inserting", "answered"},
                answer : {"accepted", "duplicate", "unknown_token", "error", Absent}]

\* The inductive invariant: a count is a number, whoever waits or was woken has
\* come, and NoIdlePermit itself.
PermitsAccounted ==
    /\ deliveries \in Seq(WebDelivery)
    /\ waiting \in Seq(Nat \ {0})
    /\ woken \in Nat
    /\ inFlight \in Int
    /\ NoIdlePermit

\* The inductive invariant holds in a process that starts.
LEMMA PermitsInit == IngestInit => PermitsAccounted
<1> SUFFICES ASSUME IngestInit PROVE PermitsAccounted
    OBVIOUS
<1>1. deliveries \in Seq(WebDelivery) /\ waiting \in Seq(Nat \ {0})
    BY DEF IngestInit
<1> QED
    BY <1>1, IngestAssumption DEF IngestInit, PermitsAccounted, NoIdlePermit

\* The semaphore alone decides: what leaves it alone leaves the invariant alone.
LEMMA ElsewhereKeepsPermits ==
    ASSUME PermitsAccounted, UNCHANGED webVars
    PROVE  PermitsAccounted'
BY DEF PermitsAccounted, NoIdlePermit, webVars

\* run's finally (semaphore.ts:121-137): a permit given back while somebody waits
\* is kept for the one it wakes.
LEMMA LeaveKeepsPermits ==
    ASSUME PermitsAccounted, woken = 0,
           NEW d \in DOMAIN deliveries,
           NEW answer \in {"accepted", "duplicate", "unknown_token", "error"},
           Leave(d, answer)
    PROVE  PermitsAccounted'
<1> USE IngestAssumption DEF PermitsAccounted
<1>1. deliveries' \in Seq(WebDelivery)
    <2>1. deliveries[d] \in WebDelivery
        OBVIOUS
    <2>2. [deliveries[d] EXCEPT !.phase = "answered", !.answer = answer] \in WebDelivery
        BY <2>1 DEF WebDelivery
    <2>3. deliveries' = [deliveries EXCEPT ![d] =
                            [deliveries[d] EXCEPT !.phase = "answered", !.answer = answer]]
        BY DEF Leave
    <2> HIDE DEF PermitsAccounted
    <2> QED
        BY <2>2, <2>3 DEF PermitsAccounted
<1>2. inFlight' = inFlight - 1 /\ inFlight' \in Int
    BY DEF Leave
<1>3. CASE waiting = <<>>
    <2>1. woken' = 0 /\ waiting' = <<>>
        BY <1>3 DEF Leave
    <2> QED
        BY <1>1, <1>2, <1>3, <2>1 DEF NoIdlePermit
<1>4. CASE waiting # <<>>
    <2>1. Head(waiting) \in Nat \ {0} /\ Tail(waiting) \in Seq(Nat \ {0})
        BY <1>4
    <2>2. woken' \in Nat \ {0} /\ waiting' \in Seq(Nat \ {0})
        BY <1>4, <2>1 DEF Leave
    <2>3. inFlight = Permits
        BY <1>4 DEF NoIdlePermit
    <2> QED
        BY <1>1, <1>2, <2>2, <2>3 DEF NoIdlePermit
<1> QED
    BY <1>3, <1>4

\* run up to its await (semaphore.ts:115-120).
LEMMA ArriveKeepsPermits ==
    ASSUME PermitsAccounted, NEW b \in Body, NEW token \in Token, Arrive(b, token)
    PROVE  PermitsAccounted'
<1> DEFINE came(phase, answer) == [body |-> b, token |-> token, phase |-> phase, answer |-> answer]
<1>1. /\ came("answered", "accepted") \in WebDelivery
      /\ came("waiting", Absent) \in WebDelivery
      /\ came("admitted", Absent) \in WebDelivery
    BY DEF WebDelivery
<1>2. woken = 0 /\ woken' = 0
    BY DEF Arrive
<1>3. CASE b = Empty
    <2>1. deliveries' = Append(deliveries, came("answered", "accepted"))
          /\ UNCHANGED <<waiting, inFlight>>
        BY <1>3 DEF Arrive
    <2> QED
        BY <1>1, <1>2, <2>1 DEF PermitsAccounted, NoIdlePermit
<1>4. CASE b # Empty /\ inFlight >= Permits
    <2>1. /\ deliveries' = Append(deliveries, came("waiting", Absent))
          /\ waiting' = Append(waiting, Len(deliveries) + 1)
          /\ UNCHANGED inFlight
        BY <1>4 DEF Arrive
    <2>2. deliveries' \in Seq(WebDelivery) /\ waiting' \in Seq(Nat \ {0})
        BY <1>1, <2>1 DEF PermitsAccounted
    <2>3. inFlight = Permits
        BY <1>2, <1>4, IngestAssumption DEF PermitsAccounted, NoIdlePermit
    <2> QED
        BY <1>2, <2>1, <2>2, <2>3, IngestAssumption DEF PermitsAccounted, NoIdlePermit
<1>5. CASE b # Empty /\ ~(inFlight >= Permits)
    <2>1. /\ deliveries' = Append(deliveries, came("admitted", Absent))
          /\ inFlight' = inFlight + 1
          /\ UNCHANGED waiting
        BY <1>5 DEF Arrive
    <2>2. deliveries' \in Seq(WebDelivery)
        BY <1>1, <2>1 DEF PermitsAccounted
    <2>3. waiting = <<>>
        BY <1>2, <1>5, IngestAssumption DEF PermitsAccounted, NoIdlePermit
    <2> QED
        BY <1>2, <1>5, <2>1, <2>2, <2>3, IngestAssumption DEF PermitsAccounted, NoIdlePermit
<1> QED
    BY <1>3, <1>4, <1>5

\* run behind its await: the woken delivery takes the permit kept for it.
LEMMA ResumeKeepsPermits ==
    ASSUME PermitsAccounted, Resume
    PROVE  PermitsAccounted'
<1>1. deliveries' = [deliveries EXCEPT ![woken].phase = "admitted"]
    BY DEF Resume
<1>2. deliveries' \in Seq(WebDelivery)
    <2>1. CASE woken \in DOMAIN deliveries
        <3>1. deliveries[woken] \in WebDelivery
            BY <2>1 DEF PermitsAccounted
        <3>2. [deliveries[woken] EXCEPT !.phase = "admitted"] \in WebDelivery
            BY <3>1 DEF WebDelivery
        <3>3. deliveries' = [deliveries EXCEPT ![woken] =
                                [deliveries[woken] EXCEPT !.phase = "admitted"]]
            BY <1>1
        <3> QED
            BY <2>1, <3>2, <3>3 DEF PermitsAccounted
    <2>2. CASE woken \notin DOMAIN deliveries
        <3>1. deliveries \in [1..Len(deliveries) -> WebDelivery]
            BY LenProperties DEF PermitsAccounted
        <3>2. deliveries' = deliveries
            BY <1>1, <2>2, <3>1
        <3> QED
            BY <3>2 DEF PermitsAccounted
    <2> QED
        BY <2>1, <2>2
<1> QED
    BY <1>2, IngestAssumption DEF Resume, PermitsAccounted, NoIdlePermit

\* A process that stops holds nothing, and nobody waits in the one that starts.
LEMMA RestartKeepsPermits ==
    ASSUME PermitsAccounted, Restart
    PROVE  PermitsAccounted'
<1>1. deliveries' \in Seq(WebDelivery)
    <2>1. \A d \in DOMAIN deliveries :
             (IF deliveries[d].phase = "answered" THEN deliveries[d]
              ELSE [deliveries[d] EXCEPT !.phase = "answered", !.answer = "error"]) \in WebDelivery
        <3> SUFFICES ASSUME NEW d \in DOMAIN deliveries
                     PROVE  /\ deliveries[d] \in WebDelivery
                            /\ [deliveries[d] EXCEPT !.phase = "answered", !.answer = "error"]
                                  \in WebDelivery
            OBVIOUS
        <3>1. deliveries[d] \in WebDelivery
            BY DEF PermitsAccounted
        <3> QED
            BY <3>1 DEF WebDelivery
    <2>2. DOMAIN deliveries = 1..Len(deliveries) /\ Len(deliveries) \in Nat
        BY DEF PermitsAccounted
    <2>3. deliveries' = [d \in 1..Len(deliveries) |->
             IF deliveries[d].phase = "answered" THEN deliveries[d]
             ELSE [deliveries[d] EXCEPT !.phase = "answered", !.answer = "error"]]
        BY <2>2 DEF Restart
    <2>4. deliveries' \in [1..Len(deliveries) -> WebDelivery]
        BY <2>1, <2>2, <2>3
    <2> QED
        BY <2>2, <2>4, SeqDef
<1>2. waiting' = <<>> /\ woken' = 0 /\ inFlight' = 0
    BY DEF Restart
<1> QED
    BY <1>1, <1>2, IngestAssumption DEF PermitsAccounted, NoIdlePermit

\* A delivery that only goes on to its insert keeps its permit.
LEMMA LooksUpKeepsPermits ==
    ASSUME PermitsAccounted, NEW d \in DOMAIN deliveries, IngestLooksUp(d)
    PROVE  PermitsAccounted'
<1>1. CASE \E answer \in {"unknown_token", "duplicate"} : Leave(d, answer)
    BY <1>1, LeaveKeepsPermits DEF IngestLooksUp
<1>2. CASE /\ deliveries' = [deliveries EXCEPT ![d].phase = "inserting"]
           /\ UNCHANGED <<waiting, woken, inFlight>>
    <2>1. deliveries[d] \in WebDelivery
        BY DEF PermitsAccounted
    <2>2. [deliveries[d] EXCEPT !.phase = "inserting"] \in WebDelivery
        BY <2>1 DEF WebDelivery
    <2>3. deliveries' = [deliveries EXCEPT ![d] = [deliveries[d] EXCEPT !.phase = "inserting"]]
        BY <1>2
    <2>4. deliveries' \in Seq(WebDelivery)
        BY <2>2, <2>3 DEF PermitsAccounted
    <2> QED
        BY <1>2, <2>4 DEF PermitsAccounted, NoIdlePermit
<1> QED
    BY <1>1, <1>2 DEF IngestLooksUp

\* Every step keeps the permits accounted for.
LEMMA PermitsStep == PermitsAccounted /\ [IngestNext]_ingestVars => PermitsAccounted'
<1> SUFFICES ASSUME PermitsAccounted, [IngestNext]_ingestVars PROVE PermitsAccounted'
    OBVIOUS
<1>1. CASE \E b \in Body, token \in Token : Arrive(b, token)
    BY <1>1, ArriveKeepsPermits
<1>2. CASE Resume
    BY <1>2, ResumeKeepsPermits
<1>3. CASE Restart
    BY <1>3, RestartKeepsPermits
<1>4. ASSUME NEW d \in DOMAIN deliveries, IngestLooksUp(d) PROVE PermitsAccounted'
    BY <1>4, LooksUpKeepsPermits
<1>5. ASSUME NEW d \in DOMAIN deliveries, IngestCommits(d) PROVE PermitsAccounted'
    <2>1. woken = 0 /\ \E answer \in {"duplicate", "accepted"} : Leave(d, answer)
        BY <1>5 DEF IngestCommits
    <2> QED
        BY <2>1, LeaveKeepsPermits
<1>6. ASSUME NEW d \in DOMAIN deliveries, IngestFails(d) PROVE PermitsAccounted'
    <2>1. woken = 0 /\ Leave(d, "error")
        BY <1>6 DEF IngestFails
    <2> QED
        BY <2>1, LeaveKeepsPermits
<1>7. CASE \E j \in DOMAIN jobs : \/ StartJob(j) \/ Expire(j) \/ MergeFails(j)
                                  \/ mergeCallFromEvent(j) \/ recordJobDeadLetter(j)
    <2>1. UNCHANGED webVars
        BY <1>7 DEF StartJob, Expire, MergeFails, mergeCallFromEvent, recordJobDeadLetter
    <2> QED
        BY <2>1, ElsewhereKeepsPermits
<1>8. CASE UNCHANGED ingestVars
    <2>1. UNCHANGED webVars
        BY <1>8 DEF ingestVars
    <2> QED
        BY <2>1, ElsewhereKeepsPermits
<1> QED
    BY <1>1, <1>2, <1>3, <1>4, <1>5, <1>6, <1>7, <1>8 DEF IngestNext

\* No delivery waits while a permit is free, and never more than the permits are
\* given out (semaphore.ts:115-137), however many there are.
THEOREM NoPermitIsIdle == IngestSpec => []NoIdlePermit
<1>1. PermitsAccounted => NoIdlePermit
    BY DEF PermitsAccounted
<1> QED
    BY PermitsInit, PermitsStep, <1>1, PTL DEF IngestSpec

-----------------------------------------------------------------------------
(* What is kept of a delivery *)

QueueName == {Queue(extractKeys(b).canonical) : b \in Body}
CallKey   == {extractKeys(b).alowareCallId : b \in Body}
JobTries  == 0 .. RetryLimit + 1

Job == [body : Body, queue : QueueName, key : CallKey,
        state : {"created", "active", "retry", "completed", "failed"},
        tries : JobTries, runs : Int, merged : BOOLEAN]

\* A delivery is answered at the end and what is said to be accepted is stored;
\* who waits, or was woken, is one that waits, and is it once.
AnsweredIsKept ==
    /\ \A d \in DOMAIN deliveries :
          /\ deliveries[d].answer # Absent <=> deliveries[d].phase = "answered"
          /\ deliveries[d].phase # "answered" => deliveries[d].body # Empty
          /\ deliveries[d].answer \in {"accepted", "duplicate"} =>
                deliveries[d].body \in events \cup {Empty}
    /\ \A i \in DOMAIN waiting : /\ waiting[i] \in DOMAIN deliveries
                                 /\ deliveries[waiting[i]].phase = "waiting"
                                 /\ waiting[i] # woken
    /\ \A i, k \in DOMAIN waiting : waiting[i] = waiting[k] => i = k
    /\ woken # 0 => woken \in DOMAIN deliveries /\ deliveries[woken].phase = "waiting"

\* What is stored has its row in the vault and, where it is merged, its one job.
Vaulted ==
    /\ events \subseteq Body \ {Empty}
    /\ \A b \in Body : vault[b] = IF b \in events THEN 1 ELSE 0
    /\ vault \in [Body -> Nat]

Queued ==
    /\ jobs \in Seq(Job)
    /\ \A j \in DOMAIN jobs : /\ jobs[j].body \in events /\ Routable(jobs[j].body)
                              /\ jobs[j].state \in {"created", "active", "retry"} =>
                                    jobs[j].tries <= RetryLimit
    /\ \A j, k \in DOMAIN jobs : jobs[j].body = jobs[k].body => j = k
    /\ \A b \in events : Routable(b) => \E j \in DOMAIN jobs : jobs[j].body = b

Stored == /\ Vaulted /\ Queued
          /\ letters \subseteq DOMAIN jobs
          /\ ingestFaults \in 0 .. MaxIngestFaults

\* A process that starts has nothing stored.
LEMMA StoredInit == IngestInit => AnsweredIsKept /\ Stored
<1> SUFFICES ASSUME IngestInit PROVE AnsweredIsKept /\ Stored
    OBVIOUS
<1>1. DOMAIN deliveries = {} /\ DOMAIN waiting = {} /\ DOMAIN jobs = {} /\ jobs \in Seq(Job)
    BY DEF IngestInit
<1>2. AnsweredIsKept
    BY <1>1 DEF IngestInit, AnsweredIsKept
<1>3. vault \in [Body -> Nat] /\ \A b \in Body : vault[b] = 0
    BY DEF IngestInit
<1> QED
    BY <1>1, <1>2, <1>3, IngestAssumption DEF IngestInit, Stored, Vaulted, Queued

\* What giving a permit back keeps, with what is stored by then.
LEMMA LeaveAnswers ==
    ASSUME PermitsAccounted, AnsweredIsKept, woken = 0,
           NEW d \in DOMAIN deliveries, deliveries[d].phase \in {"admitted", "inserting"},
           NEW answer \in {"accepted", "duplicate", "unknown_token", "error"},
           Leave(d, answer), events \subseteq events',
           answer \in {"accepted", "duplicate"} => deliveries[d].body \in events'
    PROVE  AnsweredIsKept'
<1>1. deliveries[d] \in WebDelivery
    BY DEF PermitsAccounted
<1>2. /\ DOMAIN deliveries' = DOMAIN deliveries
      /\ deliveries'[d].phase = "answered" /\ deliveries'[d].answer = answer
      /\ deliveries'[d].body = deliveries[d].body
      /\ \A f \in DOMAIN deliveries : f # d => deliveries'[f] = deliveries[f]
    <2>1. deliveries' = [deliveries EXCEPT ![d] = [@ EXCEPT !.phase = "answered", !.answer = answer]]
        BY DEF Leave
    <2>2. deliveries'[d] = [deliveries[d] EXCEPT !.phase = "answered", !.answer = answer]
        BY <2>1
    <2> QED
        BY <1>1, <2>1, <2>2 DEF WebDelivery
<1>3. \A f \in DOMAIN deliveries' :
          /\ deliveries'[f].answer # Absent <=> deliveries'[f].phase = "answered"
          /\ deliveries'[f].phase # "answered" => deliveries'[f].body # Empty
          /\ deliveries'[f].answer \in {"accepted", "duplicate"} =>
                deliveries'[f].body \in events' \cup {Empty}
    <2> SUFFICES ASSUME NEW f \in DOMAIN deliveries
                 PROVE  /\ deliveries'[f].answer # Absent <=> deliveries'[f].phase = "answered"
                        /\ deliveries'[f].phase # "answered" => deliveries'[f].body # Empty
                        /\ deliveries'[f].answer \in {"accepted", "duplicate"} =>
                              deliveries'[f].body \in events' \cup {Empty}
        BY <1>2
    <2>1. CASE f = d
        BY <1>2, <2>1, AbsentAssumption
    <2>2. CASE f # d
        BY <1>2, <2>2 DEF AnsweredIsKept
    <2> QED
        BY <2>1, <2>2
<1>4. \A i \in DOMAIN waiting : waiting[i] # d
    BY DEF AnsweredIsKept
<1>5. CASE waiting = <<>>
    <2>1. woken' = 0 /\ DOMAIN waiting' = {}
        BY <1>5 DEF Leave
    <2> QED
        BY <1>3, <2>1 DEF AnsweredIsKept
<1>6. CASE waiting # <<>>
    <2>1. woken' = Head(waiting) /\ waiting' = Tail(waiting) /\ waiting \in Seq(Nat \ {0})
        BY <1>6 DEF Leave, PermitsAccounted
    <2>2. /\ 1 \in DOMAIN waiting /\ woken' = waiting[1]
          /\ \A i \in DOMAIN waiting' : i + 1 \in DOMAIN waiting /\ waiting'[i] = waiting[i + 1]
                                        /\ i + 1 # 1 /\ i \in Nat
        BY <1>6, <2>1
    <2>3. \A i \in DOMAIN waiting' : /\ waiting'[i] \in DOMAIN deliveries
                                     /\ deliveries[waiting'[i]].phase = "waiting"
                                     /\ waiting'[i] # d /\ waiting'[i] # woken'
        BY <1>4, <2>2 DEF AnsweredIsKept
    <2>4. \A i, k \in DOMAIN waiting' : waiting'[i] = waiting'[k] => i = k
        <3> SUFFICES ASSUME NEW i \in DOMAIN waiting', NEW k \in DOMAIN waiting',
                            waiting'[i] = waiting'[k]
                     PROVE  i = k
            OBVIOUS
        <3>1. i + 1 = k + 1
            BY <2>2 DEF AnsweredIsKept
        <3> QED
            BY <2>2, <3>1
    <2>5. woken' \in DOMAIN deliveries /\ deliveries[woken'].phase = "waiting" /\ woken' # d
        BY <1>4, <2>2 DEF AnsweredIsKept
    <2> QED
        BY <1>2, <1>3, <2>3, <2>4, <2>5 DEF AnsweredIsKept
<1> QED
    BY <1>5, <1>6

\* run up to its await.
LEMMA ArriveAnswers ==
    ASSUME PermitsAccounted, AnsweredIsKept, NEW b \in Body, NEW token \in Token, Arrive(b, token)
    PROVE  AnsweredIsKept'
<1> DEFINE came(phase, answer) == [body |-> b, token |-> token, phase |-> phase, answer |-> answer]
           n == Len(deliveries)
<1>1. woken = 0 /\ woken' = 0 /\ events' = events /\ n \in Nat
    BY DEF Arrive, PermitsAccounted, storeVars
<1>2. PICK phase, answer :
          /\ deliveries' = Append(deliveries, came(phase, answer))
          /\ \/ b = Empty /\ phase = "answered" /\ answer = "accepted" /\ waiting' = waiting
             \/ b # Empty /\ phase = "waiting" /\ answer = Absent /\ waiting' = Append(waiting, n + 1)
             \/ b # Empty /\ phase = "admitted" /\ answer = Absent /\ waiting' = waiting
    BY DEF Arrive
<1>3. came(phase, answer).phase = phase /\ came(phase, answer).answer = answer
      /\ came(phase, answer).body = b
    OBVIOUS
<1> HIDE DEF came
<1>4. /\ DOMAIN deliveries = 1 .. n /\ DOMAIN deliveries' = 1 .. n + 1
      /\ deliveries'[n + 1] = came(phase, answer)
      /\ \A d \in 1 .. n : deliveries'[d] = deliveries[d]
    BY <1>2 DEF PermitsAccounted
<1> HIDE DEF n
<1>5. \A d \in DOMAIN deliveries' :
          /\ deliveries'[d].answer # Absent <=> deliveries'[d].phase = "answered"
          /\ deliveries'[d].phase # "answered" => deliveries'[d].body # Empty
          /\ deliveries'[d].answer \in {"accepted", "duplicate"} =>
                deliveries'[d].body \in events' \cup {Empty}
    <2> SUFFICES ASSUME NEW d \in DOMAIN deliveries'
                 PROVE  /\ deliveries'[d].answer # Absent <=> deliveries'[d].phase = "answered"
                        /\ deliveries'[d].phase # "answered" => deliveries'[d].body # Empty
                        /\ deliveries'[d].answer \in {"accepted", "duplicate"} =>
                              deliveries'[d].body \in events' \cup {Empty}
        OBVIOUS
    <2>1. CASE d = n + 1
        BY <1>2, <1>3, <1>4, <2>1, AbsentAssumption
    <2>2. CASE d \in 1 .. n
        BY <1>1, <1>4, <2>2 DEF AnsweredIsKept
    <2> QED
        BY <1>1, <1>4, <2>1, <2>2
<1>6. CASE waiting' = waiting
    <2>1. \A i \in DOMAIN waiting' : /\ waiting'[i] \in DOMAIN deliveries'
                                     /\ deliveries'[waiting'[i]].phase = "waiting"
                                     /\ waiting'[i] # woken'
        BY <1>1, <1>4, <1>6 DEF AnsweredIsKept
    <2> QED
        BY <1>1, <1>5, <1>6, <2>1 DEF AnsweredIsKept
<1>7. CASE waiting' = Append(waiting, n + 1) /\ phase = "waiting"
    <2> DEFINE m == Len(waiting)
    <2>1. /\ DOMAIN waiting = 1 .. m /\ DOMAIN waiting' = 1 .. m + 1 /\ m \in Nat
          /\ waiting'[m + 1] = n + 1
          /\ \A i \in 1 .. m : waiting'[i] = waiting[i]
        BY <1>1, <1>7 DEF PermitsAccounted
    <2> HIDE DEF m
    <2>2. \A i \in 1 .. m : waiting[i] \in 1 .. n /\ waiting[i] # n + 1
        BY <1>1, <1>4, <2>1 DEF AnsweredIsKept
    <2>3. \A i \in DOMAIN waiting' : /\ waiting'[i] \in DOMAIN deliveries'
                                     /\ deliveries'[waiting'[i]].phase = "waiting"
                                     /\ waiting'[i] # woken'
        <3> SUFFICES ASSUME NEW i \in 1 .. m + 1
                     PROVE  /\ waiting'[i] \in DOMAIN deliveries'
                            /\ deliveries'[waiting'[i]].phase = "waiting"
                            /\ waiting'[i] # woken'
            BY <2>1
        <3>1. CASE i = m + 1
            BY <1>1, <1>3, <1>4, <1>7, <2>1, <3>1
        <3>2. CASE i \in 1 .. m
            BY <1>1, <1>4, <2>1, <2>2, <3>2 DEF AnsweredIsKept
        <3> QED
            BY <2>1, <3>1, <3>2
    <2>4. \A i, k \in DOMAIN waiting' : waiting'[i] = waiting'[k] => i = k
        <3> SUFFICES ASSUME NEW i \in 1 .. m + 1, NEW k \in 1 .. m + 1, waiting'[i] = waiting'[k]
                     PROVE  i = k
            BY <2>1
        <3>1. CASE i \in 1 .. m /\ k \in 1 .. m
            BY <2>1, <3>1 DEF AnsweredIsKept
        <3> QED
            BY <2>1, <2>2, <3>1
    <2> QED
        BY <1>1, <1>5, <2>3, <2>4 DEF AnsweredIsKept
<1> QED
    BY <1>2, <1>6, <1>7

\* run behind its await.
LEMMA ResumeAnswers ==
    ASSUME PermitsAccounted, AnsweredIsKept, Resume
    PROVE  AnsweredIsKept'
<1>1. woken # 0 /\ woken' = 0 /\ waiting' = waiting /\ events' = events
    BY DEF Resume, storeVars
<1>2. woken \in DOMAIN deliveries /\ deliveries[woken].phase = "waiting"
    BY <1>1 DEF AnsweredIsKept
<1>3. deliveries[woken] \in WebDelivery
    BY <1>2 DEF PermitsAccounted
<1>4. /\ DOMAIN deliveries' = DOMAIN deliveries
      /\ deliveries'[woken].phase = "admitted"
      /\ deliveries'[woken].answer = deliveries[woken].answer
      /\ deliveries'[woken].body = deliveries[woken].body
      /\ \A f \in DOMAIN deliveries : f # woken => deliveries'[f] = deliveries[f]
    <2>1. deliveries' = [deliveries EXCEPT ![woken] = [@ EXCEPT !.phase = "admitted"]]
        BY DEF Resume
    <2>2. deliveries'[woken] = [deliveries[woken] EXCEPT !.phase = "admitted"]
        BY <1>2, <2>1
    <2> QED
        BY <1>3, <2>1, <2>2 DEF WebDelivery
<1>5. \A f \in DOMAIN deliveries' :
          /\ deliveries'[f].answer # Absent <=> deliveries'[f].phase = "answered"
          /\ deliveries'[f].phase # "answered" => deliveries'[f].body # Empty
          /\ deliveries'[f].answer \in {"accepted", "duplicate"} =>
                deliveries'[f].body \in events' \cup {Empty}
    BY <1>1, <1>2, <1>4 DEF AnsweredIsKept
<1>6. \A i \in DOMAIN waiting' : /\ waiting'[i] \in DOMAIN deliveries'
                                 /\ deliveries'[waiting'[i]].phase = "waiting"
                                 /\ waiting'[i] # woken'
    <2>1. \A i \in DOMAIN waiting : waiting[i] # 0
        BY DEF PermitsAccounted
    <2> QED
        BY <1>1, <1>4, <2>1 DEF AnsweredIsKept
<1> QED
    BY <1>1, <1>5, <1>6 DEF AnsweredIsKept

\* A process that stops answers nobody it was still working for.
LEMMA RestartAnswers ==
    ASSUME PermitsAccounted, AnsweredIsKept, Restart
    PROVE  AnsweredIsKept'
<1>1. DOMAIN waiting' = {} /\ woken' = 0 /\ events' = events
    <2>1. waiting' = <<>> /\ woken' = 0
        BY DEF Restart
    <2>2. events' = events
        BY DEF Restart, storeVars
    <2> QED
        BY <2>1, <2>2
<1>2. \A d \in DOMAIN deliveries' :
          /\ deliveries'[d].answer # Absent <=> deliveries'[d].phase = "answered"
          /\ deliveries'[d].phase # "answered" => deliveries'[d].body # Empty
          /\ deliveries'[d].answer \in {"accepted", "duplicate"} =>
                deliveries'[d].body \in events' \cup {Empty}
    <2>1. DOMAIN deliveries' = DOMAIN deliveries
        BY DEF Restart
    <2> SUFFICES ASSUME NEW d \in DOMAIN deliveries
                 PROVE  /\ deliveries'[d].answer # Absent <=> deliveries'[d].phase = "answered"
                        /\ deliveries'[d].phase # "answered" => deliveries'[d].body # Empty
                        /\ deliveries'[d].answer \in {"accepted", "duplicate"} =>
                              deliveries'[d].body \in events' \cup {Empty}
        BY <2>1
    <2>2. CASE deliveries[d].phase = "answered"
        <3>1. deliveries'[d] = deliveries[d]
            BY <2>2 DEF Restart
        <3> QED
            BY <1>1, <3>1 DEF AnsweredIsKept
    <2>3. CASE deliveries[d].phase # "answered"
        <3>1. deliveries'[d] = [deliveries[d] EXCEPT !.phase = "answered", !.answer = "error"]
            BY <2>3 DEF Restart
        <3>2. deliveries[d] \in WebDelivery
            BY DEF PermitsAccounted
        <3>3. deliveries'[d].phase = "answered" /\ deliveries'[d].answer = "error"
            BY <3>1, <3>2 DEF WebDelivery
        <3> QED
            BY <3>3, AbsentAssumption
    <2> QED
        BY <2>2, <2>3
<1> QED
    BY <1>1, <1>2 DEF AnsweredIsKept

\* A delivery that goes on to its insert.
LEMMA LooksUpAnswers ==
    ASSUME PermitsAccounted, AnsweredIsKept, NEW d \in DOMAIN deliveries, IngestLooksUp(d)
    PROVE  AnsweredIsKept'
<1>1. events' = events /\ woken = 0 /\ deliveries[d].phase = "admitted"
    BY DEF IngestLooksUp, storeVars
<1>2. CASE Leave(d, "unknown_token")
    BY <1>1, <1>2, LeaveAnswers
<1>3. CASE deliveries[d].body \in events /\ Leave(d, "duplicate")
    BY <1>1, <1>3, LeaveAnswers
<1>4. CASE /\ deliveries' = [deliveries EXCEPT ![d].phase = "inserting"]
           /\ UNCHANGED <<waiting, woken, inFlight>>
    <2>1. deliveries[d] \in WebDelivery
        BY DEF PermitsAccounted
    <2>2. /\ DOMAIN deliveries' = DOMAIN deliveries
          /\ deliveries'[d].phase = "inserting"
          /\ deliveries'[d].answer = deliveries[d].answer
          /\ deliveries'[d].body = deliveries[d].body
          /\ \A f \in DOMAIN deliveries : f # d => deliveries'[f] = deliveries[f]
        <3>1. deliveries' = [deliveries EXCEPT ![d] = [@ EXCEPT !.phase = "inserting"]]
            BY <1>4
        <3>2. deliveries'[d] = [deliveries[d] EXCEPT !.phase = "inserting"]
            BY <3>1
        <3> QED
            BY <2>1, <3>1, <3>2 DEF WebDelivery
    <2>3. \A f \in DOMAIN deliveries' :
              /\ deliveries'[f].answer # Absent <=> deliveries'[f].phase = "answered"
              /\ deliveries'[f].phase # "answered" => deliveries'[f].body # Empty
              /\ deliveries'[f].answer \in {"accepted", "duplicate"} =>
                    deliveries'[f].body \in events' \cup {Empty}
        BY <1>1, <2>2 DEF AnsweredIsKept
    <2> QED
        BY <1>1, <1>4, <2>2, <2>3 DEF AnsweredIsKept
<1> QED
    BY <1>2, <1>3, <1>4 DEF IngestLooksUp

\* A step that leaves the semaphore alone and forgets no event.
LEMMA ElsewhereAnswers ==
    ASSUME AnsweredIsKept, UNCHANGED <<deliveries, waiting, woken>>, events \subseteq events'
    PROVE  AnsweredIsKept'
BY DEF AnsweredIsKept

----------------------------------------------------------------------------
\* What a step that only moves jobs on keeps of what is stored.
JobsMoveOn ==
    /\ jobs' \in Seq(Job) /\ DOMAIN jobs' = DOMAIN jobs
    /\ \A j \in DOMAIN jobs : /\ jobs'[j].body = jobs[j].body
                              /\ jobs'[j].state \in {"created", "active", "retry"} =>
                                    jobs'[j].tries <= RetryLimit

LEMMA MovedOn ==
    ASSUME Stored, JobsMoveOn, UNCHANGED storeVars, letters' \subseteq DOMAIN jobs,
           ingestFaults' \in 0 .. MaxIngestFaults
    PROVE  Stored'
BY DEF Stored, Vaulted, Queued, JobsMoveOn, storeVars

\* A job that is written back is a job.
LEMMA JobWritten ==
    ASSUME Stored, NEW j \in DOMAIN jobs, NEW new,
           jobs' = [jobs EXCEPT ![j] = new], new \in Job, new.body = jobs[j].body,
           new.state \in {"created", "active", "retry"} => new.tries <= RetryLimit
    PROVE  JobsMoveOn
<1>1. jobs' \in Seq(Job) /\ DOMAIN jobs' = DOMAIN jobs
    BY DEF Stored, Vaulted, Queued
<1>2. \A k \in DOMAIN jobs : jobs'[k] = IF k = j THEN new ELSE jobs[k]
    BY DEF Stored, Vaulted, Queued
<1> QED
    BY <1>1, <1>2 DEF Stored, Vaulted, Queued, JobsMoveOn

\* A fault that happened was one that could.
LEMMA FaultCounted ==
    ASSUME Stored, Fault
    PROVE  ingestFaults' \in 0 .. MaxIngestFaults
BY IngestAssumption DEF Stored, Vaulted, Queued, Fault

\* The step of a job from its start to its dead letter.
LEMMA JobStepKeeps ==
    ASSUME Stored, NEW j \in DOMAIN jobs,
           StartJob(j) \/ Expire(j) \/ MergeFails(j) \/ mergeCallFromEvent(j) \/ recordJobDeadLetter(j)
    PROVE  /\ Stored'
           /\ JobsMoveOn \/ jobs' = jobs
<1>1. jobs[j] \in Job /\ RetryLimit \in Nat
    BY IngestAssumption DEF Stored, Vaulted, Queued
<1>2. /\ jobs[j].tries \in Nat /\ jobs[j].runs \in Int /\ jobs[j].tries <= RetryLimit + 1
      /\ jobs[j].state \in {"created", "active", "retry"} => jobs[j].tries <= RetryLimit
    <2>1. jobs[j].tries \in JobTries /\ jobs[j].runs \in Int
        BY <1>1 DEF Job
    <2>2. jobs[j].state \in {"created", "active", "retry"} => jobs[j].tries <= RetryLimit
        BY DEF Stored, Vaulted, Queued
    <2> QED
        BY <1>1, <2>1, <2>2 DEF JobTries
<1>0. jobs[j].runs + 1 \in Int /\ jobs[j].runs - 1 \in Int
    BY <1>2
<1>3. ASSUME jobs[j].state = "active"
      PROVE  /\ Failing(jobs[j]) \in {"retry", "failed"}
             /\ jobs[j].tries + 1 \in JobTries
             /\ Failing(jobs[j]) = "retry" => jobs[j].tries + 1 <= RetryLimit
    BY <1>1, <1>2, <1>3 DEF Failing, JobTries
<1>4. CASE StartJob(j)
    <2> DEFINE new == [jobs[j] EXCEPT !.state = "active", !.runs = @ + 1]
    <2>1. jobs' = [jobs EXCEPT ![j] = new]
        BY <1>4 DEF StartJob
    <2>2. new \in Job /\ new.body = jobs[j].body /\ new.tries = jobs[j].tries
        BY <1>0, <1>1 DEF Job
    <2>3. jobs[j].state \in {"created", "retry"} /\ UNCHANGED <<storeVars, letters, ingestFaults>>
        BY <1>4 DEF StartJob
    <2> HIDE DEF new
    <2>4. JobsMoveOn
        BY <1>2, <2>1, <2>2, <2>3, JobWritten
    <2> QED
        BY <2>3, <2>4, MovedOn DEF Stored, Vaulted, Queued
<1>5. CASE Expire(j)
    <2> DEFINE new == [jobs[j] EXCEPT !.state = Failing(jobs[j]), !.tries = @ + 1]
    <2>1. jobs' = [jobs EXCEPT ![j] = new]
        BY <1>5 DEF Expire
    <2>2. jobs[j].state = "active" /\ UNCHANGED <<storeVars, letters>> /\ Fault
        BY <1>5 DEF Expire
    <2>3. /\ new \in Job /\ new.body = jobs[j].body
          /\ new.tries = jobs[j].tries + 1 /\ new.state = Failing(jobs[j])
        BY <1>1, <1>2, <1>3, <2>2 DEF Job
    <2> HIDE DEF new
    <2>4. JobsMoveOn
        BY <1>3, <2>1, <2>2, <2>3, JobWritten
    <2>5. letters' \subseteq DOMAIN jobs
        BY <2>2 DEF Stored, Vaulted, Queued
    <2> QED
        BY <2>2, <2>4, <2>5, FaultCounted, MovedOn
<1>6. CASE MergeFails(j)
    <2> DEFINE new == [jobs[j] EXCEPT !.runs = @ - 1,
                          !.state = IF jobs[j].state = "active" THEN Failing(jobs[j]) ELSE @,
                          !.tries = IF jobs[j].state = "active" THEN @ + 1 ELSE @]
    <2>1. jobs' = [jobs EXCEPT ![j] = new]
        BY <1>6 DEF MergeFails
    <2>2. UNCHANGED <<storeVars, letters>> /\ Fault
        BY <1>6 DEF MergeFails
    <2>3. /\ new \in Job /\ new.body = jobs[j].body
          /\ new.tries = IF jobs[j].state = "active" THEN jobs[j].tries + 1 ELSE jobs[j].tries
          /\ new.state = IF jobs[j].state = "active" THEN Failing(jobs[j]) ELSE jobs[j].state
        BY <1>0, <1>1, <1>3 DEF Job
    <2> HIDE DEF new
    <2>4. JobsMoveOn
        BY <1>2, <1>3, <2>1, <2>3, JobWritten
    <2>5. letters' \subseteq DOMAIN jobs
        BY <2>2 DEF Stored, Vaulted, Queued
    <2> QED
        BY <2>2, <2>4, <2>5, FaultCounted, MovedOn
<1>7. CASE mergeCallFromEvent(j)
    <2> DEFINE new == [jobs[j] EXCEPT !.runs = @ - 1, !.merged = TRUE,
                          !.state = IF jobs[j].state = "active" THEN "completed" ELSE @]
    <2>1. jobs' = [jobs EXCEPT ![j] = new]
        BY <1>7 DEF mergeCallFromEvent
    <2>2. UNCHANGED <<storeVars, letters, ingestFaults>>
        BY <1>7 DEF mergeCallFromEvent
    <2>3. /\ new \in Job /\ new.body = jobs[j].body /\ new.tries = jobs[j].tries
          /\ new.state = IF jobs[j].state = "active" THEN "completed" ELSE jobs[j].state
        BY <1>0, <1>1 DEF Job
    <2> HIDE DEF new
    <2>4. JobsMoveOn
        BY <1>2, <2>1, <2>3, JobWritten
    <2> QED
        BY <2>2, <2>4, MovedOn DEF Stored, Vaulted, Queued
<1>8. CASE recordJobDeadLetter(j)
    BY <1>8 DEF recordJobDeadLetter, Stored, Vaulted, Queued, storeVars
<1> QED
    BY <1>4, <1>5, <1>6, <1>7, <1>8

\* A process that stops runs no job any more.
LEMMA RestartKeepsStored ==
    ASSUME Stored, Restart
    PROVE  /\ Stored' /\ JobsMoveOn
           /\ \A j \in DOMAIN jobs : jobs'[j].merged = jobs[j].merged
<1>1. jobs' = [j \in DOMAIN jobs |-> [jobs[j] EXCEPT !.runs = 0]]
    BY DEF Restart
<1>2. \A j \in DOMAIN jobs : /\ jobs[j] \in Job /\ [jobs[j] EXCEPT !.runs = 0] \in Job
                             /\ jobs'[j].body = jobs[j].body /\ jobs'[j].state = jobs[j].state
                             /\ jobs'[j].tries = jobs[j].tries /\ jobs'[j].merged = jobs[j].merged
    <2> SUFFICES ASSUME NEW j \in DOMAIN jobs
                 PROVE  /\ jobs[j] \in Job /\ [jobs[j] EXCEPT !.runs = 0] \in Job
                        /\ jobs'[j].body = jobs[j].body /\ jobs'[j].state = jobs[j].state
                        /\ jobs'[j].tries = jobs[j].tries /\ jobs'[j].merged = jobs[j].merged
        OBVIOUS
    <2>1. jobs[j] \in Job /\ jobs'[j] = [jobs[j] EXCEPT !.runs = 0]
        BY <1>1 DEF Stored, Vaulted, Queued
    <2> QED
        BY <2>1 DEF Job
<1>3. DOMAIN jobs = 1 .. Len(jobs) /\ Len(jobs) \in Nat
    BY DEF Stored, Vaulted, Queued
<1>4. jobs' \in Seq(Job)
    <2>1. jobs' \in [1 .. Len(jobs) -> Job]
        BY <1>1, <1>2, <1>3
    <2> QED
        BY <1>3, <2>1, SeqDef
<1>5. JobsMoveOn
    BY <1>1, <1>2, <1>4 DEF JobsMoveOn, Stored, Vaulted, Queued
<1>6. UNCHANGED storeVars /\ letters' \subseteq DOMAIN jobs /\ Fault
    BY DEF Restart, Stored, Vaulted, Queued
<1> QED
    BY <1>2, <1>5, <1>6, FaultCounted, MovedOn

\* The commit: one row in the vault, one event, one job, or nothing at all.
LEMMA CommitKeepsStored ==
    ASSUME PermitsAccounted, AnsweredIsKept, Stored, NEW d \in DOMAIN deliveries, IngestCommits(d)
    PROVE  /\ Stored' /\ events \subseteq events'
           /\ \/ Leave(d, "duplicate") /\ deliveries[d].body \in events'
              \/ Leave(d, "accepted") /\ deliveries[d].body \in events'
           /\ \/ jobs' = jobs
              \/ jobs' = Append(jobs, MergeJob(deliveries[d].body)) /\ MergeJob(deliveries[d].body) \in Job
<1> DEFINE raw == deliveries[d].body
<1>1. raw \in Body /\ raw # Empty
    <2>1. deliveries[d] \in WebDelivery
        BY DEF PermitsAccounted
    <2> QED
        BY <2>1 DEF WebDelivery, IngestCommits, AnsweredIsKept
<1>2. letters' = letters /\ ingestFaults' = ingestFaults
    BY DEF IngestCommits
<1>3. CASE raw \in events
    <2>1. Leave(d, "duplicate") /\ UNCHANGED <<storeVars, jobs>>
        BY <1>3 DEF IngestCommits
    <2>2. Stored'
        BY <1>2, <2>1 DEF Stored, Vaulted, Queued, storeVars
    <2> QED
        BY <1>3, <2>1, <2>2 DEF storeVars
<1>4. CASE raw \notin events
    <2>1. /\ Leave(d, "accepted")
          /\ events' = events \cup {raw} /\ vault' = [vault EXCEPT ![raw] = @ + 1]
          /\ jobs' = IF Routable(raw) THEN Append(jobs, MergeJob(raw)) ELSE jobs
        BY <1>4 DEF IngestCommits
    <2> HIDE DEF raw
    <2>2. vault' \in [Body -> Nat] /\ \A b \in Body : vault'[b] = IF b \in events' THEN 1 ELSE 0
        <3>1. vault[raw] = 0
            BY <1>1, <1>4 DEF Stored, Vaulted, Queued
        <3>2. vault' = [vault EXCEPT ![raw] = 1]
            BY <2>1, <3>1
        <3> QED
            BY <1>1, <2>1, <3>2 DEF Stored, Vaulted, Queued
    <2>3. events' \subseteq Body \ {Empty}
        BY <1>1, <2>1 DEF Stored, Vaulted, Queued
    <2>4. CASE ~Routable(raw)
        <3>1. jobs' = jobs
            BY <2>1, <2>4
        <3>2. Queued'
            <4>1. \A j \in DOMAIN jobs' : /\ jobs'[j].body \in events' /\ Routable(jobs'[j].body)
                                          /\ jobs'[j].state \in {"created", "active", "retry"} =>
                                               jobs'[j].tries <= RetryLimit
                BY <2>1, <3>1 DEF Stored, Queued
            <4>2. \A b \in events' : Routable(b) => \E j \in DOMAIN jobs' : jobs'[j].body = b
                BY <2>1, <2>4, <3>1 DEF Stored, Queued
            <4>3. jobs' \in Seq(Job)
                BY <3>1 DEF Stored, Queued
            <4>4. \A j, k \in DOMAIN jobs' : jobs'[j].body = jobs'[k].body => j = k
                BY <3>1 DEF Stored, Queued
            <4> QED
                BY <4>1, <4>2, <4>3, <4>4 DEF Queued
        <3>3. Stored'
            BY <1>2, <2>2, <2>3, <3>1, <3>2 DEF Stored, Vaulted
        <3> QED
            BY <2>1, <3>1, <3>3 DEF raw
    <2>5. CASE Routable(raw)
        <3> DEFINE new == MergeJob(raw)
        <3>1. /\ new \in Job /\ new.body = raw /\ new.state = "created" /\ new.tries = 0
              /\ RetryLimit \in Nat
            BY <1>1, IngestAssumption DEF MergeJob, Job, QueueName, CallKey, JobTries
        <3>2. jobs' = Append(jobs, new)
            BY <2>1, <2>5
        <3> HIDE DEF new
        <3> DEFINE n == Len(jobs)
        <3>3. /\ n \in Nat /\ DOMAIN jobs = 1 .. n /\ DOMAIN jobs' = 1 .. n + 1
              /\ jobs'[n + 1] = new /\ \A j \in 1 .. n : jobs'[j] = jobs[j]
              /\ jobs' \in Seq(Job)
            BY <3>1, <3>2 DEF Stored, Vaulted, Queued
        <3> HIDE DEF n
        <3>4. \A j \in 1 .. n : jobs[j].body # raw
            BY <1>4, <3>3 DEF Stored, Vaulted, Queued
        <3>5. \A j \in DOMAIN jobs' : /\ jobs'[j].body \in events' /\ Routable(jobs'[j].body)
                                      /\ jobs'[j].state \in {"created", "active", "retry"} =>
                                            jobs'[j].tries <= RetryLimit
            <4> SUFFICES ASSUME NEW j \in 1 .. n + 1
                         PROVE  /\ jobs'[j].body \in events' /\ Routable(jobs'[j].body)
                                /\ jobs'[j].state \in {"created", "active", "retry"} =>
                                      jobs'[j].tries <= RetryLimit
                BY <3>3
            <4>1. CASE j = n + 1
                BY <2>1, <2>5, <3>1, <3>3, <4>1
            <4>2. CASE j \in 1 .. n
                BY <2>1, <3>3, <4>2 DEF Stored, Vaulted, Queued
            <4> QED
                BY <3>3, <4>1, <4>2
        <3>6. \A j, k \in DOMAIN jobs' : jobs'[j].body = jobs'[k].body => j = k
            <4> SUFFICES ASSUME NEW j \in 1 .. n + 1, NEW k \in 1 .. n + 1,
                                jobs'[j].body = jobs'[k].body
                         PROVE  j = k
                BY <3>3
            <4>1. CASE j \in 1 .. n /\ k \in 1 .. n
                BY <3>3, <4>1 DEF Stored, Vaulted, Queued
            <4> QED
                BY <3>1, <3>3, <3>4, <4>1
        <3>7. \A b \in events' : Routable(b) => \E j \in DOMAIN jobs' : jobs'[j].body = b
            <4> SUFFICES ASSUME NEW b \in events', Routable(b)
                         PROVE  \E j \in DOMAIN jobs' : jobs'[j].body = b
                OBVIOUS
            <4>1. CASE b = raw
                BY <3>1, <3>3, <4>1
            <4>2. CASE b \in events
                BY <3>3, <4>2 DEF Stored, Vaulted, Queued
            <4> QED
                BY <2>1, <4>1, <4>2
        <3>8. letters' \subseteq DOMAIN jobs'
            BY <1>2, <3>3 DEF Stored, Vaulted, Queued
        <3>9. Stored'
            BY <1>2, <2>2, <2>3, <3>3, <3>5, <3>6, <3>7, <3>8 DEF Stored, Vaulted, Queued
        <3> QED
            BY <2>1, <3>1, <3>2, <3>9 DEF raw, new
    <2> QED
        BY <2>4, <2>5
<1> QED
    BY <1>3, <1>4

----------------------------------------------------------------------------
\* The earlier, and the later, of two clocks that may be absent.
LEMMA EarlierIs ==
    ASSUME NEW x \in Nat \cup {Absent}, NEW y \in Nat \cup {Absent}
    PROVE  /\ Earlier(x, y) \in {x, y}
           /\ Earlier(x, y) = Absent => x = Absent /\ y = Absent
           /\ Earlier(x, y) # Absent => /\ x # Absent => Earlier(x, y) <= x
                                        /\ y # Absent => Earlier(x, y) <= y
<1>1. CASE x = Absent \/ y = Absent
    BY <1>1, AbsentAssumption DEF Earlier
<1>2. CASE x \in Nat /\ y \in Nat
    <2>1. x # Absent /\ y # Absent
        BY <1>2, AbsentAssumption
    <2>2. \E m \in {x, y} : \A z \in {x, y} : m =< z
        <3>1. x <= y \/ y <= x
            BY <1>2
        <3> QED
            BY <1>2, <3>1
    <2>3. Min({x, y}) \in {x, y} /\ \A z \in {x, y} : Min({x, y}) =< z
        BY <2>2 DEF Min
    <2> QED
        BY <1>2, <2>1, <2>3 DEF Earlier
<1> QED
    BY <1>1, <1>2

LEMMA LaterIs ==
    ASSUME NEW x \in Nat \cup {Absent}, NEW y \in Nat \cup {Absent}
    PROVE  /\ Later(x, y) \in {x, y}
           /\ Later(x, y) = Absent => x = Absent /\ y = Absent
           /\ Later(x, y) # Absent => /\ x # Absent => x <= Later(x, y)
                                      /\ y # Absent => y <= Later(x, y)
<1>1. CASE x = Absent \/ y = Absent
    BY <1>1, AbsentAssumption DEF Later
<1>2. CASE x \in Nat /\ y \in Nat
    <2>1. x # Absent /\ y # Absent
        BY <1>2, AbsentAssumption
    <2>2. \E m \in {x, y} : \A z \in {x, y} : m >= z
        <3>1. x <= y \/ y <= x
            BY <1>2
        <3> QED
            BY <1>2, <3>1
    <2>3. Max({x, y}) \in {x, y} /\ \A z \in {x, y} : Max({x, y}) >= z
        BY <2>2 DEF Max
    <2> QED
        BY <1>2, <2>1, <2>3 DEF Later
<1> QED
    BY <1>1, <1>2

\* The least and the greatest number of a set.
LEMMA LeastIs ==
    ASSUME NEW X, X \subseteq Nat, NEW m \in X, \A z \in X : m <= z
    PROVE  Min(X) = m
<1>1. Min(X) \in X /\ \A z \in X : Min(X) =< z
    BY DEF Min
<1>2. Min(X) \in Nat /\ m \in Nat /\ Min(X) <= m /\ m <= Min(X)
    BY <1>1
<1> QED
    BY <1>2

LEMMA GreatestIs ==
    ASSUME NEW X, X \subseteq Nat, NEW m \in X, \A z \in X : z <= m
    PROVE  Max(X) = m
<1>1. Max(X) \in X /\ \A z \in X : Max(X) >= z
    <2>1. \E x \in X : \A z \in X : x >= z
        OBVIOUS
    <2> QED
        BY <2>1 DEF Max
<1>2. Max(X) \in Nat /\ m \in Nat /\ Max(X) <= m /\ m <= Max(X)
    BY <1>1
<1> QED
    BY <1>2

----------------------------------------------------------------------------
\* What the row of a call remembers of what was merged, in the words a step can
\* keep: a value it has was said, and what it does not have was not.
Clock == Nat \cup {Absent}

Remembered ==
    /\ Merged \subseteq Body \ {Empty}
    /\ call = Absent => Merged = {}
    /\ call # Absent =>
         /\ call \in CallRow /\ call.created \in Clock /\ call.last \in Clock
         /\ call.state = "completed" <=> \E b \in Merged : mapCallFields(b).state = "completed"
         /\ \A field \in {"recording", "owner", "disposition", "created", "last"} :
               /\ call[field] = Absent => \A b \in Merged : mapCallFields(b)[field] = Absent
               /\ call[field] # Absent => \E b \in Merged : mapCallFields(b)[field] = call[field]
         /\ \A b \in Merged : mapCallFields(b).created # Absent => call.created <= mapCallFields(b).created
         /\ \A b \in Merged : mapCallFields(b).last # Absent => mapCallFields(b).last <= call.last

\* What a delivery says of a call could be its row.
LEMMA SaidFits ==
    ASSUME NEW b \in Body \ {Empty}
    PROVE  /\ mapCallFields(b) \in CallRow
           /\ mapCallFields(b).created \in Clock /\ mapCallFields(b).last \in Clock
<1>1. stateOf(b) \in {"initiated", "completed"}
    BY DEF stateOf
<1>2. \A k \in Says : Envelope[b][k] \in Told
    BY DEF Told
<1>3. DOMAIN Envelope[b] = Says
    BY IngestAssumption
<1>4. /\ Envelope[b].disposition \in Told /\ Envelope[b].recording \in Told /\ Envelope[b].user \in Told
      /\ Envelope[b].created \in Told /\ Envelope[b].updated \in Told
    <2>1. {"disposition", "recording", "user", "created", "updated"} \subseteq Says
        BY DEF Says
    <2> QED
        BY <1>2, <2>1
<1>5. Envelope[b].created \in Clock /\ Envelope[b].updated \in Clock
    BY AbsentAssumption DEF Clock
<1> QED
    BY <1>1, <1>4, <1>5 DEF mapCallFields, CallRow

\* One merge: what the row remembers of one delivery more.
LEMMA MergeRemembers ==
    ASSUME Remembered, NEW b \in Body \ {Empty}, Merged' = Merged \cup {b},
           call' = call_merge(call, mapCallFields(b))
    PROVE  Remembered'
<1> DEFINE t == mapCallFields(b)
<1>1. t \in CallRow /\ t.created \in Clock /\ t.last \in Clock
    BY SaidFits
<1>2. /\ t.state \in {"initiated", "completed"}
      /\ \A f \in {"recording", "owner", "disposition", "created", "last"} : t[f] \in Told
    BY <1>1 DEF CallRow
<1>3. Merged' \subseteq Body \ {Empty} /\ Merged' # {}
    BY DEF Remembered
<1>4. CASE call = Absent
    <2>1. call' = t /\ Merged' = {b}
        BY <1>4 DEF call_merge, Remembered
    <2>2. call' # Absent
        BY <1>1, <2>1, AbsentAssumption
    <2>3. /\ t.created # Absent => t.created <= t.created
          /\ t.last # Absent => t.last <= t.last
        BY <1>1, AbsentAssumption DEF Clock
    <2> QED
        BY <1>1, <1>3, <2>1, <2>2, <2>3 DEF Remembered
<1>5. CASE call # Absent
    <2> HIDE DEF t
    <2>1. /\ call \in CallRow /\ call.created \in Clock /\ call.last \in Clock
          /\ call.state \in {"initiated", "completed"}
          /\ \A f \in {"recording", "owner", "disposition", "created", "last"} : call[f] \in Told
        BY <1>5 DEF Remembered, CallRow
    <2>2. call' = call_merge(call, t)
        BY DEF t
    <2> DEFINE d == IF t.disposition = Absent THEN call.disposition
                    ELSE IF call.disposition = Absent THEN t.disposition
                    ELSE IF t.last # Absent /\ (call.last = Absent \/ t.last >= call.last)
                         THEN t.disposition ELSE call.disposition
    <2>3. /\ call'.state = IF call.state = "completed" THEN "completed" ELSE t.state
          /\ call'.recording = Coalesce(t.recording, call.recording)
          /\ call'.owner = Coalesce(t.owner, call.owner)
          /\ call'.created = Earlier(call.created, t.created)
          /\ call'.last = Later(call.last, t.last)
          /\ call'.disposition = d
        BY <1>5, <2>2 DEF call_merge
    <2>4. /\ call'.created \in {call.created, t.created}
          /\ call'.created = Absent => call.created = Absent /\ t.created = Absent
          /\ call'.created # Absent => /\ call.created # Absent => call'.created <= call.created
                                       /\ t.created # Absent => call'.created <= t.created
        <3>1. PICK x, y : x = call.created /\ y = t.created
            OBVIOUS
        <3>2. x \in Nat \cup {Absent} /\ y \in Nat \cup {Absent}
            BY <1>1, <2>1, <3>1 DEF Clock
        <3>3. call'.created = Earlier(x, y)
            BY <2>3, <3>1
        <3> QED
            <4>1. /\ Earlier(x, y) \in {x, y}
                  /\ Earlier(x, y) = Absent => x = Absent /\ y = Absent
                  /\ Earlier(x, y) # Absent => /\ x # Absent => Earlier(x, y) <= x
                                               /\ y # Absent => Earlier(x, y) <= y
                BY <3>2, EarlierIs
            <4> QED
                BY <3>1, <3>3, <4>1, Zenon
    <2>5. /\ call'.last \in {call.last, t.last}
          /\ call'.last = Absent => call.last = Absent /\ t.last = Absent
          /\ call'.last # Absent => /\ call.last # Absent => call.last <= call'.last
                                    /\ t.last # Absent => t.last <= call'.last
        <3>1. PICK x, y : x = call.last /\ y = t.last
            OBVIOUS
        <3>2. x \in Nat \cup {Absent} /\ y \in Nat \cup {Absent}
            BY <1>1, <2>1, <3>1 DEF Clock
        <3>3. call'.last = Later(x, y)
            BY <2>3, <3>1
        <3> QED
            <4>1. /\ Later(x, y) \in {x, y}
                  /\ Later(x, y) = Absent => x = Absent /\ y = Absent
                  /\ Later(x, y) # Absent => /\ x # Absent => x <= Later(x, y)
                                             /\ y # Absent => y <= Later(x, y)
                BY <3>2, LaterIs
            <4> QED
                BY <3>1, <3>3, <4>1, Zenon
    <2>6. \A f \in {"recording", "owner", "disposition", "created", "last"} :
              /\ call'[f] \in {call[f], t[f]}
              /\ call'[f] = Absent => call[f] = Absent /\ t[f] = Absent
        <3>1. /\ call'.recording \in {call.recording, t.recording}
              /\ call'.recording = Absent => call.recording = Absent /\ t.recording = Absent
              /\ call'.owner \in {call.owner, t.owner}
              /\ call'.owner = Absent => call.owner = Absent /\ t.owner = Absent
            BY <2>3 DEF Coalesce
        <3>2. /\ call'.disposition \in {call.disposition, t.disposition}
              /\ call'.disposition = Absent => call.disposition = Absent /\ t.disposition = Absent
            BY <2>3
        <3> QED
            BY <2>4, <2>5, <3>1, <3>2
    <2>7. call' \in CallRow /\ call'.created \in Clock /\ call'.last \in Clock
        <3>1. /\ call'.state \in {"initiated", "completed"}
              /\ \A f \in {"recording", "owner", "disposition", "created", "last"} : call'[f] \in Told
            BY <1>2, <2>1, <2>3, <2>6
        <3>2. call' = [state |-> call'.state, recording |-> call'.recording, owner |-> call'.owner,
                       created |-> call'.created, last |-> call'.last, disposition |-> call'.disposition]
            BY <1>5, <2>2 DEF call_merge
        <3>3. call'.created \in Clock /\ call'.last \in Clock
            BY <1>1, <2>1, <2>4, <2>5
        <3>4. /\ call'.state \in {"initiated", "completed"} /\ call'.recording \in Told
              /\ call'.owner \in Told /\ call'.disposition \in Told
              /\ call'.created \in Told /\ call'.last \in Told
            BY <3>1
        <3> HIDE DEF d
        <3> QED
            BY <3>2, <3>3, <3>4 DEF CallRow
    <2>8. call' # Absent
        BY <2>7, AbsentAssumption
    <2>9. call'.state = "completed" <=> \E c \in Merged' : mapCallFields(c).state = "completed"
        BY <1>5, <2>3 DEF Remembered, t
    <2>10. \A f \in {"recording", "owner", "disposition", "created", "last"} :
               /\ call'[f] = Absent => \A c \in Merged' : mapCallFields(c)[f] = Absent
               /\ call'[f] # Absent => \E c \in Merged' : mapCallFields(c)[f] = call'[f]
        <3> SUFFICES ASSUME NEW f \in {"recording", "owner", "disposition", "created", "last"}
                     PROVE  /\ call'[f] = Absent => \A c \in Merged' : mapCallFields(c)[f] = Absent
                            /\ call'[f] # Absent => \E c \in Merged' : mapCallFields(c)[f] = call'[f]
            OBVIOUS
        <3>1. /\ call[f] = Absent => \A c \in Merged : mapCallFields(c)[f] = Absent
              /\ call[f] # Absent => \E c \in Merged : mapCallFields(c)[f] = call[f]
            BY <1>5 DEF Remembered
        <3>2. mapCallFields(b)[f] = t[f]
            BY DEF t
        <3> QED
            BY <2>6, <3>1, <3>2
    <2>11. \A c \in Merged' : mapCallFields(c).created # Absent => call'.created <= mapCallFields(c).created
        <3> SUFFICES ASSUME NEW c \in Merged', mapCallFields(c).created # Absent
                     PROVE  call'.created <= mapCallFields(c).created
            OBVIOUS
        <3>1. CASE c = b
            <4>1. t.created # Absent
                BY <3>1 DEF t
            <4>2. call'.created # Absent
                BY <2>4, <4>1
            <4> QED
                BY <2>4, <3>1, <4>1, <4>2 DEF t
        <3>2. CASE c \in Merged
            <4>1. call.created <= mapCallFields(c).created /\ call.created # Absent
                BY <1>5, <3>2 DEF Remembered
            <4>2. call'.created # Absent /\ call'.created <= call.created
                BY <2>4, <4>1
            <4>3. c \in Body \ {Empty}
                BY <1>3
            <4>4. mapCallFields(c).created \in Nat /\ call.created \in Nat /\ call'.created \in Nat
                BY <1>1, <2>1, <2>4, <4>1, <4>2, <4>3, SaidFits DEF Clock
            <4> QED
                BY <4>1, <4>2, <4>4
        <3> QED
            BY <3>1, <3>2
    <2>12. \A c \in Merged' : mapCallFields(c).last # Absent => mapCallFields(c).last <= call'.last
        <3> SUFFICES ASSUME NEW c \in Merged', mapCallFields(c).last # Absent
                     PROVE  mapCallFields(c).last <= call'.last
            OBVIOUS
        <3>1. CASE c = b
            <4>1. t.last # Absent
                BY <3>1 DEF t
            <4>2. call'.last # Absent
                BY <2>5, <4>1
            <4> QED
                BY <2>5, <3>1, <4>1, <4>2 DEF t
        <3>2. CASE c \in Merged
            <4>1. mapCallFields(c).last <= call.last /\ call.last # Absent
                BY <1>5, <3>2 DEF Remembered
            <4>2. call'.last # Absent /\ call.last <= call'.last
                BY <2>5, <4>1
            <4>3. c \in Body \ {Empty}
                BY <1>3
            <4>4. mapCallFields(c).last \in Nat /\ call.last \in Nat /\ call'.last \in Nat
                BY <1>1, <2>1, <2>5, <4>1, <4>2, <4>3, SaidFits DEF Clock
            <4> QED
                BY <4>1, <4>2, <4>4
        <3> QED
            BY <3>1, <3>2
    <2> QED
        BY <1>3, <2>7, <2>8, <2>9, <2>10, <2>11, <2>12 DEF Remembered
<1> QED
    BY <1>4, <1>5

\* What a row that remembers says is what NothingIsForgotten asks.
LEMMA RememberedIsNotForgotten == Remembered => NothingIsForgotten
<1> SUFFICES ASSUME Remembered, call # Absent PROVE NothingIsForgotten
    BY DEF NothingIsForgotten
<1> DEFINE told == {mapCallFields(b) : b \in Merged}
           Said(field) == {m[field] : m \in told} \ {Absent}
<1>1. \A field, v : v \in Said(field) <=> v # Absent /\ \E b \in Merged : mapCallFields(b)[field] = v
    OBVIOUS
<1>2. \A b \in Merged : mapCallFields(b).created \in Clock /\ mapCallFields(b).last \in Clock
    BY SaidFits DEF Remembered
<1> HIDE DEF Said, told
<1>3. (call.state = "completed") <=> ("completed" \in Said("state"))
    BY <1>1, AbsentAssumption DEF Remembered
<1>4. \A field \in {"recording", "owner", "disposition", "created", "last"} :
         IF Said(field) = {} THEN call[field] = Absent ELSE call[field] \in Said(field)
    <2> SUFFICES ASSUME NEW field \in {"recording", "owner", "disposition", "created", "last"}
                 PROVE  IF Said(field) = {} THEN call[field] = Absent ELSE call[field] \in Said(field)
        OBVIOUS
    <2>1. CASE call[field] = Absent
        <3>1. \A b \in Merged : mapCallFields(b)[field] = Absent
            BY <2>1 DEF Remembered
        <3>2. \A v : v \notin Said(field)
            BY <1>1, <3>1
        <3> QED
            BY <2>1, <3>2
    <2>2. CASE call[field] # Absent
        <3>1. \E b \in Merged : mapCallFields(b)[field] = call[field]
            BY <2>2 DEF Remembered
        <3>2. call[field] \in Said(field)
            BY <1>1, <2>2, <3>1
        <3> QED
            BY <3>2
    <2> QED
        BY <2>1, <2>2
<1>5. call.created = IF Said("created") = {} THEN Absent ELSE Min(Said("created"))
    <2>1. CASE Said("created") = {}
        BY <1>4, <2>1
    <2>2. CASE Said("created") # {}
        <3>1. call.created \in Said("created")
            BY <1>4, <2>2
        <3>2. Said("created") \subseteq Nat
            BY <1>1, <1>2 DEF Clock
        <3>3. \A z \in Said("created") : call.created <= z
            BY <1>1 DEF Remembered
        <3> QED
            BY <2>2, <3>1, <3>2, <3>3, LeastIs
    <2> QED
        BY <2>1, <2>2
<1>6. call.last = IF Said("last") = {} THEN Absent ELSE Max(Said("last"))
    <2>1. CASE Said("last") = {}
        BY <1>4, <2>1
    <2>2. CASE Said("last") # {}
        <3>1. call.last \in Said("last")
            BY <1>4, <2>2
        <3>2. Said("last") \subseteq Nat
            BY <1>1, <1>2 DEF Clock
        <3>3. \A z \in Said("last") : z <= call.last
            BY <1>1 DEF Remembered
        <3> QED
            BY <2>2, <3>1, <3>2, <3>3, GreatestIs
    <2> QED
        BY <2>1, <2>2
<1> QED
    BY <1>3, <1>4, <1>5, <1>6 DEF NothingIsForgotten, Said, told

----------------------------------------------------------------------------
(* The deliveries *)

DeliveriesSafe == PermitsAccounted /\ AnsweredIsKept /\ Stored /\ Remembered

\* Jobs that move on without a merge, or are added, merge nothing.
LEMMA NothingMerged ==
    ASSUME Remembered, call' = call, DOMAIN jobs \subseteq DOMAIN jobs',
           \A j \in DOMAIN jobs : jobs'[j].body = jobs[j].body /\ jobs'[j].merged = jobs[j].merged,
           \A j \in DOMAIN jobs' \ DOMAIN jobs : ~jobs'[j].merged
    PROVE  Remembered'
<1>1. Merged' = Merged
    BY DEF Merged
<1> QED
    BY <1>1 DEF Remembered

\* Every step keeps what is remembered.
LEMMA RememberedStep ==
    ASSUME DeliveriesSafe, [IngestNext]_ingestVars
    PROVE  Remembered'
<1>1. jobs \in Seq(Job)
    BY DEF DeliveriesSafe, Stored, Queued
<1>2. ASSUME call' = call, jobs' = jobs PROVE Remembered'
    BY <1>2 DEF DeliveriesSafe, Remembered, Merged
<1>3. ASSUME NEW j \in DOMAIN jobs, NEW new, jobs' = [jobs EXCEPT ![j] = new],
             new.body = jobs[j].body, new.merged = jobs[j].merged, call' = call
      PROVE  Remembered'
    <2>1. DOMAIN jobs' = DOMAIN jobs
          /\ \A k \in DOMAIN jobs : jobs'[k] = IF k = j THEN new ELSE jobs[k]
        BY <1>1, <1>3
    <2> QED
        BY <1>3, <2>1, NothingMerged DEF DeliveriesSafe
<1>4. CASE \E b \in Body, token \in Token : Arrive(b, token)
    BY <1>2, <1>4 DEF Arrive
<1>5. CASE Resume
    BY <1>2, <1>5 DEF Resume
<1>6. CASE Restart
    <2>1. call' = call /\ DOMAIN jobs' = DOMAIN jobs
          /\ \A j \in DOMAIN jobs : jobs'[j].body = jobs[j].body /\ jobs'[j].merged = jobs[j].merged
        BY <1>6, RestartKeepsStored DEF DeliveriesSafe, JobsMoveOn, Restart
    <2> QED
        BY <2>1, NothingMerged DEF DeliveriesSafe
<1>7. ASSUME NEW d \in DOMAIN deliveries, IngestLooksUp(d) \/ IngestFails(d) PROVE Remembered'
    BY <1>2, <1>7 DEF IngestLooksUp, IngestFails
<1>8. ASSUME NEW d \in DOMAIN deliveries, IngestCommits(d) PROVE Remembered'
    <2>1. call' = call
        BY <1>8 DEF IngestCommits
    <2>2. CASE jobs' = jobs
        BY <1>2, <2>1, <2>2
    <2>3. ASSUME NEW new \in Job, jobs' = Append(jobs, new), ~new.merged
          PROVE  Remembered'
        <3>1. /\ DOMAIN jobs \subseteq DOMAIN jobs'
              /\ \A j \in DOMAIN jobs : jobs'[j] = jobs[j]
              /\ \A j \in DOMAIN jobs' \ DOMAIN jobs : jobs'[j] = new
            BY <1>1, <2>3
        <3> QED
            BY <2>1, <2>3, <3>1, NothingMerged DEF DeliveriesSafe
    <2>4. ~MergeJob(deliveries[d].body).merged
        BY DEF MergeJob
    <2> QED
        BY <1>8, <2>2, <2>3, <2>4, CommitKeepsStored DEF DeliveriesSafe
<1>9. ASSUME NEW j \in DOMAIN jobs, StartJob(j) \/ Expire(j) \/ MergeFails(j) PROVE Remembered'
    <2>0. jobs[j] \in Job
        BY <1>1
    <2>1. call' = call
        BY <1>9 DEF StartJob, Expire, MergeFails
    <2>2. CASE StartJob(j)
        <3> DEFINE new == [jobs[j] EXCEPT !.state = "active", !.runs = @ + 1]
        <3>1. jobs' = [jobs EXCEPT ![j] = new]
            BY <2>2 DEF StartJob
        <3>2. new.body = jobs[j].body /\ new.merged = jobs[j].merged
            BY <2>0 DEF Job
        <3> HIDE DEF new
        <3> QED
            BY <1>3, <2>1, <3>1, <3>2
    <2>3. CASE Expire(j)
        <3> DEFINE new == [jobs[j] EXCEPT !.state = Failing(jobs[j]), !.tries = @ + 1]
        <3>1. jobs' = [jobs EXCEPT ![j] = new]
            BY <2>3 DEF Expire
        <3>2. new.body = jobs[j].body /\ new.merged = jobs[j].merged
            BY <2>0 DEF Job
        <3> HIDE DEF new
        <3> QED
            BY <1>3, <2>1, <3>1, <3>2
    <2>4. CASE MergeFails(j)
        <3> DEFINE new == [jobs[j] EXCEPT !.runs = @ - 1,
                              !.state = IF jobs[j].state = "active" THEN Failing(jobs[j]) ELSE @,
                              !.tries = IF jobs[j].state = "active" THEN @ + 1 ELSE @]
        <3>1. jobs' = [jobs EXCEPT ![j] = new]
            BY <2>4 DEF MergeFails
        <3>2. new.body = jobs[j].body /\ new.merged = jobs[j].merged
            BY <2>0 DEF Job
        <3> HIDE DEF new
        <3> QED
            BY <1>3, <2>1, <3>1, <3>2
    <2> QED
        BY <1>9, <2>2, <2>3, <2>4
<1>10. ASSUME NEW j \in DOMAIN jobs, mergeCallFromEvent(j) PROVE Remembered'
    <2> DEFINE new == [jobs[j] EXCEPT !.runs = @ - 1, !.merged = TRUE,
                          !.state = IF jobs[j].state = "active" THEN "completed" ELSE @]
    <2>1. jobs' = [jobs EXCEPT ![j] = new] /\ call' = call_merge(call, mapCallFields(jobs[j].body))
        BY <1>10 DEF mergeCallFromEvent
    <2>2. jobs[j] \in Job /\ jobs[j].body \in Body \ {Empty}
        BY <1>1 DEF DeliveriesSafe, Stored, Queued, Vaulted
    <2>3. new.body = jobs[j].body /\ new.merged
        BY <2>2 DEF Job
    <2> HIDE DEF new
    <2>4. DOMAIN jobs' = DOMAIN jobs /\ \A k \in DOMAIN jobs : jobs'[k] = IF k = j THEN new ELSE jobs[k]
        BY <1>1, <2>1
    <2>5. Merged' = Merged \cup {jobs[j].body}
        BY <2>3, <2>4 DEF Merged
    <2> QED
        BY <2>1, <2>2, <2>5, MergeRemembers DEF DeliveriesSafe
<1>11. ASSUME NEW j \in DOMAIN jobs, recordJobDeadLetter(j) PROVE Remembered'
    BY <1>2, <1>11 DEF recordJobDeadLetter
<1>12. CASE UNCHANGED ingestVars
    BY <1>2, <1>12 DEF ingestVars
<1> QED
    BY <1>4, <1>5, <1>6, <1>7, <1>8, <1>9, <1>10, <1>11, <1>12 DEF IngestNext

\* Nothing is remembered of a call in a process that starts, and nothing was told.
LEMMA DeliveriesInit == IngestInit => DeliveriesSafe
<1> SUFFICES ASSUME IngestInit PROVE DeliveriesSafe
    OBVIOUS
<1>1. Merged = {}
    BY DEF IngestInit, Merged
<1>2. Remembered
    BY <1>1 DEF IngestInit, Remembered
<1> QED
    BY <1>2, PermitsInit, StoredInit DEF DeliveriesSafe

\* Every step keeps the deliveries safe.
LEMMA DeliveriesStep == DeliveriesSafe /\ [IngestNext]_ingestVars => DeliveriesSafe'
<1> SUFFICES ASSUME DeliveriesSafe, [IngestNext]_ingestVars PROVE DeliveriesSafe'
    OBVIOUS
<1>0. PermitsAccounted /\ AnsweredIsKept /\ Stored
    BY DEF DeliveriesSafe
<1>1. PermitsAccounted' /\ Remembered'
    BY <1>0, PermitsStep, RememberedStep
<1>2. ASSUME UNCHANGED <<storeVars, jobs, letters>>, ingestFaults' \in 0 .. MaxIngestFaults
      PROVE  Stored' /\ events' = events
    BY <1>0, <1>2 DEF Stored, Vaulted, Queued, storeVars
<1>3. ASSUME UNCHANGED <<storeVars, jobs, letters, ingestFaults>>
      PROVE  Stored' /\ events' = events
    BY <1>0, <1>2, <1>3 DEF Stored
<1>4. ASSUME NEW b \in Body, NEW token \in Token, Arrive(b, token) PROVE AnsweredIsKept' /\ Stored'
    BY <1>0, <1>3, <1>4, ArriveAnswers DEF Arrive
<1>5. CASE Resume
    BY <1>0, <1>1, <1>3, <1>5, ResumeAnswers DEF Resume, DeliveriesSafe
<1>6. CASE Restart
    BY <1>0, <1>1, <1>6, RestartAnswers, RestartKeepsStored DEF DeliveriesSafe
<1>7. ASSUME NEW d \in DOMAIN deliveries, IngestLooksUp(d) PROVE AnsweredIsKept' /\ Stored'
    BY <1>0, <1>3, <1>7, LooksUpAnswers DEF IngestLooksUp
<1>8. ASSUME NEW d \in DOMAIN deliveries, IngestCommits(d) PROVE AnsweredIsKept' /\ Stored'
    <2>1. woken = 0 /\ deliveries[d].phase \in {"admitted", "inserting"}
        BY <1>8 DEF IngestCommits
    <2>2. Stored' /\ events \subseteq events' /\ deliveries[d].body \in events'
        BY <1>0, <1>8, CommitKeepsStored
    <2>3. \E answer \in {"duplicate", "accepted"} : Leave(d, answer)
        BY <1>0, <1>8, CommitKeepsStored
    <2> QED
        BY <1>0, <2>1, <2>2, <2>3, LeaveAnswers
<1>9. ASSUME NEW d \in DOMAIN deliveries, IngestFails(d) PROVE AnsweredIsKept' /\ Stored'
    <2>1. /\ woken = 0 /\ deliveries[d].phase \in {"admitted", "inserting"} /\ Leave(d, "error")
          /\ Fault /\ UNCHANGED <<storeVars, jobs, letters>>
        BY <1>9 DEF IngestFails
    <2>2. Stored' /\ events' = events
        BY <1>0, <1>2, <2>1, FaultCounted
    <2> QED
        BY <1>0, <2>1, <2>2, LeaveAnswers
<1>10. ASSUME NEW j \in DOMAIN jobs,
              StartJob(j) \/ Expire(j) \/ MergeFails(j) \/ mergeCallFromEvent(j) \/ recordJobDeadLetter(j)
       PROVE  AnsweredIsKept' /\ Stored'
    <2>1. UNCHANGED webVars /\ UNCHANGED storeVars
        BY <1>10 DEF StartJob, Expire, MergeFails, mergeCallFromEvent, recordJobDeadLetter
    <2> QED
        BY <1>0, <1>10, <2>1, JobStepKeeps, ElsewhereAnswers DEF webVars, storeVars
<1>11. CASE UNCHANGED ingestVars
    <2>1. UNCHANGED webVars /\ UNCHANGED <<storeVars, jobs, letters, ingestFaults>>
        BY <1>11 DEF ingestVars
    <2>2. Stored' /\ events' = events
        BY <1>3, <2>1
    <2> QED
        BY <1>0, <1>1, <2>1, <2>2, ElsewhereAnswers DEF webVars, DeliveriesSafe
<1> QED
    BY <1>1, <1>4, <1>5, <1>6, <1>7, <1>8, <1>9, <1>10, <1>11 DEF IngestNext, DeliveriesSafe

\* A job for each stored delivery that is merged, and none besides.
LEMMA StoredIsKept == AnsweredIsKept /\ Stored => AcceptedIsKept
<1> SUFFICES ASSUME AnsweredIsKept, Stored, NEW b \in Body
             PROVE  Cardinality(JobsOf(b)) = IF b \in events /\ Routable(b) THEN 1 ELSE 0
    BY DEF AcceptedIsKept, AnsweredIsKept, Stored, Vaulted
<1>1. CASE b \in events /\ Routable(b)
    <2>1. PICK j \in DOMAIN jobs : jobs[j].body = b
        BY <1>1 DEF Stored, Queued
    <2>2. JobsOf(b) = {j}
        BY <2>1 DEF JobsOf, Stored, Queued
    <2>3. Cardinality({j}) = 1
        BY FS_Singleton
    <2> QED
        BY <1>1, <2>2, <2>3
<1>2. CASE ~(b \in events /\ Routable(b))
    <2>1. JobsOf(b) = {}
        BY <1>2 DEF JobsOf, Stored, Queued
    <2>2. Cardinality({}) = 0
        BY FS_EmptySet
    <2> QED
        BY <1>2, <2>1, <2>2
<1> QED
    BY <1>1, <1>2

\* The shapes of the ingest's state, for any payloads, permits, retries and faults
\* (0050_message_merge.sql:253-414, lib/ingest/semaphore.ts:91-137).
THEOREM IngestTypeCorrect == IngestSpec => []IngestTypeOK
<1>1. DeliveriesSafe => IngestTypeOK
    <2> SUFFICES ASSUME DeliveriesSafe PROVE IngestTypeOK
        OBVIOUS
    <2>1. \A d \in DOMAIN deliveries :
              deliveries[d].phase \in {"waiting", "admitted", "inserting", "answered"}
        <3> SUFFICES ASSUME NEW d \in DOMAIN deliveries
                     PROVE  deliveries[d].phase \in {"waiting", "admitted", "inserting", "answered"}
            OBVIOUS
        <3>1. deliveries[d] \in WebDelivery
            BY DEF DeliveriesSafe, PermitsAccounted
        <3> QED
            BY <3>1 DEF WebDelivery
    <2>2. \A j \in DOMAIN jobs :
              /\ jobs[j].state \in {"created", "active", "retry", "completed", "failed"}
              /\ jobs[j].tries \in 0..(RetryLimit + 1)
        <3> SUFFICES ASSUME NEW j \in DOMAIN jobs
                     PROVE  /\ jobs[j].state \in {"created", "active", "retry", "completed", "failed"}
                            /\ jobs[j].tries \in 0..(RetryLimit + 1)
            OBVIOUS
        <3>1. jobs[j] \in Job
            BY DEF DeliveriesSafe, Stored, Queued
        <3> QED
            BY <3>1 DEF Job, JobTries
    <2> QED
        BY <2>1, <2>2 DEF IngestTypeOK, DeliveriesSafe, AnsweredIsKept, Stored, Vaulted
<1> QED
    BY DeliveriesInit, DeliveriesStep, <1>1, PTL DEF IngestSpec

\* What the provider told is kept, once, with its one merge job, and the row of the
\* call has what each merged delivery said, however often, in whatever order and
\* beside whatever failures they came (0050_message_merge.sql:253-414,
\* 0049_dead_letter_and_alerts.sql:343-428).
THEOREM NoDeliveryIsLost == IngestSpec => [](AcceptedIsKept /\ NothingIsForgotten)
<1>1. DeliveriesSafe => AcceptedIsKept /\ NothingIsForgotten
    BY StoredIsKept, RememberedIsNotForgotten DEF DeliveriesSafe
<1> QED
    BY DeliveriesInit, DeliveriesStep, <1>1, PTL DEF IngestSpec

-----------------------------------------------------------------------------
\* The requests: what they read is what their login may see.

Seat    == [role : Role, active : BOOLEAN]
Signed  == [login : Login, live : BOOLEAN]
Context == [user : Login \cup {NoLogin}, scope : {"none", "owner", "tenant_read", "tenant_admin"}]
Request == [tab : Tab, kind : {"page", "poll"}, session : Nat,
            at : {"session", "seat", "begin", "reading", "read", "answered", "refused", "failed"},
            user : Login \cup {NoLogin}, connection : Connection \cup {NoLogin},
            rows : SUBSET Login, overseen : SUBSET Login, barred : BOOLEAN]

SessionTypes ==
    /\ seat \in [Login -> Seat]
    /\ session \in Seq(Signed) /\ cookie \in 0..Len(session)
    /\ context \in [Connection -> Context]
    /\ requests \in Seq(Request)

\* A request whose unit of work is open.
UnderWay(r) == requests[r].at \in {"reading", "read"}

\* The session a request came with is one that was opened, and it got past the
\* door with that one only.
CameWith(r) ==
    /\ requests[r].session \in 0..Len(session)
    /\ requests[r].at \in {"seat", "begin", "reading", "read"} => requests[r].session # 0

\* From its identity on a request speaks for that session's login, and so does
\* the connection it holds.
SpeaksFor(r) ==
    /\ requests[r].at \in {"begin", "reading", "read"} => requests[r].user = LoginOf(r)
    /\ UnderWay(r) => /\ requests[r].connection \in Connection
                      /\ context[requests[r].connection].user = LoginOf(r)

\* No two open units of work share a connection: one that ends does not clear
\* the context of another.
Alone(r) ==
    \A q \in DOMAIN requests :
        (q # r /\ UnderWay(q) /\ UnderWay(r)) => requests[q].connection # requests[r].connection

\* A request made without a seat, and none given since, has not got past it.
Barred(r) ==
    requests[r].barred =>
        /\ requests[r].session # 0 /\ ~seat[LoginOf(r)].active
        /\ requests[r].at \in {"session", "seat", "refused"}
        /\ requests[r].rows = {}

Speaks(r) ==
    CameWith(r) /\ SpeaksFor(r) /\ Alone(r) /\ Barred(r) /\ requests[r].overseen = {}

\* The inductive invariant.
SiloKept == SessionTypes /\ \A r \in DOMAIN requests : Speaks(r)

----------------------------------------------------------------------------
\* The inductive invariant holds before anybody signs in.
LEMMA SiloInit == SessionInit => SiloKept
<1> SUFFICES ASSUME SessionInit PROVE SiloKept
    OBVIOUS
<1>1. seat \in [Login -> Seat]
    BY DEF SessionInit, Seat, Role
<1>2. context \in [Connection -> Context]
    BY DEF SessionInit, Context, NoContext
<1> QED
    BY <1>1, <1>2 DEF SessionInit, SiloKept, SessionTypes

\* A login of a request that came with a session is a login.
LEMMA LoginIsALogin ==
    ASSUME SessionTypes, NEW r \in DOMAIN requests, CameWith(r), requests[r].session # 0
    PROVE  LoginOf(r) = session[requests[r].session].login /\ LoginOf(r) \in Login
<1>1. requests[r].session \in 1..Len(session)
    BY DEF CameWith, SessionTypes
<1>2. session[requests[r].session] \in Signed
    BY <1>1 DEF SessionTypes
<1> QED
    BY <1>2 DEF LoginOf, Signed

\* What changes one request changes no other.
LEMMA OneChanged ==
    ASSUME SessionTypes, NEW r \in DOMAIN requests, NEW new \in Request,
           requests' = [requests EXCEPT ![r] = new]
    PROVE  /\ requests' \in Seq(Request)
           /\ DOMAIN requests' = DOMAIN requests
           /\ requests'[r] = new
           /\ \A q \in DOMAIN requests : q # r => requests'[q] = requests[q]
<1>1. DOMAIN requests = 1..Len(requests) /\ requests \in Seq(Request)
    BY DEF SessionTypes
<1> QED
    BY <1>1, ExceptSeq

\* Sessions come and end; nothing of what a request holds depends on it.
LEMMA SessionsOnly ==
    ASSUME SiloKept,
           session' \in Seq(Signed), cookie' \in 0..Len(session'),
           \A s \in 1..Len(session) :
               s \in 1..Len(session') /\ session'[s].login = session[s].login,
           UNCHANGED <<seat, context, requests>>
    PROVE  SiloKept'
<1>1. SessionTypes'
    BY DEF SiloKept, SessionTypes
<1>2. ASSUME NEW r \in DOMAIN requests PROVE Speaks(r)'
    <2>1. Speaks(r) /\ requests[r].session \in 0..Len(session)
        BY DEF SiloKept, Speaks, CameWith
    <2>2. LoginOf(r)' = LoginOf(r) /\ requests[r].session \in 0..Len(session')
        <3>1. Len(session) \in Nat /\ Len(session') \in Nat
            BY DEF SiloKept, SessionTypes
        <3>2. CASE requests[r].session = 0
            BY <3>1, <3>2 DEF LoginOf
        <3>3. CASE requests[r].session # 0
            <4>1. requests[r].session \in 1..Len(session)
                BY <2>1, <3>1, <3>3
            <4> QED
                BY <4>1, <3>3, <3>1 DEF LoginOf
        <3> QED
            BY <3>2, <3>3
    <2> QED
        BY <2>1, <2>2 DEF Speaks, CameWith, SpeaksFor, Alone, Barred, UnderWay
<1> QED
    BY <1>1, <1>2 DEF SiloKept

\* A new session is nobody's request yet.
LEMMA SignInKeeps == ASSUME SiloKept, NEW u \in Login, SignIn(u) PROVE SiloKept'
<1>1. [login |-> u, live |-> TRUE] \in Signed
    BY DEF Signed
<1>2. session \in Seq(Signed) /\ Len(session) \in Nat
    BY DEF SiloKept, SessionTypes
<1>3. session' = Append(session, [login |-> u, live |-> TRUE]) /\ cookie' = Len(session')
    BY DEF SignIn
<1>4. /\ session' \in Seq(Signed) /\ Len(session') = Len(session) + 1
      /\ \A s \in 1..Len(session) : session'[s] = session[s]
    BY <1>1, <1>2, <1>3
<1> QED
    BY <1>2, <1>3, <1>4, SessionsOnly DEF SignIn

\* A session that ends keeps its login.
LEMMA EndedSession ==
    ASSUME SessionTypes, NEW s \in DOMAIN session,
           session' = [session EXCEPT ![s].live = FALSE]
    PROVE  /\ session' \in Seq(Signed) /\ Len(session') = Len(session)
           /\ \A o \in 1..Len(session) :
                 o \in 1..Len(session') /\ session'[o].login = session[o].login
<1>1. session \in Seq(Signed) /\ DOMAIN session = 1..Len(session)
    BY DEF SessionTypes
<1>2. session[s] \in Signed
    BY <1>1
<1>3. [session[s] EXCEPT !.live = FALSE] \in Signed
      /\ [session[s] EXCEPT !.live = FALSE].login = session[s].login
    BY <1>2 DEF Signed
<1>4. session' = [session EXCEPT ![s] = [session[s] EXCEPT !.live = FALSE]]
    OBVIOUS
<1> QED
    BY <1>1, <1>3, <1>4, ExceptSeq

\* A sign-out ends a session and keeps its login.
LEMMA SignOutKeeps == ASSUME SiloKept, NEW t \in Tab, SignOut(t) PROVE SiloKept'
<1>1. session \in Seq(Signed) /\ DOMAIN session = 1..Len(session) /\ Len(session) \in Nat
      /\ session \in [1..Len(session) -> Signed]
    BY LenProperties DEF SiloKept, SessionTypes
<1>2. session' = [s \in DOMAIN session |->
                     IF s = cookie THEN [session[s] EXCEPT !.live = FALSE] ELSE session[s]]
    BY DEF SignOut
<1>3. \A s \in 1..Len(session) : /\ session'[s] \in Signed
                                 /\ session'[s].login = session[s].login
    <2> SUFFICES ASSUME NEW s \in 1..Len(session)
                 PROVE session'[s] \in Signed /\ session'[s].login = session[s].login
        OBVIOUS
    <2>1. session[s] \in Signed
        BY <1>1
    <2>2. [session[s] EXCEPT !.live = FALSE] \in Signed
          /\ [session[s] EXCEPT !.live = FALSE].login = session[s].login
        BY <2>1 DEF Signed
    <2> QED
        BY <1>1, <1>2, <2>1, <2>2
<1>4. session' \in [1..Len(session) -> Signed]
    BY <1>1, <1>2, <1>3
<1>5. session' \in Seq(Signed) /\ Len(session') = Len(session)
    <2>1. session' \in Seq(Signed)
        BY <1>1, <1>4, SeqDef
    <2>2. DOMAIN session' = 1..Len(session')
        BY <2>1, LenProperties
    <2> QED
        BY <1>1, <1>4, <2>1, <2>2
<1>6. cookie' = 0 /\ UNCHANGED <<seat, context, requests>>
    BY DEF SignOut
<1> QED
    BY <1>1, <1>3, <1>5, <1>6, SessionsOnly

\* An expiry ends a session and keeps its login.
LEMMA ExpiresKeeps == ASSUME SiloKept, NEW s \in DOMAIN session, Expires(s) PROVE SiloKept'
<1>1. session' = [session EXCEPT ![s].live = FALSE] /\ SessionTypes
    BY DEF Expires, SiloKept
<1>2. cookie' \in 0..Len(session')
    BY <1>1, EndedSession DEF Expires, SessionTypes
<1> QED
    BY <1>1, <1>2, EndedSession, SessionsOnly DEF Expires

----------------------------------------------------------------------------
\* A step of one request keeps what the others rely on if it leaves the contexts
\* of their connections alone.
LEMMA OneMoves ==
    ASSUME SiloKept, NEW r \in DOMAIN requests, NEW new \in Request,
           requests' = [requests EXCEPT ![r] = new],
           UNCHANGED <<seat, session, cookie>>,
           context' \in [Connection -> Context],
           \A q \in DOMAIN requests : q # r /\ UnderWay(q) =>
               context'[requests[q].connection] = context[requests[q].connection],
           Speaks(r)'
    PROVE  SiloKept'
<1>1. /\ requests' \in Seq(Request)
      /\ DOMAIN requests' = DOMAIN requests
      /\ requests'[r] = new
      /\ \A q \in DOMAIN requests : q # r => requests'[q] = requests[q]
    BY OneChanged DEF SiloKept
<1>2. SessionTypes'
    BY <1>1 DEF SiloKept, SessionTypes
<1>3. ASSUME NEW q \in DOMAIN requests, q # r PROVE Speaks(q)'
    <2>1. Speaks(q) /\ requests'[q] = requests[q]
        BY <1>1, <1>3 DEF SiloKept
    <2>2. LoginOf(q)' = LoginOf(q)
        BY <2>1 DEF LoginOf
    <2>3. CameWith(q)' /\ Barred(q)' /\ requests'[q].overseen = {}
        BY <2>1, <2>2 DEF Speaks, CameWith, Barred
    <2>4. SpeaksFor(q)'
        <3>1. requests'[q].at \in {"begin", "reading", "read"} => requests'[q].user = LoginOf(q)'
            BY <2>1, <2>2 DEF Speaks, SpeaksFor
        <3>2. ASSUME UnderWay(q)
              PROVE  /\ requests[q].connection \in Connection
                     /\ context'[requests[q].connection].user = LoginOf(q)
            BY <1>3, <2>1, <3>2 DEF Speaks, SpeaksFor
        <3> QED
            BY <2>1, <2>2, <3>1, <3>2 DEF SpeaksFor, UnderWay
    <2>5. Alone(q)'
        <3> SUFFICES ASSUME NEW p \in DOMAIN requests, p # q, UnderWay(p)', UnderWay(q)'
                     PROVE requests'[p].connection # requests'[q].connection
            BY <1>1 DEF Alone
        <3>1. CASE p = r
            BY <1>1, <1>3, <3>1 DEF Speaks, Alone, UnderWay
        <3>2. CASE p # r
            BY <1>1, <2>1, <3>2 DEF Speaks, Alone, UnderWay
        <3> QED
            BY <3>1, <3>2
    <2> QED
        BY <2>3, <2>4, <2>5 DEF Speaks
<1> QED
    BY <1>1, <1>2, <1>3 DEF SiloKept

\* A request that goes on without a connection: past the door, or refused there.
LEMMA MovesOutside ==
    ASSUME SiloKept, NEW r \in DOMAIN requests, NEW step \in {"seat", "refused", "failed"},
           GoesTo(r, step), UNCHANGED <<authVars, context>>,
           step = "seat" => requests[r].session # 0,
           step = "failed" => ~requests[r].barred
    PROVE  SiloKept'
<1>1. requests[r] \in Request /\ Speaks(r)
    BY DEF SiloKept, SessionTypes
<1> DEFINE new == [requests[r] EXCEPT !.at = step]
<1>2. new \in Request
    BY <1>1 DEF Request
<1>3. requests' = [requests EXCEPT ![r] = new]
    BY DEF GoesTo
<1>4. DOMAIN requests' = DOMAIN requests /\ requests'[r] = new
    BY <1>2, <1>3, OneChanged DEF SiloKept
<1>5. /\ new.session = requests[r].session /\ new.barred = requests[r].barred
      /\ new.rows = requests[r].rows /\ new.overseen = requests[r].overseen
      /\ new.at = step
    BY <1>1 DEF Request
<1>6. LoginOf(r)' = LoginOf(r)
    BY <1>4, <1>5 DEF LoginOf, authVars
<1> HIDE DEF new
<1>7. CameWith(r)' /\ SpeaksFor(r)' /\ Alone(r)'
    BY <1>1, <1>4, <1>5 DEF Speaks, CameWith, SpeaksFor, Alone, UnderWay, authVars
<1>8. Barred(r)' /\ requests'[r].overseen = {}
    BY <1>1, <1>4, <1>5, <1>6 DEF Speaks, Barred, authVars
<1>9. Speaks(r)'
    BY <1>7, <1>8 DEF Speaks
<1>10. context' \in [Connection -> Context] /\ context' = context
    BY DEF SiloKept, SessionTypes
<1> QED
    BY <1>2, <1>3, <1>9, <1>10, OneMoves DEF authVars

\* The first transaction finds a live session, or refuses.
LEMMA getSessionKeeps ==
    ASSUME SiloKept, NEW r \in DOMAIN requests, getSession(r) PROVE SiloKept'
<1>1. CASE requests[r].session # 0 /\ GoesTo(r, "seat")
    BY <1>1, MovesOutside DEF getSession
<1>2. CASE GoesTo(r, "refused")
    BY <1>2, MovesOutside DEF getSession
<1> QED
    BY <1>1, <1>2 DEF getSession, Refused

\* Only an active seat gets in, and it is the seat of the session's login.
LEMMA resolveIdentityKeeps ==
    ASSUME SiloKept, NEW r \in DOMAIN requests, resolveIdentity(r) PROVE SiloKept'
<1>1. requests[r] \in Request /\ Speaks(r) /\ requests[r].at = "seat"
    BY DEF SiloKept, SessionTypes, resolveIdentity
<1>2. CASE ~seat[LoginOf(r)].active
    <2>1. GoesTo(r, "refused") /\ UNCHANGED <<authVars, context>>
        BY <1>2 DEF resolveIdentity, Refused
    <2> QED
        BY <2>1, MovesOutside
<1>3. CASE seat[LoginOf(r)].active
    <2>1. requests[r].session # 0 /\ LoginOf(r) \in Login
        BY <1>1, LoginIsALogin DEF Speaks, CameWith, SiloKept
    <2> DEFINE new == [requests[r] EXCEPT !.at = "begin", !.user = LoginOf(r)]
    <2>2. /\ new \in Request /\ new.at = "begin" /\ new.user = LoginOf(r)
          /\ new.session = requests[r].session /\ new.barred = requests[r].barred
          /\ new.rows = requests[r].rows /\ new.overseen = requests[r].overseen
        BY <1>1, <2>1 DEF Request
    <2>3. requests' = [requests EXCEPT ![r] = new] /\ UNCHANGED <<authVars, context>>
        BY <1>3 DEF resolveIdentity
    <2>4. DOMAIN requests' = DOMAIN requests /\ requests'[r] = new
        BY <2>2, <2>3, OneChanged DEF SiloKept
    <2> HIDE DEF new
    <2>5. LoginOf(r)' = LoginOf(r)
        BY <2>2, <2>3, <2>4 DEF LoginOf, authVars
    <2>6. ~requests[r].barred
        BY <1>1, <1>3 DEF Speaks, Barred
    <2>7. CameWith(r)' /\ SpeaksFor(r)' /\ Alone(r)'
        BY <1>1, <2>1, <2>2, <2>3, <2>4, <2>5
           DEF Speaks, CameWith, SpeaksFor, Alone, UnderWay, authVars
    <2>8. Barred(r)' /\ requests'[r].overseen = {}
        BY <1>1, <2>2, <2>4, <2>6 DEF Speaks, Barred
    <2>9. Speaks(r)'
        BY <2>7, <2>8 DEF Speaks
    <2>10. context' \in [Connection -> Context] /\ context' = context
        BY <2>3 DEF SiloKept, SessionTypes
    <2> QED
        BY <2>2, <2>3, <2>9, <2>10, OneMoves DEF authVars
<1> QED
    BY <1>2, <1>3

\* begin_request takes a connection nobody holds and writes the login into it.
LEMMA beginRequestKeeps ==
    ASSUME SiloKept, NEW r \in DOMAIN requests, NEW c \in Connection, begin_request(r, c)
    PROVE  SiloKept'
<1>1. requests[r] \in Request /\ Speaks(r) /\ requests[r].at = "begin"
    BY DEF SiloKept, SessionTypes, begin_request
<1>2. ~requests[r].barred
    BY <1>1 DEF Speaks, Barred
<1>3. CASE GoesTo(r, "failed") /\ UNCHANGED context
    BY <1>2, <1>3, MovesOutside DEF begin_request
<1>4. CASE /\ requests' = [requests EXCEPT ![r].at = "reading", ![r].connection = c]
           /\ context' = [context EXCEPT ![c] =
                [user |-> requests[r].user, scope |-> Scope(seat[requests[r].user].role)]]
    <2>1. /\ requests[r].session # 0 /\ requests[r].user = LoginOf(r) /\ LoginOf(r) \in Login
        BY <1>1, LoginIsALogin DEF Speaks, CameWith, SpeaksFor, SiloKept
    <2>2. UNCHANGED authVars /\ \A q \in DOMAIN requests : requests[q].connection # c
        BY DEF begin_request
    <2> DEFINE new == [requests[r] EXCEPT !.at = "reading", !.connection = c]
               ctx == [user |-> requests[r].user, scope |-> Scope(seat[requests[r].user].role)]
    <2>3. /\ new \in Request /\ new.at = "reading" /\ new.connection = c
          /\ new.user = requests[r].user
          /\ new.session = requests[r].session /\ new.barred = requests[r].barred
          /\ new.rows = requests[r].rows /\ new.overseen = requests[r].overseen
        BY <1>1 DEF Request
    <2>4. ctx \in Context /\ ctx.user = requests[r].user
        <3>1. seat[requests[r].user].role \in Role
            BY <2>1 DEF SiloKept, SessionTypes, Seat
        <3>2. Scope(seat[requests[r].user].role) \in {"owner", "tenant_read", "tenant_admin"}
            BY <3>1 DEF Scope, Role
        <3> QED
            BY <2>1, <3>2 DEF Context
    <2>5. requests' = [requests EXCEPT ![r] = new] /\ context' = [context EXCEPT ![c] = ctx]
        BY <1>4
    <2>6. DOMAIN requests' = DOMAIN requests /\ requests'[r] = new
          /\ \A q \in DOMAIN requests : q # r => requests'[q] = requests[q]
        BY <2>3, <2>5, OneChanged DEF SiloKept
    <2> HIDE DEF new, ctx
    <2>7. /\ context' \in [Connection -> Context] /\ context'[c] = ctx
          /\ \A q \in DOMAIN requests : q # r /\ UnderWay(q) =>
               context'[requests[q].connection] = context[requests[q].connection]
        BY <2>2, <2>4, <2>5 DEF SiloKept, SessionTypes
    <2>8. LoginOf(r)' = LoginOf(r)
        BY <2>2, <2>3, <2>6 DEF LoginOf, authVars
    <2>9. CameWith(r)' /\ SpeaksFor(r)'
        BY <1>1, <2>1, <2>2, <2>3, <2>4, <2>6, <2>7, <2>8
           DEF Speaks, CameWith, SpeaksFor, UnderWay, authVars
    <2>10. Alone(r)'
        BY <2>2, <2>3, <2>6 DEF Alone, UnderWay
    <2>11. Barred(r)' /\ requests'[r].overseen = {}
        BY <1>1, <1>2, <2>3, <2>6 DEF Speaks, Barred
    <2>12. Speaks(r)'
        BY <2>9, <2>10, <2>11 DEF Speaks
    <2> QED
        BY <2>2, <2>3, <2>5, <2>7, <2>12, OneMoves DEF authVars
<1> QED
    BY <1>3, <1>4 DEF begin_request

\* The row policies ask the seat again: what the scope claims adds no row of a
\* colleague that the seat does not allow by now (0067_identity_is_sealed.sql:27-32).
LEMMA NoRowTooMany ==
    ASSUME SessionTypes, NEW r \in DOMAIN requests, LoginOf(r) \in Login,
           context[requests[r].connection].user = LoginOf(r)
    PROVE  LET c    == requests[r].connection
               u    == context[c].user
               rows == IF scope_is_global(c) THEN Login ELSE {u}
               mine == IF seat[LoginOf(r)].active /\ seat[LoginOf(r)].role # "seller"
                       THEN Login ELSE {LoginOf(r)}
           IN  rows \subseteq mine /\ rows \subseteq Login
<1>1. CASE scope_is_global(requests[r].connection)
    <2>1. seat[LoginOf(r)].active /\ seat[LoginOf(r)].role # "seller"
        BY <1>1 DEF scope_is_global
    <2> QED
        BY <1>1, <2>1
<1>2. CASE ~scope_is_global(requests[r].connection)
    BY <1>2
<1> QED
    BY <1>1, <1>2

\* A statement reads no row too many, and none for a barred request, which is not here.
LEMMA RowsReadKeeps ==
    ASSUME SiloKept, NEW r \in DOMAIN requests, RowsRead(r) PROVE SiloKept'
<1>1. requests[r] \in Request /\ Speaks(r) /\ requests[r].at = "reading" /\ SessionTypes
    BY DEF SiloKept, SessionTypes, RowsRead
<1>2. ~requests[r].barred
    BY <1>1 DEF Speaks, Barred
<1>3. /\ requests[r].session # 0 /\ LoginOf(r) \in Login
      /\ context[requests[r].connection].user = LoginOf(r)
    BY <1>1, LoginIsALogin DEF Speaks, CameWith, SpeaksFor, UnderWay
<1>4. PICK rows \in SUBSET Login :
        requests' = [requests EXCEPT ![r].at = "read", ![r].rows = rows, ![r].overseen = {}]
    <2> DEFINE c    == requests[r].connection
               u    == context[c].user
               rows == IF scope_is_global(c) THEN Login ELSE {u}
               mine == IF seat[LoginOf(r)].active /\ seat[LoginOf(r)].role # "seller"
                       THEN Login ELSE {LoginOf(r)}
    <2>1. requests' = [requests EXCEPT ![r].at = "read", ![r].rows = rows,
                                       ![r].overseen = rows \ mine]
        BY DEF RowsRead
    <2>2. rows \subseteq mine /\ rows \subseteq Login
        BY <1>1, <1>3, NoRowTooMany
    <2> HIDE DEF rows, mine
    <2>3. rows \ mine = {} /\ rows \in SUBSET Login
        BY <2>2
    <2> QED
        BY <2>1, <2>3
<1> DEFINE new == [requests[r] EXCEPT !.at = "read", !.rows = rows, !.overseen = {}]
<1>5. /\ new \in Request /\ new.at = "read" /\ new.connection = requests[r].connection
      /\ new.user = requests[r].user
      /\ new.session = requests[r].session /\ new.barred = requests[r].barred
      /\ new.overseen = {}
    BY <1>1 DEF Request
<1>6. requests' = [requests EXCEPT ![r] = new] /\ UNCHANGED <<authVars, context>>
    BY <1>4 DEF RowsRead
<1>7. DOMAIN requests' = DOMAIN requests /\ requests'[r] = new
      /\ \A q \in DOMAIN requests : q # r => requests'[q] = requests[q]
    BY <1>1, <1>5, <1>6, OneChanged
<1> HIDE DEF new
<1>8. LoginOf(r)' = LoginOf(r)
    BY <1>5, <1>6, <1>7 DEF LoginOf, authVars
<1>9. CameWith(r)' /\ SpeaksFor(r)' /\ Alone(r)'
    BY <1>1, <1>5, <1>6, <1>7, <1>8 DEF Speaks, CameWith, SpeaksFor, Alone, UnderWay, authVars
<1>10. Barred(r)' /\ requests'[r].overseen = {}
    BY <1>2, <1>5, <1>7 DEF Barred
<1>11. Speaks(r)'
    BY <1>9, <1>10 DEF Speaks
<1>12. context' \in [Connection -> Context] /\ context' = context
    BY <1>1, <1>6 DEF SessionTypes
<1> QED
    BY <1>5, <1>6, <1>11, <1>12, OneMoves DEF authVars

\* A unit of work that ends clears its connection, which is nobody else's.
LEMMA EndsKeeps ==
    ASSUME SiloKept, NEW r \in DOMAIN requests, UnderWay(r),
           NEW step \in {"answered", "failed"},
           requests' = [requests EXCEPT ![r].at = step, ![r].connection = NoLogin],
           context' = [context EXCEPT ![requests[r].connection] = NoContext],
           UNCHANGED authVars
    PROVE  SiloKept'
<1>1. requests[r] \in Request /\ Speaks(r) /\ SessionTypes
    BY DEF SiloKept, SessionTypes
<1>2. ~requests[r].barred /\ requests[r].session # 0
    BY <1>1 DEF Speaks, Barred, UnderWay, CameWith
<1> DEFINE new == [requests[r] EXCEPT !.at = step, !.connection = NoLogin]
<1>3. /\ new \in Request /\ new.at = step
      /\ new.session = requests[r].session /\ new.barred = requests[r].barred
      /\ new.overseen = requests[r].overseen
    BY <1>1 DEF Request
<1>4. requests' = [requests EXCEPT ![r] = new]
    OBVIOUS
<1>5. DOMAIN requests' = DOMAIN requests /\ requests'[r] = new
    BY <1>1, <1>3, <1>4, OneChanged
<1>6. /\ context' \in [Connection -> Context]
      /\ \A q \in DOMAIN requests : q # r /\ UnderWay(q) =>
            context'[requests[q].connection] = context[requests[q].connection]
    <2>1. NoContext \in Context
        BY DEF NoContext, Context
    <2>2. \A q \in DOMAIN requests : q # r /\ UnderWay(q) =>
             /\ requests[q].connection \in Connection
             /\ requests[q].connection # requests[r].connection
        BY <1>1 DEF SiloKept, Speaks, SpeaksFor, Alone
    <2> QED
        BY <1>1, <2>1, <2>2 DEF SessionTypes
<1> HIDE DEF new
<1>7. CameWith(r)' /\ SpeaksFor(r)' /\ Alone(r)'
    BY <1>1, <1>3, <1>5 DEF Speaks, CameWith, SpeaksFor, Alone, UnderWay, authVars
<1>8. Barred(r)' /\ requests'[r].overseen = {}
    BY <1>1, <1>2, <1>3, <1>5 DEF Speaks, Barred
<1>9. Speaks(r)'
    BY <1>7, <1>8 DEF Speaks
<1> QED
    BY <1>3, <1>4, <1>6, <1>9, OneMoves DEF authVars

\* A new request has no rows, and is barred if its login has no seat.
LEMMA AsksKeeps ==
    ASSUME SiloKept, NEW t \in Tab, NEW kind \in {"page", "poll"}, Asks(t, kind)
    PROVE  SiloKept'
<1> DEFINE new == [tab |-> t, kind |-> kind, session |-> cookie, at |-> "session",
                   user |-> NoLogin, connection |-> NoLogin, rows |-> {}, overseen |-> {},
                   barred |-> cookie # 0 /\ ~seat[session[cookie].login].active]
<1>1. SessionTypes /\ cookie \in 0..Len(session) /\ Len(session) \in Nat
    BY DEF SiloKept, SessionTypes
<1>n. PICK n \in Nat : n = Len(requests) + 1
    BY <1>1 DEF SessionTypes
<1>2. new.barred \in BOOLEAN
    BY Zenon
<1>3. new \in Request
    BY <1>1, <1>2 DEF Request
<1>4. requests' = Append(requests, new) /\ UNCHANGED <<seat, session, cookie, context>>
    BY DEF Asks, authVars
<1>5. /\ requests' \in Seq(Request) /\ DOMAIN requests' = DOMAIN requests \cup {n}
      /\ requests'[n] = new /\ n \notin DOMAIN requests
      /\ \A q \in DOMAIN requests : requests'[q] = requests[q]
    BY <1>1, <1>n, <1>3, <1>4 DEF SessionTypes
<1>6. SessionTypes'
    BY <1>1, <1>4, <1>5 DEF SessionTypes
<1>7. new.at = "session" /\ new.session = cookie /\ new.rows = {} /\ new.overseen = {}
      /\ (new.barred => cookie # 0 /\ ~seat[session[cookie].login].active)
    OBVIOUS
<1> HIDE DEF new
<1>8. ASSUME NEW q \in DOMAIN requests PROVE Speaks(q)'
    <2>1. Speaks(q) /\ requests'[q] = requests[q]
        BY <1>5 DEF SiloKept
    <2>2. LoginOf(q)' = LoginOf(q)
        BY <1>4, <2>1 DEF LoginOf
    <2>3. Alone(q)'
        BY <1>5, <1>7, <2>1 DEF Speaks, Alone, UnderWay
    <2> QED
        BY <1>4, <2>1, <2>2, <2>3 DEF Speaks, CameWith, SpeaksFor, Barred, UnderWay
<1>9. Speaks(n)'
    <2>1. CameWith(n)' /\ SpeaksFor(n)' /\ Alone(n)'
        BY <1>1, <1>4, <1>5, <1>7 DEF CameWith, SpeaksFor, Alone, UnderWay
    <2>2. cookie # 0 => LoginOf(n)' = session[cookie].login
        BY <1>4, <1>5, <1>7 DEF LoginOf
    <2>3. Barred(n)'
        BY <1>4, <1>5, <1>7, <2>2 DEF Barred
    <2> QED
        BY <1>5, <1>7, <2>1, <2>3 DEF Speaks
<1> QED
    BY <1>5, <1>6, <1>8, <1>9 DEF SiloKept

\* A seat that opens lifts the bar of its requests; one that closes bars nobody
\* who was let in before.
LEMMA SeatChangedKeeps ==
    ASSUME SiloKept, NEW u \in Login, NEW role \in Role, NEW active \in BOOLEAN,
           SeatChanged(u, [role |-> role, active |-> active])
    PROVE  SiloKept'
<1> DEFINE to == [role |-> role, active |-> active]
           lifted(r) == to.active /\ requests[r].session # 0
                                  /\ session[requests[r].session].login = u
<1>1. SessionTypes /\ Len(requests) \in Nat /\ DOMAIN requests = 1..Len(requests)
    BY DEF SiloKept, SessionTypes
<1>2. /\ seat' = [seat EXCEPT ![u] = to]
      /\ requests' = [r \in DOMAIN requests |->
            IF lifted(r) THEN [requests[r] EXCEPT !.barred = FALSE] ELSE requests[r]]
      /\ UNCHANGED <<session, cookie, context>>
    BY DEF SeatChanged
<1>3. to \in Seat
    BY DEF Seat
<1>4. ASSUME NEW r \in DOMAIN requests
      PROVE  /\ requests'[r] \in Request
             /\ requests'[r].session = requests[r].session /\ requests'[r].at = requests[r].at
             /\ requests'[r].user = requests[r].user
             /\ requests'[r].connection = requests[r].connection
             /\ requests'[r].rows = requests[r].rows
             /\ requests'[r].overseen = requests[r].overseen
             /\ requests'[r].barred => requests[r].barred /\ ~lifted(r)
    <2>1. requests[r] \in Request
        BY <1>1 DEF SessionTypes
    <2>2. CASE lifted(r)
        <3>1. requests'[r] = [requests[r] EXCEPT !.barred = FALSE]
            BY <1>2, <2>2
        <3> HIDE DEF lifted
        <3> QED
            BY <2>1, <3>1 DEF Request
    <2>3. CASE ~lifted(r)
        <3>1. requests'[r] = requests[r]
            BY <1>2, <2>3
        <3> QED
            BY <2>1, <2>3, <3>1
    <2> QED
        BY <2>2, <2>3
<1>5. DOMAIN requests' = DOMAIN requests /\ requests' \in Seq(Request)
    <2>1. requests' \in [1..Len(requests) -> Request]
        BY <1>1, <1>2, <1>4
    <2> QED
        BY <1>1, <2>1, SeqDef
<1>6. SessionTypes'
    BY <1>1, <1>2, <1>3, <1>5 DEF SessionTypes
<1> HIDE DEF lifted
<1>7. ASSUME NEW r \in DOMAIN requests PROVE Speaks(r)'
    <2>1. Speaks(r)
        BY DEF SiloKept
    <2>2. LoginOf(r)' = LoginOf(r)
        BY <1>2, <1>4 DEF LoginOf
    <2>3. CameWith(r)' /\ SpeaksFor(r)' /\ requests'[r].overseen = {}
        BY <1>2, <1>4, <2>1, <2>2 DEF Speaks, CameWith, SpeaksFor, UnderWay
    <2>4. Alone(r)'
        BY <1>4, <1>5, <2>1 DEF Speaks, Alone, UnderWay
    <2>5. Barred(r)'
        <3> SUFFICES ASSUME requests'[r].barred PROVE ~seat'[LoginOf(r)].active
            BY <1>4, <2>1, <2>2 DEF Speaks, Barred
        <3>1. requests[r].barred /\ ~lifted(r)
            BY <1>4
        <3>2. requests[r].session # 0 /\ ~seat[LoginOf(r)].active
            BY <2>1, <3>1 DEF Speaks, Barred
        <3>3. LoginOf(r) = session[requests[r].session].login /\ LoginOf(r) \in Login
            BY <1>1, <2>1, <3>2, LoginIsALogin DEF Speaks
        <3>4. CASE LoginOf(r) = u
            <4>1. ~active
                BY <3>1, <3>2, <3>3, <3>4 DEF lifted
            <4> QED
                BY <1>1, <1>2, <3>4, <4>1 DEF SessionTypes
        <3>5. CASE LoginOf(r) # u
            BY <1>1, <1>2, <3>2, <3>3, <3>5 DEF SessionTypes
        <3> QED
            BY <3>4, <3>5
    <2> QED
        BY <2>3, <2>4, <2>5 DEF Speaks
<1> QED
    BY <1>5, <1>6, <1>7 DEF SiloKept

----------------------------------------------------------------------------
\* Every step keeps the inductive invariant.
LEMMA SiloStep == SiloKept /\ [SessionNext]_sessionVars => SiloKept'
<1> SUFFICES ASSUME SiloKept, [SessionNext]_sessionVars PROVE SiloKept'
    OBVIOUS
<1>1. CASE \E u \in Login : SignIn(u)
    BY <1>1, SignInKeeps
<1>2. CASE \E t \in Tab : SignOut(t) \/ Asks(t, "page")
                          \/ (screen[t].name # NoLogin /\ Asks(t, "poll"))
    BY <1>2, SignOutKeeps, AsksKeeps
<1>3. CASE \E s \in DOMAIN session : Expires(s)
    BY <1>3, ExpiresKeeps
<1>4. CASE \E u \in Login, role \in Role, active \in BOOLEAN :
              SeatChanged(u, [role |-> role, active |-> active])
    BY <1>4, SeatChangedKeeps
<1>5. ASSUME NEW r \in DOMAIN requests,
             getSession(r) \/ resolveIdentity(r) \/ RowsRead(r)
               \/ \E c \in Connection : begin_request(r, c)
      PROVE  SiloKept'
    BY <1>5, getSessionKeeps, resolveIdentityKeeps, RowsReadKeeps, beginRequestKeeps
<1>6. ASSUME NEW r \in DOMAIN requests, Commits(r) \/ Aborts(r) PROVE SiloKept'
    <2>1. CASE Commits(r)
        BY <2>1, EndsKeeps DEF Commits, UnderWay
    <2>2. CASE Aborts(r)
        BY <2>2, EndsKeeps DEF Aborts, UnderWay
    <2> QED
        BY <1>6, <2>1, <2>2
<1>7. CASE UNCHANGED sessionVars
    <2>1. UNCHANGED <<seat, session, cookie, context, requests>> /\ SessionTypes
        BY <1>7 DEF sessionVars, authVars, SiloKept
    <2> QED
        BY <2>1, SessionsOnly DEF SessionTypes
<1> QED
    BY <1>1, <1>2, <1>3, <1>4, <1>5, <1>6, <1>7 DEF SessionNext

\* A request speaks for the login of its cookie, and the rows it reads are those
\* that login's seat allows when it reads them; one made without a seat, and none
\* given since, reads nothing (0067_identity_is_sealed.sql:27-32, :164).
THEOREM EverySiloHolds == SessionSpec => []SiloHolds
<1>1. SiloKept => SiloHolds
    BY DEF SiloKept, Speaks, Barred, SiloHolds, NobodyOversees, DepartedReadNothing
<1> QED
    BY SiloInit, SiloStep, <1>1, PTL DEF SessionSpec

-----------------------------------------------------------------------------
\* The calls: a press tells no more than the gate allows, and that is on record.

Row    == [lead : Prospect, kind : {"stop", "start", "dnc"}, channel : Channel]
Press  == [lead : Prospect,
           at : {"capability", "target", "gate", "verdict", "mapping", "answered"},
           outcome : DialOutcome \cup {"none"},
           owned : BOOLEAN, barred : BOOLEAN, seen : BOOLEAN]
Record == [press : Nat, verdict : Refusals \cup {"allow"}]

DialTypes ==
    /\ suppression \in Seq(Row)
    /\ presses \in Seq(Press)
    /\ audit \in SUBSET Record
    /\ drawer \in Prospect \cup {NoLead}
    /\ \A r \in audit : r.press \in DOMAIN presses

\* What a lead on the list may be told of a press.
ToTheListed == {"none", "blocked_suppressed", "no_capability", "degraded", "not_found",
                "blocked_timezone_unknown"}

\* A press of a lead that cannot be called stays on this side of the gate until
\* it is refused, and its lead stays on the list.
BarredIsStopped(p) ==
    presses[p].barred =>
        /\ presses[p].outcome \in ToTheListed
        /\ presses[p].at # "mapping"
        /\ Unjudged(p) => presses[p].lead \notin NoPhone /\ Suppressed(presses[p].lead)

\* While the lead is in sight its owner is read, and the refusal has its event.
SeenIsTold(p) ==
    presses[p].seen =>
        /\ Unjudged(p) => presses[p].lead \notin elsewhere
        /\ presses[p].at = "verdict" => presses[p].owned
        /\ presses[p].barred =>
              /\ presses[p].outcome \notin {"not_found", "blocked_timezone_unknown"}
              /\ presses[p].outcome = "blocked_suppressed" => p \in blocked

\* The gate writes one row, which says what the press is told.
OnRecord(p) ==
    /\ Unjudged(p) => presses[p].outcome = "none" /\ \A r \in audit : r.press # p
    /\ \A r, s \in audit : r.press = p /\ s.press = p => r = s
    /\ presses[p].at = "mapping" =>
          /\ presses[p].outcome = "none"
          /\ \E r \in audit : r.press = p /\ r.verdict = "allow"
    /\ presses[p].outcome \in Refusals =>
          \E r \in audit : r.press = p /\ r.verdict = presses[p].outcome
    /\ presses[p].outcome \in {"no_number", "no_credentials"} =>
          \E r \in audit : r.press = p /\ r.verdict = "allow"

\* The inductive invariant.
GateKept ==
    DialTypes /\ \A p \in DOMAIN presses : BarredIsStopped(p) /\ SeenIsTold(p) /\ OnRecord(p)

----------------------------------------------------------------------------
\* The inductive invariant holds before anybody presses Call.
LEMMA GateInit == DialInit => GateKept
<1> SUFFICES ASSUME DialInit PROVE GateKept
    OBVIOUS
<1>1. suppression \in Seq(Row) /\ presses \in Seq(Press) /\ DOMAIN presses = {}
    BY DEF DialInit
<1> QED
    BY <1>1 DEF DialInit, GateKept, DialTypes

\* A step that changes neither the presses, nor what they read, nor the record.
LEMMA ElsewhereKeepsGate ==
    ASSUME GateKept, UNCHANGED <<suppression, elsewhere, presses, audit, blocked>>,
           drawer' \in Prospect \cup {NoLead}
    PROVE  GateKept'
BY DEF GateKept, DialTypes, BarredIsStopped, SeenIsTold, OnRecord, Unjudged, Suppressed,
       SpeaksOfCall

\* What changes one press changes no other.
LEMMA OnePress ==
    ASSUME DialTypes, NEW p \in DOMAIN presses, NEW new \in Press,
           presses' = [presses EXCEPT ![p] = new]
    PROVE  /\ presses' \in Seq(Press)
           /\ DOMAIN presses' = DOMAIN presses
           /\ presses'[p] = new
           /\ \A q \in DOMAIN presses : q # p => presses'[q] = presses[q]
<1>1. DOMAIN presses = 1..Len(presses) /\ presses \in Seq(Press)
    BY DEF DialTypes
<1> QED
    BY <1>1, ExceptSeq

\* A step of one press, which may add rows about it to the record.
LEMMA OnePressMoves ==
    ASSUME GateKept, NEW p \in DOMAIN presses, NEW new \in Press,
           presses' = [presses EXCEPT ![p] = new],
           UNCHANGED <<suppression, elsewhere, drawer>>, blocked \subseteq blocked',
           audit \subseteq audit', audit' \in SUBSET Record,
           \A r \in audit' \ audit : r.press = p,
           BarredIsStopped(p)', SeenIsTold(p)', OnRecord(p)'
    PROVE  GateKept'
<1>1. /\ presses' \in Seq(Press)
      /\ DOMAIN presses' = DOMAIN presses
      /\ presses'[p] = new
      /\ \A q \in DOMAIN presses : q # p => presses'[q] = presses[q]
    BY OnePress DEF GateKept
<1>2. DialTypes'
    BY <1>1 DEF GateKept, DialTypes
<1>3. ASSUME NEW q \in DOMAIN presses, q # p
      PROVE  BarredIsStopped(q)' /\ SeenIsTold(q)' /\ OnRecord(q)'
    <2>1. BarredIsStopped(q) /\ SeenIsTold(q) /\ OnRecord(q) /\ presses'[q] = presses[q]
        BY <1>1, <1>3 DEF GateKept
    <2>2. BarredIsStopped(q)'
        BY <2>1 DEF BarredIsStopped, Unjudged, Suppressed, SpeaksOfCall
    <2>3. SeenIsTold(q)'
        BY <2>1 DEF SeenIsTold, Unjudged
    <2>4. OnRecord(q)'
        BY <1>3, <2>1 DEF OnRecord, Unjudged
    <2> QED
        BY <2>2, <2>3, <2>4
<1> QED
    BY <1>1, <1>2, <1>3 DEF GateKept

\* An answer that needs no row: a missing capability, target or phone, a failure.
LEMMA PlainAnswerKeeps ==
    ASSUME GateKept, NEW p \in DOMAIN presses,
           NEW with \in {"no_capability", "not_found", "no_phone", "degraded"},
           with = "not_found" => ~presses[p].seen,
           with = "no_phone" => ~presses[p].barred,
           AnswerPress(p, with), UNCHANGED <<suppression, elsewhere, audit, blocked, drawer>>
    PROVE  GateKept'
<1>1. presses[p] \in Press /\ BarredIsStopped(p) /\ SeenIsTold(p) /\ OnRecord(p)
    BY DEF GateKept, DialTypes
<1> DEFINE new == [presses[p] EXCEPT !.at = "answered", !.outcome = with]
<1>2. /\ new \in Press /\ new.at = "answered" /\ new.outcome = with
      /\ new.barred = presses[p].barred /\ new.seen = presses[p].seen
    BY <1>1 DEF Press, DialOutcome
<1>3. presses' = [presses EXCEPT ![p] = new]
    BY DEF AnswerPress
<1>4. presses'[p] = new
    BY <1>2, <1>3, OnePress DEF GateKept
<1> HIDE DEF new
<1>5. BarredIsStopped(p)'
    BY <1>1, <1>2, <1>4 DEF BarredIsStopped, Unjudged, ToTheListed
<1>6. SeenIsTold(p)'
    BY <1>1, <1>2, <1>4 DEF SeenIsTold, Unjudged
<1>7. OnRecord(p)'
    BY <1>1, <1>2, <1>4 DEF OnRecord, Unjudged, Refusals
<1>8. audit' \in SUBSET Record /\ audit' = audit
    BY DEF GateKept, DialTypes
<1> QED
    BY <1>2, <1>3, <1>5, <1>6, <1>7, <1>8, OnePressMoves

\* From one check to the next, on this side of the gate.
LEMMA GoOnKeeps ==
    ASSUME GateKept, NEW p \in DOMAIN presses, Unjudged(p),
           NEW check \in {"target", "gate"},
           GoOn(p, check), UNCHANGED <<suppression, elsewhere, audit, blocked, drawer>>
    PROVE  GateKept'
<1>1. presses[p] \in Press /\ BarredIsStopped(p) /\ SeenIsTold(p) /\ OnRecord(p)
    BY DEF GateKept, DialTypes
<1> DEFINE new == [presses[p] EXCEPT !.at = check]
<1>2. /\ new \in Press /\ new.at = check /\ new.outcome = presses[p].outcome
      /\ new.lead = presses[p].lead /\ new.barred = presses[p].barred
      /\ new.seen = presses[p].seen
    BY <1>1 DEF Press
<1>3. presses' = [presses EXCEPT ![p] = new]
    BY DEF GoOn
<1>4. presses'[p] = new
    BY <1>2, <1>3, OnePress DEF GateKept
<1> HIDE DEF new
<1>5. BarredIsStopped(p)'
    BY <1>1, <1>2, <1>4 DEF BarredIsStopped, Unjudged, Suppressed, SpeaksOfCall
<1>6. SeenIsTold(p)'
    BY <1>1, <1>2, <1>4 DEF SeenIsTold, Unjudged
<1>7. OnRecord(p)'
    BY <1>1, <1>2, <1>4 DEF OnRecord, Unjudged, Refusals
<1>8. audit' \in SUBSET Record /\ audit' = audit
    BY DEF GateKept, DialTypes
<1> QED
    BY <1>2, <1>3, <1>5, <1>6, <1>7, <1>8, OnePressMoves

\* The first check, and the registry that could not be read.
LEMMA CapabilityCheckedKeeps ==
    ASSUME GateKept, NEW p \in DOMAIN presses, CapabilityChecked(p) \/ RegistryFails(p)
    PROVE  GateKept'
<1>1. /\ presses[p].at = "capability"
      /\ UNCHANGED <<suppression, elsewhere, audit, blocked, drawer>>
    BY DEF CapabilityChecked, RegistryFails, lawVars
<1>2. GoOn(p, "target") \/ AnswerPress(p, "degraded") \/ AnswerPress(p, "no_capability")
    BY DEF CapabilityChecked, RegistryFails
<1> QED
    BY <1>1, <1>2, GoOnKeeps, PlainAnswerKeeps DEF Unjudged

\* The second check: whose lead it is, and whether it has a phone.
LEMMA TargetResolvedKeeps ==
    ASSUME GateKept, NEW p \in DOMAIN presses, TargetResolved(p)
    PROVE  GateKept'
<1>1. /\ presses[p].at = "target" /\ BarredIsStopped(p) /\ SeenIsTold(p)
      /\ UNCHANGED <<suppression, elsewhere, audit, blocked, drawer>>
    BY DEF TargetResolved, lawVars, GateKept
<1>2. \/ GoOn(p, "gate")
      \/ presses[p].lead \in elsewhere /\ AnswerPress(p, "not_found")
      \/ presses[p].lead \in NoPhone /\ AnswerPress(p, "no_phone")
    BY DEF TargetResolved
<1>3. CASE GoOn(p, "gate")
    BY <1>1, <1>3, GoOnKeeps DEF Unjudged
<1>4. CASE presses[p].lead \in elsewhere /\ AnswerPress(p, "not_found")
    <2>1. ~presses[p].seen
        BY <1>1, <1>4 DEF SeenIsTold, Unjudged
    <2> QED
        BY <1>1, <1>4, <2>1, PlainAnswerKeeps
<1>5. CASE presses[p].lead \in NoPhone /\ AnswerPress(p, "no_phone")
    <2>1. ~presses[p].barred
        BY <1>1, <1>5 DEF BarredIsStopped, Unjudged
    <2> QED
        BY <1>1, <1>5, <2>1, PlainAnswerKeeps
<1> QED
    BY <1>2, <1>3, <1>4, <1>5

\* The owner is read: in sight, it is the caller's lead.
LEMMA OwnerReadKeeps ==
    ASSUME GateKept, NEW p \in DOMAIN presses, OwnerRead(p)
    PROVE  GateKept'
<1>1. presses[p] \in Press /\ BarredIsStopped(p) /\ SeenIsTold(p) /\ OnRecord(p)
      /\ presses[p].at = "gate" /\ UNCHANGED <<suppression, elsewhere, audit, blocked, drawer>>
    BY DEF GateKept, DialTypes, OwnerRead, lawVars
<1>2. PICK own \in BOOLEAN : own = (presses[p].lead \notin elsewhere)
    OBVIOUS
<1> DEFINE new == [presses[p] EXCEPT !.at = "verdict", !.owned = own]
<1>3. /\ new \in Press /\ new.at = "verdict" /\ new.outcome = presses[p].outcome
      /\ new.lead = presses[p].lead /\ new.barred = presses[p].barred
      /\ new.seen = presses[p].seen /\ new.owned = own
    BY <1>1 DEF Press
<1>4. presses' = [presses EXCEPT ![p] = new]
    BY <1>2 DEF OwnerRead
<1>5. presses'[p] = new
    BY <1>3, <1>4, OnePress DEF GateKept
<1> HIDE DEF new
<1>6. BarredIsStopped(p)'
    BY <1>1, <1>3, <1>5 DEF BarredIsStopped, Unjudged, Suppressed, SpeaksOfCall
<1>7. own <=> presses[p].lead \notin elsewhere
    BY <1>2
<1>8. SeenIsTold(p)'
    BY <1>1, <1>3, <1>5, <1>7 DEF SeenIsTold, Unjudged
<1>9. OnRecord(p)'
    BY <1>1, <1>3, <1>5 DEF OnRecord, Unjudged, Refusals
<1>10. audit' \in SUBSET Record /\ audit' = audit
    BY <1>1 DEF GateKept, DialTypes
<1> QED
    BY <1>1, <1>3, <1>4, <1>6, <1>8, <1>9, <1>10, OnePressMoves

\* The list is asked before the clock, the guard and the number: a lead on it is
\* answered with it, or as out of sight (0060_compliance_emits.sql:197-214).
LEMMA VerdictOfASuppressed ==
    ASSUME NEW c \in Prospect
    PROVE  /\ compliance_check(c) \in Refusals \cup {"allow"}
           /\ c \notin NoPhone /\ Suppressed(c) =>
                 compliance_check(c) = IF c \in elsewhere THEN "blocked_timezone_unknown"
                                       ELSE "blocked_suppressed"
<1>1. CASE c \in elsewhere
    BY <1>1 DEF compliance_check, Refusals
<1>2. CASE c \notin elsewhere /\ c \notin NoPhone /\ Suppressed(c)
    BY <1>2 DEF compliance_check, Refusals
<1>3. CASE c \notin elsewhere /\ ~(c \notin NoPhone /\ Suppressed(c))
    <2>1. compliance_check(c) =
             IF ~override /\ hours[c] = "unknown" THEN "blocked_timezone_unknown"
             ELSE IF ~override /\ hours[c] = "closed" THEN "blocked_calling_window"
             ELSE IF guard /\ c \in AllParty THEN "blocked_recording_unverified"
             ELSE "allow"
        BY <1>3 DEF compliance_check
    <2> QED
        BY <1>3, <2>1 DEF Refusals
<1> QED
    BY <1>1, <1>2, <1>3

\* The gate: its verdict, its row, and the answer that goes with it, in one transaction.
LEMMA GateAskedKeeps ==
    ASSUME GateKept, NEW p \in DOMAIN presses, GateAsked(p)
    PROVE  GateKept'
<1>1. presses[p] \in Press /\ presses[p].at = "verdict"
      /\ BarredIsStopped(p) /\ SeenIsTold(p) /\ OnRecord(p)
      /\ p \in Nat /\ audit \in SUBSET Record
    BY DEF GateKept, DialTypes, GateAsked
<1>2. presses[p].lead \in Prospect
    BY <1>1 DEF Press
<1>3. PICK verdict \in Refusals \cup {"allow"} : verdict = compliance_check(presses[p].lead)
    BY <1>2, VerdictOfASuppressed
<1>4. presses[p].barred =>
          /\ verdict \in {"blocked_timezone_unknown", "blocked_suppressed"}
          /\ presses[p].seen => verdict = "blocked_suppressed" /\ presses[p].owned
    <2> SUFFICES ASSUME presses[p].barred
                 PROVE  /\ verdict \in {"blocked_timezone_unknown", "blocked_suppressed"}
                        /\ presses[p].seen => verdict = "blocked_suppressed" /\ presses[p].owned
        OBVIOUS
    <2>1. presses[p].lead \notin NoPhone /\ Suppressed(presses[p].lead)
        BY <1>1 DEF BarredIsStopped, Unjudged
    <2>2. verdict = IF presses[p].lead \in elsewhere THEN "blocked_timezone_unknown"
                    ELSE "blocked_suppressed"
        BY <1>2, <1>3, <2>1, VerdictOfASuppressed
    <2>3. presses[p].seen => presses[p].lead \notin elsewhere /\ presses[p].owned
        BY <1>1 DEF SeenIsTold, Unjudged
    <2> QED
        BY <2>2, <2>3
<1>5. /\ audit' = audit \cup {[press |-> p, verdict |-> verdict]}
      /\ blocked' = IF verdict # "allow" /\ presses[p].owned THEN blocked \cup {p} ELSE blocked
      /\ IF verdict = "allow" THEN GoOn(p, "mapping") ELSE AnswerPress(p, verdict)
      /\ UNCHANGED <<suppression, elsewhere, drawer>>
    BY <1>3 DEF GateAsked, lawVars
<1>6. audit' \in SUBSET Record /\ audit \subseteq audit' /\ \A r \in audit' \ audit : r.press = p
    BY <1>1, <1>5 DEF Record
<1>7. \A r \in audit : r.press # p
    BY <1>1 DEF OnRecord, Unjudged
<1>8. /\ \E r \in audit' : r.press = p /\ r.verdict = verdict
      /\ \A r, s \in audit' : r.press = p /\ s.press = p => r = s
    <2>1. PICK row : row = [press |-> p, verdict |-> verdict]
        OBVIOUS
    <2>2. audit' = audit \cup {row} /\ row.press = p /\ row.verdict = verdict
        BY <1>5, <2>1
    <2> QED
        BY <1>7, <2>2
<1>9. CASE verdict = "allow"
    <2> DEFINE new == [presses[p] EXCEPT !.at = "mapping"]
    <2>1. /\ new \in Press /\ new.at = "mapping" /\ new.outcome = presses[p].outcome
          /\ new.barred = presses[p].barred /\ new.seen = presses[p].seen
        BY <1>1 DEF Press
    <2>2. presses' = [presses EXCEPT ![p] = new]
        BY <1>5, <1>9 DEF GoOn
    <2>3. presses'[p] = new
        BY <2>1, <2>2, OnePress DEF GateKept
    <2> HIDE DEF new
    <2>4. BarredIsStopped(p)'
        BY <1>4, <1>9, <2>1, <2>3 DEF BarredIsStopped
    <2>5. presses[p].outcome = "none"
        BY <1>1 DEF OnRecord, Unjudged
    <2>6. OnRecord(p)'
        BY <1>8, <1>9, <2>1, <2>3, <2>5 DEF OnRecord, Unjudged, Refusals
    <2>7. SeenIsTold(p)'
        BY <2>1, <2>3, <2>5 DEF SeenIsTold, Unjudged
    <2> QED
        BY <1>5, <1>6, <2>1, <2>2, <2>4, <2>6, <2>7, OnePressMoves
<1>10. CASE verdict # "allow"
    <2> DEFINE new == [presses[p] EXCEPT !.at = "answered", !.outcome = verdict]
    <2>1. /\ new \in Press /\ new.at = "answered" /\ new.outcome = verdict
          /\ new.barred = presses[p].barred /\ new.seen = presses[p].seen
        BY <1>1, <1>10 DEF Press, DialOutcome
    <2>2. presses' = [presses EXCEPT ![p] = new]
        BY <1>5, <1>10 DEF AnswerPress
    <2>3. presses'[p] = new
        BY <2>1, <2>2, OnePress DEF GateKept
    <2> HIDE DEF new
    <2>4. BarredIsStopped(p)'
        BY <1>3, <1>4, <1>10, <2>1, <2>3 DEF BarredIsStopped, Unjudged, Refusals, ToTheListed
    <2>5. OnRecord(p)'
        BY <1>3, <1>8, <1>10, <2>1, <2>3 DEF OnRecord, Unjudged, Refusals
    <2>6. presses[p].owned => p \in blocked'
        BY <1>5, <1>10
    <2>7. SeenIsTold(p)'
        BY <1>4, <2>1, <2>3, <2>6 DEF SeenIsTold, Unjudged
    <2> QED
        BY <1>5, <1>6, <2>1, <2>2, <2>4, <2>5, <2>7, OnePressMoves
<1> QED
    BY <1>9, <1>10

\* The last check answers only whom the gate let through.
LEMMA MappingReadKeeps ==
    ASSUME GateKept, NEW p \in DOMAIN presses, MappingRead(p)
    PROVE  GateKept'
<1>1. presses[p] \in Press /\ presses[p].at = "mapping"
      /\ BarredIsStopped(p) /\ SeenIsTold(p) /\ OnRecord(p) /\ audit \in SUBSET Record
    BY DEF GateKept, DialTypes, MappingRead
<1>2. PICK with \in {"no_credentials", "no_number"} : AnswerPress(p, with)
    BY DEF MappingRead
<1>3. UNCHANGED <<suppression, elsewhere, audit, blocked, drawer>>
    BY DEF MappingRead, lawVars
<1> DEFINE new == [presses[p] EXCEPT !.at = "answered", !.outcome = with]
<1>4. /\ new \in Press /\ new.at = "answered" /\ new.outcome = with
      /\ new.barred = presses[p].barred /\ new.seen = presses[p].seen
    BY <1>1 DEF Press, DialOutcome
<1>5. presses' = [presses EXCEPT ![p] = new]
    BY <1>2 DEF AnswerPress
<1>6. presses'[p] = new
    BY <1>4, <1>5, OnePress DEF GateKept
<1> HIDE DEF new
<1>7. BarredIsStopped(p)'
    BY <1>1, <1>4, <1>6 DEF BarredIsStopped
<1>8. SeenIsTold(p)'
    BY <1>1, <1>4, <1>6 DEF SeenIsTold, Unjudged
<1>9. OnRecord(p)'
    BY <1>1, <1>3, <1>4, <1>6 DEF OnRecord, Unjudged, Refusals
<1> QED
    BY <1>1, <1>3, <1>4, <1>5, <1>7, <1>8, <1>9, OnePressMoves

\* A failure answers with itself and writes no row.
LEMMA DialFailsKeeps ==
    ASSUME GateKept, NEW p \in DOMAIN presses, DialFails(p)
    PROVE  GateKept'
BY PlainAnswerKeeps DEF DialFails, lawVars

\* A new press is barred if its lead is on the list, and has no row.
LEMMA DialsKeeps == ASSUME GateKept, Dials PROVE GateKept'
<1> DEFINE new == [lead |-> drawer, at |-> "capability", outcome |-> "none", owned |-> FALSE,
                   barred |-> drawer \notin NoPhone /\ Suppressed(drawer),
                   seen |-> drawer \notin elsewhere]
<1>1. DialTypes /\ drawer \in Prospect
    BY DEF GateKept, DialTypes, Dials
<1>2. PICK n \in Nat : n = Len(presses) + 1
    BY <1>1 DEF DialTypes
<1>3. new.barred \in BOOLEAN /\ new.seen \in BOOLEAN
    BY Zenon
<1>4. new \in Press
    BY <1>1, <1>3 DEF Press
<1>5. /\ presses' = Append(presses, new)
      /\ UNCHANGED <<suppression, elsewhere, audit, blocked, drawer>>
    BY DEF Dials, lawVars
<1>6. /\ presses' \in Seq(Press) /\ DOMAIN presses' = DOMAIN presses \cup {n}
      /\ presses'[n] = new /\ n \notin DOMAIN presses
      /\ \A q \in DOMAIN presses : presses'[q] = presses[q]
    BY <1>1, <1>2, <1>4, <1>5 DEF DialTypes
<1>7. new.at = "capability" /\ new.outcome = "none" /\ new.lead = drawer
      /\ (new.barred => drawer \notin NoPhone /\ Suppressed(drawer))
      /\ (new.seen => drawer \notin elsewhere)
    OBVIOUS
<1> HIDE DEF new
<1>8. DialTypes'
    BY <1>1, <1>5, <1>6 DEF DialTypes
<1>9. ASSUME NEW q \in DOMAIN presses
      PROVE  BarredIsStopped(q)' /\ SeenIsTold(q)' /\ OnRecord(q)'
    <2>1. BarredIsStopped(q) /\ SeenIsTold(q) /\ OnRecord(q) /\ presses'[q] = presses[q]
        BY <1>6 DEF GateKept
    <2>2. BarredIsStopped(q)'
        BY <1>5, <2>1 DEF BarredIsStopped, Unjudged, Suppressed, SpeaksOfCall
    <2>3. SeenIsTold(q)'
        BY <1>5, <2>1 DEF SeenIsTold, Unjudged
    <2>4. OnRecord(q)'
        BY <1>5, <2>1 DEF OnRecord, Unjudged
    <2> QED
        BY <2>2, <2>3, <2>4
<1>10. BarredIsStopped(n)'
    BY <1>5, <1>6, <1>7 DEF BarredIsStopped, Unjudged, Suppressed, SpeaksOfCall, ToTheListed
<1>11. SeenIsTold(n)'
    BY <1>5, <1>6, <1>7 DEF SeenIsTold, Unjudged
<1>12. OnRecord(n)'
    BY <1>1, <1>5, <1>6, <1>7 DEF OnRecord, Unjudged, Refusals, DialTypes
<1> QED
    BY <1>6, <1>8, <1>9, <1>10, <1>11, <1>12 DEF GateKept

\* A row about one lead changes nothing for the others, wherever in the history it
\* goes (0036_suppression_list.sql:47-95).
LEMMA OthersStaySuppressed ==
    ASSUME DialTypes, NEW c \in Prospect, NEW x \in Prospect, x # c, Suppressed(x),
           NEW row \in Row, row.lead = c, NEW at \in 1..(Len(suppression) + 1),
           suppression' = [i \in 1..(Len(suppression) + 1) |->
                             IF i < at THEN suppression[i]
                             ELSE IF i > at THEN suppression[i - 1] ELSE row]
    PROVE  Suppressed(x)'
<1>1. PICK n \in Nat : n = Len(suppression) /\ DOMAIN suppression = 1..n
    BY DEF DialTypes
<1>2. PICK i \in 1..n :
        /\ SpeaksOfCall(i, x) /\ suppression[i].kind # "start"
        /\ \A j \in 1..n : j > i => ~SpeaksOfCall(j, x)
    BY <1>1 DEF Suppressed
<1>3. DOMAIN suppression' = 1..(n + 1)
    BY <1>1
<1>4. PICK k \in 1..(n + 1) : k = IF i < at THEN i ELSE i + 1
    BY <1>1
<1>5. suppression'[k] = suppression[i]
    BY <1>1, <1>4
<1>6. SpeaksOfCall(k, x)' /\ suppression'[k].kind # "start"
    BY <1>2, <1>5 DEF SpeaksOfCall
<1>7. ASSUME NEW j \in 1..(n + 1), j > k PROVE ~SpeaksOfCall(j, x)'
    <2>1. CASE j = at
        <3>1. suppression'[j] = row
            BY <1>1, <2>1
        <3> QED
            BY <3>1 DEF SpeaksOfCall
    <2>2. CASE j < at
        <3>1. suppression'[j] = suppression[j] /\ j \in 1..n /\ j > i
            BY <1>1, <1>4, <1>7, <2>2
        <3> QED
            BY <1>2, <3>1 DEF SpeaksOfCall
    <2>3. CASE j > at
        <3>1. suppression'[j] = suppression[j - 1] /\ j - 1 \in 1..n /\ j - 1 > i
            BY <1>1, <1>4, <1>7, <2>3
        <3> QED
            BY <1>2, <3>1 DEF SpeaksOfCall
    <2> QED
        BY <1>1, <2>1, <2>2, <2>3
<1> QED
    BY <1>3, <1>6, <1>7 DEF Suppressed

\* The notes after a change about one lead: a press of it that is not judged is
\* barred no longer if the lead may be called again, and seen no longer if it is
\* out of sight; a press of another lead is as it was.
LEMMA NotedKeeps ==
    ASSUME GateKept, NEW c \in Prospect, Noted(c), suppression' \in Seq(Row),
           UNCHANGED <<audit, blocked, drawer>>,
           \A x \in Prospect : x # c /\ Suppressed(x) => Suppressed(x)',
           \A x \in Prospect : x # c /\ x \in elsewhere' => x \in elsewhere
    PROVE  GateKept'
<1> DEFINE reached(p) == Unjudged(p) /\ presses[p].lead = c
<1>1. DialTypes /\ Len(presses) \in Nat /\ DOMAIN presses = 1..Len(presses)
    BY DEF GateKept, DialTypes
<1>2. presses' = [p \in DOMAIN presses |->
              IF reached(p) THEN [presses[p] EXCEPT !.barred = @ /\ Suppressed(c)',
                                                    !.seen = @ /\ c \notin elsewhere']
              ELSE presses[p]]
    BY DEF Noted
<1>3. ASSUME NEW p \in DOMAIN presses
      PROVE  /\ presses'[p] \in Press
             /\ presses'[p].lead = presses[p].lead /\ presses'[p].at = presses[p].at
             /\ presses'[p].outcome = presses[p].outcome /\ presses'[p].owned = presses[p].owned
             /\ presses'[p].barred => presses[p].barred /\ (reached(p) => Suppressed(c)')
             /\ presses'[p].seen => presses[p].seen /\ (reached(p) => c \notin elsewhere')
    <2>1. presses[p] \in Press
        BY <1>1 DEF DialTypes
    <2>2. CASE reached(p)
        <3>1. PICK still \in BOOLEAN : still = (presses[p].barred /\ Suppressed(c)')
            BY Zenon
        <3>2. PICK sight \in BOOLEAN : sight = (presses[p].seen /\ c \notin elsewhere')
            BY Zenon
        <3>3. presses'[p] = [presses[p] EXCEPT !.barred = still, !.seen = sight]
            BY <1>2, <2>2, <3>1, <3>2
        <3>4. /\ still => presses[p].barred /\ Suppressed(c)'
              /\ sight => presses[p].seen /\ c \notin elsewhere'
            BY <3>1, <3>2
        <3> QED
            BY <2>1, <3>3, <3>4 DEF Press
    <2>3. CASE ~reached(p)
        <3>1. presses'[p] = presses[p]
            BY <1>2, <2>3
        <3> QED
            BY <2>1, <2>3, <3>1
    <2> QED
        BY <2>2, <2>3
<1>4. DOMAIN presses' = DOMAIN presses /\ presses' \in Seq(Press)
    <2>1. presses' \in [1..Len(presses) -> Press]
        BY <1>1, <1>2, <1>3
    <2> QED
        BY <1>1, <2>1, SeqDef
<1>5. DialTypes'
    BY <1>1, <1>4 DEF DialTypes
<1>6. ASSUME NEW p \in DOMAIN presses
      PROVE  BarredIsStopped(p)' /\ SeenIsTold(p)' /\ OnRecord(p)'
    <2>1. /\ BarredIsStopped(p) /\ SeenIsTold(p) /\ OnRecord(p)
          /\ presses[p].lead \in Prospect
        <3>1. presses[p] \in Press
            BY <1>1 DEF DialTypes
        <3>2. presses[p].lead \in Prospect
            BY <3>1 DEF Press
        <3> QED
            BY <3>2 DEF GateKept
    <2>2. OnRecord(p)'
        BY <1>3, <2>1 DEF OnRecord, Unjudged
    <2>3. PICK x \in Prospect : x = presses[p].lead /\ x = presses'[p].lead
        BY <1>3, <2>1
    <2>4. BarredIsStopped(p)'
        <3>1. ASSUME presses'[p].barred, Unjudged(p) PROVE x \notin NoPhone /\ Suppressed(x)'
            <4>1. presses[p].barred /\ Suppressed(x) /\ x \notin NoPhone
                BY <1>3, <2>1, <2>3, <3>1 DEF BarredIsStopped
            <4>2. CASE x = c
                BY <1>3, <2>3, <3>1, <4>1, <4>2
            <4>3. CASE x # c
                BY <4>1, <4>3
            <4> QED
                BY <4>2, <4>3
        <3>2. presses'[p].barred =>
                 presses'[p].outcome \in ToTheListed /\ presses'[p].at # "mapping"
            BY <1>3, <2>1 DEF BarredIsStopped
        <3> QED
            BY <1>3, <2>3, <3>1, <3>2 DEF BarredIsStopped, Unjudged
    <2>5. SeenIsTold(p)'
        <3>1. ASSUME presses'[p].seen, Unjudged(p) PROVE x \notin elsewhere'
            <4>1. presses[p].seen /\ x \notin elsewhere
                BY <1>3, <2>1, <2>3, <3>1 DEF SeenIsTold
            <4> QED
                BY <1>3, <2>3, <3>1, <4>1
        <3> QED
            BY <1>3, <2>1, <2>3, <3>1 DEF SeenIsTold, Unjudged
    <2> QED
        BY <2>2, <2>4, <2>5
<1> QED
    BY <1>4, <1>5, <1>6 DEF GateKept

\* A row of the list bears on the presses of its lead alone.
LEMMA suppressionAppendKeeps ==
    ASSUME GateKept, NEW c \in Prospect, NEW kind \in {"stop", "start", "dnc"},
           NEW channel \in Channel, NEW older \in 0..1,
           suppression_append(c, kind, channel, older)
    PROVE  GateKept'
<1> DEFINE row == [lead |-> c, kind |-> kind, channel |-> channel]
<1>1. DialTypes /\ Len(suppression) \in Nat /\ suppression \in Seq(Row)
      /\ older <= Len(suppression)
    BY DEF GateKept, DialTypes, suppression_append
<1>2. row \in Row /\ row.lead = c
    BY DEF Row
<1>3. PICK at \in 1..(Len(suppression) + 1) :
        suppression' = [i \in 1..(Len(suppression) + 1) |->
                          IF i < at THEN suppression[i]
                          ELSE IF i > at THEN suppression[i - 1] ELSE row]
    <2>1. Len(suppression) - older + 1 \in 1..(Len(suppression) + 1)
        BY <1>1
    <2>2. suppression' = [i \in 1..(Len(suppression) + 1) |->
             IF i < Len(suppression) - older + 1 THEN suppression[i]
             ELSE IF i > Len(suppression) - older + 1 THEN suppression[i - 1] ELSE row]
        BY DEF suppression_append
    <2> HIDE DEF row
    <2> QED
        BY <2>1, <2>2
<1> HIDE DEF row
<1>4. suppression' \in Seq(Row)
    <2>1. \A i \in 1..Len(suppression) : suppression[i] \in Row
        BY <1>1
    <2>2. suppression' \in [1..(Len(suppression) + 1) -> Row]
        BY <1>1, <1>2, <1>3, <2>1
    <2>3. Len(suppression) + 1 \in Nat
        BY <1>1
    <2> QED
        BY <2>2, <2>3, SeqDef
<1>5. ASSUME NEW x \in Prospect, x # c, Suppressed(x) PROVE Suppressed(x)'
    BY <1>1, <1>2, <1>3, <1>5, OthersStaySuppressed
<1>6. Noted(c) /\ UNCHANGED <<elsewhere, audit, blocked, drawer>>
    BY DEF suppression_append
<1> QED
    BY <1>4, <1>5, <1>6, NotedKeeps

\* So does what becomes of its owner, and of the caller's eyes.
LEMMA SightChangesKeeps ==
    ASSUME GateKept, NEW c \in Prospect, SightChanges(c) PROVE GateKept'
<1>1. Noted(c) /\ UNCHANGED <<suppression, audit, blocked, drawer>>
    BY DEF SightChanges
<1>2. suppression' \in Seq(Row)
    BY <1>1 DEF GateKept, DialTypes
<1>3. \A x \in Prospect : x # c /\ x \in elsewhere' => x \in elsewhere
    BY DEF SightChanges
<1>4. \A x \in Prospect : x # c /\ Suppressed(x) => Suppressed(x)'
    BY <1>1 DEF Suppressed, SpeaksOfCall
<1> QED
    BY <1>1, <1>2, <1>3, <1>4, NotedKeeps

\* A deploy answers what is on its way with a failure, and takes no row back.
LEMMA DeployedKeeps == ASSUME GateKept, Deployed PROVE GateKept'
<1>1. DialTypes /\ Len(presses) \in Nat /\ DOMAIN presses = 1..Len(presses)
    BY DEF GateKept, DialTypes
<1>2. /\ presses' = [p \in DOMAIN presses |->
              IF presses[p].at = "answered" THEN presses[p]
              ELSE [presses[p] EXCEPT !.at = "answered", !.outcome = "degraded"]]
      /\ UNCHANGED <<suppression, elsewhere, audit, blocked, drawer>>
    BY DEF Deployed, lawVars
<1>3. ASSUME NEW p \in DOMAIN presses
      PROVE  /\ presses'[p] \in Press
             /\ \/ presses'[p] = presses[p]
                \/ /\ presses'[p].at = "answered" /\ presses'[p].outcome = "degraded"
                   /\ presses'[p].barred = presses[p].barred
                   /\ presses'[p].seen = presses[p].seen
    <2>1. presses[p] \in Press
        BY <1>1 DEF DialTypes
    <2>2. PICK new : new = [presses[p] EXCEPT !.at = "answered", !.outcome = "degraded"]
        OBVIOUS
    <2>3. new \in Press /\ new.at = "answered" /\ new.outcome = "degraded"
          /\ new.barred = presses[p].barred /\ new.seen = presses[p].seen
        BY <2>1, <2>2 DEF Press, DialOutcome
    <2>4. presses'[p] = presses[p] \/ presses'[p] = new
        BY <1>2, <2>2
    <2> QED
        BY <2>1, <2>3, <2>4
<1>4. DOMAIN presses' = DOMAIN presses /\ presses' \in Seq(Press)
    <2>1. presses' \in [1..Len(presses) -> Press]
        BY <1>1, <1>2, <1>3
    <2> QED
        BY <1>1, <2>1, SeqDef
<1>5. DialTypes'
    BY <1>1, <1>2, <1>4 DEF DialTypes
<1>6. ASSUME NEW p \in DOMAIN presses
      PROVE  BarredIsStopped(p)' /\ SeenIsTold(p)' /\ OnRecord(p)'
    <2>1. BarredIsStopped(p) /\ SeenIsTold(p) /\ OnRecord(p)
        BY DEF GateKept
    <2>2. CASE presses'[p] = presses[p]
        <3>1. suppression' = suppression /\ elsewhere' = elsewhere /\ blocked' = blocked
            BY <1>2
        <3>2. BarredIsStopped(p)'
            BY <2>1, <2>2, <3>1 DEF BarredIsStopped, Unjudged, Suppressed, SpeaksOfCall
        <3>3. SeenIsTold(p)'
            BY <2>1, <2>2, <3>1 DEF SeenIsTold, Unjudged
        <3>4. OnRecord(p)'
            BY <1>2, <2>1, <2>2 DEF OnRecord, Unjudged
        <3> QED
            BY <3>2, <3>3, <3>4
    <2>3. CASE /\ presses'[p].at = "answered" /\ presses'[p].outcome = "degraded"
               /\ presses'[p].barred = presses[p].barred
               /\ presses'[p].seen = presses[p].seen
        <3>1. BarredIsStopped(p)' /\ SeenIsTold(p)'
            BY <2>1, <2>3 DEF BarredIsStopped, SeenIsTold, Unjudged, ToTheListed
        <3>2. OnRecord(p)'
            BY <1>2, <2>1, <2>3 DEF OnRecord, Unjudged, Refusals
        <3> QED
            BY <3>1, <3>2
    <2> QED
        BY <1>3, <2>2, <2>3
<1> QED
    BY <1>4, <1>5, <1>6 DEF GateKept

----------------------------------------------------------------------------
\* Every step keeps the inductive invariant.
LEMMA GateStep == GateKept /\ [DialNext]_dialVars => GateKept'
<1> SUFFICES ASSUME GateKept, [DialNext]_dialVars PROVE GateKept'
    OBVIOUS
<1>1. CASE (\E c \in Prospect : OpenDrawer(c)) \/ CloseDrawer
    <2>1. /\ UNCHANGED <<suppression, elsewhere, presses, audit, blocked>>
          /\ drawer' \in Prospect \cup {NoLead}
        BY <1>1 DEF OpenDrawer, CloseDrawer, lawVars
    <2> QED
        BY <2>1, ElsewhereKeepsGate
<1>2. CASE Dials
    BY <1>2, DialsKeeps
<1>3. ASSUME NEW p \in DOMAIN presses,
             \/ CapabilityChecked(p) \/ RegistryFails(p) \/ TargetResolved(p)
             \/ OwnerRead(p) \/ GateAsked(p) \/ MappingRead(p) \/ DialFails(p)
      PROVE  GateKept'
    BY <1>3, CapabilityCheckedKeeps, TargetResolvedKeeps, OwnerReadKeeps, GateAskedKeeps,
       MappingReadKeeps, DialFailsKeeps
<1>4. CASE \E c \in Prospect, kind \in {"stop", "start", "dnc"}, channel \in Channel,
              older \in 0..1 : suppression_append(c, kind, channel, older)
    BY <1>4, suppressionAppendKeeps
<1>5. CASE \E c \in Prospect : SightChanges(c)
    BY <1>5, SightChangesKeeps
<1>6. CASE LawChanges
    <2>1. UNCHANGED <<suppression, elsewhere, presses, audit, blocked, drawer>> /\ DialTypes
        BY <1>6 DEF LawChanges, GateKept
    <2> QED
        BY <2>1, ElsewhereKeepsGate DEF DialTypes
<1>7. CASE Deployed
    BY <1>7, DeployedKeeps
<1>8. CASE UNCHANGED dialVars
    <2>1. UNCHANGED <<suppression, elsewhere, presses, audit, blocked, drawer>> /\ DialTypes
        BY <1>8 DEF dialVars, lawVars, GateKept
    <2> QED
        BY <2>1, ElsewhereKeepsGate DEF DialTypes
<1> QED
    BY <1>1, <1>2, <1>3, <1>4, <1>5, <1>6, <1>7, <1>8 DEF DialNext

\* The rows of a press are none or one.
LEMMA AtMostOneRow ==
    ASSUME NEW S, \A r, s \in S : r = s PROVE Cardinality(S) <= 1
<1>1. CASE S = {}
    BY <1>1, FS_EmptySet
<1>2. CASE S # {}
    <2>1. PICK r : S = {r}
        BY <1>2
    <2> QED
        BY <2>1, FS_Singleton
<1> QED
    BY <1>1, <1>2

\* A lead on the list from the press to its answer is never told to wait for an
\* hour, for the recording guard or for a number: the list refuses, unless the
\* attempt ended before the gate or the lead was out of sight, and in sight the
\* refusal has its event.  Whoever is refused, or told what lies behind the gate,
\* is told so by the one row of that attempt (calls.ts:131-135,
\* 0060_compliance_emits.sql:315-317).
THEOREM TheGateIsObeyed == DialSpec => []GateIsObeyed
<1>1. GateKept => GateIsObeyed
    <2> SUFFICES ASSUME GateKept PROVE GateIsObeyed
        OBVIOUS
    <2>1. LegalRefusalWins
        BY DEF GateKept, BarredIsStopped, SeenIsTold, LegalRefusalWins, ToTheListed
    <2>2. AnswerIsOnRecord
        <3> SUFFICES ASSUME NEW p \in DOMAIN presses
                     PROVE  LET rows == {r \in audit : r.press = p}
                            IN  /\ Cardinality(rows) <= 1
                                /\ presses[p].outcome \in Refusals =>
                                      \E r \in rows : r.verdict = presses[p].outcome
                                /\ presses[p].outcome \in {"no_number", "no_credentials"} =>
                                      \E r \in rows : r.verdict = "allow"
            BY DEF AnswerIsOnRecord
        <3>1. OnRecord(p)
            BY DEF GateKept
        <3>2. \A r, s \in {q \in audit : q.press = p} : r = s
            BY <3>1 DEF OnRecord
        <3>3. Cardinality({r \in audit : r.press = p}) <= 1
            BY <3>2, AtMostOneRow
        <3> QED
            BY <3>1, <3>3 DEF OnRecord
    <2> QED
        BY <2>1, <2>2 DEF GateIsObeyed
<1> QED
    BY GateInit, GateStep, <1>1, PTL DEF DialSpec

----------------------------------------------------------------------------
\* A process that is up was checked, and has one relay.

\* What a fault goes by where a database need not be perfect.
Excused(w) ==
    \/ w = "capability not verified" /\ environment # "production"
    \/ w \in {"no baseline", "drifted"} /\ environment = "test"

\* While something wrong is on its way to be read, its read is still out: the
\* database only gets better, and a read that comes back finds nothing wrong.
ChecksAreOut ==
    /\ environment \in {"production", "development", "test"}
    /\ wrong \subseteq Wrong /\ wrongSince \subseteq wrong
    /\ process = "up" =>
          \A w \in wrongSince : Excused(w) \/ \E a \in checking : w \in a

\* Every fault but the excused ones is looked for.
LEMMA WrongIsAsserted ==
    ASSUME environment \in {"production", "development", "test"}, NEW w \in Wrong
    PROVE  Excused(w) \/ \E a \in Asserted(environment) : w \in a
  <1>1. PICK a \in Asserted("production") : w \in a
    BY DEF Wrong
  <1>2. CASE environment = "production"
    BY <1>1, <1>2
  <1>3. CASE w \in {"no baseline", "drifted", "capability not verified"}
    BY <1>3 DEF Excused, Asserted, assertProtectedSurfaceUnchanged, assertRequiredCapabilities
  <1>4. CASE /\ environment # "production"
             /\ w \notin {"no baseline", "drifted", "capability not verified"}
    <2>1. a \in {assertSafeConnection, assertGateIsRecording, assertEventEmitIsDefinerOnly,
                 assertDefinerOwnerIsPolicyBound, assertLedgerAppendIsDefinerOnly,
                 assertTimelineWriterIsDefinerOnly, assertDdlGuardIsArmed}
      BY <1>1, <1>4 DEF Asserted, assertProtectedSurfaceUnchanged, assertRequiredCapabilities
    <2>2. a \in Asserted(environment)
      BY <2>1 DEF Asserted
    <2> QED
      BY <1>1, <2>2
  <1> QED
    BY <1>2, <1>3, <1>4

\* Nothing runs, and what is wrong has a check.
LEMMA ChecksInit == BootInit => ChecksAreOut
  BY BootAssumption DEF BootInit, ChecksAreOut

\* A process that comes up, or is evaluated again, asks about everything.
LEMMA AskingKeepsChecks ==
    ASSUME ChecksAreOut, ComesUp \/ Reevaluated PROVE ChecksAreOut'
  <1>1. /\ environment' = environment /\ wrong' = wrong /\ wrongSince' = wrong
        /\ Asserted(environment) \subseteq checking'
    BY DEF ComesUp, Reevaluated, databaseVars
  <1>2. \A w \in wrong : Excused(w) \/ \E a \in Asserted(environment) : w \in a
    BY WrongIsAsserted DEF ChecksAreOut
  <1> QED
    BY <1>1, <1>2 DEF ChecksAreOut, Excused

\* A read that finds nothing wrong is not the one somebody waits for; one that
\* does ends the process.
LEMMA ReadsKeepChecks ==
    ASSUME ChecksAreOut, NEW a \in checking, Settles(a) \/ ReadFails(a) PROVE ChecksAreOut'
  <1>1. environment' = environment /\ wrong' = wrong /\ wrongSince' = wrongSince
    BY DEF Settles, ReadFails, databaseVars
  <1>2. CASE process' = "exited"
    BY <1>1, <1>2 DEF ChecksAreOut
  <1>3. CASE a \cap wrong = {} /\ checking' = checking \ {a} /\ process' = process
    <2>1. \A w \in wrongSince : w \notin a
      BY <1>3 DEF ChecksAreOut
    <2> QED
      BY <1>1, <1>3, <2>1 DEF ChecksAreOut, Excused
  <1> QED
    BY <1>2, <1>3 DEF Settles, ReadFails, Exit

\* Nothing that happens to a process or its database hides a fault from it.
LEMMA ChecksStep == ChecksAreOut /\ [BootNext]_bootVars => ChecksAreOut'
  <1> SUFFICES ASSUME ChecksAreOut, [BootNext]_bootVars PROVE ChecksAreOut'
    OBVIOUS
  <1>1. CASE \E s \in startups : LanesOpened(s) \/ QueueHandled(s) \/ RelayStarted(s) \/ StartupFails(s)
    <2>1. environment' = environment /\ wrong' = wrong /\ wrongSince' = wrongSince
      BY <1>1 DEF LanesOpened, QueueHandled, RelayStarted, StartupFails, databaseVars
    <2>2. process' = "exited" \/ (process' = process /\ checking' = checking)
      BY <1>1 DEF LanesOpened, QueueHandled, RelayStarted, StartupFails, Exit
    <2> QED
      BY <2>1, <2>2 DEF ChecksAreOut, Excused
  <1>2. CASE PassStarts \/ PassEnds
    BY <1>2 DEF PassStarts, PassEnds, databaseVars, ChecksAreOut, Excused
  <1>3. CASE Mended
    <2>1. /\ environment' = environment /\ process' = process /\ checking' = checking
          /\ wrong' \subseteq wrong /\ wrongSince' \subseteq wrongSince /\ wrongSince' \subseteq wrong'
      BY <1>3 DEF Mended, ChecksAreOut
    <2> QED
      BY <2>1 DEF ChecksAreOut, Excused
  <1>4. CASE Restarted
    BY <1>4 DEF Restarted, databaseVars, ChecksAreOut
  <1>5. CASE UNCHANGED bootVars
    BY <1>5 DEF bootVars, databaseVars, ChecksAreOut, Excused
  <1> QED
    BY <1>1, <1>2, <1>3, <1>4, <1>5, AskingKeepsChecks, ReadsKeepChecks DEF BootNext

\* One chain of relay passes: a boot on its way has no relay yet, and a process
\* that was booted does not boot again.
Chains == drains.waiting + drains.passing

RelayKept ==
    /\ drains \in [waiting : Nat, passing : Nat]
    /\ process # "up" => startups = {} /\ Chains = 0
    /\ process = "up" => booted = TRUE
    /\ booted = FALSE => startups = {} /\ Chains = 0
    /\ \A s, t \in startups : s = t
    /\ startups # {} => Chains = 0
    /\ Chains <= 1
    /\ \A s \in startups : s.at = "queues" => COMPLIANCE_LANE \in runners
    /\ Chains = 1 => handled = Len(QueueOrder) /\ COMPLIANCE_LANE \in runners

\* A process that is down has no relay.
LEMMA RelayInit == BootInit => RelayKept
  BY DEF BootInit, RelayKept, Chains

\* What ends the process ends its relay.
LEMMA ExitKeepsRelay == ASSUME Exit PROVE RelayKept'
  <1>1. /\ process' = "exited" /\ booted' = FALSE /\ startups' = {}
        /\ drains' = [waiting |-> 0, passing |-> 0]
    BY DEF Exit
  <1>2. drains' \in [waiting : Nat, passing : Nat] /\ drains'.waiting + drains'.passing = 0
    BY <1>1
  <1> QED
    BY <1>1, <1>2 DEF RelayKept, Chains

\* What leaves the relay, the boots and the flag alone.
LEMMA ElsewhereKeepsRelay ==
    ASSUME RelayKept, UNCHANGED <<workerVars, process>> PROVE RelayKept'
  BY DEF RelayKept, Chains, workerVars

\* The first evaluation boots a worker, the next ones find it booted.
LEMMA BootingKeepsRelay ==
    ASSUME RelayKept, ComesUp \/ Reevaluated PROVE RelayKept'
  <1>1. UNCHANGED <<runners, handled, drains>> /\ booted' = TRUE /\ process' = "up"
    BY DEF ComesUp, Reevaluated, bootFoldedWorker
  <1>2. CASE ComesUp
    <2>1. process = "down" /\ startups' = startups \cup {[n |-> passes, at |-> "lanes"]}
      BY <1>2 DEF ComesUp, bootFoldedWorker
    <2>2. startups = {} /\ Chains = 0
      BY <2>1 DEF RelayKept
    <2>3. \A s \in startups' : s.at = "lanes" /\ s = [n |-> passes, at |-> "lanes"]
      BY <2>1, <2>2
    <2>4. \A s \in startups' : s.at # "queues"
      BY <2>3
    <2>5. drains \in [waiting : Nat, passing : Nat] /\ drains.waiting + drains.passing = 0
      BY <2>2 DEF RelayKept, Chains
    <2> QED
      BY <1>1, <2>3, <2>4, <2>5 DEF RelayKept, Chains
  <1>3. CASE Reevaluated
    <2>1. process = "up" /\ startups' = (IF booted THEN startups
                                         ELSE startups \cup {[n |-> passes, at |-> "lanes"]})
      BY <1>3 DEF Reevaluated, bootFoldedWorker
    <2>2. booted = TRUE
      BY <2>1 DEF RelayKept
    <2>3. startups' = startups
      BY <2>1, <2>2
    <2> QED
      BY <1>1, <2>1, <2>3 DEF RelayKept, Chains
  <1> QED
    BY <1>2, <1>3

\* A boot goes on: its lanes, its queues, its relay.
LEMMA StartupKeepsRelay ==
    ASSUME RelayKept, NEW s \in startups,
           LanesOpened(s) \/ QueueHandled(s) \/ RelayStarted(s) \/ StartupFails(s)
    PROVE  RelayKept'
  <1>1. /\ startups = {s} /\ process = "up" /\ booted = TRUE
        /\ drains \in [waiting : Nat, passing : Nat] /\ drains.waiting + drains.passing = 0
    <2>1. process = "up" /\ Chains = 0
      BY DEF RelayKept
    <2>2. startups = {s} /\ booted = TRUE /\ drains \in [waiting : Nat, passing : Nat]
      BY <2>1 DEF RelayKept
    <2> QED
      BY <2>1, <2>2 DEF Chains
  <1>2. CASE Exit
    BY <1>2, ExitKeepsRelay
  <1>3. CASE /\ COMPLIANCE_LANE \in laneMap /\ runners' = laneMap /\ GoesOn(s, "queues")
             /\ UNCHANGED <<process, booted, handled, drains>>
    <2>1. PICK t : t = [s EXCEPT !.at = "queues"]
      OBVIOUS
    <2>2. startups' = {t}
      BY <1>1, <1>3, <2>1 DEF GoesOn
    <2> QED
      BY <1>1, <1>3, <2>2 DEF RelayKept, Chains
  <1>4. CASE /\ s.at = "queues" /\ UNCHANGED <<process, booted, startups, runners, drains>>
    <2>1. COMPLIANCE_LANE \in runners
      BY <1>4 DEF RelayKept
    <2> QED
      BY <1>1, <1>4, <2>1 DEF RelayKept, Chains
  <1>5. CASE RelayStarted(s)
    <2>1. /\ startups' = {} /\ drains' = [drains EXCEPT !.waiting = drains.waiting + 1]
          /\ UNCHANGED <<process, booted, runners, handled>>
          /\ s.at = "queues" /\ handled = Len(QueueOrder)
      BY <1>1, <1>5 DEF RelayStarted
    <2>2. COMPLIANCE_LANE \in runners
      BY <2>1 DEF RelayKept
    <2>3. drains' \in [waiting : Nat, passing : Nat] /\ drains'.waiting + drains'.passing = 1
      BY <1>1, <2>1
    <2> QED
      BY <1>1, <2>1, <2>2, <2>3 DEF RelayKept, Chains
  <1> QED
    BY <1>2, <1>3, <1>4, <1>5 DEF LanesOpened, QueueHandled, StartupFails

\* A pass sets the next timer: the chain is one before and after.
LEMMA PassKeepsRelay == ASSUME RelayKept, PassStarts \/ PassEnds PROVE RelayKept'
  <1>1. /\ drains \in [waiting : Nat, passing : Nat]
        /\ UNCHANGED <<process, booted, startups, runners, handled>>
    BY DEF RelayKept, PassStarts, PassEnds
  <1>2. /\ drains' \in [waiting : Nat, passing : Nat]
        /\ drains'.waiting + drains'.passing = drains.waiting + drains.passing
    <2>1. CASE PassStarts
      <3>1. drains.waiting > 0 /\ drains' = [waiting |-> drains.waiting - 1, passing |-> drains.passing + 1]
        BY <2>1 DEF PassStarts
      <3> QED
        BY <1>1, <3>1
    <2>2. CASE PassEnds
      <3>1. drains.passing > 0 /\ drains' = [waiting |-> drains.waiting + 1, passing |-> drains.passing - 1]
        BY <2>2 DEF PassEnds
      <3> QED
        BY <1>1, <3>1
    <2> QED
      BY <2>1, <2>2
  <1> QED
    BY <1>1, <1>2 DEF RelayKept, Chains

\* Every step leaves at most one chain of passes.
LEMMA RelayStep == RelayKept /\ [BootNext]_bootVars => RelayKept'
  <1> SUFFICES ASSUME RelayKept, [BootNext]_bootVars PROVE RelayKept'
    OBVIOUS
  <1>1. CASE \E a \in checking : Settles(a) \/ ReadFails(a)
    <2>1. Exit \/ UNCHANGED <<process, workerVars>>
      BY <1>1 DEF Settles, ReadFails
    <2> QED
      BY <2>1, ExitKeepsRelay, ElsewhereKeepsRelay
  <1>2. CASE Mended \/ UNCHANGED bootVars
    BY <1>2, ElsewhereKeepsRelay DEF Mended, bootVars
  <1>3. CASE Restarted
    <2>1. process = "exited" /\ process' = "down" /\ UNCHANGED workerVars
      BY <1>3 DEF Restarted
    <2> QED
      BY <2>1 DEF RelayKept, Chains, workerVars
  <1> QED
    BY <1>1, <1>2, <1>3, BootingKeepsRelay, StartupKeepsRelay, PassKeepsRelay DEF BootNext

\* A process whose checks are back is safe, and it drains the outbox with one
\* relay, for any lanes and however often it is evaluated, fails and comes back
\* (db/pool.ts:72-191, jobs/boot.ts:20-31).
THEOREM AProcessIsChecked == BootSpec => [](SettledMeansSafe /\ OneDrain)
  <1>1. ChecksAreOut => SettledMeansSafe
    BY DEF ChecksAreOut, SettledMeansSafe, Excused
  <1>2. RelayKept => OneDrain
    BY DEF RelayKept, OneDrain, Chains
  <1> QED
    BY <1>1, <1>2, ChecksInit, ChecksStep, RelayInit, RelayStep, PTL DEF BootSpec

----------------------------------------------------------------------------
\* The event loop's alert.

Sample == [at : Nat, over : BOOLEAN]

\* Samples are taken one after the other, the next one not before the timer;
\* while an alert is on its way it is the last sample's.
SampledInOrder ==
    /\ second \in Nat /\ samples \in Seq(Sample)
    /\ due \in Nat \cup {NoTime} /\ breachedSince \in Nat \cup {NoTime} /\ raising \in Nat \cup {NoTime}
    /\ \A i, j \in DOMAIN samples : i < j => samples[i].at < samples[j].at
    /\ \A i \in DOMAIN samples :
          samples[i].at <= second /\ (due # NoTime => samples[i].at < due)
    /\ raising # NoTime =>
          /\ due = NoTime /\ samples # <<>>
          /\ raising = samples[Len(samples)].at /\ samples[Len(samples)].over
          /\ breachedSince # NoTime /\ breachedSince + SUSTAINED <= raising

\* A breach began with a sample, and every one since was over the budget.
BreachIsSampled ==
    breachedSince # NoTime =>
        \E i \in DOMAIN samples : samples[i].at = breachedSince /\ OverFrom(i, Len(samples))

\* A run of samples over the budget, up to now, is in the breach that is
\* counted, unless an alert about it was tried.
RunIsCounted ==
    \A i \in DOMAIN samples : OverFrom(i, Len(samples)) =>
        /\ breachedSince # NoTime
        /\ \/ breachedSince <= samples[i].at
           \/ \E a \in attempts : samples[i].at <= a /\ a <= samples[Len(samples)].at

\* An alert is of a sample before or at which the breach that is counted began.
AlertsAreBefore ==
    /\ attempts \subseteq Nat /\ alerts \subseteq Nat
    /\ raising # NoTime => raising \in attempts
    /\ \A a \in alerts : \E i \in DOMAIN samples : samples[i].at = a
    /\ breachedSince # NoTime => \A a \in alerts : a <= breachedSince

LoopWatched ==
    /\ SampledInOrder /\ BreachIsSampled /\ RunIsCounted /\ AlertsAreBefore
    /\ AlertIsSustained /\ SaturationIsTold

\* Nothing was sampled, nothing is to tell.
LEMMA WatchInit == SaturationInit => LoopWatched
  <1> SUFFICES ASSUME SaturationInit PROVE LoopWatched
    OBVIOUS
  <1>1. /\ second = 0 /\ due = 1 /\ breachedSince = NoTime /\ raising = NoTime
        /\ alerts = {} /\ samples = <<>> /\ attempts = {}
    BY DEF SaturationInit
  <1>2. samples \in Seq(Sample) /\ DOMAIN samples = {}
    BY <1>1
  <1> QED
    BY <1>1, <1>2 DEF LoopWatched, SampledInOrder, BreachIsSampled, RunIsCounted, AlertsAreBefore,
                      AlertIsSustained, SaturationIsTold

\* Time goes on, or a try fails: the samples and what they say stay.
LEMMA QuietKeepsWatch ==
    ASSUME LoopWatched, SecondPasses \/ AlertRefused PROVE LoopWatched'
  <1>1. UNCHANGED <<breachedSince, alerts, samples, attempts>>
    BY DEF SecondPasses, AlertRefused
  <1>2. second \in Nat /\ samples \in Seq(Sample) /\ \A i \in DOMAIN samples : samples[i].at \in Nat
    <2>1. samples \in Seq(Sample) /\ second \in Nat
      BY DEF LoopWatched, SampledInOrder
    <2>2. \A i \in DOMAIN samples : samples[i] \in Sample
      BY <2>1, LenProperties, ElementOfSeq
    <2> QED
      BY <2>1, <2>2 DEF Sample
  <1>3. SampledInOrder'
    <2>1. CASE SecondPasses
      <3>1. second' = second + 1 /\ UNCHANGED <<due, raising>>
        BY <2>1 DEF SecondPasses
      <3> QED
        BY <1>1, <1>2, <3>1 DEF LoopWatched, SampledInOrder
    <2>2. CASE AlertRefused
      <3>1. raising' = NoTime /\ due' = second + 1 /\ second' = second
        BY <2>2 DEF AlertRefused
      <3> QED
        BY <1>1, <1>2, <3>1 DEF LoopWatched, SampledInOrder
    <2> QED
      BY <2>1, <2>2
  <1>4. AlertsAreBefore'
    <2>1. raising' = raising \/ raising' = NoTime
      BY DEF SecondPasses, AlertRefused
    <2> QED
      BY <1>1, <2>1 DEF LoopWatched, AlertsAreBefore
  <1>5. BreachIsSampled' /\ RunIsCounted' /\ AlertIsSustained' /\ SaturationIsTold'
    BY <1>1 DEF LoopWatched, BreachIsSampled, RunIsCounted, AlertIsSustained, SaturationIsTold,
                OverFrom
  <1> QED
    BY <1>3, <1>4, <1>5 DEF LoopWatched

\* An alert is written: it is about the breach that was counted, which began no
\* earlier than the alert before it, and the next one starts at its sample.
LEMMA WrittenKeepsWatch == ASSUME LoopWatched, AlertWritten PROVE LoopWatched'
  <1>0. PICK n \in Nat : n = Len(samples)
    <2>1. Len(samples) \in Nat
      BY LenProperties DEF LoopWatched, SampledInOrder
    <2> QED
      BY <2>1
  <1>1. /\ raising # NoTime /\ alerts' = alerts \cup {raising} /\ breachedSince' = raising
        /\ raising' = NoTime /\ due' = second + 1 /\ UNCHANGED <<second, samples, attempts>>
    BY DEF AlertWritten
  <1>2. samples \in Seq(Sample) /\ second \in Nat /\ Len(samples) = n /\ DOMAIN samples = 1..n
    BY <1>0 DEF LoopWatched, SampledInOrder
  <1>3. \A i \in 1..n : samples[i].at \in Nat
    <2>1. \A i \in 1..n : samples[i] \in Sample
      BY <1>2, ElementOfSeq
    <2> QED
      BY <2>1 DEF Sample
  <1>4. /\ n \in 1..n /\ raising \in Nat /\ raising = samples[n].at /\ samples[n].over
        /\ breachedSince \in Nat /\ breachedSince + SUSTAINED <= raising /\ raising \in attempts
    <2>1. samples # <<>> /\ raising = samples[n].at /\ samples[n].over
      BY <1>1, <1>2 DEF LoopWatched, SampledInOrder
    <2>2. n \in 1..n
      BY <1>2, <2>1, EmptySeq
    <2>3. /\ breachedSince \in Nat /\ breachedSince + SUSTAINED <= raising /\ raising \in attempts
      BY <1>1 DEF LoopWatched, SampledInOrder, AlertsAreBefore
    <2> QED
      BY <1>3, <2>1, <2>2, <2>3
  <1>5. \A i \in 1..n : samples[i].at <= raising
    BY <1>2, <1>3, <1>4 DEF LoopWatched, SampledInOrder
  <1>6. \A i \in 1..n : samples[i].at < second + 1
    BY <1>2, <1>3 DEF LoopWatched, SampledInOrder
  <1>7. SUSTAINED \in Nat \ {0} /\ NoTime \notin Nat
    BY SaturationAssumption
  <1>8. SampledInOrder'
    BY <1>1, <1>2, <1>4, <1>6 DEF LoopWatched, SampledInOrder
  <1>9. BreachIsSampled'
    <2>1. OverFrom(n, n)
      BY <1>2, <1>4 DEF OverFrom
    <2>2. \E i \in DOMAIN samples : samples[i].at = raising /\ OverFrom(i, n)
      BY <1>2, <1>4, <2>1
    <2> QED
      BY <1>1, <1>2, <2>2 DEF BreachIsSampled, OverFrom
  <1>10. RunIsCounted'
    <2>1. \A i \in 1..n : raising # NoTime /\
             \E a \in attempts : samples[i].at <= a /\ a <= samples[n].at
      BY <1>4, <1>5, <1>7
    <2> QED
      BY <1>1, <1>2, <2>1 DEF RunIsCounted, OverFrom
  <1>11. \A a \in alerts : a \in Nat /\ a <= breachedSince
    BY <1>4, <1>7 DEF LoopWatched, AlertsAreBefore
  <1>12. AlertsAreBefore'
    <2>1. \A a \in alerts' : a \in Nat /\ a <= raising /\ \E i \in DOMAIN samples : samples[i].at = a
      <3> SUFFICES ASSUME NEW a \in alerts'
                   PROVE  a \in Nat /\ a <= raising /\ \E i \in DOMAIN samples : samples[i].at = a
        OBVIOUS
      <3>1. CASE a = raising
        BY <1>2, <1>4, <3>1
      <3>2. CASE a \in alerts
        <4>1. \E i \in DOMAIN samples : samples[i].at = a
          BY <3>2 DEF LoopWatched, AlertsAreBefore
        <4>2. a \in Nat /\ a <= breachedSince
          BY <1>11, <3>2
        <4> QED
          BY <1>4, <1>7, <4>1, <4>2
      <3> QED
        BY <1>1, <3>1, <3>2
    <2>2. attempts \subseteq Nat
      BY DEF LoopWatched, AlertsAreBefore
    <2> QED
      BY <1>1, <2>1, <2>2 DEF AlertsAreBefore
  <1>13. AlertIsSustained'
    <2>1. PICK i \in DOMAIN samples : samples[i].at = breachedSince /\ OverFrom(i, n)
      BY <1>2, <1>4, <1>7 DEF LoopWatched, BreachIsSampled
    <2>2. \E k, j \in DOMAIN samples :
             samples[j].at = raising /\ samples[k].at + SUSTAINED <= raising /\ OverFrom(k, j)
      BY <1>2, <1>4, <2>1
    <2>3. \A b \in alerts : b + SUSTAINED <= raising
      BY <1>4, <1>7, <1>11
    <2>4. \A a \in alerts :
             /\ \E k, j \in DOMAIN samples :
                   samples[j].at = a /\ samples[k].at + SUSTAINED <= a /\ OverFrom(k, j)
             /\ \A b \in alerts : b < a => b + SUSTAINED <= a
      BY DEF LoopWatched, AlertIsSustained
    <2>5. \A a \in alerts : ~(raising < a)
      BY <1>4, <1>7, <1>11
    <2>6. ASSUME NEW a \in alerts'
          PROVE  /\ \E k, j \in DOMAIN samples :
                       samples[j].at = a /\ samples[k].at + SUSTAINED <= a /\ OverFrom(k, j)
                 /\ \A b \in alerts' : b < a => b + SUSTAINED <= a
      <3>1. CASE a = raising
        BY <1>1, <1>4, <2>2, <2>3, <3>1
      <3>2. CASE a \in alerts
        BY <1>1, <2>4, <2>5, <3>2
      <3> QED
        BY <1>1, <3>1, <3>2
    <2> QED
      BY <1>1, <2>6 DEF AlertIsSustained, OverFrom
  <1>14. SaturationIsTold'
    BY <1>1 DEF LoopWatched, SaturationIsTold, OverFrom
  <1> QED
    BY <1>8, <1>9, <1>10, <1>12, <1>13, <1>14 DEF LoopWatched

\* A sample: the breach begins, goes on or ends with it, and one that has gone
\* on for long enough is told of.
LEMMA SampleKeepsWatch ==
    ASSUME LoopWatched, NEW over \in BOOLEAN, sampleOnce(over) PROVE LoopWatched'
  <1>0. PICK n \in Nat : n = Len(samples)
    <2>1. Len(samples) \in Nat
      BY LenProperties DEF LoopWatched, SampledInOrder
    <2> QED
      BY <2>1
  <1>1. /\ due # NoTime /\ second >= due
        /\ samples' = Append(samples, [at |-> second, over |-> over])
        /\ breachedSince' = IF ~over THEN NoTime
                            ELSE IF breachedSince = NoTime THEN second ELSE breachedSince
        /\ UNCHANGED <<second, alerts>>
    BY DEF sampleOnce
  <1>2. /\ samples \in Seq(Sample) /\ second \in Nat /\ due \in Nat /\ n = Len(samples)
        /\ DOMAIN samples = 1..n /\ breachedSince \in Nat \cup {NoTime}
    BY <1>0, <1>1 DEF LoopWatched, SampledInOrder
  <1>3. SUSTAINED \in Nat \ {0} /\ NoTime \notin Nat
    BY SaturationAssumption
  <1>4. \A i \in 1..n : samples[i] \in Sample /\ samples[i].at \in Nat
    <2>1. \A i \in 1..n : samples[i] \in Sample
      BY <1>2, ElementOfSeq
    <2> QED
      BY <2>1 DEF Sample
  <1>5. PICK new \in Sample : new = [at |-> second, over |-> over]
    <2>1. [at |-> second, over |-> over] \in Sample
      BY <1>2 DEF Sample
    <2> QED
      BY <2>1
  <1>6. /\ samples' \in Seq(Sample) /\ DOMAIN samples' = 1..(n + 1) /\ Len(samples') = n + 1
        /\ samples'[n + 1] = new /\ new.at = second /\ new.over = over
        /\ \A i \in 1..n : samples'[i] = samples[i]
    BY <1>1, <1>2, <1>5
  <1>7. raising = NoTime
    BY <1>1 DEF LoopWatched, SampledInOrder
  <1>8. \A i \in 1..n : samples[i].at < second
    BY <1>1, <1>2, <1>4 DEF LoopWatched, SampledInOrder
  <1>9. \/ /\ over /\ breachedSince' \in Nat /\ second - breachedSince' >= SUSTAINED
           /\ raising' = second /\ attempts' = attempts \cup {second} /\ due' = NoTime
        \/ /\ ~(over /\ second - breachedSince' >= SUSTAINED)
           /\ due' = second + 1 /\ raising' = NoTime /\ attempts' = attempts
    BY <1>1, <1>2, <1>3, <1>7 DEF sampleOnce
  <1>10. breachedSince' \in Nat \cup {NoTime}
    BY <1>1, <1>2
  <1>11. \A i, j \in 1..(n + 1) : i < j => samples'[i].at < samples'[j].at
    <2> SUFFICES ASSUME NEW i \in 1..(n + 1), NEW j \in 1..(n + 1), i < j
                 PROVE  samples'[i].at < samples'[j].at
      OBVIOUS
    <2>1. CASE j = n + 1
      <3>1. i \in 1..n
        BY <1>2, <2>1
      <3> QED
        BY <1>6, <1>8, <2>1, <3>1
    <2>2. CASE j \in 1..n
      <3>1. i \in 1..n
        BY <1>2, <2>2
      <3>2. samples[i].at < samples[j].at
        BY <1>2, <2>2, <3>1 DEF LoopWatched, SampledInOrder
      <3> QED
        BY <1>6, <2>2, <3>1, <3>2
    <2> QED
      BY <1>2, <2>1, <2>2
  <1>12. \A i \in 1..(n + 1) : samples'[i].at \in Nat /\ samples'[i].at <= second
    <2> SUFFICES ASSUME NEW i \in 1..(n + 1)
                 PROVE  samples'[i].at \in Nat /\ samples'[i].at <= second
      OBVIOUS
    <2>1. CASE i = n + 1
      BY <1>2, <1>6, <2>1
    <2>2. CASE i \in 1..n
      BY <1>2, <1>4, <1>6, <1>8, <2>2
    <2> QED
      BY <1>2, <2>1, <2>2
  <1>13. SampledInOrder'
    <2>1. due' \in Nat \cup {NoTime} /\ raising' \in Nat \cup {NoTime}
      BY <1>2, <1>9
    <2>2. \A i \in 1..(n + 1) : samples'[i].at <= second /\ (due' # NoTime => samples'[i].at < due')
      BY <1>2, <1>9, <1>12
    <2>3. raising' # NoTime =>
              /\ due' = NoTime /\ samples' # <<>>
              /\ raising' = samples'[n + 1].at /\ samples'[n + 1].over
              /\ breachedSince' # NoTime /\ breachedSince' + SUSTAINED <= raising'
      BY <1>2, <1>3, <1>6, <1>9
    <2> QED
      BY <1>1, <1>2, <1>6, <1>10, <1>11, <2>1, <2>2, <2>3 DEF SampledInOrder
  \* What is over from an older sample on is so with the new one, or ends.
  <1>14. \A i \in 1..n : OverFrom(i, n + 1)' <=> (OverFrom(i, n) /\ over)
    <2> SUFFICES ASSUME NEW i \in 1..n
                 PROVE  (\A k \in i..(n + 1) : samples'[k].over) <=>
                            ((\A k \in i..n : samples[k].over) /\ over)
      BY DEF OverFrom
    <2>1. ASSUME \A k \in i..(n + 1) : samples'[k].over
          PROVE  (\A k \in i..n : samples[k].over) /\ over
      <3>1. n + 1 \in i..(n + 1) /\ \A k \in i..n : k \in i..(n + 1) /\ k \in 1..n
        BY <1>2
      <3> QED
        BY <1>6, <2>1, <3>1
    <2>2. ASSUME \A k \in i..n : samples[k].over, over
          PROVE  \A k \in i..(n + 1) : samples'[k].over
      <3> SUFFICES ASSUME NEW k \in i..(n + 1) PROVE samples'[k].over
        OBVIOUS
      <3>1. CASE k = n + 1
        BY <1>6, <2>2, <3>1
      <3>2. CASE k \in i..n
        <4>1. k \in 1..n
          BY <1>2, <3>2
        <4> QED
          BY <1>6, <2>2, <3>2, <4>1
      <3> QED
        BY <1>2, <3>1, <3>2
    <2> QED
      BY <2>1, <2>2
  <1>15. OverFrom(n + 1, n + 1)' <=> over
    <2>1. (\A k \in (n + 1)..(n + 1) : samples'[k].over) <=> over
      <3>1. \A k \in (n + 1)..(n + 1) : k = n + 1
        BY <1>2
      <3>2. n + 1 \in (n + 1)..(n + 1)
        BY <1>2
      <3> QED
        BY <1>6, <3>1, <3>2
    <2> QED
      BY <2>1 DEF OverFrom
  <1>16. n + 1 \in 1..(n + 1) /\ \A i \in 1..n : i \in 1..(n + 1)
    BY <1>2
  <1>17. BreachIsSampled'
    <2> SUFFICES ASSUME breachedSince' # NoTime
                 PROVE  \E i \in 1..(n + 1) : samples'[i].at = breachedSince' /\ OverFrom(i, n + 1)'
      BY <1>6 DEF BreachIsSampled, OverFrom
    <2>1. over
      BY <1>1
    <2>2. CASE breachedSince = NoTime
      BY <1>1, <1>6, <1>15, <1>16, <2>1, <2>2
    <2>3. CASE breachedSince # NoTime
      <3>1. PICK i \in 1..n : samples[i].at = breachedSince /\ OverFrom(i, n)
        BY <1>2, <2>3 DEF LoopWatched, BreachIsSampled
      <3> QED
        BY <1>1, <1>6, <1>14, <1>16, <2>1, <2>3, <3>1
    <2> QED
      BY <2>2, <2>3
  <1>18. attempts \subseteq attempts' /\ attempts \subseteq Nat /\ attempts' \subseteq Nat
    BY <1>2, <1>9 DEF LoopWatched, AlertsAreBefore
  <1>19. ASSUME NEW i \in 1..(n + 1), OverFrom(i, n + 1)'
         PROVE  /\ breachedSince' # NoTime
                /\ \/ breachedSince' <= samples'[i].at
                   \/ \E a \in attempts' : samples'[i].at <= a /\ a <= second
    <2>1. CASE i = n + 1
      <3>1. over
        BY <1>15, <1>19, <2>1
      <3>2. breachedSince' \in Nat /\ breachedSince' <= second
        <4>1. CASE breachedSince = NoTime
          BY <1>1, <1>2, <3>1, <4>1
        <4>2. CASE breachedSince # NoTime
          <5>1. PICK k \in 1..n : samples[k].at = breachedSince
            BY <1>2, <4>2 DEF LoopWatched, BreachIsSampled
          <5> QED
            BY <1>1, <1>2, <1>4, <1>8, <3>1, <4>2, <5>1
        <4> QED
          BY <4>1, <4>2
      <3> QED
        BY <1>3, <1>6, <2>1, <3>2
    <2>2. CASE i \in 1..n
      <3>1. OverFrom(i, n) /\ over
        BY <1>14, <1>19, <2>2
      <3>2. /\ breachedSince # NoTime
            /\ \/ breachedSince <= samples[i].at
               \/ \E a \in attempts : samples[i].at <= a /\ a <= samples[n].at
        BY <1>2, <2>2, <3>1 DEF LoopWatched, RunIsCounted
      <3>3. breachedSince' = breachedSince
        BY <1>1, <3>1, <3>2
      <3>4. n \in 1..n /\ samples[n].at <= second /\ samples[n].at \in Nat
        BY <1>2, <1>4, <1>8, <2>2
      <3>5. CASE breachedSince <= samples[i].at
        BY <1>6, <2>2, <3>2, <3>3, <3>5
      <3>6. CASE \E a \in attempts : samples[i].at <= a /\ a <= samples[n].at
        <4>1. PICK a \in attempts : samples[i].at <= a /\ a <= samples[n].at
          BY <3>6
        <4>2. a \in Nat /\ a \in attempts' /\ samples'[i].at <= a /\ a <= second
          BY <1>2, <1>4, <1>6, <1>18, <2>2, <3>4, <4>1
        <4> QED
          BY <3>2, <3>3, <4>2
      <3> QED
        BY <3>2, <3>5, <3>6
    <2> QED
      BY <1>2, <2>1, <2>2
  <1>20. RunIsCounted'
    BY <1>6, <1>19 DEF RunIsCounted, OverFrom
  <1>21. AlertsAreBefore'
    <2>1. \A a \in alerts : a \in Nat /\ \E i \in 1..n : samples[i].at = a
      BY <1>2 DEF LoopWatched, AlertsAreBefore
    <2>2. \A a \in alerts : \E i \in 1..(n + 1) : samples'[i].at = a
      BY <1>6, <1>16, <2>1
    <2>3. breachedSince' # NoTime => \A a \in alerts : a <= breachedSince'
      <3> SUFFICES ASSUME breachedSince' # NoTime, NEW a \in alerts PROVE a <= breachedSince'
        OBVIOUS
      <3>1. CASE breachedSince = NoTime
        <4>1. breachedSince' = second
          BY <1>1, <3>1
        <4> QED
          BY <1>2, <1>4, <1>8, <2>1, <4>1
      <3>2. CASE breachedSince # NoTime
        <4>1. breachedSince' = breachedSince
          BY <1>1, <3>2
        <4> QED
          BY <3>2, <4>1 DEF LoopWatched, AlertsAreBefore
      <3> QED
        BY <3>1, <3>2
    <2>4. raising' # NoTime => raising' \in attempts'
      BY <1>9
    <2> QED
      BY <1>1, <1>6, <1>18, <2>1, <2>2, <2>3, <2>4 DEF AlertsAreBefore
  \* An older run is what it was.
  <1>22. \A i, j \in 1..n : OverFrom(i, j)' <=> OverFrom(i, j)
    <2> SUFFICES ASSUME NEW i \in 1..n, NEW j \in 1..n
                 PROVE  (\A k \in i..j : samples'[k].over) <=> (\A k \in i..j : samples[k].over)
      BY DEF OverFrom
    <2>1. \A k \in i..j : k \in 1..n
      BY <1>2
    <2> QED
      BY <1>6, <2>1
  <1>23. AlertIsSustained'
    <2> SUFFICES ASSUME NEW a \in alerts
                 PROVE  /\ \E i, j \in 1..(n + 1) :
                              /\ samples'[j].at = a /\ samples'[i].at + SUSTAINED <= a
                              /\ OverFrom(i, j)'
                        /\ \A b \in alerts : b < a => b + SUSTAINED <= a
      BY <1>1, <1>6 DEF AlertIsSustained, OverFrom
    <2>1. PICK i \in 1..n, j \in 1..n :
             samples[j].at = a /\ samples[i].at + SUSTAINED <= a /\ OverFrom(i, j)
      BY <1>2 DEF LoopWatched, AlertIsSustained
    <2>2. \A b \in alerts : b < a => b + SUSTAINED <= a
      BY DEF LoopWatched, AlertIsSustained
    <2>3. i \in 1..(n + 1) /\ j \in 1..(n + 1) /\ OverFrom(i, j)'
      BY <1>16, <1>22, <2>1
    <2>4. samples'[j].at = a /\ samples'[i].at + SUSTAINED <= a
      BY <1>6, <2>1
    <2> QED
      BY <2>2, <2>3, <2>4
  <1>24. SaturationIsTold'
    <2> SUFFICES ASSUME NEW i \in 1..(n + 1), NEW j \in 1..(n + 1), i <= j, OverFrom(i, j)',
                        samples'[i].at + SUSTAINED <= samples'[j].at
                 PROVE  \E a \in attempts' : samples'[i].at <= a /\ a <= samples'[j].at
      BY <1>6 DEF SaturationIsTold, OverFrom
    <2>1. CASE j \in 1..n
      <3>1. i \in 1..n
        BY <1>2, <2>1
      <3>2. OverFrom(i, j) /\ samples'[i] = samples[i] /\ samples'[j] = samples[j]
        BY <1>6, <1>22, <2>1, <3>1
      <3>3. PICK a \in attempts : samples[i].at <= a /\ a <= samples[j].at
        BY <1>2, <2>1, <3>1, <3>2 DEF LoopWatched, SaturationIsTold
      <3> QED
        BY <1>18, <3>2, <3>3
    <2>2. CASE j = n + 1
      <3>1. /\ breachedSince' # NoTime
            /\ \/ breachedSince' <= samples'[i].at
               \/ \E a \in attempts' : samples'[i].at <= a /\ a <= second
        BY <1>19, <2>2
      <3>2. samples'[j].at = second
        BY <1>6, <2>2
      <3>3. CASE breachedSince' <= samples'[i].at
        <4>1. over
          BY <1>1, <3>1
        <4>2. breachedSince' \in Nat /\ samples'[i].at \in Nat /\ samples'[i].at <= second
          BY <1>10, <1>12, <3>1
        <4>3. second - breachedSince' >= SUSTAINED
          <5>1. samples'[i].at + SUSTAINED <= second
            BY <3>2
          <5>2. SUSTAINED \in Nat /\ second \in Nat
            BY <1>2, <1>3
          <5>3. PICK b \in Nat, t \in Nat : b = breachedSince' /\ t = samples'[i].at
            BY <4>2
          <5>4. b <= t /\ t + SUSTAINED <= second
            BY <3>3, <5>1, <5>3
          <5>5. second - b >= SUSTAINED
            BY <5>2, <5>4
          <5> QED
            BY <5>3, <5>5
        <4>4. second \in attempts'
          BY <1>9, <4>1, <4>3
        <4> QED
          BY <1>2, <3>2, <4>2, <4>4
      <3> QED
        BY <3>1, <3>2, <3>3
    <2> QED
      BY <1>2, <2>1, <2>2
  <1> QED
    BY <1>13, <1>17, <1>20, <1>21, <1>23, <1>24 DEF LoopWatched

\* Every step of the watch keeps what it knows.
LEMMA WatchStep == LoopWatched /\ [SaturationNext]_satVars => LoopWatched'
  <1> SUFFICES ASSUME LoopWatched, [SaturationNext]_satVars PROVE LoopWatched'
    OBVIOUS
  <1>1. CASE UNCHANGED satVars
    BY <1>1 DEF satVars, LoopWatched, SampledInOrder, BreachIsSampled, RunIsCounted, AlertsAreBefore,
                AlertIsSustained, SaturationIsTold, OverFrom
  <1> QED
    BY <1>1, QuietKeepsWatch, WrittenKeepsWatch, SampleKeepsWatch DEF SaturationNext

\* An alert is sustained and said once, and a loop over its budget is told of,
\* for any budget and however long it runs (jobs/saturation.ts:83-131).
THEOREM SaturationIsSaidTrue == SaturationSpec => [](AlertIsSustained /\ SaturationIsTold)
  <1>1. LoopWatched => AlertIsSustained /\ SaturationIsTold
    BY DEF LoopWatched
  <1> QED
    BY <1>1, WatchInit, WatchStep, PTL DEF SaturationSpec

----------------------------------------------------------------------------
\* What a tab draws is a login's and of logins.
ScreensAre ==
    /\ screen \in [Tab -> [name : Login \cup {NoLogin}, cards : SUBSET Login]]
    /\ seatChanges \in 0..MaxSeatChanges

LEMMA ScreensStart == SessionInit => ScreensAre
  BY SessionAssumption DEF SessionInit, ScreensAre

\* A tab sent to sign in, and one that draws what a request read.
LEMMA ATabDraws ==
    ASSUME ScreensAre, NEW t \in Tab, NEW name \in Login \cup {NoLogin}, NEW cards \in SUBSET Login,
           screen' = [screen EXCEPT ![t] = [name |-> name, cards |-> cards]] \/ screen' = screen,
           seatChanges' = seatChanges
    PROVE  ScreensAre'
  BY DEF ScreensAre

LEMMA ScreensStay == SiloKept /\ ScreensAre /\ [SessionNext]_sessionVars => ScreensAre'
  <1> SUFFICES ASSUME SiloKept, ScreensAre, [SessionNext]_sessionVars PROVE ScreensAre'
    OBVIOUS
  <1>1. \A r \in DOMAIN requests : requests[r] \in Request
    BY ElementOfSeq, LenProperties DEF SiloKept, SessionTypes
  <1>2. \A r \in DOMAIN requests : /\ requests[r].tab \in Tab
                                   /\ requests[r].user \in Login \cup {NoLogin}
                                   /\ requests[r].rows \in SUBSET Login
    BY <1>1 DEF Request
  <1>3. ASSUME UNCHANGED <<screen, seatChanges>> PROVE ScreensAre'
    BY <1>3 DEF ScreensAre
  <1>4. ASSUME NEW t \in Tab, SignOut(t) PROVE ScreensAre'
    <2>1. screen' = [screen EXCEPT ![t] = [name |-> NoLogin, cards |-> {}]] /\ seatChanges' = seatChanges
      BY <1>4 DEF SignOut
    <2>2. NoLogin \in Login \cup {NoLogin} /\ {} \in SUBSET Login
      OBVIOUS
    <2> QED
      BY <2>1, <2>2, ATabDraws
  <1>5. ASSUME NEW u \in Login, NEW to, SeatChanged(u, to) PROVE ScreensAre'
    BY <1>5, SessionAssumption DEF SeatChanged, ScreensAre
  <1>6. ASSUME NEW r \in DOMAIN requests, getSession(r) \/ resolveIdentity(r) PROVE ScreensAre'
    <2>1. /\ \/ screen' = [screen EXCEPT ![requests[r].tab] = [name |-> NoLogin, cards |-> {}]]
             \/ screen' = screen
          /\ seatChanges' = seatChanges
      BY <1>6 DEF getSession, resolveIdentity, Refused, authVars
    <2> QED
      BY <1>2, <2>1, ATabDraws
  <1>7. ASSUME NEW r \in DOMAIN requests, Commits(r) PROVE ScreensAre'
    <2> DEFINE old == screen[requests[r].tab].name
    <2>1. PICK name : name = IF requests[r].kind = "page" THEN requests[r].user ELSE old
      OBVIOUS
    <2>2. name \in Login \cup {NoLogin}
      BY <1>2, <2>1 DEF ScreensAre
    <2>3. /\ screen' = [screen EXCEPT ![requests[r].tab] = [name |-> name, cards |-> requests[r].rows]]
          /\ seatChanges' = seatChanges
      BY <1>2, <1>7, <2>1 DEF Commits, authVars
    <2> QED
      BY <1>2, <2>2, <2>3, ATabDraws
  <1>8. ASSUME NEW r \in DOMAIN requests,
               RowsRead(r) \/ Aborts(r) \/ \E c \in Connection : begin_request(r, c)
        PROVE  ScreensAre'
    BY <1>3, <1>8 DEF RowsRead, Aborts, begin_request, authVars
  <1>9. ASSUME \/ \E u \in Login : SignIn(u)
               \/ \E t \in Tab : Asks(t, "page") \/ Asks(t, "poll")
               \/ \E s \in DOMAIN session : Expires(s)
               \/ UNCHANGED sessionVars
        PROVE  ScreensAre'
    BY <1>3, <1>9 DEF SignIn, Asks, Expires, sessionVars, authVars
  <1> QED
    BY <1>4, <1>5, <1>6, <1>7, <1>8, <1>9 DEF SessionNext

\* A request is of a session there was, and a tab draws the rows of logins.
THEOREM SessionTypeCorrect == SessionSpec => []SessionTypeOK
  <1>1. SiloKept /\ ScreensAre => SessionTypeOK
    <2> SUFFICES ASSUME SiloKept, ScreensAre PROVE SessionTypeOK
      OBVIOUS
    <2>1. requests \in Seq(Request) /\ \A r \in DOMAIN requests : requests[r].session \in 0..Len(session)
      BY DEF SiloKept, SessionTypes, Speaks, CameWith
    <2> DEFINE R == [tab : Tab, kind : {"page", "poll"}, session : 0..Len(session),
                     at : {"session", "seat", "begin", "reading", "read", "answered",
                           "refused", "failed"},
                     user : Login \cup {NoLogin}, connection : Connection \cup {NoLogin},
                     rows : SUBSET Login, overseen : SUBSET Login, barred : BOOLEAN]
    <2>2. \A r \in Request : r.session \in 0..Len(session) => r \in R
      BY DEF Request
    <2> HIDE DEF R
    <2>3. \A i \in DOMAIN requests : requests[i] \in R
      BY <2>1, <2>2, ElementOfSeq, LenProperties
    <2>4. requests \in Seq(R)
      BY <2>1, <2>3
    <2> QED
      BY <2>4 DEF SiloKept, SessionTypes, ScreensAre, SessionTypeOK, Seat, Signed, Context, R
  <1> QED
    BY <1>1, SiloInit, SiloStep, ScreensStart, ScreensStay, PTL DEF SessionSpec

----------------------------------------------------------------------------
\* What a process that comes up holds.
BootTyped ==
    /\ environment \in Environments /\ wrong \subseteq Wrong
    /\ laneOf \in [Queues -> Lanes \cup {Unclassified}]
    /\ process \in {"down", "up", "exited"} /\ checking \subseteq Asserted(environment)
    /\ booted \in BOOLEAN /\ handled \in 0..Len(QueueOrder) /\ runners \subseteq Lanes
    /\ startups \subseteq [n : 0..MaxPasses, at : {"lanes", "queues"}]
    /\ passes \in 0..MaxPasses /\ drifts \in 0..MaxDrifts

LEMMA BootStartsTyped == BootInit => BootTyped
  <1> SUFFICES ASSUME BootInit PROVE BootTyped
    OBVIOUS
  <1>1. laneOf \in [Queues -> Lanes \cup {Unclassified}]
    BY BootAssumption DEF BootInit
  <1>2. wrong \subseteq Wrong
    BY BootAssumption DEF BootInit
  <1>3. 0 \in 0..MaxPasses /\ 0 \in 0..MaxDrifts /\ 0 \in 0..Len(QueueOrder)
    BY BootAssumption DEF QueueOrder
  <1> QED
    BY <1>1, <1>2, <1>3 DEF BootInit, BootTyped

LEMMA ExitIsTyped ==
    ASSUME BootTyped, Exit, UNCHANGED <<databaseVars, passes>>, drifts' \in 0..MaxDrifts
    PROVE  BootTyped'
  <1>1. 0 \in 0..Len(QueueOrder)
    BY DEF QueueOrder
  <1> QED
    BY <1>1 DEF Exit, databaseVars, BootTyped

LEMMA BootStaysTyped == BootTyped /\ [BootNext]_bootVars => BootTyped'
  <1> SUFFICES ASSUME BootTyped, [BootNext]_bootVars PROVE BootTyped'
    OBVIOUS
  <1>1. /\ environment \in Environments /\ wrong \subseteq Wrong
        /\ laneOf \in [Queues -> Lanes \cup {Unclassified}]
        /\ process \in {"down", "up", "exited"} /\ checking \subseteq Asserted(environment)
        /\ booted \in BOOLEAN /\ handled \in 0..Len(QueueOrder) /\ runners \subseteq Lanes
        /\ startups \subseteq [n : 0..MaxPasses, at : {"lanes", "queues"}]
        /\ passes \in 0..MaxPasses /\ drifts \in 0..MaxDrifts
        /\ MaxPasses \in Nat /\ MaxDrifts \in Nat /\ Len(QueueOrder) \in Nat
    BY BootAssumption DEF BootTyped, QueueOrder
  <1>2. drifts < MaxDrifts /\ drifts' = drifts + 1 => drifts' \in 0..MaxDrifts
    BY <1>1
  <1>3. passes < MaxPasses /\ passes' = passes + 1 => passes' \in 0..MaxPasses
    BY <1>1
  <1>4. ASSUME ComesUp \/ Reevaluated PROVE BootTyped'
    <2>1. startups' \subseteq [n : 0..MaxPasses, at : {"lanes", "queues"}] /\ booted' = TRUE
      BY <1>1, <1>4 DEF ComesUp, Reevaluated, bootFoldedWorker
    <2>2. /\ UNCHANGED <<databaseVars, runners, handled, drifts>> /\ process' = "up"
          /\ checking' \subseteq Asserted(environment) /\ passes' \in 0..MaxPasses
      BY <1>1, <1>3, <1>4 DEF ComesUp, Reevaluated
    <2> QED
      BY <1>1, <2>1, <2>2 DEF databaseVars, BootTyped
  <1>5. ASSUME NEW a \in checking, Settles(a) \/ ReadFails(a) PROVE BootTyped'
    <2>1. CASE Exit
      BY <1>1, <1>2, <1>5, <2>1, ExitIsTyped DEF Settles, ReadFails
    <2>2. CASE /\ checking' = checking \ {a}
               /\ UNCHANGED <<process, workerVars, databaseVars, passes, drifts>>
      BY <1>1, <2>2 DEF databaseVars, workerVars, BootTyped
    <2> QED
      BY <1>5, <2>1, <2>2 DEF Settles, ReadFails
  <1>6. ASSUME NEW s \in startups,
               LanesOpened(s) \/ QueueHandled(s) \/ RelayStarted(s) \/ StartupFails(s)
        PROVE  BootTyped'
    <2>1. CASE Exit
      BY <1>1, <1>2, <1>6, <2>1, ExitIsTyped DEF LanesOpened, QueueHandled, RelayStarted, StartupFails
    <2>2. CASE LanesOpened(s) /\ ~Exit
      <3>1. laneMap \subseteq Lanes
        BY <1>1 DEF laneMap
      <3>2. startups' \subseteq [n : 0..MaxPasses, at : {"lanes", "queues"}]
        BY <1>1, <2>2 DEF LanesOpened, GoesOn
      <3> QED
        BY <1>1, <2>2, <3>1, <3>2 DEF LanesOpened, databaseVars, BootTyped
    <2>3. CASE QueueHandled(s) /\ ~Exit
      <3>1. handled' \in 0..Len(QueueOrder)
        BY <1>1, <2>3 DEF QueueHandled
      <3> QED
        BY <1>1, <2>3, <3>1 DEF QueueHandled, databaseVars, BootTyped
    <2>4. CASE RelayStarted(s)
      <3>1. startups' \subseteq [n : 0..MaxPasses, at : {"lanes", "queues"}]
        BY <1>1, <2>4 DEF RelayStarted
      <3> QED
        BY <1>1, <2>4, <3>1 DEF RelayStarted, databaseVars, BootTyped
    <2> QED
      BY <1>6, <2>1, <2>2, <2>3, <2>4 DEF StartupFails
  <1>7. CASE PassStarts \/ PassEnds
    BY <1>1, <1>3, <1>7 DEF PassStarts, PassEnds, databaseVars, BootTyped
  <1>8. CASE Mended
    BY <1>1, <1>2, <1>8 DEF Mended, workerVars, BootTyped
  <1>9. CASE Restarted
    BY <1>1, <1>2, <1>9 DEF Restarted, databaseVars, workerVars, BootTyped
  <1>10. CASE UNCHANGED bootVars
    BY <1>1, <1>10 DEF bootVars, databaseVars, workerVars, BootTyped
  <1> QED
    BY <1>4, <1>5, <1>6, <1>7, <1>8, <1>9, <1>10 DEF BootNext

\* A process handles no queue and opens no lane but those there are, and has no
\* check out that its environment does not ask for.
THEOREM BootTypeCorrect == BootSpec => []BootTypeOK
  <1>1. ChecksAreOut /\ RelayKept /\ BootTyped => BootTypeOK
    <2> SUFFICES ASSUME ChecksAreOut, RelayKept, BootTyped PROVE BootTypeOK
      OBVIOUS
    <2>1. drains \in [waiting : 0..2, passing : 0..2]
      BY DEF RelayKept, Chains
    <2>2. wrongSince \subseteq Wrong
      BY DEF ChecksAreOut
    <2> QED
      BY <2>1, <2>2 DEF BootTyped, BootTypeOK
  <1> QED
    BY <1>1, ChecksInit, ChecksStep, RelayInit, RelayStep, BootStartsTyped, BootStaysTyped, PTL
    DEF BootSpec

----------------------------------------------------------------------------
\* What a dial reads and keeps.
DialCounts ==
    /\ registry \in {"unread", "verified", "unknown", "failed"}
    /\ capability \in {"verified", "unknown"}
    /\ elsewhere \subseteq Prospect /\ hours \in [Prospect -> Hours]
    /\ override \in BOOLEAN /\ guard \in BOOLEAN /\ mapping \in BOOLEAN
    /\ Len(presses) <= MaxPresses /\ blocked \subseteq DOMAIN presses
    /\ pressed \in 0..MaxPresses /\ happened \in 0..MaxEvents

LEMMA DialCounted == DialInit => DialCounts
  <1> SUFFICES ASSUME DialInit PROVE DialCounts
    OBVIOUS
  <1> USE DEF DialInit
  <1>1. Len(presses) = 0
    OBVIOUS
  <1>2. hours \in [Prospect -> Hours]
    BY DEF Hours
  <1>3. 0 \in 0..MaxPresses /\ 0 \in 0..MaxEvents /\ 0 <= MaxPresses
    BY DialAssumption
  <1> QED
    BY <1>1, <1>2, <1>3 DEF DialCounts

LEMMA SameInterval == ASSUME NEW m \in Nat, NEW n \in Nat, 1..m = 1..n PROVE m = n
  <1>1. (m > 0 => m \in 1..n) /\ (n > 0 => n \in 1..m)
    OBVIOUS
  <1> QED
    BY <1>1

\* The presses are counted as long as none is taken back.
LEMMA PressesStay ==
    ASSUME GateKept, DialCounts, GateKept', Len(presses') = Len(presses)
    PROVE  Len(presses') <= MaxPresses /\ DOMAIN presses' = DOMAIN presses
  <1>1. DOMAIN presses = 1..Len(presses) /\ DOMAIN presses' = 1..Len(presses')
    BY LenProperties DEF GateKept, DialTypes
  <1> QED
    BY <1>1 DEF DialCounts

\* Opening and closing the drawer, and pressing Call in it.
LEMMA DrawerCounts ==
    ASSUME GateKept, DialCounts, GateKept',
           (\E c \in Prospect : OpenDrawer(c)) \/ CloseDrawer \/ Dials
    PROVE  DialCounts'
  <1>1. MaxPresses \in Nat /\ 0 \in 0..MaxPresses
    BY DialAssumption
  <1>2. CASE (\E c \in Prospect : OpenDrawer(c)) \/ CloseDrawer
    BY <1>1, <1>2 DEF OpenDrawer, CloseDrawer, lawVars, DialCounts
  <1>3. CASE Dials
    <2> DEFINE new == [lead |-> drawer, at |-> "capability", outcome |-> "none",
                       owned |-> FALSE,
                       barred |-> drawer \notin NoPhone /\ Suppressed(drawer),
                       seen |-> drawer \notin elsewhere]
    <2>1. presses' = Append(presses, new) /\ Len(presses) < MaxPresses /\ pressed' = Len(presses')
      BY <1>3 DEF Dials
    <2>2. presses \in Seq(Press) /\ Len(presses) \in Nat
      BY LenProperties DEF GateKept, DialTypes
    <2> HIDE DEF new
    <2>3. Len(presses') = Len(presses) + 1 /\ DOMAIN presses \subseteq DOMAIN presses'
      BY <2>1, <2>2
    <2>4. Len(presses') <= MaxPresses /\ pressed' \in 0..MaxPresses
      BY <1>1, <2>1, <2>2, <2>3
    <2> QED
      BY <1>3, <2>3, <2>4 DEF Dials, lawVars, DialCounts
  <1> QED
    BY <1>2, <1>3

\* One press goes on, or is answered.
LEMMA PressCounts ==
    ASSUME GateKept, DialCounts, GateKept', NEW p \in DOMAIN presses,
           \/ CapabilityChecked(p) \/ RegistryFails(p) \/ TargetResolved(p)
           \/ OwnerRead(p) \/ GateAsked(p) \/ MappingRead(p) \/ DialFails(p)
    PROVE  DialCounts'
  <1>1. \E new : presses' = [presses EXCEPT ![p] = new]
    BY DEF GoOn, AnswerPress, CapabilityChecked, RegistryFails, TargetResolved, OwnerRead, GateAsked,
           MappingRead, DialFails
  <1>2. Len(presses') = Len(presses)
    <2>1. PICK new : presses' = [presses EXCEPT ![p] = new]
      BY <1>1
    <2>2. presses \in Seq(Press)
      BY DEF GateKept, DialTypes
    <2> QED
      BY <2>1, <2>2
  <1>3. Len(presses') <= MaxPresses /\ DOMAIN presses' = DOMAIN presses
    BY <1>2, PressesStay
  <1>4. UNCHANGED <<capability, elsewhere, hours, override, guard, mapping, pressed>>
    BY DEF CapabilityChecked, RegistryFails, TargetResolved, OwnerRead, GateAsked,
           MappingRead, DialFails, lawVars
  <1>5. registry' \in {"unread", "verified", "unknown", "failed"}
    BY DEF CapabilityChecked, RegistryFails, TargetResolved, OwnerRead, GateAsked,
           MappingRead, DialFails,
           DialCounts
  <1>6. blocked' \subseteq DOMAIN presses
    BY DEF CapabilityChecked, RegistryFails, TargetResolved, OwnerRead, GateAsked,
           MappingRead, DialFails,
           DialCounts
  <1>7. happened' \in 0..MaxEvents
    BY DialAssumption
    DEF CapabilityChecked, RegistryFails, TargetResolved, OwnerRead, GateAsked,
           MappingRead, DialFails,
        Happens, DialCounts
  <1> QED
    BY <1>3, <1>4, <1>5, <1>6, <1>7 DEF DialCounts

\* What a check reads changes, or the process does.
LEMMA LawCounts ==
    ASSUME GateKept, DialCounts, GateKept',
           \/ \E c \in Prospect, kind \in {"stop", "start", "dnc"}, channel \in Channel, older \in 0..1 :
                 suppression_append(c, kind, channel, older)
           \/ \E c \in Prospect : SightChanges(c)
           \/ LawChanges \/ Deployed
    PROVE  DialCounts'
  <1>1. happened' \in 0..MaxEvents /\ UNCHANGED <<blocked, pressed>>
    <2>1. Happens /\ UNCHANGED <<blocked, pressed>>
      BY DEF suppression_append, SightChanges, Noted, LawChanges, Deployed
    <2> QED
      BY <2>1, DialAssumption DEF Happens, DialCounts
  <1>2. Len(presses') = Len(presses)
    <2>1. presses' = presses \/ DOMAIN presses' = DOMAIN presses
      BY DEF suppression_append, SightChanges, Noted, LawChanges, Deployed
    <2>2. DOMAIN presses = 1..Len(presses) /\ DOMAIN presses' = 1..Len(presses')
          /\ Len(presses) \in Nat /\ Len(presses') \in Nat
      BY LenProperties DEF GateKept, DialTypes
    <2> QED
      BY <2>1, <2>2, SameInterval
  <1>3. Len(presses') <= MaxPresses /\ DOMAIN presses' = DOMAIN presses
    BY <1>2, PressesStay
  <1>4. /\ registry' \in {"unread", "verified", "unknown", "failed"}
        /\ capability' \in {"verified", "unknown"}
    BY DEF suppression_append, SightChanges, Noted, LawChanges, Deployed, DialCounts
  <1>5. elsewhere' \subseteq Prospect /\ hours' \in [Prospect -> Hours]
    BY DEF suppression_append, SightChanges, Noted, LawChanges, Deployed, lawVars, DialCounts
  <1>6. override' \in BOOLEAN /\ guard' \in BOOLEAN /\ mapping' \in BOOLEAN
    <2>1. /\ override' = override \/ override' = ~override
          /\ guard' = guard \/ guard' = ~guard
          /\ mapping' = mapping \/ mapping' = ~mapping
      BY DEF suppression_append, SightChanges, Noted, LawChanges, Deployed, lawVars
    <2> QED
      BY <2>1 DEF DialCounts
  <1> QED
    BY <1>1, <1>3, <1>4, <1>5, <1>6 DEF DialCounts

LEMMA DialCountsOn == GateKept /\ GateKept' /\ DialCounts /\ [DialNext]_dialVars => DialCounts'
  <1> SUFFICES ASSUME GateKept, GateKept', DialCounts, [DialNext]_dialVars PROVE DialCounts'
    OBVIOUS
  <1>1. CASE UNCHANGED dialVars
    BY <1>1 DEF dialVars, lawVars, DialCounts
  <1> QED
    BY <1>1, DrawerCounts, PressCounts, LawCounts DEF DialNext

\* Every row of the record is of a press there was, and says a verdict.
THEOREM DialTypeCorrect == DialSpec => []DialTypeOK
  <1>1. GateKept /\ DialCounts => DialTypeOK
    <2> SUFFICES ASSUME GateKept, DialCounts PROVE DialTypeOK
      OBVIOUS
    <2>1. audit \subseteq [press : DOMAIN presses, verdict : Refusals \cup {"allow"}]
      BY DEF GateKept, DialTypes, Record
    <2> QED
      BY <2>1 DEF GateKept, DialTypes, DialCounts, DialTypeOK, Row, Press
  <1>2. GateKept /\ DialCounts /\ [DialNext]_dialVars => GateKept' /\ DialCounts'
    BY GateStep, DialCountsOn
  <1> QED
    BY <1>1, <1>2, GateInit, DialCounted, PTL DEF DialSpec

----------------------------------------------------------------------------
\* What the loop's watch holds.
WatchTyped ==
    /\ second \in Instants /\ due \in 0..(LastSecond + 1) \cup {NoTime}
    /\ breachedSince \in Instants \cup {NoTime} /\ raising \in Instants \cup {NoTime}
    /\ raising # NoTime => raising \in attempts
    /\ alerts \subseteq attempts /\ attempts \subseteq Instants
    /\ samples \in Seq([at : Instants, over : BOOLEAN])
    /\ refusals \in 0..MaxRefusals

LEMMA WatchStartsTyped == SaturationInit => WatchTyped
  <1> SUFFICES ASSUME SaturationInit PROVE WatchTyped
    OBVIOUS
  <1>1. /\ second = 0 /\ due = 1 /\ breachedSince = NoTime /\ raising = NoTime
        /\ alerts = {} /\ samples = <<>> /\ attempts = {} /\ refusals = 0
    BY DEF SaturationInit
  <1>2. 0 \in Instants /\ 1 \in 0..(LastSecond + 1) /\ 0 \in 0..MaxRefusals
    BY SaturationAssumption DEF Instants
  <1>3. samples \in Seq([at : Instants, over : BOOLEAN])
    BY <1>1
  <1> QED
    BY <1>1, <1>2, <1>3 DEF WatchTyped

LEMMA WatchStaysTyped == WatchTyped /\ [SaturationNext]_satVars => WatchTyped'
  <1> SUFFICES ASSUME WatchTyped, [SaturationNext]_satVars PROVE WatchTyped'
    OBVIOUS
  <1>1. /\ second \in Instants /\ due \in 0..(LastSecond + 1) \cup {NoTime}
        /\ breachedSince \in Instants \cup {NoTime} /\ raising \in Instants \cup {NoTime}
        /\ raising # NoTime => raising \in attempts
        /\ alerts \subseteq attempts /\ attempts \subseteq Instants
        /\ samples \in Seq([at : Instants, over : BOOLEAN])
        /\ refusals \in 0..MaxRefusals
    BY DEF WatchTyped
  <1>2. second + 1 \in 0..(LastSecond + 1) /\ (second < LastSecond => second + 1 \in Instants)
    BY <1>1, SaturationAssumption DEF Instants
  <1>3. CASE SecondPasses
    BY <1>1, <1>2, <1>3 DEF SecondPasses, WatchTyped
  <1>4. ASSUME NEW over \in BOOLEAN, sampleOnce(over) PROVE WatchTyped'
    <2>1. PICK taken : taken = [at |-> second, over |-> over]
      OBVIOUS
    <2>2. taken \in [at : Instants, over : BOOLEAN]
      BY <1>1, <2>1
    <2>3. samples' \in Seq([at : Instants, over : BOOLEAN])
      BY <1>1, <1>4, <2>1, <2>2, AppendProperties DEF sampleOnce
    <2>4. breachedSince' \in Instants \cup {NoTime}
      BY <1>1, <1>4 DEF sampleOnce
    <2>5. \/ raising' = second /\ attempts' = attempts \cup {second} /\ due' = NoTime
          \/ due' = second + 1 /\ raising' = raising /\ attempts' = attempts
      BY <1>4 DEF sampleOnce
    <2>6. UNCHANGED <<second, alerts, refusals>>
      BY <1>4 DEF sampleOnce
    <2> QED
      BY <1>1, <1>2, <2>3, <2>4, <2>5, <2>6 DEF WatchTyped
  <1>5. CASE AlertWritten
    BY <1>1, <1>2, <1>5 DEF AlertWritten, WatchTyped
  <1>6. CASE AlertRefused
    <2>1. refusals' \in 0..MaxRefusals
      BY <1>1, <1>6, SaturationAssumption DEF AlertRefused
    <2> QED
      BY <1>1, <1>2, <1>6, <2>1 DEF AlertRefused, WatchTyped
  <1>7. CASE UNCHANGED satVars
    BY <1>1, <1>7 DEF satVars, WatchTyped
  <1> QED
    BY <1>3, <1>4, <1>5, <1>6, <1>7 DEF SaturationNext

\* What is written as an alert was tried to be, at an instant of the clock.
THEOREM SaturationTypeCorrect == SaturationSpec => []SaturationTypeOK
  <1>1. WatchTyped => SaturationTypeOK
    BY DEF WatchTyped, SaturationTypeOK
  <1> QED
    BY <1>1, WatchStartsTyped, WatchStaysTyped, PTL DEF SaturationSpec
=============================================================================
