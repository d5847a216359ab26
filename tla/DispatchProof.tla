---------------------------- MODULE DispatchProof ----------------------------
(***************************************************************************)
(* Proofs about Dispatch, for every number of jobs, dispatchers, faults and  *)
(* lapsed leases: its types, that an episode has one live row however it is  *)
(* rescheduled, and that the gate is asked about due jobs only, at most once *)
(* for each claim.                                                           *)
(***************************************************************************)
EXTENDS Dispatch, FiniteSetTheorems, TLAPS

USE DEF Status, Terminal

(* Types *)

\* The types hold before anything is scheduled.
LEMMA DispatchTypeInit == Init => DispatchTypeOK
BY DispatchConstants DEF Init, DispatchTypeOK

\* What a claim picks is due.
LEMMA PickedIsDue == ASSUME NEW P \in BatchChoices PROVE P \subseteq Due
BY DEF BatchChoices

\* A tick that ends leaves its variables empty.
LEMMA IdleTypes ==
    ASSUME DispatchTypeOK, NEW d \in Dispatcher, Idle(d)
    PROVE  /\ pc' \in [Dispatcher -> {"idle", "claim", "lock", "work", "resolve"}]
           /\ tickAt' \in [Dispatcher -> 0..MaxTime] /\ rounds' \in [Dispatcher -> 0..MaxRounds]
           /\ picked' \in [Dispatcher -> SUBSET Job] /\ batch' \in [Dispatcher -> SUBSET Job]
           /\ current' \in [Dispatcher -> Job \cup {Nobody}]
           /\ served' \in [Dispatcher -> SUBSET Tenant]
BY DispatchConstants DEF Idle, DispatchTypeOK

\* So does one that goes on to its next job or round.
LEMMA OnwardTypes ==
    ASSUME DispatchTypeOK, NEW d \in Dispatcher, NEW left \in SUBSET Job, Onward(d, left)
    PROVE  /\ pc' \in [Dispatcher -> {"idle", "claim", "lock", "work", "resolve"}]
           /\ tickAt' \in [Dispatcher -> 0..MaxTime] /\ rounds' \in [Dispatcher -> 0..MaxRounds]
           /\ picked' \in [Dispatcher -> SUBSET Job] /\ batch' \in [Dispatcher -> SUBSET Job]
           /\ current' \in [Dispatcher -> Job \cup {Nobody}]
           /\ served' \in [Dispatcher -> SUBSET Tenant]
<1>1. CASE left = {} /\ rounds[d] = 0
    BY <1>1, IdleTypes DEF Onward
<1>2. CASE ~(left = {} /\ rounds[d] = 0)
    BY <1>2 DEF Onward, DispatchTypeOK
<1> QED
    BY <1>1, <1>2

\* A resolution writes a status the column has.
LEMMA ResolveTypes ==
    ASSUME DispatchTypeOK, NEW j, NEW terminal \in Terminal, Resolve(j, terminal)
    PROVE  status' \in [Job -> Status]
BY DEF DispatchTypeOK, Resolve

\* A claim is made with a round to spend.
RoundsLeft == \A d \in Dispatcher : pc[d] = "claim" => rounds[d] # 0

\* What a call finds live are rows.
LEMMA LiveAreJobs == ASSUME NEW e PROVE Live(e) \subseteq Job
BY DEF Live

\* Every step keeps the types; a claim only where a round is left to spend.
LEMMA DispatchTypeStep ==
    DispatchTypeOK /\ RoundsLeft /\ [Next]_vars => DispatchTypeOK'
<1> SUFFICES ASSUME DispatchTypeOK, RoundsLeft, [Next]_vars PROVE DispatchTypeOK'
    OBVIOUS
<1> USE DispatchConstants DEF calls
<1>1. ASSUME NEW j \in Job, FindLive(j) \/ GoesOn(j) \/ CallFails(j) PROVE DispatchTypeOK'
    <2>1. call' \in [Job -> {"none", "update", "insert"}] /\ found' \in [Job -> SUBSET Job]
        <3>1. CASE FindLive(j)
            BY <3>1, LiveAreJobs DEF FindLive, DispatchTypeOK
        <3>2. CASE CancelLive(j)
            BY <3>2 DEF CancelLive, DispatchTypeOK
        <3>3. CASE CallEnds(j)
            BY <3>3 DEF CallEnds, DispatchTypeOK
        <3> QED
            BY <1>1, <3>1, <3>2, <3>3 DEF GoesOn, InsertJob, CallFails
    <2>2. status' \in [Job -> Status] /\ fireAt' \in [Job -> 0..MaxTime]
        BY <1>1 DEF FindLive, GoesOn, CancelLive, InsertJob, Inserts, CallFails, DispatchTypeOK, rows
    <2>3. faults' \in 0..MaxFaults
        BY <1>1 DEF FindLive, GoesOn, CancelLive, InsertJob, CallFails, DispatchTypeOK
    <2>4. UNCHANGED <<now, leased, claims, consulted, tick, overruns>>
        BY <1>1 DEF FindLive, GoesOn, CancelLive, InsertJob, CallFails, rows
    <2> QED
        BY <2>1, <2>2, <2>3, <2>4 DEF DispatchTypeOK, tick
<1>2. ASSUME NEW d \in Dispatcher, StartTick(d) PROVE DispatchTypeOK'
    BY <1>2 DEF StartTick, DispatchTypeOK, rows
<1>3. ASSUME NEW d \in Dispatcher, Pick(d) PROVE DispatchTypeOK'
    <2>1. CASE Due = {}
        BY <1>3, <2>1, IdleTypes DEF Pick, DispatchTypeOK, rows
    <2>2. CASE Due # {}
        <3>1. picked' \in [Dispatcher -> SUBSET Job]
            <4>1. PICK P \in BatchChoices : picked' = [picked EXCEPT ![d] = P]
                BY <1>3, <2>2 DEF Pick
            <4>2. P \subseteq Job
                BY <4>1, PickedIsDue DEF Due
            <4> QED
                BY <4>1, <4>2 DEF DispatchTypeOK
        <3>2. rounds' \in [Dispatcher -> 0..MaxRounds]
            <4>1. rounds' = [rounds EXCEPT ![d] = @ - 1] /\ rounds[d] # 0
                BY <1>3, <2>2 DEF Pick, RoundsLeft
            <4>2. rounds[d] - 1 \in 0..MaxRounds
                BY <4>1 DEF DispatchTypeOK
            <4> QED
                BY <4>1, <4>2 DEF DispatchTypeOK
        <3> QED
            BY <1>3, <2>2, <3>1, <3>2 DEF Pick, DispatchTypeOK, rows
    <2> QED
        BY <2>1, <2>2
<1>4. ASSUME NEW d \in Dispatcher, LockClaim(d) PROVE DispatchTypeOK'
    <2>1. PICK taken \in SUBSET picked[d] :
            IF taken = {} THEN Idle(d) /\ UNCHANGED rows
            ELSE /\ leased' = [j \in Job |-> j \in taken \/ leased[j]]
                 /\ claims' = [j \in Job |-> IF j \in taken THEN claims[j] + 1 ELSE claims[j]]
                 /\ batch' = [batch EXCEPT ![d] = taken]
                 /\ served' = [served EXCEPT ![d] = @ \cup Tenants(taken)]
                 /\ picked' = [picked EXCEPT ![d] = {}]
                 /\ pc' = [pc EXCEPT ![d] = "work"]
                 /\ UNCHANGED <<status, fireAt, consulted, tickAt, rounds, current>>
        BY <1>4 DEF LockClaim
    <2>2. taken \subseteq Job /\ UNCHANGED <<now, calls, faults, overruns>>
        BY <1>4, <2>1 DEF LockClaim, DispatchTypeOK
    <2>3. CASE taken = {}
        BY <2>1, <2>2, <2>3, IdleTypes DEF DispatchTypeOK, rows
    <2>4. CASE taken # {}
        <3>1. leased' \in [Job -> BOOLEAN]
            <4>1. leased' = [j \in Job |-> j \in taken \/ leased[j]]
                BY <2>1, <2>4
            <4> QED
                BY <4>1, Zenon
        <3>2. served' \in [Dispatcher -> SUBSET Tenant]
            <4>1. Tenants(taken) \subseteq Tenant
                BY <2>2 DEF Tenants
            <4> QED
                BY <2>1, <2>4, <4>1 DEF DispatchTypeOK
        <3>3. claims' \in [Job -> Nat]
            BY <2>1, <2>4 DEF DispatchTypeOK
        <3>4. batch' \in [Dispatcher -> SUBSET Job] /\ picked' \in [Dispatcher -> SUBSET Job]
            <4>1. batch' = [batch EXCEPT ![d] = taken] /\ picked' = [picked EXCEPT ![d] = {}]
                BY <2>1, <2>4
            <4>2. batch \in [Dispatcher -> SUBSET Job] /\ picked \in [Dispatcher -> SUBSET Job]
                BY DEF DispatchTypeOK
            <4> QED
                BY <2>2, <4>1, <4>2
        <3> QED
            BY <2>1, <2>2, <2>4, <3>1, <3>2, <3>3, <3>4 DEF DispatchTypeOK
    <2> QED
        BY <2>3, <2>4
<1>5. ASSUME NEW d \in Dispatcher, NEW j \in batch[d], DropLate(d, j) \/ SkipOther(d, j)
      PROVE  DispatchTypeOK'
    <2>1. batch[d] \ {j} \in SUBSET Job /\ Onward(d, batch[d] \ {j})
        BY <1>5 DEF DropLate, SkipOther, DispatchTypeOK
    <2>2. status' \in [Job -> Status]
        BY <1>5, ResolveTypes DEF DropLate, SkipOther
    <2> QED
        BY <1>5, <2>1, <2>2, OnwardTypes DEF DropLate, SkipOther, DispatchTypeOK
<1>6. ASSUME NEW d \in Dispatcher, NEW j \in batch[d], Consult(d, j) PROVE DispatchTypeOK'
    <2>1. j \in Job
        BY <1>6 DEF DispatchTypeOK
    <2>2. consulted' \in [Job -> Nat] /\ batch' \in [Dispatcher -> SUBSET Job]
          /\ current' \in [Dispatcher -> Job \cup {Nobody}]
          /\ pc' \in [Dispatcher -> {"idle", "claim", "lock", "work", "resolve"}]
        BY <1>6, <2>1 DEF Consult, DispatchTypeOK
    <2> QED
        BY <1>6, <2>2 DEF Consult, DispatchTypeOK
<1>7. ASSUME NEW d \in Dispatcher, ResolveConsulted(d) PROVE DispatchTypeOK'
    <2>1. batch[d] \in SUBSET Job /\ Onward(d, batch[d])
        BY <1>7 DEF ResolveConsulted, DispatchTypeOK
    <2>2. status' \in [Job -> Status]
        BY <1>7, ResolveTypes DEF ResolveConsulted
    <2> QED
        BY <1>7, <2>1, <2>2, OnwardTypes DEF ResolveConsulted, DispatchTypeOK
<1>8. ASSUME NEW d \in Dispatcher, HandleFails(d) PROVE DispatchTypeOK'
    <2>1. PICK left \in SUBSET Job : Onward(d, left)
        BY <1>8 DEF HandleFails, DispatchTypeOK
    <2> QED
        BY <1>8, <2>1, OnwardTypes DEF HandleFails, DispatchTypeOK, rows
<1>9. ASSUME NEW d \in Dispatcher, Crash(d) PROVE DispatchTypeOK'
    BY <1>9, IdleTypes DEF Crash, DispatchTypeOK, rows
<1>10. ASSUME NEW j \in Job, LeaseLapses(j) PROVE DispatchTypeOK'
    BY <1>10 DEF LeaseLapses, DispatchTypeOK, tick
<1>11. CASE Clock
    BY <1>11 DEF Clock, DispatchTypeOK, rows, tick
<1>12. CASE UNCHANGED vars
    BY <1>12 DEF vars, DispatchTypeOK, rows, tick
<1> QED
    BY <1>1, <1>2, <1>3, <1>4, <1>5, <1>6, <1>7, <1>8, <1>9, <1>10, <1>11, <1>12
       DEF Next, Dispatches, Handle

(* Where a tick is *)

\* A tick has a round to spend when it claims, holds no batch then, and a job
\* when it resolves.
TickSound ==
    \A d \in Dispatcher :
        /\ pc[d] = "claim" => rounds[d] # 0
        /\ pc[d] \in {"idle", "claim", "lock"} => batch[d] = {}
        /\ pc[d] = "resolve" => current[d] # Nobody

\* What a dispatcher has picked, claimed or consulted about exists and is due,
\* and so does whatever was asked or decided about.
DueWhenHeld ==
    /\ \A d \in Dispatcher : \A j \in Job :
          (j \in picked[d] \/ j \in batch[d] \/ j = current[d]) =>
              status[j] # "absent" /\ fireAt[j] <= now
    /\ \A j \in Job : (consulted[j] > 0 \/ status[j] \in Terminal) =>
          status[j] # "absent" /\ fireAt[j] <= now

\* Nobody has inserted the row of a call under way, and what the call found are rows of
\* its episode that exist.
CallsSound ==
    \A j \in Job :
        /\ call[j] # "none" => status[j] = "absent"
        /\ \A i \in found[j] : EpisodeOf[i] = EpisodeOf[j] /\ status[i] # "absent"

\* A row with canceled_at IS NULL.
IsLive(j) == status[j] \notin {"absent", "canceled"}

\* An episode has one live row as soon as it has any, and only one.
OneLive ==
    \A i \in Job : status[i] # "absent" =>
        \E k \in Job : /\ EpisodeOf[k] = EpisodeOf[i] /\ IsLive(k)
                       /\ \A h \in Job : EpisodeOf[h] = EpisodeOf[i] /\ IsLive(h) => h = k

\* A claim of a job is still to be asked about, or was asked about once.
Holders(j) == {d \in Dispatcher : j \in batch[d]}
AskedOrHeld == \A j \in Job : consulted[j] + Cardinality(Holders(j)) <= claims[j]

\* The inductive invariant.
DispatchInv ==
    DispatchTypeOK /\ CallsSound /\ TickSound /\ DueWhenHeld /\ OneLive /\ AskedOrHeld

\* The inductive invariant holds before anything is scheduled.
LEMMA DispatchInvInit == Init => DispatchInv
<1> SUFFICES ASSUME Init PROVE DispatchInv
    OBVIOUS
<1> USE DispatchConstants
<1>1. DispatchTypeOK
    BY DispatchTypeInit
<1>2. CallsSound /\ TickSound /\ OneLive
    BY DEF Init, CallsSound, TickSound, OneLive
<1>3. DueWhenHeld
    BY DEF Init, DueWhenHeld
<1>4. AskedOrHeld
    <2> SUFFICES ASSUME NEW j \in Job PROVE consulted[j] + Cardinality(Holders(j)) <= claims[j]
        BY DEF AskedOrHeld
    <2>1. Holders(j) = {}
        BY DEF Init, Holders
    <2> QED
        BY <2>1, FS_EmptySet DEF Init
<1> QED
    BY <1>1, <1>2, <1>3, <1>4 DEF DispatchInv

\* The steps a dispatcher ends a job or a tick with, whatever it was doing.
LEMMA OnwardIsSound ==
    ASSUME DispatchTypeOK, TickSound, NEW d \in Dispatcher, NEW left \in SUBSET batch[d],
           Idle(d) \/ Onward(d, left)
    PROVE  /\ TickSound'
           /\ \A e \in Dispatcher : batch'[e] \subseteq batch[e] /\ picked'[e] \subseteq picked[e]
           /\ \A e \in Dispatcher : current'[e] \in {current[e], Nobody}
<1>1. CASE Idle(d)
    BY <1>1 DEF Idle, DispatchTypeOK, TickSound
<1>2. CASE /\ ~(left = {} /\ rounds[d] = 0)
           /\ pc' = [pc EXCEPT ![d] = IF left = {} THEN "claim" ELSE "work"]
           /\ batch' = [batch EXCEPT ![d] = left]
           /\ current' = [current EXCEPT ![d] = Nobody]
           /\ UNCHANGED <<tickAt, rounds, picked, served>>
    BY <1>2 DEF DispatchTypeOK, TickSound
<1> QED
    BY <1>1, <1>2 DEF Onward

\* Every step keeps ticks sound.
LEMMA TickSoundStep ==
    DispatchTypeOK /\ TickSound /\ [Next]_vars => TickSound'
<1> SUFFICES ASSUME DispatchTypeOK, TickSound, [Next]_vars PROVE TickSound'
    OBVIOUS
<1> USE DispatchConstants
<1>1. CASE UNCHANGED tick
    BY <1>1 DEF tick, TickSound
<1>2. ASSUME NEW d \in Dispatcher, StartTick(d) PROVE TickSound'
    BY <1>2 DEF StartTick, DispatchTypeOK, TickSound
<1>3. ASSUME NEW d \in Dispatcher, Pick(d) PROVE TickSound'
    <2>1. CASE Idle(d)
        BY <2>1, OnwardIsSound
    <2>2. CASE /\ pc' = [pc EXCEPT ![d] = "lock"]
               /\ rounds' = [rounds EXCEPT ![d] = @ - 1]
               /\ UNCHANGED <<tickAt, batch, current, served>>
        BY <1>3, <2>2 DEF Pick, DispatchTypeOK, TickSound
    <2> QED
        BY <1>3, <2>1, <2>2 DEF Pick
<1>4. ASSUME NEW d \in Dispatcher, LockClaim(d) PROVE TickSound'
    <2>1. CASE Idle(d)
        BY <2>1, OnwardIsSound
    <2>2. CASE /\ \E taken : batch' = [batch EXCEPT ![d] = taken]
               /\ pc' = [pc EXCEPT ![d] = "work"]
               /\ UNCHANGED <<rounds, current>>
        BY <2>2 DEF DispatchTypeOK, TickSound
    <2> QED
        BY <1>4, <2>1, <2>2 DEF LockClaim
<1>5. ASSUME NEW d \in Dispatcher, NEW j \in batch[d], DropLate(d, j) \/ SkipOther(d, j)
      PROVE  TickSound'
    BY <1>5, OnwardIsSound DEF DropLate, SkipOther
<1>6. ASSUME NEW d \in Dispatcher, NEW j \in batch[d], Consult(d, j) PROVE TickSound'
    <2>1. j # Nobody
        BY DEF DispatchTypeOK
    <2> QED
        BY <1>6, <2>1 DEF Consult, DispatchTypeOK, TickSound
<1>7. ASSUME NEW d \in Dispatcher, ResolveConsulted(d) PROVE TickSound'
    BY <1>7, OnwardIsSound DEF ResolveConsulted
<1>8. ASSUME NEW d \in Dispatcher, HandleFails(d) PROVE TickSound'
    BY <1>8, OnwardIsSound DEF HandleFails
<1>9. ASSUME NEW d \in Dispatcher, Crash(d) PROVE TickSound'
    BY <1>9, OnwardIsSound DEF Crash
<1>10. CASE \/ \E j \in Job : FindLive(j) \/ GoesOn(j) \/ CallFails(j) \/ LeaseLapses(j)
            \/ Clock \/ UNCHANGED vars
    BY <1>1, <1>10
       DEF FindLive, GoesOn, CancelLive, InsertJob, CallFails, LeaseLapses, Clock, vars
<1> QED
    BY <1>2, <1>3, <1>4, <1>5, <1>6, <1>7, <1>8, <1>9, <1>10 DEF Next, Dispatches, Handle

(* One live row *)

\* A tick, a lease or the clock change a status by resolving a pending job only.
LEMMA OthersResolve ==
    ASSUME DispatchTypeOK, [Next]_vars,
           ~ \E j \in Job : FindLive(j) \/ GoesOn(j) \/ CallFails(j)
    PROVE  /\ UNCHANGED calls
           /\ \A i \in Job : \/ status'[i] = status[i]
                             \/ status[i] = "pending" /\ status'[i] \in Terminal
<1>1. UNCHANGED calls
    BY DEF Next, Dispatches, Handle, StartTick, Pick, LockClaim, DropLate, Consult, SkipOther,
           ResolveConsulted, HandleFails, Crash, LeaseLapses, Clock, vars
<1>2. ASSUME NEW j, NEW terminal \in Terminal, Resolve(j, terminal)
      PROVE  \A i \in Job : \/ status'[i] = status[i]
                            \/ status[i] = "pending" /\ status'[i] \in Terminal
    BY <1>2 DEF Resolve, DispatchTypeOK
<1>3. ASSUME NEW d \in Dispatcher, Dispatches(d) \/ HandleFails(d) \/ Crash(d)
      PROVE  \A i \in Job : \/ status'[i] = status[i]
                            \/ status[i] = "pending" /\ status'[i] \in Terminal
    <2>1. CASE UNCHANGED status
        BY <2>1
    <2>2. CASE Handle(d)
        BY <1>2, <2>1, <2>2 DEF Handle, DropLate, SkipOther, Consult, ResolveConsulted
    <2> QED
        BY <1>3, <2>1, <2>2 DEF Dispatches, StartTick, Pick, LockClaim, HandleFails, Crash, rows
<1>4. CASE (\E j \in Job : LeaseLapses(j)) \/ Clock \/ UNCHANGED vars
    BY <1>4 DEF LeaseLapses, Clock, vars, rows
<1> QED
    BY <1>1, <1>3, <1>4 DEF Next

\* Every step keeps calls sound.
LEMMA CallsSoundStep == DispatchTypeOK /\ CallsSound /\ [Next]_vars => CallsSound'
<1> SUFFICES ASSUME DispatchTypeOK, CallsSound, [Next]_vars PROVE CallsSound'
    OBVIOUS
<1>1. ASSUME NEW j \in Job, FindLive(j) PROVE CallsSound'
    BY <1>1 DEF FindLive, Live, CallsSound, DispatchTypeOK, rows
<1>2. ASSUME NEW j \in Job, CancelLive(j) PROVE CallsSound'
    BY <1>2 DEF CancelLive, CallsSound, DispatchTypeOK, rows
<1>3. ASSUME NEW j \in Job, CallFails(j) PROVE CallsSound'
    BY <1>3 DEF CallFails, CallEnds, CallsSound, DispatchTypeOK, rows
<1>4. ASSUME NEW j \in Job, NEW t \in FireAt, InsertJob(j, t) PROVE CallsSound'
    <2>1. \A i \in Job : /\ call'[i] = IF i = j THEN "none" ELSE call[i]
                         /\ found'[i] = IF i = j THEN {} ELSE found[i]
        BY <1>4 DEF InsertJob, CallEnds, DispatchTypeOK
    <2>2. \A i \in Job : i # j => (status'[i] = "absent" <=> status[i] = "absent")
        BY <1>4 DEF InsertJob, Inserts, CallsSound
    <2>3. status[j] = "absent" => \A i \in Job : j \notin found[i]
        BY DEF CallsSound
    <2>4. status[j] = "absent"
        BY <1>4 DEF InsertJob, CallsSound
    <2> QED
        BY <2>1, <2>2, <2>3, <2>4 DEF CallsSound, DispatchTypeOK
<1>5. CASE ~ \E j \in Job : FindLive(j) \/ GoesOn(j) \/ CallFails(j)
    <2>1. /\ call' = call /\ found' = found
          /\ \A i \in Job : status'[i] = status[i] \/ (status[i] = "pending" /\ status'[i] \in Terminal)
        BY <1>5, OthersResolve DEF calls
    <2>2. \A i \in Job : status'[i] = "absent" <=> status[i] = "absent"
        BY <2>1
    <2>3. \A j \in Job : found[j] \subseteq Job
        BY DEF DispatchTypeOK
    <2> QED
        BY <2>1, <2>2, <2>3 DEF CallsSound
<1> QED
    BY <1>1, <1>2, <1>3, <1>4, <1>5 DEF GoesOn

\* Every step keeps the one live row: an insert that meets no live row but those its own
\* call has canceled leaves its own, and a refused or failed one changes nothing.
LEMMA OneLiveStep == DispatchTypeOK /\ CallsSound /\ OneLive /\ [Next]_vars => OneLive'
<1> SUFFICES ASSUME DispatchTypeOK, CallsSound, OneLive, [Next]_vars PROVE OneLive'
    OBVIOUS
<1>1. CASE UNCHANGED status
    BY <1>1 DEF OneLive, IsLive
<1>2. ASSUME NEW j \in Job, NEW t \in FireAt, InsertJob(j, t) PROVE OneLive'
    <2>1. CASE Collides(j)
        BY <1>1, <1>2, <2>1 DEF InsertJob
    <2>2. CASE ~Collides(j)
        <3>1. \A i \in Job : status'[i] = IF i = j THEN "pending"
                                          ELSE IF i \in found[j] THEN "canceled" ELSE status[i]
            BY <1>2, <2>2 DEF InsertJob, Inserts
        <3>2. \A i \in Job : EpisodeOf[i] = EpisodeOf[j] /\ IsLive(i) => i \in found[j]
            BY <2>2 DEF Collides, Live, IsLive
        <3>3. \A i \in found[j] : EpisodeOf[i] = EpisodeOf[j] /\ status[i] # "absent"
            BY DEF CallsSound
        <3>4. IsLive(j)' /\ \A i \in Job : EpisodeOf[i] = EpisodeOf[j] /\ IsLive(i)' => i = j
            BY <3>1, <3>2 DEF IsLive
        <3>5. \A i \in Job : EpisodeOf[i] # EpisodeOf[j] => status'[i] = status[i]
            BY <3>1, <3>3
        <3> SUFFICES ASSUME NEW i \in Job, status'[i] # "absent"
                     PROVE  \E k \in Job :
                                /\ EpisodeOf[k] = EpisodeOf[i] /\ IsLive(k)'
                                /\ \A h \in Job : EpisodeOf[h] = EpisodeOf[i] /\ IsLive(h)' => h = k
            BY DEF OneLive, IsLive
        <3>6. CASE EpisodeOf[i] = EpisodeOf[j]
            BY <3>4, <3>6
        <3>7. CASE EpisodeOf[i] # EpisodeOf[j]
            <4>1. PICK k \in Job :
                      /\ EpisodeOf[k] = EpisodeOf[i] /\ IsLive(k)
                      /\ \A h \in Job : EpisodeOf[h] = EpisodeOf[i] /\ IsLive(h) => h = k
                BY <3>5, <3>7 DEF OneLive
            <4>2. \A h \in Job : EpisodeOf[h] = EpisodeOf[i] => (IsLive(h)' <=> IsLive(h))
                BY <3>5, <3>7 DEF IsLive
            <4> QED
                BY <4>1, <4>2
        <3> QED
            BY <3>6, <3>7
    <2> QED
        BY <2>1, <2>2
<1>3. CASE ~ \E j \in Job : FindLive(j) \/ GoesOn(j) \/ CallFails(j)
    <2>1. \A i \in Job : status'[i] = status[i] \/ (status[i] = "pending" /\ status'[i] \in Terminal)
        BY <1>3, OthersResolve
    <2>2. \A i \in Job : /\ status'[i] = "absent" <=> status[i] = "absent"
                         /\ IsLive(i)' <=> IsLive(i)
        BY <2>1 DEF IsLive
    <2> QED
        BY <2>2 DEF OneLive
<1> QED
    BY <1>1, <1>2, <1>3 DEF GoesOn, FindLive, CancelLive, CallFails, rows

(* Due, and asked about once for each claim *)

\* A step that takes nothing up and changes no row but by resolving a job it
\* holds leaves what is held due.
LEMMA NothingTakenUp ==
    ASSUME DispatchTypeOK, DueWhenHeld,
           now' = now, fireAt' = fireAt, consulted' = consulted,
           \A e \in Dispatcher : batch'[e] \subseteq batch[e] /\ picked'[e] \subseteq picked[e],
           \A e \in Dispatcher : current'[e] \in {current[e], Nobody},
           \A j \in Job : \/ status'[j] = status[j]
                          \/ status[j] = "pending" /\ fireAt[j] <= now /\ status'[j] \in Terminal
    PROVE  DueWhenHeld'
<1>1. \A j \in Job : j # Nobody
    BY DispatchConstants
<1>2. ASSUME NEW j \in Job, status[j] # "absent" /\ fireAt[j] <= now
      PROVE  status'[j] # "absent" /\ fireAt'[j] <= now'
    BY <1>2
<1>3. ASSUME NEW e \in Dispatcher, NEW j \in Job,
             j \in picked'[e] \/ j \in batch'[e] \/ j = current'[e]
      PROVE  status'[j] # "absent" /\ fireAt'[j] <= now'
    <2>1. j \in picked[e] \/ j \in batch[e] \/ j = current[e]
        BY <1>1, <1>3
    <2> QED
        BY <1>2, <2>1 DEF DueWhenHeld
<1>4. ASSUME NEW j \in Job, consulted'[j] > 0 \/ status'[j] \in Terminal
      PROVE  status'[j] # "absent" /\ fireAt'[j] <= now'
    <2>1. status[j] # "absent" /\ fireAt[j] <= now
        BY <1>4 DEF DueWhenHeld
    <2> QED
        BY <1>2, <2>1
<1> QED
    BY <1>3, <1>4 DEF DueWhenHeld

\* So does a tick or a job that ends without deciding anything.
LEMMA LettingGoKeepsDue ==
    ASSUME DispatchTypeOK, TickSound, DueWhenHeld, NEW d \in Dispatcher,
           Idle(d) \/ \E left \in SUBSET batch[d] : Onward(d, left),
           UNCHANGED <<now, status, fireAt, consulted>>
    PROVE  DueWhenHeld'
<1>1. PICK left \in SUBSET batch[d] : Idle(d) \/ Onward(d, left)
    OBVIOUS
<1>2. /\ \A e \in Dispatcher : batch'[e] \subseteq batch[e] /\ picked'[e] \subseteq picked[e]
      /\ \A e \in Dispatcher : current'[e] \in {current[e], Nobody}
    BY <1>1, OnwardIsSound
<1>3. now' = now /\ fireAt' = fireAt /\ consulted' = consulted
      /\ \A j \in Job : status'[j] = status[j]
    OBVIOUS
<1> QED
    BY <1>2, <1>3, NothingTakenUp

\* A resolution decides a job that is pending, and due if it is held.
LEMMA ResolvesDue ==
    ASSUME DispatchTypeOK, NEW j \in Job, fireAt[j] <= now, NEW terminal \in Terminal,
           Resolve(j, terminal)
    PROVE  \A i \in Job : \/ status'[i] = status[i]
                          \/ status[i] = "pending" /\ fireAt[i] <= now /\ status'[i] \in Terminal
<1>1. status' = [status EXCEPT ![j] = IF @ = "pending" THEN terminal ELSE @]
      /\ DOMAIN status = Job
    BY DEF Resolve, DispatchTypeOK
<1>2. \A i \in Job : i # j => status'[i] = status[i]
    BY <1>1
<1>3. status'[j] = IF status[j] = "pending" THEN terminal ELSE status[j]
    BY <1>1
<1>4. ASSUME NEW i \in Job, status'[i] # status[i]
      PROVE  status[i] = "pending" /\ fireAt[i] <= now /\ status'[i] \in Terminal
    <2>1. i = j
        BY <1>2, <1>4
    <2> QED
        BY <1>3, <1>4, <2>1
<1> QED
    BY <1>4

\* Every step keeps what is held due: a claim picks due jobs, and no row of a job that exists is
\* given another fire time.
LEMMA DueWhenHeldStep ==
    DispatchTypeOK /\ CallsSound /\ TickSound /\ DueWhenHeld /\ [Next]_vars => DueWhenHeld'
<1> SUFFICES ASSUME DispatchTypeOK, CallsSound, TickSound, DueWhenHeld, [Next]_vars
             PROVE  DueWhenHeld'
    OBVIOUS
<1> USE DispatchConstants
<1>1. ASSUME NEW j \in Job, FindLive(j) \/ GoesOn(j) \/ CallFails(j) PROVE DueWhenHeld'
    <2>1. CASE UNCHANGED <<now, rows, tick>>
        BY <2>1 DEF DueWhenHeld, rows, tick
    <2>2. ASSUME NEW t \in FireAt, status[j] = "absent", Inserts(j, t),
                 UNCHANGED <<now, consulted, tick>>
          PROVE  DueWhenHeld'
        <3>1. \A i \in Job : status[i] # "absent" =>
                  status'[i] \in {status[i], "canceled"} /\ fireAt'[i] = fireAt[i]
            BY <2>2 DEF Inserts, DispatchTypeOK
        <3>2. \A i \in Job : status'[i] \in Terminal => status'[i] = status[i]
            BY <2>2 DEF Inserts, DispatchTypeOK
        <3>3. UNCHANGED <<now, consulted, picked, batch, current>>
            BY <2>2 DEF tick
        <3> QED
            BY <3>1, <3>2, <3>3 DEF DueWhenHeld
    <2>3. CASE \E t \in FireAt : InsertJob(j, t)
        <3>1. status[j] = "absent"
            BY <2>3 DEF InsertJob, CallsSound
        <3>2. PICK t \in FireAt : InsertJob(j, t)
            BY <2>3
        <3> QED
            BY <2>1, <2>2, <3>1, <3>2 DEF InsertJob, rows
    <2> QED
        BY <1>1, <2>1, <2>3 DEF FindLive, GoesOn, CancelLive, CallFails
<1>2. ASSUME NEW d \in Dispatcher, StartTick(d) PROVE DueWhenHeld'
    BY <1>2 DEF StartTick, DueWhenHeld, rows
<1>3. ASSUME NEW d \in Dispatcher, Pick(d) PROVE DueWhenHeld'
    <2>1. UNCHANGED <<now, status, fireAt, consulted>>
        BY <1>3 DEF Pick, rows
    <2>2. CASE Idle(d)
        BY <2>1, <2>2, LettingGoKeepsDue
    <2>3. CASE (\E P \in BatchChoices : picked' = [picked EXCEPT ![d] = P])
               /\ UNCHANGED <<tickAt, batch, current, served>>
        <3>1. PICK P \in BatchChoices : picked' = [picked EXCEPT ![d] = P]
            BY <2>3
        <3>2. \A j \in P : status[j] = "pending" /\ fireAt[j] <= now
            BY PickedIsDue DEF Due
        <3> QED
            BY <2>1, <2>3, <3>1, <3>2 DEF DueWhenHeld, DispatchTypeOK
    <2> QED
        BY <1>3, <2>2, <2>3 DEF Pick
<1>4. ASSUME NEW d \in Dispatcher, LockClaim(d) PROVE DueWhenHeld'
    <2>1. UNCHANGED <<now, status, fireAt, consulted>>
        BY <1>4 DEF LockClaim, rows
    <2>2. CASE Idle(d)
        BY <2>1, <2>2, LettingGoKeepsDue
    <2>3. CASE \E taken \in SUBSET picked[d] :
                  /\ batch' = [batch EXCEPT ![d] = taken]
                  /\ picked' = [picked EXCEPT ![d] = {}]
                  /\ UNCHANGED current
        BY <2>1, <2>3 DEF DueWhenHeld, DispatchTypeOK
    <2> QED
        BY <1>4, <2>2, <2>3 DEF LockClaim
<1>5. ASSUME NEW d \in Dispatcher, NEW j \in batch[d], DropLate(d, j) \/ SkipOther(d, j)
      PROVE  DueWhenHeld'
    <2>1. j \in Job /\ fireAt[j] <= now
        BY DEF DispatchTypeOK, DueWhenHeld
    <2>2. (Resolve(j, "dropped_late") \/ Resolve(j, "skipped")) /\ Onward(d, batch[d] \ {j})
          /\ UNCHANGED <<now, fireAt, consulted>>
        BY <1>5 DEF DropLate, SkipOther
    <2> QED
        BY <2>1, <2>2, OnwardIsSound, ResolvesDue, NothingTakenUp
<1>6. ASSUME NEW d \in Dispatcher, NEW j \in batch[d], Consult(d, j) PROVE DueWhenHeld'
    <2>1. j \in Job /\ status[j] # "absent" /\ fireAt[j] <= now
        BY DEF DispatchTypeOK, DueWhenHeld
    <2>2. /\ UNCHANGED <<now, status, fireAt, picked>>
          /\ consulted' = [consulted EXCEPT ![j] = @ + 1]
          /\ batch' = [batch EXCEPT ![d] = @ \ {j}]
          /\ current' = [current EXCEPT ![d] = j]
        BY <1>6 DEF Consult
    <2> QED
        BY <2>1, <2>2 DEF DispatchTypeOK, DueWhenHeld
<1>7. ASSUME NEW d \in Dispatcher, ResolveConsulted(d) PROVE DueWhenHeld'
    <2>1. current[d] \in Job
        BY <1>7 DEF ResolveConsulted, TickSound, DispatchTypeOK
    <2>2. fireAt[current[d]] <= now
        BY <2>1 DEF DueWhenHeld
    <2>3. Resolve(current[d], "skipped") /\ Onward(d, batch[d])
          /\ UNCHANGED <<now, fireAt, consulted>>
        BY <1>7 DEF ResolveConsulted
    <2> QED
        BY <2>1, <2>2, <2>3, OnwardIsSound, ResolvesDue, NothingTakenUp
<1>8. ASSUME NEW d \in Dispatcher, HandleFails(d) \/ Crash(d) PROVE DueWhenHeld'
    <2>1. UNCHANGED <<now, status, fireAt, consulted>>
        BY <1>8 DEF HandleFails, Crash, rows
    <2>2. Idle(d) \/ \E left \in SUBSET batch[d] : Onward(d, left)
        BY <1>8 DEF HandleFails, Crash
    <2> QED
        BY <2>1, <2>2, LettingGoKeepsDue
<1>9. CASE Clock
    <2>1. now' = now + 1 /\ UNCHANGED <<status, fireAt, consulted, picked, batch, current>>
        BY <1>9 DEF Clock, rows, tick
    <2>2. \A j \in Job : fireAt[j] <= now => fireAt'[j] <= now'
        BY <2>1 DEF DispatchTypeOK
    <2> QED
        BY <2>1, <2>2 DEF DueWhenHeld
<1>10. CASE (\E j \in Job : LeaseLapses(j)) \/ UNCHANGED vars
    <2>1. UNCHANGED <<now, status, fireAt, consulted, picked, batch, current>>
        BY <1>10 DEF LeaseLapses, vars, rows, tick
    <2> QED
        BY <2>1 DEF DueWhenHeld
<1> QED
    BY <1>1, <1>2, <1>3, <1>4, <1>5, <1>6, <1>7, <1>8, <1>9, <1>10
       DEF Next, Dispatches, Handle

\* Those who hold a job are some of the dispatchers.
LEMMA HoldersCounted ==
    ASSUME NEW j
    PROVE  IsFiniteSet(Holders(j)) /\ Cardinality(Holders(j)) \in Nat
<1>1. IsFiniteSet(Holders(j))
    BY DispatchConstants, FS_Subset DEF Holders
<1> QED
    BY <1>1, FS_CardinalityType

\* Letting go of jobs asks nothing and claims nothing.
LEMMA LettingGoKeepsAsked ==
    ASSUME DispatchTypeOK, AskedOrHeld,
           UNCHANGED <<claims, consulted>>,
           \A e \in Dispatcher : batch'[e] \subseteq batch[e]
    PROVE  AskedOrHeld'
<1> SUFFICES ASSUME NEW j \in Job
             PROVE  consulted'[j] + Cardinality(Holders(j)') <= claims'[j]
    BY DEF AskedOrHeld
<1>1. Holders(j)' \subseteq Holders(j)
    BY DEF Holders
<1>2. PICK after : after = Holders(j)'
    OBVIOUS
<1>3. /\ IsFiniteSet(after) /\ Cardinality(after) \in Nat
      /\ Cardinality(after) <= Cardinality(Holders(j))
    BY <1>1, <1>2, HoldersCounted, FS_Subset, FS_CardinalityType
<1>4. consulted[j] + Cardinality(Holders(j)) <= claims[j]
    BY DEF AskedOrHeld
<1> QED
    BY <1>2, <1>3, <1>4, HoldersCounted DEF DispatchTypeOK

\* Every step keeps the claims counted: a claim adds a holder to each job it takes, and a
\* consultation turns one holder into one verdict.
LEMMA AskedOrHeldStep ==
    DispatchTypeOK /\ TickSound /\ AskedOrHeld /\ [Next]_vars => AskedOrHeld'
<1> SUFFICES ASSUME DispatchTypeOK, TickSound, AskedOrHeld, [Next]_vars PROVE AskedOrHeld'
    OBVIOUS
<1>1. CASE UNCHANGED <<claims, consulted, batch>>
    BY <1>1, LettingGoKeepsAsked
<1>2. ASSUME NEW d \in Dispatcher, Idle(d) \/ \E left \in SUBSET batch[d] : Onward(d, left),
             UNCHANGED <<claims, consulted>>
      PROVE  AskedOrHeld'
    <2>1. PICK left \in SUBSET batch[d] : Idle(d) \/ Onward(d, left)
        BY <1>2
    <2>2. \A e \in Dispatcher : batch'[e] \subseteq batch[e]
        BY <2>1, OnwardIsSound
    <2> QED
        BY <1>2, <2>2, LettingGoKeepsAsked
<1>3. ASSUME NEW d \in Dispatcher, LockClaim(d) PROVE AskedOrHeld'
    <2>1. CASE Idle(d) /\ UNCHANGED rows
        BY <1>2, <2>1 DEF rows
    <2>2. ASSUME NEW taken \in SUBSET picked[d],
                 claims' = [j \in Job |-> IF j \in taken THEN claims[j] + 1 ELSE claims[j]],
                 batch' = [batch EXCEPT ![d] = taken], consulted' = consulted
          PROVE  AskedOrHeld'
        <3> SUFFICES ASSUME NEW j \in Job
                     PROVE  consulted'[j] + Cardinality(Holders(j)') <= claims'[j]
            BY DEF AskedOrHeld
        <3>1. batch[d] = {}
            BY <1>3 DEF LockClaim, TickSound
        <3>2. d \notin Holders(j)
            BY <3>1 DEF Holders
        <3>3. Holders(j)' = IF j \in taken THEN Holders(j) \cup {d} ELSE Holders(j)
            <4>1. \A e \in Dispatcher : batch'[e] = IF e = d THEN taken ELSE batch[e]
                BY <2>2 DEF DispatchTypeOK
            <4> QED
                BY <3>1, <4>1 DEF Holders
        <3>4. Cardinality(Holders(j)') =
                 IF j \in taken THEN Cardinality(Holders(j)) + 1 ELSE Cardinality(Holders(j))
            BY <3>2, <3>3, HoldersCounted, FS_AddElement
        <3>5. consulted[j] + Cardinality(Holders(j)) <= claims[j]
            BY DEF AskedOrHeld
        <3>6. claims'[j] = IF j \in taken THEN claims[j] + 1 ELSE claims[j]
            BY <2>2
        <3>7. consulted[j] \in Nat /\ claims[j] \in Nat /\ consulted'[j] = consulted[j]
            BY <2>2 DEF DispatchTypeOK
        <3> QED
            BY <3>4, <3>5, <3>6, <3>7, HoldersCounted
    <2> QED
        BY <1>3, <2>1, <2>2 DEF LockClaim
<1>4. ASSUME NEW d \in Dispatcher, NEW j \in batch[d], Consult(d, j) PROVE AskedOrHeld'
    <2>1. /\ j \in Job /\ claims' = claims
          /\ consulted' = [consulted EXCEPT ![j] = @ + 1]
          /\ \A e \in Dispatcher : batch'[e] = IF e = d THEN batch[e] \ {j} ELSE batch[e]
        BY <1>4 DEF Consult, DispatchTypeOK
    <2> SUFFICES ASSUME NEW i \in Job
                 PROVE  consulted'[i] + Cardinality(Holders(i)') <= claims'[i]
        BY DEF AskedOrHeld
    <2>2. consulted[i] + Cardinality(Holders(i)) <= claims[i]
          /\ consulted[i] \in Nat /\ claims[i] \in Nat
        BY DEF AskedOrHeld, DispatchTypeOK
    <2>3. CASE i # j
        <3>1. Holders(i)' = Holders(i) /\ consulted'[i] = consulted[i]
            BY <2>1, <2>3 DEF Holders, DispatchTypeOK
        <3> QED
            BY <2>1, <2>2, <3>1
    <2>4. CASE i = j
        <3>1. d \in Holders(i) /\ Holders(i)' = Holders(i) \ {d}
            BY <2>1, <2>4 DEF Holders
        <3>2. Cardinality(Holders(i)') = Cardinality(Holders(i)) - 1
            BY <3>1, HoldersCounted, FS_RemoveElement
        <3>3. consulted'[i] = consulted[i] + 1
            BY <2>1, <2>4 DEF DispatchTypeOK
        <3> QED
            BY <2>1, <2>2, <3>2, <3>3, HoldersCounted
    <2> QED
        BY <2>3, <2>4
<1>5. ASSUME NEW d \in Dispatcher, StartTick(d) \/ Pick(d) PROVE AskedOrHeld'
    <2>1. CASE Idle(d) /\ UNCHANGED rows
        BY <1>2, <2>1 DEF rows
    <2>2. CASE UNCHANGED <<rows, batch>>
        BY <1>1, <2>2 DEF rows
    <2> QED
        BY <1>5, <2>1, <2>2 DEF StartTick, Pick
<1>6. ASSUME NEW d \in Dispatcher, NEW j \in batch[d], DropLate(d, j) \/ SkipOther(d, j)
      PROVE  AskedOrHeld'
    BY <1>2, <1>6 DEF DropLate, SkipOther
<1>7. ASSUME NEW d \in Dispatcher, ResolveConsulted(d) PROVE AskedOrHeld'
    BY <1>2, <1>7 DEF ResolveConsulted
<1>8. ASSUME NEW d \in Dispatcher, HandleFails(d) \/ Crash(d) PROVE AskedOrHeld'
    <2>1. Idle(d) \/ \E left \in SUBSET batch[d] : Onward(d, left)
        BY <1>8 DEF HandleFails, Crash
    <2>2. UNCHANGED <<claims, consulted>>
        BY <1>8 DEF HandleFails, Crash, rows
    <2> QED
        BY <1>2, <2>1, <2>2
<1>9. CASE \/ \E j \in Job : FindLive(j) \/ GoesOn(j) \/ CallFails(j) \/ LeaseLapses(j)
           \/ Clock \/ UNCHANGED vars
    BY <1>1, <1>9
       DEF FindLive, GoesOn, CancelLive, InsertJob, CallFails, LeaseLapses, Clock, vars, rows,
           tick
<1> QED
    BY <1>3, <1>4, <1>5, <1>6, <1>7, <1>8, <1>9 DEF Next, Dispatches, Handle

(* Theorems *)

\* Every step keeps the inductive invariant.
LEMMA DispatchInvStep == DispatchInv /\ [Next]_vars => DispatchInv'
<1>1. TickSound => RoundsLeft
    BY DEF TickSound, RoundsLeft
<1> QED
    BY <1>1, DispatchTypeStep, CallsSoundStep, TickSoundStep, OneLiveStep, DueWhenHeldStep,
       AskedOrHeldStep
       DEF DispatchInv

\* The inductive invariant always holds.
LEMMA DispatchInvAlways == Spec => []DispatchInv
BY DispatchInvInit, DispatchInvStep, PTL DEF Spec

\* Every variable of the scheduler and its dispatchers holds what the code can
\* store in it (calendar/dispatch.ts, 0015, 0020).
THEOREM DispatchTyped == Spec => []DispatchTypeOK
<1>1. DispatchInv => DispatchTypeOK
    BY DEF DispatchInv
<1> QED
    BY <1>1, DispatchInvAlways, PTL

\* However often an episode is rescheduled, before, during or after its tick, and however
\* the calls overlap, fail or are refused, an episode that was ever scheduled has one live
\* row: never a second beside it, and never none because a cancel went through without its
\* insert (schedule_job and scheduled_job_episode_uidx).
THEOREM OneRowPerEpisode == Spec => []OneLiveRow
<1>1. DispatchInv => OneLiveRow
    <2> SUFFICES ASSUME DispatchInv, NEW e \in Episode
                 PROVE  Cardinality(Live(e)) =
                            IF \E j \in Job : EpisodeOf[j] = e /\ status[j] # "absent" THEN 1 ELSE 0
        BY DEF OneLiveRow
    <2>1. CASE \E j \in Job : EpisodeOf[j] = e /\ status[j] # "absent"
        <3>1. PICK k \in Job : /\ EpisodeOf[k] = e /\ IsLive(k)
                               /\ \A h \in Job : EpisodeOf[h] = e /\ IsLive(h) => h = k
            BY <2>1 DEF DispatchInv, OneLive
        <3>2. Live(e) = {k}
            BY <3>1 DEF Live, IsLive
        <3>3. Cardinality({k}) = 1
            BY FS_Singleton
        <3> QED
            BY <2>1, <3>2, <3>3
    <2>2. CASE ~ \E j \in Job : EpisodeOf[j] = e /\ status[j] # "absent"
        <3>1. Live(e) = {}
            BY <2>2 DEF Live
        <3> QED
            BY <2>2, <3>1, FS_EmptySet
    <2> QED
        BY <2>1, <2>2
<1> QED
    BY <1>1, DispatchInvAlways, PTL

\* The gate is asked about due jobs only, and at most once for each claim that
\* took the job, however dispatchers race, fail and outlive their leases
\* (calendar/dispatch.ts, reminder_gate).
THEOREM GateAskedRightly == Spec => []AskedRightly
<1>1. DispatchInv => AskedRightly
    <2> SUFFICES ASSUME DispatchInv PROVE AskedRightly
        OBVIOUS
    <2>1. ConsultedPerClaim
        <3> SUFFICES ASSUME NEW j \in Job PROVE consulted[j] <= claims[j]
            BY DEF ConsultedPerClaim
        <3>1. consulted[j] + Cardinality(Holders(j)) <= claims[j]
              /\ consulted[j] \in Nat /\ claims[j] \in Nat
            BY DEF DispatchInv, AskedOrHeld, DispatchTypeOK
        <3> QED
            BY <3>1, HoldersCounted
    <2>2. NotEarly
        BY DEF DispatchInv, DueWhenHeld, NotEarly
    <2> QED
        BY <2>1, <2>2 DEF AskedRightly
<1> QED
    BY <1>1, DispatchInvAlways, PTL

(* One job of each tenant before the second of any *)

\* A choice that is fair takes a job of every tenant with one due, and one only.
LEMMA FairTakesOneEach ==
    ASSUME IsFiniteSet(Job), NEW S \in Fair
    PROVE  /\ Tenants(S) = Tenants(Due)
           /\ \A i, j \in S : TenantOf[EpisodeOf[i]] = TenantOf[EpisodeOf[j]] => i = j
<1>1. S \subseteq Due /\ \A t \in Tenants(Due) : Cardinality({j \in S : TenantOf[EpisodeOf[j]] = t}) = 1
    BY DEF Fair
<1>2. IsFiniteSet(S)
    BY <1>1, FS_Subset DEF Due
<1>3. \A t \in Tenants(Due) : \E k : {j \in S : TenantOf[EpisodeOf[j]] = t} = {k}
    <2> SUFFICES ASSUME NEW t \in Tenants(Due)
                 PROVE  \E k : {j \in S : TenantOf[EpisodeOf[j]] = t} = {k}
        OBVIOUS
    <2>1. IsFiniteSet({j \in S : TenantOf[EpisodeOf[j]] = t})
        BY <1>2, FS_Subset
    <2> QED
        BY <1>1, <2>1, FS_Singleton
<1>4. Tenants(S) = Tenants(Due)
    <2>1. Tenants(S) \subseteq Tenants(Due)
        BY <1>1 DEF Tenants
    <2>2. ASSUME NEW t \in Tenants(Due) PROVE t \in Tenants(S)
        <3>1. PICK k : {j \in S : TenantOf[EpisodeOf[j]] = t} = {k}
            BY <1>3
        <3> QED
            BY <3>1 DEF Tenants
    <2> QED
        BY <2>1, <2>2
<1>5. ASSUME NEW i \in S, NEW j \in S, TenantOf[EpisodeOf[i]] = TenantOf[EpisodeOf[j]] PROVE i = j
    <2>1. TenantOf[EpisodeOf[i]] \in Tenants(Due)
        BY <1>1 DEF Tenants
    <2>2. PICK k : {h \in S : TenantOf[EpisodeOf[h]] = TenantOf[EpisodeOf[i]]} = {k}
        BY <1>3, <2>1
    <2> QED
        BY <1>5, <2>2
<1> QED
    BY <1>4, <1>5

\* With room in a batch for every tenant, a claim leaves no tenant out.
LEMMA BatchHasEveryTenant ==
    ASSUME IsFiniteSet(Job), IsFiniteSet(Tenant), Cardinality(Tenant) <= Limit,
           NEW P \in BatchChoices
    PROVE  Tenants(P) = Tenants(Due)
<1>1. PICK S \in Fair : P \subseteq S /\ Cardinality(P) = Min({Limit, Cardinality(S)})
    BY DEF BatchChoices
<1>2. S \subseteq Job
    BY DEF Fair, Due
<1>3. IsFiniteSet(S)
    BY <1>2, FS_Subset
<1>4. Cardinality(S) <= Cardinality(Tenant)
    <2> DEFINE f == [j \in S |-> TenantOf[EpisodeOf[j]]]
    <2>1. f \in [S -> Tenant]
        BY <1>2, DispatchConstants
    <2>2. \A i, j \in S : f[i] = f[j] => i = j
        BY FairTakesOneEach
    <2>3. f \in Injection(S, Tenant)
        BY <2>1, <2>2 DEF Injection, IsInjective
    <2> QED
        BY <2>3, FS_Injection
<1>5. Cardinality(P) = Cardinality(S)
    <2>1. PICK n \in Nat : n = Cardinality(S)
        BY <1>3, FS_CardinalityType
    <2>2. n <= Limit /\ Limit \in Nat
        <3>1. Cardinality(Tenant) \in Nat /\ Limit \in Nat
            BY FS_CardinalityType, DispatchConstants
        <3> QED
            BY <1>4, <2>1, <3>1
    <2>3. \A x \in {Limit, n} : (\A y \in {Limit, n} : x <= y) <=> x = n
        BY <2>2
    <2>4. Min({Limit, n}) = n
        BY <2>3 DEF Min
    <2> QED
        BY <1>1, <2>1, <2>4
<1>6. P = S
    BY <1>1, <1>3, <1>5, FS_Subset
<1> QED
    BY <1>6, FairTakesOneEach

\* The one step that picks rows; every other one only lets go of them.
LEMMA OnlyPickPicks ==
    ASSUME DispatchTypeOK, [Next]_vars, NEW d \in Dispatcher, picked'[d] # picked[d],
           picked'[d] # {}
    PROVE  Pick(d) /\ picked'[d] \in BatchChoices
<1>1. ASSUME NEW e \in Dispatcher, Idle(e) PROVE FALSE
    BY <1>1 DEF Idle, DispatchTypeOK
<1>2. ASSUME NEW e \in Dispatcher, NEW left, Onward(e, left) PROVE FALSE
    BY <1>1, <1>2 DEF Onward
<1>3. ASSUME NEW e \in Dispatcher, Handle(e) PROVE FALSE
    BY <1>2, <1>3 DEF Handle, DropLate, Consult, SkipOther, ResolveConsulted
<1>4. ASSUME NEW e \in Dispatcher, HandleFails(e) \/ Crash(e) PROVE FALSE
    BY <1>1, <1>2, <1>4 DEF HandleFails, Crash
<1>5. ASSUME NEW e \in Dispatcher, LockClaim(e) PROVE FALSE
    BY <1>1, <1>5 DEF LockClaim, DispatchTypeOK
<1>6. ASSUME NEW e \in Dispatcher, Pick(e) PROVE e = d /\ picked'[d] \in BatchChoices
    <2>1. CASE Due = {}
        BY <1>1, <1>6, <2>1 DEF Pick
    <2>2. CASE Due # {}
        <3>1. PICK P \in BatchChoices : picked' = [picked EXCEPT ![e] = P]
            BY <1>6, <2>2 DEF Pick
        <3> QED
            BY <3>1 DEF DispatchTypeOK
    <2> QED
        BY <2>1, <2>2
<1>7. CASE \/ \E j \in Job : FindLive(j) \/ GoesOn(j) \/ CallFails(j) \/ LeaseLapses(j)
           \/ \E e \in Dispatcher : StartTick(e)
           \/ Clock
           \/ UNCHANGED vars
    BY <1>7
       DEF FindLive, GoesOn, CancelLive, InsertJob, CallFails, StartTick, LeaseLapses, Clock,
           vars, tick
<1> QED
    BY <1>3, <1>4, <1>5, <1>6, <1>7 DEF Next, Dispatches

\* A storm of one tenant waits: as long as a batch has room for one job of every
\* tenant, no tick takes a second job of one while another that has a job due
\* waits for its first (dispatch.ts:160-162, scheduled_job_claim).
THEOREM StormsWait ==
    ASSUME IsFiniteSet(Job), IsFiniteSet(Tenant), Cardinality(Tenant) <= Limit
    PROVE  Spec => NoSecondHelping
<1> DEFINE Helped(d) ==
        (/\ picked'[d] # picked[d]
         /\ \/ Tenants(picked'[d]) \cap served[d] # {}
            \/ Cardinality(Tenants(picked'[d])) < Cardinality(picked'[d])) =>
            Tenants(Due) \subseteq served[d] \cup Tenants(picked'[d])
<1>1. ASSUME DispatchTypeOK, [Next]_vars, NEW d \in Dispatcher PROVE Helped(d)
    <2>1. CASE picked'[d] = {}
        <3>1. Tenants({}) = {}
            BY DEF Tenants
        <3>2. ~(Cardinality({}) < Cardinality({}))
            BY FS_EmptySet
        <3> QED
            BY <2>1, <3>1, <3>2
    <2>2. CASE picked'[d] = picked[d]
        BY <2>2
    <2>3. CASE picked'[d] # {} /\ picked'[d] # picked[d]
        <3>1. picked'[d] \in BatchChoices
            BY <1>1, <2>3, OnlyPickPicks
        <3>2. Tenants(picked'[d]) = Tenants(Due)
            BY <3>1, BatchHasEveryTenant
        <3> QED
            BY <3>2
    <2> QED
        BY <2>1, <2>2, <2>3
<1>2. DispatchTypeOK /\ [Next]_vars => [\A d \in Dispatcher : Helped(d)]_vars
    BY <1>1
<1> QED
    BY <1>2, DispatchTyped, PTL DEF Spec, NoSecondHelping
=============================================================================
