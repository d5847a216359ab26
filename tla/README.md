# CRM Leads: TLA+ models, checks and proofs

TLA+ specifications of CRM Leads: the transactions whose correctness depends on
ordering, retries and concurrency, and the screens and services around them, with
TLC configurations that check them on small instances and TLAPS proofs that hold
for every instance. Paths below are relative to the repository root; `00NN` is the
migration with that number under `app/db/migrations/`.

## 1. The system

A React Router application over PostgreSQL. Nearly all state changes are plpgsql
`SECURITY DEFINER` functions called in READ COMMITTED transactions, so *the
functions are the handlers* and what can interleave is decided by their
statements, their row locks and their unique indexes. One or more worker
processes (`app/jobs/`) run a relay loop and pg-boss jobs against the same
database. In the browser each screen talks to the server by itself, and an answer
may find a page that has moved on.

| Component | State | Operations | Hard part | What makes it correct | Modules |
|---|---|---|---|---|---|
| Outbox delivery (0043, 0049, 0051, 0052; `modules/events/relay.ts`; `jobs/worker.ts`) | `event_log`, `event_outbox`, `dead_letter` | `event_emit`, `outbox_claim`, `outbox_ack`, `outbox_fail`, `relayOnce` | leases, retries, crashes, lost commits | each delivery takes effect once or is a dead letter, and settles | `Delivery`, `Outbox` |
| Earnings and leaderboard (0008, 0009, 0012, 0021, 0045, 0054, 0065, 0071) | `opportunity`, `stage_transition`, `earnings_ledger`, `leaderboard_projection` | `stage_move`, `ledger_append`, `celebrate_once`, `ledger_adjust`, `leaderboard_read` | undo windows, replays, an incremental total that nothing recomputes | one standing credit per won card, reversals pair up, the board never retracts | `Earnings` |
| Reminders (0014, 0015, 0020, 0067; `modules/calendar/dispatch.ts`) | `scheduled_job`, a tick's local batch | `schedule_job`, `scheduled_job_claim`, `reminder_gate`, `scheduled_job_resolve`, `dispatchDueJobs` | two dispatchers, leases, rescheduling under a tick, fairness between tenants | one live job per meeting, none lost, none early, none asked about twice per claim | `Dispatch` |
| User access (0072, 0073) | `app_user`, `audit_log` | `app_user_create`, `app_user_set_role`, `app_user_set_active` | check-then-write without a lock | a tenant keeps an admin, the audit history is the history | `UserAccess` |
| Webhook ingest (0050, `routes/api/webhooks-aloware.ts`, `lib/ingest/semaphore.ts`, `jobs/queues.ts`) and call merge (0048, 0049) | permits and waiters, vault, `inbound_webhook_event`, pg-boss jobs, `call` | the limiter, lookup, `webhook_ingest`, `call_merge`, retries, dead letters | overload, duplicates, any order, restarts, runs beside each other | no permit idle while somebody waits; what was accepted is kept once; nothing told is taken back | `Ingest` |
| Compliance gate (0035 to 0038, 0060, `routes/api/calls.ts`) | `suppression_list`, the law's tables, attempts, the drawer | the presses of Call and their five checks, `compliance_check`, `suppression_append` | verdict used after it was computed, several refusals at once | the legal refusal wins; each answer has one attempt on record | `Dial` |
| Sessions and tenant isolation (0002, 0005, 0067, 0074, `lib/auth/`, `db/client.ts`) | sessions, seats, the context of pooled connections | sign-in, sign-out, `getSession`, `resolveIdentity`, `begin_request`, the statements | three transactions per request, pooled connections, a seat that changes between | nobody oversees after losing the role; the departed read nothing | `Session` |
| Worker process (`jobs/boot.ts`, `jobs/saturation.ts`, `db/pool.ts`, `db/boot-assert.ts`) | reads on their way, boots, lanes, relay chains; samples and alerts | boot, assertions, `startWorker`, `scheduleRelay`, `sampleOnce` | unawaited checks, modules evaluated twice, an alert that cannot be written | a process whose checks are back is safe; one relay; alerts true, once, in time | `Boot`, `Saturation` |
| Board screen (`routes/ui/board.tsx`, `components/board/`, `lib/board/`, `lib/card-health/`) and conditional polling (`lib/http/`) | two sources of one picture, undo bar, celebration, virtual columns, second-hand | moves, undo, ticks, entity tags, scroll and focus, subscriptions | answers that overtake each other, timers, hidden tabs | confetti only for a win that stood; the screen catches up; no card in view is missing | `Board`, `Columns`, `FreshClock`, `Lead` |
| Search and quick add (`components/search/`, `routes/api/search.ts`, `quick-add.ts`) | query, answer, sheet, posts | type, debounce, answer, save | late answers, double saves | rows match the box; one contact per phone | `Search` |
| Contact record (`routes/ui/contact.tsx`, `components/contacts/`), timeline projection (0053, 0059, 0064) | record, history, composer, deals | navigate, read pages, note, start a deal | late answers for another contact, projections that come late | history is of the record, without a gap | `Record` |
| My Day, leaderboard, home (`routes/api/my-day.ts`, `leaderboard.ts`, `components/leaderboard/`, `home/`) | one reading in several statements; a payload and its sentence; the checklist | three reads, `readBoard`, permission | statements with clocks of their own, negative totals | an appointment once on a day; the gap is the distance | `MyDay`, `Standing`, `Checklist` |
| Administration screens (`routes/ui/earnings-admin.tsx`, `integration-health.tsx`, `users-admin.tsx` and their APIs) | forms, keys, tokens, lists | correct, issue, revoke, edit | lost answers, lists read late | one entry per correction; the list is the server's | `Correction`, `Endpoints`, `Team` |
| My Book, plain rendering; schema, scripts, tooling | | one read and its drawing; declarations | none | | not modelled (`Lead` has My Book's chip) |

How they interact. `stage_move` and the other writers call `event_emit` in their
own transaction; the relay delivers the rows to the consumers (audit, timeline).
The dispatcher and the relay are driven by the worker; both use the same pattern
of a claim with a lease and a later transaction per item. The board reads the
projection that `ledger_append` maintains inside `stage_move` and
`ledger_adjust`. Every user-facing call runs under the role `begin_request`
derives from `app_user`. `PROJECT.json` lists what is hard to test in each of
these at the line where it bites ("hazards"), and the properties about it.

## 2. Modules and how they correspond to the code

**What an action is.** A transaction that holds a row lock from its first read
to its commit is one action. Where the code reads without a lock and writes
later, the reads and the write are separate actions: `outbox_fail` (read of
`attempts`, then the write), `celebrate_once` (checks, then the UPDATE),
`scheduled_job_claim` (rows chosen from the statement's snapshot, then locked),
`schedule_job` (the UPDATE that cancels, then the INSERT), `compliance_attempt` (whose
lead it is, then the verdict), `app_user_set_role`/`_active` (four statements), the
statements of a request in `Session` and of a reading in `MyDay`. In the browser an action is one event
handler, effect or answered promise, which JavaScript runs to its end; a request,
its arrival at the server and its answer are three.

**`Delivery`** is the abstract promise of the outbox: an event becomes one
delivery per consumer that wants it, all at once; a delivery takes effect once
or is given up with a record; none is owed for ever.

**`Outbox`** has one row per event and consumer. `status` and `attempts` are the
columns; `waiting` says `next_attempt_at` is in the future and `leased` that
`claimed_at` is younger than the lease, the only two things about time that
`outbox_claim` tests, so no particular backoff is assumed. A relay's `batch`,
`pc`, `failing` and `seen` are the local variables of `relayOnce`. `effects`
counts commits of a handler's writes: a history variable. Faults are actions with
a budget each: an aborted pass (crash or failed write), a lease that lapses
under a relay still working (overrun), a commit that succeeds while its
confirmation is lost.

**`Earnings`** reduces a stage to its type (open, earning, lost), which is all
`stage_move` branches on, and money to small integers. `ledger` is a set of
entries ordered by `seq`; `projection` is updated by `Project`, as the upsert
loop of `ledger_append` does; `Published` is `leaderboard_read`. Time is a
clock that ticks; the constants `UndoDeadline`, `RevealDelay`, `ClaimGrace` are
rows of `ref.timing_constant`, kept in the order of their real values.

**`Dispatch`** has one row per job; an episode is a kind with its idempotency
key. A call of `schedule_job` is its two statements: the UPDATE finds the episode's live
rows in its snapshot and waits for their locks (`FindLive`, `CancelLive`), the INSERT
and the commit are one (`InsertJob`), and an INSERT that meets another call's row in
`scheduled_job_episode_uidx` is refused and takes the call with it. The claim is the
action pair `Pick` and `LockClaim`. A tick keeps the time
at which it began, its rounds and its batch. `consulted` counts verdict rows of
`reminder_gate`.

**`UserAccess`** keeps the roster, each row's role and activity, and each user's
audit rows. A call is admitted, reads, counts and writes in steps of their own.
`overlapped` is a history variable: some call has started beside another.

**`Board`** is one tab on the pipeline: the loader's board and the poll's board
with the tag it came with, the optimistic move, the undo bar with its window, the
celebration with its claim. Another tab moves cards. **`Columns`** is what of a
column is mounted (`windowFor`, `withFocusHeld`, `handleScroll`), **`FreshClock`**
the one second-hand of the NEW chips (`tick.ts`), **`Lead`** the rail and chip
computed on the server (`card-health.ts`, `book-chip.ts`).

**`Search`**, **`Record`**, **`MyDay`**, **`Standing`**, **`Checklist`**,
**`Correction`**, **`Endpoints`** and **`Team`** are one page each: its
React state, the requests it has out, and the server's state they ask about.
In `Team` the POSTs are numbered, and a form is busy with its own only: "Change access"
is there for every other member while an editor waits, so the POST of an editor that was
replaced and the next one's overlap, and what the replaced one sets is lost, on a reopened
editor of the same member too. In `Columns` the pitch and the height the browser lays out
with (`laid`) and those the column last measured (`metrics`) are two: a resize swaps
`--card-pitch` at the breakpoint, the browser clamps the offset, and the column measures
anew while it listens. History variables (`sheet`, `about`, `throughout`, `repitched`, …)
are named so where they are declared.

**`Session`** has a request walk through `getSession`, `resolveIdentity` and
`begin_request` on a pooled connection whose settings end with the transaction;
each statement then asks `scope_is_global` anew. **`Boot`** has the assertions on
their way beside the folded worker's startup. **`Ingest`** has the semaphore, the
two reads and the write of an acceptance, the jobs of a call with leases and
retries, and the row `call_merge` and the trigger under it make. **`Dial`** has
the five checks of a press in transactions of their own, the gate's two statements, and
the verdict's order; a lead goes out of the caller's sight and comes back meanwhile.
**`Saturation`** has the samples of the event loop and the alert that is awaited
between two of them.

**`Application`** puts the screens and services other than `Board` into one
specification, of which one part moves: no step of one part reads what another
keeps, so the interleavings of two parts add nothing, and one run checks them all.
The parts that do matter to each other are inside one module each (ingest and
merge, the gate and the drawer, the seat and the request, the assertions and the
worker).

The `MC*` modules only give constants their small values.

## 3. Runs

| Run | Instance | What it shows |
|---|---|---|
| `outbox_punctual` | 2 events, 3 consumers (one queued and built but without a handler, one inline), 2 relays, retries, 1 aborted pass | no overrun and every commit confirmed: exactly once, dead rows have letters, attempts add up, claims are exclusive, what settled stays, and the rows implement `Delivery`, its liveness included |
| `outbox_late` | 1 event, 2 relays, 2 overruns, 1 lost commit, 1 abort | what survives those faults: effects never outnumber claims, every delivery settles |
| `earnings_board` | 1 card, 1 seller, undo across a midnight, two corrections, 3 moves, clock to 5 | projection equals ledger and audit equals corrections; the all-time board never shows half an undo nor retracts |
| `earnings_cards` | 2 cards, 2 sellers, 2 claimants, a retried correction, 3 moves | credits stand once, reversals pair up, a card is celebrated once |
| `earnings_reprice` | 1 card, 2 premiums | **refuted:** sale and reversal need not cancel |
| `dispatch_one` | 1 dispatcher, 2 tenants, 3 jobs, 1 fault | no tenant served twice before another once |
| `dispatch_two` | 2 dispatchers, a job and its rescheduling, 1 fault, 1 overrun | two calls schedule one meeting statement by statement, after or beside each other: one live row per episode, asked when due and once per claim, no job lost |
| `dispatch_double` | 2 dispatchers, 1 job, no fault | **refuted:** both hold the job |
| `access_roster` | 2 people, 2 sessions, 3 audit rows each | until calls overlap: an admin remains, UR005/UR010 never fire; the audit history is true |
| `access_nobody` | 2 people, 2 sessions | **refuted:** no admin is left |
| `board` | 2 cards, 2 moves, 1 lost answer, undo window of 2 | confetti and claim only for a move whose window closed without an undo; a visible board that is left alone catches up |
| `application` | see below; 1.3 million states | the twelve properties of the parts |

In `application`: `ViewportCovered` (three cards that come and go, virtualized above two; two
pitches and, at the smaller, two heights), `HandRunsWhileWatched` (two leads), `SubmittedOnce` (two saves of a
phone; three tries of a correction with two answers lost), `AnswerOfTheQuestion`
(four queries; two contacts with a late projection and a note),
`AnswersAreShown` (two contacts, two tokens; an admin and two people, on the team or not
at first, with two POSTs that may overlap and one mishap), `OneReadingAgrees`
(two meetings and a task about a midnight; three sellers with sales and a
correction; two deals over four days), `SiloHolds` (two logins, one pooled
connection, two requests, one change of a seat), `ProcessIsWatched` (a database without
a fault or with one of five, `StartsWrong`: row security bypassed, the raw gate granted, a
bound not validated, a drifted policy, a capability not verified; the assertions for the
others are the same code with another query; two lanes, two evaluations; six seconds with one
refused alert), `NoIdlePermit` and `DeliveriesKept` (two permits, three
deliveries of three bodies and an empty one, two faults), `GateIsObeyed` (two prospects, one without
a phone and one in an all-party state, one press, two events: a press is judged by
what is true while it is under way, statement by statement, and `TheGateIsObeyed` is proved of any number of them).

**Bounds, and why they are enough.** Two actors suffice for every pairwise race
(two relays, dispatchers, calls, claimants, sessions or answers); the interleavings at
stake are between one stale actor and one fresh one. One pooled connection makes
two requests share it in turn, which is the case its context is about; two
permits let one be given back while the other is taken and a third delivery waits. Rows
interact only through shared claims (`BatchSize`/`Limit` 2, so that a batch has a
rest) and through a seller's totals (two cards). Faults have budgets of one or two
because each property fails, if at all, by one of them: the refuted runs need one.
Three stage moves let a card be won, undone and won again; the clock passes the
undo deadline, the reveal delay and a midnight. `MaxTime`, `MaxMoves`, `MaxRows`
and the other `Max*` constants only stop the exploration; the proofs of section 5
do not depend on their values, only on their being natural numbers.

Deadlock is checked in the dispatch runs, whose dispatchers tick for ever. The
other systems may rightly stop (every event settled, clock at its bound, nobody
calling), so their runs say `CHECK_DEADLOCK FALSE`.

`access_roster` uses symmetry between sessions; it checks invariants only.

**Wrong variants.** Each property of a passing run is paired with a wrong variant of a
definition (kept before it in the module, with a comment) under which TLC finds
it violated: a claim that forgets the lease, a retry limit off by one, a
projection that updates one bucket, a guard dropped from `set_active`, a poll that
keeps its tag when it fails, a window without overscan, a second-hand that is not set going
again, a leave that wakes nobody, a check of the clock before the law.

## 4. Fairness

`Outbox`: weak fairness of each relay's work and of the elapse of backoffs and
leases. `scheduleRelay` calls `relayOnce` again after every pass, whatever it
returned or threw, and time passes. There is none for crashes, overruns, lost
commits or new events. `Dispatch`: weak fairness of the statements of a call
under way (a transaction goes on to its end) and of a dispatcher's steps (the
minute cron of pg-boss starts a tick again, and a worker that died is restarted),
of the lapse of leases and of time; none for faults, overruns or schedule calls.
Both depend on the fault budgets: a worker that dies for ever delivers nothing.
`Board`: weak fairness of the tick of a visible tab, of the answers to what it
sent, of the server carrying out what it was sent (a move, a loader's reads and
commit) and of the clock, for `CatchesUp`; none for what the seller does, for another tab or for lost
answers. The other modules promise nothing about the future and have no fairness.

## 5. Proofs

All theorems are checked by TLAPS from nothing, for every value of the constants allowed
by the named assumptions of the modules. A theorem that needs more says so in its
`ASSUME`. Every invariant and action property of a passing run is proved; liveness is not
(see the end of the section).

| Module | About |
|---|---|
| `OutboxProof`, `EarningsProof`, `DispatchProof`, `UserAccessProof`, `BoardProof` | the model of that name |
| `ScreensProof` | the pages: `Columns`, `FreshClock`, `Lead`, `Search`, `Record`, `MyDay`, `Standing`, `Checklist`, `Correction`, `Endpoints`, `Team` |
| `ServicesProof` | the server's parts: `Ingest`, `Session`, `Dial`, `Boot`, `Saturation` |
| `ApplicationProof` | the composition |

**`OutboxProof`.** `TypeCorrect` and `EffectsArePaidFor` under every fault. The other
theorems assume `MaxOverruns = 0 /\ MaxLostCommits = 0` (called `ConfirmedInTime`), the
regime in which the comments of `relay.ts` make their claim; crashes and aborted passes
are allowed. The invariant ties the three places a delivery lives in: a row is in some
relay's batch only while it is claimed and leased, in one batch only, its effect has
landed exactly when it is delivered, its letter is there exactly when it is dead, and
`attempts` is bounded by retries plus aborts with the claim in hand counted. From it:
`DeliveredExactlyOnce`, `ClaimsAreExclusive`, `DeadLettersMatch`, `AttemptsAreAccounted`,
`SettledStays` (an action property) and `ImplementsDelivery`: each step of `Outbox` is a
step of `Delivery` or leaves its variables alone. None of the properties is inductive by
itself: that a claim is exclusive, for example, rests on the lease being held as long as
the batch is. `EffectsArePaidFor` (property `EveryRunWasClaimed`) needs an invariant of
its own, `Paid`: the effects of a row and the relays that still have it in hand are
together no more than its attempts. The effects alone are not inductively so, because a
claim pays for a commit that comes later, when others may have claimed the row too.

**`EarningsProof`.** `EarningsTypeCorrect`, `NeverCreditedTwice`, `ReversalsArePaired`,
`CelebrationStays`, `ShownIsFinal`. The invariant `Kept` adds to the types that ids
identify entries and `seq` numbers them in the order they were appended, that entries of
moves are of their card and its owner, that reversals pair up, and that a card has exactly
one unreversed sale when it is in an earning stage and none otherwise. The pairing needs
the last: a move out of an earning stage reverses the latest standing sale, and there must
be one. `ShownIsFinal` is about time: only an entry appended now can make a pair with an
older one, and `UndoDeadline < RevealDelay` puts that after the deadline.

Totals are sums over a set of entries. That there is a sum, and that an entry more adds
its amount to it, is shown by induction over sets without an operator as a parameter: of
some parts of a finite set one has none of the others in it (`LeastPart`), and the least
part of which the statement fails is taken apart. From these, `EveryEntryIsCounted`: the
projection is the sum of the ledger and the audit has one row per correction, with
`Counted` as the invariant. `HonestUnlessRepriced`: the all-time board is the sum of what
counts whenever every reversal takes back what its sale gave; the hypothesis is the one
`earnings_reprice` refutes, and the theorem says that nothing else can make the board
dishonest.

**`UserAccessProof`.** `AccessTypeCorrect` for every interleaving; `AdminRemains` and
`CounterNeverRefuses` for as long as no call has overlapped another. The invariant says at
most one call is open, that its actor is *still* an active admin, and that it is not
taking anything from its actor. So the self guard is what keeps an admin, as the comment
in 0072 says, and exactly the premise that calls do not overlap is what the deployment
does not give it. `AuditNeverLies` (property `AuditIsTrue`) has two halves: the newest row
of a user says what the user is, raced or not; and each row's *before* is the *after* of
the row before it, until calls overlap. The invariant `Recorded` adds what an open call
has seen of its user, which is what it will write as *before*.

**`DispatchProof`.** `DispatchTyped`, `OneRowPerEpisode` and `GateAskedRightly`, under
every fault and overrun, for a finite set of dispatchers. `OneRowPerEpisode` is about any
number of calls of `schedule_job` for one episode, each anywhere between its snapshot, its
UPDATE and its INSERT: there is exactly one live row as soon as there is any row. The
unique index alone gives "at most one"; that a refused or failed call leaves the old row
live needs the rollback of its cancel, and that an accepted one leaves no other needs that
the rows it found are all its episode has (`CallsSound`, `OneLive`). `DispatchInv` adds to
this and the types how often a job may still be asked about: the verdicts so far, and one
more for each dispatcher that has the job in hand, do not outnumber its claims. Without
the dispatchers in hand the count is not inductive, because a claim and its verdict are
transactions apart and another claim may fall between; that sum is over a set of
dispatchers, hence the assumption that they are finite. That a job in a batch is due
follows from its tick's time being past, never from the clock at the verdict. `StormsWait`
(property `NoSecondHelping`) assumes that a batch has room for every tenant,
`Cardinality(Tenant) <= Limit`. This is not a convenience: the comment at
dispatch.ts:160-162 makes its claim without it, and section 6 has the counterexample.
`scheduled_job_claim` ranks the jobs of each tenant and takes the lowest ranks first; with
room for all the firsts, a second is only taken when every waiting tenant's first is, and
that is a count of at most one job per tenant. The code asks for 50.

**`BoardProof`.** `BoardTypeCorrect` and `ConfettiIsAlwaysEarned`, an action property. A
celebration is of the win the loader read, and the loader reads one only for the card in
the URL. A reload keeps that URL and forgets what was submitted, so the URL alone proves
nothing: but a page loaded as it stands (`popped`) celebrates nothing, and a page that was
not has in its URL a move this document submitted. The invariant `BoardInv` says so of
every place where such a card is kept: the URL and its bar, the requests on their way and
their answers, the win on the screen, the claims.

**`ScreensProof`.**
- `NoCardIsMissed`: a column that heard of its last scroll mounts every card in view,
  through resizes that change its height and its pitch, unless a new pitch came while the
  offset was inside a row. The exception is needed: section 6 has the case
  (`NoGapAfterResize`). The invariant is that what a listening column measured is what it
  is laid out with, and that the offset it knows is the real one, or in the same row of
  the pitch it measured; the rest is arithmetic of `windowFor` (the overscan covers what a
  row of rounding, at either end, leaves out), by division lemmas proved from the
  definition of `\div`.
- `ThePageIsTheContacts`: `RecordKept` says which list a history is at every moment: the
  lines of its contact from the top down to the cursor, none skipped, among those
  projected when each page was read; and which deals a reading on its way will bring,
  given what was started since it was asked for.
- `RowsAreOfTheBox`, `OneLeadHoweverOften`: an answer is kept with the query it is of; a
  phone is on the book once however often it was posted.
- `ADayIsShownOnce`: the statements of a reading each have a clock of their own, and it
  only moves on: what was over for the first is not still to come for the second
  (`ReadSoFar` says of every step what was over when it was taken, and what could not be
  missed).
- `TheGapIsTrue`: the reader's sentence compares neighbours of a sorted list. `Ranking` is
  shown to exist, to be unique and to have everybody once (`Orders`, `SortedBy`: a finite
  strict total order has one enumeration), so the seller above is the one with the least
  larger total; then the distance is arithmetic of cents.
- `RailAndChipAreOne`: both are computed from one row whose dates are not in the future
  (`LeadKept`).
- `OneEntryHoweverOften`: keys are handed out once, a form not changed shows what its key
  was sent with, no key is twice on the ledger.
- `TheListIsTheTeam`, `TheListIsTheServers`: undisturbed, either the list is what the
  server has, or a reading not yet served is on its way, or an answer is that will ask for
  one. The property alone says nothing of the second and third, which is where overlapping
  forms are. In `Team` any number of POSTs overlap, those of editors replaced while they
  waited among them: an answer has the list read again whether or not its form is there.
- `TheHandRuns`, and the types of the parts.

**`ServicesProof`.**
- `NoPermitIsIdle`: permits in use plus the one on its way to a woken delivery are at most
  `Permits`, and if anybody waits all of them are (`PermitsAccounted`).
- `NoDeliveryIsLost` (both parts of `DeliveriesKept`): what was answered 200 is in the
  vault with its one job (`AnsweredIsKept`, `Stored`); what the call's row has of a field
  a merged delivery said, what it has not none of them said, and its two instants bound
  theirs (`Remembered`), which a second run of a job leaves as it was. That is all that
  survives any order: which of two dispositions is kept depends on it, as section 6 says.
- `EverySiloHolds`. The invariant `SiloKept` follows each request through its three
  transactions: its session is one that is signed in or was, from its identity on it
  speaks for that session's login and so does the connection it holds, no two units of
  work share a connection, and a request made without a seat has not got past
  `begin_request`. The property is about rows, the invariant about how they were asked
  for.
- `TheGateIsObeyed`: a lead on the list from the press to the verdict is never told of the
  hour, the recording guard or a number; it is told that the list refuses, unless the
  attempt ended before the gate (`no_capability`, a failure) or the lead was out of sight
  (`not_found`, or the closed answer `blocked_timezone_unknown`); and if it was in sight
  throughout the refusal has its event. The invariant `GateKept` has three parts: a barred
  press that is not judged has its lead still suppressed, a lead's last word deciding
  (`BarredIsStopped`); one in sight had its owner read, so that its refusal is an event
  (`SeenIsTold`); the audit has no row of a press before the verdict and at most one after
  it, which says what the press is told (`OnRecord`).
- `AProcessIsChecked` (while a fault is there its read is still out; a boot under way has
  no relay yet); `SaturationIsSaidTrue` (the breach that is counted began with a sample,
  every one since was over, and a run that began before it has been tried); the types of
  the parts.

**`ApplicationProof`.** `EachPartIsItself`: a behaviour of `Application` is a behaviour of
each of its sixteen parts, so what is proved of a part holds in the composition. From it
and the two modules above, one theorem for each property of the run `application`:
`WhatIsSentTwice`, `AProcessIsWatched`, `DeliveriesAreKept`, `DrawnWhereAsked`,
`WhatWasDoneIsSeen`, `DrawnFromOneReading`, `ApplicationTypeCorrect`, and
`ApplicationKeepsItsWord` for the five that are one part's own.

**What the models say so that they can be proved about.** A value that stands for "none"
is assumed to be none of those it is told from (`AbsentAssumption`, `NoPersonIsNull`,
`NobodyIsNull`, `NilIsNull`, `NoRowIsNull`, `NoFormIsNull`): TLC's model values are so
without being told. `Newest` and `Ranking` choose the one sorted list rather than compute
it, and the `Max*` bounds are assumed to be natural numbers. TLC evaluates every one of
these assumptions.

**Only model-checked.** Liveness (`EveryDeliverySettles`, `NoJobLost`, `CatchesUp` and
`KeepsPromise`, the liveness part of `Delivery`): fairness and `ENABLED` are out of the
prover's reach, so these stay with TLC on the instances of section 3. The three refuted
runs are counterexamples and need no proof.

## 6. Where the code and its own words disagree

Kept as runs (section 3, the refuted ones), with the quotation in `PROJECT.json`:
a reversal takes back the new premium rather than the credited one; two claims
take one job; two admins remove each other.

The modules state further claims of the comments that do not hold. TLC refutes
each one when it replaces the properties of the instance named:

| Claim (definition) | Instance | What happens |
|---|---|---|
| `NeverTwice` (0051:490; relay.ts:15) | `MCOutbox_late` | a stale relay's `outbox_fail` reopens a delivered row; without overruns, `relayOnce` records a failure for a commit whose confirmation was lost |
| `WithinMaxAttempts` (docs/05-architecture.md:714, "`max_attempts = 1`") | `MCOutbox_punctual` | a row abandoned by a dead relay is claimed again whatever its attempts |
| `HonestBoard` (0019:23, "neither half is ever published"; 0045:88) | `MCEarnings_board` | the day board shows each half of an undo across midnight |
| `CelebratesAStandingWin` (0021, "four refusals in one conditional UPDATE") | `MCEarnings_cards` | a reversal commits between the checks and the UPDATE of `celebrate_once` |
| `NeverAskedLate` (dispatch.ts:58, "NOT the moment the tick started") | `MCDispatch_one` | `dispatchDueJobs` reads the clock once per tick |
| `NeverRefused` (0015:99, "rescheduling the meeting moves it rather than adding a second") | `MCDispatch_two` | two calls for one meeting overlap: the second INSERT meets the first one's row (23505), and the time it was called with is lost |
| `NeverAskedForCanceled` (0015, "rescheduling the meeting moves it") | `MCDispatch_two` | nothing looks at the job again after the claim |
| `NoSecondHelping` with a small limit (dispatch.ts:161) | `MCDispatch_one` with `Limit = 1` | each round takes the oldest backlog anew, so one tenant can take every slot |
| `NoConfettiAfterUndo` (undo-bar.tsx:47-50) | `MCBoard` | the bar's timer fires while the undo's request is on its way |
| `TicksNeverGoBack` (use-conditional-poll.ts:38-40, 57-59) | `MCBoard` | a poll asked before the move is answered after the loader |
| `EverySaleIsShown` (celebration.tsx:30-49) | `MCBoard` | a second win replaces the first with what is left of its time |
| `NoGapEver` (virtual-window.ts:97-99) | `MCApplication` | a column that grows past the threshold draws from an offset it never heard of |
| `NoGapAfterResize` (virtual-window.ts:18-20, "which the overscan absorbs") | `MCApplication` | the offset is inside the first row and not rendered; the pitch goes from mobile's to desktop's, the offset is now rows further, and no scroll event comes (state 0, offset 163, 164 to 128: the card at the bottom is missing) |
| `FocusNeverDropped` (virtual-window.ts:139) | `MCApplication` | a card focused while the column was short is not held when it grows; a card that arrives above shifts the held index off the focused card |
| `ChipTellsTheAge` (card-health.ts:44-49) | `MCApplication` | a lead of a later payload is counted from the first payload's instant |
| `ColdIsOneAnswer` (book-chip.ts:4-7) | `MCApplication` | the board counts from any activity, the book from the last human touch |
| `EscapeRestoresFocus` (search-overlay.tsx:20-27) | `MCApplication` | the shortcut pressed in the open overlay makes its own input the opener |
| `ARowIsHighlighted` (search-overlay.tsx:19) | `MCApplication` | a shorter list comes in below the highlight |
| `NoteKeepsItsContact` (the composer's own page) | `MCApplication` | the text typed stays when the URL goes to another contact |
| `AppliedIsRecorded` (earnings-admin.tsx:267) | `MCApplication` | a form changed after a lost answer is answered with the old entry |
| `ListFollowsEveryClick` (integration-health.tsx:77-82) | `MCApplication` | an earlier reading answers last |
| `TokenStaysUntilSaved` (integration-health.tsx:335-350) | `MCApplication` | a reading that fails takes the page and the token off the screen |
| `NothingFallsBetween` (api/my-day.ts:69) | `MCApplication` | an appointment ends between two statements and is in neither list |
| `NeverAnOlderAnswer` (standing-block.tsx:76-79) | `MCApplication` | the superseded read's answer is drawn when it comes |
| `SelfRowOnce` (ui/leaderboard.tsx:69, 162) | `MCApplication` | the viewer is on the podium and pinned below |
| `EmptyMeansNothingEarned` (ui/leaderboard.tsx:84-86) | `MCApplication` | a leader with zero above a correction below zero |
| `TickedIsGranted` (first-run-checklist.tsx:49-60) | `MCApplication` | the permission is changed outside the page |
| `DispositionIsTheLatest` (0049:396, "commutative") | `MCApplication` | a delivery without a disposition advances `provider_last_event_at` |
| `NoneWaitsForAFailedOne` (queues.ts:46-49) | `MCApplication` | a job that failed for good blocks the jobs of its key |
| `NoSettingToFix` (contact-drawer.tsx:407-408, "NONE of them ... suggests a setting to change"; calls.ts:130-133, "The legally binding refusal wins") | `MCApplication` | a lead on STOP: calling is not switched on, and the gate is not asked; or the lead leaves the caller's sight before the gate, and the sentence is to add a ZIP code |
| `NameIsOfTheBook` (ui/shell.tsx:18-19) | `MCApplication` | another tab signs in as somebody else; the poll brings their cards under the old name |

Noted while reading, without a definition: `drawer` messages that blame the time zone
for any refusal of the window (contact-drawer.tsx:424); "Nothing was changed." after an answer
that was lost (earnings-admin.tsx:240, integration-health.tsx:285); a rejected
promise kept by `ensureCapabilities` (pool.ts:210-216); the boot check that "completes before
a request can be served" is not awaited (pool.ts:62-65); a 401 leaves a signed-out
tab its board; no provider event maps to `message.received` (aloware-ingest.ts:87-100).

## 7. Limits of the models

- A stage move's ledger entry carries the time of its commit. In the code it is
  stamped at the INSERT; a commit slower than the guard between the two delays
  is outside `RevealedIsFinal`.
- `event_emit` is atomic: two concurrent emissions of one natural key are not
  modelled, nor are partitions running out.
- Week and month buckets, hand-off of a card, and the events `stage_move` emits
  are left out of `Earnings`.
- The reminder gate is a recorded verdict without its table.
- A call of `schedule_job` waits in `Dispatch` for a row that another call has canceled
  only with three rows of one episode; the run has two, the theorem any number. A call
  waits for the commit of a row it meets in the index before it is refused; the model
  refuses it after that commit.
- `UserAccess` merges `begin_request` and `scope_is_admin` into one admission;
  `Session` has `begin_request` itself.
- `Team` has the roles seller and admin; what other admins do meanwhile is a change of a
  role, and only with the budget of mishaps.
- `Columns` leaves out the column's own padding; a card's place is its index times the
  pitch, and the browser reports a resize and its clamp of the offset in one step.
- `Ingest` follows the deliveries of one provider call into its one row.
- `message_merge` and its STOP are left out: nothing the provider sends reaches
  them. `Dial` takes a STOP as an event of its own.
  One that comes after the verdict is too late for that press; nothing acts on the verdict
  yet, since the dial adapter is not written.
- The calling window is open or shut in `Dial`; its local times and the texts'
  consent are left out.
- `Session` has one tenant: policies of single tables, other tenants and the
  seal of 0067 against a forged context are left out.
- The parts of `Application` do not interact; where two of them read one table
  (a correction and the standing, a seat and the team) each has its own copy.
- Colours, layout, wording, dates and pagination sizes are left out; so are the
  timeline's own columns and the Aloware capture panel, which shows a fixed payload.

**Not modelled.** My Book and plain rendering: one read and its drawing. Schema
declarations, generators, the seed and the gate scripts: they run once, alone,
before the system does. pg-boss and better-auth appear as what the code uses of
them.

## 8. What would come next

1. An abstract specification of `Dispatch` (each live job gets one terminal
   verdict) and of the ledger (a set of standing credits).
2. Two cards with one `client_move_key`, and the emission of one natural key by
   two transactions, once the bounds of `Earnings` and `Outbox` allow.
3. The local times of the calling window against a table of zones.
