-------------------------------- MODULE Boot --------------------------------
(***************************************************************************)
(* A web process comes up: the connection pool fires its assertions about    *)
(* the database beside the requests it already serves, and the folded worker *)
(* opens its lanes, registers its queues and starts the relay.  Whatever     *)
(* fails ends the process.  The dev server may evaluate the modules again.   *)
(***************************************************************************)
EXTENDS Naturals, Sequences, FiniteSets

CONSTANTS
    Lanes,          \* the lanes ref.job_registry may name
    COMPLIANCE_LANE,
    Unclassified,   \* a queue without a row there
    Environments,   \* what ref.system_constant may say this database is
    StartsWrong,    \* what may be wrong with it at first
    MaxPasses,      \* bound: relay passes and module evaluations
    MaxDrifts       \* bound: mendings of the database, failing reads and restarts

\* What can be wrong with a database, each with its assertion.
assertSafeConnection         == {"superuser", "bypasses rls", "owns the schema"}
assertGateIsRecording        == {"no gate", "gate granted"}
assertEventEmitIsDefinerOnly == {"no emit", "emit granted"}
assertDefinerOwnerIsPolicyBound == {"app is the migrator", "foreign relation"}
assertLedgerAppendIsDefinerOnly == {"no append", "append overloaded", "append granted",
                                    "bound missing", "bound not validated"}
assertTimelineWriterIsDefinerOnly == {"door shut", "upsert granted", "door widened"}
assertDdlGuardIsArmed        == {"guard disabled", "guard not armed"}
\* The last two look at where they are: a test database drifts freely, and
\* only production needs its capabilities verified.
assertProtectedSurfaceUnchanged(env) == IF env = "test" THEN {} ELSE {"no baseline", "drifted"}
assertRequiredCapabilities(env) == IF env = "production" THEN {"capability not verified"} ELSE {}

Asserted(env) ==
    {assertSafeConnection, assertGateIsRecording, assertEventEmitIsDefinerOnly,
     assertDefinerOwnerIsPolicyBound, assertLedgerAppendIsDefinerOnly,
     assertTimelineWriterIsDefinerOnly, assertDdlGuardIsArmed,
     assertProtectedSurfaceUnchanged(env), assertRequiredCapabilities(env)}

Wrong == UNION Asserted("production")

ASSUME BootAssumption ==
    COMPLIANCE_LANE \in Lanes /\ Unclassified \notin Lanes
    /\ Environments \subseteq {"production", "development", "test"}
    /\ StartsWrong \subseteq Wrong
    /\ MaxPasses \in Nat /\ MaxDrifts \in Nat

\* The queues, in the order startWorker handles them.
QueueOrder == <<"scheduled-job-dispatch", "call-merge", "message-merge", "dead-letter">>
Queues == {QueueOrder[i] : i \in DOMAIN QueueOrder}

VARIABLES
    environment,    \* ref.system_constant
    wrong,          \* what is wrong with the database now
    wrongSince,     \* ... and was when this process came up
    laneOf,         \* ref.job_registry
    process,        \* "down", "up", "exited"
    checking,       \* the assertions whose read is on its way
    booted,         \* the BOOTED key of globalThis
    startups,       \* the calls of startWorker on their way, and where each is
    runners,        \* the lanes with a job runner
    handled,        \* how many queues have a handler
    drains,         \* scheduleRelay's chains: how many wait, how many are in a pass
    passes, drifts

databaseVars == <<environment, wrong, laneOf>>
workerVars   == <<booted, startups, runners, handled, drains>>
bootVars     == <<databaseVars, wrongSince, process, checking, workerVars, passes, drifts>>

----------------------------------------------------------------------------
\* At most one thing is wrong to begin with: the database or the registry.
BootInit ==
    /\ environment \in Environments
    /\ \/ /\ wrong \in {{}} \cup {{w} : w \in StartsWrong}
          /\ laneOf = [q \in Queues |-> COMPLIANCE_LANE]
       \/ /\ wrong = {}
          /\ laneOf \in {[q \in Queues |-> IF q = "call-merge" THEN l ELSE COMPLIANCE_LANE] :
                              l \in Lanes \cup {Unclassified}}
                        \cup {[q \in Queues |-> l] : l \in Lanes}
    /\ wrongSince = {} /\ process = "down" /\ checking = {}
    /\ booted = FALSE /\ startups = {} /\ runners = {} /\ handled = 0
    /\ drains = [waiting |-> 0, passing |-> 0] /\ passes = 0 /\ drifts = 0

\* Wrong variant: every evaluation boots a worker.
bootFoldedAgain(already) ==
    /\ booted' = TRUE
    /\ startups' = startups \cup {[n |-> passes, at |-> "lanes"]}

\* Importing the pool fires the assertions, unawaited; entry.server boots the
\* worker, unawaited too.  From here on requests are served.
bootFoldedWorker(already) ==
    /\ booted' = TRUE
    /\ startups' = IF already THEN startups ELSE startups \cup {[n |-> passes, at |-> "lanes"]}

ComesUp ==
    /\ process = "down"
    /\ process' = "up" /\ wrongSince' = wrong
    /\ checking' = Asserted(environment)
    /\ bootFoldedWorker(FALSE)
    /\ UNCHANGED <<databaseVars, runners, handled, drains, passes, drifts>>

\* The dev server evaluates the modules again: the pool is made and asserted
\* again, what modules held is new, and what runs keeps running.
Reevaluated ==
    /\ process = "up" /\ passes < MaxPasses /\ passes' = passes + 1
    /\ environment # "production"
    /\ wrongSince' = wrong /\ checking' = checking \cup Asserted(environment)
    /\ bootFoldedWorker(booted)
    /\ UNCHANGED <<databaseVars, process, runners, handled, drains, drifts>>

\* process.exit(1): nothing of the process is left.
Exit ==
    /\ process' = "exited" /\ checking' = {}
    /\ booted' = FALSE /\ startups' = {} /\ runners' = {} /\ handled' = 0
    /\ drains' = [waiting |-> 0, passing |-> 0]

\* A read comes back, and its assertion throws or does not.
Settles(a) ==
    /\ process = "up" /\ a \in checking
    /\ IF a \cap wrong # {} THEN Exit
       ELSE checking' = checking \ {a} /\ UNCHANGED <<process, workerVars>>
    /\ UNCHANGED <<databaseVars, wrongSince, passes, drifts>>

ReadFails(a) ==
    /\ process = "up" /\ a \in checking
    /\ drifts < MaxDrifts /\ drifts' = drifts + 1
    /\ Exit
    /\ UNCHANGED <<databaseVars, wrongSince, passes>>

----------------------------------------------------------------------------
laneMap == {laneOf[q] : q \in Queues} \ {Unclassified}

GoesOn(s, step) == startups' = (startups \ {s}) \cup {[s EXCEPT !.at = step]}

\* startWorker: the lanes, each with its own runner, or no worker at all.
LanesOpened(s) ==
    /\ s.at = "lanes"
    /\ IF COMPLIANCE_LANE \notin laneMap
       THEN Exit
       ELSE /\ runners' = laneMap /\ GoesOn(s, "queues")
            /\ UNCHANGED <<process, checking, booted, handled, drains>>
    /\ UNCHANGED <<databaseVars, wrongSince, passes, drifts>>

\* ... the next queue's handler; a queue nobody classified has no lane.
QueueHandled(s) ==
    /\ s.at = "queues" /\ handled < Len(QueueOrder)
    /\ IF laneOf[QueueOrder[handled + 1]] \notin runners
       THEN Exit
       ELSE /\ handled' = handled + 1
            /\ UNCHANGED <<process, checking, booted, startups, runners, drains>>
    /\ UNCHANGED <<databaseVars, wrongSince, passes, drifts>>

\* ... and when all are handled the relay and the cron.
RelayStarted(s) ==
    /\ s.at = "queues" /\ handled = Len(QueueOrder)
    /\ startups' = startups \ {s}
    /\ drains' = [drains EXCEPT !.waiting = @ + 1]
    /\ UNCHANGED <<databaseVars, wrongSince, process, checking, booted, runners, handled, passes,
                   drifts>>

\* A statement of startWorker fails: partitions, a runner, the schedule.
StartupFails(s) ==
    /\ drifts < MaxDrifts /\ drifts' = drifts + 1
    /\ Exit
    /\ UNCHANGED <<databaseVars, wrongSince, passes>>

\* scheduleRelay: the timer fires a pass, and the pass, however it ends, sets
\* the next timer.
PassStarts ==
    /\ drains.waiting > 0 /\ passes < MaxPasses /\ passes' = passes + 1
    /\ drains' = [waiting |-> drains.waiting - 1, passing |-> drains.passing + 1]
    /\ UNCHANGED <<databaseVars, wrongSince, process, checking, booted, startups, runners, handled,
                   drifts>>

PassEnds ==
    /\ drains.passing > 0
    /\ drains' = [waiting |-> drains.waiting + 1, passing |-> drains.passing - 1]
    /\ UNCHANGED <<databaseVars, wrongSince, process, checking, booted, startups, runners, handled,
                   passes, drifts>>

\* Somebody mends the database.
Mended ==
    /\ drifts < MaxDrifts /\ drifts' = drifts + 1
    /\ \E w \in wrong : wrong' = wrong \ {w} /\ wrongSince' = wrongSince \ {w}
    /\ UNCHANGED <<environment, laneOf, process, checking, workerVars, passes>>

\* The platform starts the process again.
Restarted ==
    /\ process = "exited" /\ drifts < MaxDrifts /\ drifts' = drifts + 1
    /\ process' = "down"
    /\ UNCHANGED <<databaseVars, wrongSince, checking, workerVars, passes>>

BootNext ==
    \/ ComesUp \/ Reevaluated
    \/ \E a \in checking : Settles(a) \/ ReadFails(a)
    \/ \E s \in startups :
          LanesOpened(s) \/ QueueHandled(s) \/ RelayStarted(s)
          \/ StartupFails(s)
    \/ PassStarts \/ PassEnds \/ Mended \/ Restarted

BootSpec == BootInit /\ [][BootNext]_bootVars

----------------------------------------------------------------------------
\* Every variable holds what the code can store in it.
BootTypeOK ==
    /\ environment \in Environments
    /\ wrong \subseteq Wrong /\ wrongSince \subseteq Wrong
    /\ laneOf \in [Queues -> Lanes \cup {Unclassified}]
    /\ process \in {"down", "up", "exited"} /\ checking \subseteq Asserted(environment)
    /\ booted \in BOOLEAN /\ handled \in 0..Len(QueueOrder) /\ runners \subseteq Lanes
    /\ startups \subseteq [n : 0..MaxPasses, at : {"lanes", "queues"}]
    /\ drains \in [waiting : 0..2, passing : 0..2]
    /\ passes \in 0..MaxPasses /\ drifts \in 0..MaxDrifts

\* "refusing to start" (boot-assert.ts, pool.ts:72-191): a process whose checks
\* are all back and that is still there had nothing of what they look for wrong
\* with its database all along, though each is read at a time of its own.
SettledMeansSafe ==
    (process = "up" /\ checking = {}) =>
        \A w \in wrongSince :
            \/ w = "capability not verified" /\ environment # "production"
            \/ w \in {"no baseline", "drifted"} /\ environment = "test"

\* One relay per process, however often its modules are evaluated (boot.ts:20-31),
\* and only in a process that also works its queues: a relay that passes beside
\* another would claim twice as fast as the design says.
OneDrain ==
    /\ drains.waiting + drains.passing <= 1
    /\ drains.waiting + drains.passing = 1 => handled = Len(QueueOrder) /\ COMPLIANCE_LANE \in runners
=============================================================================
