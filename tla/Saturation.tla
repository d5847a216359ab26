----------------------------- MODULE Saturation -----------------------------
(***************************************************************************)
(* The event loop watches itself: a sample every interval, and an alert once *)
(* the p99 has been over its budget for long enough.  A sample that raises   *)
(* one waits for the database; only then is the next timer set.              *)
(***************************************************************************)
EXTENDS Naturals, Sequences, FiniteSets

CONSTANTS
    SUSTAINED,      \* SUSTAINED_MS, in sampling intervals
    NoTime,         \* null
    LastSecond,     \* bound: the clock
    MaxRefusals     \* bound: alerts that cannot be written

ASSUME SaturationAssumption ==
    /\ SUSTAINED \in Nat \ {0} /\ NoTime \notin Nat
    /\ LastSecond \in Nat \ {0} /\ MaxRefusals \in Nat

VARIABLES
    second,         \* Date.now(), in sampling intervals
    due,            \* when the timer fires, NoTime for none
    breachedSince,
    raising,        \* the nowMs of the alert on its way, NoTime for none
    alerts,         \* the alerts written, each the sample that raised it
    samples,        \* what each sample found, in order
    attempts,       \* the samples that tried to raise one
    refusals

satVars == <<second, due, breachedSince, raising, alerts, samples, attempts, refusals>>

SaturationInit ==
    /\ second = 0 /\ due = 1 /\ breachedSince = NoTime /\ raising = NoTime
    /\ alerts = {} /\ samples = <<>> /\ attempts = {}
    /\ refusals = 0

\* A late timer samples late: the clock may pass what is due.
SecondPasses ==
    /\ second < LastSecond /\ second' = second + 1
    /\ UNCHANGED <<due, breachedSince, raising, alerts, samples, attempts, refusals>>

\* sampleOnce, up to its await.
sampleOnce(over) ==
    /\ due # NoTime /\ second >= due
    /\ samples' = Append(samples, [at |-> second, over |-> over])
    /\ breachedSince' = IF ~over THEN NoTime
                        ELSE IF breachedSince = NoTime THEN second ELSE breachedSince
    /\ IF over /\ second - breachedSince' >= SUSTAINED
       THEN /\ raising' = second /\ attempts' = attempts \cup {second} /\ due' = NoTime
       ELSE due' = second + 1 /\ UNCHANGED <<raising, attempts>>
    /\ UNCHANGED <<second, alerts, refusals>>

\* ... the alert is written: the window starts over at the sample's time.
AlertWritten ==
    /\ raising # NoTime
    /\ alerts' = alerts \cup {raising} /\ breachedSince' = raising
    /\ raising' = NoTime /\ due' = second + 1
    /\ UNCHANGED <<second, samples, attempts, refusals>>

\* ... or it is not, and the breach goes on as if nothing had been tried.
AlertRefused ==
    /\ raising # NoTime /\ refusals < MaxRefusals /\ refusals' = refusals + 1
    /\ raising' = NoTime /\ due' = second + 1
    /\ UNCHANGED <<second, breachedSince, alerts, samples, attempts>>

SaturationNext ==
    SecondPasses \/ (\E over \in BOOLEAN : sampleOnce(over))
    \/ AlertWritten \/ AlertRefused

SaturationSpec == SaturationInit /\ [][SaturationNext]_satVars

----------------------------------------------------------------------------
Instants == 0..LastSecond

\* Every variable holds what the code can store in it.
SaturationTypeOK ==
    /\ second \in Instants /\ due \in 0..(LastSecond + 1) \cup {NoTime}
    /\ breachedSince \in Instants \cup {NoTime} /\ raising \in Instants \cup {NoTime}
    /\ alerts \subseteq attempts /\ attempts \subseteq Instants
    /\ samples \in Seq([at : Instants, over : BOOLEAN])
    /\ refusals \in 0..MaxRefusals

OverFrom(i, j) == \A k \in i..j : samples[k].over

\* An alert says "sustained N s" (saturation.ts:112-119), and says it once:
\* every sample of the time before it was over the budget, and no other alert
\* was written about any of it.
AlertIsSustained ==
    \A a \in alerts :
        /\ \E i, j \in DOMAIN samples :
              samples[j].at = a /\ samples[i].at + SUSTAINED <= a /\ OverFrom(i, j)
        /\ \A b \in alerts : b < a => b + SUSTAINED <= a

\* A loop that stays over its budget is told of: no run of samples over it is
\* as long as the sustained time without one that tried to raise the alert.
SaturationIsTold ==
    \A i, j \in DOMAIN samples :
        (i <= j /\ OverFrom(i, j) /\ samples[i].at + SUSTAINED <= samples[j].at) =>
            \E a \in attempts : samples[i].at <= a /\ a <= samples[j].at

=============================================================================
