----------------------------- MODULE FreshClock -----------------------------
(***************************************************************************)
(* The NEW chip of a fresh lead and the one second-hand all chips share.     *)
(* A payload carries the age its server measured; the browser adds the whole *)
(* seconds since the first chip on the screen subscribed.  The second-hand   *)
(* stands still in a hidden tab.                                             *)
(***************************************************************************)
EXTENDS Naturals

CONSTANTS
    Lead,
    NoChip,
    FreshWindow,    \* FRESH_WINDOW_SECONDS
    MaxTime         \* bound: seconds the tab is watched

ASSUME FreshClockAssumption == FreshWindow \in Nat \ {0} /\ MaxTime \in Nat

VARIABLES
    now,            \* performance.now(), in whole seconds
    arrived,        \* when each lead came in; NoChip before that
    worked,         \* leads somebody has dialled
    shown,          \* tickFromSeconds of each chip mounted
    servedAt,       \* when that age was measured
    baseline, elapsed,
    interval,       \* the setInterval handle is armed
    hidden

freshVars == <<now, arrived, worked, shown, servedAt, baseline, elapsed, interval, hidden>>

Subscribers(chips) == {l \in Lead : chips[l] # NoChip}

Age(l)    == now - arrived[l]
IsHere(l) == arrived[l] # NoChip

\* isFresh and signalOf of card-health.ts, for a card of an open stage.
IsFresh(l) == IsHere(l) /\ l \notin worked /\ Age(l) < FreshWindow

\* TickingChip: past the window the chip renders nothing, but still listens.
Reads(l)   == shown[l] + elapsed
Visible(l) == shown[l] # NoChip /\ Reads(l) < FreshWindow

FreshClockInit ==
    /\ now = 0
    /\ arrived = [l \in Lead |-> NoChip]
    /\ worked = {}
    /\ shown = [l \in Lead |-> NoChip] /\ servedAt = [l \in Lead |-> 0]
    /\ baseline = 0 /\ elapsed = 0
    /\ interval = FALSE
    /\ hidden = FALSE

\* measure.
Measured == now - baseline

TimePasses ==
    /\ now < MaxTime
    /\ now' = now + 1
    /\ UNCHANGED <<arrived, worked, shown, servedAt, baseline, elapsed, interval, hidden>>

IntervalFires ==
    /\ interval
    /\ elapsed' = Measured
    /\ UNCHANGED <<now, arrived, worked, shown, servedAt, baseline, interval, hidden>>

LeadArrives(l) ==
    /\ ~IsHere(l)
    /\ arrived' = [arrived EXCEPT ![l] = now]
    /\ UNCHANGED <<now, worked, shown, servedAt, baseline, elapsed, interval, hidden>>

Dialled(l) ==
    /\ IsHere(l) /\ l \notin worked
    /\ worked' = worked \cup {l}
    /\ UNCHANGED <<now, arrived, shown, servedAt, baseline, elapsed, interval, hidden>>

\* A payload is drawn: chips unmount, take their new age and mount, in that
\* order.  The last to go stops the hand; the first to come sets its origin.
Served ==
    LET chips == [l \in Lead |-> IF IsFresh(l) THEN Age(l) ELSE NoChip]
    IN  /\ shown' = chips
        /\ servedAt' = [l \in Lead |-> now]
        /\ CASE Subscribers(chips) = {} ->
                    interval' = FALSE /\ UNCHANGED <<baseline, elapsed>>
             [] Subscribers(chips) # {} /\ Subscribers(chips) \cap Subscribers(shown) = {} ->
                    baseline' = now /\ elapsed' = 0 /\ interval' = ~hidden
             [] OTHER -> UNCHANGED <<baseline, elapsed, interval>>
        /\ UNCHANGED <<now, arrived, worked, hidden>>

\* onVisibility, listened to while anybody subscribes.
TabHidden ==
    /\ ~hidden /\ hidden' = TRUE
    /\ interval' = FALSE
    /\ UNCHANGED <<now, arrived, worked, shown, servedAt, baseline, elapsed>>

\* Wrong variant: the hand is read again and not set going.
TabShownStill ==
    /\ hidden /\ hidden' = FALSE
    /\ elapsed' = IF Subscribers(shown) = {} THEN elapsed ELSE Measured
    /\ UNCHANGED <<now, arrived, worked, shown, servedAt, baseline, interval>>

TabShown ==
    /\ hidden /\ hidden' = FALSE
    /\ IF Subscribers(shown) = {} THEN UNCHANGED <<elapsed, interval>>
       ELSE elapsed' = Measured /\ interval' = TRUE
    /\ UNCHANGED <<now, arrived, worked, shown, servedAt, baseline>>

FreshClockNext ==
    \/ TimePasses \/ IntervalFires \/ Served \/ TabHidden \/ TabShown
    \/ \E l \in Lead : LeadArrives(l) \/ Dialled(l)

FreshClockSpec ==
    FreshClockInit /\ [][FreshClockNext]_freshVars

----------------------------------------------------------------------------
FreshClockTypeOK ==
    /\ now \in 0..MaxTime /\ arrived \in [Lead -> 0..MaxTime \cup {NoChip}] /\ worked \subseteq Lead
    /\ shown \in [Lead -> 0..FreshWindow \cup {NoChip}] /\ servedAt \in [Lead -> 0..MaxTime]
    /\ baseline \in 0..now /\ elapsed \in 0..MaxTime
    /\ interval \in BOOLEAN /\ hidden \in BOOLEAN

\* The hand runs exactly while a chip is mounted in a tab that is on screen,
\* whatever order hiding, arriving and leaving come in (tick.ts:63-119).
HandRunsWhileWatched == interval <=> (~hidden /\ Subscribers(shown) # {})

\* A chip never shows more than the age of its lead, as long as the payload it
\* came with is the one that started the hand (tick.ts:33-46).
FirstPayloadIsTrue ==
    \A l \in Subscribers(shown) : servedAt[l] = baseline => Reads(l) <= Age(l)

\* The same for every payload: speed-to-lead is "the last number allowed to be
\* approximately right" (card-health.ts:44-49).
ChipTellsTheAge == \A l \in Lead : Visible(l) => Reads(l) <= Age(l)
=============================================================================
