------------------------------- MODULE MyDay -------------------------------
(***************************************************************************)
(* A seller's day: readMyDay asks three questions in one transaction, each    *)
(* with a snapshot and a clock of its own, while appointments are booked,    *)
(* held and cancelled and while time passes, over midnight too.  How the     *)
(* payload reaches the screen is Board's business.                           *)
(***************************************************************************)
EXTENDS Naturals

CONSTANTS
    Meeting, Starts, Lasts,     \* the appointments that may be booked
    Task, Due,
    DayLength, Midnight,        \* the first midnight, in the seller's time zone
    EndOfTime                   \* bound on the clock

ASSUME MyDayAssumption ==
    /\ Starts \in [Meeting -> Nat] /\ Lasts \in [Meeting -> Nat] /\ Due \in [Task -> Nat]
    /\ DayLength \in Nat \ {0} /\ Midnight \in 1..DayLength /\ EndOfTime \in Nat

VARIABLES
    clock,
    booked, settled,            \* meetings; settled ones have an outcome or are canceled
    planned, completed,         \* tasks
    dayRead,                    \* the reading under way: its next statement, and its lists
    day                         \* the payload on the screen

work      == <<booked, settled, planned, completed>>
myDayVars == <<clock, work, dayRead, day>>

Day(t) == (t + DayLength - Midnight) \div DayLength

Open  == booked \ settled
Ends(m) == Starts[m] + Lasts[m]

----------------------------------------------------------------------------
\* The three statements, at the time they are asked.

NeedsOutcome == {m \in Open : Ends(m) < clock}

Appointments == {m \in Open : Day(Starts[m]) = Day(clock) /\ Ends(m) >= clock}

DueToday == {t \in planned \ completed : Day(Due[t]) <= Day(clock)}
DueNow   == {t \in DueToday : Due[t] <= clock}

NoLists == [needsOutcome |-> {}, appointments |-> {}, dueNow |-> {}, laterToday |-> {}]

MyDayInit ==
    /\ clock = 0
    /\ booked = {} /\ settled = {} /\ planned = {} /\ completed = {}
    /\ dayRead = [step |-> 0] /\ day = [lists |-> NoLists, since |-> 0, until |-> 0, throughout |-> {}]

\* throughout is history: the meetings open during the whole reading.
Began ==
    /\ dayRead.step = 0
    /\ dayRead' = [step |-> 1, lists |-> NoLists, since |-> clock, throughout |-> Open]
    /\ UNCHANGED <<clock, work, day>>

Advance(lists) ==
    dayRead' = [dayRead EXCEPT !.step = @ + 1, !.lists = lists, !.throughout = @ \cap Open]

AskNeedsOutcome ==
    /\ dayRead.step = 1
    /\ Advance([dayRead.lists EXCEPT !.needsOutcome = NeedsOutcome])
    /\ UNCHANGED <<clock, work, day>>

AskAppointments ==
    /\ dayRead.step = 2
    /\ Advance([dayRead.lists EXCEPT !.appointments = Appointments])
    /\ UNCHANGED <<clock, work, day>>

\* One statement for both lists of tasks, split by what it said of each.
AskTasks ==
    /\ dayRead.step = 3
    /\ Advance([dayRead.lists EXCEPT !.dueNow = DueNow, !.laterToday = DueToday \ DueNow])
    /\ UNCHANGED <<clock, work, day>>

Drawn ==
    /\ dayRead.step = 4
    /\ day' = [lists |-> dayRead.lists, since |-> dayRead.since, until |-> clock,
               throughout |-> dayRead.throughout \cap Open]
    /\ dayRead' = [step |-> 0]
    /\ UNCHANGED <<clock, work>>

----------------------------------------------------------------------------
\* Everything else.
ClockTicks == clock < EndOfTime /\ clock' = clock + 1 /\ UNCHANGED <<work, dayRead, day>>

Book(m) == /\ m \notin booked /\ booked' = booked \cup {m}
           /\ UNCHANGED <<clock, settled, planned, completed, dayRead, day>>
Settle(m) == /\ m \in Open /\ settled' = settled \cup {m}
             /\ UNCHANGED <<clock, booked, planned, completed, dayRead, day>>
Plan(t) == /\ t \notin planned /\ planned' = planned \cup {t}
           /\ UNCHANGED <<clock, booked, settled, completed, dayRead, day>>
Complete(t) == /\ t \in planned \ completed /\ completed' = completed \cup {t}
               /\ UNCHANGED <<clock, booked, settled, planned, dayRead, day>>

MyDayNext ==
    \/ Began \/ AskNeedsOutcome \/ AskAppointments \/ AskTasks \/ Drawn \/ ClockTicks
    \/ \E m \in Meeting : Book(m) \/ Settle(m)
    \/ \E t \in Task : Plan(t) \/ Complete(t)

MyDaySpec == MyDayInit /\ [][MyDayNext]_myDayVars

----------------------------------------------------------------------------
MyDayTypeOK ==
    /\ clock \in 0..EndOfTime
    /\ settled \subseteq booked /\ booked \subseteq Meeting
    /\ completed \subseteq planned /\ planned \subseteq Task
    /\ dayRead.step \in 0..4
    /\ day.since <= day.until /\ day.until <= clock

\* A day never shows an appointment twice, as one still to come and one waiting
\* for an outcome, and no appointment that had ended before it was read and was
\* open all the while is missing from what needs an outcome: "Cannot be
\* dismissed" (api/my-day.ts:32), although each list is asked at a time of its
\* own.
ShownOnce ==
    LET l == day.lists
    IN  /\ l.needsOutcome \cap l.appointments = {}
        /\ {m \in day.throughout : Ends(m) < day.since} \subseteq l.needsOutcome
        /\ {m \in day.throughout : /\ Day(Starts[m]) = Day(day.since)
                                   /\ Day(day.since) = Day(day.until)
                                   /\ Ends(m) >= day.until} \subseteq l.appointments
        /\ l.dueNow \cap l.laterToday = {}

\* An appointment of today is on the screen whenever it ends.
NothingFallsBetween ==
    {m \in day.throughout : Day(Starts[m]) = Day(day.since) /\ Day(day.since) = Day(day.until)}
        \subseteq day.lists.needsOutcome \cup day.lists.appointments
=============================================================================
