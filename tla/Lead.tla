-------------------------------- MODULE Lead --------------------------------
(***************************************************************************)
(* How a lead looks: the rail and the chip of its cards on the board, and    *)
(* the one chip of its row in My Book, computed on the server from the deals *)
(* and what was done about them.                                             *)
(***************************************************************************)
EXTENDS Integers, FiniteSets

CONSTANTS
    Deal,           \* the contact's deals
    COLD,           \* cold_threshold_days
    Never,          \* null
    LastDay,        \* bound: the days
    MaxWork         \* bound: deals started and moved, notes, activities

ASSUME LeadAssumption ==
    COLD \in Nat /\ Never \notin Int /\ LastDay \in Nat /\ MaxWork \in Nat

VARIABLES
    today,
    dealt,          \* each deal's stage type, days and attempts; Never until it is started
    overdueFrom,    \* the day the deal's open activity is due, Never for none
    doings          \* how much was done

leadVars == <<today, dealt, overdueFrom, doings>>

Started == {d \in Deal : dealt[d] # Never}
Works == doings < MaxWork /\ doings' = doings + 1

LatestOf(S) == CHOOSE x \in S : \A y \in S : y <= x

----------------------------------------------------------------------------
\* What readPipelineFor reads of a deal: the last activity of any kind, or the
\* day it entered its stage; the age of the deal; what is past due.
days_untouched(d) ==
    today - (IF dealt[d].activity # Never THEN dealt[d].activity ELSE dealt[d].entered)

overdue(d) == overdueFrom[d] # Never /\ overdueFrom[d] < today

signalsSuppressed(d) == dealt[d].stage # "open"

\* FRESH_WINDOW_SECONDS is less than a day.
isFresh(d) == dealt[d].attempts = 0 /\ dealt[d].created = today

healthOf(d) ==
    IF overdue(d) THEN "overdue"
    ELSE IF dealt[d].stage # "open" THEN "ok"
    ELSE IF isFresh(d) THEN "fresh"
    ELSE IF days_untouched(d) >= COLD THEN "going_cold"
    ELSE "ok"

\* The rail of an open deal: days toward the threshold, at most all of it.
decayOf(d) ==
    IF signalsSuppressed(d) \/ COLD <= 0 \/ days_untouched(d) <= 0 THEN 0
    ELSE IF days_untouched(d) < COLD THEN days_untouched(d) ELSE COLD

signalOf(d) ==
    IF signalsSuppressed(d) THEN "none"
    ELSE IF isFresh(d) THEN "fresh"
    ELSE IF overdue(d) THEN "overdue"
    ELSE IF days_untouched(d) >= COLD THEN "going_cold"
    ELSE IF overdueFrom[d] = Never THEN "no_next_step"
    ELSE "none"

\* railFill: a named state fills the rail with its colour; decay fills part.
railFill(d) ==
    CASE healthOf(d) = "overdue"    -> [colour |-> "blocked", filled |-> COLD]
      [] healthOf(d) = "fresh"      -> [colour |-> "fresh", filled |-> COLD]
      [] healthOf(d) = "going_cold" -> [colour |-> "cold", filled |-> COLD]
      [] OTHER -> [colour |-> IF decayOf(d) = 0 THEN "none" ELSE "cold", filled |-> decayOf(d)]

\* readBookFor: the last touch by a human over all deals of the contact.
daysSinceHumanTouch ==
    LET touches == {dealt[d].human : d \in Started} \ {Never}
    IN  IF touches = {} THEN Never ELSE today - LatestOf(touches)

bookChipOf ==
    LET of(type) == {d \in Started : dealt[d].stage = type}
    IN  IF of("earning") # {} THEN "client"
        ELSE IF daysSinceHumanTouch = Never THEN "uncalled"
        ELSE IF of("open") = {} THEN "no_open_deal"
        ELSE IF COLD > 0 /\ daysSinceHumanTouch >= COLD THEN "going_cold"
        ELSE "working"

----------------------------------------------------------------------------
LeadInit ==
    /\ today = 0 /\ doings = 0
    /\ dealt = [d \in Deal |-> Never] /\ overdueFrom = [d \in Deal |-> Never]

DayPasses == today < LastDay /\ today' = today + 1 /\ UNCHANGED <<dealt, overdueFrom, doings>>

\* Quick add, or Start a deal: on the board with nothing done about it.
DealStarted(d) ==
    /\ dealt[d] = Never /\ Works
    /\ dealt' = [dealt EXCEPT ![d] = [stage |-> "open", entered |-> today, created |-> today,
                                      activity |-> Never, human |-> Never, attempts |-> 0]]
    /\ UNCHANGED <<today, overdueFrom>>

\* stage_move: the days of a deal nobody worked start over with its stage.
Moved(d, type) ==
    /\ d \in Started /\ Works
    /\ dealt' = [dealt EXCEPT ![d].stage = type, ![d].entered = today]
    /\ UNCHANGED <<today, overdueFrom>>

\* activity_log_note: the activity is the contact's and names no deal, so
\* touch_from_row finds none to touch.
NoteLogged == Started # {} /\ Works /\ UNCHANGED <<today, dealt, overdueFrom>>

\* A meeting's outcome, or an activity completed by hand or by a sequence, which
\* may be the one that was due; what of them the database holds the seed wrote.
touch_from_row(d, human) ==
    /\ d \in Started /\ Works
    /\ dealt' = [dealt EXCEPT ![d].activity = today, ![d].human = IF human THEN today ELSE @]
    /\ overdueFrom' \in {overdueFrom, [overdueFrom EXCEPT ![d] = Never]}
    /\ UNCHANGED today

Scheduled(d) ==
    /\ d \in Started /\ overdueFrom[d] = Never /\ Works
    /\ overdueFrom' = [overdueFrom EXCEPT ![d] = today]
    /\ UNCHANGED <<today, dealt>>

LeadNext ==
    \/ DayPasses \/ NoteLogged
    \/ \E d \in Deal : \/ DealStarted(d) \/ Scheduled(d)
                       \/ \E type \in {"open", "earning", "lost"} : Moved(d, type)
                       \/ \E human \in BOOLEAN : touch_from_row(d, human)

LeadSpec == LeadInit /\ [][LeadNext]_leadVars

----------------------------------------------------------------------------
Date == 0..LastDay

\* Every variable holds what the database can store in it.
LeadTypeOK ==
    /\ today \in Date /\ doings \in 0..MaxWork
    /\ \A d \in Deal :
          /\ dealt[d] # Never =>
                dealt[d] \in [stage : {"open", "earning", "lost"}, entered : Date, created : Date,
                              activity : Date \cup {Never}, human : Date \cup {Never},
                              attempts : {0}]
          /\ overdueFrom[d] \in Date \cup {Never}

\* The rail and the chip of one card "had drifted apart once already"
\* (card-health.ts:140-141): a chip that says cold has a rail filled cold or
\* overdue, a full cold rail has that chip, a fresh rail the running clock, and
\* a closed deal neither.
RailAndChipAgree ==
    \A d \in Started :
        /\ signalOf(d) = "going_cold" <=>
              railFill(d) = [colour |-> "cold", filled |-> COLD] /\ ~signalsSuppressed(d)
        /\ railFill(d).colour = "fresh" => signalOf(d) = "fresh"
        /\ signalOf(d) = "fresh" => railFill(d).colour \in {"fresh", "blocked"}
        /\ railFill(d).colour = "cold" => dealt[d].stage = "open"

\* What was done about a deal is not undone by moving its card: no step makes a
\* deal that was ever worked look less untouched, but work on it.
WorkIsNotForgotten ==
    [][\A d \in Started :
          (dealt[d].activity # Never /\ dealt'[d].activity = dealt[d].activity)
              => days_untouched(d)' >= days_untouched(d)]_leadVars

\* "'Is this lead going cold' cannot be true on the board and false in the
\* book" (book-chip.ts:4-7).  The board counts from any activity or the stage,
\* the book from the last touch by a human.
ColdIsOneAnswer ==
    (\E d \in Started : signalOf(d) = "going_cold") => bookChipOf \in {"going_cold", "client"}
=============================================================================
