----------------------------- MODULE Checklist -----------------------------
(***************************************************************************)
(* The first-run checklist of a seller: two items the server answers for,    *)
(* once, when it mounts; the browser's permission for notifications, which   *)
(* the page hears of only when it asked for it itself; and an item nothing   *)
(* ever sets.                                                              *)
(***************************************************************************)
EXTENDS Naturals, FiniteSets

CONSTANT IsSeller         \* the caller's role is seller

ASSUME ChecklistAssumption == IsSeller \in BOOLEAN

VARIABLES
    checklist,      \* FirstRunChecklist's state
    permission,     \* the browser's for notifications
    drawn,          \* the permission the page last drew
    setUp           \* the items the seller has done

checklistVars == <<checklist, permission, drawn, setUp>>

Item    == {"stagesConfigured", "bookImported"}
Answers == {"default", "granted", "denied"}

ChecklistInit ==
    /\ checklist = [status |-> "loading"]
    /\ permission = "default" /\ drawn = "unknown" /\ setUp = {}

SetsUp(item) ==
    /\ item \notin setUp /\ setUp' = setUp \cup {item}
    /\ UNCHANGED <<checklist, permission, drawn>>

\* A stage is deleted, a book is emptied.
Undoes(item) ==
    /\ item \in setUp /\ setUp' = setUp \ {item}
    /\ UNCHANGED <<checklist, permission, drawn>>

readHomeSetupFor ==
    [isSeller |-> IsSeller, numberVerified |-> FALSE, items |-> setUp]

SetupRead ==
    /\ checklist.status = "loading"
    /\ checklist' = [status |-> "ready", setup |-> readHomeSetupFor]
    /\ drawn' = permission
    /\ UNCHANGED <<permission, setUp>>

SetupReadFailed ==
    /\ checklist.status = "loading"
    /\ checklist' = [status |-> "error"]
    /\ drawn' = permission
    /\ UNCHANGED <<permission, setUp>>

OnScreen == checklist.status = "ready" /\ checklist.setup.isSeller

\* The items that are ticked.
Done ==
    checklist.setup.items
        \cup (IF checklist.setup.numberVerified THEN {"numberVerified"} ELSE {})
        \cup (IF drawn = "granted" THEN {"alerts"} ELSE {})

FirstRunChecklist == IF OnScreen /\ Cardinality(Done) < 4 THEN Done ELSE {}

\* The button is there while the permission drawn is the default; the browser
\* asks only if it still is.
turnOnAlerts(answer) ==
    /\ OnScreen /\ drawn = "default"
    /\ permission' = IF permission = "default" THEN answer ELSE permission
    /\ drawn' = permission'
    /\ UNCHANGED <<checklist, setUp>>

\* In the browser's own settings: nothing tells the page.
PermissionChanged(to) ==
    /\ permission # to /\ permission' = to
    /\ UNCHANGED <<checklist, drawn, setUp>>

ChecklistNext ==
    \/ SetupRead \/ SetupReadFailed
    \/ \E item \in Item : SetsUp(item) \/ Undoes(item)
    \/ \E answer \in Answers : turnOnAlerts(answer) \/ PermissionChanged(answer)

ChecklistSpec == ChecklistInit /\ [][ChecklistNext]_checklistVars

----------------------------------------------------------------------------
ChecklistTypeOK ==
    /\ checklist.status \in {"loading", "ready", "error"}
    /\ permission \in Answers /\ drawn \in Answers \cup {"unknown"}
    /\ setUp \subseteq Item

\* What is ticked is true of the browser (first-run-checklist.tsx:49-60).
TickedIsGranted == "alerts" \in FirstRunChecklist => permission = "granted"
=============================================================================
