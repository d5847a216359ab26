---------------------------- MODULE ScreensProof ----------------------------
(***************************************************************************)
(* Proofs about the screens of a browser tab, for every value of their     *)
(* constants: the second-hand of the chips, a correction sent again, and that*)
(* what is drawn is what was last asked for and what the server has.       *)
(***************************************************************************)
EXTENDS Columns, FreshClock, Lead, Search, Record, MyDay, Standing, Checklist,
        Correction, Endpoints, Team, SequenceTheorems, FiniteSetTheorems, TLAPS

----------------------------------------------------------------------------
\* The second-hand of the chips.  Whether it runs, and whether the tab is on
\* screen, are Booleans from the start; with that the property is inductive.
HandKept == interval \in BOOLEAN /\ hidden \in BOOLEAN /\ HandRunsWhileWatched

\* With nothing mounted the hand stands still.
LEMMA HandInit == FreshClockInit => HandKept
  <1> SUFFICES ASSUME FreshClockInit PROVE HandKept
    OBVIOUS
  <1>1. Subscribers(shown) = {}
    BY DEF FreshClockInit, Subscribers
  <1>2. interval = FALSE /\ hidden = FALSE
    BY DEF FreshClockInit
  <1> QED
    BY <1>1, <1>2 DEF HandKept, HandRunsWhileWatched

\* A payload that changes the chips: the last to go stops the hand, the first
\* to come starts it, unless nobody looks.
LEMMA ServedKeepsHand == ASSUME HandKept, Served PROVE HandKept'
  <1>1. hidden' = hidden
    BY DEF Served
  <1>2. CASE Subscribers(shown') = {}
    <2>1. interval' = FALSE
      BY <1>2 DEF Served
    <2>2. Subscribers(shown)' = {}
      BY <1>2 DEF Subscribers
    <2> QED
      BY <1>1, <2>1, <2>2, Zenon DEF HandKept, HandRunsWhileWatched
  <1>3. CASE Subscribers(shown') # {} /\ Subscribers(shown') \cap Subscribers(shown) = {}
    <2>1. interval' = ~hidden
      BY <1>3 DEF Served
    <2>2. Subscribers(shown)' # {}
      BY <1>3 DEF Subscribers
    <2> QED
      BY <1>1, <2>1, <2>2, Zenon DEF HandKept, HandRunsWhileWatched
  <1>4. CASE Subscribers(shown') \cap Subscribers(shown) # {}
    <2>1. interval' = interval
      BY <1>4 DEF Served
    <2>2. Subscribers(shown)' # {} /\ Subscribers(shown) # {}
      BY <1>4 DEF Subscribers
    <2> QED
      BY <1>1, <2>1, <2>2, Zenon DEF HandKept, HandRunsWhileWatched
  <1> QED
    BY <1>2, <1>3, <1>4

\* No step stops a hand somebody looks at or leaves one running for nobody.
LEMMA HandStep == HandKept /\ [FreshClockNext]_freshVars => HandKept'
  <1> SUFFICES ASSUME HandKept, [FreshClockNext]_freshVars PROVE HandKept'
    OBVIOUS
  <1>1. CASE Served
    BY <1>1, ServedKeepsHand
  <1>2. CASE TabHidden
    <2>1. interval' = FALSE /\ hidden' = TRUE
      BY <1>2 DEF TabHidden
    <2> QED
      BY <2>1, Zenon DEF HandKept, HandRunsWhileWatched
  <1>3. CASE TabShown
    <2>1. /\ hidden = TRUE /\ hidden' = FALSE /\ shown' = shown
          /\ IF Subscribers(shown) = {} THEN interval' = interval ELSE interval' = TRUE
      BY <1>3, Zenon DEF TabShown, HandKept
    <2>2. Subscribers(shown)' = Subscribers(shown)
      BY <2>1 DEF Subscribers
    <2> QED
      BY <2>1, <2>2, Zenon DEF HandKept, HandRunsWhileWatched
  <1>4. CASE /\ interval' = interval /\ hidden' = hidden /\ shown' = shown
    <2>1. Subscribers(shown)' = Subscribers(shown)
      BY <1>4 DEF Subscribers
    <2> QED
      BY <1>4, <2>1, Zenon DEF HandKept, HandRunsWhileWatched
  <1> QED
    BY <1>1, <1>2, <1>3, <1>4
    DEF FreshClockNext, freshVars, TimePasses, IntervalFires, LeadArrives, Dialled

\* The hand of the chips runs exactly while somebody can see one, for any leads
\* and any window (lib/board/tick.ts:63-119).
THEOREM TheHandRuns == FreshClockSpec => []HandRunsWhileWatched
  <1>1. HandKept => HandRunsWhileWatched
    BY DEF HandKept
  <1> QED
    BY <1>1, HandInit, HandStep, PTL DEF FreshClockSpec

----------------------------------------------------------------------------
\* The chips and the checklist hold what they may.

\* No lead came in later than now.
ClockTyped ==
    FreshClockTypeOK /\ \A l \in Lead : arrived[l] # NoChip => arrived[l] <= now

LEMMA ClockTypedInit == FreshClockInit => ClockTyped
  <1> SUFFICES ASSUME FreshClockInit PROVE ClockTyped
    OBVIOUS
  <1>1. 0 \in 0..MaxTime /\ 0 \in 0..0
    BY FreshClockAssumption
  <1>2. /\ now = 0 /\ arrived = [l \in Lead |-> NoChip] /\ worked = {}
        /\ shown = [l \in Lead |-> NoChip] /\ servedAt = [l \in Lead |-> 0]
        /\ baseline = 0 /\ elapsed = 0 /\ interval = FALSE /\ hidden = FALSE
    BY DEF FreshClockInit
  <1>3. interval \in BOOLEAN /\ hidden \in BOOLEAN
    BY <1>2
  <1>4. /\ now \in 0..MaxTime /\ worked \subseteq Lead
        /\ baseline \in 0..now /\ elapsed \in 0..MaxTime
        /\ servedAt \in [Lead -> 0..MaxTime]
    BY <1>1, <1>2
  <1>5. /\ arrived \in [Lead -> 0..MaxTime \cup {NoChip}]
        /\ shown \in [Lead -> 0..FreshWindow \cup {NoChip}]
        /\ \A l \in Lead : arrived[l] # NoChip => arrived[l] <= now
    BY <1>2
  <1> QED
    BY <1>3, <1>4, <1>5 DEF ClockTyped, FreshClockTypeOK

LEMMA ClockTypedStep == ClockTyped /\ [FreshClockNext]_freshVars => ClockTyped'
  <1> SUFFICES ASSUME ClockTyped, [FreshClockNext]_freshVars PROVE ClockTyped'
    OBVIOUS
  <1>1. /\ now \in 0..MaxTime /\ arrived \in [Lead -> 0..MaxTime \cup {NoChip}] /\ worked \subseteq Lead
        /\ shown \in [Lead -> 0..FreshWindow \cup {NoChip}] /\ servedAt \in [Lead -> 0..MaxTime]
        /\ baseline \in 0..now /\ elapsed \in 0..MaxTime
        /\ interval \in BOOLEAN /\ hidden \in BOOLEAN
        /\ \A l \in Lead : arrived[l] # NoChip => arrived[l] <= now
        /\ FreshWindow \in Nat /\ MaxTime \in Nat
    BY FreshClockAssumption DEF ClockTyped, FreshClockTypeOK
  <1>2. Measured \in 0..MaxTime
    BY <1>1 DEF Measured
  <1>3. CASE TimePasses
    <2>1. /\ now < MaxTime /\ now' = now + 1
          /\ UNCHANGED <<arrived, worked, shown, servedAt, baseline, elapsed, interval, hidden>>
      BY <1>3 DEF TimePasses
    <2>2. \A l \in Lead : arrived[l] # NoChip => arrived[l] \in 0..MaxTime
      BY <1>1
    <2> QED
      BY <1>1, <2>1, <2>2 DEF ClockTyped, FreshClockTypeOK
  <1>4. CASE IntervalFires
    BY <1>1, <1>2, <1>4 DEF IntervalFires, ClockTyped, FreshClockTypeOK
  <1>5. CASE Served
    <2>1. ASSUME NEW l \in Lead, IsFresh(l) PROVE Age(l) \in 0..FreshWindow
      BY <1>1, <2>1 DEF IsFresh, IsHere, Age
    <2>2. shown' \in [Lead -> 0..FreshWindow \cup {NoChip}]
      BY <2>1, <1>5 DEF Served
    <2>3. servedAt' \in [Lead -> 0..MaxTime]
      BY <1>1, <1>5 DEF Served
    <2>4. UNCHANGED <<now, arrived, worked, hidden>>
      BY <1>5 DEF Served
    <2>5. baseline' \in 0..now /\ elapsed' \in 0..MaxTime /\ interval' \in BOOLEAN
      <3>1. \/ interval' = FALSE /\ UNCHANGED <<baseline, elapsed>>
            \/ baseline' = now /\ elapsed' = 0 /\ interval' = ~hidden
            \/ UNCHANGED <<baseline, elapsed, interval>>
        <4>1. CASE Subscribers(shown') = {}
          BY <1>5, <4>1 DEF Served
        <4>2. CASE Subscribers(shown') # {} /\ Subscribers(shown') \cap Subscribers(shown) = {}
          BY <1>5, <4>2 DEF Served
        <4>3. CASE Subscribers(shown') # {} /\ Subscribers(shown') \cap Subscribers(shown) # {}
          BY <1>5, <4>3 DEF Served
        <4> QED
          BY <4>1, <4>2, <4>3
      <3>2. interval' \in BOOLEAN
        BY <1>1, <3>1
      <3>3. 0 \in 0..MaxTime /\ now \in 0..now
        BY <1>1
      <3>4. (baseline' = baseline /\ elapsed' = elapsed) \/ (baseline' = now /\ elapsed' = 0)
        BY <3>1
      <3> QED
        BY <1>1, <3>2, <3>3, <3>4
    <2> QED
      BY <1>1, <2>2, <2>3, <2>4, <2>5 DEF ClockTyped, FreshClockTypeOK
  <1>6. CASE TabHidden
    BY <1>1, <1>6 DEF TabHidden, ClockTyped, FreshClockTypeOK
  <1>7. CASE TabShown
    BY <1>1, <1>2, <1>7 DEF TabShown, ClockTyped, FreshClockTypeOK
  <1>8. ASSUME NEW l \in Lead, LeadArrives(l) PROVE ClockTyped'
    <2>1. /\ arrived' = [arrived EXCEPT ![l] = now]
          /\ UNCHANGED <<now, worked, shown, servedAt, baseline, elapsed, interval, hidden>>
      BY <1>8 DEF LeadArrives
    <2> QED
      BY <1>1, <2>1 DEF ClockTyped, FreshClockTypeOK
  <1>9. ASSUME NEW l \in Lead, Dialled(l) PROVE ClockTyped'
    BY <1>1, <1>9 DEF Dialled, ClockTyped, FreshClockTypeOK
  <1>10. CASE UNCHANGED freshVars
    BY <1>1, <1>10 DEF freshVars, ClockTyped, FreshClockTypeOK
  <1> QED
    BY <1>3, <1>4, <1>5, <1>6, <1>7, <1>8, <1>9, <1>10 DEF FreshClockNext

\* An age that is drawn is one within the window, and the hand counts the
\* seconds the tab was watched.
THEOREM ClockTypeCorrect == FreshClockSpec => []FreshClockTypeOK
  <1>1. ClockTyped => FreshClockTypeOK
    BY DEF ClockTyped
  <1> QED
    BY <1>1, ClockTypedInit, ClockTypedStep, PTL DEF FreshClockSpec

LEMMA ChecklistTypedStep == ChecklistTypeOK /\ [ChecklistNext]_checklistVars => ChecklistTypeOK'
  <1> SUFFICES ASSUME ChecklistTypeOK, [ChecklistNext]_checklistVars PROVE ChecklistTypeOK'
    OBVIOUS
  <1>1. CASE SetupRead \/ SetupReadFailed
    BY <1>1 DEF SetupRead, SetupReadFailed, ChecklistTypeOK
  <1>2. ASSUME NEW item \in Item, SetsUp(item) \/ Undoes(item) PROVE ChecklistTypeOK'
    BY <1>2 DEF SetsUp, Undoes, ChecklistTypeOK
  <1>3. ASSUME NEW said \in Answers, turnOnAlerts(said) \/ PermissionChanged(said)
        PROVE  ChecklistTypeOK'
    BY <1>3 DEF turnOnAlerts, PermissionChanged, ChecklistTypeOK
  <1>4. CASE UNCHANGED checklistVars
    BY <1>4 DEF checklistVars, ChecklistTypeOK
  <1> QED
    BY <1>1, <1>2, <1>3, <1>4 DEF ChecklistNext

\* The checklist knows no item and no permission but those there are.
THEOREM ChecklistTypeCorrect == ChecklistSpec => []ChecklistTypeOK
  <1>1. ChecklistInit => ChecklistTypeOK
    BY DEF ChecklistInit, ChecklistTypeOK, Answers
  <1> QED
    BY <1>1, ChecklistTypedStep, PTL DEF ChecklistSpec

----------------------------------------------------------------------------
\* A correction sent again after lost answers.

Submission == [key : Nat, sheet : Nat, owner : Seller, delta : Delta, changed : BOOLEAN,
               answer : {"none", "applied", "refused"}, heard : {"waiting", "yes", "lost"}]

CorrectionTypes ==
    /\ form = NoForm \/ form \in Form
    /\ keys \in Nat
    /\ submits \in Seq(Submission)
    /\ ledger \in Seq(Nat)

\* A key is handed out once, and a form is sent with the key it shows.
KeysAreForms ==
    /\ form # NoForm => form.key = form.sheet /\ form.key <= keys
    /\ \A i \in DOMAIN submits : submits[i].key = submits[i].sheet /\ submits[i].key <= keys

\* A form that was not changed shows what its key was sent with, and so do two
\* tries of one key that were not.
UnchangedIsTheSame ==
    /\ (form # NoForm /\ ~form.changed) =>
          \A i \in DOMAIN submits : submits[i].sheet = form.sheet =>
              submits[i].owner = form.owner /\ submits[i].delta = form.delta
    /\ \A i, j \in DOMAIN submits :
          (submits[i].sheet = submits[j].sheet /\ ~submits[i].changed /\ ~submits[j].changed) =>
              submits[i].owner = submits[j].owner /\ submits[i].delta = submits[j].delta

\* The ledger holds submissions, none of whose keys is there twice, and has the
\* key of every submission that was applied.
LedgerHasKeys ==
    /\ \A e \in DOMAIN ledger : ledger[e] \in DOMAIN submits
    /\ \A e, f \in DOMAIN ledger :
          submits[ledger[e]].key = submits[ledger[f]].key => e = f
    /\ \A i \in DOMAIN submits : submits[i].answer = "applied" =>
          \E e \in DOMAIN ledger : submits[ledger[e]].key = submits[i].key

CorrectionKept == CorrectionTypes /\ KeysAreForms /\ UnchangedIsTheSame /\ LedgerHasKeys

\* Nothing was sent, and no form is on the screen.
LEMMA CorrectionStart == CorrectionInit => CorrectionKept
  <1> SUFFICES ASSUME CorrectionInit PROVE CorrectionKept
    OBVIOUS
  <1>1. form = NoForm /\ keys = 0 /\ submits = <<>> /\ ledger = <<>>
    BY DEF CorrectionInit
  <1>2. DOMAIN submits = {} /\ DOMAIN ledger = {} /\ submits \in Seq(Submission) /\ ledger \in Seq(Nat)
    BY <1>1
  <1> QED
    BY <1>1, <1>2
    DEF CorrectionKept, CorrectionTypes, KeysAreForms, UnchangedIsTheSame, LedgerHasKeys

\* Every submission is one.
LEMMA SubmissionsAre ==
    ASSUME CorrectionKept
    PROVE  \A i \in DOMAIN submits : submits[i] \in Submission
  <1>1. submits \in Seq(Submission)
    BY DEF CorrectionKept, CorrectionTypes
  <1> QED
    BY <1>1, LenProperties, ElementOfSeq

\* A form that mounts has a key nothing was sent with.
LEMMA OpenedForm ==
    ASSUME CorrectionKept
    PROVE  /\ Opened(keys + 1) \in Form
           /\ Opened(keys + 1).key = keys + 1 /\ Opened(keys + 1).sheet = keys + 1
           /\ \A i \in DOMAIN submits : submits[i].sheet # keys + 1
  <1>1. keys \in Nat /\ submits \in Seq(Submission)
    BY DEF CorrectionKept, CorrectionTypes
  <1>2. \A i \in DOMAIN submits : submits[i].sheet <= keys /\ submits[i].sheet \in Nat
    BY <1>1, SubmissionsAre DEF CorrectionKept, KeysAreForms, Submission
  <1>3. (CHOOSE s \in Seller : TRUE) \in Seller /\ (CHOOSE d \in Delta : TRUE) \in Delta
    BY CorrectionAssumption
  <1> QED
    BY <1>1, <1>2, <1>3 DEF Opened, Form

\* A step that changes only the form, to one of an old key that still shows what
\* was sent or to one of a new key, keeps the invariant.
LEMMA FormChanges ==
    ASSUME CorrectionKept, UNCHANGED <<submits, ledger>>, keys' \in Nat, keys <= keys',
           form' = NoForm \/ form' \in Form,
           form' # NoForm => form'.key = form'.sheet /\ form'.key <= keys',
           (form' # NoForm /\ ~form'.changed) =>
              \A i \in DOMAIN submits : submits[i].sheet = form'.sheet =>
                  submits[i].owner = form'.owner /\ submits[i].delta = form'.delta
    PROVE  CorrectionKept'
  <1>1. keys \in Nat /\ submits \in Seq(Submission)
    BY DEF CorrectionKept, CorrectionTypes
  <1>2. CorrectionTypes'
    BY DEF CorrectionKept, CorrectionTypes
  <1>3. \A i \in DOMAIN submits : submits[i].key \in Nat
    BY SubmissionsAre DEF Submission
  <1>4. KeysAreForms'
    BY <1>1, <1>3 DEF CorrectionKept, KeysAreForms
  <1>5. UnchangedIsTheSame'
    BY DEF CorrectionKept, UnchangedIsTheSame
  <1>6. LedgerHasKeys'
    BY DEF CorrectionKept, LedgerHasKeys
  <1> QED
    BY <1>2, <1>4, <1>5, <1>6 DEF CorrectionKept

\* A reading that fails takes the form away, a later one brings a new key.
LEMMA PageKeeps == ASSUME CorrectionKept, BoardRead \/ BoardReadFailed PROVE CorrectionKept'
  <1>1. CASE BoardRead /\ page # "ready"
    <2>1. form' = Opened(keys + 1) /\ keys' = keys + 1 /\ UNCHANGED <<submits, ledger>>
      BY <1>1 DEF BoardRead
    <2>2. keys \in Nat
      BY DEF CorrectionKept, CorrectionTypes
    <2> QED
      BY <2>1, <2>2, OpenedForm, FormChanges
  <1>2. CASE BoardRead /\ page = "ready"
    <2>1. form' = form /\ keys' = keys /\ UNCHANGED <<submits, ledger>>
      BY <1>2 DEF BoardRead
    <2> QED
      BY <2>1, FormChanges DEF CorrectionKept, CorrectionTypes, KeysAreForms, UnchangedIsTheSame
  <1>3. CASE BoardReadFailed
    <2>1. form' = NoForm /\ keys' = keys /\ UNCHANGED <<submits, ledger>>
      BY <1>3 DEF BoardReadFailed
    <2> QED
      BY <2>1, FormChanges DEF CorrectionKept, CorrectionTypes
  <1> QED
    BY <1>1, <1>2, <1>3

\* Only an edit before the first try leaves the form unchanged.
LEMMA EditKeeps ==
    ASSUME CorrectionKept, NEW owner \in Seller, NEW delta \in Delta, Edit(owner, delta)
    PROVE  CorrectionKept'
  <1>1. /\ form # NoForm /\ keys' = keys /\ UNCHANGED <<submits, ledger>>
        /\ form' = [form EXCEPT !.owner = owner, !.delta = delta, !.changed = Sent # {}]
    BY DEF Edit
  <1>2. form \in Form /\ keys \in Nat
    BY <1>1 DEF CorrectionKept, CorrectionTypes
  <1>3. PICK changed \in BOOLEAN : changed = (Sent # {})
    OBVIOUS
  <1>4. form' = [form EXCEPT !.owner = owner, !.delta = delta, !.changed = changed]
    BY <1>1, <1>3
  <1>5. /\ form' \in Form /\ form'.key = form.key /\ form'.sheet = form.sheet
        /\ form'.changed = changed
    BY <1>2, <1>4 DEF Form
  <1>6. ~changed => \A i \in DOMAIN submits : submits[i].sheet # form.sheet
    BY <1>3 DEF Sent
  <1>7. form.key = form.sheet /\ form.key <= keys
    BY <1>1 DEF CorrectionKept, KeysAreForms
  <1> QED
    BY <1>1, <1>2, <1>5, <1>6, <1>7, FormChanges

\* The confirmation is a flag on the form.
LEMMA ReviewKeeps == ASSUME CorrectionKept, Review PROVE CorrectionKept'
  <1>1. /\ form # NoForm /\ keys' = keys /\ UNCHANGED <<submits, ledger>>
        /\ form' = [form EXCEPT !.confirming = TRUE]
    BY DEF Review
  <1>2. form \in Form /\ keys \in Nat
    BY <1>1 DEF CorrectionKept, CorrectionTypes
  <1>3. /\ form' \in Form /\ form'.key = form.key /\ form'.sheet = form.sheet
        /\ form'.changed = form.changed /\ form'.owner = form.owner /\ form'.delta = form.delta
    BY <1>1, <1>2 DEF Form
  <1>4. form.key = form.sheet /\ form.key <= keys
    BY <1>1 DEF CorrectionKept, KeysAreForms
  <1> QED
    BY <1>1, <1>2, <1>3, <1>4, FormChanges DEF CorrectionKept, UnchangedIsTheSame

\* The new try has the form's key, and what it says is what was sent before
\* unless it is marked as changed.
LEMMA submitKeeps == ASSUME CorrectionKept, submit PROVE CorrectionKept'
  <1> DEFINE n == Len(submits)
  <1>1. form # NoForm /\ keys' = keys /\ ledger' = ledger /\ form' = [form EXCEPT !.busy = TRUE]
    BY DEF submit
  <1>2. form \in Form /\ keys \in Nat /\ submits \in Seq(Submission) /\ ledger \in Seq(Nat) /\ n \in Nat
    BY <1>1 DEF CorrectionKept, CorrectionTypes
  <1>3. PICK new \in Submission :
            /\ submits' = Append(submits, new)
            /\ new.key = form.key /\ new.sheet = form.sheet /\ new.owner = form.owner
            /\ new.delta = form.delta /\ new.changed = form.changed /\ new.answer = "none"
    <2>1. PICK new : new = [key |-> form.key, sheet |-> form.sheet, owner |-> form.owner,
                            delta |-> form.delta, changed |-> form.changed, answer |-> "none",
                            heard |-> "waiting"]
      OBVIOUS
    <2>2. submits' = Append(submits, new)
      BY <2>1 DEF submit
    <2>3. new \in Submission
      BY <1>2, <2>1 DEF Form, Submission
    <2> QED
      BY <2>1, <2>2, <2>3
  <1>4. /\ submits' \in Seq(Submission) /\ DOMAIN submits = 1..n /\ DOMAIN submits' = 1..(n + 1)
        /\ submits'[n + 1] = new /\ \A i \in 1..n : submits'[i] = submits[i]
    BY <1>2, <1>3
  <1>5. /\ form' \in Form /\ form'.key = form.key /\ form'.sheet = form.sheet
        /\ form'.changed = form.changed /\ form'.owner = form.owner /\ form'.delta = form.delta
    BY <1>1, <1>2 DEF Form
  <1>6. CorrectionTypes'
    BY <1>1, <1>2, <1>4, <1>5 DEF CorrectionTypes
  <1>7. form.key = form.sheet /\ form.key <= keys
    BY <1>1 DEF CorrectionKept, KeysAreForms
  <1>8. KeysAreForms'
    <2>1. \A i \in DOMAIN submits' : submits'[i].key = submits'[i].sheet /\ submits'[i].key <= keys
      <3> SUFFICES ASSUME NEW i \in 1..(n + 1)
                   PROVE  submits'[i].key = submits'[i].sheet /\ submits'[i].key <= keys
        BY <1>4
      <3>1. CASE i = n + 1
        BY <1>3, <1>4, <1>7, <3>1
      <3>2. CASE i \in 1..n
        BY <1>4, <3>2 DEF CorrectionKept, KeysAreForms
      <3> QED
        BY <1>2, <3>1, <3>2
    <2> QED
      BY <1>1, <1>5, <1>7, <2>1 DEF KeysAreForms
  <1>9. ~form.changed => \A i \in 1..n : submits[i].sheet = form.sheet =>
            submits[i].owner = form.owner /\ submits[i].delta = form.delta
    BY <1>1, <1>4 DEF CorrectionKept, UnchangedIsTheSame
  <1>10. \A i, j \in 1..n :
            (submits[i].sheet = submits[j].sheet /\ ~submits[i].changed /\ ~submits[j].changed) =>
                submits[i].owner = submits[j].owner /\ submits[i].delta = submits[j].delta
    BY <1>4 DEF CorrectionKept, UnchangedIsTheSame
  <1>11. UnchangedIsTheSame'
    <2>1. (form' # NoForm /\ ~form'.changed) =>
            \A i \in DOMAIN submits' : submits'[i].sheet = form'.sheet =>
                submits'[i].owner = form'.owner /\ submits'[i].delta = form'.delta
      <3> SUFFICES ASSUME ~form.changed, NEW i \in 1..(n + 1), submits'[i].sheet = form.sheet
                   PROVE  submits'[i].owner = form.owner /\ submits'[i].delta = form.delta
        BY <1>4, <1>5
      <3>1. CASE i = n + 1
        BY <1>3, <1>4, <3>1
      <3>2. CASE i \in 1..n
        BY <1>4, <1>9, <3>2
      <3> QED
        BY <1>2, <3>1, <3>2
    <2>2. \A i, j \in DOMAIN submits' :
            (submits'[i].sheet = submits'[j].sheet /\ ~submits'[i].changed /\ ~submits'[j].changed) =>
                submits'[i].owner = submits'[j].owner /\ submits'[i].delta = submits'[j].delta
      <3> SUFFICES ASSUME NEW i \in 1..(n + 1), NEW j \in 1..(n + 1),
                          submits'[i].sheet = submits'[j].sheet,
                          ~submits'[i].changed, ~submits'[j].changed
                   PROVE  submits'[i].owner = submits'[j].owner /\ submits'[i].delta = submits'[j].delta
        BY <1>4
      <3>1. CASE i = n + 1 /\ j = n + 1
        BY <3>1
      <3>2. CASE i = n + 1 /\ j \in 1..n
        BY <1>3, <1>4, <1>9, <3>2
      <3>3. CASE i \in 1..n /\ j = n + 1
        BY <1>3, <1>4, <1>9, <3>3
      <3>4. CASE i \in 1..n /\ j \in 1..n
        BY <1>4, <1>10, <3>4
      <3> QED
        BY <1>2, <3>1, <3>2, <3>3, <3>4
    <2> QED
      BY <2>1, <2>2 DEF UnchangedIsTheSame
  <1>12. LedgerHasKeys'
    <2>1. /\ \A e \in DOMAIN ledger : ledger[e] \in 1..n
          /\ \A e, f \in DOMAIN ledger : submits[ledger[e]].key = submits[ledger[f]].key => e = f
          /\ \A i \in 1..n : submits[i].answer = "applied" =>
                \E e \in DOMAIN ledger : submits[ledger[e]].key = submits[i].key
      BY <1>4 DEF CorrectionKept, LedgerHasKeys
    <2>2. \A e \in DOMAIN ledger : ledger[e] \in 1..(n + 1) /\ submits'[ledger[e]] = submits[ledger[e]]
      BY <1>2, <1>4, <2>1
    <2>3. \A i \in 1..(n + 1) : submits'[i].answer = "applied" =>
                \E e \in DOMAIN ledger : submits'[ledger[e]].key = submits'[i].key
      <3> SUFFICES ASSUME NEW i \in 1..(n + 1), submits'[i].answer = "applied"
                   PROVE  \E e \in DOMAIN ledger : submits'[ledger[e]].key = submits'[i].key
        OBVIOUS
      <3>1. i \in 1..n /\ submits'[i] = submits[i]
        BY <1>2, <1>3, <1>4
      <3>2. PICK e \in DOMAIN ledger : submits[ledger[e]].key = submits[i].key
        BY <2>1, <3>1
      <3> QED
        BY <2>2, <3>1, <3>2
    <2> QED
      BY <1>1, <1>4, <2>1, <2>2, <2>3 DEF LedgerHasKeys
  <1> QED
    BY <1>6, <1>8, <1>11, <1>12 DEF CorrectionKept

\* One submission's fate changes: all else that is said of it does not.
LEMMA FateOnly ==
    ASSUME CorrectionKept, NEW i \in DOMAIN submits, NEW fate \in Submission,
           fate.key = submits[i].key, fate.sheet = submits[i].sheet, fate.owner = submits[i].owner,
           fate.delta = submits[i].delta, fate.changed = submits[i].changed,
           submits' = [submits EXCEPT ![i] = fate]
    PROVE  /\ submits' \in Seq(Submission) /\ DOMAIN submits' = DOMAIN submits
           /\ submits'[i] = fate
           /\ \A j \in DOMAIN submits :
                /\ submits'[j].key = submits[j].key /\ submits'[j].sheet = submits[j].sheet
                /\ submits'[j].owner = submits[j].owner /\ submits'[j].delta = submits[j].delta
                /\ submits'[j].changed = submits[j].changed
                /\ j # i => submits'[j] = submits[j]
  <1>1. submits \in Seq(Submission)
    BY DEF CorrectionKept, CorrectionTypes
  <1> QED
    BY <1>1

\* ... and with the form, or a new one, as it may be, the rest of the invariant
\* but for the ledger stands.
LEMMA FateKeeps ==
    ASSUME CorrectionKept, NEW i \in DOMAIN submits, NEW fate \in Submission,
           fate.key = submits[i].key, fate.sheet = submits[i].sheet, fate.owner = submits[i].owner,
           fate.delta = submits[i].delta, fate.changed = submits[i].changed,
           submits' = [submits EXCEPT ![i] = fate],
           keys' \in Nat, keys <= keys', form' = NoForm \/ form' \in Form,
           form' # NoForm => form'.key = form'.sheet /\ form'.key <= keys',
           (form' # NoForm /\ ~form'.changed) =>
              \A j \in DOMAIN submits : submits[j].sheet = form'.sheet =>
                  submits[j].owner = form'.owner /\ submits[j].delta = form'.delta
    PROVE  /\ submits' \in Seq(Submission)
           /\ KeysAreForms' /\ UnchangedIsTheSame'
  <1>1. /\ submits' \in Seq(Submission) /\ DOMAIN submits' = DOMAIN submits
        /\ \A j \in DOMAIN submits :
             /\ submits'[j].key = submits[j].key /\ submits'[j].sheet = submits[j].sheet
             /\ submits'[j].owner = submits[j].owner /\ submits'[j].delta = submits[j].delta
             /\ submits'[j].changed = submits[j].changed
    BY FateOnly
  <1>2. keys \in Nat /\ \A j \in DOMAIN submits : submits[j].key \in Nat
    BY SubmissionsAre DEF CorrectionKept, CorrectionTypes, Submission
  <1>3. KeysAreForms'
    <2>1. \A j \in DOMAIN submits' : submits'[j].key = submits'[j].sheet /\ submits'[j].key <= keys'
      BY <1>1, <1>2 DEF CorrectionKept, KeysAreForms
    <2> QED
      BY <2>1 DEF KeysAreForms
  <1>4. UnchangedIsTheSame'
    <2>1. \A j, k \in DOMAIN submits' :
            (submits'[j].sheet = submits'[k].sheet /\ ~submits'[j].changed /\ ~submits'[k].changed) =>
                submits'[j].owner = submits'[k].owner /\ submits'[j].delta = submits'[k].delta
      BY <1>1 DEF CorrectionKept, UnchangedIsTheSame
    <2>2. (form' # NoForm /\ ~form'.changed) =>
            \A j \in DOMAIN submits' : submits'[j].sheet = form'.sheet =>
                submits'[j].owner = form'.owner /\ submits'[j].delta = form'.delta
      BY <1>1
    <2> QED
      BY <2>1, <2>2 DEF UnchangedIsTheSame
  <1> QED
    BY <1>1, <1>3, <1>4

\* The server takes a key once, and answers "applied" only when it has it.
LEMMA correctLedgerKeeps ==
    ASSUME CorrectionKept, NEW i \in DOMAIN submits, correctLedger(i) PROVE CorrectionKept'
  <1> DEFINE m == Len(ledger)
  <1>1. /\ submits \in Seq(Submission) /\ submits[i] \in Submission /\ keys \in Nat
        /\ ledger \in Seq(Nat) /\ m \in Nat /\ DOMAIN ledger = 1..m /\ i \in Nat
        /\ form = NoForm \/ form \in Form
    BY DEF CorrectionKept, CorrectionTypes
  <1>2. form' = form /\ keys' = keys
    BY DEF correctLedger
  <1>3. /\ form # NoForm => form.key = form.sheet /\ form.key <= keys
        /\ (form # NoForm /\ ~form.changed) =>
              \A j \in DOMAIN submits : submits[j].sheet = form.sheet =>
                  submits[j].owner = form.owner /\ submits[j].delta = form.delta
    BY DEF CorrectionKept, KeysAreForms, UnchangedIsTheSame
  <1>4. /\ \A e \in DOMAIN ledger : ledger[e] \in DOMAIN submits
        /\ \A e, f \in DOMAIN ledger : submits[ledger[e]].key = submits[ledger[f]].key => e = f
        /\ \A j \in DOMAIN submits : submits[j].answer = "applied" =>
             \E e \in DOMAIN ledger : submits[ledger[e]].key = submits[j].key
    BY DEF CorrectionKept, LedgerHasKeys
  <1>5. ASSUME NEW how \in {"applied", "refused"}, submits' = [submits EXCEPT ![i].answer = how]
        PROVE  /\ submits' \in Seq(Submission) /\ DOMAIN submits' = DOMAIN submits
               /\ KeysAreForms' /\ UnchangedIsTheSame'
               /\ submits'[i].answer = how
               /\ \A j \in DOMAIN submits : submits'[j].key = submits[j].key
               /\ \A j \in DOMAIN submits : j # i => submits'[j].answer = submits[j].answer
    <2>1. PICK fate : fate = [submits[i] EXCEPT !.answer = how]
      OBVIOUS
    <2>2. /\ fate \in Submission /\ fate.answer = how /\ fate.key = submits[i].key
          /\ fate.sheet = submits[i].sheet /\ fate.owner = submits[i].owner
          /\ fate.delta = submits[i].delta /\ fate.changed = submits[i].changed
      BY <1>1, <2>1 DEF Submission
    <2>3. submits' = [submits EXCEPT ![i] = fate]
      BY <1>5, <2>1
    <2>4. /\ submits' \in Seq(Submission) /\ KeysAreForms' /\ UnchangedIsTheSame'
      <3>1. /\ keys' \in Nat /\ keys <= keys' /\ (form' = NoForm \/ form' \in Form)
            /\ form' # NoForm => form'.key = form'.sheet /\ form'.key <= keys'
            /\ (form' # NoForm /\ ~form'.changed) =>
                  \A j \in DOMAIN submits : submits[j].sheet = form'.sheet =>
                      submits[j].owner = form'.owner /\ submits[j].delta = form'.delta
        BY <1>1, <1>2, <1>3
      <3> QED
        BY <2>2, <2>3, <3>1, FateKeeps
    <2>5. /\ DOMAIN submits' = DOMAIN submits /\ submits'[i] = fate
          /\ \A j \in DOMAIN submits :
                submits'[j].key = submits[j].key /\ (j # i => submits'[j] = submits[j])
      BY <2>2, <2>3, FateOnly
    <2> QED
      BY <2>2, <2>4, <2>5
  <1>6. CASE /\ submits' = [submits EXCEPT ![i].answer = "applied"]
             /\ Known(submits[i].key) /\ ledger' = ledger
    <2>1. /\ submits' \in Seq(Submission) /\ DOMAIN submits' = DOMAIN submits
          /\ KeysAreForms' /\ UnchangedIsTheSame'
          /\ \A j \in DOMAIN submits : submits'[j].key = submits[j].key
          /\ \A j \in DOMAIN submits : j # i => submits'[j].answer = submits[j].answer
      BY <1>5, <1>6
    <2>2. \E e \in DOMAIN ledger : submits[ledger[e]].key = submits[i].key
      BY <1>6 DEF Known
    <2>3. LedgerHasKeys'
      <3>1. \A j \in DOMAIN submits' : submits'[j].answer = "applied" =>
                \E e \in DOMAIN ledger : submits'[ledger[e]].key = submits'[j].key
        <4> SUFFICES ASSUME NEW j \in DOMAIN submits, submits'[j].answer = "applied"
                     PROVE  \E e \in DOMAIN ledger : submits'[ledger[e]].key = submits'[j].key
          BY <2>1
        <4>1. PICK e \in DOMAIN ledger : submits[ledger[e]].key = submits[j].key
          BY <1>4, <2>1, <2>2
        <4> QED
          BY <1>4, <2>1, <4>1
      <3> QED
        BY <1>4, <1>6, <2>1, <3>1 DEF LedgerHasKeys
    <2> QED
      BY <1>1, <1>2, <1>6, <2>1, <2>3 DEF CorrectionKept, CorrectionTypes
  <1>7. CASE /\ submits' = [submits EXCEPT ![i].answer = "applied"]
             /\ ~Known(submits[i].key) /\ ledger' = Append(ledger, i)
    <2>1. /\ submits' \in Seq(Submission) /\ DOMAIN submits' = DOMAIN submits
          /\ KeysAreForms' /\ UnchangedIsTheSame'
          /\ \A j \in DOMAIN submits : submits'[j].key = submits[j].key
          /\ \A j \in DOMAIN submits : j # i => submits'[j].answer = submits[j].answer
      BY <1>5, <1>7
    <2>2. \A e \in 1..m : submits[ledger[e]].key # submits[i].key
      BY <1>1, <1>7 DEF Known
    <2>3. /\ ledger' \in Seq(Nat) /\ DOMAIN ledger' = 1..(m + 1) /\ ledger'[m + 1] = i
          /\ \A e \in 1..m : ledger'[e] = ledger[e]
      BY <1>1, <1>7
    <2>4. LedgerHasKeys'
      <3>1. \A e \in 1..(m + 1) : ledger'[e] \in DOMAIN submits
        <4> SUFFICES ASSUME NEW e \in 1..(m + 1) PROVE ledger'[e] \in DOMAIN submits
          OBVIOUS
        <4>1. CASE e \in 1..m
          BY <1>1, <1>4, <2>3, <4>1
        <4>2. CASE e = m + 1
          BY <2>3, <4>2
        <4> QED
          BY <1>1, <4>1, <4>2
      <3>2. \A e, f \in 1..(m + 1) : submits'[ledger'[e]].key = submits'[ledger'[f]].key => e = f
        <4> SUFFICES ASSUME NEW e \in 1..(m + 1), NEW f \in 1..(m + 1),
                            submits[ledger'[e]].key = submits[ledger'[f]].key
                     PROVE  e = f
          BY <2>1, <3>1
        <4>1. CASE e \in 1..m /\ f \in 1..m
          BY <1>1, <1>4, <2>3, <4>1
        <4>2. CASE e \in 1..m /\ f = m + 1
          BY <2>2, <2>3, <4>2
        <4>3. CASE e = m + 1 /\ f \in 1..m
          BY <2>2, <2>3, <4>3
        <4>4. CASE e = m + 1 /\ f = m + 1
          BY <4>4
        <4> QED
          BY <1>1, <4>1, <4>2, <4>3, <4>4
      <3>3. \A j \in DOMAIN submits' : submits'[j].answer = "applied" =>
                \E e \in 1..(m + 1) : submits'[ledger'[e]].key = submits'[j].key
        <4> SUFFICES ASSUME NEW j \in DOMAIN submits, submits'[j].answer = "applied"
                     PROVE  \E e \in 1..(m + 1) : submits'[ledger'[e]].key = submits'[j].key
          BY <2>1
        <4>1. CASE j = i
          <5>1. m + 1 \in 1..(m + 1)
            BY <1>1
          <5> QED
            BY <2>3, <4>1, <5>1
        <4>2. CASE j # i
          <5>1. PICK e \in 1..m : submits[ledger[e]].key = submits[j].key
            BY <1>1, <1>4, <2>1, <4>2
          <5>2. e \in 1..(m + 1) /\ ledger'[e] = ledger[e]
            BY <1>1, <2>3
          <5>3. ledger[e] \in DOMAIN submits
            BY <1>1, <1>4
          <5> QED
            BY <2>1, <5>1, <5>2, <5>3
        <4> QED
          BY <4>1, <4>2
      <3> QED
        BY <2>1, <2>3, <3>1, <3>2, <3>3 DEF LedgerHasKeys
    <2> QED
      BY <1>1, <1>2, <2>1, <2>3, <2>4 DEF CorrectionKept, CorrectionTypes
  <1>8. CASE submits' = [submits EXCEPT ![i].answer = "refused"] /\ ledger' = ledger
    <2>1. /\ submits' \in Seq(Submission) /\ DOMAIN submits' = DOMAIN submits
          /\ KeysAreForms' /\ UnchangedIsTheSame'
          /\ submits'[i].answer = "refused"
          /\ \A j \in DOMAIN submits : submits'[j].key = submits[j].key
          /\ \A j \in DOMAIN submits : j # i => submits'[j].answer = submits[j].answer
      BY <1>5, <1>8
    <2>2. \A j \in DOMAIN submits : submits'[j].answer = "applied" => submits[j].answer = "applied"
      BY <2>1
    <2>3. LedgerHasKeys'
      <3>1. \A j \in DOMAIN submits' : submits'[j].answer = "applied" =>
                \E e \in DOMAIN ledger : submits'[ledger[e]].key = submits'[j].key
        BY <1>4, <2>1, <2>2
      <3> QED
        BY <1>4, <1>8, <2>1, <3>1 DEF LedgerHasKeys
    <2> QED
      BY <1>1, <1>2, <1>8, <2>1, <2>3 DEF CorrectionKept, CorrectionTypes
  <1> QED
    BY <1>6, <1>7, <1>8 DEF correctLedger

\* An answer, or its loss, changes what the client heard and perhaps the form.
LEMMA HeardKeeps ==
    ASSUME CorrectionKept, NEW i \in DOMAIN submits, Answered(i) \/ AnswerLost(i)
    PROVE  CorrectionKept'
  <1>1. /\ submits \in Seq(Submission) /\ submits[i] \in Submission /\ keys \in Nat
        /\ ledger \in Seq(Nat) /\ (form = NoForm \/ form \in Form) /\ ledger' = ledger
    BY DEF CorrectionKept, CorrectionTypes, Answered, AnswerLost
  <1>2. /\ form # NoForm => form.key = form.sheet /\ form.key <= keys
        /\ (form # NoForm /\ ~form.changed) =>
              \A j \in DOMAIN submits : submits[j].sheet = form.sheet =>
                  submits[j].owner = form.owner /\ submits[j].delta = form.delta
    BY DEF CorrectionKept, KeysAreForms, UnchangedIsTheSame
  <1>3. PICK how \in {"yes", "lost"} : submits' = [submits EXCEPT ![i].heard = how]
    BY DEF Answered, AnswerLost
  <1>4. PICK fate : fate = [submits[i] EXCEPT !.heard = how]
    OBVIOUS
  <1>5. /\ fate \in Submission /\ fate.answer = submits[i].answer /\ fate.key = submits[i].key
        /\ fate.sheet = submits[i].sheet /\ fate.owner = submits[i].owner
        /\ fate.delta = submits[i].delta /\ fate.changed = submits[i].changed
        /\ submits' = [submits EXCEPT ![i] = fate]
    BY <1>1, <1>3, <1>4 DEF Submission
  <1>6. /\ keys' \in Nat /\ keys <= keys' /\ (form' = NoForm \/ form' \in Form)
        /\ form' # NoForm => form'.key = form'.sheet /\ form'.key <= keys'
        /\ (form' # NoForm /\ ~form'.changed) =>
              \A j \in DOMAIN submits : submits[j].sheet = form'.sheet =>
                  submits[j].owner = form'.owner /\ submits[j].delta = form'.delta
    <2>1. CASE form' = form /\ keys' = keys
      BY <1>1, <1>2, <2>1
    <2>2. CASE form # NoForm /\ form' = [form EXCEPT !.busy = FALSE] /\ keys' = keys
      <3>1. /\ form' \in Form /\ form'.key = form.key /\ form'.sheet = form.sheet
            /\ form'.changed = form.changed /\ form'.owner = form.owner /\ form'.delta = form.delta
        BY <1>1, <2>2 DEF Form
      <3> QED
        BY <1>1, <1>2, <2>2, <3>1
    <2>3. CASE /\ form # NoForm /\ keys' = keys + 1
               /\ form' = [Opened(keys + 1) EXCEPT !.owner = form.owner, !.applied = submits[i].delta]
      <3>1. /\ form' \in Form /\ form'.key = keys + 1 /\ form'.sheet = keys + 1
            /\ \A j \in DOMAIN submits : submits[j].sheet # keys + 1
        BY <1>1, <2>3, OpenedForm DEF Form, Submission
      <3> QED
        BY <1>1, <2>3, <3>1
    <2> QED
      BY <2>1, <2>2, <2>3 DEF Answered, AnswerLost, Asked
  <1>7. submits' \in Seq(Submission) /\ KeysAreForms' /\ UnchangedIsTheSame'
    BY <1>5, <1>6, FateKeeps
  <1>8. /\ DOMAIN submits' = DOMAIN submits /\ submits'[i] = fate
        /\ \A j \in DOMAIN submits :
              submits'[j].key = submits[j].key /\ (j # i => submits'[j] = submits[j])
    BY <1>5, FateOnly
  <1>9. LedgerHasKeys'
    <2>1. \A j \in DOMAIN submits : submits'[j].answer = submits[j].answer
      BY <1>5, <1>8
    <2>2. /\ \A e \in DOMAIN ledger : ledger[e] \in DOMAIN submits
          /\ \A e, f \in DOMAIN ledger :
                submits[ledger[e]].key = submits[ledger[f]].key => e = f
          /\ \A j \in DOMAIN submits : submits[j].answer = "applied" =>
                \E e \in DOMAIN ledger : submits[ledger[e]].key = submits[j].key
      BY DEF CorrectionKept, LedgerHasKeys
    <2>3. \A e \in DOMAIN ledger : submits'[ledger[e]].key = submits[ledger[e]].key
      BY <1>8, <2>2
    <2>4. \A e, f \in DOMAIN ledger :
              submits'[ledger[e]].key = submits'[ledger[f]].key => e = f
      BY <2>2, <2>3
    <2>5. \A j \in DOMAIN submits : submits'[j].answer = "applied" =>
              \E e \in DOMAIN ledger : submits'[ledger[e]].key = submits'[j].key
      <3> SUFFICES ASSUME NEW j \in DOMAIN submits, submits'[j].answer = "applied"
                   PROVE  \E e \in DOMAIN ledger : submits'[ledger[e]].key = submits'[j].key
        OBVIOUS
      <3>1. PICK e \in DOMAIN ledger : submits[ledger[e]].key = submits[j].key
        BY <2>1, <2>2
      <3> QED
        BY <1>8, <2>3, <3>1
    <2> QED
      BY <1>1, <1>8, <2>2, <2>4, <2>5 DEF LedgerHasKeys
  <1> QED
    BY <1>1, <1>6, <1>7, <1>9 DEF CorrectionKept, CorrectionTypes

\* Every step of the screen and of the server keeps what is said of both.
LEMMA CorrectionStep == CorrectionKept /\ [CorrectionNext]_correctionVars => CorrectionKept'
  <1> SUFFICES ASSUME CorrectionKept, [CorrectionNext]_correctionVars PROVE CorrectionKept'
    OBVIOUS
  <1>1. CASE UNCHANGED correctionVars
    BY <1>1 DEF correctionVars, CorrectionKept, CorrectionTypes, KeysAreForms, UnchangedIsTheSame,
                LedgerHasKeys
  <1> QED
    BY <1>1, PageKeeps, EditKeeps, ReviewKeeps, submitKeeps, correctLedgerKeeps, HeardKeeps
    DEF CorrectionNext

\* A correction answered "applied" has one entry, of the amount it was answered
\* for unless it was changed between two tries: for any number of tries, lost
\* answers and readings (routes/ui/earnings-admin.tsx:198-201,
\* 0071_ledger_correction.sql:113-145).
THEOREM OneEntryHoweverOften == CorrectionSpec => []CorrectedOnce
  <1>1. CorrectionKept => CorrectedOnce
    <2> SUFFICES ASSUME CorrectionKept, NEW i \in DOMAIN submits, Applied(i)
                 PROVE  /\ Cardinality(EntriesOf(submits[i].sheet)) = 1
                        /\ (\A j \in Tries(submits[i].sheet) : ~submits[j].changed) =>
                                \A e \in EntriesOf(submits[i].sheet) :
                                    /\ submits[ledger[e]].owner = submits[i].owner
                                    /\ submits[ledger[e]].delta = submits[i].delta
      BY DEF CorrectedOnce
    <2>1. \A j \in DOMAIN submits : submits[j].key = submits[j].sheet
      BY DEF CorrectionKept, KeysAreForms
    <2>2. PICK e \in DOMAIN ledger : submits[ledger[e]].key = submits[i].key
      BY DEF Applied, CorrectionKept, LedgerHasKeys
    <2>3. EntriesOf(submits[i].sheet) = {e}
      <3>1. ledger[e] \in DOMAIN submits /\ submits[ledger[e]].sheet = submits[i].sheet
        BY <2>1, <2>2 DEF CorrectionKept, LedgerHasKeys
      <3>2. \A f \in EntriesOf(submits[i].sheet) : f = e
        BY <2>1, <2>2, <3>1 DEF EntriesOf, Tries, CorrectionKept, LedgerHasKeys
      <3> QED
        BY <3>1, <3>2 DEF EntriesOf, Tries
    <2>4. Cardinality({e}) = 1
      BY FS_Singleton
    <2>5. (\A j \in Tries(submits[i].sheet) : ~submits[j].changed) =>
                \A f \in EntriesOf(submits[i].sheet) :
                    /\ submits[ledger[f]].owner = submits[i].owner
                    /\ submits[ledger[f]].delta = submits[i].delta
      BY DEF EntriesOf, Tries, CorrectionKept, UnchangedIsTheSame
    <2> QED
      BY <2>3, <2>4, <2>5
  <1> QED
    BY <1>1, CorrectionStart, CorrectionStep, PTL DEF CorrectionSpec

----------------------------------------------------------------------------
\* The page of a correction, its keys and the readings it asks for.

HeardYes == {i \in DOMAIN submits : submits[i].heard = "yes"}

\* A form is there while the page is ready, and the page is read once more for
\* every correction it heard was applied.
CorrectionCounts ==
    /\ page \in {"loading", "ready", "error"} /\ losses \in 0..MaxLosses
    /\ Len(submits) <= MaxSubmits
    /\ pageReads \in Nat /\ pageReads <= 1 + Cardinality(HeardYes)
    /\ form # NoForm <=> page = "ready"
    /\ form # NoForm => form.key >= 1
    /\ \A i \in DOMAIN submits : submits[i].key >= 1

LEMMA CorrectionCounted == CorrectionInit => CorrectionCounts
  <1> SUFFICES ASSUME CorrectionInit PROVE CorrectionCounts
    OBVIOUS
  <1>1. /\ page = "loading" /\ pageReads = 1 /\ form = NoForm /\ submits = <<>> /\ losses = 0
    BY DEF CorrectionInit
  <1>2. DOMAIN submits = {} /\ Len(submits) = 0
    BY <1>1
  <1>3. Cardinality(HeardYes) = 0
    BY <1>2, FS_EmptySet DEF HeardYes
  <1> QED
    BY <1>1, <1>2, <1>3, CorrectionAssumption DEF CorrectionCounts

\* There are no more that were heard than submissions.
LEMMA HeardAreFew ==
    ASSUME CorrectionKept
    PROVE  /\ IsFiniteSet(HeardYes) /\ Cardinality(HeardYes) \in Nat
           /\ Cardinality(HeardYes) <= Len(submits)
  <1>1. DOMAIN submits = 1..Len(submits) /\ Len(submits) \in Nat
    BY DEF CorrectionKept, CorrectionTypes
  <1>2. IsFiniteSet(1..Len(submits)) /\ Cardinality(1..Len(submits)) = Len(submits)
    <2>1. /\ IsFiniteSet(1..Len(submits))
          /\ Cardinality(1..Len(submits)) = IF 1 > Len(submits) THEN 0 ELSE Len(submits) - 1 + 1
      BY <1>1, FS_Interval
    <2> QED
      BY <1>1, <2>1
  <1>3. HeardYes \subseteq 1..Len(submits)
    BY <1>1 DEF HeardYes
  <1> QED
    BY <1>2, <1>3, FS_Subset, FS_CardinalityType

\* A form that mounts is one, of a key that is a number.
LEMMA AFormIsThere ==
    ASSUME CorrectionKept
    PROVE  /\ Opened(keys + 1) # NoForm /\ Opened(keys + 1).key >= 1
           /\ form \in Form => \A f \in Form : f # NoForm
  <1>1. keys \in Nat
    BY DEF CorrectionKept, CorrectionTypes
  <1> QED
    BY <1>1, OpenedForm, NoFormIsNull

\* Reading the page, and what is done in the form before it is sent.
LEMMA PageCounts ==
    ASSUME CorrectionKept, CorrectionCounts,
           \/ BoardRead \/ BoardReadFailed \/ Review
           \/ \E owner \in Seller, delta \in Delta : Edit(owner, delta)
    PROVE  CorrectionCounts'
  <1>1. /\ page \in {"loading", "ready", "error"} /\ losses \in 0..MaxLosses
        /\ pageReads \in Nat /\ pageReads <= 1 + Cardinality(HeardYes)
        /\ Cardinality(HeardYes) \in Nat /\ MaxLosses \in Nat
        /\ form # NoForm <=> page = "ready"
        /\ form # NoForm => form.key >= 1
    BY HeardAreFew, CorrectionAssumption DEF CorrectionCounts
  <1>2. submits' = submits /\ HeardYes' = HeardYes
    BY DEF BoardRead, BoardReadFailed, Review, Edit, HeardYes
  <1>3. Len(submits') <= MaxSubmits /\ \A i \in DOMAIN submits' : submits'[i].key >= 1
    BY <1>2 DEF CorrectionCounts
  <1>4. CASE BoardRead
    <2>1. pageReads' \in Nat /\ pageReads' <= 1 + Cardinality(HeardYes') /\ page' = "ready"
      BY <1>1, <1>2, <1>4 DEF BoardRead
    <2>2. form' # NoForm /\ form'.key >= 1
      BY <1>1, <1>4, AFormIsThere DEF BoardRead
    <2>3. losses' = losses
      BY <1>4 DEF BoardRead
    <2> QED
      BY <1>1, <1>3, <2>1, <2>2, <2>3 DEF CorrectionCounts
  <1>5. CASE BoardReadFailed
    <2>1. pageReads' \in Nat /\ pageReads' <= 1 + Cardinality(HeardYes') /\ losses' \in 0..MaxLosses
      BY <1>1, <1>2, <1>5 DEF BoardReadFailed, Lose
    <2>2. page' = "error" /\ form' = NoForm
      BY <1>5 DEF BoardReadFailed
    <2> QED
      BY <1>3, <2>1, <2>2 DEF CorrectionCounts
  <1>6. CASE Review \/ \E owner \in Seller, delta \in Delta : Edit(owner, delta)
    <2>1. form # NoForm /\ form \in Form
      BY <1>6 DEF Review, Edit, CorrectionKept, CorrectionTypes
    <2>2. form' \in Form /\ form'.key = form.key
      BY <1>6, <2>1 DEF Review, Edit, Form
    <2>3. form' # NoForm
      BY <2>1, <2>2, AFormIsThere
    <2>4. UNCHANGED <<page, pageReads, losses>>
      BY <1>6 DEF Review, Edit
    <2> QED
      BY <1>1, <1>2, <1>3, <2>1, <2>2, <2>3, <2>4 DEF CorrectionCounts
  <1> QED
    BY <1>4, <1>5, <1>6

\* A form is sent: one submission more, not heard of yet.
LEMMA SubmitCounts == ASSUME CorrectionKept, CorrectionCounts, submit PROVE CorrectionCounts'
  <1> DEFINE new == [key |-> form.key, sheet |-> form.sheet, owner |-> form.owner,
                     delta |-> form.delta, changed |-> form.changed, answer |-> "none",
                     heard |-> "waiting"]
             n   == Len(submits)
  <1>1. /\ submits' = Append(submits, new) /\ n < MaxSubmits
        /\ form # NoForm /\ form' = [form EXCEPT !.busy = TRUE]
        /\ UNCHANGED <<page, pageReads, losses>>
    BY DEF submit
  <1>2. form \in Form /\ submits \in Seq(Submission) /\ new.key = form.key /\ new.heard = "waiting"
    BY <1>1 DEF CorrectionKept, CorrectionTypes
  <1>3. form' \in Form /\ form'.key = form.key
    BY <1>1, <1>2 DEF Form
  <1>4. form' # NoForm
    BY <1>2, <1>3, AFormIsThere
  <1> HIDE DEF new
  <1>5. /\ n \in Nat /\ DOMAIN submits = 1..n /\ DOMAIN submits' = 1..(n + 1)
        /\ \A i \in 1..n : submits'[i] = submits[i]
        /\ submits'[n + 1] = new /\ Len(submits') = n + 1
    BY <1>1, <1>2
  <1>6. HeardYes' = HeardYes
    BY <1>2, <1>5 DEF HeardYes
  <1>7. \A i \in DOMAIN submits' : submits'[i].key >= 1
    BY <1>1, <1>2, <1>5 DEF CorrectionCounts
  <1>8. Len(submits') <= MaxSubmits
    BY <1>1, <1>5, CorrectionAssumption
  <1> QED
    BY <1>1, <1>3, <1>4, <1>6, <1>7, <1>8 DEF CorrectionCounts

\* The server takes one, or its answer comes in or is lost.
LEMMA AnswersCount ==
    ASSUME CorrectionKept, CorrectionCounts, NEW i \in DOMAIN submits,
           correctLedger(i) \/ Answered(i) \/ AnswerLost(i)
    PROVE  CorrectionCounts'
  <1>1. /\ submits \in Seq(Submission) /\ submits[i] \in Submission /\ keys \in Nat
        /\ form = NoForm \/ form \in Form
        /\ MaxLosses \in Nat
    BY CorrectionAssumption DEF CorrectionKept, CorrectionTypes
  <1>2. /\ page \in {"loading", "ready", "error"} /\ losses \in 0..MaxLosses
        /\ Len(submits) <= MaxSubmits
        /\ pageReads \in Nat /\ pageReads <= 1 + Cardinality(HeardYes)
        /\ form # NoForm <=> page = "ready"
        /\ form # NoForm => form.key >= 1
        /\ \A j \in DOMAIN submits : submits[j].key >= 1
    BY DEF CorrectionCounts
  <1>3. IsFiniteSet(HeardYes) /\ Cardinality(HeardYes) \in Nat
    BY HeardAreFew
  <1>4. page' = page /\ losses' \in 0..MaxLosses
    BY <1>1, <1>2 DEF correctLedger, Answered, AnswerLost, Lose
  <1>5. PICK fate \in Submission :
            /\ submits' = [submits EXCEPT ![i] = fate] /\ fate.key = submits[i].key
            /\ fate.heard = submits[i].heard \/ submits[i].heard = "waiting"
            /\ Answered(i) => fate.heard = "yes" /\ submits[i].heard = "waiting"
    <2>1. CASE correctLedger(i) /\ ~Answered(i)
      <3>1. PICK how \in {"applied", "refused"} : submits' = [submits EXCEPT ![i].answer = how]
        BY <2>1 DEF correctLedger
      <3>2. PICK fate : fate = [submits[i] EXCEPT !.answer = how]
        OBVIOUS
      <3>3. fate \in Submission /\ fate.key = submits[i].key /\ fate.heard = submits[i].heard
        BY <1>1, <3>2 DEF Submission
      <3> QED
        BY <2>1, <3>1, <3>2, <3>3
    <2>2. CASE Answered(i) \/ AnswerLost(i)
      <3>1. PICK how \in {"yes", "lost"} : /\ submits' = [submits EXCEPT ![i].heard = how]
                                           /\ Answered(i) => how = "yes"
        BY <2>2 DEF Answered, AnswerLost
      <3>2. PICK fate : fate = [submits[i] EXCEPT !.heard = how]
        OBVIOUS
      <3>3. fate \in Submission /\ fate.key = submits[i].key /\ fate.heard = how
        BY <1>1, <3>2 DEF Submission
      <3>4. submits[i].heard = "waiting"
        BY <2>2 DEF Answered, AnswerLost
      <3> QED
        BY <3>1, <3>2, <3>3, <3>4
    <2> QED
      BY <2>1, <2>2
  <1>6. /\ DOMAIN submits' = DOMAIN submits /\ Len(submits') = Len(submits) /\ submits'[i] = fate
        /\ \A j \in DOMAIN submits : j # i => submits'[j] = submits[j]
    BY <1>1, <1>5
  <1>7. \A j \in DOMAIN submits' : submits'[j].key >= 1
    BY <1>2, <1>5, <1>6
  <1>8. HeardYes \subseteq HeardYes' /\ HeardYes' \subseteq HeardYes \cup {i}
    BY <1>5, <1>6 DEF HeardYes
  <1>9. IsFiniteSet(HeardYes') /\ Cardinality(HeardYes') \in Nat /\ Cardinality(HeardYes) <= Cardinality(HeardYes')
    <2>1. IsFiniteSet(HeardYes \cup {i})
      BY <1>3, FS_AddElement
    <2>2. IsFiniteSet(HeardYes')
      BY <1>8, <2>1, FS_Subset
    <2> QED
      BY <1>8, <2>2, FS_Subset, FS_CardinalityType
  <1>10. pageReads' \in Nat /\ pageReads' <= 1 + Cardinality(HeardYes')
    <2>1. CASE Answered(i)
      <3>1. i \notin HeardYes /\ HeardYes' = HeardYes \cup {i}
        BY <1>5, <1>6, <1>8, <2>1 DEF HeardYes
      <3>2. Cardinality(HeardYes') = Cardinality(HeardYes) + 1
        BY <1>3, <3>1, FS_AddElement
      <3> QED
        BY <1>2, <1>3, <2>1, <3>2 DEF Answered
    <2>2. CASE correctLedger(i) \/ AnswerLost(i)
      BY <1>2, <1>3, <1>9, <2>2 DEF correctLedger, AnswerLost
    <2> QED
      BY <2>1, <2>2
  <1>11. (form' # NoForm <=> page = "ready") /\ (form' # NoForm => form'.key >= 1)
    <2>1. CASE form' = form
      BY <1>2, <2>1
    <2>2. CASE form # NoForm /\ form' = [form EXCEPT !.busy = FALSE]
      <3>1. form' \in Form /\ form'.key = form.key
        BY <1>1, <2>2 DEF Form
      <3> QED
        BY <1>1, <1>2, <2>2, <3>1, AFormIsThere
    <2>3. CASE /\ form # NoForm
               /\ form' = [Opened(keys + 1) EXCEPT !.owner = form.owner, !.applied = submits[i].delta]
      <3>1. form' \in Form /\ form'.key = keys + 1
        BY <1>1, <2>3, OpenedForm DEF Form, Submission
      <3> QED
        BY <1>1, <1>2, <2>3, <3>1, AFormIsThere
    <2> QED
      BY <2>1, <2>2, <2>3 DEF correctLedger, Answered, AnswerLost, Asked
  <1> QED
    BY <1>2, <1>4, <1>6, <1>7, <1>10, <1>11 DEF CorrectionCounts

LEMMA CorrectionCountsOn ==
    CorrectionKept /\ CorrectionCounts /\ [CorrectionNext]_correctionVars => CorrectionCounts'
  <1> SUFFICES ASSUME CorrectionKept, CorrectionCounts, [CorrectionNext]_correctionVars
               PROVE  CorrectionCounts'
    OBVIOUS
  <1>1. CASE UNCHANGED correctionVars
    BY <1>1 DEF correctionVars, CorrectionCounts, HeardYes
  <1> QED
    BY <1>1, PageCounts, SubmitCounts, AnswersCount DEF CorrectionNext

\* The page, its form and the ledger hold what they may, and no reading is
\* asked for that no correction was heard for.
THEOREM CorrectionTypeCorrect == CorrectionSpec => []CorrectionTypeOK
  <1>1. CorrectionKept /\ CorrectionCounts => CorrectionTypeOK
    <2> SUFFICES ASSUME CorrectionKept, CorrectionCounts PROVE CorrectionTypeOK
      OBVIOUS
    <2>1. pageReads \in 0..(MaxSubmits + 1)
      BY HeardAreFew, CorrectionAssumption DEF CorrectionCounts, CorrectionKept, CorrectionTypes
    <2>2. /\ keys \in Nat /\ (form = NoForm \/ form \in Form) /\ ledger \in Seq(Nat)
          /\ form # NoForm => form.key <= keys
          /\ \A i \in DOMAIN submits : submits[i].key \in Nat /\ submits[i].key <= keys
          /\ \A e \in DOMAIN ledger : ledger[e] \in DOMAIN submits
      BY SubmissionsAre
      DEF CorrectionKept, CorrectionTypes, KeysAreForms, LedgerHasKeys, Submission
    <2>3. form # NoForm => form.key \in 1..keys
      BY <2>2 DEF CorrectionCounts, Form
    <2>4. \A i \in DOMAIN submits : submits[i].key \in 1..keys
      BY <2>2 DEF CorrectionCounts
    <2>5. ledger \in Seq(DOMAIN submits)
      BY <2>2
    <2> QED
      BY <2>1, <2>3, <2>4, <2>5 DEF CorrectionCounts, CorrectionTypeOK
  <1> QED
    BY <1>1, CorrectionStart, CorrectionStep, CorrectionCounted, CorrectionCountsOn, PTL
    DEF CorrectionSpec

----------------------------------------------------------------------------
\* Sorting.

\* R orders S: of two members one comes before the other.
Orders(R, S) ==
    /\ \A a \in S : <<a, a>> \notin R
    /\ \A a, b \in S : a # b => <<a, b>> \in R \/ <<b, a>> \in R
    /\ \A a, b, c \in S : <<a, b>> \in R /\ <<b, c>> \in R => <<a, c>> \in R

SortedBy(rows, R) == \A i, j \in DOMAIN rows : i < j => <<rows[i], rows[j]>> \in R
HasAll(rows, S)   == /\ \A a \in S : \E i \in DOMAIN rows : rows[i] = a
                     /\ \A i, j \in DOMAIN rows : rows[i] = rows[j] => i = j

Before(a, R, S) == {e \in S : <<e, a>> \in R}

\* What comes first has fewer before it, and nothing has all of them.
LEMMA FewerBefore ==
    ASSUME NEW S, IsFiniteSet(S), NEW R, Orders(R, S), NEW a \in S
    PROVE  /\ Cardinality(Before(a, R, S)) \in 0..(Cardinality(S) - 1)
           /\ \A b \in S : <<a, b>> \in R =>
                Cardinality(Before(a, R, S)) < Cardinality(Before(b, R, S))
  <1>1. \A b \in S : IsFiniteSet(Before(b, R, S)) /\ Cardinality(Before(b, R, S)) \in Nat
    <2> SUFFICES ASSUME NEW b \in S
                 PROVE  IsFiniteSet(Before(b, R, S)) /\ Cardinality(Before(b, R, S)) \in Nat
      OBVIOUS
    <2>1. Before(b, R, S) \in SUBSET S
      BY DEF Before
    <2> QED
      BY <2>1, FS_Subset, FS_CardinalityType
  <1>2. Cardinality(S \ {a}) = Cardinality(S) - 1 /\ IsFiniteSet(S \ {a})
    BY FS_RemoveElement
  <1>3. Before(a, R, S) \in SUBSET (S \ {a})
    BY DEF Before, Orders
  <1>4. Cardinality(Before(a, R, S)) <= Cardinality(S) - 1
    BY <1>2, <1>3, FS_Subset
  <1>5. Cardinality(S) \in Nat
    BY FS_CardinalityType
  <1>6. ASSUME NEW b \in S, <<a, b>> \in R
        PROVE  Cardinality(Before(a, R, S)) < Cardinality(Before(b, R, S))
    <2>1. Before(a, R, S) \in SUBSET Before(b, R, S)
      BY <1>6 DEF Before, Orders
    <2>2. a \in Before(b, R, S) /\ a \notin Before(a, R, S)
      BY <1>6 DEF Before, Orders
    <2>3. /\ Cardinality(Before(a, R, S)) <= Cardinality(Before(b, R, S))
          /\ Cardinality(Before(b, R, S)) = Cardinality(Before(a, R, S)) =>
               Before(b, R, S) = Before(a, R, S)
      BY <1>1, <1>6, <2>1, FS_Subset
    <2> QED
      BY <1>1, <1>6, <2>2, <2>3
  <1> QED
    BY <1>1, <1>4, <1>5, <1>6

\* A finite set can be put in order.
LEMMA CanBeSorted ==
    ASSUME NEW S, IsFiniteSet(S), NEW R, Orders(R, S)
    PROVE  \E rows \in [1..Cardinality(S) -> S] : SortedBy(rows, R)
  <1> DEFINE n == Cardinality(S)
             rank == [a \in S |-> Cardinality(Before(a, R, S)) + 1]
             rows == [i \in 1..n |-> CHOOSE a \in S : rank[a] = i]
  <1>1. n \in Nat
    BY FS_CardinalityType
  <1>2. rank \in [S -> 1..n]
    BY <1>1, FewerBefore
  <1>3. \A a, b \in S : <<a, b>> \in R => rank[a] < rank[b]
    <2> SUFFICES ASSUME NEW a \in S, NEW b \in S, <<a, b>> \in R PROVE rank[a] < rank[b]
      OBVIOUS
    <2>1. /\ Cardinality(Before(a, R, S)) < Cardinality(Before(b, R, S))
          /\ Cardinality(Before(a, R, S)) \in 0..(n - 1)
          /\ Cardinality(Before(b, R, S)) \in 0..(n - 1)
      BY FewerBefore
    <2> QED
      BY <1>1, <2>1
  <1> HIDE DEF rank
  <1>4. rank \in Injection(S, 1..n)
    <2>1. \A a, b \in S : rank[a] = rank[b] => a = b
      <3> SUFFICES ASSUME NEW a \in S, NEW b \in S, a # b PROVE rank[a] # rank[b]
        OBVIOUS
      <3>1. rank[a] < rank[b] \/ rank[b] < rank[a]
        BY <1>3 DEF Orders
      <3>2. rank[a] \in 1..n /\ rank[b] \in 1..n
        BY <1>2
      <3> QED
        BY <1>1, <3>1, <3>2
    <2> QED
      BY <1>2, <2>1 DEF Injection, IsInjective
  <1>5. rank \in Surjection(S, 1..n)
    <2>1. IsFiniteSet(1..n) /\ Cardinality(1..n) = n
      <3>1. /\ IsFiniteSet(1..n)
            /\ Cardinality(1..n) = IF 1 > n THEN 0 ELSE n - 1 + 1
        BY <1>1, FS_Interval
      <3> QED
        BY <1>1, <3>1
    <2> HIDE DEF n
    <2>2. Cardinality(S) = Cardinality(1..n)
      BY <2>1 DEF n
    <2> QED
      BY <1>4, <2>1, <2>2, FS_Injection
  <1>6. \A i \in 1..n : rows[i] \in S /\ rank[rows[i]] = i
    BY <1>5 DEF Surjection
  <1>7. rows \in [1..n -> S]
    BY <1>6
  <1>8. ASSUME NEW i \in 1..n, NEW j \in 1..n, i < j PROVE <<rows[i], rows[j]>> \in R
    <2> HIDE DEF rows, n
    <2>1. rows[i] \in S /\ rows[j] \in S /\ rank[rows[i]] = i /\ rank[rows[j]] = j
      BY <1>6
    <2>2. ~(<<rows[j], rows[i]>> \in R)
      BY <1>1, <1>3, <1>8, <2>1
    <2>3. rows[i] # rows[j]
      BY <1>1, <1>8, <2>1
    <2> QED
      BY <2>1, <2>2, <2>3 DEF Orders
  <1> QED
    BY <1>7, <1>8 DEF SortedBy

\* A list of a set's size that is in order has all its members, each once.
LEMMA SortedHasAll ==
    ASSUME NEW S, IsFiniteSet(S), NEW R, Orders(R, S),
           NEW rows \in [1..Cardinality(S) -> S], SortedBy(rows, R)
    PROVE  HasAll(rows, S)
  <1> DEFINE n == Cardinality(S)
  <1>1. n \in Nat
    BY FS_CardinalityType
  <1>2. \A i, j \in 1..n : rows[i] = rows[j] => i = j
    <2> SUFFICES ASSUME NEW i \in 1..n, NEW j \in 1..n, i # j PROVE rows[i] # rows[j]
      OBVIOUS
    <2>1. i < j \/ j < i
      BY <1>1
    <2>2. <<rows[i], rows[j]>> \in R \/ <<rows[j], rows[i]>> \in R
      BY <2>1 DEF SortedBy
    <2>3. rows[i] \in S /\ rows[j] \in S
      OBVIOUS
    <2> QED
      BY <2>2, <2>3 DEF Orders
  <1>3. IsFiniteSet(1..n) /\ Cardinality(1..n) = n
    <2>1. /\ IsFiniteSet(1..n)
          /\ Cardinality(1..n) = IF 1 > n THEN 0 ELSE n - 1 + 1
      BY <1>1, FS_Interval
    <2> QED
      BY <1>1, <2>1
  <1>4. rows \in Injection(1..n, S)
    BY <1>2 DEF Injection, IsInjective
  <1>5. rows \in Surjection(1..n, S)
    <2> HIDE DEF n
    <2>1. Cardinality(1..n) = Cardinality(S)
      BY <1>3 DEF n
    <2> QED
      BY <1>4, <2>1, FS_Injection
  <1> QED
    BY <1>2, <1>5 DEF Surjection, HasAll

----------------------------------------------------------------------------
\* Lists of readings under way.

\* What is left of a list when its i-th member is taken out.
LEMMA WithoutOne ==
    ASSUME NEW S, NEW s \in Seq(S), NEW i \in 1..Len(s)
    PROVE  /\ RemoveAt(s, i) \in Seq(S)
           /\ Len(RemoveAt(s, i)) = Len(s) - 1
           /\ \A j \in 1..(Len(s) - 1) : RemoveAt(s, i)[j] = IF j < i THEN s[j] ELSE s[j + 1]
  <1> DEFINE before == SubSeq(s, 1, i - 1)
             after  == SubSeq(s, i + 1, Len(s))
  <1>1. /\ before \in Seq(S) /\ Len(before) = i - 1
        /\ \A j \in 1..(i - 1) : before[j] = s[j]
    <2>1. \A k \in 1..(i - 1) : s[k] \in S
      BY ElementOfSeq
    <2> QED
      BY <2>1, SubSeqProperties, LenProperties
  <1>2. /\ after \in Seq(S) /\ Len(after) = Len(s) - i
        /\ \A j \in 1..(Len(s) - i) : after[j] = s[i + j]
    <2>1. \A k \in (i + 1)..Len(s) : s[k] \in S
      BY ElementOfSeq
    <2> QED
      BY <2>1, SubSeqProperties, LenProperties
  <1>3. RemoveAt(s, i) = before \o after
    BY DEF RemoveAt
  <1> HIDE DEF before, after
  <1>4. /\ before \o after \in Seq(S)
        /\ Len(before \o after) = Len(before) + Len(after)
        /\ \A j \in 1..(Len(before) + Len(after)) :
              (before \o after)[j] = IF j <= Len(before) THEN before[j]
                                     ELSE after[j - Len(before)]
    BY <1>1, <1>2, ConcatProperties
  <1>5. Len(s) \in Nat /\ i \in Nat
    BY LenProperties
  <1>6. ASSUME NEW j \in 1..(Len(s) - 1)
        PROVE  (before \o after)[j] = IF j < i THEN s[j] ELSE s[j + 1]
    <2>1. CASE j < i
      <3>1. j <= Len(before) /\ j \in 1..(i - 1) /\ j \in 1..(Len(before) + Len(after))
        BY <1>1, <1>2, <1>5, <2>1
      <3> QED
        BY <1>1, <1>4, <2>1, <3>1
    <2>2. CASE ~(j < i)
      <3>1. ~(j <= Len(before)) /\ j - Len(before) \in 1..(Len(s) - i)
            /\ i + (j - Len(before)) = j + 1 /\ j \in 1..(Len(before) + Len(after))
        BY <1>1, <1>2, <1>5, <2>2
      <3>2. after[j - Len(before)] = s[i + (j - Len(before))]
        BY <1>2, <3>1
      <3> QED
        BY <1>4, <2>2, <3>1, <3>2
    <2> QED
      BY <2>1, <2>2
  <1> QED
    BY <1>1, <1>2, <1>3, <1>4, <1>5, <1>6

----------------------------------------------------------------------------
\* The team's page.

TeamRead == [list : Rosters \cup {NoPerson}]

\* A roster is a standing for each of some people.
LEMMA RosterIs ==
    /\ \A P \in SUBSET Person : \A f \in [P -> Standing] : f \in Rosters
    /\ \A f \in Rosters : DOMAIN f \subseteq Person /\ f \in [DOMAIN f -> Standing]
  BY DEF Rosters

\* Nobody leaves a team, so whom a reading lists or a POST is about is on it.
ListsAreKnown ==
    /\ team.status = "ready" => DOMAIN team.list \subseteq DOMAIN members
    /\ \A i \in DOMAIN teamReads :
          teamReads[i].list # NoPerson => DOMAIN teamReads[i].list \subseteq DOMAIN members

PostIsKnown(post, M) ==
    IF post.field = "add" THEN post.to \in TeamRoles
    ELSE /\ post.who \in M
         /\ post.to \in IF post.field = "role" THEN TeamRoles ELSE {"on", "off"}
PostsAreKnown == \A post \in teamPosts : PostIsKnown(post, DOMAIN members)

\* A change that was made and whose answer is on its way.
ChangeAnswered == \E post \in teamPosts : post.answer = "changed"

\* Undisturbed, the page is the team, or the reading that will make it so is
\* under way or will be asked for.
RosterComes ==
    mishaps = 0 /\ ~passed =>
        \/ ChangeAnswered
        \/ teamReads # <<>> /\ teamReads[Len(teamReads)].list \in {NoPerson, members}
        \/ teamReads = <<>> /\ (team.status = "ready" => team.list = members)

\* The inductive invariant.
TeamInv == TeamTypeOK /\ ListsAreKnown /\ PostsAreKnown /\ RosterComes

\* A page opens with its first reading under way.
LEMMA TeamInvInit == TeamInit => TeamInv
  <1> SUFFICES ASSUME TeamInit PROVE TeamInv
    OBVIOUS
  <1>1. Unread \in TeamRead /\ Unread.list = NoPerson
    BY DEF Unread, TeamRead
  <1>2. teamReads \in Seq(TeamRead) /\ Len(teamReads) = 1 /\ teamReads[1] = Unread
    BY <1>1 DEF TeamInit
  <1>3. /\ team.status = "loading" /\ passed = FALSE
        /\ members \in Rosters /\ Me \in DOMAIN members
        /\ teamPosts = {} /\ adding = 0 /\ editor = NoPerson /\ edits = 0 /\ mishaps = 0
    BY DEF TeamInit
  <1>4. TeamTypeOK
    <2>1. edits \in 0..MaxEdits /\ mishaps \in 0..MaxMishaps /\ adding \in 0..edits
      BY <1>3, TeamAssumption
    <2>2. teamPosts \subseteq Posts /\ \A post \in teamPosts : post.nr <= edits
      BY <1>3
    <2>3. passed \in BOOLEAN /\ editor \in Editors \cup {NoPerson} /\ team.status # "ready"
      BY <1>3
    <2> QED
      BY <1>2, <1>3, <2>1, <2>2, <2>3 DEF TeamTypeOK, TeamRead
  <1>5. ListsAreKnown /\ PostsAreKnown
    BY <1>1, <1>2, <1>3 DEF ListsAreKnown, PostsAreKnown
  <1>6. RosterComes
    BY <1>1, <1>2 DEF TeamInit, RosterComes
  <1> QED
    BY <1>4, <1>5, <1>6 DEF TeamInv

\* Asking again puts a reading behind those under way.
LEMMA AskedAgain ==
    ASSUME TeamTypeOK, ReadAgain
    PROVE  /\ teamReads' \in Seq(TeamRead)
           /\ teamReads' # <<>> /\ teamReads'[Len(teamReads')].list = NoPerson
           /\ \A i \in DOMAIN teamReads' :
                 \/ i \in DOMAIN teamReads /\ teamReads'[i] = teamReads[i]
                 \/ teamReads'[i].list = NoPerson
  <1>1. teamReads \in Seq(TeamRead) /\ Unread \in TeamRead /\ Unread.list = NoPerson
    BY DEF TeamTypeOK, TeamRead, Unread
  <1>2. teamReads' = Append(teamReads, Unread)
    BY DEF ReadAgain
  <1> QED
    BY <1>1, <1>2, AppendProperties

\* A reading is served.
LEMMA ServedKeepsTeam ==
    ASSUME TeamInv, NEW i \in DOMAIN teamReads, RosterServed(i)
    PROVE  TeamInv'
  <1>1. /\ teamReads \in Seq(TeamRead) /\ members \in Rosters
        /\ teamReads' = [teamReads EXCEPT ![i].list = members]
        /\ UNCHANGED <<members, team, teamPosts, adding, editor, edits, mishaps, passed>>
    BY DEF TeamInv, TeamTypeOK, TeamRead, RosterServed
  <1>2. teamReads[i] \in TeamRead
    BY <1>1
  <1>3. [teamReads[i] EXCEPT !.list = members] \in TeamRead
        /\ [teamReads[i] EXCEPT !.list = members].list = members
    BY <1>1, <1>2 DEF TeamRead
  <1>4. teamReads' = [teamReads EXCEPT ![i] = [teamReads[i] EXCEPT !.list = members]]
    BY <1>1
  <1>5. /\ teamReads' \in Seq(TeamRead) /\ DOMAIN teamReads' = DOMAIN teamReads
        /\ Len(teamReads') = Len(teamReads) /\ teamReads'[i].list = members
        /\ \A j \in DOMAIN teamReads \ {i} : teamReads'[j] = teamReads[j]
    <2>1. PICK v \in TeamRead : v.list = members /\ teamReads' = [teamReads EXCEPT ![i] = v]
      BY <1>3, <1>4
    <2>2. i \in 1..Len(teamReads) /\ DOMAIN teamReads = 1..Len(teamReads)
      BY <1>1
    <2>3. /\ teamReads' \in Seq(TeamRead) /\ Len(teamReads') = Len(teamReads)
          /\ \A j \in 1..Len(teamReads) : teamReads'[j] = IF j = i THEN v ELSE teamReads[j]
      BY <1>1, <2>1, <2>2, ExceptSeq
    <2>4. DOMAIN teamReads' = 1..Len(teamReads')
      BY <2>3
    <2> QED
      BY <2>1, <2>2, <2>3, <2>4
  <1>6. TeamTypeOK'
    BY <1>1, <1>5 DEF TeamInv, TeamTypeOK, TeamRead
  <1>7. ListsAreKnown'
    BY <1>1, <1>5 DEF TeamInv, ListsAreKnown
  <1>8. RosterComes'
    <2>1. teamReads # <<>> /\ teamReads' # <<>> /\ Len(teamReads) \in DOMAIN teamReads
      BY <1>1, <1>5
    <2> QED
      BY <1>1, <1>5, <2>1 DEF TeamInv, RosterComes, ChangeAnswered
  <1>9. PostsAreKnown'
    BY <1>1 DEF TeamInv, PostsAreKnown
  <1> QED
    BY <1>6, <1>7, <1>8, <1>9 DEF TeamInv

\* A reading's answer is drawn, in its turn or before an older one's.
LEMMA AppliedKeepsTeam ==
    ASSUME TeamInv, NEW i \in DOMAIN teamReads, RosterApplied(i)
    PROVE  TeamInv'
  <1>1. /\ teamReads \in Seq(TeamRead) /\ i \in 1..Len(teamReads) /\ Len(teamReads) \in Nat
        /\ teamReads[i].list # NoPerson
        /\ team' = [status |-> "ready", list |-> teamReads[i].list]
        /\ teamReads' = RemoveAt(teamReads, i)
        /\ passed' = (passed \/ i > 1)
        /\ editor' = EditorOn(teamReads[i].list)
        /\ UNCHANGED <<members, teamPosts, adding, edits, mishaps>>
    BY DEF TeamInv, TeamTypeOK, TeamRead, RosterApplied
  <1>2. /\ teamReads' \in Seq(TeamRead) /\ Len(teamReads') = Len(teamReads) - 1
        /\ \A j \in 1..(Len(teamReads) - 1) :
              teamReads'[j] = IF j < i THEN teamReads[j] ELSE teamReads[j + 1]
    BY <1>1, WithoutOne
  <1>3. teamReads[i].list \in Rosters /\ DOMAIN teamReads[i].list \subseteq DOMAIN members
    <2>1. teamReads[i] \in TeamRead
      BY <1>1
    <2> QED
      BY <1>1, <2>1 DEF TeamRead, TeamInv, ListsAreKnown
  <1>4. /\ editor' \in Editors \cup {NoPerson}
        /\ editor' # NoPerson => editor'.busy <= edits /\ editor'.who \in DOMAIN members
    <2>1. CASE editor # NoPerson /\ editor.who \in DOMAIN teamReads[i].list /\ ~Shown
      <3>1. /\ teamReads[i].list[editor.who] \in Standing
            /\ editor.who \in Person /\ editor.who \in DOMAIN members
        BY <1>3, <2>1, RosterIs DEF TeamInv, TeamTypeOK
      <3>2. editor' = [who |-> editor.who, role |-> teamReads[i].list[editor.who].role,
                       confirming |-> "nothing", busy |-> 0]
        BY <1>1, <2>1 DEF EditorOn, Fresh
      <3>3. edits \in Nat /\ 0 \in 0..MaxEdits
        BY TeamAssumption DEF TeamInv, TeamTypeOK
      <3>4. editor' \in Editors
        BY <3>1, <3>2, <3>3 DEF Editors, Standing
      <3> QED
        BY <3>1, <3>2, <3>3, <3>4
    <2>2. CASE ~(editor # NoPerson /\ editor.who \in DOMAIN teamReads[i].list /\ ~Shown)
      <3>1. editor' = editor
        BY <1>1, <2>2 DEF EditorOn
      <3> QED
        BY <3>1 DEF TeamInv, TeamTypeOK
    <2> QED
      BY <2>1, <2>2
  <1>5. passed' \in BOOLEAN
    BY <1>1 DEF TeamInv, TeamTypeOK
  <1>6. TeamTypeOK'
    BY <1>1, <1>2, <1>3, <1>4, <1>5 DEF TeamInv, TeamTypeOK, TeamRead
  <1>7. ListsAreKnown'
    <2>1. ASSUME NEW j \in DOMAIN teamReads', teamReads'[j].list # NoPerson
          PROVE  DOMAIN teamReads'[j].list \subseteq DOMAIN members
      <3>1. j \in 1..(Len(teamReads) - 1) /\ j \in DOMAIN teamReads /\ j + 1 \in DOMAIN teamReads
        BY <1>1, <1>2
      <3> QED
        BY <1>2, <2>1, <3>1 DEF TeamInv, ListsAreKnown
    <2> QED
      BY <1>1, <1>3, <2>1 DEF TeamInv, ListsAreKnown
  <1>8. RosterComes'
    <2> SUFFICES ASSUME mishaps' = 0, ~passed', ~ChangeAnswered'
                 PROVE  \/ teamReads' # <<>> /\ teamReads'[Len(teamReads')].list \in {NoPerson, members'}
                        \/ teamReads' = <<>> /\ (team'.status = "ready" => team'.list = members')
      BY DEF RosterComes
    <2>1. i = 1 /\ mishaps = 0 /\ ~passed /\ ~ChangeAnswered
      <3>1. ~passed /\ ~(i > 1)
        BY <1>1
      <3>2. i = 1
        BY <1>1, <3>1
      <3> QED
        BY <1>1, <3>1, <3>2 DEF ChangeAnswered
    <2>2. teamReads[Len(teamReads)].list \in {NoPerson, members}
      BY <1>1, <2>1 DEF TeamInv, RosterComes
    <2>3. CASE Len(teamReads) = 1
      <3>1. teamReads' = <<>>
        BY <1>1, <1>2, <2>3
      <3> QED
        BY <1>1, <2>1, <2>2, <2>3, <3>1
    <2>4. CASE Len(teamReads) # 1
      <3>1. /\ Len(teamReads) - 1 \in 1..(Len(teamReads) - 1) /\ ~(Len(teamReads) - 1 < i)
            /\ teamReads' # <<>> /\ Len(teamReads) - 1 + 1 = Len(teamReads)
        BY <1>1, <1>2, <2>1, <2>4
      <3>2. teamReads'[Len(teamReads')] = teamReads[Len(teamReads)]
        BY <1>2, <3>1
      <3> QED
        BY <1>1, <2>2, <3>1, <3>2
    <2> QED
      BY <2>3, <2>4
  <1>9. PostsAreKnown'
    BY <1>1 DEF TeamInv, PostsAreKnown
  <1> QED
    BY <1>6, <1>7, <1>8, <1>9 DEF TeamInv

\* What went wrong, or happened elsewhere, is counted.
LEMMA MishapCounts == ASSUME TeamTypeOK, Mishap PROVE mishaps' \in 0..MaxMishaps /\ mishaps' # 0
  BY TeamAssumption DEF TeamTypeOK, Mishap

\* A reading fails, and the page with it.
LEMMA FailedKeepsTeam ==
    ASSUME TeamInv, NEW i \in DOMAIN teamReads, RosterFailed(i)
    PROVE  TeamInv'
  <1>1. /\ teamReads \in Seq(TeamRead) /\ i \in 1..Len(teamReads) /\ Len(teamReads) \in Nat
        /\ team'.status \in {"error", "forbidden"}
        /\ teamReads' = RemoveAt(teamReads, i)
        /\ adding' = 0
        /\ UNCHANGED <<members, teamPosts, editor, edits, passed>>
    BY DEF TeamInv, TeamTypeOK, TeamRead, RosterFailed
  <1>2. mishaps' \in 0..MaxMishaps /\ mishaps' # 0
    BY MishapCounts DEF TeamInv, RosterFailed
  <1>3. /\ teamReads' \in Seq(TeamRead) /\ Len(teamReads') = Len(teamReads) - 1
        /\ \A j \in 1..(Len(teamReads) - 1) :
              teamReads'[j] = IF j < i THEN teamReads[j] ELSE teamReads[j + 1]
    BY <1>1, WithoutOne
  <1>4. TeamTypeOK'
    BY <1>1, <1>2, <1>3 DEF TeamInv, TeamTypeOK, TeamRead
  <1>5. ListsAreKnown'
    <2>1. ASSUME NEW j \in DOMAIN teamReads', teamReads'[j].list # NoPerson
          PROVE  DOMAIN teamReads'[j].list \subseteq DOMAIN members
      <3>1. j \in 1..(Len(teamReads) - 1) /\ j \in DOMAIN teamReads /\ j + 1 \in DOMAIN teamReads
        BY <1>1, <1>3
      <3> QED
        BY <1>3, <2>1, <3>1 DEF TeamInv, ListsAreKnown
    <2> QED
      BY <1>1, <2>1 DEF TeamInv, ListsAreKnown
  <1>6. PostsAreKnown'
    BY <1>1 DEF TeamInv, PostsAreKnown
  <1> QED
    BY <1>2, <1>4, <1>5, <1>6 DEF TeamInv, RosterComes

\* A POST about somebody on the team is about somebody on it when others joined.
LEMMA StillKnown ==
    ASSUME NEW post, NEW M, NEW N, M \subseteq N, PostIsKnown(post, M)
    PROVE  PostIsKnown(post, N)
  BY DEF PostIsKnown

\* What sending a POST leaves of those under way.
LEMMA SendingAdds ==
    ASSUME TeamInv, NEW p \in Person, NEW field \in {"add", "role", "active"},
           NEW to \in TeamRoles \cup {"on", "off"}, Sends(p, field, to),
           IF field = "add" THEN to \in TeamRoles
           ELSE p \in DOMAIN members /\ to \in IF field = "role" THEN TeamRoles ELSE {"on", "off"},
           UNCHANGED members
    PROVE  /\ edits \in Nat /\ edits' = edits + 1 /\ edits' \in 1..MaxEdits
           /\ teamPosts' \subseteq Posts /\ \A post \in teamPosts' : post.nr <= edits'
           /\ PostsAreKnown' /\ (ChangeAnswered => ChangeAnswered')
  <1> DEFINE new == [nr |-> edits + 1, who |-> p, field |-> field, to |-> to, answer |-> "none"]
  <1>1. edits \in 0..MaxEdits /\ edits < MaxEdits /\ edits' = edits + 1 /\ MaxEdits \in Nat
    BY TeamAssumption DEF TeamInv, TeamTypeOK, Sends
  <1>2. edits \in Nat /\ edits' \in 1..MaxEdits
    BY <1>1
  <1>3. teamPosts' = teamPosts \cup {new} /\ teamPosts \subseteq Posts
    BY DEF TeamInv, TeamTypeOK, Sends
  <1>4. new \in Posts
    BY <1>1, <1>2 DEF Posts
  <1>5. new.nr = edits' /\ PostIsKnown(new, DOMAIN members)
    BY <1>1 DEF PostIsKnown
  <1>6. \A post \in teamPosts : post.nr <= edits /\ post.nr \in Nat /\ PostIsKnown(post, DOMAIN members)
    BY <1>3 DEF TeamInv, TeamTypeOK, PostsAreKnown, Posts
  <1> HIDE DEF new
  <1>7. \A post \in teamPosts' : post.nr <= edits'
    BY <1>1, <1>2, <1>3, <1>5, <1>6
  <1>8. PostsAreKnown'
    BY <1>3, <1>5, <1>6 DEF PostsAreKnown
  <1> QED
    BY <1>1, <1>2, <1>3, <1>4, <1>7, <1>8 DEF ChangeAnswered

\* What an answer leaves of them.
LEMMA AnsweringKeeps ==
    ASSUME TeamInv, NEW post \in teamPosts, post.answer = "none",
           NEW a \in {"changed", "unchanged", "invalid"}, AnswerWith(post, a), UNCHANGED edits,
           DOMAIN members \subseteq DOMAIN members'
    PROVE  /\ teamPosts' \subseteq Posts /\ \A q \in teamPosts' : q.nr <= edits'
           /\ PostsAreKnown' /\ (ChangeAnswered \/ a = "changed" => ChangeAnswered')
  <1> DEFINE new == [post EXCEPT !.answer = a]
  <1>1. teamPosts' = (teamPosts \ {post}) \cup {new} /\ teamPosts \subseteq Posts /\ post \in Posts
    BY DEF TeamInv, TeamTypeOK, AnswerWith
  <1>2. /\ new \in Posts /\ new.answer = a /\ new.nr = post.nr
        /\ new.who = post.who /\ new.field = post.field /\ new.to = post.to
    BY <1>1 DEF Posts
  <1>3. \A q \in teamPosts : q.nr <= edits /\ PostIsKnown(q, DOMAIN members)
    BY DEF TeamInv, TeamTypeOK, PostsAreKnown
  <1> HIDE DEF new
  <1>4. PostIsKnown(new, DOMAIN members)
    BY <1>2, <1>3 DEF PostIsKnown
  <1>5. \A q \in teamPosts' : q.nr <= edits'
    BY <1>1, <1>2, <1>3
  <1>6. PostsAreKnown'
    <2>1. ASSUME NEW q \in teamPosts' PROVE PostIsKnown(q, DOMAIN members')
      BY <1>1, <1>3, <1>4, <2>1, StillKnown
    <2> QED
      BY <2>1 DEF PostsAreKnown
  <1>7. ChangeAnswered \/ a = "changed" => ChangeAnswered'
    BY <1>1, <1>2 DEF ChangeAnswered
  <1> QED
    BY <1>1, <1>2, <1>5, <1>6, <1>7

\* The server at a POST.
LEMMA ServerKeepsTeam ==
    ASSUME TeamInv, NEW post \in teamPosts, createUser(post) \/ changeAccess(post)
    PROVE  TeamInv'
  <1>1. /\ post \in Posts /\ post.answer = "none"
        /\ UNCHANGED <<team, teamReads, adding, editor, edits, mishaps, passed>>
    BY DEF TeamInv, TeamTypeOK, createUser, changeAccess
  <1>2. members \in [DOMAIN members -> Standing] /\ DOMAIN members \subseteq Person
    BY RosterIs DEF TeamInv, TeamTypeOK
  <1>3. ASSUME UNCHANGED members,
               AnswerWith(post, "unchanged") \/ AnswerWith(post, "invalid")
        PROVE  TeamInv'
    <2>1. PICK a \in {"unchanged", "invalid"} : AnswerWith(post, a)
      BY <1>3
    <2>2. /\ teamPosts' \subseteq Posts /\ \A q \in teamPosts' : q.nr <= edits'
          /\ PostsAreKnown' /\ (ChangeAnswered => ChangeAnswered')
      BY <1>1, <1>3, <2>1, AnsweringKeeps
    <2> QED
      BY <1>1, <1>3, <2>2 DEF TeamInv, TeamTypeOK, ListsAreKnown, RosterComes
  <1>4. ASSUME members' \in Rosters, DOMAIN members \subseteq DOMAIN members', AnswerWith(post, "changed")
        PROVE  TeamInv'
    <2>1. /\ teamPosts' \subseteq Posts /\ \A q \in teamPosts' : q.nr <= edits'
          /\ PostsAreKnown' /\ ChangeAnswered'
      BY <1>1, <1>4, AnsweringKeeps
    <2>2. TeamTypeOK'
      BY <1>1, <1>4, <2>1 DEF TeamInv, TeamTypeOK
    <2>3. ListsAreKnown'
      BY <1>1, <1>4 DEF TeamInv, ListsAreKnown
    <2> QED
      BY <2>1, <2>2, <2>3 DEF TeamInv, RosterComes
  <1>5. CASE createUser(post)
    <2>1. CASE post.who \in DOMAIN members
      BY <1>3, <1>5, <2>1 DEF createUser
    <2>2. CASE post.who \notin DOMAIN members
      <3>1. /\ AnswerWith(post, "changed")
            /\ members' = [p \in DOMAIN members \cup {post.who} |->
                              IF p = post.who THEN [role |-> post.to, active |-> "on"] ELSE members[p]]
        BY <1>5, <2>2 DEF createUser
      <3>2. post.who \in Person /\ post.to \in TeamRoles
        BY <1>1, <1>5 DEF createUser, TeamInv, PostsAreKnown, PostIsKnown, Posts
      <3>3. members' \in [DOMAIN members \cup {post.who} -> Standing]
        BY <1>2, <3>1, <3>2 DEF Standing
      <3>4. members' \in Rosters /\ DOMAIN members \subseteq DOMAIN members'
        BY <1>2, <3>2, <3>3, RosterIs
      <3> QED
        BY <1>4, <3>1, <3>4
    <2> QED
      BY <2>1, <2>2
  <1>6. CASE changeAccess(post)
    <2>1. /\ post.field \in {"role", "active"} /\ post.who \in DOMAIN members
          /\ post.to \in IF post.field = "role" THEN TeamRoles ELSE {"on", "off"}
      BY <1>1, <1>6 DEF changeAccess, TeamInv, PostsAreKnown, PostIsKnown, Posts
    <2>2. CASE /\ UNCHANGED members
               /\ AnswerWith(post, "unchanged") \/ AnswerWith(post, "invalid")
      BY <1>3, <2>2
    <2>3. CASE /\ members' = [members EXCEPT ![post.who][post.field] = post.to]
               /\ AnswerWith(post, "changed")
      <3>1. members[post.who] \in Standing
        BY <1>2, <2>1
      <3>2. [members[post.who] EXCEPT ![post.field] = post.to] \in Standing
        <4>1. CASE post.field = "role"
          BY <2>1, <3>1, <4>1 DEF Standing
        <4>2. CASE post.field = "active"
          BY <2>1, <3>1, <4>2 DEF Standing
        <4> QED
          BY <2>1, <4>1, <4>2
      <3>3. members' \in [DOMAIN members -> Standing]
        BY <1>2, <2>1, <2>3, <3>2
      <3>4. members' \in Rosters /\ DOMAIN members' = DOMAIN members
        BY <1>2, <3>3, RosterIs
      <3> QED
        BY <1>4, <2>3, <3>4
    <2> QED
      BY <1>6, <2>2, <2>3 DEF changeAccess
  <1> QED
    BY <1>5, <1>6

\* A form that hears of its POST stays a form.
LEMMA HearingKeeps ==
    ASSUME TeamTypeOK, NEW post, FormHears(post)
    PROVE  /\ adding' \in 0..edits /\ editor' \in Editors \cup {NoPerson}
           /\ editor' # NoPerson => editor'.busy <= edits /\ editor'.who \in DOMAIN members
  <1>1. edits \in Nat /\ adding \in 0..edits
    BY DEF TeamTypeOK
  <1>2. adding' \in 0..edits
    BY <1>1 DEF FormHears
  <1>3. CASE editor # NoPerson /\ editor.busy = post.nr
    <2>1. editor \in Editors /\ editor.who \in DOMAIN members
      BY <1>3 DEF TeamTypeOK
    <2>2. PICK c \in {"nothing", "role", "active"} :
              editor' = [editor EXCEPT !.busy = 0, !.confirming = c]
      BY <1>3, <2>1 DEF FormHears, Editors
    <2>3. 0 \in 0..MaxEdits
      BY TeamAssumption
    <2>4. editor' \in Editors /\ editor'.busy = 0 /\ editor'.who = editor.who
      BY <2>1, <2>2, <2>3 DEF Editors
    <2> QED
      BY <1>1, <1>2, <2>1, <2>4
  <1>4. CASE ~(editor # NoPerson /\ editor.busy = post.nr)
    BY <1>2, <1>4 DEF FormHears, TeamTypeOK
  <1> QED
    BY <1>3, <1>4

\* An answer arrives, or does not.
LEMMA AnsweredKeepsTeam ==
    ASSUME TeamInv, NEW post \in teamPosts, PostAnswered(post) \/ PostLost(post)
    PROVE  TeamInv'
  <1>1. teamPosts' = teamPosts \ {post} /\ UNCHANGED <<members, team, edits, passed>>
    BY DEF PostAnswered, PostLost
  <1>2. /\ adding' \in 0..edits' /\ editor' \in Editors \cup {NoPerson}
        /\ editor' # NoPerson => editor'.busy <= edits' /\ editor'.who \in DOMAIN members'
    <2>1. \E q : FormHears(q)
      BY DEF PostAnswered, PostLost
    <2> QED
      BY <1>1, <2>1, HearingKeeps DEF TeamInv
  <1>3. PostsAreKnown'
    BY <1>1 DEF TeamInv, PostsAreKnown
  <1>4. CASE PostLost(post)
    <2>1. mishaps' \in 0..MaxMishaps /\ mishaps' # 0 /\ teamReads' = teamReads
      BY <1>4, MishapCounts DEF PostLost, TeamInv
    <2> QED
      BY <1>1, <1>2, <1>3, <2>1 DEF TeamInv, TeamTypeOK, ListsAreKnown, RosterComes
  <1>5. CASE PostAnswered(post) /\ post.answer = "changed"
    <2>1. ReadAgain /\ mishaps' = mishaps
      BY <1>5 DEF PostAnswered
    <2>2. /\ teamReads' \in Seq(TeamRead)
          /\ teamReads' # <<>> /\ teamReads'[Len(teamReads')].list = NoPerson
          /\ \A i \in DOMAIN teamReads' :
                \/ i \in DOMAIN teamReads /\ teamReads'[i] = teamReads[i]
                \/ teamReads'[i].list = NoPerson
      BY <2>1, AskedAgain DEF TeamInv
    <2>3. TeamTypeOK'
      BY <1>1, <1>2, <2>1, <2>2 DEF TeamInv, TeamTypeOK, TeamRead
    <2>4. ListsAreKnown'
      BY <1>1, <2>2 DEF TeamInv, ListsAreKnown
    <2> QED
      BY <1>3, <2>2, <2>3, <2>4 DEF TeamInv, RosterComes
  <1>6. CASE PostAnswered(post) /\ post.answer # "changed"
    <2>1. UNCHANGED <<teamReads, mishaps>>
      BY <1>6 DEF PostAnswered
    <2>2. ChangeAnswered => ChangeAnswered'
      BY <1>1, <1>6 DEF ChangeAnswered
    <2> QED
      BY <1>1, <1>2, <1>3, <2>1, <2>2 DEF TeamInv, TeamTypeOK, ListsAreKnown, RosterComes
  <1> QED
    BY <1>4, <1>5, <1>6

\* A form sends its POST.
LEMMA SendingKeepsTeam ==
    ASSUME TeamInv, (\E p \in Person, r \in TeamRoles : AddMember(p, r)) \/ Confirmed
    PROVE  TeamInv'
  <1>1. CASE \E p \in Person, r \in TeamRoles : AddMember(p, r)
    <2>1. PICK p \in Person, r \in TeamRoles : AddMember(p, r)
      BY <1>1
    <2>2. /\ Sends(p, "add", r) /\ adding' = edits + 1
          /\ UNCHANGED <<members, team, teamReads, editor, mishaps, passed>>
      BY <2>1 DEF AddMember
    <2>3. /\ edits \in Nat /\ edits' = edits + 1 /\ edits' \in 1..MaxEdits
          /\ teamPosts' \subseteq Posts /\ \A post \in teamPosts' : post.nr <= edits'
          /\ PostsAreKnown' /\ (ChangeAnswered => ChangeAnswered')
      BY <2>2, SendingAdds
    <2>4. adding' \in 0..edits' /\ edits' \in 0..MaxEdits
      BY <2>2, <2>3
    <2>5. editor # NoPerson => editor.busy <= edits'
      BY <2>3 DEF TeamInv, TeamTypeOK, Editors
    <2> QED
      BY <2>2, <2>3, <2>4, <2>5 DEF TeamInv, TeamTypeOK, ListsAreKnown, RosterComes
  <1>2. CASE Confirmed
    <2>1. editor \in Editors /\ editor.who \in DOMAIN members /\ editor.who \in Person
      BY <1>2 DEF Confirmed, EditorFree, Shown, TeamInv, TeamTypeOK, Editors
    <2>2. PICK to : /\ Sends(editor.who, editor.confirming, to)
                    /\ to = IF editor.confirming = "role" THEN editor.role
                            ELSE IF team.list[editor.who].active = "on" THEN "off" ELSE "on"
      BY <1>2 DEF Confirmed
    <2>3. /\ editor.confirming \in {"role", "active"}
          /\ to \in IF editor.confirming = "role" THEN TeamRoles ELSE {"on", "off"}
      BY <1>2, <2>1, <2>2 DEF Confirmed, Editors
    <2>4. /\ editor' = [editor EXCEPT !.busy = edits + 1]
          /\ UNCHANGED <<members, team, teamReads, adding, mishaps, passed>>
      BY <1>2 DEF Confirmed
    <2>5. /\ edits \in Nat /\ edits' = edits + 1 /\ edits' \in 1..MaxEdits
          /\ teamPosts' \subseteq Posts /\ \A post \in teamPosts' : post.nr <= edits'
          /\ PostsAreKnown' /\ (ChangeAnswered => ChangeAnswered')
      BY <2>1, <2>2, <2>3, <2>4, SendingAdds
    <2>6. /\ adding' \in 0..edits' /\ edits' \in 0..MaxEdits
      BY <2>4, <2>5 DEF TeamInv, TeamTypeOK
    <2>7. editor' \in Editors /\ editor'.busy = edits' /\ editor'.who = editor.who
      BY <2>1, <2>4, <2>5 DEF Editors
    <2>8. TeamTypeOK'
      BY <2>1, <2>4, <2>5, <2>6, <2>7 DEF TeamInv, TeamTypeOK
    <2> QED
      BY <2>4, <2>5, <2>8 DEF TeamInv, ListsAreKnown, RosterComes
  <1> QED
    BY <1>1, <1>2

\* The editor, while nothing of it is under way.
LEMMA EditorKeepsTeam ==
    ASSUME TeamInv,
           \/ \E p \in Person : ChangeAccess(p)
           \/ \E r \in TeamRoles : SelectRole(r)
           \/ \E kind \in {"role", "active"} : ReviewChange(kind)
           \/ GoBack \/ CloseEditor
    PROVE  TeamInv'
  <1>1. UNCHANGED <<members, team, teamReads, teamPosts, adding, edits, mishaps, passed>>
    BY DEF ChangeAccess, SelectRole, ReviewChange, GoBack, CloseEditor, EditorSays
  <1>2. edits \in Nat /\ 0 \in 0..MaxEdits
    BY TeamAssumption DEF TeamInv, TeamTypeOK
  <1>3. /\ editor' \in Editors \cup {NoPerson}
        /\ editor' # NoPerson => editor'.busy <= edits /\ editor'.who \in DOMAIN members
    <2>1. CASE \E p \in Person : ChangeAccess(p)
      <3>1. PICK p \in Person : ChangeAccess(p)
        BY <2>1
      <3>2. team.list \in Rosters /\ p \in DOMAIN team.list /\ p \in DOMAIN members
        BY <3>1 DEF ChangeAccess, TeamInv, TeamTypeOK, ListsAreKnown
      <3>3. team.list[p] \in Standing
        BY <3>2, RosterIs
      <3>4. editor' = [who |-> p, role |-> team.list[p].role, confirming |-> "nothing", busy |-> 0]
        BY <3>1 DEF ChangeAccess, Fresh
      <3>5. editor' \in Editors
        BY <1>2, <3>3, <3>4 DEF Editors, Standing
      <3> QED
        BY <1>2, <3>2, <3>4, <3>5
    <2>2. CASE CloseEditor
      BY <2>2 DEF CloseEditor, EditorSays
    <2>3. CASE \/ \E r \in TeamRoles : SelectRole(r)
               \/ \E kind \in {"role", "active"} : ReviewChange(kind)
               \/ GoBack
      <3>1. editor \in Editors /\ editor.busy <= edits /\ editor.who \in DOMAIN members
        BY <2>3 DEF SelectRole, ReviewChange, GoBack, EditorFree, Shown, TeamInv, TeamTypeOK
      <3>2. CASE \E r \in TeamRoles : SelectRole(r)
        <4>1. PICK r \in TeamRoles : editor' = [editor EXCEPT !.role = r]
          BY <3>2 DEF SelectRole, EditorSays
        <4>2. editor' \in Editors /\ editor'.busy = editor.busy /\ editor'.who = editor.who
          BY <3>1, <4>1 DEF Editors
        <4> QED
          BY <3>1, <4>2
      <3>3. CASE GoBack \/ \E kind \in {"role", "active"} : ReviewChange(kind)
        <4>1. PICK c \in {"nothing", "role", "active"} : editor' = [editor EXCEPT !.confirming = c]
          BY <3>3 DEF ReviewChange, GoBack, EditorSays
        <4>2. editor' \in Editors /\ editor'.busy = editor.busy /\ editor'.who = editor.who
          BY <3>1, <4>1 DEF Editors
        <4> QED
          BY <3>1, <4>2
      <3> QED
        BY <2>3, <3>2, <3>3
    <2> QED
      BY <2>1, <2>2, <2>3
  <1>4. TeamTypeOK'
    BY <1>1, <1>3 DEF TeamInv, TeamTypeOK
  <1> QED
    BY <1>1, <1>4 DEF TeamInv, ListsAreKnown, PostsAreKnown, RosterComes, ChangeAnswered

\* Another admin changes a role.
LEMMA ElsewhereKeepsTeam ==
    ASSUME TeamInv, NEW p \in Person, ChangedElsewhere(p)
    PROVE  TeamInv'
  <1>1. UNCHANGED <<team, teamReads, teamPosts, adding, editor, edits, passed>>
    BY DEF ChangedElsewhere
  <1>2. mishaps' \in 0..MaxMishaps /\ mishaps' # 0
    BY MishapCounts DEF ChangedElsewhere, TeamInv
  <1>3. PICK r \in TeamRoles : p \in DOMAIN members /\ members' = [members EXCEPT ![p].role = r]
    BY DEF ChangedElsewhere
  <1>4. members \in [DOMAIN members -> Standing] /\ DOMAIN members \subseteq Person
    BY RosterIs DEF TeamInv, TeamTypeOK
  <1>5. [members[p] EXCEPT !.role = r] \in Standing
    BY <1>3, <1>4 DEF Standing
  <1>6. members' \in [DOMAIN members -> Standing]
    BY <1>3, <1>4, <1>5
  <1>7. members' \in Rosters /\ DOMAIN members' = DOMAIN members
    BY <1>4, <1>6, RosterIs
  <1>8. TeamTypeOK'
    BY <1>1, <1>2, <1>7 DEF TeamInv, TeamTypeOK
  <1>9. ListsAreKnown' /\ PostsAreKnown'
    BY <1>1, <1>7 DEF TeamInv, ListsAreKnown, PostsAreKnown
  <1> QED
    BY <1>2, <1>8, <1>9 DEF TeamInv, RosterComes

LEMMA TeamInvStep == TeamInv /\ [TeamNext]_teamVars => TeamInv'
  <1> SUFFICES ASSUME TeamInv, [TeamNext]_teamVars PROVE TeamInv'
    OBVIOUS
  <1>1. CASE UNCHANGED teamVars
    BY <1>1 DEF teamVars, TeamInv, TeamTypeOK, ListsAreKnown, PostsAreKnown, RosterComes, ChangeAnswered
  <1> QED
    BY <1>1, ServedKeepsTeam, AppliedKeepsTeam, FailedKeepsTeam, ServerKeepsTeam, AnsweredKeepsTeam,
       SendingKeepsTeam, EditorKeepsTeam, ElsewhereKeepsTeam DEF TeamNext

\* Undisturbed, the list at rest is the team, however many POSTs of its forms overlap,
\* those of editors that were closed too, and the readings they ask for; and everything
\* on the page has its type (ui/users-admin.tsx:87-89, 139, 158-167, 396).
THEOREM TheListIsTheTeam == TeamSpec => [](TeamTypeOK /\ RosterIsTheTeam)
  <1>1. TeamInv => TeamTypeOK /\ RosterIsTheTeam
    BY DEF TeamInv, RosterComes, RosterIsTheTeam, ChangeAnswered
  <1> QED
    BY <1>1, TeamInvInit, TeamInvStep, PTL DEF TeamSpec

----------------------------------------------------------------------------
\* The page of the credentials.

HealthRead == [list : Lists \cup {Nobody}]

\* Credentials are only ever added, so whatever a page lists or is asked about
\* there is, and a click has a credential of its own to turn off or one to add.
ListsArePast ==
    /\ health.status = "ready" => DOMAIN health.list \subseteq DOMAIN endpoints
    /\ \A i \in DOMAIN healthReads :
          healthReads[i].list # Nobody => DOMAIN healthReads[i].list \subseteq DOMAIN endpoints
    /\ click # Nobody =>
          /\ click.intent = "revoke" => click.endpoint \in DOMAIN endpoints
          /\ click.intent = "issue" /\ click.answer = "none" => Len(endpoints) < MaxIssued
          /\ click.answer = "issued" => click.endpoint \in DOMAIN endpoints

\* A click that changed the credentials and whose answer is on its way.
ClickTells == click # Nobody /\ click.answer \in {"issued", "revoked"}

\* Undisturbed, the page lists the credentials, or the reading that will make
\* it so is under way or will be asked for.
ListComes ==
    troubles = 0 /\ ~overtaken =>
        \/ ClickTells
        \/ healthReads # <<>> /\ healthReads[Len(healthReads)].list \in {Nobody, endpoints}
        \/ healthReads = <<>> /\ (health.status = "ready" => health.list = endpoints)

\* The inductive invariant.
EndpointsInv == EndpointsTypeOK /\ ListsArePast /\ ListComes

\* A page opens with its first reading under way.
LEMMA EndpointsInvInit == EndpointsInit => EndpointsInv
  <1> SUFFICES ASSUME EndpointsInit PROVE EndpointsInv
    OBVIOUS
  <1>1. healthReads \in Seq(HealthRead) /\ Len(healthReads) = 1 /\ healthReads[1].list = Nobody
    <2>1. Unserved \in HealthRead /\ Unserved.list = Nobody
      BY DEF Unserved, HealthRead
    <2> QED
      BY <2>1 DEF EndpointsInit
  <1>2. endpoints \in Lists /\ Len(endpoints) = 0 /\ DOMAIN endpoints = {}
    BY DEF EndpointsInit, Lists
  <1>3. /\ health.status = "loading" /\ overtaken = FALSE
        /\ token = Nobody /\ confirming = Nobody /\ click = Nobody
    BY DEF EndpointsInit
  <1>4. clicks \in 0..MaxClicks /\ troubles \in 0..MaxTroubles
    BY EndpointsAssumption DEF EndpointsInit
  <1>5. /\ healthReads \in Seq([list : Lists \cup {Nobody}])
        /\ endpoints \in Lists /\ Len(endpoints) <= MaxIssued
    BY <1>1, <1>2, EndpointsAssumption DEF HealthRead
  <1>6. EndpointsTypeOK
    BY <1>3, <1>4, <1>5 DEF EndpointsTypeOK
  <1> QED
    BY <1>1, <1>3, <1>6 DEF EndpointsInv, ListsArePast, ListComes

\* Asking again puts a reading behind those under way.
LEMMA AskedForHealth ==
    ASSUME EndpointsTypeOK, AskAgain
    PROVE  /\ healthReads' \in Seq(HealthRead)
           /\ healthReads' # <<>> /\ healthReads'[Len(healthReads')].list = Nobody
           /\ \A i \in DOMAIN healthReads' :
                 \/ i \in DOMAIN healthReads /\ healthReads'[i] = healthReads[i]
                 \/ healthReads'[i].list = Nobody
  <1>1. healthReads \in Seq(HealthRead) /\ Unserved \in HealthRead /\ Unserved.list = Nobody
    BY DEF EndpointsTypeOK, HealthRead, Unserved
  <1>2. healthReads' = Append(healthReads, Unserved)
    BY DEF AskAgain
  <1> QED
    BY <1>1, <1>2, AppendProperties

\* A trouble is counted.
LEMMA TroubleCounts ==
    ASSUME EndpointsTypeOK, Trouble PROVE troubles' \in 0..MaxTroubles /\ troubles' # 0
  BY EndpointsAssumption DEF EndpointsTypeOK, Trouble

\* A reading is served.
LEMMA HealthServedKeeps ==
    ASSUME EndpointsInv, NEW i \in DOMAIN healthReads, HealthServed(i)
    PROVE  EndpointsInv'
  <1>1. /\ healthReads \in Seq(HealthRead) /\ endpoints \in Lists
        /\ healthReads' = [healthReads EXCEPT ![i].list = endpoints]
        /\ UNCHANGED <<endpoints, health, token, confirming, click, clicks, troubles, overtaken>>
    BY DEF EndpointsInv, EndpointsTypeOK, HealthRead, HealthServed, Snapshot
  <1>2. healthReads[i] \in HealthRead
    BY <1>1
  <1>3. PICK v \in HealthRead : v.list = endpoints /\ healthReads' = [healthReads EXCEPT ![i] = v]
    BY <1>1, <1>2 DEF HealthRead
  <1>4. /\ healthReads' \in Seq(HealthRead) /\ DOMAIN healthReads' = DOMAIN healthReads
        /\ Len(healthReads') = Len(healthReads) /\ healthReads'[i].list = endpoints
        /\ \A j \in DOMAIN healthReads \ {i} : healthReads'[j] = healthReads[j]
    <2>1. i \in 1..Len(healthReads) /\ DOMAIN healthReads = 1..Len(healthReads)
      BY <1>1
    <2>2. /\ healthReads' \in Seq(HealthRead) /\ Len(healthReads') = Len(healthReads)
          /\ \A j \in 1..Len(healthReads) : healthReads'[j] = IF j = i THEN v ELSE healthReads[j]
      BY <1>1, <1>3, <2>1, ExceptSeq
    <2>3. DOMAIN healthReads' = 1..Len(healthReads')
      BY <2>2
    <2> QED
      BY <1>3, <2>1, <2>2, <2>3
  <1>5. EndpointsTypeOK'
    BY <1>1, <1>4 DEF EndpointsInv, EndpointsTypeOK, HealthRead
  <1>6. ListsArePast'
    BY <1>1, <1>4 DEF EndpointsInv, ListsArePast
  <1>7. ListComes'
    <2>1. healthReads # <<>> /\ healthReads' # <<>> /\ Len(healthReads) \in DOMAIN healthReads
      BY <1>1, <1>4
    <2> QED
      BY <1>1, <1>4, <2>1 DEF EndpointsInv, ListComes, ClickTells
  <1> QED
    BY <1>5, <1>6, <1>7 DEF EndpointsInv

\* What is left when a reading is taken out of those under way.
LEMMA HealthWithoutOne ==
    ASSUME EndpointsInv, NEW i \in DOMAIN healthReads, healthReads' = RemoveAt(healthReads, i),
           endpoints' = endpoints
    PROVE  /\ healthReads \in Seq(HealthRead) /\ i \in 1..Len(healthReads) /\ Len(healthReads) \in Nat
           /\ healthReads' \in Seq(HealthRead) /\ Len(healthReads') = Len(healthReads) - 1
           /\ \A j \in 1..(Len(healthReads) - 1) :
                 healthReads'[j] = IF j < i THEN healthReads[j] ELSE healthReads[j + 1]
           /\ \A j \in DOMAIN healthReads' : healthReads'[j].list # Nobody =>
                 DOMAIN healthReads'[j].list \subseteq DOMAIN endpoints
  <1>1. healthReads \in Seq(HealthRead) /\ i \in 1..Len(healthReads) /\ Len(healthReads) \in Nat
    BY DEF EndpointsInv, EndpointsTypeOK, HealthRead
  <1>2. /\ healthReads' \in Seq(HealthRead) /\ Len(healthReads') = Len(healthReads) - 1
        /\ \A j \in 1..(Len(healthReads) - 1) :
              healthReads'[j] = IF j < i THEN healthReads[j] ELSE healthReads[j + 1]
    BY <1>1, WithoutOne
  <1>3. ASSUME NEW j \in DOMAIN healthReads', healthReads'[j].list # Nobody
        PROVE  DOMAIN healthReads'[j].list \subseteq DOMAIN endpoints
    <2>1. j \in 1..(Len(healthReads) - 1) /\ j \in DOMAIN healthReads /\ j + 1 \in DOMAIN healthReads
      BY <1>1, <1>2
    <2> QED
      BY <1>2, <1>3, <2>1 DEF EndpointsInv, ListsArePast
  <1> QED
    BY <1>1, <1>2, <1>3

\* A reading's answer is drawn, in its turn or before an older one's.
LEMMA HealthAppliedKeeps ==
    ASSUME EndpointsInv, NEW i \in DOMAIN healthReads, HealthApplied(i)
    PROVE  EndpointsInv'
  <1>1. /\ healthReads[i].list # Nobody
        /\ health' = [status |-> "ready", list |-> healthReads[i].list]
        /\ healthReads' = RemoveAt(healthReads, i)
        /\ overtaken' = (overtaken \/ i > 1)
        /\ UNCHANGED <<endpoints, token, confirming, click, clicks, troubles>>
    BY DEF HealthApplied
  <1>2. /\ healthReads \in Seq(HealthRead) /\ i \in 1..Len(healthReads) /\ Len(healthReads) \in Nat
        /\ healthReads' \in Seq(HealthRead) /\ Len(healthReads') = Len(healthReads) - 1
        /\ \A j \in 1..(Len(healthReads) - 1) :
              healthReads'[j] = IF j < i THEN healthReads[j] ELSE healthReads[j + 1]
        /\ \A j \in DOMAIN healthReads' : healthReads'[j].list # Nobody =>
              DOMAIN healthReads'[j].list \subseteq DOMAIN endpoints
    BY <1>1, HealthWithoutOne
  <1>3. healthReads[i].list \in Lists /\ DOMAIN healthReads[i].list \subseteq DOMAIN endpoints
    <2>1. healthReads[i] \in HealthRead
      BY <1>2
    <2> QED
      BY <1>1, <2>1 DEF HealthRead, EndpointsInv, ListsArePast
  <1>4. overtaken' \in BOOLEAN
    BY <1>1 DEF EndpointsInv, EndpointsTypeOK
  <1>5. EndpointsTypeOK'
    BY <1>1, <1>2, <1>3, <1>4 DEF EndpointsInv, EndpointsTypeOK, HealthRead
  <1>6. ListsArePast'
    BY <1>1, <1>2, <1>3 DEF EndpointsInv, ListsArePast
  <1>7. ListComes'
    <2> SUFFICES ASSUME troubles' = 0, ~overtaken', ~ClickTells'
                 PROVE  \/ healthReads' # <<>> /\ healthReads'[Len(healthReads')].list \in {Nobody, endpoints'}
                        \/ healthReads' = <<>> /\ (health'.status = "ready" => health'.list = endpoints')
      BY DEF ListComes
    <2>1. ~overtaken /\ ~(i > 1)
      BY <1>1
    <2>2. i = 1
      BY <1>2, <2>1
    <2>3. healthReads[Len(healthReads)].list \in {Nobody, endpoints}
      <3>1. ~ClickTells /\ troubles = 0 /\ healthReads # <<>>
        BY <1>1, <1>2 DEF ClickTells
      <3> QED
        BY <2>1, <3>1 DEF EndpointsInv, ListComes
    <2>4. CASE Len(healthReads) = 1
      <3>1. healthReads' = <<>>
        BY <1>2, <2>4
      <3> QED
        BY <1>1, <2>2, <2>3, <2>4, <3>1
    <2>5. CASE Len(healthReads) # 1
      <3>1. /\ Len(healthReads) - 1 \in 1..(Len(healthReads) - 1) /\ ~(Len(healthReads) - 1 < i)
            /\ healthReads' # <<>> /\ Len(healthReads) - 1 + 1 = Len(healthReads)
        BY <1>2, <2>2, <2>5
      <3>2. healthReads'[Len(healthReads')] = healthReads[Len(healthReads)]
        BY <1>2, <3>1
      <3> QED
        BY <1>1, <2>3, <3>1, <3>2
    <2> QED
      BY <2>4, <2>5
  <1> QED
    BY <1>5, <1>6, <1>7 DEF EndpointsInv

\* A reading fails, and what was on the page goes with it.
LEMMA HealthFailedKeeps ==
    ASSUME EndpointsInv, NEW i \in DOMAIN healthReads, HealthFailed(i)
    PROVE  EndpointsInv'
  <1>1. /\ health'.status \in {"error", "forbidden"}
        /\ healthReads' = RemoveAt(healthReads, i)
        /\ token' = Nobody /\ confirming' = Nobody
        /\ click' = IF click = Nobody THEN Nobody ELSE [click EXCEPT !.mounted = FALSE]
        /\ UNCHANGED <<endpoints, clicks, overtaken>>
    BY DEF HealthFailed
  <1>2. /\ healthReads' \in Seq(HealthRead)
        /\ \A j \in DOMAIN healthReads' : healthReads'[j].list # Nobody =>
              DOMAIN healthReads'[j].list \subseteq DOMAIN endpoints
    BY <1>1, HealthWithoutOne
  <1>3. troubles' \in 0..MaxTroubles /\ troubles' # 0
    BY TroubleCounts DEF HealthFailed, EndpointsInv
  <1>4. /\ click' \in Clicks \cup {Nobody}
        /\ click' # Nobody => /\ click # Nobody
                              /\ click'.intent = click.intent /\ click'.answer = click.answer
                              /\ click'.endpoint = click.endpoint
    BY <1>1 DEF EndpointsInv, EndpointsTypeOK, Clicks
  <1>5. EndpointsTypeOK'
    BY <1>1, <1>2, <1>3, <1>4 DEF EndpointsInv, EndpointsTypeOK, HealthRead
  <1>6. ListsArePast'
    BY <1>1, <1>2, <1>4 DEF EndpointsInv, ListsArePast
  <1> QED
    BY <1>3, <1>5, <1>6 DEF EndpointsInv, ListComes

\* A click, and what only the page knows.
LEMMA ClickKeeps ==
    ASSUME EndpointsInv, (\E e \in 1..MaxIssued : Confirm(e)) \/ issue \/ revoke \/ TokenSaved
    PROVE  EndpointsInv'
  <1>1. UNCHANGED <<endpoints, health, healthReads, troubles, overtaken>>
    BY DEF Confirm, issue, revoke, Click, TokenSaved
  <1>2. CASE (\E e \in 1..MaxIssued : Confirm(e)) \/ TokenSaved
    <2>1. UNCHANGED <<click, clicks>>
      BY <1>2 DEF Confirm, TokenSaved
    <2>2. confirming' \in DOMAIN endpoints \cup {Nobody} /\ token' \in DOMAIN endpoints \cup {Nobody}
      BY <1>2 DEF Confirm, TokenSaved, Idle, EndpointsInv, EndpointsTypeOK, ListsArePast
    <2>3. EndpointsTypeOK'
      BY <1>1, <2>1, <2>2 DEF EndpointsInv, EndpointsTypeOK
    <2> QED
      BY <1>1, <2>1, <2>3 DEF EndpointsInv, ListsArePast, ListComes, ClickTells
  <1>3. CASE issue \/ revoke
    <2>1. click = Nobody /\ UNCHANGED <<token, confirming>>
      BY <1>3 DEF issue, revoke, Idle, Click
    <2>2. /\ click' \in Clicks /\ click'.answer = "none"
          /\ click'.intent = "revoke" => click'.endpoint \in DOMAIN endpoints
          /\ click'.intent = "issue" => Len(endpoints) < MaxIssued
      <3>1. CASE issue
        BY <3>1 DEF issue, Click, Clicks
      <3>2. CASE revoke
        <4>1. confirming \in DOMAIN endpoints /\ DOMAIN endpoints \subseteq Nat
          BY <3>2 DEF revoke, Idle, EndpointsInv, EndpointsTypeOK, ListsArePast, Lists
        <4> QED
          BY <3>2, <4>1 DEF revoke, Click, Clicks
      <3> QED
        BY <1>3, <3>1, <3>2
    <2>3. clicks' \in 0..MaxClicks
      BY <1>3, EndpointsAssumption DEF issue, revoke, Click, EndpointsInv, EndpointsTypeOK
    <2>4. EndpointsTypeOK'
      BY <1>1, <2>1, <2>2, <2>3 DEF EndpointsInv, EndpointsTypeOK
    <2>5. ListsArePast'
      BY <1>1, <2>2 DEF EndpointsInv, ListsArePast
    <2> QED
      BY <1>1, <2>1, <2>2, <2>4, <2>5 DEF EndpointsInv, ListComes, ClickTells
  <1> QED
    BY <1>2, <1>3

\* The server adds a credential, or refuses the label.
LEMMA IssueKeeps == ASSUME EndpointsInv, issueWebhookEndpoint PROVE EndpointsInv'
  <1>1. /\ click # Nobody /\ click \in Clicks /\ click.intent = "issue" /\ click.answer = "none"
        /\ UNCHANGED <<health, healthReads, token, confirming, clicks, overtaken>>
        /\ endpoints \in Lists /\ Len(endpoints) < MaxIssued /\ Len(endpoints) \in Nat
    BY DEF issueWebhookEndpoint, EndpointsInv, EndpointsTypeOK, ListsArePast, Lists
  <1>2. CASE /\ endpoints' = Append(endpoints, TRUE)
             /\ click' = [click EXCEPT !.answer = "issued", !.endpoint = Len(endpoints) + 1]
             /\ UNCHANGED troubles
    <2>1. /\ endpoints' \in Lists /\ Len(endpoints') = Len(endpoints) + 1
          /\ DOMAIN endpoints \subseteq DOMAIN endpoints' /\ Len(endpoints) + 1 \in DOMAIN endpoints'
      BY <1>1, <1>2 DEF Lists
    <2>2. Len(endpoints') <= MaxIssued
      BY <1>1, <2>1, EndpointsAssumption
    <2>3. /\ click' \in Clicks /\ click'.answer = "issued" /\ click'.intent = "issue"
          /\ click'.endpoint = Len(endpoints) + 1
      <3>1. Len(endpoints) + 1 \in Nat /\ click \in Clicks /\ click.intent = "issue"
        BY <1>1
      <3> QED
        BY <1>2, <3>1 DEF Clicks
    <2>4. EndpointsTypeOK'
      BY <1>1, <1>2, <2>1, <2>2, <2>3 DEF EndpointsInv, EndpointsTypeOK
    <2>5. ListsArePast'
      BY <1>1, <2>1, <2>3 DEF EndpointsInv, ListsArePast
    <2>6. ClickTells'
      BY <2>3, NobodyIsNull DEF ClickTells
    <2> QED
      BY <2>4, <2>5, <2>6 DEF EndpointsInv, ListComes
  <1>3. CASE /\ Trouble /\ UNCHANGED endpoints
             /\ click' = [click EXCEPT !.answer = "invalid"]
    <2>1. troubles' \in 0..MaxTroubles /\ troubles' # 0
      BY <1>3, TroubleCounts DEF EndpointsInv
    <2>2. click' \in Clicks /\ click'.answer = "invalid" /\ click'.intent = "issue"
      BY <1>1, <1>3 DEF Clicks
    <2>3. EndpointsTypeOK'
      BY <1>1, <1>3, <2>1, <2>2 DEF EndpointsInv, EndpointsTypeOK
    <2>4. ListsArePast'
      BY <1>1, <1>3, <2>2 DEF EndpointsInv, ListsArePast
    <2> QED
      BY <2>1, <2>3, <2>4 DEF EndpointsInv, ListComes
  <1> QED
    BY <1>2, <1>3 DEF issueWebhookEndpoint

\* The server turns one off, if it is on.
LEMMA RevokeKeeps == ASSUME EndpointsInv, revokeWebhookEndpoint PROVE EndpointsInv'
  <1>1. /\ click # Nobody /\ click \in Clicks /\ click.intent = "revoke" /\ click.answer = "none"
        /\ endpoints \in Lists /\ click.endpoint \in DOMAIN endpoints
        /\ endpoints' = [endpoints EXCEPT ![click.endpoint] = FALSE]
        /\ click' = [click EXCEPT !.answer = IF endpoints[click.endpoint] THEN "revoked" ELSE "not_found"]
        /\ UNCHANGED <<health, healthReads, token, confirming, clicks, troubles, overtaken>>
    BY DEF revokeWebhookEndpoint, EndpointsInv, EndpointsTypeOK, ListsArePast
  <1>2. /\ click' \in Clicks /\ click'.intent = "revoke" /\ click'.endpoint = click.endpoint
        /\ click'.answer = IF endpoints[click.endpoint] THEN "revoked" ELSE "not_found"
    BY <1>1 DEF Clicks
  <1>3. /\ endpoints' \in Lists /\ DOMAIN endpoints' = DOMAIN endpoints
        /\ Len(endpoints') = Len(endpoints)
    BY <1>1 DEF Lists
  <1>4. EndpointsTypeOK'
    BY <1>1, <1>2, <1>3 DEF EndpointsInv, EndpointsTypeOK
  <1>5. ListsArePast'
    BY <1>1, <1>2, <1>3 DEF EndpointsInv, ListsArePast
  <1>6. ListComes'
    <2>1. CASE endpoints[click.endpoint]
      <3>1. ClickTells'
        BY <1>2, <2>1, NobodyIsNull DEF ClickTells
      <3> QED
        BY <3>1 DEF ListComes
    <2>2. CASE ~endpoints[click.endpoint]
      <3>1. endpoints[click.endpoint] = FALSE
        BY <1>1, <2>2 DEF Lists
      <3>2. endpoints' = endpoints
        BY <1>1, <3>1 DEF Lists
      <3>3. ~ClickTells
        BY <1>1 DEF ClickTells
      <3> QED
        BY <1>1, <3>2, <3>3 DEF EndpointsInv, ListComes
    <2> QED
      BY <2>1, <2>2
  <1> QED
    BY <1>4, <1>5, <1>6 DEF EndpointsInv

\* Another admin turns one off.
LEMMA RevokedElsewhereKeeps ==
    ASSUME EndpointsInv, NEW e \in 1..MaxIssued, RevokedElsewhere(e)
    PROVE  EndpointsInv'
  <1>1. /\ endpoints \in Lists /\ endpoints' = [endpoints EXCEPT ![e] = FALSE]
        /\ e \in DOMAIN endpoints
        /\ UNCHANGED <<health, healthReads, token, confirming, click, clicks, overtaken>>
    BY DEF RevokedElsewhere, EndpointsInv, EndpointsTypeOK
  <1>2. endpoints' \in Lists /\ DOMAIN endpoints' = DOMAIN endpoints /\ Len(endpoints') = Len(endpoints)
    BY <1>1 DEF Lists
  <1>3. troubles' \in 0..MaxTroubles /\ troubles' # 0
    BY TroubleCounts DEF RevokedElsewhere, EndpointsInv
  <1>4. EndpointsTypeOK'
    BY <1>1, <1>2, <1>3 DEF EndpointsInv, EndpointsTypeOK
  <1>5. ListsArePast'
    BY <1>1, <1>2 DEF EndpointsInv, ListsArePast
  <1> QED
    BY <1>3, <1>4, <1>5 DEF EndpointsInv, ListComes

\* A click is answered, or its answer is lost.
LEMMA AnsweredKeeps == ASSUME EndpointsInv, ClickAnswered \/ ClickLost PROVE EndpointsInv'
  <1>1. CASE ClickAnswered
    <2>1. /\ click # Nobody /\ click \in Clicks /\ click' = Nobody
          /\ UNCHANGED <<endpoints, health, clicks, troubles, overtaken>>
      BY <1>1 DEF ClickAnswered, EndpointsInv, EndpointsTypeOK
    <2>2. token' \in DOMAIN endpoints \cup {Nobody} /\ confirming' \in DOMAIN endpoints \cup {Nobody}
      <3>1. /\ token' = IF click.mounted /\ click.answer = "issued" THEN click.endpoint ELSE token
            /\ confirming' = IF click.mounted /\ click.intent = "revoke" THEN Nobody ELSE confirming
        BY <1>1 DEF ClickAnswered
      <3>2. click.answer = "issued" => click.endpoint \in DOMAIN endpoints
        BY <2>1 DEF EndpointsInv, ListsArePast
      <3>3. token \in DOMAIN endpoints \cup {Nobody} /\ confirming \in DOMAIN endpoints \cup {Nobody}
        BY DEF EndpointsInv, EndpointsTypeOK
      <3> QED
        BY <3>1, <3>2, <3>3
    <2>3. CASE click.answer = "invalid"
      <3>1. UNCHANGED healthReads
        BY <1>1, <2>3 DEF ClickAnswered
      <3> QED
        BY <2>1, <2>2, <2>3, <3>1 DEF EndpointsInv, EndpointsTypeOK, ListsArePast, ListComes, ClickTells
    <2>4. CASE click.answer # "invalid"
      <3>1. AskAgain
        BY <1>1, <2>4 DEF ClickAnswered
      <3> QED
        BY <2>1, <2>2, <3>1, AskedForHealth
        DEF EndpointsInv, EndpointsTypeOK, HealthRead, ListsArePast, ListComes
    <2> QED
      BY <2>3, <2>4
  <1>2. CASE ClickLost
    <2>1. click' = Nobody
          /\ UNCHANGED <<endpoints, health, healthReads, token, confirming, clicks, overtaken>>
      BY <1>2 DEF ClickLost
    <2>2. troubles' \in 0..MaxTroubles /\ troubles' # 0
      BY <1>2, TroubleCounts DEF ClickLost, EndpointsInv
    <2> QED
      BY <2>1, <2>2 DEF EndpointsInv, EndpointsTypeOK, ListsArePast, ListComes
  <1> QED
    BY <1>1, <1>2

\* Every step of the page keeps the invariant.
LEMMA EndpointsInvStep == EndpointsInv /\ [EndpointsNext]_endpointsVars => EndpointsInv'
  <1> SUFFICES ASSUME EndpointsInv, [EndpointsNext]_endpointsVars PROVE EndpointsInv'
    OBVIOUS
  <1>1. CASE UNCHANGED endpointsVars
    BY <1>1 DEF endpointsVars, EndpointsInv, EndpointsTypeOK, ListsArePast, ListComes, ClickTells
  <1> QED
    BY <1>1, HealthServedKeeps, HealthAppliedKeeps, HealthFailedKeeps, ClickKeeps, IssueKeeps,
       RevokeKeeps, RevokedElsewhereKeeps, AnsweredKeeps DEF EndpointsNext

\* Undisturbed, the list at rest is the server's, after every credential issued
\* or revoked, and everything on the page has its type
\* (ui/integration-health.tsx:77-82).
THEOREM TheListIsTheServers == EndpointsSpec => [](EndpointsTypeOK /\ ListFollowsTheClick)
  <1>1. EndpointsInv => EndpointsTypeOK /\ ListFollowsTheClick
    BY DEF EndpointsInv, ListComes, ListFollowsTheClick, AtRest, ClickTells, Snapshot
  <1> QED
    BY <1>1, EndpointsInvInit, EndpointsInvStep, PTL DEF EndpointsSpec

----------------------------------------------------------------------------
\* The history of a contact.

\* rows are lines of c below top, newest first, and have all of among's down to
\* next, which is the last of them.
ListIs(rows, c, top, next, among) ==
    /\ \A i \in DOMAIN rows : /\ rows[i][1] = c
                              /\ top # Nil => rows[i][2] < top
                              /\ next # Nil => rows[i][2] >= next
    /\ \A i, j \in DOMAIN rows : i < j => rows[i][2] > rows[j][2]
    /\ \A e \in among :
          (e[1] = c /\ (top # Nil => e[2] < top) /\ (next # Nil => e[2] >= next)) =>
              \E i \in DOMAIN rows : rows[i] = e
    /\ (top # Nil /\ next # Nil) => next < top

\* A contact's lines in the order of the history: all of them, newest first.
LEMMA NewestIs ==
    ASSUME NEW c \in Contact, NEW S, IsFiniteSet(S), S \subseteq Lines, \A e \in S : e[1] = c
    PROVE  /\ Newest(S) \in [1..Cardinality(S) -> S]
           /\ \A i, j \in 1..Cardinality(S) : i < j => Newest(S)[i][2] > Newest(S)[j][2]
           /\ \A e \in S : \E i \in 1..Cardinality(S) : Newest(S)[i] = e
  <1> DEFINE R == {p \in S \X S : p[1][2] > p[2][2]}
  <1>1. \A a, b \in S : <<a, b>> \in R <=> a[2] > b[2]
    OBVIOUS
  <1>2. \A a \in S : a \in Lines /\ a[2] \in Nat /\ a = <<c, a[2]>>
    BY DEF Lines
  <1> HIDE DEF R
  <1>3. Orders(R, S)
    BY <1>1, <1>2 DEF Orders
  <1>4. PICK rows \in [1..Cardinality(S) -> S] : SortedBy(rows, R)
    BY <1>3, CanBeSorted
  <1>5. \A i, j \in DOMAIN rows : i < j => rows[i][2] > rows[j][2]
    BY <1>1, <1>4 DEF SortedBy
  <1>6. /\ Newest(S) \in [1..Cardinality(S) -> S]
        /\ \A i, j \in DOMAIN Newest(S) : i < j => Newest(S)[i][2] > Newest(S)[j][2]
    BY <1>5 DEF Newest
  <1>7. SortedBy(Newest(S), R)
    BY <1>1, <1>6 DEF SortedBy
  <1>8. HasAll(Newest(S), S)
    BY <1>3, <1>6, <1>7, SortedHasAll
  <1> QED
    BY <1>6, <1>8 DEF HasAll

\* The beginning of a list in order, up to a row of it: nothing above that row
\* is left out.
LEMMA BeginningOf ==
    ASSUME NEW c \in Contact, NEW n \in Nat, NEW rows \in [1..n -> Lines], Page < n,
           \A i \in 1..n : rows[i][1] = c,
           \A i, j \in 1..n : i < j => rows[i][2] > rows[j][2]
    PROVE  /\ SubSeq(rows, 1, Page) \in Seq(Lines) /\ Len(SubSeq(rows, 1, Page)) = Page
           /\ \A i \in 1..Page : SubSeq(rows, 1, Page)[i] = rows[i]
           /\ \A i \in 1..n : rows[i][2] >= rows[Page][2] => i <= Page
           /\ \A i \in 1..Page : rows[i][2] >= rows[Page][2]
  <1>1. Page \in Nat /\ Page > 0
    BY RecordAssumption
  <1>2. \A i \in 1..n : rows[i] \in Lines /\ rows[i][2] \in Nat
    BY DEF Lines
  <1>3. rows \in Seq(Lines) /\ Len(rows) = n
    BY LenProperties
  <1>4. /\ SubSeq(rows, 1, Page) \in Seq(Lines) /\ Len(SubSeq(rows, 1, Page)) = Page
        /\ \A i \in 1..Page : SubSeq(rows, 1, Page)[i] = rows[i]
    <2>1. \A k \in 1..Page : rows[k] \in Lines
      BY <1>1, <1>2
    <2> QED
      BY <1>1, <1>3, <2>1, SubSeqProperties
  <1>5. \A i \in 1..n : rows[i][2] >= rows[Page][2] => i <= Page
    <2> SUFFICES ASSUME NEW i \in 1..n, i > Page PROVE ~(rows[i][2] >= rows[Page][2])
      BY <1>1
    <2>1. rows[Page][2] > rows[i][2] /\ Page \in 1..n
      BY <1>1
    <2> QED
      BY <1>2, <2>1
  <1>6. \A i \in 1..Page : rows[i][2] >= rows[Page][2]
    <2> SUFFICES ASSUME NEW i \in 1..Page PROVE rows[i][2] >= rows[Page][2]
      OBVIOUS
    <2>1. i \in 1..n /\ Page \in 1..n /\ (i = Page \/ i < Page)
      BY <1>1
    <2>2. i = Page \/ rows[i][2] > rows[Page][2]
      BY <2>1
    <2> QED
      BY <1>2, <2>1, <2>2
  <1> QED
    BY <1>4, <1>5, <1>6

\* What the server reads is a page of the contact's lines and skips none.
LEMMA APageIsRead ==
    ASSUME history \subseteq Lines, IsFiniteSet(history), NEW c \in Contact,
           NEW cursor \in Cursors
    PROVE  /\ ReadTimeline(c, cursor) \in Pages
           /\ ListIs(ReadTimeline(c, cursor).entries, c, cursor,
                     ReadTimeline(c, cursor).nextCursor, history)
  <1> DEFINE Older == {e \in history : e[1] = c /\ (cursor # Nil => e[2] < cursor)}
             rows  == Newest(Older)
             more  == Len(rows) > Page
             onPage == IF more THEN SubSeq(rows, 1, Page) ELSE rows
             next  == IF more THEN onPage[Page][2] ELSE Nil
             n     == Cardinality(Older)
  <1>1. ReadTimeline(c, cursor) = [entries |-> onPage, nextCursor |-> next]
    BY DEF ReadTimeline
  <1>2. Older \subseteq Lines /\ IsFiniteSet(Older) /\ n \in Nat
    <2>1. Older \in SUBSET history
      OBVIOUS
    <2> QED
      BY <2>1, FS_Subset, FS_CardinalityType
  <1>3. \A e \in Older : e[1] = c
    OBVIOUS
  <1>4. /\ rows \in [1..n -> Older]
        /\ \A i, j \in 1..n : i < j => rows[i][2] > rows[j][2]
        /\ \A e \in Older : \E i \in 1..n : rows[i] = e
    <2> HIDE DEF Older
    <2> QED
      BY <1>2, <1>3, NewestIs
  <1>5. Page \in Nat /\ Page > 0
    BY RecordAssumption
  <1>6. \A i \in 1..n : /\ rows[i] \in Lines /\ rows[i][1] = c /\ rows[i][2] \in Nat
                        /\ cursor # Nil => rows[i][2] < cursor
    <2>1. \A e \in Older : /\ e \in Lines /\ e[1] = c /\ e[2] \in Nat
                           /\ cursor # Nil => e[2] < cursor
      BY DEF Lines
    <2> HIDE DEF Older, rows
    <2> QED
      BY <1>4, <2>1
  <1>7. \A e \in history : (e[1] = c /\ (cursor # Nil => e[2] < cursor)) =>
            \E i \in 1..n : rows[i] = e
    <2> HIDE DEF rows, n
    <2> QED
      BY <1>4
  <1> HIDE DEF Older, rows, n
  <1>8. rows \in [1..n -> Lines] /\ rows \in Seq(Lines) /\ Len(rows) = n /\ DOMAIN rows = 1..n
    <2>1. rows \in [1..n -> Lines]
      BY <1>4, <1>6
    <2> QED
      BY <1>2, <2>1, LenProperties
  <1>9. CASE n > Page
    <2>1. more /\ onPage = SubSeq(rows, 1, Page) /\ next = onPage[Page][2]
      BY <1>8, <1>9
    <2>2. /\ onPage \in Seq(Lines) /\ Len(onPage) = Page
          /\ \A i \in 1..Page : onPage[i] = rows[i]
          /\ \A i \in 1..n : rows[i][2] >= rows[Page][2] => i <= Page
          /\ \A i \in 1..Page : rows[i][2] >= rows[Page][2]
      BY <1>2, <1>4, <1>5, <1>6, <1>8, <1>9, <2>1, BeginningOf
    <2> HIDE DEF onPage, next
    <2>3. Page \in 1..n /\ Page \in 1..Page /\ 1..Page \subseteq 1..n
      BY <1>2, <1>5, <1>9
    <2>4. next = rows[Page][2] /\ next \in Nat /\ DOMAIN onPage = 1..Page
      BY <1>6, <2>1, <2>2, <2>3, LenProperties
    <2>5. [entries |-> onPage, nextCursor |-> next] \in Pages
      BY <2>2, <2>4 DEF Pages, Cursors
    <2>6. ListIs(onPage, c, cursor, next, history)
      <3>1. \A i \in 1..Page : /\ onPage[i][1] = c
                               /\ cursor # Nil => onPage[i][2] < cursor
                               /\ next # Nil => onPage[i][2] >= next
        BY <1>6, <2>2, <2>3, <2>4
      <3>2. \A i, j \in 1..Page : i < j => onPage[i][2] > onPage[j][2]
        BY <1>4, <2>2, <2>3
      <3>3. ASSUME NEW e \in history, e[1] = c, cursor # Nil => e[2] < cursor, e[2] >= next
            PROVE  \E i \in 1..Page : onPage[i] = e
        <4>1. PICK i \in 1..n : rows[i] = e
          BY <1>7, <3>3
        <4>2. i <= Page
          BY <2>2, <2>4, <3>3, <4>1
        <4>3. i \in 1..Page
          BY <1>2, <1>5, <4>2
        <4> QED
          BY <2>2, <4>1, <4>3
      <3>4. cursor # Nil => next < cursor
        BY <1>6, <2>3, <2>4
      <3>5. next # Nil
        BY <2>4, NilIsNull
      <3> QED
        BY <2>4, <3>1, <3>2, <3>3, <3>4, <3>5 DEF ListIs
    <2> QED
      BY <1>1, <2>5, <2>6
  <1>10. CASE ~(n > Page)
    <2>1. onPage = rows /\ next = Nil
      BY <1>8, <1>10
    <2>2. [entries |-> rows, nextCursor |-> Nil] \in Pages
      BY <1>8 DEF Pages, Cursors
    <2>3. ListIs(rows, c, cursor, Nil, history)
      BY <1>4, <1>6, <1>7, <1>8 DEF ListIs
    <2> HIDE DEF onPage, next
    <2> QED
      BY <1>1, <2>1, <2>2, <2>3
  <1> QED
    BY <1>9, <1>10

----------------------------------------------------------------------------
\* What the mounted history t has and waits for: its list is whole down to the
\* cursor it would ask for more with, and so is the older under way below it.
TimelineIs(t) ==
    /\ \E k \in Nat : t.key = TimelineKey(t.contact, k)
    /\ t.since \subseteq history
    /\ t.status = "ready" => ListIs(t.entries, t.contact, Nil, t.nextCursor, t.since)
    /\ t.fetch # Nil =>
          /\ t.fetch.cursor = Nil => t.status # "ready"
          /\ t.fetch.cursor # Nil => t.status = "ready" /\ t.fetch.cursor = t.nextCursor
          /\ t.fetch.page # Nil =>
                ListIs(t.fetch.page.entries, t.contact, t.fetch.cursor,
                       t.fetch.page.nextCursor, t.since)

HistoryKept == timeline # Nil => timeline.contact = record.contact /\ TimelineIs(timeline)

\* The history is remounted for notes that were answered.
SeenNotes(sent) == {i \in DOMAIN sent : sent[i].kind = "note" /\ sent[i].answer = "seen"}
NotesCounted == noteKey + graces <= Cardinality(SeenNotes(submitted))

\* Whom the record is read for next, or what it shows, has every deal that was
\* written, unless the answer to one is still to come.
DealsAreRead ==
    faults = 0 =>
       \/ \E i \in DOMAIN submitted : submitted[i].kind = "deal" /\ submitted[i].answer = "created"
       \/ reading # Nil /\ reading.answer = Nil
       \/ reading # Nil /\ reading.answer = ReadContact(here)
       \/ /\ reading = Nil
          /\ record.status = "ready" => record.contact = here /\ record.deals = deals[here]

RecordKept == RecordTypeOK /\ HistoryKept /\ NotesCounted /\ DealsAreRead

\* A list that has all of a set has all of its part.
LEMMA ListOfFewer ==
    ASSUME NEW rows, NEW c, NEW top, NEW next, NEW among, NEW fewer, fewer \subseteq among,
           ListIs(rows, c, top, next, among)
    PROVE  ListIs(rows, c, top, next, fewer)
  BY DEF ListIs

\* A older put below a list makes one list.
LEMMA ListJoins ==
    ASSUME NEW rows \in Seq(Lines), NEW older \in Seq(Lines), NEW c, NEW mid \in Nat,
           NEW next \in Cursors, NEW among, among \subseteq Lines,
           ListIs(rows, c, Nil, mid, among), ListIs(older, c, mid, next, among)
    PROVE  ListIs(rows \o older, c, Nil, next, among)
  <1> DEFINE both == rows \o older
             m == Len(rows)
             n == Len(older)
  <1>1. mid # Nil
    BY NilIsNull
  <1>2. /\ m \in Nat /\ n \in Nat /\ DOMAIN rows = 1..m /\ DOMAIN older = 1..n
        /\ DOMAIN both = 1..(m + n)
    BY LenProperties, ConcatProperties
  <1>3. /\ \A i \in 1..m : both[i] = rows[i]
        /\ \A i \in 1..n : both[m + i] = older[i]
        /\ \A i \in 1..(m + n) : i \in 1..m \/ (i - m \in 1..n /\ both[i] = older[i - m])
    BY <1>2, ConcatProperties
  <1>4. /\ \A i \in 1..m : rows[i][2] \in Nat
        /\ \A i \in 1..n : older[i][2] \in Nat
    BY <1>2, ElementOfSeq DEF Lines
  <1>5. /\ \A i \in 1..m : rows[i][1] = c /\ rows[i][2] >= mid
        /\ \A i, j \in 1..m : i < j => rows[i][2] > rows[j][2]
        /\ \A e \in among : (e[1] = c /\ e[2] >= mid) => \E i \in 1..m : rows[i] = e
    BY <1>1, <1>2 DEF ListIs
  <1>6. /\ \A i \in 1..n : /\ older[i][1] = c /\ older[i][2] < mid
                           /\ next # Nil => older[i][2] >= next
        /\ \A i, j \in 1..n : i < j => older[i][2] > older[j][2]
        /\ \A e \in among : (e[1] = c /\ e[2] < mid /\ (next # Nil => e[2] >= next)) =>
              \E i \in 1..n : older[i] = e
        /\ next # Nil => next < mid
    BY <1>1, <1>2 DEF ListIs
  <1> HIDE DEF both, m, n
  <1>7. \A i \in 1..(m + n) : both[i][1] = c /\ (next # Nil => both[i][2] >= next)
    <2> SUFFICES ASSUME NEW i \in 1..(m + n)
                 PROVE  both[i][1] = c /\ (next # Nil => both[i][2] >= next)
      OBVIOUS
    <2>1. CASE i \in 1..m
      <3>1. both[i] = rows[i] /\ rows[i][2] \in Nat /\ rows[i][1] = c /\ rows[i][2] >= mid
        BY <1>3, <1>4, <1>5, <2>1
      <3>2. next # Nil => next \in Nat /\ next < mid
        BY <1>6 DEF Cursors
      <3> QED
        BY <3>1, <3>2
    <2>2. CASE i \notin 1..m
      BY <1>3, <1>6, <2>2
    <2> QED
      BY <2>1, <2>2
  <1>8. \A i, j \in 1..(m + n) : i < j => both[i][2] > both[j][2]
    <2> SUFFICES ASSUME NEW i \in 1..(m + n), NEW j \in 1..(m + n), i < j
                 PROVE  both[i][2] > both[j][2]
      OBVIOUS
    <2>1. CASE j \in 1..m
      <3>1. i \in 1..m
        BY <1>2, <2>1
      <3> QED
        BY <1>3, <1>5, <2>1, <3>1
    <2>2. CASE i \in 1..m /\ j \notin 1..m
      <3>1. both[i] = rows[i] /\ rows[i][2] >= mid /\ rows[i][2] \in Nat
        BY <1>3, <1>4, <1>5, <2>2
      <3>2. both[j] = older[j - m] /\ older[j - m][2] < mid /\ older[j - m][2] \in Nat
        BY <1>3, <1>4, <1>6, <2>2
      <3> QED
        BY <3>1, <3>2
    <2>3. CASE i \notin 1..m /\ j \notin 1..m
      <3>1. both[i] = older[i - m] /\ both[j] = older[j - m] /\ i - m \in 1..n /\ j - m \in 1..n
        BY <1>3, <2>3
      <3>2. i - m < j - m
        BY <1>2
      <3> QED
        BY <1>6, <3>1, <3>2
    <2> QED
      BY <2>1, <2>2, <2>3
  <1>9. ASSUME NEW e \in among, e[1] = c, next # Nil => e[2] >= next
        PROVE  \E i \in 1..(m + n) : both[i] = e
    <2>1. e[2] \in Nat
      BY DEF Lines
    <2>2. CASE e[2] >= mid
      <3>1. PICK i \in 1..m : rows[i] = e
        BY <1>5, <1>9, <2>2
      <3>2. i \in 1..(m + n)
        BY <1>2
      <3> QED
        BY <1>3, <3>1, <3>2
    <2>3. CASE e[2] < mid
      <3>1. PICK i \in 1..n : older[i] = e
        BY <1>6, <1>9, <2>3
      <3>2. m + i \in 1..(m + n)
        BY <1>2
      <3> QED
        BY <1>3, <3>1, <3>2
    <2> QED
      BY <2>1, <2>2, <2>3
  <1> QED
    <2>1. ListIs(both, c, Nil, next, among)
      BY <1>2, <1>7, <1>8, <1>9 DEF ListIs
    <2> QED
      BY <2>1 DEF both

\* Drawing r keeps the instance of its contact, or mounts a new one.
LEMMA DrawnTimeline ==
    ASSUME RecordKept, NEW r \in {[status |-> "loading"]} \cup Found \cup Missing, NEW k \in Nat
    PROVE  /\ r.status # "ready" => TimelineOf(r, k) = Nil
           /\ r.status = "ready" => /\ TimelineOf(r, k) \in Timelines
                                    /\ TimelineOf(r, k) # Nil
                                    /\ TimelineOf(r, k).contact = r.contact
                                    /\ TimelineIs(TimelineOf(r, k))
  <1>1. r.status # "ready" => TimelineOf(r, k) = Nil
    BY DEF TimelineOf
  <1>2. ASSUME r.status = "ready"
        PROVE  /\ TimelineOf(r, k) \in Timelines /\ TimelineOf(r, k).contact = r.contact
               /\ TimelineIs(TimelineOf(r, k))
    <2>1. r.contact \in Contact
      BY <1>2 DEF Found, Missing
    <2>2. CASE timeline = Nil \/ timeline.key # TimelineKey(r.contact, k)
      <3> DEFINE t == Mounted(r.contact, k)
      <3>1. TimelineOf(r, k) = t
        BY <1>2, <2>2 DEF TimelineOf
      <3>2. /\ t.key = TimelineKey(r.contact, k) /\ t.contact = r.contact /\ t.status = "loading"
            /\ t.more = "idle" /\ t.entries = <<>> /\ t.nextCursor = Nil /\ t.since = {}
            /\ t.fetch = [cursor |-> Nil, page |-> Nil]
        BY DEF Mounted
      <3>3. t \in Timelines
        <4>1. TimelineKey(r.contact, k) \in Seq(Contact \cup Nat)
          BY <2>1 DEF TimelineKey
        <4>2. <<>> \in Seq(Lines) /\ {} \in SUBSET Lines /\ Nil \in Cursors
          BY DEF Cursors
        <4>3. [cursor |-> Nil, page |-> Nil] \in Fetches
          BY <4>2 DEF Fetches
        <4> QED
          BY <2>1, <4>1, <4>2, <4>3 DEF Mounted, Timelines
      <3> HIDE DEF t
      <3>4. TimelineIs(t)
        BY <3>2 DEF TimelineIs
      <3> QED
        BY <3>1, <3>2, <3>3, <3>4
    <2>3. CASE timeline # Nil /\ timeline.key = TimelineKey(r.contact, k)
      <3>1. timeline \in Timelines /\ TimelineIs(timeline)
        BY <2>3 DEF RecordKept, RecordTypeOK, HistoryKept
      <3>2. timeline.contact = r.contact
        BY <2>3, <3>1 DEF TimelineIs, TimelineKey
      <3>3. TimelineOf(r, k) = timeline
        BY <1>2, <2>3, <3>2 DEF TimelineOf
      <3> QED
        BY <3>1, <3>2, <3>3
    <2> QED
      BY <2>2, <2>3
  <1> QED
    BY <1>1, <1>2, NilIsNull

----------------------------------------------------------------------------
\* What is in the database when a page opens, and what can come, is finite.
LEMMA HistoryIsFinite ==
    ASSUME RecordTypeOK
    PROVE  history \subseteq Lines /\ IsFiniteSet(history)
  <1>1. IsFiniteSet(Past \cup Late)
    BY RecordAssumption, FS_Union
  <1>2. history \in SUBSET (Past \cup Late)
    BY DEF RecordTypeOK
  <1> QED
    BY <1>1, <1>2, FS_Subset, RecordAssumption DEF Lines

\* A page opens with nothing shown and the record on its way.
LEMMA RecordKeptInit == RecordInit => RecordKept
  <1> SUFFICES ASSUME RecordInit PROVE RecordKept
    OBVIOUS
  <1>1. /\ here \in Contact /\ record = [status |-> "loading"] /\ timeline = Nil
        /\ reading = [contact |-> here, answer |-> Nil]
        /\ noteKey = 0 /\ graces = 0 /\ composer = [body |-> Nil, state |-> "idle"]
        /\ starting = "idle" /\ submitted = <<>> /\ history = Past /\ faults = 0
        /\ deals \in [Contact -> Nat]
    BY RecordAssumption DEF RecordInit, NoComposer
  <1>2. reading \in Readings /\ reading # Nil /\ reading.contact = here /\ reading.answer = Nil
    BY <1>1, NilIsNull DEF Readings
  <1>3. /\ submitted \in Seq(Submitted) /\ Len(submitted) = 0 /\ DOMAIN submitted = {}
        /\ 0 \in 0..MaxPosts /\ 0 \in 0..MaxFaults /\ 0 <= MaxPosts
    BY <1>1, RecordAssumption
  <1>4. composer \in [body : Contact \cup {Nil},
                      state : {"idle", "saving", "saved", "error", "not_found"}]
    BY <1>1
  <1>5. RecordTypeOK
    BY <1>1, <1>2, <1>3, <1>4 DEF RecordTypeOK
  <1>6. HistoryKept /\ DealsAreRead
    BY <1>1, <1>2 DEF HistoryKept, DealsAreRead
  <1>7. NotesCounted
    <2>1. SeenNotes(submitted) = {}
      BY <1>3 DEF SeenNotes
    <2> QED
      BY <1>1, <2>1, FS_EmptySet DEF NotesCounted
  <1> QED
    BY <1>5, <1>6, <1>7 DEF RecordKept

\* A step of the mounted history alone.
LEMMA TimelineMoves ==
    ASSUME RecordKept, timeline # Nil, timeline' \in Timelines,
           timeline'.contact = timeline.contact, TimelineIs(timeline'),
           faults' \in 0..MaxFaults, faults' >= faults,
           UNCHANGED <<here, record, reading, noteKey, composer, starting>>,
           UNCHANGED <<submitted, graces, history, deals>>
    PROVE  RecordKept'
  <1>1. timeline' # Nil
    BY NilIsNull
  <1>2. RecordTypeOK'
    BY <1>1 DEF RecordKept, RecordTypeOK
  <1>3. HistoryKept'
    BY DEF RecordKept, HistoryKept, TimelineIs, ListIs
  <1>4. NotesCounted'
    BY DEF RecordKept, NotesCounted, SeenNotes
  <1>5. DealsAreRead'
    <2>1. faults \in Nat
      BY DEF RecordKept, RecordTypeOK
    <2>2. faults' = 0 => faults = 0
      BY <2>1
    <2> QED
      BY <2>2 DEF RecordKept, DealsAreRead, ReadContact
  <1> QED
    BY <1>2, <1>3, <1>4, <1>5 DEF RecordKept

\* A request that fails is counted.
LEMMA FaultCounts ==
    ASSUME RecordTypeOK, Fail
    PROVE  faults' \in 0..MaxFaults /\ faults' >= faults /\ faults' # 0
  BY RecordAssumption DEF RecordTypeOK, Fail

\* What a mounted history is, in parts.
LEMMA TheTimeline ==
    ASSUME RecordKept, timeline # Nil
    PROVE  /\ timeline \in Timelines /\ TimelineIs(timeline) /\ timeline.contact = record.contact
           /\ timeline.fetch # Nil => /\ timeline.fetch \in Fetches
                                      /\ timeline.fetch.page \in Pages \cup {Nil}
                                      /\ timeline.fetch.cursor \in Cursors
  BY DEF RecordKept, RecordTypeOK, HistoryKept, Timelines, Fetches

\* A page is read.
LEMMA PageReadKeeps == ASSUME RecordKept, PageRead PROVE RecordKept'
  <1>1. /\ timeline # Nil /\ timeline.fetch # Nil /\ timeline.fetch.page = Nil
        /\ UNCHANGED <<here, record, reading, noteKey, composer, starting>>
        /\ UNCHANGED <<submitted, graces, history, deals, faults>>
    BY DEF PageRead
  <1>2. /\ timeline \in Timelines /\ TimelineIs(timeline) /\ timeline.fetch \in Fetches
        /\ timeline.fetch.cursor \in Cursors /\ timeline.contact \in Contact
    BY <1>1, TheTimeline DEF Timelines
  <1> DEFINE p == ReadTimeline(timeline.contact, timeline.fetch.cursor)
             s == IF timeline.fetch.cursor = Nil THEN history ELSE timeline.since
  <1>3. history \subseteq Lines /\ IsFiniteSet(history)
    BY HistoryIsFinite DEF RecordKept
  <1>4. /\ p \in Pages
        /\ ListIs(p.entries, timeline.contact, timeline.fetch.cursor, p.nextCursor, history)
    BY <1>2, <1>3, APageIsRead
  <1>5. timeline' = [timeline EXCEPT !.fetch.page = p, !.since = s]
    BY DEF PageRead
  <1>6. s \subseteq history /\ s \in SUBSET Lines
    BY <1>2, <1>3 DEF TimelineIs
  <1>7. ListIs(p.entries, timeline.contact, timeline.fetch.cursor, p.nextCursor, s)
    BY <1>4, <1>6, ListOfFewer
  <1>8. s = timeline.since \/ timeline.status # "ready"
    BY <1>1, <1>2 DEF TimelineIs
  <1> HIDE DEF p, s
  <1>9. PICK f \in Fetches : f = [timeline.fetch EXCEPT !.page = p]
    BY <1>2, <1>4 DEF Fetches
  <1>10. f.page = p /\ f.cursor = timeline.fetch.cursor /\ f # Nil
    BY <1>2, <1>9, NilIsNull DEF Fetches
  <1>11. timeline' = [timeline EXCEPT !.fetch = f, !.since = s]
    BY <1>2, <1>5, <1>9 DEF Timelines
  <1>12. /\ timeline' \in Timelines /\ timeline'.fetch = f /\ timeline'.since = s
         /\ timeline'.key = timeline.key /\ timeline'.contact = timeline.contact
         /\ timeline'.status = timeline.status /\ timeline'.entries = timeline.entries
         /\ timeline'.nextCursor = timeline.nextCursor
    BY <1>2, <1>6, <1>9, <1>11 DEF Timelines
  <1>13. TimelineIs(timeline')
    BY <1>1, <1>2, <1>6, <1>7, <1>8, <1>10, <1>12 DEF TimelineIs
  <1> QED
    BY <1>1, <1>12, <1>13, TimelineMoves DEF RecordKept, RecordTypeOK

\* The page is put below the list.
LEMMA PageAppliedKeeps == ASSUME RecordKept, PageApplied PROVE RecordKept'
  <1>1. /\ timeline # Nil /\ timeline.fetch # Nil /\ timeline.fetch.page # Nil
        /\ UNCHANGED <<here, record, reading, noteKey, composer, starting>>
        /\ UNCHANGED <<submitted, graces, history, deals, faults>>
    BY DEF PageApplied
  <1>2. /\ timeline \in Timelines /\ TimelineIs(timeline) /\ timeline.fetch \in Fetches
        /\ timeline.fetch.cursor \in Cursors /\ timeline.contact \in Contact
        /\ timeline.fetch.page \in Pages
    BY <1>1, TheTimeline DEF Timelines
  <1> DEFINE p == timeline.fetch.page
             rows == IF timeline.fetch.cursor = Nil THEN p.entries
                     ELSE timeline.entries \o p.entries
  <1>3. timeline' = [timeline EXCEPT !.status = "ready", !.more = "idle", !.fetch = Nil,
                                     !.entries = rows, !.nextCursor = p.nextCursor]
    BY DEF PageApplied
  <1>4. ListIs(p.entries, timeline.contact, timeline.fetch.cursor, p.nextCursor, timeline.since)
    BY <1>1, <1>2 DEF TimelineIs
  <1>5. p.entries \in Seq(Lines) /\ p.nextCursor \in Cursors /\ timeline.entries \in Seq(Lines)
        /\ timeline.since \subseteq Lines
    BY <1>2 DEF Pages, Timelines
  <1>6. rows \in Seq(Lines) /\ ListIs(rows, timeline.contact, Nil, p.nextCursor, timeline.since)
    <2>1. CASE timeline.fetch.cursor = Nil
      BY <1>4, <1>5, <2>1
    <2>2. CASE timeline.fetch.cursor # Nil
      <3>1. /\ timeline.fetch.cursor \in Nat
            /\ ListIs(timeline.entries, timeline.contact, Nil, timeline.fetch.cursor, timeline.since)
        BY <1>1, <1>2, <2>2 DEF TimelineIs, Cursors
      <3>2. ListIs(timeline.entries \o p.entries, timeline.contact, Nil, p.nextCursor, timeline.since)
        BY <1>4, <1>5, <3>1, ListJoins
      <3>3. timeline.entries \o p.entries \in Seq(Lines)
        BY <1>5, ConcatProperties
      <3> QED
        BY <2>2, <3>2, <3>3
    <2> QED
      BY <2>1, <2>2
  <1> HIDE DEF p, rows
  <1>7. /\ timeline' \in Timelines /\ timeline'.fetch = Nil /\ timeline'.since = timeline.since
        /\ timeline'.key = timeline.key /\ timeline'.contact = timeline.contact
        /\ timeline'.status = "ready" /\ timeline'.entries = rows
        /\ timeline'.nextCursor = p.nextCursor
    BY <1>2, <1>3, <1>5, <1>6 DEF Timelines
  <1>8. TimelineIs(timeline')
    BY <1>2, <1>6, <1>7 DEF TimelineIs
  <1> QED
    BY <1>1, <1>7, <1>8, TimelineMoves DEF RecordKept, RecordTypeOK

\* A page is lost, asked for, or asked for again.
LEMMA PageAskedKeeps == ASSUME RecordKept, PageFailed \/ loadMore \/ retry PROVE RecordKept'
  <1>1. /\ timeline # Nil
        /\ UNCHANGED <<here, record, reading, noteKey, composer, starting>>
        /\ UNCHANGED <<submitted, graces, history, deals>>
        /\ faults' \in 0..MaxFaults /\ faults' >= faults
    <2>1. faults \in 0..MaxFaults /\ (Fail => faults' \in 0..MaxFaults /\ faults' >= faults)
      BY FaultCounts DEF RecordKept, RecordTypeOK
    <2> QED
      BY <2>1 DEF PageFailed, loadMore, retry
  <1>2. timeline \in Timelines /\ TimelineIs(timeline)
    BY <1>1, TheTimeline
  <1>3. timeline' \in Timelines /\ timeline'.contact = timeline.contact /\ TimelineIs(timeline')
    <2>1. CASE PageFailed /\ timeline.fetch.cursor = Nil
      <3>1. timeline' = [timeline EXCEPT !.status = "error", !.fetch = Nil]
        BY <2>1 DEF PageFailed
      <3>2. /\ timeline' \in Timelines /\ timeline'.contact = timeline.contact
            /\ timeline'.key = timeline.key /\ timeline'.since = timeline.since
            /\ timeline'.fetch = Nil /\ timeline'.status = "error"
        BY <1>2, <3>1 DEF Timelines
      <3> QED
        BY <1>2, <3>2 DEF TimelineIs
    <2>2. CASE PageFailed /\ timeline.fetch.cursor # Nil
      <3>1. timeline' = [timeline EXCEPT !.more = "error", !.fetch = Nil]
        BY <2>2 DEF PageFailed
      <3>2. /\ timeline' \in Timelines /\ timeline'.contact = timeline.contact
            /\ timeline'.key = timeline.key /\ timeline'.since = timeline.since
            /\ timeline'.entries = timeline.entries /\ timeline'.status = timeline.status
            /\ timeline'.nextCursor = timeline.nextCursor /\ timeline'.fetch = Nil
        BY <1>2, <3>1 DEF Timelines
      <3> QED
        BY <1>2, <3>2 DEF TimelineIs
    <2>3. CASE loadMore
      <3>1. PICK f : f = [cursor |-> timeline.nextCursor, page |-> Nil]
        OBVIOUS
      <3>2. /\ timeline' = [timeline EXCEPT !.more = "loading", !.fetch = f]
            /\ timeline.status = "ready" /\ timeline.nextCursor # Nil
        BY <2>3, <3>1 DEF loadMore
      <3>3. f \in Fetches /\ f.cursor = timeline.nextCursor /\ f.page = Nil
        BY <1>2, <3>1 DEF Fetches, Timelines
      <3>4. /\ timeline' \in Timelines /\ timeline'.contact = timeline.contact
            /\ timeline'.key = timeline.key /\ timeline'.since = timeline.since
            /\ timeline'.entries = timeline.entries /\ timeline'.status = timeline.status
            /\ timeline'.nextCursor = timeline.nextCursor /\ timeline'.fetch = f
        BY <1>2, <3>2, <3>3 DEF Timelines
      <3> QED
        BY <1>2, <3>2, <3>3, <3>4 DEF TimelineIs
    <2>4. CASE retry
      <3>1. PICK f : f = [cursor |-> Nil, page |-> Nil]
        OBVIOUS
      <3>2. timeline' = [timeline EXCEPT !.status = "loading", !.more = "idle", !.fetch = f]
        BY <2>4, <3>1 DEF retry
      <3>3. f \in Fetches /\ f.cursor = Nil /\ f.page = Nil
        BY <3>1 DEF Fetches, Cursors
      <3>4. /\ timeline' \in Timelines /\ timeline'.contact = timeline.contact
            /\ timeline'.key = timeline.key /\ timeline'.since = timeline.since
            /\ timeline'.fetch = f /\ timeline'.status = "loading"
        BY <1>2, <3>2, <3>3 DEF Timelines
      <3> QED
        BY <1>2, <3>3, <3>4 DEF TimelineIs
    <2> QED
      BY <2>1, <2>2, <2>3, <2>4
  <1> QED
    BY <1>1, <1>3, TimelineMoves

----------------------------------------------------------------------------
\* There are no more notes seen than sent, and what makes some of them seen
\* takes none back.
LEMMA SeenAreCounted ==
    ASSUME NEW sent \in Seq(Submitted), Len(sent) <= MaxPosts
    PROVE  IsFiniteSet(SeenNotes(sent)) /\ Cardinality(SeenNotes(sent)) \in 0..MaxPosts
  <1>1. IsFiniteSet(1..Len(sent)) /\ Cardinality(1..Len(sent)) = Len(sent) /\ Len(sent) \in Nat
    <2>1. /\ IsFiniteSet(1..Len(sent)) /\ Len(sent) \in Nat
          /\ Cardinality(1..Len(sent)) = IF 1 > Len(sent) THEN 0 ELSE Len(sent) - 1 + 1
      BY FS_Interval, LenProperties
    <2> QED
      BY <2>1
  <1>2. SeenNotes(sent) \in SUBSET (1..Len(sent))
    BY LenProperties DEF SeenNotes
  <1>3. /\ IsFiniteSet(SeenNotes(sent))
        /\ Cardinality(SeenNotes(sent)) <= Cardinality(1..Len(sent))
    BY <1>1, <1>2, FS_Subset
  <1>4. Cardinality(SeenNotes(sent)) \in Nat
    BY <1>3, FS_CardinalityType
  <1> QED
    BY <1>1, <1>3, <1>4, RecordAssumption

\* The answer of one post changes.
LEMMA AnswerChanges ==
    ASSUME RecordTypeOK, NEW i \in DOMAIN submitted,
           NEW a \in {Nil, "created", "not_found", "seen"},
           submitted' = [submitted EXCEPT ![i].answer = a]
    PROVE  /\ submitted' \in Seq(Submitted) /\ Len(submitted') = Len(submitted)
           /\ DOMAIN submitted' = DOMAIN submitted
           /\ submitted'[i].answer = a /\ submitted'[i].kind = submitted[i].kind
           /\ \A j \in DOMAIN submitted : j # i => submitted'[j] = submitted[j]
  <1>1. submitted \in Seq(Submitted) /\ i \in 1..Len(submitted) /\ submitted[i] \in Submitted
    BY LenProperties, ElementOfSeq DEF RecordTypeOK
  <1>2. PICK v \in Submitted : v = [submitted[i] EXCEPT !.answer = a]
    BY <1>1 DEF Submitted
  <1>3. v.answer = a /\ v.kind = submitted[i].kind
    BY <1>1, <1>2 DEF Submitted
  <1>4. submitted' = [submitted EXCEPT ![i] = v]
    BY <1>2
  <1> QED
    BY <1>1, <1>3, <1>4, ExceptSeq

\* A step that leaves the page's record and its reading alone, and of the sent
\* neither takes one back that was seen nor loses a deal still to be answered.
LEMMA PostsMove ==
    ASSUME RecordKept, UNCHANGED <<here, record, reading, timeline, history>>,
           submitted' \in Seq(Submitted), Len(submitted') <= MaxPosts,
           DOMAIN submitted \subseteq DOMAIN submitted',
           \A j \in DOMAIN submitted : /\ submitted'[j].kind = submitted[j].kind
                                       /\ submitted[j].answer = "seen" => submitted'[j].answer = "seen",
           faults' \in 0..MaxFaults, faults' >= faults,
           composer' \in [body : Contact \cup {Nil},
                          state : {"idle", "saving", "saved", "error", "not_found"}],
           starting' \in {"idle", "saving", "error", "not_found"},
           noteKey' = noteKey, graces' \in Nat,
           graces' <= graces \/ (/\ graces' = graces + 1
                                 /\ \E j \in SeenNotes(submitted') : j \notin SeenNotes(submitted)),
           deals' \in [Contact -> Nat],
           faults' = 0 => \/ \E j \in DOMAIN submitted' : submitted'[j].kind = "deal"
                                                         /\ submitted'[j].answer = "created"
                          \/ /\ deals' = deals
                             /\ \A j \in DOMAIN submitted :
                                  submitted[j].kind = "deal" => submitted[j].answer # "created"
    PROVE  RecordKept'
  <1>1. noteKey \in Nat /\ graces \in Nat /\ MaxPosts \in Nat /\ faults \in Nat
    BY RecordAssumption DEF RecordKept, RecordTypeOK
  <1>2. SeenNotes(submitted) \in SUBSET SeenNotes(submitted')
    BY DEF SeenNotes
  <1>3. /\ IsFiniteSet(SeenNotes(submitted')) /\ Cardinality(SeenNotes(submitted')) \in 0..MaxPosts
        /\ IsFiniteSet(SeenNotes(submitted)) /\ Cardinality(SeenNotes(submitted)) \in 0..MaxPosts
    BY SeenAreCounted DEF RecordKept, RecordTypeOK
  <1>4. /\ Cardinality(SeenNotes(submitted)) <= Cardinality(SeenNotes(submitted'))
        /\ Cardinality(SeenNotes(submitted')) = Cardinality(SeenNotes(submitted)) =>
              SeenNotes(submitted') = SeenNotes(submitted)
    BY <1>2, <1>3, FS_Subset
  <1>5. noteKey' + graces' <= Cardinality(SeenNotes(submitted'))
    <2>1. noteKey + graces <= Cardinality(SeenNotes(submitted))
      BY DEF RecordKept, NotesCounted
    <2>2. CASE graces' <= graces
      BY <1>1, <1>3, <1>4, <2>1, <2>2
    <2>3. CASE graces' = graces + 1 /\ \E j \in SeenNotes(submitted') : j \notin SeenNotes(submitted)
      <3>1. Cardinality(SeenNotes(submitted)) < Cardinality(SeenNotes(submitted'))
        BY <1>3, <1>4, <2>3
      <3> QED
        BY <1>1, <1>3, <2>1, <2>3, <3>1
    <2> QED
      BY <2>2, <2>3
  <1>6. NotesCounted'
    BY <1>5 DEF NotesCounted
  <1>7. graces' \in 0..MaxPosts /\ noteKey' \in 0..MaxPosts
    BY <1>1, <1>3, <1>5
  <1>8. RecordTypeOK'
    BY <1>7 DEF RecordKept, RecordTypeOK
  <1>9. HistoryKept'
    BY DEF RecordKept, HistoryKept, TimelineIs
  <1>10. DealsAreRead'
    <2> SUFFICES ASSUME faults' = 0 PROVE DealsAreRead'
      BY DEF DealsAreRead
    <2>1. faults = 0
      BY <1>1
    <2>2. CASE \E j \in DOMAIN submitted' : /\ submitted'[j].kind = "deal"
                                            /\ submitted'[j].answer = "created"
      BY <2>2 DEF DealsAreRead
    <2>3. CASE /\ deals' = deals
               /\ \A j \in DOMAIN submitted :
                    submitted[j].kind = "deal" => submitted[j].answer # "created"
      BY <2>1, <2>3 DEF RecordKept, DealsAreRead, ReadContact
    <2> QED
      BY <2>2, <2>3
  <1> QED
    BY <1>6, <1>8, <1>9, <1>10 DEF RecordKept

----------------------------------------------------------------------------
\* A note or a deal is submitted.
LEMMA SubmitKeeps ==
    ASSUME RecordKept, NEW kind \in {"note", "deal"}, Submit(kind), record.status = "ready",
           composer' \in [body : Contact \cup {Nil},
                          state : {"idle", "saving", "saved", "error", "not_found"}],
           starting' \in {"idle", "saving", "error", "not_found"},
           UNCHANGED <<here, record, reading, noteKey, timeline, graces, history, deals, faults>>
    PROVE  RecordKept'
  <1>1. PICK new : new = [kind |-> kind, contact |-> record.contact,
                          about |-> IF kind = "note" THEN composer.body ELSE Nil,
                          answer |-> Nil, heard |-> TRUE]
    OBVIOUS
  <1>2. submitted' = Append(submitted, new) /\ Len(submitted) < MaxPosts
    BY <1>1 DEF Submit
  <1>3. record.contact \in Contact /\ composer.body \in Contact \cup {Nil}
    BY DEF RecordKept, RecordTypeOK, Found, Missing
  <1>4. new \in Submitted /\ new.answer = Nil
    BY <1>1, <1>3 DEF Submitted
  <1>5. submitted \in Seq(Submitted) /\ Len(submitted) \in Nat /\ DOMAIN submitted = 1..Len(submitted)
    BY LenProperties DEF RecordKept, RecordTypeOK
  <1>6. /\ submitted' \in Seq(Submitted) /\ Len(submitted') = Len(submitted) + 1
        /\ DOMAIN submitted \subseteq DOMAIN submitted'
        /\ \A j \in DOMAIN submitted : submitted'[j] = submitted[j]
    BY <1>2, <1>4, <1>5, AppendProperties
  <1>7. Len(submitted') <= MaxPosts
    BY <1>2, <1>5, <1>6, RecordAssumption
  <1>8. faults \in 0..MaxFaults /\ faults' >= faults /\ graces \in Nat /\ graces' <= graces
        /\ deals \in [Contact -> Nat]
    BY RecordAssumption DEF RecordKept, RecordTypeOK
  <1> QED
    BY <1>6, <1>7, <1>8, PostsMove

\* The seller types, saves a note or starts a deal.
LEMMA PostedKeeps == ASSUME RecordKept, TypeNote \/ save \/ start PROVE RecordKept'
  <1>1. /\ composer \in [body : Contact \cup {Nil},
                         state : {"idle", "saving", "saved", "error", "not_found"}]
        /\ starting \in {"idle", "saving", "error", "not_found"}
        /\ faults \in 0..MaxFaults /\ graces \in 0..MaxPosts /\ noteKey \in 0..MaxPosts
        /\ submitted \in Seq(Submitted) /\ Len(submitted) <= MaxPosts /\ deals \in [Contact -> Nat]
    BY DEF RecordKept, RecordTypeOK
  <1>2. CASE TypeNote
    <2>1. record.contact \in Contact
      BY <1>2 DEF TypeNote, RecordKept, RecordTypeOK, Found, Missing
    <2>2. /\ composer' = [composer EXCEPT !.body = record.contact]
          /\ UNCHANGED <<here, record, reading, noteKey, timeline, starting>>
          /\ UNCHANGED <<submitted, graces, history, deals, faults>>
      BY <1>2 DEF TypeNote
    <2>3. composer' \in [body : Contact \cup {Nil},
                         state : {"idle", "saving", "saved", "error", "not_found"}]
      BY <1>1, <2>1, <2>2
    <2>4. graces' \in Nat /\ graces' <= graces /\ faults' >= faults
      BY <1>1, <2>2, RecordAssumption
    <2> QED
      BY <1>1, <2>2, <2>3, <2>4, PostsMove
  <1>3. CASE save
    <2>1. /\ composer' = [composer EXCEPT !.state = "saving"] /\ Submit("note")
          /\ record.status = "ready"
          /\ UNCHANGED <<here, record, reading, noteKey, timeline, starting>>
          /\ UNCHANGED <<graces, history, deals, faults>>
      BY <1>3 DEF save
    <2>2. composer' \in [body : Contact \cup {Nil},
                         state : {"idle", "saving", "saved", "error", "not_found"}]
      BY <1>1, <2>1
    <2> QED
      BY <1>1, <2>1, <2>2, SubmitKeeps
  <1>4. CASE start
    <2>1. /\ starting' = "saving" /\ Submit("deal") /\ record.status = "ready"
          /\ UNCHANGED <<here, record, reading, noteKey, timeline, composer>>
          /\ UNCHANGED <<graces, history, deals, faults>>
      BY <1>4 DEF start
    <2> QED
      BY <1>1, <2>1, SubmitKeeps
  <1> QED
    BY <1>2, <1>3, <1>4

\* The server writes a note or a deal, or finds nobody to write it to.
LEMMA WroteKeeps == ASSUME RecordKept, NEW i \in DOMAIN submitted, Wrote(i) PROVE RecordKept'
  <1>1. /\ submitted[i].answer = Nil /\ UNCHANGED <<pageVars, graces, history>>
    BY DEF Wrote
  <1>2. /\ RecordTypeOK /\ faults \in 0..MaxFaults /\ faults \in Nat /\ graces \in Nat
        /\ submitted \in Seq(Submitted) /\ Len(submitted) <= MaxPosts /\ deals \in [Contact -> Nat]
        /\ submitted[i] \in Submitted
    <2>1. submitted \in Seq(Submitted)
      BY DEF RecordKept, RecordTypeOK
    <2>2. submitted[i] \in Submitted
      BY <2>1, LenProperties, ElementOfSeq
    <2> QED
      BY <2>1, <2>2, RecordAssumption DEF RecordKept, RecordTypeOK
  <1>3. /\ composer' \in [body : Contact \cup {Nil},
                          state : {"idle", "saving", "saved", "error", "not_found"}]
        /\ starting' \in {"idle", "saving", "error", "not_found"}
        /\ UNCHANGED <<here, record, reading, timeline, history>>
        /\ noteKey' = noteKey /\ graces' \in Nat /\ graces' <= graces
    BY <1>1, <1>2 DEF pageVars, RecordTypeOK
  <1>4. Nil \notin {"created", "not_found", "seen"}
    BY NilIsNull
  <1>5. CASE /\ submitted' = [submitted EXCEPT ![i].answer = "created"] /\ UNCHANGED faults
             /\ deals' = IF submitted[i].kind = "deal"
                         THEN [deals EXCEPT ![submitted[i].contact] = @ + 1] ELSE deals
    <2>1. /\ submitted' \in Seq(Submitted) /\ Len(submitted') = Len(submitted)
          /\ DOMAIN submitted' = DOMAIN submitted
          /\ submitted'[i].answer = "created" /\ submitted'[i].kind = submitted[i].kind
          /\ \A j \in DOMAIN submitted : j # i => submitted'[j] = submitted[j]
      BY <1>2, <1>5, AnswerChanges
    <2>2. \A j \in DOMAIN submitted : /\ submitted'[j].kind = submitted[j].kind
                                      /\ submitted[j].answer = "seen" => submitted'[j].answer = "seen"
      BY <1>1, <1>4, <2>1
    <2>3. deals' \in [Contact -> Nat]
      BY <1>2, <1>5 DEF Submitted
    <2>4. \/ \E j \in DOMAIN submitted' : /\ submitted'[j].kind = "deal"
                                          /\ submitted'[j].answer = "created"
          \/ /\ deals' = deals
             /\ \A j \in DOMAIN submitted :
                  submitted[j].kind = "deal" => submitted[j].answer # "created"
      <3>1. CASE submitted[i].kind = "deal"
        BY <2>1, <3>1
      <3>2. CASE submitted[i].kind # "deal"
        BY <1>5, <2>1, <3>2
      <3> QED
        BY <3>1, <3>2
    <2>5. faults' >= faults /\ faults' \in 0..MaxFaults
      BY <1>2, <1>5
    <2> QED
      BY <1>2, <1>3, <2>1, <2>2, <2>3, <2>4, <2>5, PostsMove
  <1>6. CASE Fail /\ UNCHANGED deals /\ submitted' = [submitted EXCEPT ![i].answer = "not_found"]
    <2>1. /\ submitted' \in Seq(Submitted) /\ Len(submitted') = Len(submitted)
          /\ DOMAIN submitted' = DOMAIN submitted
          /\ submitted'[i].kind = submitted[i].kind
          /\ \A j \in DOMAIN submitted : j # i => submitted'[j] = submitted[j]
      BY <1>2, <1>6, AnswerChanges
    <2>2. \A j \in DOMAIN submitted : /\ submitted'[j].kind = submitted[j].kind
                                      /\ submitted[j].answer = "seen" => submitted'[j].answer = "seen"
      BY <1>1, <1>4, <2>1
    <2>3. faults' \in 0..MaxFaults /\ faults' >= faults /\ faults' # 0
      BY <1>2, <1>6, FaultCounts
    <2> QED
      BY <1>2, <1>3, <1>6, <2>1, <2>2, <2>3, PostsMove
  <1> QED
    BY <1>5, <1>6 DEF Wrote

\* A note is answered, or any answer is lost.
LEMMA AnswerKeeps ==
    ASSUME RecordKept, NEW i \in DOMAIN submitted, NoteAnswered(i) \/ PostFailed(i)
    PROVE  RecordKept'
  <1>1. /\ submitted' = [submitted EXCEPT ![i].answer = "seen"] /\ submitted[i].answer # "seen"
        /\ UNCHANGED <<here, record, reading, noteKey, timeline, history, deals>>
    BY DEF NoteAnswered, PostFailed
  <1>2. /\ RecordTypeOK /\ faults \in 0..MaxFaults /\ faults \in Nat /\ graces \in Nat
        /\ submitted \in Seq(Submitted) /\ Len(submitted) <= MaxPosts /\ deals \in [Contact -> Nat]
        /\ submitted[i] \in Submitted
        /\ composer \in [body : Contact \cup {Nil},
                         state : {"idle", "saving", "saved", "error", "not_found"}]
        /\ starting \in {"idle", "saving", "error", "not_found"}
    <2>1. submitted \in Seq(Submitted)
      BY DEF RecordKept, RecordTypeOK
    <2>2. submitted[i] \in Submitted
      BY <2>1, LenProperties, ElementOfSeq
    <2> QED
      BY <2>1, <2>2, RecordAssumption DEF RecordKept, RecordTypeOK
  <1>3. /\ submitted' \in Seq(Submitted) /\ Len(submitted') = Len(submitted)
        /\ DOMAIN submitted' = DOMAIN submitted
        /\ submitted'[i].answer = "seen" /\ submitted'[i].kind = submitted[i].kind
        /\ \A j \in DOMAIN submitted : j # i => submitted'[j] = submitted[j]
    BY <1>1, <1>2, AnswerChanges
  <1>4. \A j \in DOMAIN submitted : /\ submitted'[j].kind = submitted[j].kind
                                    /\ submitted[j].answer = "seen" => submitted'[j].answer = "seen"
    BY <1>3
  <1>5. CASE NoteAnswered(i)
    <2>1. /\ submitted[i].kind = "note" /\ submitted[i].answer \notin {Nil, "seen"}
          /\ starting' = starting /\ faults' = faults
      BY <1>5 DEF NoteAnswered
    <2>2. \/ composer' = composer /\ graces' = graces
          \/ composer' = [body |-> Nil, state |-> "saved"] /\ graces' = graces + 1
          \/ composer' = [composer EXCEPT !.state = submitted[i].answer] /\ graces' = graces
      BY <1>5 DEF NoteAnswered
    <2>4. submitted[i].answer = "created" \/ submitted[i].answer = "not_found"
      BY <1>2, <2>1 DEF Submitted
    <2>5. composer' \in [body : Contact \cup {Nil},
                         state : {"idle", "saving", "saved", "error", "not_found"}]
      <3>1. \/ composer' = composer \/ composer' = [body |-> Nil, state |-> "saved"]
            \/ composer' = [composer EXCEPT !.state = "not_found"]
        BY <1>5, <2>4 DEF NoteAnswered
      <3> QED
        BY <1>2, <3>1
    <2>6. i \in SeenNotes(submitted') /\ i \notin SeenNotes(submitted)
      BY <1>1, <1>3, <2>1 DEF SeenNotes
    <2>7. /\ graces' \in Nat
          /\ \/ graces' <= graces
             \/ /\ graces' = graces + 1
                /\ \E j \in SeenNotes(submitted') : j \notin SeenNotes(submitted)
      BY <1>2, <2>2, <2>6
    <2>8. \/ \E j \in DOMAIN submitted' : /\ submitted'[j].kind = "deal"
                                          /\ submitted'[j].answer = "created"
          \/ /\ deals' = deals
             /\ \A j \in DOMAIN submitted :
                  submitted[j].kind = "deal" => submitted[j].answer # "created"
      BY <1>1, <1>3, <2>1
    <2>9. /\ starting' \in {"idle", "saving", "error", "not_found"} /\ deals' \in [Contact -> Nat]
          /\ faults' \in 0..MaxFaults /\ faults' >= faults /\ Len(submitted') <= MaxPosts
      BY <1>1, <1>2, <1>3, <2>1
    <2> QED
      BY <1>1, <1>3, <1>4, <2>5, <2>7, <2>8, <2>9, PostsMove
  <1>6. CASE PostFailed(i)
    <2>1. faults' \in 0..MaxFaults /\ faults' >= faults /\ faults' # 0
      BY <1>2, <1>6, FaultCounts DEF PostFailed
    <2>2. /\ (composer' = composer \/ composer' = [composer EXCEPT !.state = "error"])
          /\ (starting' = starting \/ starting' = "error")
          /\ graces' = graces
      BY <1>6 DEF PostFailed
    <2>3. /\ composer' \in [body : Contact \cup {Nil},
                            state : {"idle", "saving", "saved", "error", "not_found"}]
          /\ starting' \in {"idle", "saving", "error", "not_found"}
          /\ graces' \in Nat /\ graces' <= graces
          /\ deals' \in [Contact -> Nat] /\ Len(submitted') <= MaxPosts
      BY <1>1, <1>2, <1>3, <2>2
    <2> QED
      BY <1>1, <1>3, <1>4, <2>1, <2>3, PostsMove
  <1> QED
    BY <1>5, <1>6

----------------------------------------------------------------------------
\* A reading of a contact that was just sent.
LEMMA SentReading ==
    ASSUME NEW c \in Contact
    PROVE  LET r == [contact |-> c, answer |-> Nil]
           IN  r \in Readings /\ r # Nil /\ r.contact = c /\ r.answer = Nil
  BY NilIsNull DEF Readings

\* What a step keeps that does not touch the history or the sent.
LEMMA OnlyReadingMoves ==
    ASSUME RecordKept, UNCHANGED <<record, noteKey, timeline, composer, starting>>,
           UNCHANGED <<submitted, graces, history, deals>>,
           faults' \in 0..MaxFaults, here' \in Contact,
           reading' \in Readings \cup {Nil}, reading' # Nil => reading'.contact = here',
           DealsAreRead'
    PROVE  RecordKept'
  <1>1. RecordTypeOK'
    BY DEF RecordKept, RecordTypeOK
  <1>2. HistoryKept' /\ NotesCounted'
    BY DEF RecordKept, HistoryKept, TimelineIs, NotesCounted
  <1> QED
    BY <1>1, <1>2 DEF RecordKept

\* Another contact is opened.
LEMMA NavigateKeeps == ASSUME RecordKept, NEW c \in Contact, Navigate(c) PROVE RecordKept'
  <1>1. /\ here' = c /\ reading' = [contact |-> c, answer |-> Nil] /\ faults' = faults
        /\ UNCHANGED <<record, noteKey, timeline, composer, starting>>
        /\ UNCHANGED <<submitted, graces, history, deals>>
    BY DEF Navigate
  <1>2. reading' \in Readings /\ reading' # Nil /\ reading'.contact = here' /\ reading'.answer = Nil
    BY <1>1, SentReading
  <1>3. DealsAreRead'
    BY <1>2 DEF DealsAreRead
  <1>4. faults' \in 0..MaxFaults
    BY <1>1 DEF RecordKept, RecordTypeOK
  <1> QED
    BY <1>1, <1>2, <1>3, <1>4, OnlyReadingMoves

\* The server reads the record, or does not.
LEMMA RecordReadKeeps == ASSUME RecordKept, RecordRead PROVE RecordKept'
  <1>1. /\ reading # Nil /\ reading.answer = Nil
        /\ UNCHANGED <<here, record, noteKey, timeline, composer, starting>>
        /\ UNCHANGED <<submitted, graces, history, deals>>
    BY DEF RecordRead
  <1>2. /\ reading \in Readings /\ reading.contact = here /\ here \in Contact
        /\ deals \in [Contact -> Nat] /\ faults \in 0..MaxFaults
    BY <1>1 DEF RecordKept, RecordTypeOK
  <1>3. CASE reading' = [reading EXCEPT !.answer = ReadContact(reading.contact)] /\ UNCHANGED faults
    <2>1. PICK a : a = ReadContact(here)
      OBVIOUS
    <2>2. a \in Found
      BY <1>2, <2>1 DEF ReadContact, Found
    <2>3. reading' = [reading EXCEPT !.answer = a]
      BY <1>2, <1>3, <2>1
    <2>4. /\ reading' \in Readings /\ reading'.contact = here' /\ reading'.answer = a
      BY <1>1, <1>2, <2>2, <2>3 DEF Readings
    <2>5. reading' # Nil
      BY <2>4, NilIsNull
    <2>6. ReadContact(here)' = a
      BY <1>1, <2>1 DEF ReadContact
    <2>7. DealsAreRead'
      BY <2>4, <2>5, <2>6 DEF DealsAreRead
    <2> QED
      BY <1>1, <1>2, <1>3, <2>4, <2>7, OnlyReadingMoves
  <1>4. CASE /\ Fail
             /\ \E s \in {"not_found", "error"} : reading' = [reading EXCEPT !.answer = [status |-> s]]
    <2>1. PICK s \in {"not_found", "error"} : reading' = [reading EXCEPT !.answer = [status |-> s]]
      BY <1>4
    <2>2. PICK a \in Missing : a = [status |-> s]
      BY DEF Missing
    <2>3. reading' = [reading EXCEPT !.answer = a]
      BY <2>1, <2>2
    <2>4. reading' \in Readings /\ reading'.contact = here'
      BY <1>1, <1>2, <2>3 DEF Readings
    <2>5. faults' \in 0..MaxFaults /\ faults' # 0
      BY <1>4, FaultCounts DEF RecordKept
    <2>6. DealsAreRead'
      BY <2>5 DEF DealsAreRead
    <2> QED
      BY <1>1, <1>2, <2>4, <2>5, <2>6, OnlyReadingMoves
  <1> QED
    BY <1>3, <1>4 DEF RecordRead

\* Posts nobody waits for any more are the same sent.
LEMMA Unheard ==
    ASSUME RecordTypeOK,
           submitted' = [i \in DOMAIN submitted |-> [submitted[i] EXCEPT !.heard = FALSE]]
    PROVE  /\ submitted' \in Seq(Submitted) /\ Len(submitted') = Len(submitted)
           /\ DOMAIN submitted' = DOMAIN submitted
           /\ \A i \in DOMAIN submitted : /\ submitted'[i].kind = submitted[i].kind
                                          /\ submitted'[i].answer = submitted[i].answer
  <1>1. submitted \in Seq(Submitted)
    BY DEF RecordTypeOK
  <1>2. /\ Len(submitted) \in Nat /\ DOMAIN submitted = 1..Len(submitted)
        /\ \A i \in DOMAIN submitted : submitted[i] \in Submitted
    BY <1>1, LenProperties, ElementOfSeq
  <1>3. \A i \in DOMAIN submitted : /\ submitted'[i] \in Submitted
                                    /\ submitted'[i].kind = submitted[i].kind
                                    /\ submitted'[i].answer = submitted[i].answer
    BY <1>2 DEF Submitted
  <1>4. submitted' \in [1..Len(submitted) -> Submitted]
    BY <1>2, <1>3
  <1> QED
    BY <1>2, <1>3, <1>4, LenProperties

\* The record is drawn: with its components, or without them.
LEMMA RecordAppliedKeeps == ASSUME RecordKept, RecordApplied PROVE RecordKept'
  <1>1. /\ reading # Nil /\ reading.answer # Nil /\ reading' = Nil /\ Draws(reading.answer)
        /\ UNCHANGED <<here, history, deals, faults>>
    BY DEF RecordApplied
  <1>2. PICK r : r = reading.answer
    OBVIOUS
  <1>3. r \in Found \cup Missing /\ r \in {[status |-> "loading"]} \cup Found \cup Missing
    BY <1>1, <1>2 DEF RecordKept, RecordTypeOK, Readings
  <1>4. PICK k : k = IF record.status = "ready" THEN noteKey ELSE 0
    OBVIOUS
  <1>5. k \in Nat /\ k <= noteKey /\ noteKey \in Nat /\ graces \in Nat
    BY <1>4, RecordAssumption DEF RecordKept, RecordTypeOK
  <1>6. /\ record' = r /\ timeline' = TimelineOf(r, k) /\ noteKey' = k
        /\ IF r.status = "ready" THEN UNCHANGED <<composer, starting, graces, submitted>>
           ELSE /\ composer' = NoComposer /\ starting' = "idle" /\ graces' = 0
                /\ submitted' = [i \in DOMAIN submitted |-> [submitted[i] EXCEPT !.heard = FALSE]]
    BY <1>1, <1>2, <1>4 DEF Draws
  <1>7. /\ submitted \in Seq(Submitted) /\ Len(submitted) <= MaxPosts
        /\ composer \in [body : Contact \cup {Nil},
                         state : {"idle", "saving", "saved", "error", "not_found"}]
        /\ starting \in {"idle", "saving", "error", "not_found"} /\ RecordTypeOK
    BY DEF RecordKept, RecordTypeOK
  <1>8. /\ submitted' \in Seq(Submitted) /\ Len(submitted') <= MaxPosts
        /\ DOMAIN submitted' = DOMAIN submitted
        /\ \A i \in DOMAIN submitted : /\ submitted'[i].kind = submitted[i].kind
                                       /\ submitted'[i].answer = submitted[i].answer
        /\ composer' \in [body : Contact \cup {Nil},
                          state : {"idle", "saving", "saved", "error", "not_found"}]
        /\ starting' \in {"idle", "saving", "error", "not_found"}
        /\ graces' \in Nat /\ graces' <= graces
    <2>1. CASE r.status = "ready"
      BY <1>5, <1>6, <1>7, <2>1
    <2>2. CASE r.status # "ready"
      <3>1. /\ composer' = [body |-> Nil, state |-> "idle"] /\ starting' = "idle" /\ graces' = 0
            /\ submitted' = [i \in DOMAIN submitted |-> [submitted[i] EXCEPT !.heard = FALSE]]
        BY <1>6, <2>2 DEF NoComposer
      <3>2. /\ submitted' \in Seq(Submitted) /\ Len(submitted') = Len(submitted)
            /\ DOMAIN submitted' = DOMAIN submitted
            /\ \A i \in DOMAIN submitted : /\ submitted'[i].kind = submitted[i].kind
                                           /\ submitted'[i].answer = submitted[i].answer
        BY <1>7, <3>1, Unheard
      <3> QED
        BY <1>5, <1>7, <3>1, <3>2
    <2> QED
      BY <2>1, <2>2
  <1>9. NotesCounted' /\ noteKey' \in 0..MaxPosts /\ graces' \in 0..MaxPosts
    <2>1. SeenNotes(submitted') = SeenNotes(submitted)
      BY <1>8 DEF SeenNotes
    <2>2. Cardinality(SeenNotes(submitted)) \in 0..MaxPosts
      BY <1>7, SeenAreCounted
    <2>3. noteKey + graces <= Cardinality(SeenNotes(submitted))
      BY DEF RecordKept, NotesCounted
    <2>4. noteKey' + graces' <= Cardinality(SeenNotes(submitted'))
      BY <1>5, <1>6, <1>8, <2>1, <2>2, <2>3
    <2> QED
      BY <1>5, <1>6, <1>8, <2>1, <2>2, <2>4, RecordAssumption DEF NotesCounted
  <1>10. /\ r.status # "ready" => timeline' = Nil
         /\ r.status = "ready" => /\ timeline' \in Timelines /\ timeline' # Nil
                                  /\ timeline'.contact = r.contact /\ TimelineIs(timeline')
    BY <1>3, <1>5, <1>6, DrawnTimeline
  <1>11. RecordTypeOK'
    <2>1. here' \in Contact /\ history' \subseteq Past \cup Late /\ deals' \in [Contact -> Nat]
          /\ faults' \in 0..MaxFaults
      BY <1>1 DEF RecordKept, RecordTypeOK
    <2>2. /\ record' \in {[status |-> "loading"]} \cup Found \cup Missing
          /\ reading' \in Readings \cup {Nil} /\ (reading' # Nil => reading'.contact = here')
          /\ timeline' \in Timelines \cup {Nil}
          /\ (timeline' # Nil) <=> (record'.status = "ready")
      BY <1>1, <1>3, <1>6, <1>10
    <2> QED
      BY <1>8, <1>9, <2>1, <2>2 DEF RecordTypeOK
  <1>12. HistoryKept'
    BY <1>1, <1>6, <1>10 DEF HistoryKept, TimelineIs
  <1>13. DealsAreRead'
    <2> SUFFICES ASSUME faults' = 0 PROVE DealsAreRead'
      BY DEF DealsAreRead
    <2>1. CASE \E i \in DOMAIN submitted : submitted[i].kind = "deal" /\ submitted[i].answer = "created"
      BY <1>8, <2>1 DEF DealsAreRead
    <2>2. CASE reading.answer = ReadContact(here)
      <3>1. record' = [status |-> "ready", contact |-> here, deals |-> deals[here]]
        BY <1>2, <1>6, <2>2 DEF ReadContact
      <3> QED
        BY <1>1, <3>1 DEF DealsAreRead
    <2> QED
      BY <1>1, <2>1, <2>2 DEF RecordKept, DealsAreRead
  <1> QED
    BY <1>9, <1>11, <1>12, <1>13 DEF RecordKept

\* What was projected is in the history.
LEMMA ProjectedKeeps == ASSUME RecordKept, NEW e \in Late, Projected(e) PROVE RecordKept'
  <1>1. history' = history \cup {e} /\ UNCHANGED <<pageVars, submitted, graces, deals, faults>>
    BY DEF Projected
  <1>2. RecordTypeOK'
    BY <1>1 DEF RecordKept, RecordTypeOK, pageVars
  <1>3. HistoryKept'
    BY <1>1 DEF RecordKept, HistoryKept, TimelineIs, pageVars
  <1>4. NotesCounted'
    BY <1>1 DEF RecordKept, NotesCounted, pageVars
  <1>5. DealsAreRead'
    BY <1>1 DEF RecordKept, DealsAreRead, ReadContact, pageVars
  <1> QED
    BY <1>2, <1>3, <1>4, <1>5 DEF RecordKept

\* The grace of a note is over.
LEMMA onLoggedKeeps == ASSUME RecordKept, onLogged PROVE RecordKept'
  <1>1. /\ graces > 0 /\ graces' = graces - 1 /\ noteKey' = noteKey + 1
        /\ timeline' = TimelineOf(record, noteKey + 1)
        /\ UNCHANGED <<here, record, reading, composer, starting, submitted, history, deals, faults>>
    BY DEF onLogged
  <1>2. noteKey \in Nat /\ noteKey + 1 \in Nat /\ graces \in Nat
        /\ record \in {[status |-> "loading"]} \cup Found \cup Missing
    BY RecordAssumption DEF RecordKept, RecordTypeOK
  <1>3. /\ record.status # "ready" => timeline' = Nil
        /\ record.status = "ready" => /\ timeline' \in Timelines /\ timeline' # Nil
                                      /\ timeline'.contact = record.contact /\ TimelineIs(timeline')
    BY <1>1, <1>2, DrawnTimeline
  <1>4. noteKey + graces <= Cardinality(SeenNotes(submitted))
        /\ Cardinality(SeenNotes(submitted)) \in 0..MaxPosts
    BY SeenAreCounted DEF RecordKept, NotesCounted, RecordTypeOK
  <1>5. NotesCounted'
    BY <1>1, <1>2, <1>4 DEF NotesCounted
  <1>6. noteKey' \in 0..MaxPosts /\ graces' \in 0..MaxPosts
    BY <1>1, <1>2, <1>4, RecordAssumption
  <1>7. RecordTypeOK'
    BY <1>1, <1>3, <1>6 DEF RecordKept, RecordTypeOK
  <1>8. HistoryKept'
    BY <1>1, <1>3 DEF HistoryKept, TimelineIs
  <1>9. DealsAreRead'
    BY <1>1 DEF RecordKept, DealsAreRead, ReadContact
  <1> QED
    BY <1>5, <1>7, <1>8, <1>9 DEF RecordKept

\* A deal is answered: one that was created has the record read again.
LEMMA DealAnsweredKeeps ==
    ASSUME RecordKept, NEW i \in DOMAIN submitted, DealAnswered(i)
    PROVE  RecordKept'
  <1>1. /\ submitted[i].kind = "deal" /\ submitted[i].answer \notin {Nil, "seen"}
        /\ submitted' = [submitted EXCEPT ![i].answer = "seen"]
        /\ reading' = IF submitted[i].answer = "created"
                      THEN [contact |-> here, answer |-> Nil] ELSE reading
        /\ UNCHANGED <<here, record, noteKey, timeline, composer, graces, history, deals, faults>>
        /\ (starting' = starting \/ starting' = "idle" \/ starting' = "not_found")
    BY DEF DealAnswered
  <1>2. RecordTypeOK /\ here \in Contact
    BY DEF RecordKept, RecordTypeOK
  <1>3. /\ submitted' \in Seq(Submitted) /\ Len(submitted') = Len(submitted)
        /\ DOMAIN submitted' = DOMAIN submitted
        /\ submitted'[i].answer = "seen" /\ submitted'[i].kind = submitted[i].kind
        /\ \A j \in DOMAIN submitted : j # i => submitted'[j] = submitted[j]
    BY <1>1, <1>2, AnswerChanges
  <1>4. /\ reading' \in Readings \cup {Nil} /\ (reading' # Nil => reading'.contact = here)
        /\ submitted[i].answer = "created" => reading' # Nil /\ reading'.answer = Nil
    <2>1. CASE submitted[i].answer = "created"
      BY <1>1, <1>2, <2>1, SentReading
    <2>2. CASE submitted[i].answer # "created"
      BY <1>1, <1>2, <2>2 DEF RecordTypeOK
    <2> QED
      BY <2>1, <2>2
  <1>5. RecordTypeOK'
    <2>1. /\ starting' \in {"idle", "saving", "error", "not_found"}
          /\ Len(submitted') <= MaxPosts
      BY <1>1, <1>2, <1>3 DEF RecordTypeOK
    <2> QED
      BY <1>1, <1>2, <1>3, <1>4, <2>1 DEF RecordTypeOK
  <1>6. HistoryKept'
    BY <1>1 DEF RecordKept, HistoryKept, TimelineIs
  <1>7. NotesCounted'
    <2>1. SeenNotes(submitted') = SeenNotes(submitted)
      BY <1>1, <1>3 DEF SeenNotes
    <2> QED
      BY <1>1, <2>1 DEF RecordKept, NotesCounted
  <1>8. DealsAreRead'
    <2> SUFFICES ASSUME faults' = 0 PROVE DealsAreRead'
      BY DEF DealsAreRead
    <2>1. CASE submitted[i].answer = "created"
      BY <1>4, <2>1 DEF DealsAreRead
    <2>2. CASE submitted[i].answer # "created"
      <3>1. reading' = reading /\ ReadContact(here)' = ReadContact(here)
        BY <1>1, <2>2 DEF ReadContact
      <3>2. \A j \in DOMAIN submitted :
               (submitted[j].kind = "deal" /\ submitted[j].answer = "created") => j # i
        BY <2>2
      <3> QED
        BY <1>1, <1>3, <3>1, <3>2 DEF RecordKept, DealsAreRead
    <2> QED
      BY <2>1, <2>2
  <1> QED
    BY <1>5, <1>6, <1>7, <1>8 DEF RecordKept

\* Every step of the page keeps what is known of it.
LEMMA RecordKeptStep == RecordKept /\ [RecordNext]_recordVars => RecordKept'
  <1> SUFFICES ASSUME RecordKept, [RecordNext]_recordVars PROVE RecordKept'
    OBVIOUS
  <1>1. CASE \E c \in Contact : Navigate(c)
    BY <1>1, NavigateKeeps
  <1>2. CASE RecordRead \/ RecordApplied
    BY <1>2, RecordReadKeeps, RecordAppliedKeeps
  <1>3. CASE \E e \in Late : Projected(e)
    BY <1>3, ProjectedKeeps
  <1>4. CASE PageRead \/ PageApplied \/ PageFailed \/ loadMore \/ retry
    BY <1>4, PageReadKeeps, PageAppliedKeeps, PageAskedKeeps
  <1>5. CASE TypeNote \/ save \/ start \/ onLogged
    BY <1>5, PostedKeeps, onLoggedKeeps
  <1>6. CASE \E i \in DOMAIN submitted : Wrote(i) \/ NoteAnswered(i) \/ DealAnswered(i) \/ PostFailed(i)
    BY <1>6, WroteKeeps, AnswerKeeps, DealAnsweredKeeps
  <1>7. CASE UNCHANGED recordVars
    <2>1. UNCHANGED <<here, record, reading, noteKey, timeline, composer, starting>>
          /\ UNCHANGED <<submitted, graces, history, deals, faults>>
      BY <1>7 DEF recordVars, pageVars
    <2>2. RecordTypeOK'
      BY <2>1 DEF RecordKept, RecordTypeOK
    <2>3. HistoryKept'
      BY <2>1 DEF RecordKept, HistoryKept, TimelineIs
    <2>4. NotesCounted' /\ DealsAreRead'
      BY <2>1 DEF RecordKept, NotesCounted, DealsAreRead, ReadContact
    <2> QED
      BY <2>2, <2>3, <2>4 DEF RecordKept
  <1> QED
    BY <1>1, <1>2, <1>3, <1>4, <1>5, <1>6, <1>7 DEF RecordNext

\* What the invariant says of a page at rest and of a history that is shown.
LEMMA RecordKeptIsSeen == RecordKept => PageIsTheUrls /\ HistoryIsOfTheRecord
  <1> SUFFICES ASSUME RecordKept PROVE PageIsTheUrls /\ HistoryIsOfTheRecord
    OBVIOUS
  <1>1. PageIsTheUrls
    BY DEF RecordKept, DealsAreRead, PageIsTheUrls
  <1>2. HistoryIsOfTheRecord
    <2> SUFFICES ASSUME timeline # Nil, timeline.status = "ready" PROVE HistoryIsOfTheRecord
      BY DEF HistoryIsOfTheRecord
    <2>1. /\ timeline.contact = record.contact
          /\ ListIs(timeline.entries, record.contact, Nil, timeline.nextCursor, timeline.since)
      BY DEF RecordKept, HistoryKept, TimelineIs
    <2> QED
      BY <2>1 DEF HistoryIsOfTheRecord, ListIs, ToSet
  <1> QED
    BY <1>1, <1>2

\* However pages, notes, deals and other contacts are asked for, and whatever is
\* projected late, the page shows the contact in its URL with every deal it was
\* answered, and a history of that contact without a gap
\* (ui/contact.tsx:42-155, api/timeline.ts:189-195).
THEOREM ThePageIsTheContacts ==
    RecordSpec => [](RecordTypeOK /\ PageIsTheUrls /\ HistoryIsOfTheRecord)
  <1>1. RecordKept => RecordTypeOK
    BY DEF RecordKept
  <1> QED
    BY <1>1, RecordKeptInit, RecordKeptStep, RecordKeptIsSeen, PTL DEF RecordSpec

----------------------------------------------------------------------------
\* A seller's day.

ListsOfADay == [needsOutcome : SUBSET Meeting, appointments : SUBSET Meeting,
                dueNow : SUBSET Task, laterToday : SUBSET Task]
ReadingsOfADay == [step : 1..4, lists : ListsOfADay, since : Nat, throughout : SUBSET Meeting]

\* The lists are asked for one after another, each at a time of its own.
ReadSoFar(r) ==
    /\ r \in ReadingsOfADay /\ r.since <= clock
    /\ r.step >= 2 =>
          /\ {m \in r.throughout : Ends(m) < r.since} \subseteq r.lists.needsOutcome
          /\ \A m \in r.lists.needsOutcome : Ends(m) < clock
    /\ r.step >= 3 =>
          /\ r.lists.needsOutcome \cap r.lists.appointments = {}
          /\ \E asked \in Nat :
                /\ r.since <= asked /\ asked <= clock
                /\ {m \in r.throughout : Day(Starts[m]) = Day(asked) /\ Ends(m) >= asked}
                      \subseteq r.lists.appointments
    /\ r.step = 4 => r.lists.dueNow \cap r.lists.laterToday = {}

Drawings == [lists : ListsOfADay, since : Nat, until : Nat, throughout : SUBSET Meeting]

DayKept ==
    /\ clock \in 0..EndOfTime /\ settled \subseteq booked /\ booked \subseteq Meeting
    /\ completed \subseteq planned /\ planned \subseteq Task
    /\ dayRead = [step |-> 0] \/ ReadSoFar(dayRead)
    /\ day \in Drawings /\ day.since <= day.until /\ day.until <= clock
    /\ ShownOnce

\* Dividing by one number keeps an order.
LEMMA DivKeepsOrder ==
    ASSUME NEW n \in Nat \ {0}, NEW x \in Nat, NEW y \in Nat, x <= y
    PROVE  x \div n <= y \div n
  <1> DEFINE p == x \div n
             q == y \div n
             r == x % n
             s == y % n
  <1>1. p \in Nat /\ r \in 0..(n - 1) /\ x = n * p + r
    OBVIOUS
  <1>2. q \in Nat /\ s \in 0..(n - 1) /\ y = n * q + s
    OBVIOUS
  <1> HIDE DEF p, q, r, s
  <1>3. SUFFICES ASSUME q < p PROVE FALSE
    BY <1>1, <1>2 DEF p, q
  <1>4. q + 1 <= p
    BY <1>1, <1>2, <1>3
  <1>5. n * (q + 1) <= n * p
    BY <1>1, <1>2, <1>4
  <1>6. n * (q + 1) = n * q + n
    BY <1>2
  <1> QED
    BY <1>1, <1>2, <1>5, <1>6

\* Later is never an earlier day.
LEMMA DaysPass ==
    ASSUME NEW s \in Nat, NEW t \in Nat, s <= t
    PROVE  Day(s) <= Day(t) /\ Day(s) \in Nat /\ Day(t) \in Nat
  <1>1. DayLength \in Nat \ {0} /\ Midnight \in 1..DayLength
    BY MyDayAssumption
  <1>2. s + DayLength - Midnight \in Nat /\ t + DayLength - Midnight \in Nat
        /\ s + DayLength - Midnight <= t + DayLength - Midnight
    BY <1>1
  <1> QED
    BY <1>1, <1>2, DivKeepsOrder DEF Day

\* A day begins with nothing drawn.
LEMMA DayKeptInit == MyDayInit => DayKept
  <1> SUFFICES ASSUME MyDayInit PROVE DayKept
    OBVIOUS
  <1>1. NoLists \in ListsOfADay
    BY DEF NoLists, ListsOfADay
  <1>2. /\ clock = 0 /\ booked = {} /\ settled = {} /\ planned = {} /\ completed = {}
        /\ dayRead = [step |-> 0]
        /\ day.lists = NoLists /\ day.since = 0 /\ day.until = 0 /\ day.throughout = {}
        /\ day \in Drawings
    BY <1>1 DEF MyDayInit, Drawings
  <1>3. ShownOnce
    BY <1>2 DEF ShownOnce, NoLists
  <1> QED
    BY <1>2, <1>3, MyDayAssumption DEF DayKept

\* What was read stays read while time passes and the seller works.
LEMMA ReadingLasts ==
    ASSUME DayKept, clock' \in 0..EndOfTime, clock' >= clock, dayRead' = dayRead, day' = day,
           settled' \subseteq booked', booked' \subseteq Meeting,
           completed' \subseteq planned', planned' \subseteq Task
    PROVE  DayKept'
  <1>1. clock \in Nat /\ clock' \in Nat
    BY DEF DayKept
  <1>2. ASSUME ReadSoFar(dayRead) PROVE ReadSoFar(dayRead)'
    <2>1. dayRead \in ReadingsOfADay /\ dayRead.since <= clock /\ dayRead.since \in Nat
      BY <1>2 DEF ReadSoFar, ReadingsOfADay
    <2>2. dayRead.since <= clock'
      BY <1>1, <2>1
    <2>3. dayRead.step >= 2 => \A m \in dayRead.lists.needsOutcome : Ends(m) < clock'
      <3> SUFFICES ASSUME dayRead.step >= 2, NEW m \in dayRead.lists.needsOutcome
                   PROVE  Ends(m) < clock'
        OBVIOUS
      <3>1. Ends(m) < clock /\ m \in Meeting
        BY <1>2, <2>1 DEF ReadSoFar, ReadingsOfADay, ListsOfADay
      <3>2. Ends(m) \in Nat
        BY <3>1, MyDayAssumption DEF Ends
      <3> QED
        BY <1>1, <3>1, <3>2
    <2>4. ASSUME dayRead.step >= 3
          PROVE  \E asked \in Nat :
                    /\ dayRead.since <= asked /\ asked <= clock'
                    /\ {m \in dayRead.throughout : Day(Starts[m]) = Day(asked) /\ Ends(m) >= asked}
                          \subseteq dayRead.lists.appointments
      <3>1. PICK asked \in Nat :
                    /\ dayRead.since <= asked /\ asked <= clock
                    /\ {m \in dayRead.throughout : Day(Starts[m]) = Day(asked) /\ Ends(m) >= asked}
                          \subseteq dayRead.lists.appointments
        BY <1>2, <2>4 DEF ReadSoFar
      <3>2. asked <= clock'
        BY <1>1, <3>1
      <3> QED
        BY <3>1, <3>2
    <2> QED
      BY <1>2, <2>1, <2>2, <2>3, <2>4 DEF ReadSoFar, Ends, Day
  <1>3. ShownOnce'
    BY DEF DayKept, ShownOnce, Ends, Day
  <1>4. day.until <= clock'
    BY <1>1 DEF DayKept, Drawings
  <1> QED
    BY <1>2, <1>3, <1>4 DEF DayKept

\* A reading begins.
LEMMA BeganKeeps == ASSUME DayKept, Began PROVE DayKept'
  <1>1. /\ dayRead' = [step |-> 1, lists |-> NoLists, since |-> clock, throughout |-> Open]
        /\ UNCHANGED <<clock, work, day>>
    BY DEF Began
  <1>2. NoLists \in ListsOfADay /\ Open \in SUBSET Meeting /\ clock \in Nat
    BY DEF NoLists, ListsOfADay, Open, DayKept
  <1>3. dayRead' \in ReadingsOfADay /\ dayRead'.step = 1 /\ dayRead'.since = clock'
    BY <1>1, <1>2 DEF ReadingsOfADay
  <1>4. ReadSoFar(dayRead)'
    BY <1>1, <1>2, <1>3 DEF ReadSoFar
  <1> QED
    BY <1>1, <1>4 DEF DayKept, ShownOnce, work, Ends, Day

\* What an answer makes of the reading.
LEMMA AnswerAdds ==
    ASSUME DayKept, dayRead.step \in 1..3, NEW l \in ListsOfADay, Advance(l)
    PROVE  /\ ReadSoFar(dayRead) /\ dayRead \in ReadingsOfADay
           /\ dayRead' \in ReadingsOfADay /\ dayRead'.step = dayRead.step + 1
           /\ dayRead'.lists = l /\ dayRead'.since = dayRead.since
           /\ dayRead'.throughout = dayRead.throughout \cap Open
  <1>1. ReadSoFar(dayRead) /\ dayRead \in ReadingsOfADay
    BY DEF DayKept, ReadSoFar
  <1>2. PICK n \in 1..4 : n = dayRead.step + 1
    OBVIOUS
  <1>3. PICK T \in SUBSET Meeting : T = dayRead.throughout \cap Open
    BY <1>1 DEF ReadingsOfADay
  <1>4. dayRead' = [dayRead EXCEPT !.step = n, !.lists = l, !.throughout = T]
    BY <1>1, <1>2, <1>3 DEF Advance, ReadingsOfADay
  <1> QED
    BY <1>1, <1>2, <1>3, <1>4 DEF ReadingsOfADay

\* The meetings that need an outcome are asked for.
LEMMA OutcomesKeep == ASSUME DayKept, AskNeedsOutcome PROVE DayKept'
  <1>1. dayRead.step = 1 /\ UNCHANGED <<clock, work, day>>
    BY DEF AskNeedsOutcome
  <1>2. clock \in Nat /\ Open \subseteq Meeting
    BY DEF DayKept, Open
  <1>3. dayRead \in ReadingsOfADay /\ dayRead.since <= clock
    BY <1>1 DEF DayKept, ReadSoFar
  <1>4. PICK l \in ListsOfADay : /\ l = [dayRead.lists EXCEPT !.needsOutcome = NeedsOutcome]
                                 /\ l.needsOutcome = NeedsOutcome
    <2>1. dayRead.lists \in ListsOfADay
      BY <1>3 DEF ReadingsOfADay
    <2>2. PICK S \in SUBSET Meeting : S = NeedsOutcome
      BY <1>2 DEF NeedsOutcome
    <2>3. PICK l : l = [dayRead.lists EXCEPT !.needsOutcome = S]
      OBVIOUS
    <2>4. l \in ListsOfADay
      BY <2>1, <2>3 DEF ListsOfADay
    <2>5. l.needsOutcome = S /\ l.needsOutcome = S
      BY <2>1, <2>3 DEF ListsOfADay
    <2> QED
      BY <2>2, <2>3, <2>4, <2>5
  <1>5. Advance(l)
    BY <1>4 DEF AskNeedsOutcome
  <1>6. /\ dayRead' \in ReadingsOfADay /\ dayRead'.step = 2
        /\ dayRead'.lists = l /\ dayRead'.since = dayRead.since
        /\ dayRead'.throughout = dayRead.throughout \cap Open
    BY <1>1, <1>5, AnswerAdds
  <1>7. {m \in dayRead'.throughout : Ends(m) < dayRead'.since} \subseteq dayRead'.lists.needsOutcome
    <2> SUFFICES ASSUME NEW m \in dayRead.throughout \cap Open, Ends(m) < dayRead.since
                 PROVE  m \in NeedsOutcome
      BY <1>4, <1>6
    <2>1. Ends(m) \in Nat /\ dayRead.since \in Nat
      BY <1>2, <1>3, MyDayAssumption DEF Ends, ReadingsOfADay
    <2>2. Ends(m) < clock
      BY <1>2, <1>3, <2>1
    <2> QED
      BY <2>2 DEF NeedsOutcome
  <1>8. \A m \in dayRead'.lists.needsOutcome : Ends(m) < clock'
    BY <1>1, <1>4, <1>6 DEF NeedsOutcome
  <1>9. ReadSoFar(dayRead)'
    BY <1>1, <1>3, <1>6, <1>7, <1>8 DEF ReadSoFar, Ends
  <1> QED
    BY <1>1, <1>9 DEF DayKept, ShownOnce, work, Ends, Day

\* The appointments of the day are asked for.
LEMMA AppointmentsKeep == ASSUME DayKept, AskAppointments PROVE DayKept'
  <1>1. dayRead.step = 2 /\ UNCHANGED <<clock, work, day>>
    BY DEF AskAppointments
  <1>2. clock \in Nat /\ Open \subseteq Meeting
    BY DEF DayKept, Open
  <1>3. dayRead \in ReadingsOfADay /\ dayRead.since <= clock /\ ReadSoFar(dayRead)
    BY <1>1 DEF DayKept, ReadSoFar
  <1>4. PICK l \in ListsOfADay : /\ l = [dayRead.lists EXCEPT !.appointments = Appointments]
                                 /\ l.appointments = Appointments
                                 /\ l.needsOutcome = dayRead.lists.needsOutcome
    <2>1. dayRead.lists \in ListsOfADay
      BY <1>3 DEF ReadingsOfADay
    <2>2. PICK S \in SUBSET Meeting : S = Appointments
      BY <1>2 DEF Appointments
    <2>3. PICK l : l = [dayRead.lists EXCEPT !.appointments = S]
      OBVIOUS
    <2>4. l \in ListsOfADay
      BY <2>1, <2>3 DEF ListsOfADay
    <2>5. l.appointments = S /\ l.needsOutcome = dayRead.lists.needsOutcome
      BY <2>1, <2>3 DEF ListsOfADay
    <2> QED
      BY <2>2, <2>3, <2>4, <2>5
  <1>5. Advance(l)
    BY <1>4 DEF AskAppointments
  <1>6. /\ dayRead' \in ReadingsOfADay /\ dayRead'.step = 3
        /\ dayRead'.lists = l /\ dayRead'.since = dayRead.since
        /\ dayRead'.throughout = dayRead.throughout \cap Open
    BY <1>1, <1>5, AnswerAdds
  <1>7. /\ {m \in dayRead.throughout : Ends(m) < dayRead.since} \subseteq l.needsOutcome
        /\ \A m \in l.needsOutcome : Ends(m) < clock
    BY <1>1, <1>3, <1>4 DEF ReadSoFar
  <1>8. l.needsOutcome \cap l.appointments = {}
    <2> SUFFICES ASSUME NEW m \in l.needsOutcome, m \in Appointments PROVE FALSE
      BY <1>4
    <2>1. Ends(m) < clock /\ Ends(m) >= clock /\ m \in Meeting
      BY <1>2, <1>7 DEF Appointments
    <2>2. Ends(m) \in Nat
      BY <2>1, MyDayAssumption DEF Ends
    <2> QED
      BY <1>2, <2>1, <2>2
  <1>9. {m \in dayRead'.throughout : Day(Starts[m]) = Day(clock) /\ Ends(m) >= clock}
           \subseteq dayRead'.lists.appointments
    BY <1>4, <1>6 DEF Appointments
  <1>10. ReadSoFar(dayRead)'
    <2>1. \E asked \in Nat :
             /\ dayRead'.since <= asked /\ asked <= clock
             /\ {m \in dayRead'.throughout : Day(Starts[m]) = Day(asked) /\ Ends(m) >= asked}
                   \subseteq dayRead'.lists.appointments
      BY <1>2, <1>3, <1>6, <1>9
    <2>2. /\ {m \in dayRead'.throughout : Ends(m) < dayRead'.since} \subseteq dayRead'.lists.needsOutcome
          /\ \A m \in dayRead'.lists.needsOutcome : Ends(m) < clock
      BY <1>6, <1>7
    <2> QED
      BY <1>1, <1>3, <1>6, <1>8, <2>1, <2>2 DEF ReadSoFar, Ends, Day
  <1> QED
    BY <1>1, <1>10 DEF DayKept, ShownOnce, work, Ends, Day

\* The tasks are asked for, both lists at once.
LEMMA TasksKeep == ASSUME DayKept, AskTasks PROVE DayKept'
  <1>1. dayRead.step = 3 /\ UNCHANGED <<clock, work, day>>
    BY DEF AskTasks
  <1>2. clock \in Nat /\ DueNow \subseteq Task /\ DueToday \subseteq Task
    BY DEF DayKept, DueNow, DueToday
  <1>3. dayRead \in ReadingsOfADay /\ dayRead.since <= clock /\ ReadSoFar(dayRead)
    BY <1>1 DEF DayKept, ReadSoFar
  <1>4. PICK l \in ListsOfADay :
            /\ l = [dayRead.lists EXCEPT !.dueNow = DueNow, !.laterToday = DueToday \ DueNow]
            /\ l.appointments = dayRead.lists.appointments
            /\ l.needsOutcome = dayRead.lists.needsOutcome
            /\ l.dueNow \cap l.laterToday = {}
    <2>1. dayRead.lists \in ListsOfADay
      BY <1>3 DEF ReadingsOfADay
    <2>2. PICK S \in SUBSET Task : S = DueNow
      BY <1>2
    <2>3. PICK T \in SUBSET Task : T = DueToday \ DueNow
      BY <1>2
    <2>4. PICK l : l = [dayRead.lists EXCEPT !.dueNow = S, !.laterToday = T]
      OBVIOUS
    <2>5. l \in ListsOfADay
      BY <2>1, <2>4 DEF ListsOfADay
    <2>6. /\ l.dueNow = S /\ l.laterToday = T /\ l.needsOutcome = dayRead.lists.needsOutcome
          /\ l.appointments = dayRead.lists.appointments
      BY <2>1, <2>4 DEF ListsOfADay
    <2> QED
      BY <2>2, <2>3, <2>4, <2>5, <2>6
  <1>5. Advance(l)
    BY <1>4 DEF AskTasks
  <1>6. /\ dayRead' \in ReadingsOfADay /\ dayRead'.step = 4
        /\ dayRead'.lists = l /\ dayRead'.since = dayRead.since
        /\ dayRead'.throughout \subseteq dayRead.throughout
    BY <1>1, <1>5, AnswerAdds
  <1>7. /\ {m \in dayRead.throughout : Ends(m) < dayRead.since} \subseteq l.needsOutcome
        /\ \A m \in l.needsOutcome : Ends(m) < clock
        /\ l.needsOutcome \cap l.appointments = {}
    BY <1>1, <1>3, <1>4 DEF ReadSoFar
  <1>8. PICK asked \in Nat :
             /\ dayRead.since <= asked /\ asked <= clock
             /\ {m \in dayRead.throughout : Day(Starts[m]) = Day(asked) /\ Ends(m) >= asked}
                   \subseteq l.appointments
    BY <1>1, <1>3, <1>4 DEF ReadSoFar
  <1>9. ReadSoFar(dayRead)'
    <2>1. \E a \in Nat :
             /\ dayRead'.since <= a /\ a <= clock
             /\ {m \in dayRead'.throughout : Day(Starts[m]) = Day(a) /\ Ends(m) >= a}
                   \subseteq dayRead'.lists.appointments
      BY <1>6, <1>8
    <2>2. /\ {m \in dayRead'.throughout : Ends(m) < dayRead'.since} \subseteq dayRead'.lists.needsOutcome
          /\ \A m \in dayRead'.lists.needsOutcome : Ends(m) < clock
      BY <1>6, <1>7
    <2> QED
      BY <1>1, <1>3, <1>4, <1>6, <1>7, <2>1, <2>2 DEF ReadSoFar, Ends, Day
  <1> QED
    BY <1>1, <1>9 DEF DayKept, ShownOnce, work, Ends, Day

\* The day is drawn.
LEMMA DrawnKeeps == ASSUME DayKept, Drawn PROVE DayKept'
  <1>1. /\ dayRead.step = 4 /\ dayRead' = [step |-> 0] /\ UNCHANGED <<clock, work>>
        /\ day' = [lists |-> dayRead.lists, since |-> dayRead.since, until |-> clock,
                   throughout |-> dayRead.throughout \cap Open]
    BY DEF Drawn
  <1>2. dayRead \in ReadingsOfADay /\ dayRead.since <= clock /\ ReadSoFar(dayRead) /\ clock \in Nat
    BY <1>1 DEF DayKept, ReadSoFar
  <1>3. /\ dayRead.lists \in ListsOfADay /\ dayRead.since \in Nat
        /\ dayRead.throughout \in SUBSET Meeting
    BY <1>2 DEF ReadingsOfADay
  <1>4. /\ day' \in Drawings /\ day'.lists = dayRead.lists /\ day'.since = dayRead.since
        /\ day'.until = clock /\ day'.throughout \subseteq dayRead.throughout
    BY <1>1, <1>2, <1>3 DEF Drawings
  <1>5. /\ {m \in dayRead.throughout : Ends(m) < dayRead.since} \subseteq dayRead.lists.needsOutcome
        /\ dayRead.lists.needsOutcome \cap dayRead.lists.appointments = {}
        /\ dayRead.lists.dueNow \cap dayRead.lists.laterToday = {}
    BY <1>1, <1>2 DEF ReadSoFar
  <1>6. PICK asked \in Nat :
             /\ dayRead.since <= asked /\ asked <= clock
             /\ {m \in dayRead.throughout : Day(Starts[m]) = Day(asked) /\ Ends(m) >= asked}
                   \subseteq dayRead.lists.appointments
    BY <1>1, <1>2 DEF ReadSoFar
  <1>7. ASSUME NEW m \in dayRead.throughout, Day(Starts[m]) = Day(dayRead.since),
               Day(dayRead.since) = Day(clock), Ends(m) >= clock
        PROVE  m \in dayRead.lists.appointments
    <2>1. Day(dayRead.since) <= Day(asked) /\ Day(asked) <= Day(clock)
          /\ Day(asked) \in Nat /\ Day(clock) \in Nat
      BY <1>2, <1>3, <1>6, DaysPass
    <2>2. Day(asked) = Day(clock)
      BY <1>7, <2>1
    <2>3. Ends(m) \in Nat
      BY <1>3, MyDayAssumption DEF Ends
    <2>4. Ends(m) >= asked
      BY <1>2, <1>6, <1>7, <2>3
    <2> QED
      BY <1>6, <1>7, <2>2, <2>4
  <1>8. ShownOnce'
    <2>1. /\ {m \in day'.throughout : Ends(m) < day'.since} \subseteq day'.lists.needsOutcome
          /\ {m \in day'.throughout : /\ Day(Starts[m]) = Day(day'.since)
                                      /\ Day(day'.since) = Day(day'.until)
                                      /\ Ends(m) >= day'.until} \subseteq day'.lists.appointments
      BY <1>4, <1>5, <1>7
    <2> QED
      BY <1>4, <1>5, <2>1 DEF ShownOnce, Ends, Day
  <1> QED
    BY <1>1, <1>2, <1>4, <1>8 DEF DayKept, work

\* Every step of the day keeps what is known of it.
LEMMA DayKeptStep == DayKept /\ [MyDayNext]_myDayVars => DayKept'
  <1> SUFFICES ASSUME DayKept, [MyDayNext]_myDayVars PROVE DayKept'
    OBVIOUS
  <1>1. CASE Began \/ AskNeedsOutcome \/ AskAppointments \/ AskTasks \/ Drawn
    BY <1>1, BeganKeeps, OutcomesKeep, AppointmentsKeep, TasksKeep, DrawnKeeps
  <1>2. clock \in 0..EndOfTime /\ clock \in Nat /\ settled \subseteq booked /\ booked \subseteq Meeting
        /\ completed \subseteq planned /\ planned \subseteq Task /\ EndOfTime \in Nat
    BY MyDayAssumption DEF DayKept
  <1>3. CASE ClockTicks
    BY <1>2, <1>3, ReadingLasts DEF ClockTicks, work
  <1>4. CASE \E m \in Meeting : Book(m) \/ Settle(m)
    BY <1>2, <1>4, ReadingLasts DEF Book, Settle, Open
  <1>5. CASE \E t \in Task : Plan(t) \/ Complete(t)
    BY <1>2, <1>5, ReadingLasts DEF Plan, Complete
  <1>6. CASE UNCHANGED myDayVars
    BY <1>2, <1>6, ReadingLasts DEF myDayVars, work
  <1> QED
    BY <1>1, <1>3, <1>4, <1>5, <1>6 DEF MyDayNext

\* A day shows an appointment in one list, and in the one it belongs to,
\* whatever happens between the statements that read it (api/my-day.ts:32).
THEOREM ADayIsShownOnce == MyDaySpec => [](MyDayTypeOK /\ ShownOnce)
  <1>1. DayKept => MyDayTypeOK /\ ShownOnce
    BY DEF DayKept, MyDayTypeOK, ReadSoFar, ReadingsOfADay
  <1> QED
    BY <1>1, DayKeptInit, DayKeptStep, PTL DEF MyDaySpec

----------------------------------------------------------------------------
\* What the unique index leaves of a phone's contacts: none or one.
LEMMA BookStep ==
    ASSUME book \in [Phone -> {0, 1}], [SearchNext]_searchVars
    PROVE  book' \in [Phone -> {0, 1}]
  <1>1. CASE \E i \in DOMAIN posts : ServerAdds(i)
    <2>1. PICK i \in DOMAIN posts : ServerAdds(i)
      BY <1>1
    <2>2. CASE QuickAddResult(posts[i]) = "created"
      <3>1. ~(book[posts[i].phone] > 0)
        BY <2>2 DEF QuickAddResult
      <3>2. book' = [book EXCEPT ![posts[i].phone] = book[posts[i].phone] + 1]
        BY <2>1, <2>2 DEF ServerAdds
      <3>3. CASE posts[i].phone \in Phone
        <4>1. book[posts[i].phone] + 1 = 1
          BY <3>1, <3>3
        <4>2. book' = [book EXCEPT ![posts[i].phone] = 1]
          BY <3>2, <4>1
        <4> QED
          BY <3>3, <4>2
      <3>4. CASE posts[i].phone \notin Phone
        BY <3>2, <3>4
      <3> QED
        BY <3>3, <3>4
    <2>3. CASE QuickAddResult(posts[i]) # "created"
      BY <2>1, <2>3 DEF ServerAdds
    <2> QED
      BY <2>2, <2>3
  <1>2. CASE \E i \in DOMAIN posts : QuickAddAnswered(i) \/ AddFailed(i)
    BY <1>2 DEF QuickAddAnswered, AddFailed
  <1>3. CASE \/ Shortcut \/ Escape \/ Backdrop \/ Debounced \/ SearchAnswered \/ Highlight
             \/ AddThisNumber \/ Cancel
    BY <1>3 DEF Shortcut, Escape, Backdrop, Debounced, SearchAnswered, Highlight, AddThisNumber,
                Cancel
  <1>4. CASE Enter \/ OpenExisting \/ \E i \in DOMAIN Hits : ClickHit(i)
    BY <1>4 DEF Enter, OpenExisting, ClickHit, Taken
  <1>5. CASE \/ \E q \in Query : Type(q)
             \/ \E named, byButton \in BOOLEAN : Save(named, byButton)
    BY <1>5 DEF Type, Save
  <1>6. CASE UNCHANGED searchVars
    BY <1>6 DEF searchVars
  <1> QED
    BY <1>1, <1>2, <1>3, <1>4, <1>5, <1>6, Zenon DEF SearchNext

----------------------------------------------------------------------------
\* The rows under the search box.

\* What a query may show.
MayShow(q) == ToSet(InBook[q]) \cup ({q} \cap Phone)

\* The server answers a query with a list of what it may show.
LEMMA MatchingIs ==
    ASSUME NEW q \in Query
    PROVE  Matching(q) \in Seq(MayShow(q))
  <1>1. InBook[q] \in Seq(MayShow(q))
    <2>1. InBook[q] \in Seq(ToSet(InBook[q])) /\ ToSet(InBook[q]) \subseteq MayShow(q)
      BY SearchAssumption DEF MayShow
    <2> QED
      BY <2>1
  <1>2. ASSUME q \in Phone PROVE <<q>> \in Seq(MayShow(q))
    BY <1>2 DEF MayShow
  <1>3. <<>> \in Seq(MayShow(q))
    OBVIOUS
  <1> QED
    BY <1>1, <1>2, <1>3, ConcatProperties DEF Matching

AnsweredRow(a) == a.forQuery \in Query /\ a.hits \in Seq(MayShow(a.forQuery))

SearchKept ==
    /\ SearchTypeOK
    /\ fetching # Null => fetching.query \in Query
    /\ answer # Null => AnsweredRow(answer)

\* The rows are a list of what the box may show.
LEMMA RowsAre ==
    ASSUME SearchKept
    PROVE  /\ Hits \in Seq(MayShow(query)) /\ Len(Hits) \in Nat
           /\ Hits # <<>> => Len(Hits) \in Nat \ {0}
           /\ ToSet(Hits) \subseteq MayShow(query)
  <1>1. Hits \in Seq(MayShow(query))
    BY DEF Hits, Current, SearchKept, AnsweredRow
  <1> QED
    BY <1>1, LenProperties, ElementOfSeq DEF ToSet

\* The overlay is closed with nothing in it.
LEMMA SearchKeptInit == SearchInit => SearchKept
  <1> SUFFICES ASSUME SearchInit PROVE SearchKept
    OBVIOUS
  <1>1. fetching = Null /\ answer = Null
    BY DEF SearchInit
  <1>2. open \in BOOLEAN /\ saving \in BOOLEAN
    BY DEF SearchInit
  <1>3. query \in Query /\ highlight \in Nat
    BY SearchAssumption DEF SearchInit
  <1>4. /\ quickAdding \in Phone \cup {Null} /\ book \in [Phone -> Nat]
        /\ activeElement \in {"page", "input", "name", "body"}
    BY DEF SearchInit
  <1> QED
    BY <1>1, <1>2, <1>3, <1>4, Zenon DEF SearchKept, SearchTypeOK

\* The overlay closes, wherever the focus goes.
LEMMA ClosedKeeps ==
    ASSUME SearchKept, Closed, book' \in [Phone -> Nat]
    PROVE  SearchKept'
  BY SearchAssumption DEF SearchKept, SearchTypeOK, Closed

\* The box, the rows and their highlight.
LEMMA OverlayKeeps ==
    ASSUME SearchKept, \/ Shortcut \/ Debounced \/ SearchAnswered \/ Highlight
                       \/ \E q \in Query : Type(q)
    PROVE  SearchKept'
  <1>1. CASE Shortcut
    BY <1>1 DEF Shortcut, SearchKept, SearchTypeOK, sheetVars
  <1>2. CASE Debounced
    <2>1. fetching # Null /\ fetching' = [fetching EXCEPT !.phase = "sent"]
      BY <1>2 DEF Debounced
    <2>2. fetching'.query = fetching.query
      BY <2>1
    <2> QED
      BY <1>2, <2>1, <2>2 DEF Debounced, SearchKept, SearchTypeOK, sheetVars
  <1>3. CASE SearchAnswered
    <2>1. fetching.query \in Query /\ answer' \in SearchAnswers(fetching.query)
      BY <1>3 DEF SearchAnswered, SearchKept
    <2>2. AnsweredRow(answer')
      <3>1. answer'.forQuery = fetching.query
        BY <2>1 DEF SearchAnswers
      <3>2. answer'.hits = Matching(fetching.query) \/ answer'.hits = <<>>
        BY <2>1 DEF SearchAnswers
      <3>3. answer'.hits \in Seq(MayShow(fetching.query))
        <4>1. <<>> \in Seq(MayShow(fetching.query))
          OBVIOUS
        <4> QED
          BY <2>1, <3>2, <4>1, MatchingIs
      <3> QED
        BY <2>1, <3>1, <3>3 DEF AnsweredRow
    <2> QED
      BY <1>3, <2>2 DEF SearchAnswered, SearchKept, SearchTypeOK, sheetVars, AnsweredRow, MayShow
  <1>4. CASE Highlight
    <2>1. highlight \in Nat /\ Len(Hits) \in Nat \ {0}
      BY <1>4, RowsAre DEF Highlight, SearchKept, SearchTypeOK
    <2>2. highlight' \in Nat
      BY <1>4, <2>1 DEF Highlight
    <2> QED
      BY <1>4, <2>2 DEF Highlight, SearchKept, SearchTypeOK, sheetVars
  <1>5. CASE \E q \in Query : Type(q)
    <2>1. PICK q \in Query : Type(q)
      BY <1>5
    <2>2. fetching' # Null => fetching'.query \in Query
      BY <2>1 DEF Type
    <2> QED
      BY <2>1, <2>2 DEF Type, SearchKept, SearchTypeOK, sheetVars
  <1> QED
    BY <1>1, <1>2, <1>3, <1>4, <1>5

\* The sheet, and the ways out of the overlay.
LEMMA SheetKeeps ==
    ASSUME SearchKept, book' \in [Phone -> Nat],
           \/ Escape \/ Backdrop \/ Enter \/ OpenExisting \/ \E i \in DOMAIN Hits : ClickHit(i)
           \/ AddThisNumber \/ Cancel
           \/ \E named, byButton \in BOOLEAN : Save(named, byButton)
           \/ \E i \in DOMAIN posts : ServerAdds(i) \/ QuickAddAnswered(i) \/ AddFailed(i)
    PROVE  SearchKept'
  <1>1. CASE Escape \/ Backdrop \/ Enter \/ OpenExisting \/ \E i \in DOMAIN Hits : ClickHit(i)
    BY <1>1, ClosedKeeps DEF Escape, Backdrop, Enter, OpenExisting, ClickHit, Taken
  <1>2. CASE AddThisNumber \/ Cancel
    BY <1>2 DEF AddThisNumber, Cancel, SearchKept, SearchTypeOK, sheetVars
  <1>3. CASE \E named, byButton \in BOOLEAN : Save(named, byButton)
    BY <1>3 DEF Save, SearchKept, SearchTypeOK, overlayVars
  <1>4. CASE \E i \in DOMAIN posts : ServerAdds(i) \/ AddFailed(i)
    BY <1>4 DEF ServerAdds, AddFailed, SearchKept, SearchTypeOK, overlayVars, sheetVars
  <1>5. CASE \E i \in DOMAIN posts : QuickAddAnswered(i)
    <2>1. \/ Closed
          \/ saving' = FALSE /\ UNCHANGED overlayVars
      BY <1>5 DEF QuickAddAnswered
    <2> QED
      BY <2>1, ClosedKeeps DEF SearchKept, SearchTypeOK, overlayVars
  <1> QED
    BY <1>1, <1>2, <1>3, <1>4, <1>5

\* Every step of the overlay and its sheet keeps what is known of them.
LEMMA SearchKeptStep ==
    ASSUME SearchKept, book \in [Phone -> {0, 1}], [SearchNext]_searchVars
    PROVE  SearchKept'
  <1>1. book' \in [Phone -> Nat]
    <2>1. book' \in [Phone -> {0, 1}]
      BY BookStep
    <2> QED
      BY <2>1
  <1>2. CASE UNCHANGED searchVars
    BY <1>2 DEF searchVars, overlayVars, sheetVars, SearchKept, SearchTypeOK
  <1> QED
    BY <1>1, <1>2, OverlayKeeps, SheetKeeps DEF SearchNext

\* However often, and from however many sheets, a phone is saved, it is one
\* contact (routes/api/quick-add.ts:19-30).
THEOREM OneLeadHoweverOften == SearchSpec => []OneLeadPerPhone
  <1>1. SearchInit => book \in [Phone -> {0, 1}]
    BY DEF SearchInit
  <1>2. book \in [Phone -> {0, 1}] /\ [SearchNext]_searchVars => (book \in [Phone -> {0, 1}])'
    BY BookStep
  <1>3. book \in [Phone -> {0, 1}] => OneLeadPerPhone
    <2> SUFFICES ASSUME book \in [Phone -> {0, 1}], NEW p \in Phone PROVE book[p] <= 1
      BY DEF OneLeadPerPhone
    <2>1. book[p] \in {0, 1}
      OBVIOUS
    <2> QED
      BY <2>1
  <1> QED
    BY <1>1, <1>2, <1>3, PTL DEF SearchSpec

\* Rows are drawn only under the query they answer, whatever is typed while one
\* is being searched for (search-overlay.tsx:35-45).
THEOREM RowsAreOfTheBox == SearchSpec => [](SearchTypeOK /\ RowsMatchTheBox)
  <1>1. SearchInit => book \in [Phone -> {0, 1}]
    BY DEF SearchInit
  <1>2. SearchKept => SearchTypeOK /\ RowsMatchTheBox
    BY RowsAre DEF SearchKept, RowsMatchTheBox, MayShow
  <1>3. SearchKept /\ book \in [Phone -> {0, 1}] /\ [SearchNext]_searchVars =>
           SearchKept' /\ (book \in [Phone -> {0, 1}])'
    BY BookStep, SearchKeptStep
  <1> QED
    BY <1>1, <1>2, <1>3, SearchKeptInit, PTL DEF SearchSpec

----------------------------------------------------------------------------
\* How a lead looks.

Worked == [stage : {"open", "earning", "lost"}, entered : Date, created : Date,
           activity : Date \cup {Never}, human : Date \cup {Never}, attempts : {0}]

\* What is in the database of a deal is of today or before.
LeadKept ==
    /\ today \in Date /\ doings \in 0..MaxWork
    /\ dealt \in [Deal -> Worked \cup {Never}]
    /\ overdueFrom \in [Deal -> Date \cup {Never}]
    /\ \A d \in Started : /\ dealt[d].entered <= today
                          /\ dealt[d].activity # Never => dealt[d].activity <= today
                          /\ dealt[d].created <= today

LEMMA LeadKeptInit == LeadInit => LeadKept
  BY LeadAssumption DEF LeadInit, LeadKept, Started, Date

\* A step that touches no deal but one, and that one not before today.
LEMMA LeadKeptStep == LeadKept /\ [LeadNext]_leadVars => LeadKept'
  <1> SUFFICES ASSUME LeadKept, [LeadNext]_leadVars PROVE LeadKept'
    OBVIOUS
  <1>0. /\ doings \in 0..MaxWork /\ MaxWork \in Nat /\ LastDay \in Nat /\ today \in Date
        /\ Works => doings' \in 0..MaxWork
    BY LeadAssumption DEF LeadKept, Works
  <1>1. CASE DayPasses
    <2>1. today' = today + 1 /\ dealt' = dealt /\ overdueFrom' = overdueFrom /\ doings' = doings
          /\ today < LastDay
      BY <1>1 DEF DayPasses
    <2>2. \A d \in Started : /\ dealt[d].entered \in Date /\ dealt[d].created \in Date
                             /\ dealt[d].activity \in Date \cup {Never}
      BY DEF LeadKept, Started, Worked
    <2> QED
      BY <1>0, <2>1, <2>2 DEF LeadKept, Started, Date
  <1>2. CASE NoteLogged \/ UNCHANGED leadVars
    BY <1>0, <1>2 DEF NoteLogged, leadVars, LeadKept, Started
  <1>3. ASSUME NEW d \in Deal, DealStarted(d) PROVE LeadKept'
    <2>1. PICK new : new = [stage |-> "open", entered |-> today, created |-> today,
                            activity |-> Never, human |-> Never, attempts |-> 0]
      OBVIOUS
    <2>2. dealt' = [dealt EXCEPT ![d] = new] /\ UNCHANGED <<today, overdueFrom>>
          /\ doings' \in 0..MaxWork
      BY <1>0, <1>3, <2>1 DEF DealStarted
    <2>3. /\ new \in Worked /\ new.entered = today /\ new.created = today /\ new.activity = Never
      BY <2>1 DEF LeadKept, Worked
    <2> QED
      BY <1>0, <2>2, <2>3 DEF LeadKept, Started, Date
  <1>4. ASSUME NEW d \in Deal, NEW type \in {"open", "earning", "lost"}, Moved(d, type)
        PROVE  LeadKept'
    <2>1. d \in Started /\ dealt[d] \in Worked /\ today \in Date /\ doings' \in 0..MaxWork
      BY <1>0, <1>4 DEF Moved, LeadKept, Started
    <2>2. PICK new : new = [dealt[d] EXCEPT !.stage = type, !.entered = today]
      OBVIOUS
    <2>3. dealt' = [dealt EXCEPT ![d] = new] /\ UNCHANGED <<today, overdueFrom>>
      BY <1>4, <2>1, <2>2 DEF Moved, LeadKept
    <2>4. /\ new \in Worked /\ new.entered = today /\ new.created = dealt[d].created
          /\ new.activity = dealt[d].activity
      BY <2>1, <2>2 DEF Worked
    <2> QED
      BY <1>0, <2>1, <2>3, <2>4 DEF LeadKept, Started, Date
  <1>5. ASSUME NEW d \in Deal, NEW human \in BOOLEAN, touch_from_row(d, human) PROVE LeadKept'
    <2>1. d \in Started /\ dealt[d] \in Worked /\ today \in Date /\ doings' \in 0..MaxWork
      BY <1>0, <1>5 DEF touch_from_row, LeadKept, Started
    <2>2. PICK h \in Date \cup {Never} : h = IF human THEN today ELSE dealt[d].human
      BY <2>1 DEF Worked
    <2>3. PICK new : new = [dealt[d] EXCEPT !.activity = today, !.human = h]
      OBVIOUS
    <2>4. dealt' = [dealt EXCEPT ![d] = new] /\ today' = today
      BY <1>5, <2>1, <2>2, <2>3 DEF touch_from_row, LeadKept, Worked
    <2>5. overdueFrom' \in [Deal -> Date \cup {Never}]
      BY <1>5 DEF touch_from_row, LeadKept
    <2>6. /\ new \in Worked /\ new.entered = dealt[d].entered /\ new.created = dealt[d].created
          /\ new.activity = today
      BY <2>1, <2>2, <2>3 DEF Worked
    <2>7. /\ dealt' \in [Deal -> Worked \cup {Never}] /\ dealt'[d] = new
          /\ \A e \in Deal : e # d => dealt'[e] = dealt[e]
      BY <2>1, <2>4, <2>6 DEF LeadKept, Started
    <2>8. \A e \in Started' : /\ dealt'[e].entered <= today
                              /\ dealt'[e].activity # Never => dealt'[e].activity <= today
                              /\ dealt'[e].created <= today
      BY <1>0, <2>1, <2>6, <2>7 DEF LeadKept, Started, Date
    <2> QED
      BY <2>1, <2>4, <2>5, <2>7, <2>8 DEF LeadKept
  <1>6. ASSUME NEW d \in Deal, Scheduled(d) PROVE LeadKept'
    BY <1>0, <1>6 DEF Scheduled, LeadKept, Started
  <1> QED
    BY <1>1, <1>2, <1>3, <1>4, <1>5, <1>6 DEF LeadNext

\* The rail and the chip are drawn from the same days, so whatever is done and
\* however time passes, they say the same of a lead (card-health.ts:140-141).
LEMMA TheyAgree == LeadKept => RailAndChipAgree
  <1> SUFFICES ASSUME LeadKept, NEW d \in Started
               PROVE  /\ signalOf(d) = "going_cold" <=>
                            railFill(d) = [colour |-> "cold", filled |-> COLD] /\ ~signalsSuppressed(d)
                      /\ railFill(d).colour = "fresh" => signalOf(d) = "fresh"
                      /\ signalOf(d) = "fresh" => railFill(d).colour \in {"fresh", "blocked"}
                      /\ railFill(d).colour = "cold" => dealt[d].stage = "open"
    BY DEF RailAndChipAgree
  <1>1. COLD \in Nat /\ days_untouched(d) \in Nat
    <2>1. /\ dealt[d] \in Worked /\ dealt[d].entered <= today
          /\ dealt[d].activity # Never => dealt[d].activity <= today
      BY DEF LeadKept, Started
    <2> QED
      BY <2>1, LeadAssumption DEF LeadKept, Worked, Date, days_untouched
  <1> QED
    BY <1>1 DEF signalOf, railFill, healthOf, decayOf, signalsSuppressed

LEMMA LeadsAreTyped == LeadKept => LeadTypeOK
  <1> SUFFICES ASSUME LeadKept, NEW d \in Deal
               PROVE  /\ dealt[d] # Never => dealt[d] \in Worked
                      /\ overdueFrom[d] \in Date \cup {Never}
    BY DEF LeadKept, LeadTypeOK, Worked
  <1> QED
    BY DEF LeadKept

\* The rail and the chip of a card say the same of its lead, whatever is done
\* about it and however long it is left (card-health.ts:140-141).
THEOREM RailAndChipAreOne == LeadSpec => [](LeadTypeOK /\ RailAndChipAgree)
  BY LeadKeptInit, LeadKeptStep, TheyAgree, LeadsAreTyped, PTL DEF LeadSpec

----------------------------------------------------------------------------
\* Where a seller stands.

FirstOf(rows, k) == {rows[i] : i \in 1..k}
OnceEach(rows)   == \A i, j \in DOMAIN rows : rows[i] = rows[j] => i = j

\* The first k rows of a list without repetitions are k.
LEMMA FirstRows ==
    ASSUME NEW S, NEW n \in Nat, NEW rows \in [1..n -> S], NEW k \in 0..n,
           OnceEach(rows)
    PROVE  IsFiniteSet(FirstOf(rows, k)) /\ Cardinality(FirstOf(rows, k)) = k
  <1> DEFINE T == FirstOf(rows, k)
             f == [i \in 1..k |-> rows[i]]
  <1>1. IsFiniteSet(1..k) /\ Cardinality(1..k) = k
    <2>1. /\ IsFiniteSet(1..k)
          /\ Cardinality(1..k) = IF 1 > k THEN 0 ELSE k - 1 + 1
      BY FS_Interval
    <2> QED
      BY <2>1
  <1>2. f \in Surjection(1..k, T)
    BY DEF Surjection, FirstOf
  <1>3. f \in Injection(1..k, T)
    <2>1. f \in [1..k -> T]
      BY DEF FirstOf
    <2>2. ASSUME NEW i \in 1..k, NEW j \in 1..k, rows[i] = rows[j] PROVE i = j
      <3>1. i \in DOMAIN rows /\ j \in DOMAIN rows
        OBVIOUS
      <3> QED
        BY <2>2, <3>1 DEF OnceEach
    <2> QED
      BY <2>1, <2>2 DEF Injection, IsInjective
  <1> HIDE DEF f, T
  <1>4. IsFiniteSet(T) /\ Cardinality(T) = Cardinality(1..k)
    BY <1>1, <1>2, <1>3, FS_Surjection
  <1> QED
    BY <1>1, <1>4 DEF T

\* The sellers are as many as the places of the roster.
LEMMA PlacesAre ==
    /\ Len(Roster) \in Nat /\ DOMAIN Roster = 1..Len(Roster)
    /\ IsFiniteSet(OnBoard) /\ Cardinality(OnBoard) = Len(Roster)
    /\ \A s \in OnBoard : Place(s) \in 1..Len(Roster) /\ Roster[Place(s)] = s
  <1>1. /\ Len(Roster) \in Nat /\ DOMAIN Roster = 1..Len(Roster)
        /\ Roster \in [1..Len(Roster) -> OnBoard]
    BY StandingAssumption, LenProperties DEF OnBoard
  <1>2. IsFiniteSet(FirstOf(Roster, Len(Roster))) /\ Cardinality(FirstOf(Roster, Len(Roster))) = Len(Roster)
    <2>1. OnceEach(Roster) /\ Len(Roster) \in 0..Len(Roster)
      BY <1>1, StandingAssumption DEF OnceEach
    <2> QED
      BY <1>1, <2>1, FirstRows
  <1>3. \A s \in OnBoard : Place(s) \in 1..Len(Roster) /\ Roster[Place(s)] = s
    BY <1>1 DEF OnBoard, Place
  <1> QED
    BY <1>1, <1>2, <1>3 DEF OnBoard, FirstOf

Totals == [OnBoard -> Int]
Better(t) == {p \in OnBoard \X OnBoard : RanksAbove(t, p[1], p[2])}

\* More, or as much and the smaller id, is an order of the sellers.
LEMMA BetterOrders ==
    ASSUME NEW t \in Totals
    PROVE  /\ Orders(Better(t), OnBoard)
           /\ \A a, b \in OnBoard : <<a, b>> \in Better(t) <=> RanksAbove(t, a, b)
  <1>1. \A a, b \in OnBoard : <<a, b>> \in Better(t) <=> RanksAbove(t, a, b)
    BY DEF Better
  <1>2. \A a \in OnBoard : t[a] \in Int /\ Place(a) \in Int
    BY PlacesAre DEF Totals
  <1>3. \A a, b \in OnBoard : Place(a) = Place(b) => a = b
    BY PlacesAre
  <1>4. Orders(Better(t), OnBoard)
    BY <1>1, <1>2, <1>3 DEF Orders, RanksAbove
  <1> QED
    BY <1>1, <1>4

\* The board lists every seller once, each above those it ranks above.
LEMMA RankingIs ==
    ASSUME NEW t \in Totals
    PROVE  /\ Ranking(t) \in [1..Len(Roster) -> OnBoard]
           /\ \A i, j \in 1..Len(Roster) : i < j => RanksAbove(t, Ranking(t)[i], Ranking(t)[j])
           /\ \A s \in OnBoard : \E i \in 1..Len(Roster) : Ranking(t)[i] = s
           /\ \A i, j \in 1..Len(Roster) : Ranking(t)[i] = Ranking(t)[j] => i = j
  <1>1. PICK rows \in [1..Cardinality(OnBoard) -> OnBoard] : SortedBy(rows, Better(t))
    BY PlacesAre, BetterOrders, CanBeSorted
  <1>2. /\ rows \in [DOMAIN Roster -> OnBoard]
        /\ \A i, j \in DOMAIN rows : i < j => RanksAbove(t, rows[i], rows[j])
    BY <1>1, PlacesAre, BetterOrders DEF SortedBy
  <1>3. /\ Ranking(t) \in [DOMAIN Roster -> OnBoard]
        /\ \A i, j \in DOMAIN Ranking(t) : i < j => RanksAbove(t, Ranking(t)[i], Ranking(t)[j])
    BY <1>2 DEF Ranking
  <1>4. Ranking(t) \in [1..Cardinality(OnBoard) -> OnBoard] /\ SortedBy(Ranking(t), Better(t))
    BY <1>3, PlacesAre, BetterOrders DEF SortedBy
  <1>5. HasAll(Ranking(t), OnBoard)
    BY <1>4, PlacesAre, BetterOrders, SortedHasAll
  <1> QED
    BY <1>3, <1>5, PlacesAre DEF HasAll

\* Who would be above the viewer if it had that much more.
Ahead(t, more) ==
    {s \in OnBoard \ {Viewer} : \/ t[s] > t[Viewer] + more
                                \/ t[s] = t[Viewer] + more /\ Place(s) < Place(Viewer)}

LEMMA RankWithIs ==
    ASSUME NEW t \in Totals, NEW more \in Int, Viewer \in OnBoard
    PROVE  RankWith(t, more) = 1 + Cardinality(Ahead(t, more))
  <1> DEFINE raised == [t EXCEPT ![Viewer] = @ + more]
             T == {s \in OnBoard : raised[s] > raised[Viewer]
                       \/ (raised[s] = raised[Viewer] /\ Place(s) < Place(Viewer))}
  <1>1. raised[Viewer] = t[Viewer] + more /\ \A s \in OnBoard \ {Viewer} : raised[s] = t[s]
    BY DEF Totals
  <1>2. t[Viewer] + more \in Int /\ Place(Viewer) \in Int
    BY PlacesAre DEF Totals
  <1>3. T = Ahead(t, more)
    <2> HIDE DEF raised
    <2> QED
      BY <1>1, <1>2 DEF Ahead
  <1> QED
    BY <1>3 DEF RankWith

\* The board's rows are sellers, each in one row.
LEMMA RowsAreSellers ==
    ASSUME NEW t \in Totals
    PROVE  /\ Len(Roster) \in Nat
           /\ Ranking(t) \in [1..Len(Roster) -> OnBoard]
           /\ OnceEach(Ranking(t))
  <1>1. Len(Roster) \in Nat /\ Ranking(t) \in [1..Len(Roster) -> OnBoard]
    BY RankingIs, PlacesAre
  <1>2. DOMAIN Ranking(t) = 1..Len(Roster)
    BY <1>1
  <1>3. \A i, j \in 1..Len(Roster) : Ranking(t)[i] = Ranking(t)[j] => i = j
    BY RankingIs
  <1>4. OnceEach(Ranking(t))
    BY <1>2, <1>3 DEF OnceEach
  <1> QED
    BY <1>1, <1>4

\* Where the viewer is on the board.
LEMMA ViewersRow ==
    ASSUME NEW t \in Totals, Ranked(Ranking(t))
    PROVE  /\ Viewer \in OnBoard
           /\ Index(Ranking(t), Viewer) \in 1..Len(Roster)
           /\ Ranking(t)[Index(Ranking(t), Viewer)] = Viewer
           /\ Len(Ranking(t)) = Len(Roster) /\ DOMAIN Ranking(t) = 1..Len(Roster)
  <1>1. Ranking(t) \in [1..Len(Roster) -> OnBoard] /\ Len(Roster) \in Nat
    BY RankingIs, PlacesAre
  <1>2. Len(Ranking(t)) = Len(Roster)
    BY <1>1, LenProperties
  <1>3. Index(Ranking(t), Viewer) \in DOMAIN Ranking(t) /\ Ranking(t)[Index(Ranking(t), Viewer)] = Viewer
    BY DEF Ranked, Index
  <1> QED
    BY <1>1, <1>2, <1>3

\* Those above a row have as much or more, those below as much or less and then
\* the larger id.
LEMMA AboveAndBelow ==
    ASSUME NEW t \in Totals, NEW i \in 1..Len(Roster), NEW j \in 1..Len(Roster), i < j
    PROVE  /\ t[Ranking(t)[i]] \in Int /\ t[Ranking(t)[j]] \in Int
           /\ t[Ranking(t)[i]] >= t[Ranking(t)[j]]
           /\ t[Ranking(t)[i]] = t[Ranking(t)[j]] => Place(Ranking(t)[i]) < Place(Ranking(t)[j])
           /\ Ranking(t)[i] # Ranking(t)[j]
  <1> DEFINE rows == Ranking(t)
  <1>1. rows \in [1..Len(Roster) -> OnBoard] /\ RanksAbove(t, rows[i], rows[j]) /\ rows[i] # rows[j]
    <2>1. /\ rows \in [1..Len(Roster) -> OnBoard]
          /\ \A h, k \in 1..Len(Roster) : h < k => RanksAbove(t, rows[h], rows[k])
          /\ \A h, k \in 1..Len(Roster) : rows[h] = rows[k] => h = k
      BY RankingIs
    <2> QED
      BY <2>1, PlacesAre
  <1> HIDE DEF rows
  <1>2. t[rows[i]] \in Int /\ t[rows[j]] \in Int
    BY <1>1 DEF Totals
  <1> QED
    BY <1>1, <1>2 DEF RanksAbove, rows

\* Who is ahead has a row, and not the viewer's.
LEMMA AheadHasARow ==
    ASSUME NEW t \in Totals, Ranked(Ranking(t)), NEW more \in Int, NEW s \in Ahead(t, more)
    PROVE  \E j \in 1..Len(Roster) : Ranking(t)[j] = s /\ j # Index(Ranking(t), Viewer)
  <1>1. s \in OnBoard /\ s # Viewer
    BY DEF Ahead
  <1>2. PICK j \in 1..Len(Roster) : Ranking(t)[j] = s
    BY <1>1, RankingIs
  <1>3. j # Index(Ranking(t), Viewer)
    BY <1>1, <1>2, ViewersRow
  <1> QED
    BY <1>2, <1>3

----------------------------------------------------------------------------
Payloads == {readBoardFor(t, FALSE) : t \in Totals}

\* What a payload holds.
LEMMA ThePayload ==
    ASSUME NEW t \in Totals
    PROVE  LET board == readBoardFor(t, FALSE)
           IN  /\ board.total = t
               /\ board.self = IF Ranked(Ranking(t)) THEN Index(Ranking(t), Viewer) ELSE NoRow
               /\ board.nextUp = nextUpFrom(Ranking(t), t)
               /\ board.lead = leadFrom(Ranking(t), t)
  <1> DEFINE rows == Ranking(t)
  <1> HIDE DEF rows
  <1> QED
    BY DEF readBoardFor, rows

\* Totals and places are numbers, and every row is a seller's.
LEMMA TheNumbers ==
    ASSUME NEW t \in Totals
    PROVE  /\ \A s \in OnBoard : t[s] \in Int /\ Place(s) \in Int
           /\ \A j \in 1..Len(Roster) : Ranking(t)[j] \in OnBoard
  <1>1. \A s \in OnBoard : t[s] \in Int /\ Place(s) \in Int
    BY PlacesAre DEF Totals
  <1>2. \A j \in 1..Len(Roster) : Ranking(t)[j] \in OnBoard
    <2>1. Ranking(t) \in [1..Len(Roster) -> OnBoard]
      BY RankingIs
    <2> QED
      BY <2>1
  <1> QED
    BY <1>1, <1>2

\* A dollar less than the gap passes nobody above: those rows stay ahead.
LEMMA ADollarShort ==
    ASSUME NEW t \in Totals, Ranked(Ranking(t)), NEW more \in Int,
           Index(Ranking(t), Viewer) > 1,
           more = t[Ranking(t)[Index(Ranking(t), Viewer) - 1]] - t[Viewer] - 1,
           t[Ranking(t)[Index(Ranking(t), Viewer) - 1]] # t[Viewer]
    PROVE  RankWith(t, more) = Index(Ranking(t), Viewer)
  <1> DEFINE rows == Ranking(t)
             i    == Index(Ranking(t), Viewer)
  <1>1. /\ Viewer \in OnBoard /\ i \in 1..Len(Roster) /\ rows[i] = Viewer /\ Len(Roster) \in Nat
        /\ rows \in [1..Len(Roster) -> OnBoard] /\ OnceEach(rows)
    BY ViewersRow, RowsAreSellers
  <1>2. /\ \A s \in OnBoard : t[s] \in Int /\ Place(s) \in Int
        /\ \A j \in 1..Len(Roster) : rows[j] \in OnBoard
    BY TheNumbers
  <1>3. \A j, k \in 1..Len(Roster) : j < k =>
            /\ t[rows[j]] >= t[rows[k]]
            /\ t[rows[j]] = t[rows[k]] => Place(rows[j]) < Place(rows[k])
            /\ rows[j] # rows[k]
    BY AboveAndBelow
  <1>4. i > 1 /\ more = t[rows[i - 1]] - t[Viewer] - 1 /\ t[rows[i - 1]] # t[Viewer]
    OBVIOUS
  <1>5. \A s \in Ahead(t, more) : \E j \in 1..Len(Roster) : rows[j] = s /\ j # i
    BY AheadHasARow
  <1> HIDE DEF rows, i
  <1>6. i - 1 \in 1..Len(Roster) /\ t[rows[i - 1]] > t[Viewer]
    <2>1. i - 1 \in 1..Len(Roster) /\ i - 1 < i
      BY <1>1, <1>4
    <2>2. t[rows[i - 1]] >= t[Viewer]
      BY <1>1, <1>3, <2>1
    <2>3. t[rows[i - 1]] \in Int /\ t[Viewer] \in Int
      BY <1>1, <1>2, <2>1
    <2> QED
      BY <1>4, <2>1, <2>2, <2>3
  <1>7. ASSUME NEW j \in 1..Len(Roster) PROVE j < i => rows[j] \in Ahead(t, more)
    <2>1. SUFFICES ASSUME j < i PROVE rows[j] \in Ahead(t, more)
      OBVIOUS
    <2>2. t[rows[j]] >= t[rows[i - 1]]
      <3>1. CASE j = i - 1
        BY <1>2, <3>1
      <3>2. CASE j # i - 1
        BY <1>1, <1>3, <1>6, <2>1, <3>2
      <3> QED
        BY <3>1, <3>2
    <2>3. rows[j] \in OnBoard \ {Viewer}
      BY <1>1, <1>2, <1>3, <2>1
    <2>4. t[rows[j]] > t[Viewer] + more
      <3>1. t[rows[j]] \in Int /\ t[Viewer] \in Int /\ t[rows[i - 1]] \in Int
        BY <1>1, <1>2, <1>6
      <3> QED
        BY <1>4, <2>2, <3>1
    <2> QED
      BY <2>3, <2>4 DEF Ahead
  <1>8. ASSUME NEW s \in Ahead(t, more) PROVE s \in FirstOf(rows, i - 1)
    <2>1. PICK j \in 1..Len(Roster) : rows[j] = s /\ j # i
      BY <1>5
    <2>2. \/ t[s] > t[Viewer] + more
          \/ t[s] = t[Viewer] + more /\ Place(s) < Place(Viewer)
      BY DEF Ahead
    <2>3. t[Viewer] + more >= t[Viewer]
      BY <1>1, <1>2, <1>4, <1>6
    <2>4. ~(i < j)
      <3>1. SUFFICES ASSUME i < j PROVE FALSE
        OBVIOUS
      <3>2. t[Viewer] >= t[s] /\ (t[Viewer] = t[s] => Place(Viewer) < Place(s))
        BY <1>1, <1>3, <2>1, <3>1
      <3> QED
        BY <1>1, <1>2, <2>1, <2>2, <2>3, <3>2
    <2>5. j \in 1..(i - 1)
      BY <1>1, <2>1, <2>4
    <2> QED
      BY <2>1, <2>5 DEF FirstOf
  <1>9. Ahead(t, more) = FirstOf(rows, i - 1)
    <2>1. \A j \in 1..(i - 1) : rows[j] \in Ahead(t, more)
      BY <1>1, <1>7
    <2> QED
      BY <1>8, <2>1 DEF FirstOf
  <1>10. i - 1 \in 0..Len(Roster)
    BY <1>1
  <1>11. Cardinality(FirstOf(rows, i - 1)) = i - 1
    BY <1>1, <1>10, FirstRows
  <1>12. RankWith(t, more) = i
    BY <1>1, <1>9, <1>11, RankWithIs
  <1> QED
    BY <1>12 DEF i

\* A dollar more than the gap passes the row above.
LEMMA ADollarMore ==
    ASSUME NEW t \in Totals, Ranked(Ranking(t)), NEW more \in Int,
           Index(Ranking(t), Viewer) > 1,
           more = t[Ranking(t)[Index(Ranking(t), Viewer) - 1]] - t[Viewer] + 1
    PROVE  RankWith(t, more) < Index(Ranking(t), Viewer)
  <1> DEFINE rows == Ranking(t)
             i    == Index(Ranking(t), Viewer)
  <1>1. /\ Viewer \in OnBoard /\ i \in 1..Len(Roster) /\ rows[i] = Viewer /\ Len(Roster) \in Nat
        /\ rows \in [1..Len(Roster) -> OnBoard] /\ OnceEach(rows)
    BY ViewersRow, RowsAreSellers
  <1>2. /\ \A s \in OnBoard : t[s] \in Int /\ Place(s) \in Int
        /\ \A j \in 1..Len(Roster) : rows[j] \in OnBoard
    BY TheNumbers
  <1>3. \A j, k \in 1..Len(Roster) : j < k => t[rows[j]] >= t[rows[k]]
    BY AboveAndBelow
  <1>4. i > 1 /\ more = t[rows[i - 1]] - t[Viewer] + 1
    OBVIOUS
  <1>5. \A s \in Ahead(t, more) : \E j \in 1..Len(Roster) : rows[j] = s /\ j # i
    BY AheadHasARow
  <1> HIDE DEF rows, i
  <1>6. i - 1 \in 1..Len(Roster) /\ i - 2 \in 0..Len(Roster)
    BY <1>1, <1>4
  <1>7. ASSUME NEW s \in Ahead(t, more) PROVE s \in FirstOf(rows, i - 2)
    <2>1. PICK j \in 1..Len(Roster) : rows[j] = s /\ j # i
      BY <1>5
    <2>2. t[s] >= t[Viewer] + more /\ s \in OnBoard
      BY <1>1, <1>2 DEF Ahead
    <2>3. t[s] > t[rows[i - 1]]
      <3>1. t[s] \in Int /\ t[Viewer] \in Int /\ t[rows[i - 1]] \in Int
        BY <1>1, <1>2, <1>6, <2>2
      <3> QED
        BY <1>4, <2>2, <3>1
    <2>4. ~(i - 1 <= j)
      <3>1. SUFFICES ASSUME i - 1 <= j PROVE FALSE
        OBVIOUS
      <3>2. t[rows[i - 1]] >= t[rows[j]]
        <4>1. CASE j = i - 1
          BY <1>2, <2>1, <4>1
        <4>2. CASE j # i - 1
          <5>1. i - 1 < j
            BY <1>1, <2>1, <3>1, <4>2
          <5> QED
            BY <1>3, <1>6, <2>1, <5>1
        <4> QED
          BY <4>1, <4>2
      <3>3. t[s] \in Int /\ t[rows[i - 1]] \in Int
        BY <1>2, <1>6, <2>2
      <3> QED
        BY <2>1, <2>3, <3>2, <3>3
    <2>5. j \in 1..(i - 2)
      BY <1>1, <1>6, <2>4
    <2> QED
      BY <2>1, <2>5 DEF FirstOf
  <1>8. IsFiniteSet(FirstOf(rows, i - 2)) /\ Cardinality(FirstOf(rows, i - 2)) = i - 2
    BY <1>1, <1>6, FirstRows
  <1>9. Cardinality(Ahead(t, more)) <= i - 2
    <2>1. Ahead(t, more) \in SUBSET FirstOf(rows, i - 2)
      BY <1>7
    <2> QED
      BY <1>8, <2>1, FS_Subset
  <1>10. Cardinality(Ahead(t, more)) \in Nat
    <2>1. Ahead(t, more) \in SUBSET OnBoard
      BY DEF Ahead
    <2>2. IsFiniteSet(Ahead(t, more))
      BY <2>1, PlacesAre, FS_Subset
    <2> QED
      BY <2>2, FS_CardinalityType
  <1>11. RankWith(t, more) < i
    BY <1>1, <1>9, <1>10, RankWithIs
  <1> QED
    BY <1>11 DEF i

\* The leader is ahead of everybody by the distance to the second row.
LEMMA TheLeadersMargin ==
    ASSUME NEW t \in Totals, Ranked(Ranking(t)), NEW lead \in Int,
           Index(Ranking(t), Viewer) = 1, Len(Roster) # 1,
           lead = t[Viewer] - t[Ranking(t)[2]],
           NEW less \in Int, less = 1 - lead, NEW worse \in Int, worse = -1 - lead
    PROVE  RankWith(t, less) = 1 /\ RankWith(t, worse) > 1
  <1> DEFINE rows == Ranking(t)
  <1>1. /\ Viewer \in OnBoard /\ 1 \in 1..Len(Roster) /\ rows[1] = Viewer /\ Len(Roster) \in Nat
    BY ViewersRow, PlacesAre
  <1>2. /\ \A s \in OnBoard : t[s] \in Int /\ Place(s) \in Int
        /\ \A j \in 1..Len(Roster) : rows[j] \in OnBoard
    BY TheNumbers
  <1>3. \A j, k \in 1..Len(Roster) : j < k => t[rows[j]] >= t[rows[k]] /\ rows[j] # rows[k]
    BY AboveAndBelow
  <1>4. lead = t[Viewer] - t[rows[2]]
    OBVIOUS
  <1>5. \A more \in Int : \A s \in Ahead(t, more) : \E j \in 1..Len(Roster) : rows[j] = s /\ j # 1
    BY AheadHasARow
  <1> HIDE DEF rows
  <1>6. 2 \in 1..Len(Roster)
    <2>1. PICK n \in Nat : n = Len(Roster)
      BY <1>1
    <2>2. n >= 1 /\ n # 1
      BY <1>1, <2>1
    <2>3. 2 \in 1..n
      BY <2>2
    <2> QED
      BY <2>1, <2>3
  <1>7. ASSUME NEW s \in Ahead(t, less) PROVE FALSE
    <2>1. PICK j \in 1..Len(Roster) : rows[j] = s /\ j # 1
      BY <1>5
    <2>2. t[s] >= t[Viewer] + less /\ t[s] \in Int /\ t[Viewer] \in Int /\ t[rows[2]] \in Int
      BY <1>1, <1>2, <1>6 DEF Ahead
    <2>3. t[rows[2]] >= t[s]
      <3>1. CASE j = 2
        BY <2>1, <2>2, <3>1
      <3>2. CASE j # 2
        BY <1>1, <1>3, <1>6, <2>1, <3>2
      <3> QED
        BY <3>1, <3>2
    <2> QED
      BY <1>4, <2>2, <2>3
  <1>8. Ahead(t, less) = {}
    BY <1>7
  <1>9. RankWith(t, less) = 1 + Cardinality(Ahead(t, less)) /\ RankWith(t, worse) = 1 + Cardinality(Ahead(t, worse))
    BY <1>1, RankWithIs
  <1>10. rows[2] \in Ahead(t, worse)
    <2>1. rows[2] \in OnBoard \ {Viewer}
      BY <1>1, <1>2, <1>3, <1>6
    <2>2. t[rows[2]] \in Int /\ t[Viewer] \in Int
      BY <1>1, <1>2, <1>6
    <2>3. t[rows[2]] > t[Viewer] + worse
      BY <1>4, <2>2
    <2> QED
      BY <2>1, <2>3 DEF Ahead
  <1>11. IsFiniteSet(Ahead(t, worse))
    <2>1. Ahead(t, worse) \in SUBSET OnBoard
      BY DEF Ahead
    <2> QED
      BY <2>1, PlacesAre, FS_Subset
  <1>12. Cardinality(Ahead(t, worse)) \in Nat /\ Cardinality(Ahead(t, worse)) # 0
    BY <1>10, <1>11, FS_CardinalityType, FS_EmptySet
  <1>13. Cardinality(Ahead(t, less)) = 0
    BY <1>8, FS_EmptySet
  <1> QED
    BY <1>9, <1>12, <1>13

----------------------------------------------------------------------------
\* Either the viewer has a row above it, or it leads, alone or not.
LEMMA NextUpAndLead ==
    ASSUME NEW t \in Totals, Ranked(Ranking(t))
    PROVE  LET rows == Ranking(t)
               i    == Index(Ranking(t), Viewer)
           IN  /\ nextUpFrom(rows, t) = NoRow <=> i = 1
               /\ i # 1 => nextUpFrom(rows, t) = [rival |-> rows[i - 1], gap |-> t[rows[i - 1]] - t[Viewer]]
               /\ leadFrom(rows, t) # NoRow => i = 1 /\ Len(Roster) # 1
               /\ i = 1 /\ Len(Roster) # 1 => leadFrom(rows, t) = t[Viewer] - t[rows[2]]
                                              /\ t[Viewer] - t[rows[2]] \in Int
  <1> DEFINE rows == Ranking(t)
             i    == Index(rows, Viewer)
  <1>1. /\ Viewer \in OnBoard /\ i \in 1..Len(Roster) /\ Len(rows) = Len(Roster) /\ Len(Roster) \in Nat
        /\ Ranked(rows)
    BY ViewersRow, PlacesAre
  <1>2. /\ \A s \in OnBoard : t[s] \in Int
        /\ \A j \in 1..Len(Roster) : rows[j] \in OnBoard
    BY TheNumbers
  <1> HIDE DEF rows
  <1>3. i # 1 => /\ nextUpFrom(rows, t) = [rival |-> rows[i - 1], gap |-> t[rows[i - 1]] - t[Viewer]]
                 /\ nextUpFrom(rows, t) # NoRow
    <2>1. SUFFICES ASSUME i # 1
                   PROVE  /\ nextUpFrom(rows, t) = [rival |-> rows[i - 1], gap |-> t[rows[i - 1]] - t[Viewer]]
                          /\ nextUpFrom(rows, t) # NoRow
      OBVIOUS
    <2>2. nextUpFrom(rows, t) = [rival |-> rows[i - 1], gap |-> t[rows[i - 1]] - t[Viewer]]
      BY <1>1, <2>1 DEF nextUpFrom
    <2>3. rows[i - 1] \in OnBoard
      <3>1. i - 1 \in 1..Len(Roster)
        BY <1>1, <2>1
      <3> QED
        BY <1>2, <3>1
    <2>4. t[rows[i - 1]] - t[Viewer] \in Int
      BY <1>1, <1>2, <2>3
    <2> QED
      BY <2>2, <2>3, <2>4, NoRowIsNull
  <1>4. i = 1 => nextUpFrom(rows, t) = NoRow
    BY DEF nextUpFrom
  <1>5. leadFrom(rows, t) # NoRow => i = 1 /\ Len(Roster) # 1
    BY <1>1 DEF leadFrom
  <1>6. i = 1 /\ Len(Roster) # 1 =>
            leadFrom(rows, t) = t[Viewer] - t[rows[2]] /\ t[Viewer] - t[rows[2]] \in Int
    <2>1. SUFFICES ASSUME i = 1, Len(Roster) # 1
                   PROVE  leadFrom(rows, t) = t[Viewer] - t[rows[2]] /\ t[Viewer] - t[rows[2]] \in Int
      OBVIOUS
    <2>2. leadFrom(rows, t) = t[Viewer] - t[rows[2]]
      BY <1>1, <2>1 DEF leadFrom
    <2>3. 2 \in 1..Len(Roster)
      <3>1. PICK n \in Nat : n = Len(Roster)
        BY <1>1
      <3>2. n >= 1 /\ n # 1
        BY <1>1, <2>1, <3>1
      <3>3. 2 \in 1..n
        BY <3>2
      <3> QED
        BY <3>1, <3>3
    <2>4. t[rows[2]] \in Int /\ t[Viewer] \in Int
      BY <1>1, <1>2, <2>3
    <2> QED
      BY <2>2, <2>4
  <1> QED
    BY <1>3, <1>4, <1>5, <1>6 DEF rows

\* What the sentence says of a payload is true.
SaysTheDistance(said, t, self) ==
    /\ said.says = "to pass" =>
         RankWith(t, said.amount - 1) = self /\ RankWith(t, said.amount + 1) < self
    /\ said.says = "tied" => t[said.rival] = t[Viewer]
    /\ said.says = "leading by" =>
         /\ RankWith(t, 1 - said.amount) = 1 \/ said.amount = 0
         /\ RankWith(t, -1 - said.amount) > 1
    /\ said.says = "leading" => OnBoard = {Viewer}

LEMMA APassingIsTheDistance ==
    ASSUME NEW t \in Totals, Ranked(Ranking(t)), NEW i \in Int, i = Index(Ranking(t), Viewer), i # 1,
           NEW gap \in Int, gap = t[Ranking(t)[i - 1]] - t[Viewer], gap # 0
    PROVE  RankWith(t, gap - 1) = i /\ RankWith(t, gap + 1) < i
  <1>1. i > 1
    <2>1. i \in 1..Len(Roster)
      BY ViewersRow
    <2> QED
      BY <2>1
  <1>2. t[Ranking(t)[i - 1]] \in Int /\ t[Viewer] \in Int
    <2>1. Viewer \in OnBoard /\ i \in 1..Len(Roster) /\ Len(Roster) \in Nat
      BY ViewersRow, PlacesAre
    <2>2. i - 1 \in 1..Len(Roster)
      BY <1>1, <2>1
    <2> QED
      BY <2>1, <2>2, TheNumbers
  <1>3. t[Ranking(t)[i - 1]] # t[Viewer]
    BY <1>2
  <1>4. PICK short \in Int : short = gap - 1
    OBVIOUS
  <1>5. PICK over \in Int : over = gap + 1
    OBVIOUS
  <1>6. RankWith(t, short) = i
    BY <1>1, <1>3, <1>4, ADollarShort
  <1>7. RankWith(t, over) < i
    BY <1>1, <1>5, ADollarMore
  <1> QED
    BY <1>4, <1>5, <1>6, <1>7

LEMMA TheSentenceIsTrue ==
    ASSUME NEW t \in Totals
    PROVE  SaysTheDistance(RankAndGap(readBoardFor(t, FALSE)), t, readBoardFor(t, FALSE).self)
  <1> DEFINE board == readBoardFor(t, FALSE)
             rows  == Ranking(t)
             i     == Index(rows, Viewer)
             said  == RankAndGap(board)
  <1>1. /\ board.total = t
        /\ board.self = IF Ranked(rows) THEN i ELSE NoRow
        /\ board.nextUp = nextUpFrom(rows, t) /\ board.lead = leadFrom(rows, t)
    BY ThePayload
  <1> SUFFICES SaysTheDistance(said, t, board.self)
    OBVIOUS
  <1> HIDE DEF board
  <1>2. /\ ~Ranked(rows) => said.says = "floor total"
        /\ Ranked(rows) /\ t[Viewer] = 0 /\ i # NoRow => said.says = "first sale"
        /\ Ranked(rows) /\ t[Viewer] # 0 /\ i # NoRow => said = Gap(board)
    BY <1>1 DEF RankAndGap
  <1> HIDE DEF said
  <1>3. CASE ~Ranked(rows)
    BY <1>2, <1>3 DEF SaysTheDistance
  <1>4. CASE Ranked(rows) /\ t[Viewer] = 0
    <2>1. i \in 1..Len(Roster) /\ board.self = i /\ board.self # NoRow
      BY <1>1, <1>4, ViewersRow, StandingAssumption
    <2>2. said.says = "first sale"
      BY <1>1, <1>2, <1>4, <2>1
    <2> QED
      BY <2>2 DEF SaysTheDistance
  <1>5. CASE Ranked(rows) /\ t[Viewer] # 0
    <2>1. i \in 1..Len(Roster) /\ board.self = i /\ board.self # NoRow
      BY <1>1, <1>5, ViewersRow, StandingAssumption
    <2>2. said = Gap(board)
      BY <1>1, <1>2, <1>5, <2>1
    <2>3. /\ nextUpFrom(rows, t) = NoRow <=> i = 1
          /\ i # 1 => nextUpFrom(rows, t) = [rival |-> rows[i - 1], gap |-> t[rows[i - 1]] - t[Viewer]]
          /\ leadFrom(rows, t) # NoRow => i = 1 /\ Len(Roster) # 1
          /\ i = 1 /\ Len(Roster) # 1 => leadFrom(rows, t) = t[Viewer] - t[rows[2]]
                                         /\ t[Viewer] - t[rows[2]] \in Int
      BY <1>5, NextUpAndLead
    <2>4. \A s \in OnBoard : t[s] \in Int
      BY TheNumbers
    <2>5. CASE i = 1 /\ Len(Roster) = 1
      <3>1. said.says = "leading"
        BY <1>1, <2>2, <2>3, <2>5 DEF Gap
      <3>2. OnBoard = {Viewer}
        <4>1. Viewer \in OnBoard /\ rows[1] = Viewer
          BY <1>5, <2>5, ViewersRow
        <4>2. \A s \in OnBoard : \E j \in 1..Len(Roster) : rows[j] = s
          BY RankingIs
        <4>3. \A j \in 1..Len(Roster) : j = 1
          BY <2>5
        <4> QED
          BY <4>1, <4>2, <4>3
      <3> QED
        BY <3>1, <3>2 DEF SaysTheDistance
    <2>6. CASE i = 1 /\ Len(Roster) # 1
      <3>1. PICK lead \in Int : lead = t[Viewer] - t[rows[2]]
        BY <2>3, <2>6
      <3>2. lead # NoRow
        BY <3>1, StandingAssumption
      <3>3. said.says = "leading by" /\ said.amount = lead
        BY <1>1, <2>2, <2>3, <2>6, <3>1, <3>2 DEF Gap
      <3>4. PICK less \in Int, worse \in Int : less = 1 - lead /\ worse = -1 - lead
        OBVIOUS
      <3>5. RankWith(t, less) = 1 /\ RankWith(t, worse) > 1
        BY <1>5, <2>6, <3>1, <3>4, TheLeadersMargin
      <3> QED
        BY <3>3, <3>4, <3>5 DEF SaysTheDistance
    <2>7. CASE i # 1
      <3>1. PICK gap \in Int : gap = t[rows[i - 1]] - t[Viewer]
        <4>1. Viewer \in OnBoard /\ i \in 1..Len(Roster) /\ Len(Roster) \in Nat
          BY <1>5, ViewersRow, PlacesAre
        <4>2. i - 1 \in 1..Len(Roster)
          BY <2>7, <4>1
        <4>3. rows[i - 1] \in OnBoard
          BY <4>2, TheNumbers
        <4>4. t[rows[i - 1]] - t[Viewer] \in Int
          BY <2>4, <4>1, <4>3
        <4> QED
          BY <4>4
      <3>2. board.nextUp # NoRow /\ board.nextUp = [rival |-> rows[i - 1], gap |-> gap]
        BY <1>1, <2>3, <2>7, <3>1
      <3>3. CASE gap = 0
        <4>1. said.says = "tied" /\ said.rival = rows[i - 1]
          BY <2>2, <3>2, <3>3 DEF Gap
        <4>2. t[rows[i - 1]] = t[Viewer]
          <5>1. Viewer \in OnBoard /\ i \in 1..Len(Roster) /\ Len(Roster) \in Nat
            BY <1>5, ViewersRow, PlacesAre
          <5>2. i - 1 \in 1..Len(Roster)
            BY <2>7, <5>1
          <5>3. t[rows[i - 1]] \in Int /\ t[Viewer] \in Int
            BY <2>4, <5>1, <5>2, TheNumbers
          <5> QED
            BY <3>1, <3>3, <5>3
        <4> QED
          BY <4>1, <4>2 DEF SaysTheDistance
      <3>4. CASE gap # 0
        <4>1. said.says = "to pass" /\ said.amount = gap
          <5>1. board.nextUp # NoRow /\ board.nextUp.gap = gap /\ board.nextUp.gap # 0
            BY <3>2, <3>4
          <5>2. Gap(board) = [says |-> "to pass", rival |-> board.nextUp.rival, amount |-> board.nextUp.gap]
            BY <5>1 DEF Gap
          <5>3. said = [says |-> "to pass", rival |-> board.nextUp.rival, amount |-> board.nextUp.gap]
            BY <2>2, <5>2
          <5>4. said.says = "to pass"
            BY <5>3
          <5>5. said.amount = board.nextUp.gap
            BY <5>3
          <5> QED
            BY <5>1, <5>4, <5>5
        <4>2. RankWith(t, gap - 1) = i /\ RankWith(t, gap + 1) < i
          <5>1. i \in Int
            BY <2>1
          <5> QED
            BY <1>5, <2>7, <3>1, <3>4, <5>1, APassingIsTheDistance
        <4> QED
          BY <2>1, <4>1, <4>2 DEF SaysTheDistance
      <3> QED
        BY <3>3, <3>4
    <2> QED
      BY <2>5, <2>6, <2>7
  <1> QED
    BY <1>3, <1>4, <1>5

----------------------------------------------------------------------------
\* Every reply, on its way or drawn, is of totals there have been.
IsAnswered == [status : {"ready"}, n : Nat, board : Payloads]
WithoutBoard   == [status : {"loading", "unserved", "unauthorized", "error"}, n : Nat]

StandingInv ==
    /\ totals \in Totals /\ reads \in Nat
    /\ boardReads \in Seq(IsAnswered \cup WithoutBoard) /\ standing \in IsAnswered \cup WithoutBoard

LEMMA StandingStarts == StandingInit => StandingInv
  <1> SUFFICES ASSUME StandingInit PROVE StandingInv
    OBVIOUS
  <1> USE DEF StandingInit
  <1>1. Asking(1) \in IsAnswered \cup WithoutBoard
    BY DEF Asking, WithoutBoard
  <1>2. boardReads \in Seq(IsAnswered \cup WithoutBoard)
    BY <1>1
  <1>3. standing \in IsAnswered \cup WithoutBoard
    BY DEF WithoutBoard
  <1>4. totals \in Totals
    BY DEF Totals
  <1> QED
    BY <1>2, <1>3, <1>4 DEF StandingInv

LEMMA StandingStays == StandingInv /\ [StandingNext]_standingVars => StandingInv'
  <1> SUFFICES ASSUME StandingInv, [StandingNext]_standingVars PROVE StandingInv'
    OBVIOUS
  <1> DEFINE A == IsAnswered \cup WithoutBoard
  <1>1. /\ totals \in Totals /\ reads \in Nat
        /\ boardReads \in Seq(A) /\ standing \in A
    BY DEF StandingInv
  <1>2. ASSUME NEW i \in DOMAIN boardReads
        PROVE  i \in 1..Len(boardReads) /\ boardReads[i] \in A
    BY <1>1, <1>2, ElementOfSeq, LenProperties
  <1>3. \A n \in Nat : Asking(n) \in A
    BY DEF Asking, WithoutBoard
  <1>4. \A a \in A : a.n \in Nat
    BY DEF IsAnswered, WithoutBoard
  <1>5. ASSUME NEW s \in OnBoard, NEW amount \in Entries, EntryWritten(s, amount) PROVE StandingInv'
    <2>1. totals' \in Totals
      BY <1>1, <1>5, StandingAssumption DEF EntryWritten, Totals
    <2> QED
      BY <1>1, <1>5, <2>1 DEF EntryWritten, StandingInv
  <1>6. ASSUME NEW i \in DOMAIN boardReads, StandingServed(i) PROVE StandingInv'
    <2> DEFINE n == boardReads[i].n
    <2>1. n \in Nat
      BY <1>2, <1>4, <1>6
    <2>2. readBoardFor(totals, FALSE) \in Payloads
      BY <1>1 DEF Payloads
    <2>3. \A reply \in {[status |-> "ready", n |-> n, board |-> readBoardFor(totals, FALSE)],
                         [status |-> "unauthorized", n |-> n], [status |-> "error", n |-> n]} : reply \in A
      <3>1. [status |-> "ready", n |-> n, board |-> readBoardFor(totals, FALSE)] \in IsAnswered
        <4> DEFINE payload == readBoardFor(totals, FALSE)
        <4> HIDE DEF payload, n
        <4> QED
          BY <2>1, <2>2 DEF IsAnswered, payload
      <3>2. [status |-> "unauthorized", n |-> n] \in WithoutBoard /\ [status |-> "error", n |-> n] \in WithoutBoard
        BY <2>1 DEF WithoutBoard
      <3> QED
        BY <3>1, <3>2
    <2>4. PICK reply \in A : boardReads' = [boardReads EXCEPT ![i] = reply]
      BY <1>6, <2>3 DEF StandingServed
    <2> HIDE DEF A
    <2>5. boardReads' \in Seq(A)
      BY <1>1, <1>2, <1>6, <2>4, ExceptSeq
    <2> QED
      BY <1>1, <1>6, <2>5 DEF StandingServed, StandingInv, A
  <1>7. ASSUME NEW i \in DOMAIN boardReads, StandingApplied(i) PROVE StandingInv'
    <2> HIDE DEF A
    <2>1. boardReads' \in Seq(A) /\ standing' \in A
      BY <1>1, <1>2, <1>7, WithoutOne DEF StandingApplied
    <2> QED
      BY <1>1, <1>7, <2>1 DEF StandingApplied, StandingInv, A
  <1>8. ASSUME readAgain PROVE StandingInv'
    <2> HIDE DEF A
    <2>1. reads' \in Nat /\ boardReads' \in Seq(A)
      BY <1>1, <1>3, <1>8, AppendProperties DEF readAgain
    <2> QED
      BY <1>1, <1>8, <2>1 DEF readAgain, StandingInv, A
  <1>9. ASSUME retryStanding PROVE StandingInv'
    <2>1. standing' \in A
      BY <1>1, <1>4, <1>9 DEF retryStanding, WithoutBoard
    <2> HIDE DEF A
    <2>2. reads' \in Nat /\ boardReads' \in Seq(A)
      BY <1>1, <1>3, <1>9, AppendProperties DEF retryStanding
    <2> QED
      BY <1>1, <1>9, <2>1, <2>2 DEF retryStanding, StandingInv, A
  <1>10. ASSUME GoToEarnings PROVE StandingInv'
    <2>1. standing' \in A
      BY <1>1, <1>4, <1>10 DEF GoToEarnings, WithoutBoard
    <2>2. <<>> \in Seq(A)
      OBVIOUS
    <2> HIDE DEF A
    <2> QED
      BY <1>1, <1>10, <2>1, <2>2 DEF GoToEarnings, StandingInv, A
  <1>11. ASSUME EarningsPolled \/ UNCHANGED standingVars PROVE StandingInv'
    BY <1>1, <1>11 DEF EarningsPolled, standingVars, StandingInv
  <1> HIDE DEF A
  <1> QED
    BY <1>5, <1>6, <1>7, <1>8, <1>9, <1>10, <1>11 DEF StandingNext

\* The sentence drawn is true of the totals it was read from.
LEMMA TheDistanceShown == StandingInv => GapIsTheDistance
  <1> SUFFICES ASSUME StandingInv, standing.status = "ready"
               PROVE  SaysTheDistance(RankAndGap(standing.board), standing.board.total, standing.board.self)
    BY DEF GapIsTheDistance, SaysTheDistance
  <1>1. standing \in IsAnswered
    BY DEF StandingInv, WithoutBoard
  <1>2. standing.board \in Payloads
    BY <1>1 DEF IsAnswered
  <1>3. PICK t \in Totals : standing.board = readBoardFor(t, FALSE)
    BY <1>2 DEF Payloads
  <1>4. standing.board.total = t
    BY <1>3, ThePayload
  <1>5. SaysTheDistance(RankAndGap(readBoardFor(t, FALSE)), t, readBoardFor(t, FALSE).self)
    BY TheSentenceIsTrue
  <1> QED
    BY <1>3, <1>4, <1>5

\* My Day's sentence of where the viewer stands says the distance it says.
THEOREM TheGapIsTrue == StandingSpec => []GapIsTheDistance
  <1>1. StandingInit => StandingInv
    BY StandingStarts
  <1>2. StandingInv /\ [StandingNext]_standingVars => StandingInv'
    BY StandingStays
  <1>3. StandingInv => GapIsTheDistance
    BY TheDistanceShown
  <1> QED
    BY <1>1, <1>2, <1>3, PTL DEF StandingSpec

----------------------------------------------------------------------------
\* No more entries and readings than there may be, and a row for every seller.
StandingCounts ==
    /\ entries \in 0..MaxEntries /\ reads \in 1..MaxReads
    /\ standing.status # "unserved"
    /\ Len(boardReads) <= reads
    /\ earnings # NoRow => Len(earnings.rows) = Len(Roster)

LEMMA StandingCounted == StandingInit => StandingCounts
  <1> SUFFICES ASSUME StandingInit PROVE StandingCounts
    OBVIOUS
  <1> USE DEF StandingInit
  <1>1. entries \in 0..MaxEntries /\ reads \in 1..MaxReads /\ earnings = NoRow
    BY StandingAssumption
  <1>2. standing.status # "unserved"
    OBVIOUS
  <1>3. Len(boardReads) = 1
    OBVIOUS
  <1> QED
    BY <1>1, <1>2, <1>3 DEF StandingCounts

\* A payload has as many rows as there are sellers.
LEMMA RowsOfAPayload ==
    ASSUME NEW t \in Totals, NEW same
    PROVE  Len(readBoardFor(t, same).rows) = Len(Roster)
  <1> DEFINE rows == Ranking(t)
  <1>1. rows \in [1..Len(Roster) -> OnBoard] /\ Len(Roster) \in Nat
    BY RankingIs, PlacesAre
  <1> HIDE DEF rows
  <1>2. rows \in Seq(OnBoard)
    BY <1>1
  <1>3. Len(rows) = Len(Roster)
    BY <1>1, <1>2
  <1> QED
    BY <1>3 DEF readBoardFor, rows

LEMMA StandingCountsOn ==
    StandingInv /\ StandingCounts /\ [StandingNext]_standingVars => StandingCounts'
  <1> SUFFICES ASSUME StandingInv, StandingCounts, [StandingNext]_standingVars PROVE StandingCounts'
    OBVIOUS
  <1> DEFINE A == IsAnswered \cup WithoutBoard
  <1>1. /\ totals \in Totals /\ boardReads \in Seq(A)
        /\ MaxEntries \in Nat /\ MaxReads \in Nat
    BY StandingAssumption DEF StandingInv
  <1>2. /\ entries \in 0..MaxEntries /\ reads \in 1..MaxReads
        /\ standing.status # "unserved" /\ Len(boardReads) <= reads
        /\ earnings # NoRow => Len(earnings.rows) = Len(Roster)
    BY DEF StandingCounts
  <1> HIDE DEF A
  <1>3. ASSUME NEW i \in DOMAIN boardReads
        PROVE  i \in 1..Len(boardReads) /\ boardReads[i] \in A
    BY <1>1, <1>3, ElementOfSeq, LenProperties
  <1>4. ASSUME NEW s \in OnBoard, NEW amount \in Entries, EntryWritten(s, amount) PROVE StandingCounts'
    BY <1>1, <1>2, <1>4 DEF EntryWritten, StandingCounts
  <1>5. ASSUME NEW i \in DOMAIN boardReads, StandingServed(i) PROVE StandingCounts'
    <2>1. PICK reply : boardReads' = [boardReads EXCEPT ![i] = reply]
      BY <1>5 DEF StandingServed
    <2>2. UNCHANGED <<totals, entries, standing, reads, earnings>>
      BY <1>5 DEF StandingServed
    <2>3. Len(boardReads') = Len(boardReads)
      BY <1>1, <2>1
    <2> QED
      BY <1>2, <2>2, <2>3 DEF StandingCounts
  <1>6. ASSUME NEW i \in DOMAIN boardReads, StandingApplied(i) PROVE StandingCounts'
    <2>1. Len(boardReads') = Len(boardReads) - 1 /\ Len(boardReads) \in Nat
      BY <1>1, <1>3, <1>6, WithoutOne, LenProperties DEF StandingApplied
    <2>2. standing'.status # "unserved"
      BY <1>6 DEF StandingApplied
    <2>3. UNCHANGED <<totals, entries, reads, earnings>>
      BY <1>6 DEF StandingApplied
    <2> QED
      BY <1>2, <2>1, <2>2, <2>3 DEF StandingCounts
  <1>7. ASSUME readAgain \/ retryStanding PROVE StandingCounts'
    <2>1. /\ reads < MaxReads /\ reads' = reads + 1
          /\ boardReads' = Append(boardReads, Asking(reads'))
          /\ UNCHANGED <<totals, entries, earnings>>
      BY <1>7 DEF readAgain, retryStanding
    <2>2. standing'.status # "unserved"
      BY <1>2, <1>7 DEF readAgain, retryStanding
    <2>3. Len(boardReads') = Len(boardReads) + 1 /\ Len(boardReads) \in Nat
      BY <1>1, <2>1, LenProperties
    <2> QED
      BY <1>1, <1>2, <2>1, <2>2, <2>3 DEF StandingCounts
  <1>8. ASSUME GoToEarnings PROVE StandingCounts'
    <2>1. Len(earnings'.rows) = Len(Roster)
      BY <1>1, <1>8, RowsOfAPayload DEF GoToEarnings
    <2>2. boardReads' = <<>> /\ standing'.status = "loading" /\ UNCHANGED <<entries, reads>>
      BY <1>8 DEF GoToEarnings
    <2>3. Len(boardReads') = 0
      BY <2>2
    <2> QED
      BY <1>2, <2>1, <2>2, <2>3 DEF StandingCounts
  <1>9. ASSUME EarningsPolled PROVE StandingCounts'
    <2>1. Len(earnings'.rows) = Len(Roster)
      BY <1>1, <1>9, RowsOfAPayload DEF EarningsPolled
    <2>2. UNCHANGED <<totals, entries, standing, boardReads, reads>>
      BY <1>9 DEF EarningsPolled
    <2> QED
      BY <1>2, <2>1, <2>2 DEF StandingCounts
  <1>10. CASE UNCHANGED standingVars
    BY <1>2, <1>10 DEF standingVars, StandingCounts
  <1> QED
    BY <1>4, <1>5, <1>6, <1>7, <1>8, <1>9, <1>10 DEF StandingNext

\* A ledger, the readings on their way and every payload hold what they may.
THEOREM StandingTypeCorrect == StandingSpec => []StandingTypeOK
  <1>1. StandingInv /\ StandingCounts => StandingTypeOK
    <2> SUFFICES ASSUME StandingInv, StandingCounts PROVE StandingTypeOK
      OBVIOUS
    <2>1. standing.status \in {"loading", "ready", "unauthorized", "error"}
      BY DEF StandingInv, StandingCounts, IsAnswered, WithoutBoard
    <2>2. totals \in [OnBoard -> Int]
      BY DEF StandingInv, Totals
    <2> QED
      BY <2>1, <2>2 DEF StandingCounts, StandingTypeOK
  <1> QED
    BY <1>1, StandingStarts, StandingStays, StandingCounted, StandingCountsOn, PTL DEF StandingSpec

----------------------------------------------------------------------------
\* A column that is drawn in part.

\* Rows: so many whole ones, and what is left is less than one.
LEMMA Rows ==
    ASSUME NEW x \in Nat, NEW p \in Nat \ {0}
    PROVE  /\ x \div p \in Nat
           /\ (x \div p) * p \in Nat
           /\ (x \div p) * p <= x /\ x < (x \div p) * p + p
  OBVIOUS

LEMMA MoreRows ==
    ASSUME NEW x \in Nat, NEW y \in Nat, NEW p \in Nat \ {0}
    PROVE  /\ x * p \in Nat /\ y * p \in Nat
           /\ x < y <=> x * p < y * p
           /\ x < y => x * p + p <= y * p
  <1>1. x * p \in Nat /\ y * p \in Nat
    OBVIOUS
  <1>2. x < y => x * p + p <= y * p
    OBVIOUS
  <1>3. x = y => x * p = y * p
    OBVIOUS
  <1>4. y < x => y * p + p <= x * p
    OBVIOUS
  <1> QED
    BY <1>1, <1>2, <1>3, <1>4

\* Rounded up, the rows reach what they are to hold.
LEMMA CeilReaches ==
    ASSUME NEW x \in Nat, NEW p \in Nat \ {0}
    PROVE  Ceil(x, p) \in Nat /\ x <= Ceil(x, p) * p /\ Ceil(x, p) * p \in Nat
  <1>1. x + p - 1 \in Nat
    OBVIOUS
  <1>2. Ceil(x, p) \in Nat /\ Ceil(x, p) * p \in Nat /\ x + p - 1 < Ceil(x, p) * p + p
    BY <1>1, Rows DEF Ceil
  <1> QED
    BY <1>2

\* A card in view is in the window of an offset in the same row.
LEMMA WindowCovers ==
    ASSUME NEW n \in Nat \ {0}, NEW p \in Nat \ {0}, NEW h \in Nat \ {0}, NEW y \in Nat, NEW top \in Nat,
           y \div p = top \div p, NEW c \in 1..p, Overscan \in Nat \ {0},
           NEW j \in 0..(n - 1), j * p < y + h, j * p + c > y
    PROVE  LET window == windowFor(n, top, h, p)
           IN  /\ window.first \in Nat /\ window.end \in Nat
               /\ window.first <= j /\ j < window.end
  <1> DEFINE end == Minus(n * p, h)
             at  == Least(top, end)
             q   == top \div p
             r   == at \div p
             u   == Ceil(at + h, p)
  <1>1. n * p \in Nat /\ j * p \in Nat /\ n * p >= j * p + p
    BY MoreRows
  <1>2. end \in Nat /\ end = IF n * p > h THEN n * p - h ELSE 0
    BY <1>1 DEF Minus, Most
  <1>3. at \in Nat /\ at <= top /\ (at = top \/ at = end)
    BY <1>2 DEF Least
  <1>4. q \in Nat /\ q * p \in Nat /\ q * p <= top /\ top < q * p + p /\ q * p <= y /\ y < q * p + p
    BY Rows
  <1>5. r \in Nat /\ r * p \in Nat /\ r * p <= at /\ at < r * p + p
    BY <1>3, Rows
  <1>6. u \in Nat /\ at + h <= u * p /\ u * p \in Nat
    <2>1. PICK z \in Nat : z = at + h
      BY <1>3
    <2>2. Ceil(z, p) \in Nat /\ z <= Ceil(z, p) * p /\ Ceil(z, p) * p \in Nat
      BY CeilReaches
    <2> QED
      BY <2>1, <2>2
  <1> HIDE DEF end, at, q, r, u
  <1>7. r <= q
    <2>1. r * p < q * p + p
      BY <1>3, <1>4, <1>5
    <2>2. ~(q < r)
      BY <1>4, <1>5, <2>1, MoreRows
    <2> QED
      BY <1>4, <1>5, <2>2
  <1>8. q <= j
    <2>1. q * p < j * p + p
      BY <1>1, <1>4
    <2>2. ~(j < q)
      BY <1>1, <1>4, <2>1, MoreRows
    <2> QED
      BY <1>4, <2>2
  <1>9. j < u + Overscan
    <2>1. CASE at = top
      <3>1. j * p < u * p + p
        BY <1>1, <1>3, <1>4, <1>6, <2>1
      <3>2. ~(u < j)
        BY <1>1, <1>6, <3>1, MoreRows
      <3> QED
        BY <1>6, <3>2
    <2>2. CASE at = end
      <3>1. n * p <= u * p
        BY <1>1, <1>2, <1>6, <2>2
      <3>2. ~(u < n)
        BY <1>1, <1>6, <3>1, MoreRows
      <3> QED
        BY <1>6, <3>2
    <2> QED
      BY <1>3, <2>1, <2>2
  <1>10. windowFor(n, top, h, p) = [first |-> Minus(r, Overscan), end |-> Least(n, u + Overscan)]
    BY DEF windowFor, end, at, r, u
  <1>11. Minus(r, Overscan) \in Nat /\ Minus(r, Overscan) <= j
    BY <1>5, <1>7, <1>8, <1>4 DEF Minus, Most
  <1>12. Least(n, u + Overscan) \in Nat /\ j < Least(n, u + Overscan)
    BY <1>6, <1>9 DEF Least
  <1> QED
    BY <1>10, <1>11, <1>12

\* Widened for the keyboard, a window keeps what it has.
LEMMA FocusWidens ==
    ASSUME NEW window, window.first \in Nat, window.end \in Nat,
           NEW index \in Nat \cup {Nothing}, NEW j \in Nat,
           window.first <= j, j < window.end
    PROVE  LET held == withFocusHeld(window, index)
           IN  held.first \in Nat /\ held.end \in Nat /\ held.first <= j /\ j < held.end
  <1> DEFINE held == withFocusHeld(window, index)
  <1>1. CASE index = Nothing
    BY <1>1 DEF withFocusHeld
  <1>2. CASE index \in Nat /\ index # Nothing
    <2>1. held = [first |-> Least(window.first, index), end |-> Most(window.end, index + 1)]
      BY <1>2 DEF withFocusHeld
    <2>2. /\ Least(window.first, index) \in Nat /\ Least(window.first, index) <= window.first
          /\ Most(window.end, index + 1) \in Nat /\ Most(window.end, index + 1) >= window.end
      BY <1>2 DEF Least, Most
    <2> QED
      BY <2>1, <2>2
  <1> QED
    BY <1>1, <1>2

----------------------------------------------------------------------------
\* A column that was told of every scroll, and met no new pitch inside a row since, knows
\* the row it is at; one that listens knows what it is laid out with.
RowIsKnown ==
    ~unheard /\ ~repitched =>
        \/ scrollTop = scroll
        \/ metrics # Nothing /\ scroll \div metrics.pitch = scrollTop \div metrics.pitch
LayoutIsKnown == listening => metrics = laid /\ Virtualized(cards)
ColumnsInv == ColumnsTypeOK /\ RowIsKnown /\ LayoutIsKnown

LEMMA LayoutIs ==
    ASSUME NEW layout \in Layouts
    PROVE  /\ layout.pitch \in Nat \ {0} /\ layout.viewportH \in Nat \ {0}
           /\ CardGap \in Nat /\ CardGap < layout.pitch
  BY ColumnsAssumption

LEMMA FurthestIs ==
    ASSUME NEW list \in Seq(Card), NEW layout \in Layouts
    PROVE  Furthest(list, layout) \in Nat
  <1>1. PICK p \in Nat \ {0}, h \in Nat \ {0} : p = layout.pitch /\ h = layout.viewportH
    BY LayoutIs
  <1>2. CardGap \in Nat /\ CardGap < p
    BY <1>1, LayoutIs
  <1>3. Height(list, p) \in Nat
    <2>1. CASE list = <<>>
      BY <2>1 DEF Height
    <2>2. CASE list # <<>>
      <3>1. PICK k \in Nat : Len(list) = k + 1
        <4>1. Len(list) - 1 \in Nat
          BY <2>2, EmptySeq, LenProperties
        <4> QED
          BY <4>1, LenProperties
      <3>2. p * k \in Nat
        BY MoreRows
      <3>3. p * (k + 1) = p * k + p
        BY <3>2
      <3>4. p * (k + 1) - CardGap \in Nat
        BY <1>2, <3>2, <3>3
      <3> QED
        BY <2>2, <3>1, <3>4 DEF Height
    <2> QED
      BY <2>1, <2>2
  <1>4. PICK hi \in Nat : hi = Height(list, p)
    BY <1>3
  <1> QED
    BY <1>1, <1>4 DEF Furthest, Minus, Most

LEMMA ClampedIs ==
    ASSUME NEW list \in Seq(Card), NEW layout \in Layouts, scroll \in Nat
    PROVE  Least(scroll, Furthest(list, layout)) \in Nat
  BY FurthestIs DEF Least

\* Measuring is told of every pitch that came inside a row.
LEMMA MeasuredKnows ==
    ASSUME ColumnsTypeOK, RowIsKnown, NEW layout \in Layouts, MetricsAre(layout),
           UNCHANGED scrollTop, ~unheard' => ~unheard /\ scroll' = scroll
    PROVE  RowIsKnown' /\ metrics' = layout /\ repitched' \in BOOLEAN
  <1>1. /\ metrics' = layout
        /\ repitched' <=> \/ repitched
                          \/ /\ metrics # Nothing /\ metrics.pitch # layout.pitch
                             /\ scrollTop # scroll
    BY DEF MetricsAre
  <1>2. repitched' \in BOOLEAN
    BY DEF MetricsAre, ColumnsTypeOK
  <1>3. ASSUME ~unheard', ~repitched', scrollTop # scroll
        PROVE  metrics' # Nothing /\ scroll \div metrics'.pitch = scrollTop \div metrics'.pitch
    <2>1. ~unheard /\ ~repitched
      BY <1>1, <1>3
    <2>2. metrics # Nothing /\ scroll \div metrics.pitch = scrollTop \div metrics.pitch
      BY <1>3, <2>1 DEF RowIsKnown
    <2>3. metrics.pitch = layout.pitch
      BY <1>1, <1>3, <2>2
    <2>4. metrics' # Nothing
      BY <1>1, ColumnsAssumption
    <2> QED
      BY <1>1, <2>2, <2>3, <2>4
  <1>4. RowIsKnown'
    BY <1>3 DEF RowIsKnown
  <1> QED
    BY <1>1, <1>2, <1>4

\* A list that changes takes the offset along, and says so.
LEMMA RedrawnStays ==
    ASSUME ColumnsInv, NEW list \in Seq(Card), IsInjective(list), Redrawn(list)
    PROVE  ColumnsInv'
  <1>1. /\ changes \in 0..MaxChanges /\ scroll \in Nat /\ unheard \in BOOLEAN /\ queued \in BOOLEAN
        /\ listening \in BOOLEAN /\ laid \in Layouts /\ focused \in Card \cup {Nothing}
    BY DEF ColumnsInv, ColumnsTypeOK
  <1>2. /\ changes < MaxChanges /\ changes' = changes + 1 /\ cards' = list
        /\ scroll' = Least(scroll, Furthest(list, laid))
        /\ queued' = (queued \/ scroll' # scroll)
        /\ unheard' = (unheard \/ scroll' # scroll)
        /\ listening' = (listening /\ Virtualized(list))
        /\ focused' = IF focused \in ToSet(list) THEN focused ELSE Nothing
        /\ UNCHANGED <<laid, repitched, scrollTop, metrics, focusedIndex>>
    BY DEF Redrawn, OffsetIs
  <1>3. scroll' \in Nat
    BY <1>1, <1>2, ClampedIs
  <1>4. queued' \in BOOLEAN /\ unheard' \in BOOLEAN /\ listening' \in BOOLEAN
    BY <1>2 DEF Virtualized
  <1>5. focused' \in Card \cup {Nothing} /\ changes' \in 0..MaxChanges
    BY <1>1, <1>2, ColumnsAssumption
  <1>6. ColumnsTypeOK'
    BY <1>2, <1>3, <1>4, <1>5 DEF ColumnsInv, ColumnsTypeOK
  <1>7. ~unheard' => ~unheard /\ scroll' = scroll
    BY <1>2
  <1>8. RowIsKnown'
    BY <1>2, <1>7 DEF ColumnsInv, RowIsKnown
  <1>9. LayoutIsKnown'
    BY <1>2 DEF ColumnsInv, LayoutIsKnown, Virtualized
  <1> QED
    BY <1>6, <1>8, <1>9 DEF ColumnsInv

LEMMA ColumnsStart == ColumnsInit => ColumnsInv
  <1> SUFFICES ASSUME ColumnsInit PROVE ColumnsInv
    OBVIOUS
  <1>1. /\ cards = Start /\ laid \in Layouts /\ scroll = 0 /\ scrollTop = 0
        /\ unheard = FALSE /\ repitched = FALSE /\ queued = FALSE
        /\ listening = FALSE /\ metrics = Nothing
        /\ focusedIndex = Nothing /\ focused = Nothing /\ changes = 0
    BY DEF ColumnsInit
  <1>2. RowIsKnown /\ LayoutIsKnown
    BY <1>1 DEF RowIsKnown, LayoutIsKnown
  <1>3. changes \in 0..MaxChanges
    BY <1>1, ColumnsAssumption
  <1>4. cards \in Seq(Card) /\ IsInjective(cards)
    BY <1>1, ColumnsAssumption
  <1> QED
    BY <1>1, <1>2, <1>3, <1>4 DEF ColumnsInv, ColumnsTypeOK

\* A card has a place in the list it is in.
LEMMA TheRowOf ==
    ASSUME NEW list \in Seq(Card), NEW c \in ToSet(list)
    PROVE  RowOf(list, c) \in 1..Len(list) /\ list[RowOf(list, c)] = c
  <1>1. \E i \in DOMAIN list : list[i] = c
    BY DEF ToSet
  <1>2. RowOf(list, c) \in DOMAIN list /\ list[RowOf(list, c)] = c
    BY <1>1 DEF RowOf
  <1> QED
    BY <1>2, LenProperties

\* The list with a card on top, and without one.
LEMMA ListChanges ==
    ASSUME NEW list \in Seq(Card), IsInjective(list), NEW c \in Card
    PROVE  /\ c \notin ToSet(list) =>
                <<c>> \o list \in Seq(Card) /\ IsInjective(<<c>> \o list)
           /\ c \in ToSet(list) =>
                RemoveAt(list, RowOf(list, c)) \in Seq(Card) /\ IsInjective(RemoveAt(list, RowOf(list, c)))
  <1>1. /\ Len(list) \in Nat /\ DOMAIN list = 1..Len(list)
        /\ \A i \in 1..Len(list) : list[i] \in Card
    BY LenProperties, ElementOfSeq
  <1>2. \A i, j \in 1..Len(list) : list[i] = list[j] => i = j
    BY <1>1 DEF IsInjective
  <1>3. ASSUME c \notin ToSet(list)
        PROVE  <<c>> \o list \in Seq(Card) /\ IsInjective(<<c>> \o list)
    <2> DEFINE longer == <<c>> \o list
    <2>1. /\ longer \in Seq(Card) /\ Len(longer) = 1 + Len(list)
          /\ \A i \in 1..(1 + Len(list)) : longer[i] = IF i = 1 THEN c ELSE list[i - 1]
      <3>1. <<c>> \in Seq(Card) /\ Len(<<c>>) = 1 /\ <<c>>[1] = c
        OBVIOUS
      <3>2. /\ longer \in Seq(Card) /\ Len(longer) = Len(<<c>>) + Len(list)
            /\ \A i \in 1..(Len(<<c>>) + Len(list)) :
                  longer[i] = IF i <= Len(<<c>>) THEN <<c>>[i] ELSE list[i - Len(<<c>>)]
        BY <3>1, ConcatProperties
      <3> HIDE DEF longer
      <3>3. ASSUME NEW i \in 1..(1 + Len(list))
            PROVE  longer[i] = IF i = 1 THEN c ELSE list[i - 1]
        <4>1. CASE i = 1
          BY <1>1, <3>1, <3>2, <4>1
        <4>2. CASE i # 1
          <5>1. ~(i <= 1)
            BY <1>1, <4>2
          <5> QED
            BY <3>1, <3>2, <4>2, <5>1
        <4> QED
          BY <4>1, <4>2
      <3> QED
        BY <3>1, <3>2, <3>3
    <2> HIDE DEF longer
    <2>2. DOMAIN longer = 1..(1 + Len(list))
      BY <2>1, LenProperties
    <2>3. \A i \in 2..(1 + Len(list)) : longer[i] = list[i - 1] /\ i - 1 \in 1..Len(list)
      BY <1>1, <2>1
    <2>4. \A i \in 1..Len(list) : list[i] # c
      BY <1>1, <1>3 DEF ToSet
    <2>5. ASSUME NEW i \in DOMAIN longer, NEW j \in DOMAIN longer, longer[i] = longer[j] PROVE i = j
      <3>1. longer[1] = c
        BY <1>1, <2>1
      <3>2. CASE i = 1 \/ j = 1
        BY <1>1, <2>2, <2>3, <2>4, <2>5, <3>1, <3>2
      <3>3. CASE i # 1 /\ j # 1
        <4>1. /\ longer[i] = list[i - 1] /\ i - 1 \in 1..Len(list)
              /\ longer[j] = list[j - 1] /\ j - 1 \in 1..Len(list)
          BY <1>1, <2>2, <2>3, <3>3
        <4>2. i - 1 = j - 1
          BY <1>2, <2>5, <4>1
        <4>3. i \in Nat /\ j \in Nat
          BY <1>1, <2>2
        <4> QED
          BY <4>2, <4>3
      <3> QED
        BY <3>2, <3>3
    <2> QED
      BY <2>1, <2>5 DEF IsInjective, longer
  <1>4. ASSUME c \in ToSet(list)
        PROVE  RemoveAt(list, RowOf(list, c)) \in Seq(Card) /\ IsInjective(RemoveAt(list, RowOf(list, c)))
    <2>1. PICK k \in 1..Len(list) : k = RowOf(list, c)
      BY <1>4, TheRowOf
    <2> DEFINE shorter == RemoveAt(list, k)
    <2>2. /\ shorter \in Seq(Card) /\ Len(shorter) = Len(list) - 1
          /\ \A i \in 1..(Len(list) - 1) : shorter[i] = IF i < k THEN list[i] ELSE list[i + 1]
      BY WithoutOne
    <2> HIDE DEF shorter
    <2>3. DOMAIN shorter = 1..(Len(list) - 1)
      BY <2>2, LenProperties
    <2>4. ASSUME NEW i \in DOMAIN shorter, NEW j \in DOMAIN shorter, shorter[i] = shorter[j] PROVE i = j
      <3>1. PICK h \in 1..Len(list) : shorter[i] = list[h] /\ h = IF i < k THEN i ELSE i + 1
        BY <1>1, <2>2, <2>3
      <3>2. PICK l \in 1..Len(list) : shorter[j] = list[l] /\ l = IF j < k THEN j ELSE j + 1
        BY <1>1, <2>2, <2>3
      <3>3. h = l
        BY <1>2, <2>4, <3>1, <3>2
      <3> QED
        BY <1>1, <2>3, <3>1, <3>2, <3>3
    <2> QED
      BY <2>1, <2>2, <2>4 DEF IsInjective, shorter
  <1> QED
    BY <1>3, <1>4

\* What is drawn is a run of the list.
LEMMA WindowIs ==
    ASSUME NEW n \in Nat, NEW top \in Nat, NEW h \in Nat \ {0}, NEW p \in Nat \ {0}, Overscan \in Nat
    PROVE  windowFor(n, top, h, p).first \in Nat /\ windowFor(n, top, h, p).end \in Nat
  <1>1. CASE n = 0
    BY <1>1 DEF windowFor
  <1>2. CASE n # 0
    <2> DEFINE at == Least(top, Minus(n * p, h))
               r  == at \div p
               u  == Ceil(at + h, p)
    <2>1. n * p \in Nat
      BY MoreRows
    <2>2. at \in Nat
      BY <2>1 DEF Least, Minus, Most
    <2>3. r \in Nat
      BY <2>2, Rows
    <2>4. u \in Nat
      <3>1. PICK z \in Nat : z = at + h
        BY <2>2
      <3> QED
        BY <3>1, CeilReaches
    <2>5. windowFor(n, top, h, p) = [first |-> Minus(r, Overscan), end |-> Least(n, u + Overscan)]
      BY <1>2 DEF windowFor
    <2> HIDE DEF at, r, u
    <2>6. Minus(r, Overscan) \in Nat /\ Least(n, u + Overscan) \in Nat
      BY <2>3, <2>4 DEF Minus, Most, Least
    <2> QED
      BY <2>5, <2>6
  <1> QED
    BY <1>1, <1>2

LEMMA HeldIs ==
    ASSUME NEW window, window.first \in Nat, window.end \in Nat, NEW index \in Nat \cup {Nothing}
    PROVE  withFocusHeld(window, index).first \in Nat /\ withFocusHeld(window, index).end \in Nat
  BY DEF withFocusHeld, Least, Most

LEMMA SliceIs ==
    ASSUME cards \in Seq(Card), scrollTop \in Nat, metrics \in Layouts \cup {Nothing},
           focusedIndex \in Nat \cup {Nothing}
    PROVE  Slice.first \in Nat /\ Slice.end \in Nat
  <1>1. Len(cards) \in Nat /\ SsrWindow \in Nat
    BY LenProperties, ColumnsAssumption
  <1>2. CASE ~Virtualized(cards)
    BY <1>1, <1>2 DEF Slice
  <1>3. CASE Virtualized(cards) /\ metrics = Nothing
    <2>1. Slice = [first |-> 0, end |-> Least(Len(cards), SsrWindow)]
      BY <1>3 DEF Slice
    <2> QED
      BY <1>1, <2>1 DEF Least
  <1>4. CASE Virtualized(cards) /\ metrics # Nothing
    <2>1. PICK p \in Nat \ {0}, h \in Nat \ {0} : p = metrics.pitch /\ h = metrics.viewportH
      BY <1>4, LayoutIs
    <2> DEFINE window == windowFor(Len(cards), scrollTop, h, p)
    <2>2. Slice = withFocusHeld(window, focusedIndex)
      BY <1>4, <2>1 DEF Slice
    <2>3. window.first \in Nat /\ window.end \in Nat
      BY <1>1, WindowIs, ColumnsAssumption
    <2> QED
      BY <2>2, <2>3, HeldIs
  <1> QED
    BY <1>2, <1>3, <1>4

LEMMA ColumnsStays == ColumnsInv /\ [ColumnsNext]_columnsVars => ColumnsInv'
  <1> SUFFICES ASSUME ColumnsInv, [ColumnsNext]_columnsVars PROVE ColumnsInv'
    OBVIOUS
  <1> USE DEF heard, focus
  <1>1. /\ cards \in Seq(Card) /\ IsInjective(cards)
        /\ laid \in Layouts /\ metrics \in Layouts \cup {Nothing}
        /\ scroll \in Nat /\ scrollTop \in Nat
        /\ unheard \in BOOLEAN /\ repitched \in BOOLEAN /\ queued \in BOOLEAN
        /\ listening \in BOOLEAN
        /\ focusedIndex \in Nat \cup {Nothing} /\ focused \in Card \cup {Nothing}
        /\ changes \in 0..MaxChanges
        /\ RowIsKnown /\ LayoutIsKnown
    BY DEF ColumnsInv, ColumnsTypeOK
  <1>2. CASE Measure
    <2>1. /\ Virtualized(cards) /\ listening' = TRUE /\ MetricsAre(laid)
          /\ UNCHANGED <<cards, laid, scroll, unheard, queued, scrollTop, focusedIndex, focused, changes>>
      BY <1>2 DEF Measure
    <2>2. RowIsKnown' /\ metrics' = laid /\ repitched' \in BOOLEAN
      BY <1>1, <2>1, MeasuredKnows DEF ColumnsInv
    <2>3. LayoutIsKnown'
      BY <2>1, <2>2 DEF LayoutIsKnown, Virtualized
    <2> QED
      BY <1>1, <2>1, <2>2, <2>3 DEF ColumnsInv, ColumnsTypeOK
  <1>3. ASSUME NEW layout \in Layouts, Resize(layout) PROVE ColumnsInv'
    <2>1. /\ laid' = layout
          /\ scroll' = Least(scroll, Furthest(cards, layout))
          /\ queued' = (queued \/ scroll' # scroll)
          /\ unheard' = (unheard \/ scroll' # scroll)
          /\ UNCHANGED <<cards, scrollTop, listening, focusedIndex, focused, changes>>
          /\ IF listening THEN MetricsAre(layout) ELSE UNCHANGED <<metrics, repitched>>
      BY <1>3 DEF Resize, OffsetIs
    <2>2. scroll' \in Nat /\ queued' \in BOOLEAN /\ unheard' \in BOOLEAN
      BY <1>1, <2>1, ClampedIs
    <2>3. ~unheard' => ~unheard /\ scroll' = scroll
      BY <2>1
    <2>4. CASE listening
      <3>1. RowIsKnown' /\ metrics' = layout /\ repitched' \in BOOLEAN
        BY <1>1, <2>1, <2>3, <2>4, MeasuredKnows DEF ColumnsInv
      <3>2. LayoutIsKnown'
        BY <1>1, <2>1, <3>1 DEF LayoutIsKnown, Virtualized
      <3> QED
        BY <1>1, <1>3, <2>1, <2>2, <3>1, <3>2 DEF ColumnsInv, ColumnsTypeOK
    <2>5. CASE ~listening
      <3>1. UNCHANGED <<metrics, repitched>>
        BY <2>1, <2>5
      <3>2. RowIsKnown'
        BY <1>1, <2>1, <2>3, <3>1 DEF RowIsKnown
      <3>3. LayoutIsKnown'
        BY <2>1, <2>5 DEF LayoutIsKnown
      <3> QED
        BY <1>1, <1>3, <2>1, <2>2, <3>1, <3>2, <3>3 DEF ColumnsInv, ColumnsTypeOK
    <2> QED
      BY <2>4, <2>5
  <1>4. CASE HandleScroll
    <2>1. queued' = FALSE /\ UNCHANGED <<cards, laid, scroll, listening, metrics, focusedIndex, focused, changes>>
      BY <1>4 DEF HandleScroll
    <2>2. LayoutIsKnown'
      BY <1>1, <2>1 DEF LayoutIsKnown, Virtualized
    <2>3. CASE Virtualized(cards)
      <3>1. /\ scrollTop' = (IF SameRow(scrollTop, scroll) THEN scrollTop ELSE scroll)
            /\ unheard' = FALSE /\ repitched' = FALSE
        BY <1>4, <2>3 DEF HandleScroll
      <3>2. RowIsKnown' /\ scrollTop' \in Nat
        BY <1>1, <2>1, <3>1 DEF SameRow, RowIsKnown
      <3> QED
        BY <1>1, <2>1, <2>2, <3>1, <3>2 DEF ColumnsInv, ColumnsTypeOK
    <2>4. CASE ~Virtualized(cards)
      <3>1. UNCHANGED <<scrollTop, unheard, repitched>>
        BY <1>4, <2>4 DEF HandleScroll
      <3> QED
        BY <1>1, <2>1, <2>2, <3>1 DEF ColumnsInv, ColumnsTypeOK, RowIsKnown
    <2> QED
      BY <2>3, <2>4
  <1>5. CASE Blur
    <2>1. focusedIndex' \in Nat \cup {Nothing} /\ focused' = Nothing
      BY <1>1, <1>5 DEF Blur
    <2>2. UNCHANGED <<cards, laid, scroll, unheard, repitched, queued, scrollTop, listening, metrics, changes>>
      BY <1>5 DEF Blur
    <2> QED
      BY <1>1, <2>1, <2>2 DEF ColumnsInv, ColumnsTypeOK, RowIsKnown, LayoutIsKnown, Virtualized
  <1>6. ASSUME NEW y \in 0..Furthest(cards, laid), Scroll(y) PROVE ColumnsInv'
    <2>1. /\ scroll' = y /\ queued' = TRUE /\ unheard' = TRUE
          /\ UNCHANGED <<cards, laid, repitched, scrollTop, listening, metrics, focusedIndex, focused, changes>>
      BY <1>6 DEF Scroll, OffsetIs
    <2>2. y \in Nat
      BY <1>1, FurthestIs
    <2> QED
      BY <1>1, <2>1, <2>2 DEF ColumnsInv, ColumnsTypeOK, RowIsKnown, LayoutIsKnown, Virtualized
  <1>7. ASSUME NEW c \in Card, Arrives(c) PROVE ColumnsInv'
    BY <1>1, <1>7, ListChanges, RedrawnStays DEF Arrives
  <1>8. ASSUME NEW c \in Card, Leaves(c) PROVE ColumnsInv'
    BY <1>1, <1>8, ListChanges, RedrawnStays DEF Leaves
  <1>9. ASSUME NEW c \in Card, Focus(c) PROVE ColumnsInv'
    <2>1. /\ c \in Rendered /\ focused' = c
          /\ focusedIndex' = IF Virtualized(cards) THEN RowOf(cards, c) - 1 ELSE focusedIndex
          /\ UNCHANGED <<cards, laid, scroll, unheard, repitched, queued, scrollTop, listening, metrics, changes>>
      BY <1>9 DEF Focus
    <2>2. focusedIndex' \in Nat \cup {Nothing}
      <3>1. c \in ToSet(cards)
        <4>1. PICK i \in Slice.first..(Least(Slice.end, Len(cards)) - 1) : c = cards[i + 1]
          BY <2>1 DEF Rendered
        <4>2. Slice.first \in Nat /\ Slice.end \in Nat /\ Len(cards) \in Nat
          BY <1>1, SliceIs, LenProperties
        <4>3. i + 1 \in 1..Len(cards)
          BY <4>2 DEF Least
        <4> QED
          BY <1>1, <4>1, <4>3, LenProperties DEF ToSet
      <3>2. RowOf(cards, c) - 1 \in Nat
        BY <1>1, <3>1, TheRowOf
      <3> QED
        BY <1>1, <2>1, <3>2
    <2> QED
      BY <1>1, <2>1, <2>2 DEF ColumnsInv, ColumnsTypeOK, RowIsKnown, LayoutIsKnown, Virtualized
  <1>10. CASE UNCHANGED columnsVars
    BY <1>1, <1>10 DEF ColumnsInv, ColumnsTypeOK, RowIsKnown, LayoutIsKnown, Virtualized, columnsVars
  <1> QED
    BY <1>2, <1>3, <1>4, <1>5, <1>6, <1>7, <1>8, <1>9, <1>10 DEF ColumnsNext

\* A column that was told of every scroll mounts what is in view.
LEMMA TheViewportIsCovered == ColumnsInv => ViewportCovered
  <1> SUFFICES ASSUME ColumnsInv, listening, ~unheard, ~repitched, NEW c \in InView
               PROVE  c \in Rendered
    BY DEF ViewportCovered
  <1>1. /\ cards \in Seq(Card) /\ scroll \in Nat /\ scrollTop \in Nat
        /\ focusedIndex \in Nat \cup {Nothing}
        /\ laid \in Layouts /\ metrics = laid /\ Virtualized(cards)
    BY DEF ColumnsInv, ColumnsTypeOK, LayoutIsKnown
  <1>2. PICK p \in Nat \ {0}, h \in Nat \ {0} : p = laid.pitch /\ h = laid.viewportH
    BY <1>1, LayoutIs
  <1>3. scroll \div p = scrollTop \div p
    BY <1>1, <1>2 DEF ColumnsInv, RowIsKnown
  <1>4. PICK tall \in 1..p : tall = p - CardGap
    BY <1>1, <1>2, LayoutIs
  <1>5. /\ Overscan \in Nat \ {0} /\ Len(cards) \in Nat /\ DOMAIN cards = 1..Len(cards)
    BY <1>1, ColumnsAssumption, LenProperties
  <1>6. PICK i \in 1..Len(cards) : c = cards[i] /\ (i - 1) * p < scroll + h /\ i * p - CardGap > scroll
    BY <1>2, <1>5 DEF InView
  <1>7. PICK j \in 0..(Len(cards) - 1) : j = i - 1
    BY <1>5
  <1>8. j * p < scroll + h /\ j * p + tall > scroll
    <2>1. j \in Nat /\ i = j + 1
      BY <1>5, <1>7
    <2>2. PICK m \in Nat : m = j * p
      BY <2>1, MoreRows
    <2>3. i * p = m + p
      BY <2>1, <2>2
    <2>4. CardGap \in Nat
      BY ColumnsAssumption
    <2> QED
      BY <1>1, <1>4, <1>6, <1>7, <2>2, <2>3, <2>4
  <1>9. PICK n \in Nat \ {0} : n = Len(cards)
    <2>1. Len(cards) # 0
      BY <1>5, <1>6
    <2>2. Len(cards) \in Nat \ {0}
      BY <1>5, <2>1
    <2> QED
      BY <2>2
  <1> DEFINE window == windowFor(Len(cards), scrollTop, h, p)
  <1>10. window.first \in Nat /\ window.end \in Nat /\ window.first <= j /\ j < window.end
    <2>1. j \in 0..(n - 1)
      BY <1>7, <1>9
    <2>2. LET w == windowFor(n, scrollTop, h, p)
          IN  w.first \in Nat /\ w.end \in Nat /\ w.first <= j /\ j < w.end
      BY <1>1, <1>3, <1>5, <1>8, <2>1, WindowCovers
    <2> QED
      BY <1>9, <2>2
  <1>11. Slice = withFocusHeld(window, focusedIndex)
    <2>1. metrics # Nothing
      BY <1>1, ColumnsAssumption
    <2> QED
      BY <1>1, <1>2, <2>1 DEF Slice
  <1> HIDE DEF window
  <1>12. Slice.first \in Nat /\ Slice.end \in Nat /\ Slice.first <= j /\ j < Slice.end
    <2>1. j \in Nat
      BY <1>5, <1>7
    <2>2. LET held == withFocusHeld(window, focusedIndex)
          IN  held.first \in Nat /\ held.end \in Nat /\ held.first <= j /\ j < held.end
      BY <1>1, <1>10, <2>1, FocusWidens
    <2> QED
      BY <1>11, <2>2
  <1>13. j \in Slice.first..(Least(Slice.end, Len(cards)) - 1)
    BY <1>5, <1>7, <1>12 DEF Least
  <1> QED
    BY <1>6, <1>7, <1>13 DEF Rendered

\* Whatever the pitches, the heights, the resizes and the scrolling, a column that listens
\* mounts every card in view once it heard of every scroll, unless a new pitch came while
\* the offset was inside a row (virtual-window.ts:96-133, pipeline-columns.tsx:265-303).
THEOREM NoCardIsMissed == ColumnsSpec => [](ColumnsTypeOK /\ ViewportCovered)
  <1>1. ColumnsInit => ColumnsInv
    BY ColumnsStart
  <1>2. ColumnsInv /\ [ColumnsNext]_columnsVars => ColumnsInv'
    BY ColumnsStays
  <1>3. ColumnsInv => ColumnsTypeOK /\ ViewportCovered
    BY TheViewportIsCovered DEF ColumnsInv
  <1> QED
    BY <1>1, <1>2, <1>3, PTL DEF ColumnsSpec
=============================================================================
