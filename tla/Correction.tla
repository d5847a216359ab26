----------------------------- MODULE Correction -----------------------------
(***************************************************************************)
(* An admin corrects the earnings board.  The form holds one idempotency key *)
(* until a correction is answered "applied"; the ledger takes one entry per  *)
(* key and answers a repeated key as if it had just taken it.  Answers are   *)
(* lost before or after the entry is written.                                *)
(***************************************************************************)
EXTENDS Naturals, Sequences, FiniteSets

CONSTANTS
    Seller, Delta,  \* whose total, and by how much it may be corrected
    NoForm,         \* the form is not on the screen, no message on it
    MaxSubmits,     \* bound: submissions
    MaxLosses       \* bound: answers and readings lost

ASSUME CorrectionAssumption ==
    /\ NoForm \notin Delta /\ Seller # {} /\ Delta # {}
    /\ MaxSubmits \in Nat /\ MaxLosses \in Nat

\* What a form can be; null is none.
Form == [owner : Seller, delta : Delta, confirming : BOOLEAN, busy : BOOLEAN, key : Nat,
         sheet : Nat, applied : Delta \cup {NoForm}, changed : BOOLEAN]

ASSUME NoFormIsNull == NoForm \notin Form

VARIABLES
    page,           \* "loading", "ready" or "error"
    pageReads,     \* readings of the board under way
    form,           \* what Correction holds
    keys,           \* keys handed out so far
    submits,        \* submissions, in the order they were made
    ledger,         \* the manual adjustments, each by the submission it took
    losses

correctionVars == <<page, pageReads, form, keys, submits, ledger, losses>>

Lose == losses < MaxLosses /\ losses' = losses + 1

\* The form as it mounts: the first seller, a new key.  `sheet` is history: the
\* form the admin has before him, until a correction is answered.
Opened(key) ==
    [owner |-> CHOOSE s \in Seller : TRUE, delta |-> CHOOSE d \in Delta : TRUE,
     confirming |-> FALSE, busy |-> FALSE, key |-> key, sheet |-> key,
     applied |-> NoForm, changed |-> FALSE]

CorrectionInit ==
    /\ page = "loading" /\ pageReads = 1
    /\ form = NoForm /\ keys = 0
    /\ submits = <<>> /\ ledger = <<>>
    /\ losses = 0

----------------------------------------------------------------------------
\* The page: a reading that fails takes the form away, a later one gives a new.
BoardRead ==
    /\ pageReads > 0 /\ pageReads' = pageReads - 1
    /\ page' = "ready"
    /\ IF page = "ready" THEN UNCHANGED <<form, keys>>
       ELSE form' = Opened(keys + 1) /\ keys' = keys + 1
    /\ UNCHANGED <<submits, ledger, losses>>

BoardReadFailed ==
    /\ pageReads > 0 /\ pageReads' = pageReads - 1
    /\ Lose
    /\ page' = "error" /\ form' = NoForm
    /\ UNCHANGED <<keys, submits, ledger>>

----------------------------------------------------------------------------
\* The form.  Its fields are disabled while a submission is out; `changed` is
\* history: what is in them is not what this key was first sent with.
Sent == {i \in DOMAIN submits : submits[i].sheet = form.sheet}

Edit(owner, delta) ==
    /\ form # NoForm /\ ~form.busy
    /\ <<owner, delta>> # <<form.owner, form.delta>>
    /\ form' = [form EXCEPT !.owner = owner, !.delta = delta, !.changed = Sent # {}]
    /\ UNCHANGED <<page, pageReads, keys, submits, ledger, losses>>

Review ==
    /\ form # NoForm /\ ~form.busy /\ ~form.confirming
    /\ form' = [form EXCEPT !.confirming = TRUE]
    /\ UNCHANGED <<page, pageReads, keys, submits, ledger, losses>>

submit ==
    /\ form # NoForm /\ form.confirming /\ ~form.busy
    /\ Len(submits) < MaxSubmits
    /\ form' = [form EXCEPT !.busy = TRUE]
    /\ submits' = Append(submits,
            [key |-> form.key, sheet |-> form.sheet, owner |-> form.owner,
             delta |-> form.delta, changed |-> form.changed, answer |-> "none", heard |-> "waiting"])
    /\ UNCHANGED <<page, pageReads, keys, ledger, losses>>

\* correctLedger and ledger_adjust: a key the ledger has is a success that
\* writes nothing, whatever the rest of the form says.
Known(key) == \E e \in DOMAIN ledger : submits[ledger[e]].key = key

correctLedger(i) ==
    /\ submits[i].answer = "none"
    /\ \/ /\ submits' = [submits EXCEPT ![i].answer = "applied"]
          /\ IF Known(submits[i].key) THEN UNCHANGED ledger
             ELSE ledger' = Append(ledger, i)
          /\ UNCHANGED losses
       \/ /\ Lose
          /\ submits' = [submits EXCEPT ![i].answer = "refused"]
          /\ UNCHANGED ledger
    /\ UNCHANGED <<page, pageReads, form, keys>>

\* The form that asked, if it is still there, and the page behind it.
Asked(i) == form # NoForm /\ form.sheet = submits[i].sheet

Answered(i) ==
    /\ submits[i].heard = "waiting" /\ submits[i].answer # "none"
    /\ submits' = [submits EXCEPT ![i].heard = "yes"]
    /\ IF submits[i].answer = "applied"
       THEN /\ form' = IF Asked(i) THEN [Opened(keys + 1) EXCEPT !.owner = form.owner,
                                            !.applied = submits[i].delta] ELSE form
            /\ keys' = IF Asked(i) THEN keys + 1 ELSE keys
            /\ pageReads' = pageReads + 1
       ELSE /\ form' = IF Asked(i) THEN [form EXCEPT !.busy = FALSE] ELSE form
            /\ UNCHANGED <<keys, pageReads>>
    /\ UNCHANGED <<page, ledger, losses>>

\* The answer is lost; the submission may yet reach the server.
AnswerLost(i) ==
    /\ submits[i].heard = "waiting"
    /\ Lose
    /\ submits' = [submits EXCEPT ![i].heard = "lost"]
    /\ form' = IF Asked(i) THEN [form EXCEPT !.busy = FALSE] ELSE form
    /\ UNCHANGED <<page, pageReads, keys, ledger>>

CorrectionNext ==
    \/ BoardRead \/ BoardReadFailed \/ Review \/ submit
    \/ \E owner \in Seller, delta \in Delta : Edit(owner, delta)
    \/ \E i \in DOMAIN submits : correctLedger(i) \/ Answered(i) \/ AnswerLost(i)

CorrectionSpec == CorrectionInit /\ [][CorrectionNext]_correctionVars

----------------------------------------------------------------------------
CorrectionTypeOK ==
    /\ page \in {"loading", "ready", "error"}
    /\ pageReads \in 0..(MaxSubmits + 1) /\ losses \in 0..MaxLosses
    /\ (form # NoForm) <=> (page = "ready")
    /\ form # NoForm => form.key \in 1..keys
    /\ \A i \in DOMAIN submits : submits[i].key \in 1..keys
    /\ ledger \in Seq(DOMAIN submits)

Tries(sheet)   == {j \in DOMAIN submits : submits[j].sheet = sheet}
EntriesOf(sheet) == {e \in DOMAIN ledger : ledger[e] \in Tries(sheet)}
Applied(i)     == submits[i].heard = "yes" /\ submits[i].answer = "applied"

\* One correction moves the board once, and by what it says: a form has one
\* entry on the ledger when it is answered, with the amount it was answered
\* for unless it was changed between two tries, however many answers were lost
\* before and however late the tries arrived (ui/earnings-admin.tsx:198-201,
\* 0071_ledger_correction.sql:113-145).
CorrectedOnce ==
    \A i \in DOMAIN submits : Applied(i) =>
        /\ Cardinality(EntriesOf(submits[i].sheet)) = 1
        /\ (\A j \in Tries(submits[i].sheet) : ~submits[j].changed) =>
                \A e \in EntriesOf(submits[i].sheet) :
                    /\ submits[ledger[e]].owner = submits[i].owner
                    /\ submits[ledger[e]].delta = submits[i].delta

\* "Correction recorded. The board has been updated." (ui/earnings-admin.tsx:267):
\* what was answered applied is what the ledger holds.
AppliedIsRecorded ==
    \A i \in DOMAIN submits : Applied(i) =>
        \E e \in EntriesOf(submits[i].sheet) :
            /\ submits[ledger[e]].owner = submits[i].owner
            /\ submits[ledger[e]].delta = submits[i].delta
=============================================================================
