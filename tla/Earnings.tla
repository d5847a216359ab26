------------------------------ MODULE Earnings ------------------------------
(* The money path: stage_move writes the earnings ledger, ledger_append keeps  *)
(* the leaderboard projection, leaderboard_read publishes it with young entries *)
(* withheld, celebrate_once claims the confetti, ledger_adjust corrects.  A     *)
(* stage_move holds the opportunity's row lock from its read to its commit, so  *)
(* it is one step; celebrate_once takes no lock, so it is two.                  *)
(*                                                                             *)
(* A stage is its stage_type, the only thing of it the code branches on, and a  *)
(* premium is its annual amount.  The ledger and projection hold one tenant;    *)
(* week and month buckets behave as day does and are left out.                  *)
EXTENDS Integers, Sequences, FiniteSets, FiniteSetsExt

CONSTANTS
    Opportunity,
    Seller,
    Owner,          \* Owner[o]: the seller a card belongs to
    Premium,        \* annual premiums a seller may enter
    MoveKey,        \* client_move_key values
    AdjustKey,      \* idempotency keys of corrections
    Correction,     \* delta_cents an admin may enter
    Claimant,       \* browser sessions that claim a celebration
    UndoDeadline, RevealDelay, ClaimGrace,  \* ref.timing_constant
    DayLength,      \* ticks in a business day
    MaxTime,        \* bound on the clock
    MaxMoves,       \* bound on stage moves
    None            \* SQL NULL

ASSUME EarningsConstants ==
    /\ Owner \in [Opportunity -> Seller]
    /\ Premium \subseteq Nat \ {0}
    /\ Correction \subseteq Int \ {0}
    /\ AdjustKey \cap Nat = {}
    /\ {UndoDeadline, RevealDelay, ClaimGrace, MaxTime, MaxMoves} \subseteq Nat
    /\ DayLength \in Nat \ {0}
    /\ UndoDeadline < RevealDelay
    /\ None \notin Nat \cup MoveKey \cup AdjustKey \cup Opportunity

VARIABLES
    now,            \* clock_timestamp()
    stage,          \* opportunity.current_stage_type
    premium,        \* opportunity.premium_annual_cents
    lostReason,     \* opportunity.lost_reason_id is set
    celebratedAt,   \* opportunity.celebrated_at
    transitions,    \* stage_transition rows, in order: their client_move_key
    ledger,         \* earnings_ledger
    projection,     \* leaderboard_projection
    audits,         \* audit_log rows of ledger_adjust, by correction
    claim           \* the card a claimant passed celebrate_once's checks for

cards == <<stage, premium, lostReason>>
book  == <<ledger, projection>>
vars  == <<now, cards, celebratedAt, transitions, book, audits, claim>>

StageType == {"open", "earning", "lost"}
Moves == 1..MaxMoves
EntryId == Moves \cup AdjustKey

Day(t) == t \div DayLength
AllTime == <<"all_time", 0>>
DayBucket(d) == <<"day", d>>
Bucket == {AllTime} \cup {DayBucket(d) : d \in 0..Day(MaxTime)}

\* `id` is source_event_id, which is unique as the row's own id is; `seq` is the
\* order of the appends, the order of recorded_at among a card's entries.
Entry == [id : EntryId, seq : Nat, kind : {"sale", "reversal", "manual_adjustment"},
          owner : Seller, delta : Int, opp : Opportunity \cup {None}, at : Nat,
          reverses : EntryId \cup {None}]

EarningsTypeOK ==
    /\ now \in 0..MaxTime
    /\ stage \in [Opportunity -> StageType]
    /\ premium \in [Opportunity -> Premium \cup {None}]
    /\ lostReason \in [Opportunity -> BOOLEAN]
    /\ celebratedAt \in [Opportunity -> Nat \cup {None}]
    /\ transitions \in Seq(MoveKey \cup {None})
    /\ Len(transitions) <= MaxMoves
    /\ ledger \subseteq Entry
    /\ projection \in [Bucket \X Seller -> [total : Int, count : Nat]]
    /\ audits \in [AdjustKey -> Nat]
    /\ claim \in [Claimant -> Opportunity \cup {None}]

\* Cards start in an open stage without a premium (opportunity_create).
Init ==
    /\ now = 0
    /\ stage = [o \in Opportunity |-> "open"]
    /\ premium = [o \in Opportunity |-> None]
    /\ lostReason = [o \in Opportunity |-> FALSE]
    /\ celebratedAt = [o \in Opportunity |-> None]
    /\ transitions = <<>>
    /\ ledger = {}
    /\ projection = [x \in Bucket \X Seller |-> [total |-> 0, count |-> 0]]
    /\ audits = [k \in AdjustKey |-> 0]
    /\ claim = [c \in Claimant |-> None]

-----------------------------------------------------------------------------
(* The ledger *)

Sales(o) == {e \in ledger : e.kind = "sale" /\ e.opp = o}
Reversed(e) == \E r \in ledger : r.reverses = e.id
Unreversed(o) == {e \in Sales(o) : ~Reversed(e)}
Latest(S) == CHOOSE e \in S : \A f \in S : f.seq <= e.seq

\* The projection buckets an entry counts in.
Buckets(e) == {AllTime, DayBucket(Day(e.at))}

\* Wrong variants: one bucket only, and a count that a negative entry takes back.
ProjectAllTimeOnly(e) ==
    projection' = [projection EXCEPT ![<<AllTime, e.owner>>] =
        [total |-> @.total + e.delta, count |-> @.count + 1]]
ProjectNet(e) ==
    projection' = [projection EXCEPT ![<<AllTime, e.owner>>] =
        [total |-> @.total + e.delta,
         count |-> IF e.delta < 0 THEN @.count - 1 ELSE @.count + 1]]

\* The ON CONFLICT ... DO UPDATE loop over the period buckets.
Project(e) ==
    projection' = [x \in Bucket \X Seller |->
        IF x[1] \in Buckets(e) /\ x[2] = e.owner
        THEN [total |-> projection[x].total + e.delta, count |-> projection[x].count + 1]
        ELSE projection[x]]

\* ledger_append: an entry whose source event is already there changes nothing.
LedgerAppend(id, kind, owner, delta, opp, reverses) ==
    IF \E e \in ledger : e.id = id
    THEN UNCHANGED book
    ELSE LET new == [id |-> id, seq |-> Cardinality(ledger) + 1, kind |-> kind,
                     owner |-> owner, delta |-> delta, opp |-> opp, at |-> now,
                     reverses |-> reverses]
         IN  ledger' = ledger \cup {new} /\ Project(new)

-----------------------------------------------------------------------------
(* stage_move *)

KeyFree(k) == k = None \/ \A n \in DOMAIN transitions : transitions[n] # k

\* The card has a value when it lands in an earning stage, a reason in a lost one.
GatesPass(o, to, annual, reason) ==
    /\ to = "earning" => annual # None
    /\ to = "lost" => reason \/ lostReason[o]

\* Wrong variants: a credit for every move into an earning stage, and a reversal
\* that forgets to look for its sale on its own card.
CreditAlways(tid, o, to, annual) ==
    CASE to = "earning" -> LedgerAppend(tid, "sale", Owner[o], annual, o, None)
      [] to # "earning" /\ stage[o] = "earning" ->
            /\ Unreversed(o) # {}
            /\ LedgerAppend(tid, "reversal", Owner[o], -premium[o], o,
                            Latest(Unreversed(o)).id)
      [] OTHER -> UNCHANGED book
CreditAnyCard(tid, o, to, annual) ==
    CASE to = "earning" /\ stage[o] # "earning" ->
            LedgerAppend(tid, "sale", Owner[o], annual, o, None)
      [] to # "earning" /\ stage[o] = "earning" ->
            LedgerAppend(tid, "reversal", Owner[o], -premium[o], o,
                         Latest(UNION {Unreversed(q) : q \in Opportunity}).id)
      [] OTHER -> UNCHANGED book

\* What the move does to the ledger.  Entering an earning stage credits the new
\* premium; leaving one reverses the latest standing sale by the premium the card
\* had before this move.  With nothing to reverse the move fails (SM005).
Credit(tid, o, to, annual) ==
    CASE to = "earning" /\ stage[o] # "earning" ->
            LedgerAppend(tid, "sale", Owner[o], annual, o, None)
      [] to # "earning" /\ stage[o] = "earning" ->
            /\ Unreversed(o) # {}
            /\ LedgerAppend(tid, "reversal", Owner[o], -premium[o], o,
                            Latest(Unreversed(o)).id)
      [] OTHER -> UNCHANGED book

\* stage_move by the card's owner; a client_move_key seen before answers without
\* doing anything, so only the first use of a key is a step.
StageMove(o, to, k, p, reason) ==
    LET annual == IF p = None THEN premium[o] ELSE p
        tid == Len(transitions) + 1
    IN  /\ tid <= MaxMoves
        /\ KeyFree(k)
        /\ GatesPass(o, to, annual, reason)
        /\ stage' = [stage EXCEPT ![o] = to]
        /\ premium' = [premium EXCEPT ![o] = annual]
        /\ lostReason' = [lostReason EXCEPT ![o] = @ \/ reason]
        /\ transitions' = Append(transitions, k)
        /\ Credit(tid, o, to, annual)
        /\ UNCHANGED <<now, celebratedAt, audits, claim>>

-----------------------------------------------------------------------------
(* celebrate_once *)

\* The latest sale stands, its undo window has closed and the grace has not.
MayCelebrate(o) ==
    /\ Sales(o) # {}
    /\ LET s == Latest(Sales(o))
       IN  /\ ~Reversed(s)
           /\ now >= s.at + UndoDeadline
           /\ now < s.at + UndoDeadline + ClaimGrace

\* The SELECTs of celebrate_once; a refusal changes nothing.
CelebrateCheck(c, o) ==
    /\ claim[c] = None
    /\ MayCelebrate(o)
    /\ claim' = [claim EXCEPT ![c] = o]
    /\ UNCHANGED <<now, cards, celebratedAt, transitions, book, audits>>

\* Wrong variant: the UPDATE without its IS NULL.
CelebrateAgain(c) ==
    /\ claim[c] # None
    /\ celebratedAt' = [celebratedAt EXCEPT ![claim[c]] = now]
    /\ claim' = [claim EXCEPT ![c] = None]
    /\ UNCHANGED <<now, cards, transitions, book, audits>>

\* Its UPDATE ... WHERE celebrated_at IS NULL.
CelebrateWrite(c) ==
    /\ claim[c] # None
    /\ celebratedAt' = [celebratedAt EXCEPT ![claim[c]] = IF @ = None THEN now ELSE @]
    /\ claim' = [claim EXCEPT ![c] = None]
    /\ UNCHANGED <<now, cards, transitions, book, audits>>

-----------------------------------------------------------------------------
(* ledger_adjust *)

\* An admin's correction; a retry with the same key finds the entry and writes
\* neither a second one nor a second audit row.
LedgerAdjust(k, s, delta) ==
    /\ LedgerAppend(k, "manual_adjustment", s, delta, None, None)
    /\ audits' = IF \E e \in ledger : e.id = k THEN audits
                 ELSE [audits EXCEPT ![k] = @ + 1]
    /\ UNCHANGED <<now, cards, celebratedAt, transitions, claim>>

Tick ==
    /\ now < MaxTime
    /\ now' = now + 1
    /\ UNCHANGED <<cards, celebratedAt, transitions, book, audits, claim>>

Next ==
    \/ \E o \in Opportunity, to \in StageType, k \in MoveKey \cup {None},
          p \in Premium \cup {None}, reason \in BOOLEAN : StageMove(o, to, k, p, reason)
    \/ \E c \in Claimant, o \in Opportunity : CelebrateCheck(c, o)
    \/ \E c \in Claimant : CelebrateWrite(c)
    \/ \E k \in AdjustKey, s \in Seller, d \in Correction : LedgerAdjust(k, s, d)
    \/ Tick

Spec == Init /\ [][Next]_vars

-----------------------------------------------------------------------------
(* leaderboard_read *)

Sum(S) == MapThenSumSet(LAMBDA e : e.delta, S)

\* r undid e: it came within the undo deadline of it.
Undoes(r, e) == r.reverses = e.id /\ r.at <= e.at + UndoDeadline

\* Wrong variants: the undone half still withheld, and the shorter of the delays.
UndoingHalf(e) == \E f \in ledger : Undoes(e, f)
YoungUntilUndo(e) == e.at > now - UndoDeadline

InUndoPair(e) == \E f \in ledger : Undoes(e, f) \/ Undoes(f, e)
Young(e) == e.at > now - RevealDelay

Withheld(b, s) ==
    {e \in ledger : e.owner = s /\ b \in Buckets(e) /\ Young(e) /\ ~InUndoPair(e)}

\* The total the public board shows.
Published(b, s) == projection[<<b, s>>].total - Sum(Withheld(b, s))

-----------------------------------------------------------------------------
(* Properties *)

InBucket(b, s) == {e \in ledger : e.owner = s /\ b \in Buckets(e)}

\* The incremental projection agrees with the ledger it summarises, whatever
\* order wins, undos and corrections arrive in and however often a correction is
\* retried; nothing recomputes it ("the ledger has no recompute job to notice").
ProjectionIsLedger ==
    \A b \in Bucket, s \in Seller :
        projection[<<b, s>>] =
            [total |-> Sum(InBucket(b, s)), count |-> Cardinality(InBucket(b, s))]

\* A card in an earning stage has exactly one standing sale and any other card
\* has none: so leaving an earning stage always finds its credit (SM005 cannot
\* happen) and no card is credited twice.
OneStandingSale ==
    \A o \in Opportunity :
        Cardinality(Unreversed(o)) = IF stage[o] = "earning" THEN 1 ELSE 0

\* A reversal belongs to the card and seller of the sale it names, follows it, and
\* no sale is reversed twice (earnings_reverses_uidx would refuse the move).
ReversalsPairUp ==
    \A r \in ledger : r.kind = "reversal" =>
        /\ \E e \in Sales(r.opp) : e.id = r.reverses /\ e.owner = r.owner /\ e.seq < r.seq
        /\ \A q \in ledger : q.reverses = r.reverses => q = r

\* Each correction on the board has one audit row and each audit row a correction,
\* retries included (0071: the row is written only when the entry is fresh).
AuditedOnce ==
    \A k \in AdjustKey :
        audits[k] = Cardinality({e \in ledger : e.id = k})

\* Every entry of the ledger is counted where it must be and once: in the
\* projection (0009) and, if it is a correction, in the audit (0071).
EntriesAreCounted == ProjectionIsLedger /\ AuditedOnce

\* A card is celebrated once in its life: with two sessions claiming at the same
\* instant, and across a second win, the first timestamp stays.
CelebratedOnce ==
    [][\A o \in Opportunity : celebratedAt[o] # None => celebratedAt'[o] = celebratedAt[o]]_vars

\* 0021: "REVERSED A win whose credit was reversed is refused", "the whole office
\* watching confetti for a cancelled sale".
CelebratesAStandingWin ==
    [][\A o \in Opportunity : celebratedAt'[o] # celebratedAt[o] => Unreversed(o) # {}]_vars

\* What the board owes its viewers, said without the queries of the read: an
\* entry counts from RevealDelay after it was recorded, unless it was undone
\* within UndoDeadline or is itself such an undo.
Counts(e) ==
    /\ now - e.at >= RevealDelay
    /\ ~\E f \in ledger : \/ f.reverses = e.id /\ f.at - e.at <= UndoDeadline
                          \/ e.reverses = f.id /\ e.at - f.at <= UndoDeadline

Honest(b, s) == Sum({e \in InBucket(b, s) : Counts(e)})

\* The all-time board shows exactly that: an undone sale never appears, not even
\* when one half of it ages past the reveal delay before the other.
HonestAllTime == \A s \in Seller : Published(AllTime, s) = Honest(AllTime, s)

\* R1.3, "no viewer ever sees a number that later corrects itself": an entry that
\* the board has begun to show can no longer become half of an undo, because the
\* reveal delay outlasts the undo deadline.
RevealedIsFinal ==
    [][\A e \in ledger : ~Young(e) /\ ~InUndoPair(e) => ~InUndoPair(e)']_vars

\* 0019: "A REVERSAL RECORDED WITHIN undo_deadline_ms OF THE ENTRY IT REVERSES IS
\* AN UNDO, AND NEITHER HALF IS EVER PUBLISHED", on every board.
HonestBoard == \A b \in Bucket, s \in Seller : Published(b, s) = Honest(b, s)

\* 0019: "a pair that nets to zero needs no subtraction at all".
ReversalCancels ==
    \A r \in ledger : r.kind = "reversal" =>
        \A e \in ledger : e.id = r.reverses => e.delta + r.delta = 0
=============================================================================
