--------------------------- MODULE EarningsProof ---------------------------
(* What the ledger, the board and the celebration keep for every set of cards, *)
(* sellers and amounts.                                                        *)
EXTENDS Earnings, FiniteSetTheorems, TLAPS

-----------------------------------------------------------------------------
(* The inductive invariant *)

Typed == EarningsTypeOK /\ IsFiniteSet(ledger)

\* The ids of moves and of corrections identify entries, which are numbered in
\* the order they were appended.
Identified ==
    /\ \A e, f \in ledger : e.id = f.id => e = f
    /\ \A e \in ledger : e.seq <= Cardinality(ledger)
    /\ \A e \in ledger : e.id \in Nat => e.id <= Len(transitions)

\* Entries of moves are of a card and its owner; only reversals reverse.
OfItsCard ==
    \A e \in ledger :
        IF e.kind = "manual_adjustment" THEN e.id \in AdjustKey /\ e.reverses = None
        ELSE /\ e.id \in Moves
             /\ e.opp \in Opportunity
             /\ e.owner = Owner[e.opp]
             /\ e.kind = "sale" => e.reverses = None

\* A card in an earning stage has a premium and one sale stands behind it.
Standing ==
    \A o \in Opportunity :
        IF stage[o] = "earning"
        THEN premium[o] # None /\ \E e \in ledger : Unreversed(o) = {e}
        ELSE Unreversed(o) = {}

Kept == Typed /\ Identified /\ OfItsCard /\ ReversalsPairUp /\ Standing

\* One new entry, the first of its id.
Adds(new) ==
    /\ new \in Entry
    /\ ledger' = ledger \cup {new}
    /\ new.seq = Cardinality(ledger) + 1
    /\ new.at = now
    /\ \A e \in ledger : e.id # new.id

-----------------------------------------------------------------------------
(* What one entry does to the ledger *)

\* ledger_append leaves the ledger alone or adds the one entry asked for, and
\* keeps the projection's type.
LEMMA AppendAdds ==
    ASSUME Typed, NEW id \in EntryId, NEW kind \in {"sale", "reversal", "manual_adjustment"},
           NEW owner \in Seller, NEW delta \in Int, NEW opp \in Opportunity \cup {None},
           NEW reverses \in EntryId \cup {None},
           LedgerAppend(id, kind, owner, delta, opp, reverses),
           \A e \in ledger : e.id # id
    PROVE  /\ \E new : /\ Adds(new)
                       /\ new.id = id /\ new.kind = kind /\ new.owner = owner
                       /\ new.opp = opp /\ new.reverses = reverses
           /\ projection' \in [Bucket \X Seller -> [total : Int, count : Nat]]
<1> DEFINE new == [id |-> id, seq |-> Cardinality(ledger) + 1, kind |-> kind,
                   owner |-> owner, delta |-> delta, opp |-> opp, at |-> now,
                   reverses |-> reverses]
<1>1. ledger' = ledger \cup {new} /\ Project(new)
    BY DEF LedgerAppend
<1>2. Cardinality(ledger) \in Nat
    BY FS_CardinalityType DEF Typed
<1>3. now \in Nat
    BY EarningsConstants DEF Typed, EarningsTypeOK
<1>4. new \in Entry
    BY <1>2, <1>3 DEF Entry
<1>5. Adds(new)
    BY <1>1, <1>4 DEF Adds
<1>6. ASSUME NEW x \in Bucket \X Seller
      PROVE  /\ projection[x] \in [total : Int, count : Nat]
             /\ [total |-> projection[x].total + new.delta, count |-> projection[x].count + 1]
                    \in [total : Int, count : Nat]
    BY DEF Typed, EarningsTypeOK
<1>7. projection' \in [Bucket \X Seller -> [total : Int, count : Nat]]
    BY <1>1, <1>6 DEF Project
<1> QED
    BY <1>5, <1>7

\* One more entry keeps the ledger typed and its entries identified.
LEMMA AddsIdentified ==
    ASSUME Typed, Identified, NEW new, Adds(new),
           Len(transitions') >= Len(transitions), transitions' \in Seq(MoveKey \cup {None}),
           new.id \in Nat => new.id <= Len(transitions')
    PROVE  ledger' \subseteq Entry /\ IsFiniteSet(ledger') /\ Identified'
<1>1. ledger' \subseteq Entry
    BY DEF Typed, EarningsTypeOK, Adds
<1>2. new \notin ledger
    BY DEF Adds
<1>3. IsFiniteSet(ledger') /\ Cardinality(ledger') = Cardinality(ledger) + 1
    BY <1>2, FS_AddElement DEF Typed, Adds
<1>4. Cardinality(ledger) \in Nat
    BY FS_CardinalityType DEF Typed
<1>5. \A e, f \in ledger' : e.id = f.id => e = f
    BY DEF Identified, Adds
<1>6. \A e \in ledger' : e.seq <= Cardinality(ledger')
    <2>1. \A e \in ledger' : e.seq \in Nat
        BY <1>1 DEF Entry
    <2> QED
        BY <2>1, <1>3, <1>4 DEF Identified, Adds
<1>7. \A e \in ledger' : e.id \in Nat => e.id <= Len(transitions')
    <2>1. Len(transitions) \in Nat /\ Len(transitions') \in Nat
        BY DEF Typed, EarningsTypeOK
    <2> QED
        BY <2>1 DEF Identified, Adds
<1> QED
    BY <1>1, <1>3, <1>5, <1>6, <1>7 DEF Identified

\* Every reversal names an entry of the ledger.
LEMMA ReversesExisting ==
    ASSUME OfItsCard, ReversalsPairUp, NEW r \in ledger, r.reverses # None,
           ledger \subseteq Entry
    PROVE  r.kind = "reversal" /\ \E e \in ledger : e.id = r.reverses
<1>1. r.kind = "reversal"
    BY DEF OfItsCard, Entry
<1> QED
    BY <1>1 DEF ReversalsPairUp, Sales

\* An entry that reverses nothing leaves every sale as it stood, and stands
\* itself if it is a sale.
LEMMA UnreversedBySale ==
    ASSUME Typed, OfItsCard, ReversalsPairUp, NEW new, Adds(new), new.reverses = None,
           NEW o \in Opportunity
    PROVE  Unreversed(o)' = IF new.kind = "sale" /\ new.opp = o
                            THEN Unreversed(o) \cup {new} ELSE Unreversed(o)
<1>1. \A e \in ledger' : e.id # None
    BY EarningsConstants DEF Typed, EarningsTypeOK, Adds, Entry, EntryId, Moves
<1>2. \A e \in ledger : Reversed(e)' <=> Reversed(e)
    BY <1>1 DEF Reversed, Adds
<1>3. ~Reversed(new)'
    <2>1. \A r \in ledger : r.reverses # new.id
        BY <1>1, ReversesExisting DEF Adds, Typed, EarningsTypeOK
    <2> QED
        BY <2>1, <1>1 DEF Reversed, Adds
<1> QED
    BY <1>2, <1>3 DEF Unreversed, Sales, Adds

\* A reversal takes its own sale away, and no other.
LEMMA UnreversedByReversal ==
    ASSUME Typed, Identified, NEW new, Adds(new), new.kind = "reversal",
           NEW e \in ledger, new.reverses = e.id, NEW o \in Opportunity
    PROVE  Unreversed(o)' = Unreversed(o) \ {e}
<1>1. \A f \in ledger : Reversed(f)' <=> Reversed(f) \/ f = e
    BY DEF Reversed, Adds, Identified
<1> QED
    BY <1>1 DEF Unreversed, Sales, Adds

-----------------------------------------------------------------------------
(* What a move does *)

\* The steps that touch no card, entry or move.
LEMMA Quiet ==
    ASSUME Kept, UNCHANGED <<stage, premium, transitions, ledger>>
    PROVE  (Identified /\ OfItsCard /\ ReversalsPairUp /\ Standing)'
BY DEF Kept, Identified, OfItsCard, ReversalsPairUp, Standing, Sales, Unreversed, Reversed

\* A move that credits: the card has no standing sale, and has one after it.
LEMMA Credited ==
    ASSUME Kept, NEW o \in Opportunity, stage[o] # "earning", NEW new, Adds(new),
           new.kind = "sale", new.opp = o, new.owner = Owner[o], new.reverses = None,
           new.id \in Moves, premium'[o] # None,
           stage' = [stage EXCEPT ![o] = "earning"],
           \A q \in Opportunity : q # o => premium'[q] = premium[q]
    PROVE  (OfItsCard /\ ReversalsPairUp /\ Standing)'
<1> USE DEF Kept
<1>1. OfItsCard'
    BY DEF OfItsCard, Adds
<1>2. ReversalsPairUp'
    <2>1. \A r \in ledger' : r.kind = "reversal" => r \in ledger /\ r.reverses # None
        BY EarningsConstants DEF Adds, ReversalsPairUp, Sales, Typed, EarningsTypeOK,
                                 Entry, EntryId, Moves
    <2> QED
        BY <2>1 DEF ReversalsPairUp, Sales, Adds
<1>3. ASSUME NEW q \in Opportunity
      PROVE  IF stage'[q] = "earning"
             THEN premium'[q] # None /\ \E e \in ledger' : Unreversed(q)' = {e}
             ELSE Unreversed(q)' = {}
    <2>1. Unreversed(q)' = IF q = o THEN Unreversed(q) \cup {new} ELSE Unreversed(q)
        BY UnreversedBySale
    <2>2. stage'[q] = IF q = o THEN "earning" ELSE stage[q]
        BY DEF Typed, EarningsTypeOK
    <2> QED
        BY <2>1, <2>2 DEF Standing, Adds
<1> QED
    BY <1>1, <1>2, <1>3 DEF Standing

\* A move that reverses: the card had one standing sale, its own, and has none.
LEMMA TakenBack ==
    ASSUME Kept, NEW o \in Opportunity, NEW to \in StageType \ {"earning"},
           NEW e \in ledger, Unreversed(o) = {e}, NEW new, Adds(new),
           new.kind = "reversal", new.opp = o, new.owner = Owner[o], new.reverses = e.id,
           new.id \in Moves, stage' = [stage EXCEPT ![o] = to],
           \A q \in Opportunity : q # o => premium'[q] = premium[q]
    PROVE  (OfItsCard /\ ReversalsPairUp /\ Standing)'
<1> USE DEF Kept
<1>1. e.kind = "sale" /\ e.opp = o /\ ~Reversed(e)
    BY DEF Unreversed, Sales
<1>2. OfItsCard'
    BY DEF OfItsCard, Adds
<1>3. ReversalsPairUp'
    <2>1. e.owner = new.owner /\ e.seq < new.seq
        <3>1. e.seq \in Nat /\ e.seq <= Cardinality(ledger) /\ Cardinality(ledger) \in Nat
            BY FS_CardinalityType DEF Identified, Typed, EarningsTypeOK, Entry
        <3> QED
            BY <3>1, <1>1 DEF OfItsCard, Adds
    <2>2. \A q \in ledger : q.reverses # new.reverses
        BY <1>1 DEF Reversed
    <2> QED
        BY <1>1, <2>1, <2>2 DEF ReversalsPairUp, Sales, Adds
<1>4. ASSUME NEW q \in Opportunity
      PROVE  IF stage'[q] = "earning"
             THEN premium'[q] # None /\ \E f \in ledger' : Unreversed(q)' = {f}
             ELSE Unreversed(q)' = {}
    <2>1. Unreversed(q)' = Unreversed(q) \ {e}
        BY UnreversedByReversal
    <2>2. q # o => e \notin Unreversed(q)
        BY <1>1 DEF Unreversed, Sales
    <2>3. stage'[q] = IF q = o THEN to ELSE stage[q]
        BY DEF Typed, EarningsTypeOK
    <2> QED
        BY <2>1, <2>2, <2>3 DEF Standing, Adds
<1> QED
    BY <1>2, <1>3, <1>4 DEF Standing

\* A whole stage_move: it credits, takes back, or leaves the ledger alone.
LEMMA StageMoveKeeps ==
    ASSUME Kept, NEW o \in Opportunity, NEW to \in StageType, NEW k \in MoveKey \cup {None},
           NEW p \in Premium \cup {None}, NEW reason \in BOOLEAN,
           StageMove(o, to, k, p, reason)
    PROVE  Kept'
<1> DEFINE annual == IF p = None THEN premium[o] ELSE p
           tid == Len(transitions) + 1
<1> USE EarningsConstants
<1>1. /\ stage' = [stage EXCEPT ![o] = to] /\ premium' = [premium EXCEPT ![o] = annual]
      /\ transitions' = Append(transitions, k) /\ tid <= MaxMoves
      /\ GatesPass(o, to, annual, reason)
      /\ Credit(tid, o, to, annual)
      /\ lostReason' = [lostReason EXCEPT ![o] = @ \/ reason]
      /\ UNCHANGED <<now, celebratedAt, audits, claim>>
    BY DEF StageMove
<1>2. /\ transitions' \in Seq(MoveKey \cup {None})
      /\ Len(transitions) \in Nat /\ Len(transitions') = tid /\ tid \in Moves
    BY <1>1 DEF Kept, Typed, EarningsTypeOK, Moves
<1>3. /\ stage' \in [Opportunity -> StageType]
      /\ annual \in Premium \cup {None} /\ premium' \in [Opportunity -> Premium \cup {None}]
      /\ lostReason' \in [Opportunity -> BOOLEAN]
    <2>1. annual \in Premium \cup {None}
        BY DEF Kept, Typed, EarningsTypeOK
    <2> QED
        BY <1>1, <2>1 DEF Kept, Typed, EarningsTypeOK
<1>4. SUFFICES /\ ledger' \subseteq Entry /\ IsFiniteSet(ledger')
               /\ projection' \in [Bucket \X Seller -> [total : Int, count : Nat]]
               /\ (Identified /\ OfItsCard /\ ReversalsPairUp /\ Standing)'
    BY <1>1, <1>2, <1>3 DEF Kept, Typed, EarningsTypeOK
<1>5. \A e \in ledger : e.id # tid
    BY <1>2 DEF Kept, Identified
<1>6. \A q \in Opportunity : q # o => premium'[q] = premium[q]
    BY <1>1, <1>3 DEF Kept, Typed, EarningsTypeOK
<1>7. premium'[o] = annual
    BY <1>1, <1>3 DEF Kept, Typed, EarningsTypeOK
<1>8. Owner[o] \in Seller /\ \A x \in Premium : x \in Int /\ -x \in Int
    OBVIOUS
<1>9. CASE to = "earning" /\ stage[o] # "earning"
    <2>1. annual \in Premium
        BY <1>1, <1>3, <1>9 DEF GatesPass
    <2>2. LedgerAppend(tid, "sale", Owner[o], annual, o, None)
        BY <1>1, <1>9 DEF Credit
    <2>3. tid \in EntryId /\ annual \in Int
        BY <1>2, <1>8, <2>1 DEF EntryId
    <2>4. /\ \E new : /\ Adds(new)
                      /\ new.id = tid /\ new.kind = "sale" /\ new.owner = Owner[o]
                      /\ new.opp = o /\ new.reverses = None
          /\ projection' \in [Bucket \X Seller -> [total : Int, count : Nat]]
        BY <1>5, <1>8, <2>2, <2>3, AppendAdds DEF Kept
    <2>5. PICK new : /\ Adds(new)
                     /\ new.id = tid /\ new.kind = "sale" /\ new.owner = Owner[o]
                     /\ new.opp = o /\ new.reverses = None
        BY <2>4
    <2>6. ledger' \subseteq Entry /\ IsFiniteSet(ledger') /\ Identified'
        BY <1>2, <2>5, AddsIdentified DEF Kept
    <2>7. (OfItsCard /\ ReversalsPairUp /\ Standing)'
        <3>1. premium'[o] # None
            BY <1>7, <2>1
        <3> QED
            BY <1>1, <1>2, <1>6, <1>9, <2>5, <3>1, Credited
    <2> QED
        BY <2>4, <2>6, <2>7
<1>10. CASE to # "earning" /\ stage[o] = "earning"
    <2>1. PICK e \in ledger : Unreversed(o) = {e}
        BY <1>10 DEF Kept, Standing
    <2>2. Latest(Unreversed(o)) = e
        <3>1. e.seq \in Nat
            BY DEF Kept, Typed, EarningsTypeOK, Entry
        <3> QED
            BY <2>1, <3>1 DEF Latest
    <2>3. LedgerAppend(tid, "reversal", Owner[o], -premium[o], o, e.id)
        BY <1>1, <1>10, <2>2 DEF Credit
    <2>4. tid \in EntryId /\ -premium[o] \in Int /\ e.id \in EntryId
        <3>1. premium[o] \in Premium
            BY <1>10 DEF Kept, Standing, Typed, EarningsTypeOK
        <3> QED
            BY <1>2, <1>8, <3>1 DEF EntryId, Kept, Typed, EarningsTypeOK, Entry
    <2>5. /\ \E new : /\ Adds(new)
                      /\ new.id = tid /\ new.kind = "reversal" /\ new.owner = Owner[o]
                      /\ new.opp = o /\ new.reverses = e.id
          /\ projection' \in [Bucket \X Seller -> [total : Int, count : Nat]]
        BY <1>5, <1>8, <2>3, <2>4, AppendAdds DEF Kept
    <2>6. PICK new : /\ Adds(new)
                     /\ new.id = tid /\ new.kind = "reversal" /\ new.owner = Owner[o]
                     /\ new.opp = o /\ new.reverses = e.id
        BY <2>5
    <2>7. ledger' \subseteq Entry /\ IsFiniteSet(ledger') /\ Identified'
        BY <1>2, <2>6, AddsIdentified DEF Kept
    <2>8. (OfItsCard /\ ReversalsPairUp /\ Standing)'
        <3>1. to \in StageType \ {"earning"}
            BY <1>10
        <3>2. stage' = [stage EXCEPT ![o] = to] /\ new.id \in Moves
            BY <1>1, <1>2, <2>6
        <3> HIDE DEF annual, tid
        <3> QED
            BY <1>6, <2>1, <2>6, <3>1, <3>2, TakenBack
    <2> QED
        BY <2>5, <2>7, <2>8
<1>11. CASE ~(to = "earning" /\ stage[o] # "earning") /\ ~(to # "earning" /\ stage[o] = "earning")
    <2>1. UNCHANGED book
        BY <1>1, <1>11 DEF Credit
    <2>2. Identified'
        BY <1>2, <2>1 DEF Kept, Identified, book
    <2>3. OfItsCard' /\ ReversalsPairUp'
        BY <2>1 DEF Kept, OfItsCard, ReversalsPairUp, Sales, book
    <2>4. \A q \in Opportunity : Unreversed(q)' = Unreversed(q)
        BY <2>1 DEF Unreversed, Sales, Reversed, book
    <2>5. Standing'
        <3>1. stage'[o] = to /\ (stage'[o] = "earning" => premium'[o] # None)
            BY <1>1, <1>3, <1>7 DEF GatesPass, Kept, Typed, EarningsTypeOK
        <3>2. \A q \in Opportunity : q # o => stage'[q] = stage[q]
            BY <1>1 DEF Kept, Typed, EarningsTypeOK
        <3> QED
            BY <1>6, <1>11, <2>1, <2>4, <3>1, <3>2 DEF Kept, Standing, book
    <2> QED
        BY <2>1, <2>2, <2>3, <2>5 DEF Kept, Typed, EarningsTypeOK, book
<1> QED
    BY <1>9, <1>10, <1>11

\* A correction adds its own entry, or nothing.
LEMMA LedgerAdjustKeeps ==
    ASSUME Kept, NEW k \in AdjustKey, NEW s \in Seller, NEW d \in Correction,
           LedgerAdjust(k, s, d)
    PROVE  Kept'
<1> USE EarningsConstants
<1>1. /\ LedgerAppend(k, "manual_adjustment", s, d, None, None)
      /\ UNCHANGED <<now, cards, celebratedAt, transitions, claim>>
    BY DEF LedgerAdjust
<1>2. audits' \in [AdjustKey -> Nat]
    BY DEF LedgerAdjust, Kept, Typed, EarningsTypeOK
<1>3. CASE \E e \in ledger : e.id = k
    <2>1. UNCHANGED book
        BY <1>1, <1>3 DEF LedgerAppend
    <2>2. (Identified /\ OfItsCard /\ ReversalsPairUp /\ Standing)'
        BY <1>1, <2>1, Quiet DEF book, cards
    <2> QED
        BY <1>1, <1>2, <2>1, <2>2 DEF Kept, Typed, EarningsTypeOK, cards, book
<1>4. CASE \A e \in ledger : e.id # k
    <2>1. k \in EntryId /\ k \notin Nat
        BY DEF EntryId
    <2>2. /\ \E new : /\ Adds(new)
                      /\ new.id = k /\ new.kind = "manual_adjustment" /\ new.owner = s
                      /\ new.opp = None /\ new.reverses = None
          /\ projection' \in [Bucket \X Seller -> [total : Int, count : Nat]]
        BY <1>1, <1>4, <2>1, AppendAdds DEF Kept
    <2>3. PICK new : /\ Adds(new)
                     /\ new.id = k /\ new.kind = "manual_adjustment" /\ new.owner = s
                     /\ new.opp = None /\ new.reverses = None
        BY <2>2
    <2>4. ledger' \subseteq Entry /\ IsFiniteSet(ledger') /\ Identified'
        <3>1. /\ transitions' \in Seq(MoveKey \cup {None})
              /\ Len(transitions) \in Nat /\ Len(transitions') = Len(transitions)
            BY <1>1 DEF Kept, Typed, EarningsTypeOK
        <3> QED
            BY <2>1, <2>3, <3>1, AddsIdentified DEF Kept
    <2>5. OfItsCard'
        BY <2>3 DEF Kept, OfItsCard, Adds
    <2>6. ReversalsPairUp'
        <3>1. \A r \in ledger' : r.kind = "reversal" => r \in ledger /\ r.reverses # None
            BY <2>3 DEF Adds, Kept, ReversalsPairUp, Sales, Typed, EarningsTypeOK, Entry,
                        EntryId, Moves
        <3> QED
            BY <2>3, <3>1 DEF Kept, ReversalsPairUp, Sales, Adds
    <2>7. \A q \in Opportunity : Unreversed(q)' = Unreversed(q)
        BY <2>3, UnreversedBySale DEF Kept
    <2>8. Standing'
        BY <1>1, <2>3, <2>7 DEF Kept, Standing, Adds, cards
    <2> QED
        BY <1>1, <1>2, <2>2, <2>4, <2>5, <2>6, <2>8 DEF Kept, Typed, EarningsTypeOK, cards
<1> QED
    BY <1>3, <1>4

-----------------------------------------------------------------------------
(* The invariant *)

\* The inductive invariant holds on an empty ledger.
LEMMA KeptInit == Init => Kept
<1> SUFFICES ASSUME Init PROVE Kept
    OBVIOUS
<1> USE EarningsConstants DEF Init
<1>1. EarningsTypeOK
    BY DEF EarningsTypeOK, StageType
<1>2. IsFiniteSet(ledger)
    BY FS_EmptySet
<1>3. Identified /\ OfItsCard /\ ReversalsPairUp
    BY DEF Identified, OfItsCard, ReversalsPairUp
<1>4. Standing
    BY DEF Standing, Unreversed, Sales
<1> QED
    BY <1>1, <1>2, <1>3, <1>4 DEF Kept, Typed

\* Every step keeps the inductive invariant.
LEMMA KeptStep == Kept /\ [Next]_vars => Kept'
<1> SUFFICES ASSUME Kept, [Next]_vars PROVE Kept'
    OBVIOUS
<1>1. ASSUME NEW o \in Opportunity, NEW to \in StageType, NEW k \in MoveKey \cup {None},
             NEW p \in Premium \cup {None}, NEW reason \in BOOLEAN,
             StageMove(o, to, k, p, reason)
      PROVE  Kept'
    BY <1>1, StageMoveKeeps
<1>2. ASSUME NEW c \in Claimant, NEW o \in Opportunity, CelebrateCheck(c, o) PROVE Kept'
    <2>1. EarningsTypeOK'
        BY <1>2 DEF CelebrateCheck, Kept, Typed, EarningsTypeOK, cards, book
    <2> QED
        BY <1>2, <2>1, Quiet DEF CelebrateCheck, Kept, Typed, cards, book
<1>3. ASSUME NEW c \in Claimant, CelebrateWrite(c) PROVE Kept'
    <2>1. EarningsTypeOK'
        <3>1. claim[c] \in Opportunity /\ now \in Nat
            BY <1>3, EarningsConstants DEF CelebrateWrite, Kept, Typed, EarningsTypeOK
        <3> QED
            BY <1>3, <3>1 DEF CelebrateWrite, Kept, Typed, EarningsTypeOK, cards, book
    <2> QED
        BY <1>3, <2>1, Quiet DEF CelebrateWrite, Kept, Typed, cards, book
<1>4. ASSUME NEW k \in AdjustKey, NEW s \in Seller, NEW d \in Correction, LedgerAdjust(k, s, d)
      PROVE  Kept'
    BY <1>4, LedgerAdjustKeeps
<1>5. ASSUME Tick PROVE Kept'
    <2>1. EarningsTypeOK'
        BY <1>5, EarningsConstants DEF Tick, Kept, Typed, EarningsTypeOK, cards, book
    <2> QED
        BY <1>5, <2>1, Quiet DEF Tick, Kept, Typed, cards, book
<1>6. CASE UNCHANGED vars
    <2>1. EarningsTypeOK'
        BY <1>6 DEF Kept, Typed, EarningsTypeOK, vars, cards, book
    <2> QED
        BY <1>6, <2>1, Quiet DEF vars, Kept, Typed, cards, book
<1> QED
    BY <1>1, <1>2, <1>3, <1>4, <1>5, <1>6 DEF Next

\* The inductive invariant always holds.
LEMMA AlwaysKept == Spec => []Kept
BY KeptInit, KeptStep, PTL DEF Spec

-----------------------------------------------------------------------------
(* Sums *)

\* Sum by its recursion: h holds the sum of every part of X.
Taken(Y) == CHOOSE e \in Y : TRUE
SumsUp(h, X) ==
    h = [Y \in SUBSET X |-> IF Y = {} THEN 0 ELSE Taken(Y).delta + h[Y \ {Taken(Y)}]]

\* Of some parts of a finite set, one has none of the others in it: induction over
\* sets, which any statement about them can be put to.
LEMMA LeastPart ==
    ASSUME NEW X, IsFiniteSet(X), NEW T, T \subseteq SUBSET X, T # {}
    PROVE  \E Y \in T : \A V \in T : V \subseteq Y => V = Y
<1>1. IsWellFoundedOn(StrictSubsetOrdering(X), FiniteSubsetsOf(X))
    BY FS_StrictSubsetOrderingWellFounded
<1>2. T \subseteq FiniteSubsetsOf(X)
    BY FS_Subset DEF FiniteSubsetsOf
<1>3. PICK Y \in T : \A V \in T : ~ (<<V, Y>> \in StrictSubsetOrdering(X))
    BY <1>1, <1>2, WFMin
<1> QED
    BY <1>3 DEF StrictSubsetOrdering

\* What two such functions say of a set they both know is the same.
LEMMA OneSum ==
    ASSUME NEW X, NEW Z, IsFiniteSet(X), NEW g, NEW h, SumsUp(g, X), SumsUp(h, Z),
           NEW W, W \subseteq X, W \subseteq Z
    PROVE  g[W] = h[W]
<1> DEFINE Bad == {Y \in SUBSET X : Y \subseteq Z /\ g[Y] # h[Y]}
<1>1. CASE Bad = {}
    BY <1>1
<1>2. CASE Bad # {}
    <2>1. Bad \subseteq SUBSET X
        OBVIOUS
    <2>2. PICK Y \in Bad : \A V \in Bad : V \subseteq Y => V = Y
        <3> HIDE DEF Bad
        <3> QED
            BY <1>2, <2>1, LeastPart
    <2>3. g[Y] = IF Y = {} THEN 0 ELSE Taken(Y).delta + g[Y \ {Taken(Y)}]
        BY DEF SumsUp
    <2>4. h[Y] = IF Y = {} THEN 0 ELSE Taken(Y).delta + h[Y \ {Taken(Y)}]
        BY DEF SumsUp
    <2>5. CASE Y # {}
        <3>1. Taken(Y) \in Y
            BY <2>5 DEF Taken
        <3>2. g[Y \ {Taken(Y)}] = h[Y \ {Taken(Y)}]
            BY <2>2, <3>1
        <3> QED
            BY <2>3, <2>4, <2>5, <3>2
    <2> QED
        BY <2>3, <2>4, <2>5
<1> QED
    BY <1>1, <1>2

\* There is one for every finite set.
LEMMA SomeSum ==
    ASSUME NEW X, IsFiniteSet(X)
    PROVE  \E h : SumsUp(h, X)
<1> DEFINE Bad == {Y \in SUBSET X : ~\E h : SumsUp(h, Y)}
<1>1. CASE Bad = {}
    BY <1>1
<1>2. CASE Bad # {}
    <2>1. Bad \subseteq SUBSET X
        OBVIOUS
    <2>2. PICK Y \in Bad : \A V \in Bad : V \subseteq Y => V = Y
        <3> HIDE DEF Bad
        <3> QED
            BY <1>2, <2>1, LeastPart
    <2> DEFINE of(V) == CHOOSE h : SumsUp(h, V)
               rec(V) == IF V = {} THEN 0 ELSE Taken(V).delta + of(V \ {Taken(V)})[V \ {Taken(V)}]
               all == [V \in SUBSET Y |-> rec(V)]
    <2>3. \A V \in SUBSET Y : V # Y => SumsUp(of(V), V) /\ IsFiniteSet(V)
        BY <2>2, FS_Subset
    <2>4. ASSUME NEW V \in SUBSET Y, V # Y
          PROVE  all[V] = of(V)[V]
        <3>1. SumsUp(of(V), V)
            BY <2>3, <2>4
        <3>2. of(V)[V] = IF V = {} THEN 0 ELSE Taken(V).delta + of(V)[V \ {Taken(V)}]
            <4> HIDE DEF of
            <4> QED
                BY <3>1 DEF SumsUp
        <3>3. CASE V # {}
            <4>1. Taken(V) \in V
                BY <3>3 DEF Taken
            <4>2. V \ {Taken(V)} \in SUBSET Y /\ V \ {Taken(V)} # Y
                BY <2>4, <4>1
            <4>3. SumsUp(of(V \ {Taken(V)}), V \ {Taken(V)}) /\ IsFiniteSet(V)
                BY <2>3, <2>4, <4>2
            <4>4. of(V)[V \ {Taken(V)}] = of(V \ {Taken(V)})[V \ {Taken(V)}]
                <5> DEFINE W == V \ {Taken(V)}
                <5>1. W \subseteq V /\ W \subseteq W
                    OBVIOUS
                <5>2. SumsUp(of(W), W)
                    BY <4>3
                <5> HIDE DEF of, W
                <5>3. of(V)[W] = of(W)[W]
                    BY <3>1, <4>3, <5>1, <5>2, OneSum
                <5> QED
                    BY <5>3 DEF W
            <4> QED
                BY <3>2, <3>3, <4>4
        <3> QED
            BY <3>2, <3>3
    <2>5. ASSUME NEW V \in SUBSET Y
          PROVE  all[V] = IF V = {} THEN 0 ELSE Taken(V).delta + all[V \ {Taken(V)}]
        <3>1. CASE V # {}
            <4>1. Taken(V) \in V
                BY <3>1 DEF Taken
            <4>2. all[V \ {Taken(V)}] = of(V \ {Taken(V)})[V \ {Taken(V)}]
                <5>1. V \ {Taken(V)} \in SUBSET Y /\ V \ {Taken(V)} # Y
                    BY <4>1
                <5> HIDE DEF all, of
                <5> QED
                    BY <2>4, <5>1
            <4> QED
                BY <3>1, <4>2
        <3> QED
            BY <3>1
    <2>6. SumsUp(all, Y)
        <3>1. all = [V \in SUBSET Y |-> all[V]]
            OBVIOUS
        <3> HIDE DEF all
        <3> QED
            BY <2>5, <3>1 DEF SumsUp
    <2> QED
        BY <2>2, <2>6
<1> QED
    BY <1>1, <1>2

\* Sum is what each of them says of every set it knows.
LEMMA SumIs ==
    ASSUME NEW X, IsFiniteSet(X), NEW h, SumsUp(h, X), NEW Y \in SUBSET X
    PROVE  Sum(Y) = h[Y]
<1>1. IsFiniteSet(Y)
    BY FS_Subset
<1>2. PICK g : SumsUp(g, Y)
    BY <1>1, SomeSum
<1>3. \A f : SumsUp(f, Y) => f = g
    <2> SUFFICES ASSUME NEW f, SumsUp(f, Y) PROVE f = g
        OBVIOUS
    <2>1. \A W \in SUBSET Y : f[W] = g[W]
        BY <1>1, <1>2, OneSum
    <2>2. f = [W \in SUBSET Y |-> f[W]] /\ g = [W \in SUBSET Y |-> g[W]]
        BY <1>2 DEF SumsUp
    <2> QED
        BY <2>1, <2>2
<1> DEFINE it == CHOOSE f : SumsUp(f, Y)
<1>4. it = g
    BY <1>2, <1>3
<1>5. Sum(Y) = it[Y]
    BY DEF Sum, MapThenSumSet, MapThenFoldSet, SumsUp, Taken
<1>6. g[Y] = h[Y]
    <2>1. Y \subseteq Y /\ Y \subseteq X
        OBVIOUS
    <2> HIDE DEF it
    <2> QED
        BY <1>1, <1>2, <2>1, OneSum
<1> QED
    BY <1>4, <1>5, <1>6

\* One element taken at a time, whichever CHOOSE takes.
LEMMA SumTakes ==
    ASSUME NEW X, IsFiniteSet(X)
    PROVE  Sum(X) = IF X = {} THEN 0 ELSE Taken(X).delta + Sum(X \ {Taken(X)})
<1>1. PICK h : SumsUp(h, X)
    BY SomeSum
<1>2. Sum(X) = h[X] /\ Sum(X \ {Taken(X)}) = h[X \ {Taken(X)}]
    BY <1>1, SumIs
<1>3. h[X] = IF X = {} THEN 0 ELSE Taken(X).delta + h[X \ {Taken(X)}]
    BY <1>1 DEF SumsUp
<1> QED
    BY <1>2, <1>3

Amounts(X) == \A e \in X : e.delta \in Int

\* It is an integer, and whichever element is taken out first, it is the same.
LEMMA SumRemoves ==
    ASSUME NEW X, IsFiniteSet(X), Amounts(X)
    PROVE  /\ Sum(X) \in Int
           /\ \A e \in X : Sum(X) = e.delta + Sum(X \ {e})
<1> DEFINE Good(Y) == /\ Sum(Y) \in Int
                      /\ \A e \in Y : Sum(Y) = e.delta + Sum(Y \ {e})
           Bad == {Y \in SUBSET X : ~Good(Y)}
<1>1. CASE Bad = {}
    <2>1. Good(X)
        BY <1>1
    <2> QED
        BY <2>1
<1>2. CASE Bad # {}
    <2>1. Bad \subseteq SUBSET X
        OBVIOUS
    <2>2. PICK Y \in Bad : \A V \in Bad : V \subseteq Y => V = Y
        <3> HIDE DEF Bad
        <3> QED
            BY <1>2, <2>1, LeastPart
    <2>3. Y \subseteq X /\ IsFiniteSet(Y) /\ ~Good(Y)
        BY FS_Subset
    <2>4. \A V \in SUBSET Y : V # Y => Good(V)
        BY <2>2
    <2>5. CASE Y = {}
        <3>1. Sum(Y) = 0
            BY <2>3, <2>5, SumTakes
        <3> QED
            BY <2>3, <2>5, <3>1
    <2>6. CASE Y # {}
        <3> DEFINE x == Taken(Y)
        <3>1. x \in Y /\ x.delta \in Int
            BY <2>3, <2>6 DEF Taken, Amounts
        <3>2. Sum(Y) = x.delta + Sum(Y \ {x})
            BY <2>3, <2>6, SumTakes
        <3>3. Y \ {x} \in SUBSET Y /\ Y \ {x} # Y
            BY <3>1
        <3> HIDE DEF x, Bad
        <3>4. Good(Y \ {x})
            BY <2>4, <3>3
        <3>5. Sum(Y \ {x}) \in Int
            BY <3>4
        <3>6. Sum(Y) \in Int
            BY <3>1, <3>2, <3>5
        <3>7. ASSUME NEW e \in Y
              PROVE  Sum(Y) = e.delta + Sum(Y \ {e})
            <4>1. CASE e = x
                BY <3>2, <4>1
            <4>2. CASE e # x
                <5>1. e.delta \in Int
                    BY <2>3 DEF Amounts
                <5>2. Sum(Y \ {x}) = e.delta + Sum((Y \ {x}) \ {e})
                    BY <3>4, <4>2
                <5>3. Y \ {e} \in SUBSET Y /\ Y \ {e} # Y /\ x \in Y \ {e}
                    BY <3>1, <4>2
                <5>4. Good(Y \ {e})
                    BY <2>4, <5>3
                <5>5. Sum(Y \ {e}) = x.delta + Sum((Y \ {e}) \ {x})
                    BY <5>3, <5>4
                <5>6. (Y \ {e}) \ {x} = (Y \ {x}) \ {e}
                    OBVIOUS
                <5>7. (Y \ {x}) \ {e} \in SUBSET Y /\ (Y \ {x}) \ {e} # Y
                    BY <3>1
                <5>8. Good((Y \ {x}) \ {e})
                    BY <2>4, <5>7
                <5>9. Sum((Y \ {x}) \ {e}) \in Int
                    BY <5>8
                <5>10. PICK r \in Int : r = Sum((Y \ {x}) \ {e})
                    BY <5>9
                <5>11. Sum(Y \ {e}) = x.delta + r
                    BY <5>5, <5>6, <5>10
                <5>12. Sum(Y) = x.delta + (e.delta + r)
                    BY <3>2, <5>2, <5>10
                <5> QED
                    BY <3>1, <5>1, <5>11, <5>12
            <4> QED
                BY <4>1, <4>2
        <3> QED
            BY <2>3, <3>6, <3>7
    <2> QED
        BY <2>3, <2>5, <2>6
<1> QED
    BY <1>1, <1>2

\* One element more.
LEMMA SumAdds ==
    ASSUME NEW X, IsFiniteSet(X), Amounts(X), NEW e, e \notin X, e.delta \in Int
    PROVE  Sum(X \cup {e}) = Sum(X) + e.delta
<1>1. IsFiniteSet(X \cup {e}) /\ Amounts(X \cup {e}) /\ (X \cup {e}) \ {e} = X
    BY FS_AddElement DEF Amounts
<1>2. e \in X \cup {e}
    OBVIOUS
<1>3. Sum(X \cup {e}) = e.delta + Sum((X \cup {e}) \ {e})
    BY <1>1, <1>2, SumRemoves
<1>4. Sum((X \cup {e}) \ {e}) = Sum(X) /\ Sum(X) \in Int
    BY <1>1, SumRemoves
<1> QED
    BY <1>3, <1>4

\* A part of it, and the rest.
LEMMA SumSplits ==
    ASSUME NEW X, IsFiniteSet(X), Amounts(X), NEW Y, Y \subseteq X
    PROVE  Sum(X) = Sum(Y) + Sum(X \ Y)
<1> DEFINE Bad == {Z \in SUBSET Y : Sum(X) # Sum(Z) + Sum(X \ Z)}
<1>0. IsFiniteSet(Y)
    BY FS_Subset
<1>1. CASE Bad = {}
    BY <1>1
<1>2. CASE Bad # {}
    <2>1. Bad \subseteq SUBSET Y
        OBVIOUS
    <2>2. PICK Z \in Bad : \A V \in Bad : V \subseteq Z => V = Z
        <3> HIDE DEF Bad
        <3> QED
            BY <1>0, <1>2, <2>1, LeastPart
    <2>3. Z \subseteq Y /\ IsFiniteSet(Z) /\ Amounts(Z) /\ Sum(X) # Sum(Z) + Sum(X \ Z)
        BY <1>0, FS_Subset DEF Amounts
    <2>4. CASE Z = {}
        <3>1. Sum(Z) = 0 /\ X \ Z = X /\ Sum(X) \in Int
            BY <2>3, <2>4, SumTakes, SumRemoves
        <3> QED
            BY <2>3, <3>1
    <2>5. CASE Z # {}
        <3>1. PICK e : e \in Z
            BY <2>5
        <3> DEFINE W == Z \ {e}
        <3>2. W \subseteq Z /\ W # Z /\ W \subseteq Y
            BY <2>3, <3>1
        <3>3. Sum(X) = Sum(W) + Sum(X \ W)
            BY <2>2, <3>2
        <3> HIDE DEF Bad
        <3>4. Sum(Z) = e.delta + Sum(W) /\ Sum(Z) \in Int
            BY <2>3, <3>1, SumRemoves
        <3>5. IsFiniteSet(X \ W) /\ Amounts(X \ W) /\ e \in X \ W /\ (X \ W) \ {e} = X \ Z
            BY <2>3, <3>1, FS_Subset DEF Amounts
        <3>6. Sum(X \ W) = e.delta + Sum(X \ Z)
            <4> HIDE DEF W
            <4> QED
                BY <3>5, SumRemoves
        <3>7. IsFiniteSet(W) /\ Amounts(W) /\ IsFiniteSet(X \ Z) /\ Amounts(X \ Z) /\ e.delta \in Int
            BY <2>3, <3>1, <3>5, FS_Subset DEF Amounts
        <3>8. Sum(W) \in Int /\ Sum(X \ Z) \in Int
            <4> HIDE DEF W
            <4> QED
                BY <3>7, SumRemoves
        <3> HIDE DEF W
        <3> QED
            BY <2>3, <3>3, <3>4, <3>6, <3>7, <3>8
    <2> QED
        BY <2>4, <2>5
<1> QED
    BY <1>1, <1>2

-----------------------------------------------------------------------------
(* The projection and the audit *)

\* A set of entries of a typed ledger is finite and has amounts.
LEMMA EntriesHaveAmounts ==
    ASSUME Typed, NEW X, X \subseteq ledger
    PROVE  IsFiniteSet(X) /\ Amounts(X)
<1>1. IsFiniteSet(X)
    BY FS_Subset DEF Typed
<1>2. \A e \in X : e.delta \in Int
    BY DEF Typed, EarningsTypeOK, Entry
<1> QED
    BY <1>1, <1>2 DEF Amounts

\* ledger_append leaves the book alone or adds one entry to it and projects it.
LEMMA AppendProjects ==
    ASSUME Typed, NEW id \in EntryId, NEW kind \in {"sale", "reversal", "manual_adjustment"},
           NEW owner \in Seller, NEW delta \in Int, NEW opp \in Opportunity \cup {None},
           NEW reverses \in EntryId \cup {None},
           LedgerAppend(id, kind, owner, delta, opp, reverses)
    PROVE  IF \E e \in ledger : e.id = id
           THEN UNCHANGED book
           ELSE \E new : /\ Adds(new) /\ Project(new)
                         /\ new.id = id /\ new.kind = kind /\ new.delta = delta
                         /\ new.reverses = reverses
<1>1. CASE \E e \in ledger : e.id = id
    BY <1>1 DEF LedgerAppend
<1>2. CASE ~\E e \in ledger : e.id = id
    <2> DEFINE new == [id |-> id, seq |-> Cardinality(ledger) + 1, kind |-> kind,
                       owner |-> owner, delta |-> delta, opp |-> opp, at |-> now,
                       reverses |-> reverses]
    <2>1. ledger' = ledger \cup {new} /\ Project(new)
        BY <1>2 DEF LedgerAppend
    <2>2. Cardinality(ledger) \in Nat /\ now \in Nat
        BY FS_CardinalityType, EarningsConstants DEF Typed, EarningsTypeOK
    <2>3. new \in Entry
        BY <2>2 DEF Entry
    <2>4. Adds(new)
        BY <1>2, <2>1, <2>3 DEF Adds
    <2> QED
        BY <1>2, <2>1, <2>4
<1> QED
    BY <1>1, <1>2

\* So does a correction, which is of no card and reverses nothing.
LEMMA AdjustProjects ==
    ASSUME Typed, NEW id \in EntryId, NEW owner \in Seller, NEW delta \in Int,
           LedgerAppend(id, "manual_adjustment", owner, delta, None, None)
    PROVE  IF \E e \in ledger : e.id = id
           THEN UNCHANGED book
           ELSE \E new : /\ Adds(new) /\ Project(new)
                         /\ new.id = id /\ new.kind = "manual_adjustment" /\ new.delta = delta
                         /\ new.reverses = None
<1>1. /\ "manual_adjustment" \in {"sale", "reversal", "manual_adjustment"}
      /\ None \in Opportunity \cup {None} /\ None \in EntryId \cup {None}
    OBVIOUS
<1> QED
    BY <1>1, AppendProjects

\* An entry that is projected as it is added is summed where it is found.
LEMMA ProjectKeeps ==
    ASSUME Typed, ProjectionIsLedger, NEW new, Adds(new), Project(new)
    PROVE  ProjectionIsLedger'
<1> SUFFICES ASSUME NEW b \in Bucket, NEW s \in Seller
             PROVE  projection'[<<b, s>>] =
                        [total |-> Sum(InBucket(b, s)'), count |-> Cardinality(InBucket(b, s)')]
    BY DEF ProjectionIsLedger
<1> DEFINE in == InBucket(b, s)
<1>1. IsFiniteSet(in) /\ Amounts(in) /\ new.delta \in Int /\ new \notin in
    BY EntriesHaveAmounts DEF InBucket, Adds, Entry
<1>2. projection[<<b, s>>] = [total |-> Sum(in), count |-> Cardinality(in)]
    BY DEF ProjectionIsLedger
<1>3. <<b, s>> \in Bucket \X Seller /\ <<b, s>>[1] = b /\ <<b, s>>[2] = s
    OBVIOUS
<1>4. CASE b \in Buckets(new) /\ s = new.owner
    <2>1. in' = in \cup {new}
        BY <1>4 DEF InBucket, Adds, Buckets
    <2>2. Sum(in') = Sum(in) + new.delta /\ Cardinality(in') = Cardinality(in) + 1
        <3> HIDE DEF in
        <3> QED
            BY <1>1, <2>1, SumAdds, FS_AddElement
    <2>3. projection'[<<b, s>>] =
              [total |-> projection[<<b, s>>].total + new.delta,
               count |-> projection[<<b, s>>].count + 1]
        BY <1>3, <1>4 DEF Project
    <2> HIDE DEF in
    <2> QED
        BY <1>2, <2>2, <2>3 DEF in
<1>5. CASE ~(b \in Buckets(new) /\ s = new.owner)
    <2>1. in' = in
        BY <1>5 DEF InBucket, Adds, Buckets
    <2>2. projection'[<<b, s>>] = projection[<<b, s>>]
        BY <1>3, <1>5 DEF Project
    <2> HIDE DEF in
    <2> QED
        BY <1>2, <2>1, <2>2 DEF in
<1> QED
    BY <1>4, <1>5

\* The audit rows of the corrections, when one more entry is added.
LEMMA AuditKeeps ==
    ASSUME Typed, AuditedOnce, NEW new, Adds(new),
           audits' = IF new.id \in AdjustKey THEN [audits EXCEPT ![new.id] = @ + 1] ELSE audits
    PROVE  AuditedOnce'
<1> SUFFICES ASSUME NEW k \in AdjustKey
             PROVE  audits'[k] = Cardinality({e \in ledger' : e.id = k})
    BY DEF AuditedOnce
<1> DEFINE of == {e \in ledger : e.id = k}
<1>1. IsFiniteSet(of) /\ new \notin of /\ audits[k] = Cardinality(of) /\ audits \in [AdjustKey -> Nat]
    BY FS_Subset DEF Typed, EarningsTypeOK, AuditedOnce, Adds
<1>2. CASE new.id = k
    <2>1. {e \in ledger' : e.id = k} = of \cup {new}
        BY <1>2 DEF Adds
    <2>2. audits'[k] = audits[k] + 1
        BY <1>1, <1>2
    <2> HIDE DEF of
    <2> QED
        BY <1>1, <2>1, <2>2, FS_AddElement
<1>3. CASE new.id # k
    <2>1. {e \in ledger' : e.id = k} = of
        BY <1>3 DEF Adds
    <2>2. audits'[k] = audits[k]
        BY <1>1, <1>3
    <2> HIDE DEF of
    <2> QED
        BY <1>1, <2>1, <2>2
<1> QED
    BY <1>2, <1>3

\* One entry at most is added by a step, it is projected as it is added, and
\* audited if and only if it is a correction.
LEMMA EachStepAdds ==
    ASSUME Kept, Next
    PROVE  \/ UNCHANGED <<book, audits>>
           \/ \E new : /\ Adds(new) /\ Project(new)
                       /\ audits' = IF new.id \in AdjustKey
                                    THEN [audits EXCEPT ![new.id] = @ + 1] ELSE audits
<1> USE EarningsConstants
<1>0. \A p \in Premium : -p \in Int
    OBVIOUS
<1>1. ASSUME NEW o \in Opportunity, NEW to \in StageType, NEW k \in MoveKey \cup {None},
             NEW p \in Premium \cup {None}, NEW reason \in BOOLEAN,
             StageMove(o, to, k, p, reason)
      PROVE  \/ UNCHANGED <<book, audits>>
             \/ \E new : /\ Adds(new) /\ Project(new) /\ new.id \notin AdjustKey
                         /\ audits' = audits
    <2> DEFINE annual == IF p = None THEN premium[o] ELSE p
               tid == Len(transitions) + 1
    <2>1. /\ Typed /\ tid \in Moves /\ tid \in EntryId /\ tid \notin AdjustKey
          /\ audits' = audits /\ Owner[o] \in Seller
          /\ annual \in Premium \cup {None} /\ (to = "earning" => annual # None)
          /\ Credit(tid, o, to, annual)
        BY <1>1 DEF Kept, Typed, EarningsTypeOK, StageMove, GatesPass, Moves, EntryId
    <2> HIDE DEF annual, tid
    <2>2. CASE to = "earning" /\ stage[o] # "earning"
        <3>1. LedgerAppend(tid, "sale", Owner[o], annual, o, None)
            BY <2>1, <2>2 DEF Credit
        <3>2. annual \in Premium
            BY <2>1, <2>2
        <3>3. annual \in Int
            BY <3>2
        <3>4. o \in Opportunity \cup {None} /\ None \in EntryId \cup {None}
            OBVIOUS
        <3>5. \/ UNCHANGED book
              \/ \E new : Adds(new) /\ Project(new) /\ new.id = tid
            BY <2>1, <3>1, <3>3, <3>4, AppendProjects
        <3> QED
            BY <2>1, <3>5
    <2>3. CASE to # "earning" /\ stage[o] = "earning"
        <3> DEFINE sale == Latest(Unreversed(o))
        <3>0. premium[o] \in Premium
            BY <2>1, <2>3 DEF Kept, Standing, Typed, EarningsTypeOK
        <3>1. LedgerAppend(tid, "reversal", Owner[o], -premium[o], o, sale.id)
            BY <2>1, <2>3 DEF Credit
        <3>2. sale.id \in EntryId
            <4>1. PICK e \in ledger : Unreversed(o) = {e}
                BY <2>3 DEF Kept, Standing
            <4>2. sale = e
                <5>1. e.seq <= e.seq
                    BY <2>1 DEF Typed, EarningsTypeOK, Entry
                <5> QED
                    BY <4>1, <5>1 DEF Latest
            <4> QED
                BY <2>1, <4>1, <4>2 DEF Typed, EarningsTypeOK, Entry
        <3> HIDE DEF sale
        <3>3. \/ UNCHANGED book
              \/ \E new : Adds(new) /\ Project(new) /\ new.id = tid
            <4>2. -premium[o] \in Int /\ o \in Opportunity \cup {None}
                BY <1>0, <3>0
            <4> QED
                BY <2>1, <3>1, <3>2, <4>2, AppendProjects
        <3> QED
            BY <2>1, <3>3
    <2> QED
        BY <2>1, <2>2, <2>3 DEF Credit
<1>2. ASSUME NEW k \in AdjustKey, NEW s \in Seller, NEW d \in Correction, LedgerAdjust(k, s, d)
      PROVE  \/ UNCHANGED <<book, audits>>
             \/ \E new : /\ Adds(new) /\ Project(new) /\ new.id = k
                         /\ new.kind = "manual_adjustment"
                         /\ audits' = [audits EXCEPT ![k] = @ + 1]
    <2>1. /\ Typed /\ k \in EntryId /\ d \in Int
          /\ LedgerAppend(k, "manual_adjustment", s, d, None, None)
        BY <1>2 DEF Kept, EntryId, LedgerAdjust
    <2>2. CASE \E e \in ledger : e.id = k
        BY <1>2, <2>2 DEF LedgerAdjust, LedgerAppend
    <2>3. CASE ~\E e \in ledger : e.id = k
        <3>1. audits' = [audits EXCEPT ![k] = @ + 1]
            BY <1>2, <2>3 DEF LedgerAdjust
        <3>2. IF \E e \in ledger : e.id = k
              THEN UNCHANGED book
              ELSE \E new : /\ Adds(new) /\ Project(new)
                            /\ new.id = k /\ new.kind = "manual_adjustment" /\ new.delta = d
                            /\ new.reverses = None
            BY <2>1, AdjustProjects
        <3>3. \E new : /\ Adds(new) /\ Project(new) /\ new.id = k /\ new.kind = "manual_adjustment"
            BY <2>3, <3>2
        <3> QED
            BY <3>1, <3>3
    <2> QED
        BY <2>2, <2>3
<1>3. ASSUME NEW c \in Claimant, CelebrateWrite(c) \/ \E o \in Opportunity : CelebrateCheck(c, o)
      PROVE  UNCHANGED <<book, audits>>
    BY <1>3 DEF CelebrateWrite, CelebrateCheck
<1>4. CASE Tick
    BY <1>4 DEF Tick
<1> QED
    BY <1>1, <1>2, <1>3, <1>4 DEF Next

\* What is kept, and that it is counted.
Counted == Kept /\ ProjectionIsLedger /\ AuditedOnce

LEMMA CountedInit == Init => Counted
<1> SUFFICES ASSUME Init PROVE ProjectionIsLedger /\ AuditedOnce
    BY KeptInit DEF Counted
<1>1. IsFiniteSet({}) /\ Cardinality({}) = 0
    BY FS_EmptySet
<1>2. Sum({}) = 0
    BY <1>1, SumTakes
<1>3. ASSUME NEW b \in Bucket, NEW s \in Seller
      PROVE  projection[<<b, s>>] =
                [total |-> Sum(InBucket(b, s)), count |-> Cardinality(InBucket(b, s))]
    <2>1. InBucket(b, s) = {} /\ projection[<<b, s>>] = [total |-> 0, count |-> 0]
        BY DEF Init, InBucket
    <2> QED
        BY <1>1, <1>2, <2>1
<1>4. ASSUME NEW k \in AdjustKey
      PROVE  audits[k] = Cardinality({e \in ledger : e.id = k})
    <2>1. {e \in ledger : e.id = k} = {} /\ audits[k] = 0
        BY DEF Init
    <2> QED
        BY <1>1, <2>1
<1> QED
    BY <1>3, <1>4 DEF ProjectionIsLedger, AuditedOnce, Init

LEMMA CountedStep == Counted /\ [Next]_vars => Counted'
<1> SUFFICES ASSUME Counted, [Next]_vars PROVE (ProjectionIsLedger /\ AuditedOnce)'
    BY KeptStep DEF Counted
<1>1. CASE UNCHANGED <<book, audits>>
    <2>1. projection' = projection /\ ledger' = ledger /\ audits' = audits
        BY <1>1 DEF book
    <2>2. \A b, s : InBucket(b, s)' = InBucket(b, s)
        BY <2>1 DEF InBucket, Buckets
    <2> QED
        BY <2>1, <2>2 DEF Counted, ProjectionIsLedger, AuditedOnce
<1>2. CASE \E new : /\ Adds(new) /\ Project(new)
                    /\ audits' = IF new.id \in AdjustKey
                                 THEN [audits EXCEPT ![new.id] = @ + 1] ELSE audits
    <2>1. PICK new : /\ Adds(new) /\ Project(new)
                     /\ audits' = IF new.id \in AdjustKey
                                  THEN [audits EXCEPT ![new.id] = @ + 1] ELSE audits
        BY <1>2
    <2> QED
        BY <2>1, ProjectKeeps, AuditKeeps DEF Counted, Kept
<1>3. CASE UNCHANGED vars
    BY <1>1, <1>3 DEF vars
<1> QED
    BY <1>1, <1>2, <1>3, EachStepAdds DEF Counted

LEMMA AlwaysCounted == Spec => []Counted
BY CountedInit, CountedStep, PTL DEF Spec

-----------------------------------------------------------------------------
(* The public board *)

\* The undos of some reversals and the sales they undo cancel, one by one.
LEMMA UndosCancel ==
    ASSUME Kept, ReversalCancels, NEW s \in Seller,
           NEW R, R \subseteq {r \in ledger : r.owner = s /\ \E e \in ledger : Undoes(r, e)}
    PROVE  /\ Sum(R) \in Int
           /\ Sum({e \in ledger : \E r \in R : Undoes(r, e)}) \in Int
           /\ Sum(R) + Sum({e \in ledger : \E r \in R : Undoes(r, e)}) = 0
<1> DEFINE Of(Q) == {e \in ledger : \E r \in Q : Undoes(r, e)}
           Bad == {Q \in SUBSET R : Sum(Q) + Sum(Of(Q)) # 0}
<1>1. IsFiniteSet(R) /\ \A Q \in SUBSET R : Q \subseteq ledger
    BY FS_Subset DEF Kept, Typed
<1>2. ASSUME NEW Q, Q \subseteq R
      PROVE  /\ IsFiniteSet(Q) /\ Amounts(Q) /\ IsFiniteSet(Of(Q)) /\ Amounts(Of(Q))
             /\ Sum(Q) \in Int /\ Sum(Of(Q)) \in Int
    <2>1. Q \subseteq ledger /\ Of(Q) \subseteq ledger
        BY <1>1, <1>2
    <2> HIDE DEF Of
    <2>2. IsFiniteSet(Q) /\ Amounts(Q) /\ IsFiniteSet(Of(Q)) /\ Amounts(Of(Q))
        BY <2>1, EntriesHaveAmounts DEF Kept
    <2> QED
        BY <2>2, SumRemoves
<1>3. CASE Bad = {}
    <2>1. Sum(R) + Sum(Of(R)) = 0
        BY <1>3
    <2>2. Sum(R) \in Int /\ Sum(Of(R)) \in Int
        BY <1>2
    <2> QED
        BY <2>1, <2>2
<1>4. CASE Bad # {}
    <2>1. Bad \subseteq SUBSET R
        OBVIOUS
    <2>2. PICK Q \in Bad : \A V \in Bad : V \subseteq Q => V = Q
        <3> HIDE DEF Bad
        <3> QED
            BY <1>1, <1>4, <2>1, LeastPart
    <2>3. Q \subseteq R /\ Sum(Q) + Sum(Of(Q)) # 0
        OBVIOUS
    <2>4. CASE Q = {}
        <3>1. Of(Q) = {}
            BY <2>4
        <3>2. Sum({}) = 0
            BY FS_EmptySet, SumTakes
        <3>3. Sum(Q) = 0
            BY <2>4, <3>2
        <3>4. Sum(Of(Q)) = 0
            BY <3>1, <3>2
        <3> HIDE DEF Of
        <3> QED
            BY <2>3, <3>3, <3>4
    <2>5. CASE Q # {}
        <3>1. PICK r : r \in Q
            BY <2>5
        <3> DEFINE W == Q \ {r}
        <3>2. W \subseteq Q /\ W # Q /\ W \subseteq R
            BY <2>3, <3>1
        <3>3. Sum(W) + Sum(Of(W)) = 0
            BY <2>2, <3>2
        <3>4. r \in ledger /\ \E e \in ledger : Undoes(r, e)
            BY <2>3, <3>1
        <3>5. PICK e \in ledger : Undoes(r, e)
            BY <3>4
        <3>6. r.reverses # None /\ r.kind = "reversal"
            <4>1. e.id # None
                BY EarningsConstants DEF Kept, Typed, EarningsTypeOK, Entry, EntryId, Moves
            <4>2. r.reverses = e.id
                BY <3>5 DEF Undoes
            <4> QED
                BY <3>4, <4>1, <4>2, ReversesExisting DEF Kept, Typed, EarningsTypeOK
        <3>7. \A q \in ledger : q.reverses = r.reverses => q = r
            BY <3>4, <3>6 DEF Kept, ReversalsPairUp
        <3>8. \A f \in ledger : Undoes(r, f) => f = e
            BY <3>5 DEF Undoes, Kept, Identified
        <3>9. \A q \in ledger : Undoes(q, e) => q = r
            BY <3>5, <3>7 DEF Undoes
        <3>10. e.delta + r.delta = 0 /\ e.delta \in Int /\ r.delta \in Int
            BY <3>4, <3>5, <3>6 DEF ReversalCancels, Undoes, Kept, Typed, EarningsTypeOK, Entry
        <3>11. W \subseteq ledger
            BY <1>1, <3>2
        <3>12. e \in Of(Q) /\ Of(W) = Of(Q) \ {e}
            BY <1>1, <2>3, <3>1, <3>5, <3>8, <3>9, <3>11
        <3>13. /\ IsFiniteSet(Q) /\ Amounts(Q) /\ IsFiniteSet(Of(Q)) /\ Amounts(Of(Q))
               /\ Sum(W) \in Int /\ Sum(Of(W)) \in Int
            BY <1>2, <2>3, <3>2
        <3> HIDE DEF Of, Bad
        <3>14. Sum(Q) = r.delta + Sum(W)
            BY <3>1, <3>13, SumRemoves
        <3>15. Sum(Of(Q)) = e.delta + Sum(Of(W))
            BY <3>12, <3>13, SumRemoves
        <3> HIDE DEF W
        <3> QED
            BY <2>3, <3>3, <3>10, <3>13, <3>14, <3>15
    <2> QED
        BY <2>4, <2>5
<1> QED
    BY <1>3, <1>4

\* The undo pairs of a seller are worth nothing.
LEMMA PairsAreWorthNothing ==
    ASSUME Kept, ReversalCancels, NEW s \in Seller
    PROVE  Sum({e \in ledger : e.owner = s /\ InUndoPair(e)}) = 0
<1> DEFINE R == {r \in ledger : r.owner = s /\ \E e \in ledger : Undoes(r, e)}
           U == {e \in ledger : \E r \in R : Undoes(r, e)}
           P == {e \in ledger : e.owner = s /\ InUndoPair(e)}
<1>1. ASSUME NEW r \in ledger, NEW e \in ledger, Undoes(r, e)
      PROVE  /\ r.owner = e.owner /\ e.kind = "sale" /\ r.kind = "reversal"
    <2>1. e.id # None /\ r.reverses = e.id
        BY <1>1, EarningsConstants DEF Kept, Typed, EarningsTypeOK, Entry, EntryId, Moves, Undoes
    <2>2. r.kind = "reversal"
        BY <2>1, ReversesExisting DEF Kept, Typed, EarningsTypeOK
    <2>3. PICK f \in Sales(r.opp) : f.id = r.reverses /\ f.owner = r.owner
        BY <2>2 DEF Kept, ReversalsPairUp
    <2>4. f = e
        BY <2>1, <2>3 DEF Kept, Identified, Sales
    <2> QED
        BY <2>2, <2>3, <2>4 DEF Sales
<1>2. P = R \cup U /\ R \cap U = {}
    BY <1>1 DEF InUndoPair
<1>3. Sum(R) + Sum(U) = 0 /\ Sum(R) \in Int /\ Sum(U) \in Int
    BY UndosCancel
<1>4. IsFiniteSet(P) /\ Amounts(P)
    BY EntriesHaveAmounts DEF Kept
<1>5. R \subseteq P /\ P \ R = U
    BY <1>2
<1> HIDE DEF P, R, U
<1>6. Sum(P) = Sum(R) + Sum(U)
    BY <1>4, <1>5, SumSplits
<1> QED
    BY <1>3, <1>6 DEF P

\* "No viewer ever sees a number that later corrects itself" (R1.3): while every
\* reversal takes back what its sale gave, the all-time board is the sum of what counts.
LEMMA HonestWhileReversalsCancel ==
    ASSUME Counted, ReversalCancels
    PROVE  HonestAllTime
<1> SUFFICES ASSUME NEW s \in Seller PROVE Published(AllTime, s) = Honest(AllTime, s)
    BY DEF HonestAllTime
<1> DEFINE L == InBucket(AllTime, s)
           Y == Withheld(AllTime, s)
           P == {e \in ledger : e.owner = s /\ InUndoPair(e)}
           C == {e \in L : Counts(e)}
<1>1. L = {e \in ledger : e.owner = s} /\ AllTime \in Bucket
    BY DEF InBucket, Buckets, Bucket
<1>2. \A e \in ledger : Counts(e) <=> ~Young(e) /\ ~InUndoPair(e)
    <2> SUFFICES ASSUME NEW e \in ledger PROVE Counts(e) <=> ~Young(e) /\ ~InUndoPair(e)
        OBVIOUS
    <2>1. now \in Int /\ RevealDelay \in Int /\ UndoDeadline \in Int /\ \A f \in ledger : f.at \in Int
        BY EarningsConstants DEF Counted, Kept, Typed, EarningsTypeOK, Entry
    <2>2. Young(e) <=> ~(now - e.at >= RevealDelay)
        BY <2>1 DEF Young
    <2>3. \A f \in ledger : (Undoes(e, f) <=> e.reverses = f.id /\ e.at - f.at <= UndoDeadline)
                         /\ (Undoes(f, e) <=> f.reverses = e.id /\ f.at - e.at <= UndoDeadline)
        BY <2>1 DEF Undoes
    <2> QED
        BY <2>2, <2>3 DEF Counts, InUndoPair
<1>3. Y \subseteq L /\ L \ Y = P \cup C /\ P \cap C = {} /\ P \cup C \subseteq ledger /\ L \subseteq ledger
    BY <1>1, <1>2 DEF Withheld, Buckets
<1>4. projection[<<AllTime, s>>].total = Sum(L)
    <2>1. projection[<<AllTime, s>>] = [total |-> Sum(L), count |-> Cardinality(L)]
        BY <1>1 DEF Counted, ProjectionIsLedger
    <2> HIDE DEF L
    <2> QED
        BY <2>1
<1>5. Sum(P) = 0
    BY PairsAreWorthNothing DEF Counted
<1> HIDE DEF L, Y, P, C
<1>6. \A X \in SUBSET ledger : IsFiniteSet(X) /\ Amounts(X) /\ Sum(X) \in Int
    BY EntriesHaveAmounts, SumRemoves DEF Counted, Kept
<1>7. Sum(L) = Sum(Y) + Sum(L \ Y)
    BY <1>3, <1>6, SumSplits
<1>8. Sum(L \ Y) = Sum(P) + Sum(C)
    <2>1. P \subseteq P \cup C /\ (P \cup C) \ P = C /\ IsFiniteSet(P \cup C) /\ Amounts(P \cup C)
        BY <1>3, <1>6
    <2>2. Sum(P \cup C) = Sum(P) + Sum(C)
        BY <2>1, SumSplits
    <2> QED
        BY <1>3, <2>2
<1>9. Sum(L) \in Int /\ Sum(Y) \in Int /\ Sum(C) \in Int
    <2>1. Y \in SUBSET ledger /\ C \in SUBSET ledger /\ L \in SUBSET ledger
        BY <1>3
    <2> QED
        BY <1>6, <2>1
<1>10. Published(AllTime, s) = Sum(L) - Sum(Y) /\ Honest(AllTime, s) = Sum(C)
    BY <1>4 DEF Published, Honest, L, Y, C
<1> QED
    BY <1>5, <1>7, <1>8, <1>9, <1>10

-----------------------------------------------------------------------------
(* Theorems *)

\* Every variable keeps its type; above all, no entry is ever appended without an
\* amount, a card of its seller or the entry it reverses.
THEOREM EarningsTypeCorrect == Spec => []EarningsTypeOK
<1>1. Kept => EarningsTypeOK
    BY DEF Kept, Typed
<1> QED
    BY AlwaysKept, <1>1, PTL

\* stage_move credits a card once for as long as it stays in an earning stage,
\* and when it leaves finds exactly that credit to reverse: SM005 is unreachable.
THEOREM NeverCreditedTwice == Spec => []OneStandingSale
<1>1. Kept => OneStandingSale
    <2> SUFFICES ASSUME Kept, NEW o \in Opportunity
                 PROVE  Cardinality(Unreversed(o)) = IF stage[o] = "earning" THEN 1 ELSE 0
        BY DEF OneStandingSale
    <2>1. CASE stage[o] = "earning"
        <3>1. PICK e \in ledger : Unreversed(o) = {e}
            BY <2>1 DEF Kept, Standing
        <3> QED
            BY <2>1, <3>1, FS_Singleton
    <2>2. CASE stage[o] # "earning"
        BY <2>2, FS_EmptySet DEF Kept, Standing
    <2> QED
        BY <2>1, <2>2
<1> QED
    BY AlwaysKept, <1>1, PTL

\* A reversal always follows a sale of its own card and seller, which nothing
\* else reverses: earnings_reverses_uidx never refuses a move.
THEOREM ReversalsArePaired == Spec => []ReversalsPairUp
<1>1. Kept => ReversalsPairUp
    BY DEF Kept
<1> QED
    BY AlwaysKept, <1>1, PTL

\* celebrate_once never moves a celebration, whatever its claimants interleave.
THEOREM CelebrationStays == Spec => CelebratedOnce
<1>1. Kept /\ [Next]_vars =>
        [\A o \in Opportunity : celebratedAt[o] # None => celebratedAt'[o] = celebratedAt[o]]_vars
    <2> SUFFICES ASSUME Kept, Next, NEW o \in Opportunity, celebratedAt[o] # None
                 PROVE  celebratedAt'[o] = celebratedAt[o]
        OBVIOUS
    <2>1. CASE UNCHANGED celebratedAt
        BY <2>1
    <2>2. ASSUME NEW c \in Claimant, CelebrateWrite(c) PROVE celebratedAt'[o] = celebratedAt[o]
        BY <2>2 DEF CelebrateWrite, Kept, Typed, EarningsTypeOK
    <2> QED
        BY <2>1, <2>2 DEF Next, StageMove, CelebrateCheck, LedgerAdjust, Tick
<1> QED
    BY AlwaysKept, <1>1, PTL DEF Spec, CelebratedOnce

\* Whatever a step does to the ledger is one new entry, recorded now.
LEMMA OneEntryPerStep ==
    ASSUME Next
    PROVE  \/ ledger' = ledger
           \/ \E f : /\ ledger' = ledger \cup {f} /\ f.at = now
                     /\ \A e \in ledger : e.id # f.id
<1>1. ASSUME NEW id, NEW kind, NEW owner, NEW delta, NEW opp, NEW reverses,
             LedgerAppend(id, kind, owner, delta, opp, reverses)
      PROVE  \/ ledger' = ledger
             \/ \E f : /\ ledger' = ledger \cup {f} /\ f.at = now
                       /\ \A e \in ledger : e.id # f.id
    <2> DEFINE new == [id |-> id, seq |-> Cardinality(ledger) + 1, kind |-> kind,
                       owner |-> owner, delta |-> delta, opp |-> opp, at |-> now,
                       reverses |-> reverses]
    <2>1. CASE \E e \in ledger : e.id = id
        BY <1>1, <2>1 DEF LedgerAppend, book
    <2>2. CASE \A e \in ledger : e.id # id
        <3>1. ledger' = ledger \cup {new} /\ new.at = now /\ \A e \in ledger : e.id # new.id
            BY <1>1, <2>2 DEF LedgerAppend
        <3> HIDE DEF new
        <3> QED
            BY <3>1
    <2> QED
        BY <2>1, <2>2
<1>2. ASSUME NEW o \in Opportunity, NEW to, NEW k, NEW p, NEW reason, StageMove(o, to, k, p, reason)
      PROVE  \/ ledger' = ledger
             \/ \E id, kind, owner, delta, opp, reverses :
                    LedgerAppend(id, kind, owner, delta, opp, reverses)
    BY <1>2 DEF StageMove, Credit, book
<1>3. ASSUME NEW k, NEW s, NEW d, LedgerAdjust(k, s, d)
      PROVE  \E id, kind, owner, delta, opp, reverses :
                LedgerAppend(id, kind, owner, delta, opp, reverses)
    BY <1>3 DEF LedgerAdjust
<1> QED
    BY <1>1, <1>2, <1>3 DEF Next, CelebrateCheck, CelebrateWrite, Tick, book

\* R1.3: once the board may show an entry, no step makes it half of an undo.
THEOREM ShownIsFinal == Spec => RevealedIsFinal
<1>1. ASSUME Kept, Next, NEW e \in ledger, ~Young(e), ~InUndoPair(e), InUndoPair(e)'
      PROVE  FALSE
    <2> USE EarningsConstants
    <2>1. PICK f \in ledger' : Undoes(e, f) \/ Undoes(f, e)
        BY <1>1 DEF InUndoPair, Undoes
    <2>2. f \notin ledger
        BY <1>1, <2>1 DEF InUndoPair
    <2>3. f.at = now /\ \A d \in ledger : d.id # f.id
        BY <1>1, <2>2, OneEntryPerStep
    <2>4. e.at \in Nat /\ now \in Nat
        BY <1>1 DEF Kept, Typed, EarningsTypeOK, Entry
    <2>5. CASE Undoes(e, f)
        <3>1. e.reverses # None
            <4>1. ledger' \subseteq Entry
                BY <1>1, KeptStep DEF Kept, Typed, EarningsTypeOK
            <4> QED
                BY <2>5, <4>1 DEF Undoes, Entry, EntryId, Moves
        <3>2. \E d \in ledger : d.id = e.reverses
            BY <1>1, <3>1, ReversesExisting DEF Kept, Typed, EarningsTypeOK
        <3> QED
            BY <2>3, <2>5, <3>2 DEF Undoes
    <2>6. CASE Undoes(f, e)
        <3>1. now <= e.at + UndoDeadline /\ ~(e.at > now - RevealDelay)
            BY <1>1, <2>3, <2>6 DEF Undoes, Young
        <3> QED
            BY <2>4, <3>1
    <2> QED
        BY <2>1, <2>5, <2>6
<1>2. ASSUME Kept, [Next]_vars
      PROVE  [\A e \in ledger : ~Young(e) /\ ~InUndoPair(e) => ~InUndoPair(e)']_vars
    BY <1>1, <1>2
<1> QED
    BY AlwaysKept, <1>2, PTL DEF Spec, RevealedIsFinal

\* Every entry of the ledger is counted where it must be and once: the projection
\* is the sum of the ledger (0009) and the audit has one row for each correction
\* (0071), in whatever order wins, undos, corrections and retries come.
THEOREM EveryEntryIsCounted == Spec => []EntriesAreCounted
<1>1. Counted => EntriesAreCounted
    BY DEF Counted, EntriesAreCounted
<1> QED
    BY AlwaysCounted, <1>1, PTL

\* The all-time board shows what counts and nothing else (0019:23) for as long as
\* every reversal has taken back what its sale gave.
THEOREM HonestUnlessRepriced == Spec => [](ReversalCancels => HonestAllTime)
<1>1. Counted => (ReversalCancels => HonestAllTime)
    BY HonestWhileReversalsCancel
<1> QED
    BY AlwaysCounted, <1>1, PTL
=============================================================================
