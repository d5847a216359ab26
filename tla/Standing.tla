------------------------------ MODULE Standing ------------------------------
(***************************************************************************)
(* Where a seller stands: the payload of api/leaderboard, the sentence My    *)
(* Day draws from it, and the rows of the earnings page.  Every read of My   *)
(* Day draws its answer when it comes in, whatever was asked for since.      *)
(*                                                                         *)
(* Totals are in dollars and may be negative: a correction takes away what   *)
(* it likes.                                                                 *)
(***************************************************************************)
EXTENDS Integers, Sequences, FiniteSets, SequencesExt

CONSTANTS
    Roster,         \* the sellers of the board, in the order of their ids
    Viewer,         \* who is looking: one of them, or a supervisor
    Entries,        \* the amounts a ledger entry can have
    NoRow,          \* nobody, nothing to say
    MaxEntries,     \* bound: ledger entries
    MaxReads,       \* bound: reads of the board, each can fail
    PodiumRows         \* rows of the podium, 3 in the code

ASSUME StandingAssumption ==
    /\ Entries \subseteq Int /\ NoRow \notin Int
    /\ Roster \in Seq({Roster[i] : i \in DOMAIN Roster})
    /\ \A i, j \in DOMAIN Roster : Roster[i] = Roster[j] => i = j
    /\ MaxEntries \in Nat /\ MaxReads \in Nat \ {0}
    /\ NoRow \notin {Roster[i] : i \in DOMAIN Roster} /\ PodiumRows \in Nat

VARIABLES
    totals,         \* what the ledger sums to
    entries,        \* how many entries it has taken
    standing,       \* StandingBlock's state
    boardReads,     \* its reads under way
    reads,          \* how many there have been
    earnings        \* the payload the earnings page draws; NoRow on My Day

standingVars == <<totals, entries, standing, boardReads, reads, earnings>>

----------------------------------------------------------------------------
\* app.leaderboard_board and what readBoardFor adds to it.
OnBoard  == {Roster[i] : i \in DOMAIN Roster}
Place(s) == CHOOSE i \in DOMAIN Roster : Roster[i] = s

\* null is nobody to pass.
ASSUME NoRowIsNull == NoRow \notin [rival : OnBoard, gap : Int]

\* The sellers, largest total first, the smaller id first among equals.
RanksAbove(t, a, b) == t[a] > t[b] \/ (t[a] = t[b] /\ Place(a) < Place(b))

Ranking(t) ==
    CHOOSE rows \in [DOMAIN Roster -> OnBoard] :
        \A i, j \in DOMAIN rows : i < j => RanksAbove(t, rows[i], rows[j])

Index(rows, s) == CHOOSE i \in DOMAIN rows : rows[i] = s
Ranked(rows)   == \E i \in DOMAIN rows : rows[i] = Viewer

\* Wrong variant: the leader instead of the seller above.
nextUpLeader(rows, t) ==
    IF ~Ranked(rows) \/ Index(rows, Viewer) = 1 THEN NoRow
    ELSE [rival |-> rows[1], gap |-> t[rows[1]] - t[Viewer]]

nextUpFrom(rows, t) ==
    IF ~Ranked(rows) \/ Index(rows, Viewer) = 1 THEN NoRow
    ELSE LET above == rows[Index(rows, Viewer) - 1]
         IN  [rival |-> above, gap |-> t[above] - t[Viewer]]

leadFrom(rows, t) ==
    IF ~Ranked(rows) \/ Index(rows, Viewer) # 1 \/ Len(rows) = 1 THEN NoRow
    ELSE t[Viewer] - t[rows[2]]

floorTotal(t) == FoldSeq(LAMBDA s, sum : sum + t[s], 0, Roster)

\* A payload.  `sameRow`: its self is one of its rows and not a copy of one.
readBoardFor(t, sameRow) ==
    LET rows == Ranking(t)
    IN  [rows |-> rows, total |-> t, sameRow |-> sameRow,
         self |-> IF Ranked(rows) THEN Index(rows, Viewer) ELSE NoRow,
         nextUp |-> nextUpFrom(rows, t), lead |-> leadFrom(rows, t),
         floor |-> floorTotal(t)]

----------------------------------------------------------------------------
\* The sentence of RankAndGap.
Gap(board) ==
    CASE board.nextUp = NoRow /\ board.lead = NoRow -> [says |-> "leading"]
      [] board.nextUp = NoRow /\ board.lead # NoRow -> [says |-> "leading by", amount |-> board.lead]
      [] board.nextUp # NoRow ->
            IF board.nextUp.gap = 0 THEN [says |-> "tied", rival |-> board.nextUp.rival]
            ELSE [says |-> "to pass", rival |-> board.nextUp.rival, amount |-> board.nextUp.gap]

RankAndGap(board) ==
    IF board.self = NoRow THEN [says |-> "floor total", amount |-> board.floor]
    ELSE IF board.total[Viewer] = 0 THEN [says |-> "first sale"]
    ELSE Gap(board)

\* The first three, as far as there are three.
Podium(top) == SubSeq(top, 1, IF Len(top) < PodiumRows THEN Len(top) ELSE PodiumRows)

\* The rows of the earnings page: the podium, the rest, and the viewer's own
\* again when it is neither on the podium nor one of the rest.
Leaderboard(board) ==
    LET rest == SubSeq(board.rows, PodiumRows + 1, Len(board.rows))
        selfBelowFold == /\ board.self # NoRow /\ board.self > PodiumRows
                         /\ ~(board.sameRow /\ board.self - PodiumRows \in DOMAIN rest)
    IN  [podium |-> Podium(board.rows), rest |-> rest,
         pinned |-> IF selfBelowFold THEN <<Viewer>> ELSE <<>>,
         empty |-> board.rows = <<>>,
         nothingEarnedYet |-> board.floor = 0]

----------------------------------------------------------------------------
\* The n-th read, before the server has answered it.
Asking(n) == [status |-> "unserved", n |-> n]

StandingInit ==
    /\ totals = [s \in OnBoard |-> 0] /\ entries = 0
    /\ standing = [status |-> "loading", n |-> 0]
    /\ boardReads = <<Asking(1)>> /\ reads = 1
    /\ earnings = NoRow

EntryWritten(s, amount) ==
    /\ entries < MaxEntries /\ entries' = entries + 1
    /\ totals' = [totals EXCEPT ![s] = @ + amount]
    /\ UNCHANGED <<standing, boardReads, reads, earnings>>

\* The server answers a read under way.
StandingServed(i) ==
    /\ boardReads[i].status = "unserved"
    /\ \E answer \in LET n == boardReads[i].n IN
            {[status |-> "ready", n |-> n, board |-> readBoardFor(totals, FALSE)],
             [status |-> "unauthorized", n |-> n], [status |-> "error", n |-> n]} :
            boardReads' = [boardReads EXCEPT ![i] = answer]
    /\ UNCHANGED <<totals, entries, standing, reads, earnings>>

\* Its answer is drawn, whatever was asked for since.
StandingApplied(i) ==
    /\ boardReads[i].status # "unserved"
    /\ standing' = boardReads[i]
    /\ boardReads' = RemoveAt(boardReads, i)
    /\ UNCHANGED <<totals, entries, reads, earnings>>

\* The tab comes back: another read, beside those under way.
readAgain ==
    /\ earnings = NoRow
    /\ reads < MaxReads /\ reads' = reads + 1
    /\ boardReads' = Append(boardReads, Asking(reads'))
    /\ UNCHANGED <<totals, entries, standing, earnings>>

retryStanding ==
    /\ standing.status = "error"
    /\ reads < MaxReads /\ reads' = reads + 1
    /\ standing' = [status |-> "loading", n |-> standing.n]
    /\ boardReads' = Append(boardReads, Asking(reads'))
    /\ UNCHANGED <<totals, entries, earnings>>

\* My Day is left for the earnings page: nothing of it is drawn any more, and
\* the loader hands the page a payload whose self is one of its rows.
GoToEarnings ==
    /\ earnings = NoRow /\ earnings' = readBoardFor(totals, TRUE)
    /\ boardReads' = <<>> /\ standing' = [status |-> "loading", n |-> standing.n]
    /\ UNCHANGED <<totals, entries, reads>>

\* It polls: the payload is parsed from text, so its self is a copy.
EarningsPolled ==
    /\ earnings # NoRow /\ earnings' = readBoardFor(totals, FALSE)
    /\ UNCHANGED <<totals, entries, standing, boardReads, reads>>

StandingNext ==
    \/ \E s \in OnBoard, amount \in Entries : EntryWritten(s, amount)
    \/ \E i \in DOMAIN boardReads : StandingServed(i) \/ StandingApplied(i)
    \/ readAgain \/ retryStanding \/ GoToEarnings \/ EarningsPolled

StandingSpec == StandingInit /\ [][StandingNext]_standingVars

----------------------------------------------------------------------------
StandingTypeOK ==
    /\ totals \in [OnBoard -> Int] /\ entries \in 0..MaxEntries
    /\ standing.status \in {"loading", "ready", "unauthorized", "error"}
    /\ Len(boardReads) <= reads /\ reads \in 1..MaxReads
    /\ earnings # NoRow => Len(earnings.rows) = Len(Roster)

\* Where the viewer would stand with that much more, everybody else as they were.
RankWith(t, more) ==
    LET raised == [t EXCEPT ![Viewer] = @ + more]
    IN  1 + Cardinality({s \in OnBoard : raised[s] > raised[Viewer]
                          \/ (raised[s] = raised[Viewer] /\ Place(s) < Place(Viewer))})

\* The amount of the sentence is the distance it says it is: earning less does
\* not pass the seller it names, earning a dollar more passes at least him, and
\* a leader stays ahead of everybody until he loses more than his margin
\* (api/leaderboard.ts:124-157, rank-and-gap.tsx:121-171).
GapIsTheDistance ==
    standing.status = "ready" =>
        LET said == RankAndGap(standing.board)
            t    == standing.board.total
        IN  /\ said.says = "to pass" =>
                 /\ RankWith(t, said.amount - 1) = standing.board.self
                 /\ RankWith(t, said.amount + 1) < standing.board.self
            /\ said.says = "tied" => t[said.rival] = t[Viewer]
            /\ said.says = "leading by" =>
                 /\ RankWith(t, 1 - said.amount) = 1 \/ said.amount = 0
                 /\ RankWith(t, -1 - said.amount) > 1
            /\ said.says = "leading" => OnBoard = {Viewer}

\* The answer on the screen is never replaced by that of an earlier read: "a
\* refocus superseding a read still in flight" (standing-block.tsx:76-79).
NeverAnOlderAnswer == [][standing'.n >= standing.n]_standingVars

\* "The viewer's own row" is drawn once (routes/ui/leaderboard.tsx:69,162).
SelfRowOnce ==
    earnings # NoRow => LET page == Leaderboard(earnings)
    IN  Cardinality({i \in DOMAIN (page.podium \o page.rest \o page.pinned) :
                        (page.podium \o page.rest \o page.pinned)[i] = Viewer}) <= 1

\* "which is zero precisely when every row is" (routes/ui/leaderboard.tsx:84-86).
EmptyMeansNothingEarned ==
    earnings # NoRow =>
        Leaderboard(earnings).nothingEarnedYet <=> (\A s \in OnBoard : earnings.total[s] = 0)
=============================================================================
