------------------------------- MODULE Board -------------------------------
(***************************************************************************)
(* One browser tab on the pipeline board: what it renders comes from two    *)
(* sources, the route loader and a conditional poll, and each of them can   *)
(* be overtaken by the other.  On top of them sit the drag with its         *)
(* optimistic placement, the move sheet, the five-second undo bar and the   *)
(* celebration that hangs off the bar's timer.                              *)
(*                                                                         *)
(* The database is a stage per card and the cards whose win was celebrated;  *)
(* a move made in another tab stands for everything that changes the board   *)
(* from outside.  What stage_move and celebrate_once check is the business   *)
(* of Earnings.  One submission is in flight at a time.                      *)
(***************************************************************************)
EXTENDS Naturals, TLC

CONSTANTS
    Card,
    Stage,
    Gated,          \* the stages that are not open: a sheet asks for what they need
    Earning,        \* the stages of type 'earning'
    None,           \* no card, no snapshot, no request
    Unchanged,      \* a 304
    Window,         \* UNDO_WINDOW_MS in clock ticks
    Showing,        \* CELEBRATION_VISIBLE_MS in clock ticks
    MaxMoves,       \* bounds: moves submitted, and everything else that can
    MaxTrouble      \*   disturb the tab: changes elsewhere, faults, reloads

ASSUME BoardAssumption ==
    /\ None \notin Card
    /\ Earning \subseteq Gated /\ Gated \subseteq Stage
    /\ Window \in Nat \ {0} /\ Showing \in Nat \ {0}

VARIABLES
    db,             \* what the server would answer now
    url,            \* the parameters ?moved, ?from and ?move
    popped,         \* useNavigationType() = Pop
    loaded,         \* loaderData
    polled,         \* useConditionalPoll's state; None until a tick answers
    tag,            \* the board the held etag stands for
    poll,           \* the tick in flight
    visible,        \* document.visibilityState
    request,        \* the submission in flight and its navigation
    claim,          \* the POST to /api/celebrate in flight
    bar,            \* the mounted undo bar
    fete,           \* the mounted celebration
    asked,          \* history: cards this document has submitted a move of
    spent           \* how much of each bound is used

tab  == <<url, popped, loaded, polled, tag, poll, visible>>
vars == <<db, tab, request, claim, bar, fete, asked, spent>>

Limit == [moves |-> MaxMoves, trouble |-> MaxTrouble]
Spend(b) == spent[b] < Limit[b] /\ spent' = [spent EXCEPT ![b] = @ + 1]

----------------------------------------------------------------------------
\* The server.

\* readPipelineFor and etagSourceOf: all that distinguishes two payloads.
Pipeline == db.at

\* The loader: the board, and a win that may be celebrated if the URL names it.
Load(moved) ==
    [board |-> Pipeline,
     win   |-> IF moved # None /\ db.at[moved] \in Earning
                  /\ moved \notin db.celebrated THEN moved ELSE None]

\* jsonConditional: a tag over the projection, compared with the one held.
Answer(held) == IF held = Pipeline THEN Unchanged ELSE Pipeline

----------------------------------------------------------------------------
\* What is on the screen.

Live == IF polled = None THEN loaded.board ELSE polled

\* The card of a submission in flight is drawn in its new column.
OptimisticallyPlaced ==
    IF request # None /\ request.kind = "drag"
    THEN [Live EXCEPT ![request.card] = request.to] ELSE Live

NoBar  == [card |-> None, left |-> 0]
NoFete == [card |-> None, left |-> 0, claimed |-> FALSE]

\* React keeps a bar whose key, the moved card, did not change.
BarOf(moved) ==
    IF moved = None THEN NoBar
    ELSE IF bar.card = moved THEN bar ELSE [card |-> moved, left |-> Window]

Blank == [moved |-> None, from |-> None, move |-> None]

BoardInit ==
    /\ db \in [at : [Card -> Stage \ Earning], celebrated : {{}}]
    /\ url = Blank
    /\ popped = TRUE
    /\ loaded = Load(None)
    /\ polled = None /\ tag = None /\ poll = None
    /\ visible = TRUE
    /\ request = None /\ claim = None
    /\ bar = NoBar /\ fete = NoFete
    /\ asked = {}
    /\ spent = [b \in DOMAIN Limit |-> 0]

\* The same seller moves a card in another tab.
MovedElsewhere(c, s) ==
    /\ s # db.at[c]
    /\ Spend("trouble")
    /\ db' = [db EXCEPT !.at[c] = s]
    /\ UNCHANGED <<tab, request, claim, bar, fete, asked>>

----------------------------------------------------------------------------
\* The conditional poll.

\* tick: never two at once, with the tag held now.
Tick ==
    /\ visible
    /\ poll = None
    /\ poll' = [held |-> tag, answer |-> None]
    /\ UNCHANGED <<db, url, popped, loaded, polled, tag, visible>>
    /\ UNCHANGED <<request, claim, bar, fete, asked, spent>>

PollAnswered ==
    /\ poll # None /\ poll.answer = None
    /\ poll' = [poll EXCEPT !.answer = Answer(poll.held)]
    /\ UNCHANGED <<db, url, popped, loaded, polled, tag, visible>>
    /\ UNCHANGED <<request, claim, bar, fete, asked, spent>>

\* A 304 touches nothing; a 200 replaces the screen and the tag.
PollApplied ==
    /\ poll # None /\ poll.answer # None
    /\ poll' = None
    /\ IF poll.answer = Unchanged THEN UNCHANGED <<polled, tag>>
       ELSE polled' = poll.answer /\ tag' = poll.answer
    /\ UNCHANGED <<db, url, popped, loaded, visible>>
    /\ UNCHANGED <<request, claim, bar, fete, asked, spent>>

\* Wrong variant: the tag is kept before the body is read.
PollFailedTagged ==
    /\ poll # None
    /\ Spend("trouble")
    /\ poll' = None
    /\ tag' = IF poll.answer \in {None, Unchanged} THEN tag ELSE poll.answer
    /\ UNCHANGED <<db, url, popped, loaded, polled, visible>>
    /\ UNCHANGED <<request, claim, bar, fete, asked>>

\* A failed tick, a refusal, or the sign-in page instead of JSON.
PollFailed ==
    /\ poll # None
    /\ Spend("trouble")
    /\ poll' = None
    /\ UNCHANGED <<db, url, popped, loaded, polled, tag, visible>>
    /\ UNCHANGED <<request, claim, bar, fete, asked>>

\* Hidden, the interval stops; coming back ticks at once unless one is out.
Hide ==
    /\ visible /\ visible' = FALSE
    /\ UNCHANGED <<db, url, popped, loaded, polled, tag, poll>>
    /\ UNCHANGED <<request, claim, bar, fete, asked, spent>>

Refocus ==
    /\ ~visible /\ visible' = TRUE
    /\ poll' = IF poll = None THEN [held |-> tag, answer |-> None] ELSE poll
    /\ UNCHANGED <<db, url, popped, loaded, polled, tag>>
    /\ UNCHANGED <<request, claim, bar, fete, asked, spent>>

----------------------------------------------------------------------------
\* Moves.

Submit(kind, c, from, to) ==
    /\ request = None
    /\ Spend("moves")
    /\ request' = [kind |-> kind, card |-> c, from |-> from, to |-> to,
                   phase |-> "sent", answer |-> None]
    /\ asked' = asked \cup {c}
    /\ UNCHANGED <<db, tab, claim, bar, fete>>

\* A client-side navigation that submits nothing: the loader runs for it too.
Visit(target) ==
    /\ request = None
    /\ request' = [kind |-> "visit", card |-> target.moved, from |-> target.move,
                   to |-> None, phase |-> "done", answer |-> None]
    /\ UNCHANGED <<db, tab, claim, bar, fete, asked, spent>>

\* handleDrop: back where it started is nothing; an open stage is submitted at
\* once; any other stage opens the sheet, where its gate can be answered.
Drop(c, s) ==
    /\ s # OptimisticallyPlaced[c]
    /\ IF s \in Gated THEN Visit([Blank EXCEPT !.move = c])
       ELSE Submit("drag", c, OptimisticallyPlaced[c], s)

\* The sheet of the card the URL names, for every column but its own.
MoveHere(s) ==
    /\ url.move # None
    /\ s # Live[url.move]
    /\ Submit("sheet", url.move, Live[url.move], s)

\* The bar's form: an ordinary move back to the column the URL remembers.
Undo ==
    /\ bar.card # None /\ bar.left > 0
    /\ Submit("undo", bar.card, None, url.from)

\* The bar's link, and every other link that leaves the parameters behind.
Dismiss == url # Blank /\ Visit(Blank)

\* The action: stage_move commits, or raises and nothing changed.
ServerMoves ==
    /\ request # None /\ request.phase = "sent"
    /\ db' = [db EXCEPT !.at[request.card] = request.to]
    /\ request' = [request EXCEPT !.phase = "done"]
    /\ UNCHANGED <<tab, claim, bar, fete, asked, spent>>

ServerRefuses ==
    /\ request # None /\ request.phase = "sent"
    /\ Spend("trouble")
    /\ request' = [request EXCEPT !.phase = "refused"]
    /\ UNCHANGED <<db, tab, claim, bar, fete, asked>>

\* Where the answer sends the browser; a refusal leaves it where it is.
Target ==
    IF request.phase = "refused" THEN url
    ELSE CASE request.kind \in {"drag", "sheet"} ->
                 [Blank EXCEPT !.moved = request.card, !.from = request.from]
           [] request.kind = "visit" ->
                 [Blank EXCEPT !.moved = request.card, !.move = request.from]
           [] OTHER -> Blank

LoaderReads ==
    /\ request # None /\ request.phase \in {"done", "refused"}
    /\ request.answer = None
    /\ request' = [request EXCEPT !.answer = Load(Target.moved)]
    /\ UNCHANGED <<db, tab, claim, bar, fete, asked, spent>>

\* The navigation commits: URL, loader data and bar change in one render, the
\* loader wins over any tick, the fetcher is idle again, and a revalidation
\* begun before it is dropped.  A refused drag is answered to its fetcher and
\* does not navigate; a refused form replaces the history entry it was on.
Commit ==
    /\ request # None /\ request.answer # None
    /\ url' = Target
    /\ popped' = (popped /\ request.phase = "refused" /\ request.kind = "drag")
    /\ loaded' = request.answer
    /\ polled' = None
    /\ bar' = BarOf(Target.moved)
    /\ claim' = IF claim # None /\ claim.phase = "done" THEN None ELSE claim
    /\ request' = None
    /\ UNCHANGED <<db, tag, poll, visible, fete, asked, spent>>

----------------------------------------------------------------------------
\* The five seconds and what follows them.

\* Wrong variant: a page load arms the celebration too.
ClosingOnLoad == bar.left = 1 /\ loaded.win # None

\* onWindowClosed: armed by the loader's payload and by a move, never by Pop.
Closing == bar.left = 1 /\ loaded.win # None /\ ~popped

\* Wrong variant: the window runs on past its end.
TickedOn(left) == left - 1

Ticked(left) == IF left > 0 THEN left - 1 ELSE 0

\* Celebration has no key: a second token meets the state of the first.
Celebrate(c) ==
    IF fete.card = None THEN [card |-> c, left |-> Showing, claimed |-> FALSE]
    ELSE [fete EXCEPT !.card = c, !.left = Ticked(@)]

\* One tick of the page's timers: the bar's window and the overlay's lifetime.
Clock ==
    /\ bar.left > 0 \/ fete.left > 0
    /\ bar' = [bar EXCEPT !.left = Ticked(@)]
    /\ fete' = IF Closing THEN Celebrate(loaded.win) ELSE [fete EXCEPT !.left = Ticked(@)]
    /\ UNCHANGED <<db, tab, request, claim, asked, spent>>

\* The claim, sent after the render and once per mount.
Claim ==
    /\ fete.card # None /\ ~fete.claimed
    /\ fete' = [fete EXCEPT !.claimed = TRUE]
    /\ claim' = [card |-> fete.card, phase |-> "sent", answer |-> None]
    /\ UNCHANGED <<db, tab, request, bar, asked, spent>>

\* celebrate_once records a win that still stands, or refuses.
ServerClaims ==
    /\ claim # None /\ claim.phase = "sent"
    /\ claim' = [claim EXCEPT !.phase = "done"]
    /\ \/ /\ db.at[claim.card] \in Earning
          /\ db' = [db EXCEPT !.celebrated = @ \cup {claim.card}]
          /\ UNCHANGED spent
       \/ /\ db.at[claim.card] \notin Earning
          /\ UNCHANGED <<db, spent>>
       \/ /\ Spend("trouble")
          /\ UNCHANGED db
    /\ UNCHANGED <<tab, request, bar, fete, asked>>

\* The fetcher that claimed revalidates the route; a navigation in flight runs
\* the loader itself.
ClaimReads ==
    /\ claim # None /\ claim.phase = "done" /\ claim.answer = None
    /\ request = None
    /\ claim' = [claim EXCEPT !.answer = Load(url.moved)]
    /\ UNCHANGED <<db, tab, request, bar, fete, asked, spent>>

ClaimApplied ==
    /\ claim # None /\ claim.answer # None
    /\ claim' = None
    /\ loaded' = claim.answer /\ polled' = None
    /\ UNCHANGED <<db, url, popped, tag, poll, visible>>
    /\ UNCHANGED <<request, bar, fete, asked, spent>>

\* A fresh document: what the page's memory held is gone, the URL is not.
Reload ==
    /\ Spend("trouble")
    /\ popped' = TRUE
    /\ loaded' = Load(url.moved)
    /\ polled' = None /\ tag' = None /\ poll' = None
    /\ request' = None /\ claim' = None
    /\ bar' = IF url.moved = None THEN NoBar
              ELSE [card |-> url.moved, left |-> Window]
    /\ fete' = NoFete
    /\ asked' = {}
    /\ UNCHANGED <<db, url, visible>>
----------------------------------------------------------------------------
BoardNext ==
    \/ \E c \in Card, s \in Stage : MovedElsewhere(c, s)
    \/ Tick \/ PollAnswered \/ PollApplied \/ PollFailed
    \/ Hide \/ Refocus
    \/ \E c \in Card, s \in Stage : Drop(c, s)
    \/ \E s \in Stage : MoveHere(s)
    \/ Undo \/ Dismiss
    \/ ServerMoves \/ ServerRefuses \/ LoaderReads \/ Commit
    \/ Clock \/ Claim \/ ServerClaims \/ ClaimReads \/ ClaimApplied
    \/ Reload

\* The browser's timers fire, and every request is answered or fails.
BoardFairness ==
    /\ WF_vars(Tick) /\ WF_vars(PollAnswered) /\ WF_vars(PollApplied)
    /\ WF_vars(ServerMoves) /\ WF_vars(LoaderReads) /\ WF_vars(Commit)
    /\ WF_vars(Clock)

BoardSpec == BoardInit /\ [][BoardNext]_vars /\ BoardFairness

----------------------------------------------------------------------------
\* What should hold.

Snapshots == [Card -> Stage]
Loads     == [board : Snapshots, win : Card \cup {None}]

BoardTypeOK ==
    /\ db \in [at : [Card -> Stage], celebrated : SUBSET Card]
    /\ url \in [moved : Card \cup {None}, from : Stage \cup {None}, move : Card \cup {None}]
    /\ popped \in BOOLEAN /\ visible \in BOOLEAN
    /\ loaded \in Loads
    /\ polled \in Snapshots \cup {None} /\ tag \in Snapshots \cup {None}
    /\ poll \in {None} \cup [held : Snapshots \cup {None},
                             answer : Snapshots \cup {None, Unchanged}]
    /\ bar.card \in Card \cup {None} /\ bar.left \in 0..Window
    /\ fete.card \in Card \cup {None} /\ fete.left \in 0..Showing
    /\ asked \subseteq Card

\* The celebration is armed by a move and never by a page load: only a card
\* this document has submitted a move of is celebrated, however the page was
\* reached and whatever was reloaded (ui/board.tsx:272-277).
ConfettiIsEarned ==
    [][fete'.card \notin {fete.card, None} => fete'.card \in asked]_vars

\* The celebration does not fire when the seller undoes: no celebration of a
\* card begins while its undo is under way (undo-bar.tsx:47-50).
NoConfettiAfterUndo ==
    [][fete'.card \notin {fete.card, None} =>
           ~(request # None /\ request.kind = "undo" /\ request.card = fete'.card)]_vars

\* A tick never replaces a screen that is right by one that is not: a completed
\* move survives the next tick (use-conditional-poll.ts:38-40 and :57-59).
TicksNeverGoBack ==
    [][polled' \notin {polled, None} /\ Live = Pipeline => polled' = Pipeline]_vars

\* Every celebration stays on screen for its own time and claims its own win
\* (celebration.tsx:30-49).
EverySaleIsShown ==
    [][fete'.card \notin {fete.card, None} => fete'.left = Showing /\ ~fete'.claimed]_vars

\* The one way a visible board stays old: the loader replaced what a tick had
\* drawn, the tag of that tick is still held, and the tag is right.
HeldTagIsRight == polled = None /\ tag = Pipeline /\ loaded.board # Pipeline

\* Otherwise a board that is on the screen and out of date is brought up to
\* date by the poll, through failed ticks, refocusing and late answers
\* (use-conditional-poll.ts:78-151).
CatchesUp ==
    (visible /\ Live # Pipeline /\ ~HeldTagIsRight)
        ~> (~visible \/ Live = Pipeline \/ HeldTagIsRight)
=============================================================================
