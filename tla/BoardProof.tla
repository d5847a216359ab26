----------------------------- MODULE BoardProof -----------------------------
(***************************************************************************)
(* Proofs about Board, for any cards, stages and lengths of the window and    *)
(* of the overlay: its types, and that no page load ever celebrates.          *)
(***************************************************************************)
EXTENDS Board, TLAPS

Urls     == [moved : Card \cup {None}, from : Stage \cup {None}, move : Card \cup {None}]
Polls    == [held : Snapshots \cup {None}, answer : Snapshots \cup {None, Unchanged}]
Bars     == [card : Card \cup {None}, left : 0..Window]
Fetes    == [card : Card \cup {None}, left : 0..Showing, claimed : BOOLEAN]
Claims   == [card : Card, phase : {"sent", "done"}, answer : Loads \cup {None}]
Requests == [kind : {"drag", "sheet", "undo", "visit"}, card : Card \cup {None},
             from : Stage \cup Card \cup {None}, to : Stage \cup {None},
             phase : {"sent", "done", "refused"}, answer : Loads \cup {None}]

\* Everything a document holds, each in its own shape.
Shapes ==
    /\ db \in [at : Snapshots, celebrated : SUBSET Card]
    /\ url \in Urls
    /\ popped \in BOOLEAN /\ visible \in BOOLEAN
    /\ loaded \in Loads
    /\ polled \in Snapshots \cup {None} /\ tag \in Snapshots \cup {None}
    /\ poll \in {None} \cup Polls
    /\ bar \in Bars
    /\ fete \in Fetes
    /\ claim \in {None} \cup Claims
    /\ request \in {None} \cup Requests
    /\ asked \subseteq Card

\* The URL names a move that was made, with the column it was made from, or a
\* sheet to open, never both; the bar is that move's; and unless the page was
\* loaded as it stands, it is a move this document has submitted.
UrlIsAMove ==
    /\ url.moved # None => url.from \in Stage
    /\ url.moved = None \/ url.move = None
    /\ bar.card = url.moved
    /\ ~popped => url.moved \in asked \cup {None}

\* What is submitted, and what its answer was read for.
RequestIsAMove ==
    request # None =>
        /\ request.kind = "visit" => /\ request.card = None /\ request.phase = "done"
                                     /\ request.from \in Card \cup {None}
        /\ request.kind # "visit" => request.card \in asked /\ request.to \in Stage
        /\ request.kind \in {"drag", "sheet"} => request.from \in Stage
        /\ request.kind = "undo" => request.card = url.moved
        /\ request.kind = "sheet" => url.moved = None
        /\ request.answer # None => /\ request.phase \in {"done", "refused"}
                                    /\ request.answer.win \in {None, Target.moved}

\* A win the loader handed over is the URL's, also while a claim revalidates.
WinIsTheUrls ==
    /\ loaded.win \in {None, url.moved}
    /\ claim # None /\ claim.answer # None =>
          claim.phase = "done" /\ claim.answer.win \in {None, url.moved}

\* The inductive invariant.
BoardInv == Shapes /\ UrlIsAMove /\ RequestIsAMove /\ WinIsTheUrls

----------------------------------------------------------------------------
\* What a loader reads is a board, and a win only of the card it was asked for.
LEMMA LoadIs ==
    ASSUME Shapes, NEW moved \in Card \cup {None}
    PROVE  Load(moved) \in Loads /\ Load(moved).win \in {None, moved}
  BY DEF Shapes, Load, Loads, Pipeline

\* What is on the screen is a board.
LEMMA LiveIs == ASSUME Shapes PROVE Live \in Snapshots
  BY DEF Shapes, Live, Loads

\* Where an answer sends the browser: to a URL the code writes, and to no other
\* document's move unless it stays where it was after a refused drag.
LEMMA TargetIs ==
    ASSUME BoardInv, request # None, request.phase # "sent"
    PROVE  /\ Target \in Urls
           /\ Target.moved # None => Target.from \in Stage
           /\ Target.moved = None \/ Target.move = None
           /\ ~(popped /\ request.phase = "refused" /\ request.kind = "drag") =>
                 Target.moved \in asked \cup {None}
  <1>1. request \in Requests /\ url \in Urls /\ asked \subseteq Card
    BY DEF BoardInv, Shapes
  <1>2. CASE request.phase = "refused"
    <2>1. Target = url
      BY <1>2 DEF Target
    <2>2. request.kind \in {"drag", "sheet", "undo"}
      BY <1>1, <1>2 DEF BoardInv, RequestIsAMove, Requests
    <2>3. (popped /\ request.kind = "drag") \/ url.moved \in asked \cup {None}
      BY <2>2 DEF BoardInv, RequestIsAMove, UrlIsAMove
    <2> QED
      BY <1>1, <1>2, <2>1, <2>3 DEF BoardInv, UrlIsAMove
  <1>3. CASE request.phase # "refused" /\ request.kind \in {"drag", "sheet"}
    <2>1. Target = [Blank EXCEPT !.moved = request.card, !.from = request.from]
      BY <1>3 DEF Target
    <2>2. request.card \in asked /\ request.from \in Stage
      BY <1>3 DEF BoardInv, RequestIsAMove
    <2> QED
      BY <1>1, <2>1, <2>2 DEF Blank, Urls
  <1>4. CASE request.phase # "refused" /\ request.kind = "visit"
    <2>1. Target = [Blank EXCEPT !.moved = request.card, !.move = request.from]
      BY <1>4 DEF Target
    <2>2. request.card = None /\ request.from \in Card \cup {None}
      BY <1>4 DEF BoardInv, RequestIsAMove
    <2> QED
      BY <2>1, <2>2 DEF Blank, Urls
  <1>5. CASE request.phase # "refused" /\ request.kind = "undo"
    <2>1. Target = Blank
      BY <1>5 DEF Target
    <2> QED
      BY <2>1 DEF Blank, Urls
  <1> QED
    BY <1>1, <1>2, <1>3, <1>4, <1>5 DEF Requests

\* A tab opens with nothing moved.
LEMMA BoardInvInit == BoardInit => BoardInv
  <1> SUFFICES ASSUME BoardInit PROVE BoardInv
    OBVIOUS
  <1>1. db \in [at : Snapshots, celebrated : SUBSET Card]
    BY DEF BoardInit, Snapshots
  <1>2. loaded \in Loads /\ loaded.win = None
    BY <1>1 DEF BoardInit, Load, Loads, Pipeline
  <1>3. bar \in Bars /\ fete \in Fetes
    BY BoardAssumption DEF BoardInit, NoBar, NoFete, Bars, Fetes
  <1>4. url \in Urls /\ url.moved = None /\ bar.card = None
    BY DEF BoardInit, Blank, Urls, NoBar
  <1> QED
    BY <1>1, <1>2, <1>3, <1>4 DEF BoardInit, BoardInv, Shapes, UrlIsAMove, RequestIsAMove, WinIsTheUrls

----------------------------------------------------------------------------
\* The poll touches neither the URL nor what was read for it.
LEMMA PollKeepsBoard ==
    ASSUME BoardInv,
           \/ \E c \in Card, s \in Stage : MovedElsewhere(c, s)
           \/ Tick \/ PollAnswered \/ PollApplied \/ PollFailed \/ Hide \/ Refocus
    PROVE  BoardInv'
  <1>1. UNCHANGED <<url, popped, loaded, request, claim, bar, fete, asked>>
    BY DEF MovedElsewhere, Tick, PollAnswered, PollApplied, PollFailed, Hide, Refocus, tab
  <1>2. UrlIsAMove' /\ WinIsTheUrls' /\ RequestIsAMove'
    BY <1>1 DEF BoardInv, UrlIsAMove, WinIsTheUrls, RequestIsAMove, Target
  <1>3. db' \in [at : Snapshots, celebrated : SUBSET Card]
    BY DEF BoardInv, Shapes, MovedElsewhere, Tick, PollAnswered, PollApplied, PollFailed, Hide,
           Refocus, Snapshots
  <1>4. poll' \in {None} \cup Polls
    BY DEF BoardInv, Shapes, MovedElsewhere, Tick, PollAnswered, PollApplied, PollFailed, Hide,
           Refocus, tab, Polls, Answer, Pipeline
  <1>5. /\ polled' \in Snapshots \cup {None} /\ tag' \in Snapshots \cup {None}
        /\ visible' \in BOOLEAN
    BY DEF BoardInv, Shapes, MovedElsewhere, Tick, PollAnswered, PollApplied, PollFailed, Hide,
           Refocus, tab, Polls
  <1> QED
    BY <1>1, <1>2, <1>3, <1>4, <1>5 DEF BoardInv, Shapes

\* A move that goes out is one of a card, to a column, and is remembered.
LEMMA SubmitKeepsBoard ==
    ASSUME BoardInv, NEW kind \in {"drag", "sheet", "undo"}, NEW c \in Card,
           NEW from \in Stage \cup {None}, NEW to \in Stage,
           kind # "undo" => from \in Stage,
           kind = "undo" => c = url.moved,
           kind = "sheet" => url.moved = None,
           Submit(kind, c, from, to)
    PROVE  BoardInv'
  <1>1. /\ request' = [kind |-> kind, card |-> c, from |-> from, to |-> to,
                       phase |-> "sent", answer |-> None]
        /\ asked' = asked \cup {c}
        /\ UNCHANGED <<db, tab, claim, bar, fete>>
    BY DEF Submit
  <1>2. Shapes'
    BY <1>1 DEF BoardInv, Shapes, Requests, tab
  <1>3. RequestIsAMove'
    BY <1>1 DEF RequestIsAMove, tab
  <1>4. UrlIsAMove' /\ WinIsTheUrls'
    BY <1>1 DEF BoardInv, UrlIsAMove, WinIsTheUrls, tab
  <1> QED
    BY <1>2, <1>3, <1>4 DEF BoardInv

\* So is a navigation that submits nothing, of a card it opens the sheet of.
LEMMA VisitKeepsBoard ==
    ASSUME BoardInv, NEW c \in Card \cup {None}, Visit([Blank EXCEPT !.move = c])
    PROVE  BoardInv'
  <1>1. /\ request' = [kind |-> "visit", card |-> None, from |-> c, to |-> None,
                       phase |-> "done", answer |-> None]
        /\ UNCHANGED <<db, tab, claim, bar, fete, asked, spent>>
    BY DEF Visit, Blank
  <1>2. Shapes'
    BY <1>1 DEF BoardInv, Shapes, Requests, tab
  <1>3. RequestIsAMove'
    BY <1>1 DEF RequestIsAMove
  <1>4. UrlIsAMove' /\ WinIsTheUrls'
    BY <1>1 DEF BoardInv, UrlIsAMove, WinIsTheUrls, tab
  <1> QED
    BY <1>2, <1>3, <1>4 DEF BoardInv

\* What the seller does: drags, picks a column, undoes, dismisses.
LEMMA MovesKeepBoard ==
    ASSUME BoardInv,
           \/ \E c \in Card, s \in Stage : Drop(c, s)
           \/ \E s \in Stage : MoveHere(s)
           \/ Undo \/ Dismiss
    PROVE  BoardInv'
  <1>1. ASSUME NEW c \in Card, NEW s \in Stage, Drop(c, s) PROVE BoardInv'
    <2>1. CASE s \in Gated
      BY <1>1, <2>1, VisitKeepsBoard DEF Drop
    <2>2. CASE s \notin Gated
      <3>1. Submit("drag", c, OptimisticallyPlaced[c], s)
        BY <1>1, <2>2 DEF Drop
      <3>2. OptimisticallyPlaced = Live
        BY <3>1 DEF Submit, OptimisticallyPlaced
      <3>3. OptimisticallyPlaced[c] \in Stage
        BY <3>2, LiveIs DEF BoardInv, Snapshots
      <3> QED
        BY <3>1, <3>3, SubmitKeepsBoard
    <2> QED
      BY <2>1, <2>2
  <1>2. ASSUME NEW s \in Stage, MoveHere(s) PROVE BoardInv'
    <2>1. url.move \in Card /\ url.moved = None
      BY <1>2 DEF MoveHere, BoardInv, Shapes, Urls, UrlIsAMove
    <2>2. Live[url.move] \in Stage
      BY <2>1, LiveIs DEF BoardInv, Snapshots
    <2> QED
      BY <1>2, <2>1, <2>2, SubmitKeepsBoard DEF MoveHere
  <1>3. CASE Undo
    <2>1. bar.card \in Card /\ bar.card = url.moved /\ url.from \in Stage
      BY <1>3 DEF Undo, BoardInv, Shapes, Bars, UrlIsAMove
    <2> QED
      BY <1>3, <2>1, SubmitKeepsBoard DEF Undo
  <1>4. CASE Dismiss
    <2>1. Blank = [Blank EXCEPT !.move = None]
      BY DEF Blank
    <2> QED
      BY <1>4, <2>1, VisitKeepsBoard DEF Dismiss
  <1> QED
    BY <1>1, <1>2, <1>3, <1>4

\* The server's half of a submission.
LEMMA ServerKeepsBoard ==
    ASSUME BoardInv, ServerMoves \/ ServerRefuses \/ LoaderReads
    PROVE  BoardInv'
  <1>1. /\ request # None /\ request \in Requests
        /\ UNCHANGED <<tab, claim, bar, fete, asked>>
    BY DEF ServerMoves, ServerRefuses, LoaderReads, BoardInv, Shapes
  <1>2. UrlIsAMove' /\ WinIsTheUrls'
    BY <1>1 DEF BoardInv, UrlIsAMove, WinIsTheUrls, tab
  <1>3. CASE ServerMoves \/ ServerRefuses
    <2>1. PICK p \in {"done", "refused"} : request' = [request EXCEPT !.phase = p]
      BY <1>3 DEF ServerMoves, ServerRefuses
    <2>2. request.phase = "sent"
      BY <1>3 DEF ServerMoves, ServerRefuses
    <2>3. request.kind # "visit" /\ request.answer = None
      BY <1>1, <2>2 DEF BoardInv, RequestIsAMove
    <2>4. db' \in [at : Snapshots, celebrated : SUBSET Card]
      <3>1. request.to \in Stage
        BY <1>1, <2>3 DEF BoardInv, RequestIsAMove
      <3>2. db' = db \/ db' = [db EXCEPT !.at[request.card] = request.to]
        BY <1>3 DEF ServerMoves, ServerRefuses
      <3> QED
        BY <3>1, <3>2 DEF BoardInv, Shapes, Snapshots
    <2>5. request' \in Requests
      BY <1>1, <2>1 DEF Requests
    <2>6. RequestIsAMove'
      BY <1>1, <2>1, <2>3 DEF BoardInv, RequestIsAMove, Requests, tab
    <2> QED
      BY <1>1, <1>2, <2>4, <2>5, <2>6 DEF BoardInv, Shapes, tab
  <1>4. CASE LoaderReads
    <2>1. /\ request.phase \in {"done", "refused"} /\ db' = db
          /\ request' = [request EXCEPT !.answer = Load(Target.moved)]
      BY <1>4 DEF LoaderReads
    <2>2. Target \in Urls
      BY <1>1, <2>1, TargetIs
    <2>3. Load(Target.moved) \in Loads /\ Load(Target.moved).win \in {None, Target.moved}
      BY <2>2, LoadIs DEF BoardInv, Urls
    <2>4. request' \in Requests
      BY <1>1, <2>1, <2>3 DEF Requests
    <2>5. /\ request'.kind = request.kind /\ request'.card = request.card
          /\ request'.from = request.from /\ request'.to = request.to
          /\ request'.phase = request.phase /\ request'.answer = Load(Target.moved)
      BY <1>1, <2>1 DEF Requests
    <2>6. Target' = Target
      BY <1>1, <2>5 DEF Target, tab
    <2>7. RequestIsAMove'
      BY <1>1, <2>1, <2>3, <2>5, <2>6 DEF BoardInv, RequestIsAMove, tab
    <2> QED
      BY <1>1, <1>2, <2>1, <2>4, <2>7 DEF BoardInv, Shapes, tab
  <1> QED
    BY <1>3, <1>4

\* The navigation commits: the bar is the new URL's, a claim's answer that was
\* read for the old one is dropped.
LEMMA CommitKeepsBoard == ASSUME BoardInv, Commit PROVE BoardInv'
  <1>1. request # None /\ request.answer # None /\ request \in Requests
    BY DEF Commit, BoardInv, Shapes
  <1>2. request.phase # "sent" /\ request.answer.win \in {None, Target.moved}
    BY <1>1 DEF BoardInv, RequestIsAMove
  <1>3. /\ url' = Target /\ loaded' = request.answer /\ polled' = None /\ request' = None
        /\ popped' = (popped /\ request.phase = "refused" /\ request.kind = "drag")
        /\ bar' = BarOf(Target.moved)
        /\ claim' = IF claim # None /\ claim.phase = "done" THEN None ELSE claim
        /\ UNCHANGED <<db, tag, poll, visible, fete, asked>>
    BY DEF Commit
  <1>4. /\ Target \in Urls
        /\ Target.moved # None => Target.from \in Stage
        /\ Target.moved = None \/ Target.move = None
        /\ ~(popped /\ request.phase = "refused" /\ request.kind = "drag") =>
              Target.moved \in asked \cup {None}
    BY <1>1, <1>2, TargetIs
  <1>5. BarOf(Target.moved) \in Bars /\ BarOf(Target.moved).card = Target.moved
    BY <1>4, BoardAssumption DEF BarOf, NoBar, Bars, Urls, BoardInv, Shapes
  <1>6. Shapes'
    <2>1. request.answer \in Loads
      BY <1>1 DEF Requests
    <2> QED
      BY <1>3, <1>4, <1>5, <2>1 DEF BoardInv, Shapes
  <1>7. UrlIsAMove'
    BY <1>3, <1>4, <1>5 DEF UrlIsAMove
  <1>8. RequestIsAMove'
    BY <1>3 DEF RequestIsAMove
  <1>9. WinIsTheUrls'
    <2>1. loaded'.win \in {None, url'.moved}
      BY <1>2, <1>3
    <2>2. claim' # None => claim'.answer = None
      BY <1>3 DEF BoardInv, WinIsTheUrls
    <2> QED
      BY <2>1, <2>2 DEF WinIsTheUrls
  <1> QED
    BY <1>6, <1>7, <1>8, <1>9 DEF BoardInv

\* A tick of the page's timers: what is celebrated is the loader's win.
LEMMA ClockKeepsBoard == ASSUME BoardInv, Clock PROVE BoardInv'
  <1>1. /\ bar' = [bar EXCEPT !.left = Ticked(@)]
        /\ fete' = IF Closing THEN Celebrate(loaded.win) ELSE [fete EXCEPT !.left = Ticked(@)]
        /\ UNCHANGED <<db, tab, request, claim, asked>>
    BY DEF Clock
  <1>2. bar' \in Bars /\ bar'.card = bar.card
    <2>1. Ticked(bar.left) \in 0..Window
      BY BoardAssumption DEF BoardInv, Shapes, Bars, Ticked
    <2> QED
      BY <1>1, <2>1 DEF BoardInv, Shapes, Bars
  <1>3. fete' \in Fetes
    <2>1. Ticked(fete.left) \in 0..Showing /\ Showing \in 0..Showing
      BY BoardAssumption DEF BoardInv, Shapes, Fetes, Ticked
    <2>2. loaded.win \in Card \cup {None}
      BY DEF BoardInv, Shapes, Loads
    <2> QED
      BY <1>1, <2>1, <2>2 DEF BoardInv, Shapes, Fetes, Celebrate
  <1>4. Shapes'
    BY <1>1, <1>2, <1>3 DEF BoardInv, Shapes, tab
  <1>5. UrlIsAMove' /\ WinIsTheUrls'
    BY <1>1, <1>2 DEF BoardInv, UrlIsAMove, WinIsTheUrls, tab
  <1>6. RequestIsAMove'
    BY <1>1 DEF BoardInv, RequestIsAMove, Target, tab
  <1> QED
    BY <1>4, <1>5, <1>6 DEF BoardInv

\* The claim and its revalidation, which reads for the URL there is.
LEMMA ClaimKeepsBoard ==
    ASSUME BoardInv, Claim \/ ServerClaims \/ ClaimReads \/ ClaimApplied
    PROVE  BoardInv'
  <1>1. UNCHANGED <<url, popped, tag, poll, visible, request, bar, asked>>
    BY DEF Claim, ServerClaims, ClaimReads, ClaimApplied, tab
  <1>2. UrlIsAMove' /\ RequestIsAMove'
    BY <1>1 DEF BoardInv, UrlIsAMove, RequestIsAMove, Target
  <1>3. CASE Claim
    <2>1. fete.card \in Card /\ UNCHANGED <<db, loaded, polled>>
      BY <1>3 DEF Claim, BoardInv, Shapes, Fetes, tab
    <2>2. fete' \in Fetes
      BY <1>3 DEF Claim, BoardInv, Shapes, Fetes
    <2>3. claim' \in Claims /\ claim'.answer = None
      BY <1>3, <2>1 DEF Claim, Claims
    <2> QED
      BY <1>1, <1>2, <2>1, <2>2, <2>3 DEF BoardInv, Shapes, WinIsTheUrls
  <1>4. CASE ServerClaims
    <2>1. /\ claim \in Claims /\ claim.phase = "sent" /\ UNCHANGED <<loaded, polled, fete>>
          /\ claim' = [claim EXCEPT !.phase = "done"]
      BY <1>4 DEF ServerClaims, BoardInv, Shapes, tab
    <2>2. claim' \in Claims /\ claim'.answer = claim.answer /\ claim.card \in Card
      BY <2>1 DEF Claims
    <2>3. db' \in [at : Snapshots, celebrated : SUBSET Card]
      <3>1. db' = db \/ db' = [db EXCEPT !.celebrated = @ \cup {claim.card}]
        BY <1>4 DEF ServerClaims
      <3> QED
        BY <2>2, <3>1 DEF BoardInv, Shapes
    <2>4. claim # None
      BY <1>4 DEF ServerClaims
    <2>5. claim.answer = None
      BY <2>1, <2>4 DEF BoardInv, WinIsTheUrls
    <2> QED
      BY <1>1, <1>2, <2>1, <2>2, <2>3, <2>5 DEF BoardInv, Shapes, WinIsTheUrls
  <1>5. CASE ClaimReads
    <2>1. /\ claim \in Claims /\ claim.phase = "done" /\ UNCHANGED <<db, loaded, polled, fete>>
          /\ claim' = [claim EXCEPT !.answer = Load(url.moved)]
      BY <1>5 DEF ClaimReads, BoardInv, Shapes, tab
    <2>2. Load(url.moved) \in Loads /\ Load(url.moved).win \in {None, url.moved}
      BY LoadIs DEF BoardInv, Shapes, Urls
    <2>3. claim' \in Claims /\ claim'.phase = "done" /\ claim'.answer = Load(url.moved)
      BY <2>1, <2>2 DEF Claims
    <2> QED
      BY <1>1, <1>2, <2>1, <2>2, <2>3 DEF BoardInv, Shapes, WinIsTheUrls
  <1>6. CASE ClaimApplied
    <2>1. /\ claim # None /\ claim.answer # None /\ claim \in Claims
          /\ claim' = None /\ loaded' = claim.answer /\ polled' = None
          /\ UNCHANGED <<db, fete>>
      BY <1>6 DEF ClaimApplied, BoardInv, Shapes
    <2>2. claim.answer \in Loads /\ claim.answer.win \in {None, url.moved}
      BY <2>1 DEF Claims, BoardInv, WinIsTheUrls
    <2> QED
      BY <1>1, <1>2, <2>1, <2>2 DEF BoardInv, Shapes, WinIsTheUrls
  <1> QED
    BY <1>3, <1>4, <1>5, <1>6

\* A fresh document has submitted nothing, and was reached by Pop.
LEMMA ReloadKeepsBoard == ASSUME BoardInv, Reload PROVE BoardInv'
  <1>1. /\ popped' = TRUE /\ loaded' = Load(url.moved) /\ polled' = None /\ tag' = None
        /\ poll' = None /\ request' = None /\ claim' = None /\ fete' = NoFete /\ asked' = {}
        /\ bar' = IF url.moved = None THEN NoBar ELSE [card |-> url.moved, left |-> Window]
        /\ UNCHANGED <<db, url, visible>>
    BY DEF Reload
  <1>2. url.moved \in Card \cup {None}
    BY DEF BoardInv, Shapes, Urls
  <1>3. Load(url.moved) \in Loads /\ Load(url.moved).win \in {None, url.moved}
    BY <1>2, LoadIs DEF BoardInv
  <1>4. bar' \in Bars /\ bar'.card = url.moved /\ fete' \in Fetes
    BY <1>1, <1>2, BoardAssumption DEF NoBar, NoFete, Bars, Fetes
  <1> QED
    BY <1>1, <1>3, <1>4 DEF BoardInv, Shapes, UrlIsAMove, RequestIsAMove, WinIsTheUrls

\* Every step of the tab keeps the invariant.
LEMMA BoardInvStep == BoardInv /\ [BoardNext]_vars => BoardInv'
  <1> SUFFICES ASSUME BoardInv, [BoardNext]_vars PROVE BoardInv'
    OBVIOUS
  <1>1. CASE UNCHANGED vars
    BY <1>1 DEF vars, tab, BoardInv, Shapes, UrlIsAMove, RequestIsAMove, WinIsTheUrls, Target
  <1> QED
    BY <1>1, PollKeepsBoard, MovesKeepBoard, ServerKeepsBoard, CommitKeepsBoard, ClockKeepsBoard,
       ClaimKeepsBoard, ReloadKeepsBoard DEF BoardNext

\* The invariant holds of every tab, however long it is open.
LEMMA BoardInvAlways == BoardSpec => []BoardInv
  BY BoardInvInit, BoardInvStep, PTL DEF BoardSpec

\* Every variable of the tab holds what the code can store in it.
THEOREM BoardTypeCorrect == BoardSpec => []BoardTypeOK
  <1>1. BoardInv => BoardTypeOK
    BY DEF BoardInv, Shapes, BoardTypeOK, Urls, Polls, Bars, Fetes, Snapshots
  <1> QED
    BY <1>1, BoardInvAlways, PTL

\* No page load celebrates: whatever is celebrated is a card this document has
\* submitted a move of, through reloads, refusals, claims that revalidate and
\* answers that come late (ui/board.tsx:272-277).
THEOREM ConfettiIsAlwaysEarned == BoardSpec => ConfettiIsEarned
  <1>1. ASSUME BoardInv, [BoardNext]_vars, fete'.card \notin {fete.card, None}
        PROVE  fete'.card \in asked
    <2>1. CASE Clock
      <3>1. fete'.card = loaded.win /\ loaded.win # None /\ ~popped
        <4>1. CASE Closing
          BY <2>1, <4>1 DEF Clock, Closing, Celebrate, BoardInv, Shapes, Fetes
        <4>2. CASE ~Closing
          BY <1>1, <2>1, <4>2 DEF Clock, BoardInv, Shapes, Fetes
        <4> QED
          BY <4>1, <4>2
      <3> QED
        BY <1>1, <3>1 DEF BoardInv, WinIsTheUrls, UrlIsAMove
    <2>2. CASE Reload
      BY <1>1, <2>2 DEF Reload, NoFete
    <2>3. CASE Claim
      BY <1>1, <2>3 DEF Claim, BoardInv, Shapes, Fetes
    <2>4. CASE fete' = fete
      BY <1>1, <2>4
    <2> QED
      BY <1>1, <2>1, <2>2, <2>3, <2>4
      DEF BoardNext, vars, MovedElsewhere, Tick, PollAnswered, PollApplied, PollFailed, Hide,
          Refocus, Drop, MoveHere, Undo, Dismiss, Submit, Visit, ServerMoves, ServerRefuses,
          LoaderReads, Commit, ServerClaims, ClaimReads, ClaimApplied
  <1>2. BoardInv /\ [BoardNext]_vars => [fete'.card \notin {fete.card, None} => fete'.card \in asked]_vars
    BY <1>1
  <1> QED
    BY <1>2, BoardInvAlways, PTL DEF BoardSpec, ConfettiIsEarned
=============================================================================
