------------------------------ MODULE Columns ------------------------------
(***************************************************************************)
(* A column of the board as it is drawn: which of its cards are mounted.     *)
(* Above VIRTUALIZE_ABOVE cards a column mounts a window computed from a     *)
(* measured height and from the scroll offset it last rendered; below, it    *)
(* mounts everything and listens to nothing.  Dragging is in Board.          *)
(*                                                                         *)
(* What the browser lays out with is one thing, what the column measured of  *)
(* it another: a resize swaps --card-pitch at a breakpoint, and the column   *)
(* asks anew only while it listens.                                          *)
(***************************************************************************)
EXTENDS Naturals, FiniteSets, Sequences, SequencesExt

CONSTANTS
    Card,
    Nothing,        \* no card, no index, not measured
    Layouts,        \* what it can be laid out with: a --card-pitch, desktop's or
                    \* mobile's, and the height of its viewport
    CardGap,            \* --card-gap, the part of a pitch its card does not take
    Start,          \* the cards of the column as the page is served
    Above,          \* VIRTUALIZE_ABOVE
    SsrWindow,      \* SSR_WINDOW
    Overscan,       \* OVERSCAN_ROWS
    MaxChanges      \* bound: cards that arrive or leave

ASSUME ColumnsAssumption ==
    /\ Nothing \notin Card \cup Layouts /\ Start \in Seq(Card) /\ IsInjective(Start)
    /\ \A layout \in Layouts :
          layout.pitch \in Nat /\ layout.viewportH \in Nat \ {0} /\ CardGap < layout.pitch
    /\ CardGap \in Nat /\ Overscan \in Nat \ {0}
    /\ Above \in Nat /\ SsrWindow \in Nat /\ MaxChanges \in Nat

VARIABLES
    cards,          \* the column's cards, top first
    laid,           \* the pitch and the height the browser lays the column out with
    scroll,         \* the offset of the scroll container
    unheard,        \* it changed and no handler has seen it
    repitched,      \* history: the measured pitch has changed under an offset that is
                    \* not the one last set, and no scroll was handled since
    queued,         \* a scroll event is queued
    scrollTop,      \* the state last set by handleScroll
    listening,      \* the effect of a virtualized column has run: it hears resizes
    metrics,        \* the pitch and the height it last measured
    focusedIndex,   \* the state set by handleFocus and handleBlur
    focused,        \* the card whose link the keyboard is on
    changes         \* how often the list has changed

focus       == <<focusedIndex, focused>>
heard       == <<unheard, repitched, queued>>
columnsVars == <<cards, laid, scroll, heard, scrollTop, listening, metrics, focus, changes>>

----------------------------------------------------------------------------
\* virtual-window.ts: runs of card indices, counted from 0.

Ceil(a, b)  == (a + b - 1) \div b
Least(a, b) == IF a < b THEN a ELSE b
Most(a, b)  == IF a > b THEN a ELSE b
Minus(a, b) == Most(a, b) - b

\* Wrong variant: no rows beside those in view.
windowWithoutOverscan(count, top, viewportH, pitch) ==
    IF count = 0 \/ pitch = 0 THEN [first |-> 0, end |-> count]
    ELSE LET at == Least(top, Minus(count * pitch, viewportH))
         IN  [first |-> at \div pitch, end |-> Least(count, Ceil(at + viewportH, pitch))]

\* The cards of a window, clamped to the end of the column; an unresolved
\* pitch mounts them all.
windowFor(count, top, viewportH, pitch) ==
    IF count = 0 \/ pitch = 0 THEN [first |-> 0, end |-> count]
    ELSE LET at == Least(top, Minus(count * pitch, viewportH))
         IN  [first |-> Minus(at \div pitch, Overscan),
              end   |-> Least(count, Ceil(at + viewportH, pitch) + Overscan)]

\* The window widened to keep a focused index mounted.
withFocusHeld(window, index) ==
    IF index = Nothing THEN window
    ELSE IF window.first = window.end THEN [first |-> index, end |-> index + 1]
    ELSE [first |-> Least(window.first, index), end |-> Most(window.end, index + 1)]

----------------------------------------------------------------------------
\* ColumnCards.

Virtualized(list) == Len(list) > Above

Slice ==
    IF ~Virtualized(cards) THEN [first |-> 0, end |-> Len(cards)]
    ELSE IF metrics = Nothing THEN [first |-> 0, end |-> Least(Len(cards), SsrWindow)]
    ELSE withFocusHeld(windowFor(Len(cards), scrollTop, metrics.viewportH, metrics.pitch),
                       focusedIndex)

Rendered == {cards[i + 1] : i \in Slice.first..(Least(Slice.end, Len(cards)) - 1)}

\* The place of a card that is in the list.
RowOf(list, c) == CHOOSE i \in DOMAIN list : list[i] = c

Height(list, pitch) == IF list = <<>> THEN 0 ELSE pitch * Len(list) - CardGap

\* How far the browser lets the container scroll.
Furthest(list, layout) == Minus(Height(list, layout.pitch), layout.viewportH)

ColumnsInit ==
    /\ cards = Start
    /\ laid \in Layouts
    /\ scroll = 0 /\ scrollTop = 0
    /\ unheard = FALSE /\ repitched = FALSE /\ queued = FALSE
    /\ listening = FALSE /\ metrics = Nothing
    /\ focusedIndex = Nothing /\ focused = Nothing
    /\ changes = 0

\* measure: pitch.current and the metrics are what the stylesheet says now.
MetricsAre(layout) ==
    /\ metrics' = layout
    /\ repitched' = \/ repitched
                    \/ /\ metrics # Nothing /\ metrics.pitch # layout.pitch
                       /\ scrollTop # scroll

\* The effect of a column that became virtualized.
Measure ==
    /\ Virtualized(cards) /\ ~listening
    /\ listening' = TRUE
    /\ MetricsAre(laid)
    /\ UNCHANGED <<cards, laid, scroll, unheard, queued, scrollTop, focus, changes>>

\* The offset is y from now on; its event reaches the handler later, if there is one.
OffsetIs(y) ==
    /\ scroll' = y
    /\ queued' = (queued \/ y # scroll)
    /\ unheard' = (unheard \/ y # scroll)

\* The window is resized: the stylesheet's pitch and the column's height may change,
\* and the browser clamps the offset to the new height of the list.
Resize(layout) ==
    /\ layout # laid /\ laid' = layout
    /\ OffsetIs(Least(scroll, Furthest(cards, layout)))
    /\ IF listening THEN MetricsAre(layout) ELSE UNCHANGED <<metrics, repitched>>
    /\ UNCHANGED <<cards, scrollTop, listening, focus, changes>>

\* The browser scrolls.
Scroll(y) ==
    /\ y # scroll /\ y \in 0..Furthest(cards, laid)
    /\ OffsetIs(y)
    /\ UNCHANGED <<cards, laid, repitched, scrollTop, listening, metrics, focus, changes>>

\* handleScroll: inside one row nothing that is drawn can change.
SameRow(a, b) == metrics # Nothing /\ a \div metrics.pitch = b \div metrics.pitch

HandleScroll ==
    /\ queued /\ queued' = FALSE
    /\ IF Virtualized(cards)
       THEN /\ scrollTop' = IF SameRow(scrollTop, scroll) THEN scrollTop ELSE scroll
            /\ unheard' = FALSE /\ repitched' = FALSE
       ELSE UNCHANGED <<scrollTop, unheard, repitched>>
    /\ UNCHANGED <<cards, laid, scroll, listening, metrics, focus, changes>>

\* The payload changes the list; the browser clamps the offset to what is left
\* and takes the focus away with a card that goes.  A column that is short again stops
\* listening, and keeps what it measured.
Redrawn(list) ==
    /\ changes < MaxChanges /\ changes' = changes + 1
    /\ cards' = list
    /\ OffsetIs(Least(scroll, Furthest(list, laid)))
    /\ listening' = (listening /\ Virtualized(list))
    /\ focused' = IF focused \in ToSet(list) THEN focused ELSE Nothing
    /\ UNCHANGED <<laid, repitched, scrollTop, metrics, focusedIndex>>

\* The newest entry of a stage is on top.
Arrives(c) ==
    /\ c \notin ToSet(cards)
    /\ Redrawn(<<c>> \o cards)

Leaves(c) ==
    /\ c \in ToSet(cards)
    /\ Redrawn(RemoveAt(cards, RowOf(cards, c)))

\* Tabbing to a card scrolls it into view by another event.
Focus(c) ==
    /\ c \in Rendered /\ c # focused
    /\ focused' = c
    /\ focusedIndex' = IF Virtualized(cards) THEN RowOf(cards, c) - 1
                       ELSE focusedIndex
    /\ UNCHANGED <<cards, laid, scroll, heard, scrollTop, listening, metrics, changes>>

Blur ==
    /\ focused # Nothing
    /\ focused' = Nothing
    /\ focusedIndex' = IF Virtualized(cards) THEN Nothing ELSE focusedIndex
    /\ UNCHANGED <<cards, laid, scroll, heard, scrollTop, listening, metrics, changes>>

----------------------------------------------------------------------------
ColumnsNext ==
    \/ Measure \/ HandleScroll \/ Blur
    \/ \E layout \in Layouts : Resize(layout)
    \/ \E y \in 0..Furthest(cards, laid) : Scroll(y)
    \/ \E c \in Card : Arrives(c) \/ Leaves(c) \/ Focus(c)

ColumnsSpec == ColumnsInit /\ [][ColumnsNext]_columnsVars

----------------------------------------------------------------------------
ColumnsTypeOK ==
    /\ cards \in Seq(Card) /\ IsInjective(cards)
    /\ laid \in Layouts /\ metrics \in Layouts \cup {Nothing}
    /\ scroll \in Nat /\ scrollTop \in Nat
    /\ unheard \in BOOLEAN /\ repitched \in BOOLEAN /\ queued \in BOOLEAN
    /\ listening \in BOOLEAN
    /\ focusedIndex \in Nat \cup {Nothing} /\ focused \in Card \cup {Nothing}
    /\ changes \in 0..MaxChanges

\* The cards the seller should see: those any part of which is in the viewport.
InView ==
    {cards[i] : i \in {j \in DOMAIN cards :
        /\ (j - 1) * laid.pitch < scroll + laid.viewportH
        /\ j * laid.pitch - CardGap > scroll}}

\* A column that listens shows every card in view, once the scroll it listened for is
\* handled: although a scroll inside a row is not followed, although the list grows and
\* shrinks under the offset and below the threshold and back, and although the window is
\* resized in between, as long as no new pitch came while the offset was inside a row
\* (virtual-window.ts:96-133, pipeline-columns.tsx:265-303).
ViewportCovered == (listening /\ ~unheard /\ ~repitched) => InView \subseteq Rendered

\* The same without excusing what was scrolled while the column was too short
\* to listen: "a board that is missing cards is a seller losing a lead"
\* (virtual-window.ts:97-99).
NoGapEver == (listening /\ ~queued /\ ~repitched) => InView \subseteq Rendered

\* The same without excusing a resize: "a bad measurement can only pick the wrong cards
\* to mount, which the overscan absorbs" (virtual-window.ts:19-21).
NoGapAfterResize == (listening /\ ~unheard) => InView \subseteq Rendered

\* "Focus is never dropped to <body>" (virtual-window.ts:139), whatever arrives or leaves
\* while a card has it.
FocusNeverDropped == focused # Nothing => focused \in Rendered
=============================================================================
