------------------------------- MODULE Record -------------------------------
(***************************************************************************)
(* A contact's page in one tab: the record named by the URL, the history      *)
(* below it that is read a page at a time, the note composer above and the    *)
(* button that starts a deal.  Each of them talks to the server on its own,   *)
(* and what an answer finds may be another contact, another instance of the   *)
(* history or a page that has given way to an error.                          *)
(*                                                                         *)
(* A line of the history is a contact and a time; projections arrive late     *)
(* and anywhere in it.  Only the seller of this tab writes notes and deals.   *)
(***************************************************************************)
EXTENDS Naturals, Sequences, FiniteSets, SequencesExt

CONSTANTS
    Contact,
    Past,           \* the lines projected before the page is opened
    Late,           \* those that will be, while it is
    Page,           \* PAGE
    Nil,            \* no contact, no cursor, no request
    MaxPosts,       \* bound: notes and deals submitted
    MaxFaults       \* bound: requests that fail

ASSUME RecordAssumption ==
    /\ Contact # {} /\ Nil \notin Contact /\ Page \in Nat \ {0}
    /\ Past \subseteq Contact \X Nat /\ IsFiniteSet(Past)
    /\ Late \subseteq Contact \X Nat /\ IsFiniteSet(Late)
    /\ MaxPosts \in Nat /\ MaxFaults \in Nat

VARIABLES
    here,           \* the contact in the URL
    record,         \* the page's state: what it shows of whom
    reading,        \* the read of the record under way
    noteKey,        \* how often a note has remounted the history
    timeline,       \* the mounted history; Nil when the record is not shown
    composer,       \* the note composer: its state, and whom its text is about
    starting,       \* the deal button's state
    submitted,      \* notes and deals on their way
    graces,         \* timers that will remount the history
    history, deals, \* the server's
    faults

pageVars   == <<here, record, reading, noteKey, timeline, composer, starting>>
recordVars == <<pageVars, submitted, graces, history, deals, faults>>

Lines     == Contact \X Nat
Cursors   == Nat \cup {Nil}
Pages     == [entries : Seq(Lines), nextCursor : Cursors]
Fetches   == [cursor : Cursors, page : Pages \cup {Nil}]
Timelines == [key : Seq(Contact \cup Nat), contact : Contact,
              status : {"loading", "ready", "error"}, more : {"idle", "loading", "error"},
              entries : Seq(Lines), nextCursor : Cursors, since : SUBSET Lines,
              fetch : Fetches \cup {Nil}]
Found     == [status : {"ready"}, contact : Contact, deals : Nat]
Missing   == [status : {"not_found", "error"}]
Readings  == [contact : Contact, answer : Found \cup Missing \cup {Nil}]
Submitted == [kind : {"note", "deal"}, contact : Contact, about : Contact \cup {Nil},
              answer : {Nil, "created", "not_found", "seen"}, heard : BOOLEAN]

\* null is no cursor, page, history, reading or answer.
ASSUME NilIsNull ==
    Nil \notin Nat \cup Pages \cup Fetches \cup Timelines \cup Found \cup Missing
              \cup Readings \cup {"created", "not_found", "seen"}

Fail == faults < MaxFaults /\ faults' = faults + 1

----------------------------------------------------------------------------
\* The server.

\* readContactFor: Nil for a contact outside the seller's book.
ReadContact(c) == [status |-> "ready", contact |-> c, deals |-> deals[c]]

\* In the order of the history.
Newest(lines) ==
    CHOOSE rows \in [1..Cardinality(lines) -> lines] :
        \A i, j \in DOMAIN rows : i < j => rows[i][2] > rows[j][2]

\* readTimelineFor: one line more than a page tells whether there is more; the
\* cursor is the last line shown.
ReadTimeline(c, cursor) ==
    LET Older == {e \in history : e[1] = c /\ (cursor # Nil => e[2] < cursor)}
        rows  == Newest(Older)
        more  == Len(rows) > Page
        page  == IF more THEN SubSeq(rows, 1, Page) ELSE rows
    IN  [entries |-> page, nextCursor |-> IF more THEN page[Page][2] ELSE Nil]

----------------------------------------------------------------------------
\* The history: a second contact, and every note, is a second instance.

\* Wrong variant: the history is keyed by the note alone.
TimelineKeyOfNote(c, k) == <<k>>

TimelineKey(c, k) == <<c, k>>

\* Mounted, it asks for the first page.
Mounted(c, k) ==
    [key |-> TimelineKey(c, k), contact |-> c, status |-> "loading", more |-> "idle",
     entries |-> <<>>, nextCursor |-> Nil, since |-> {},
     fetch |-> [cursor |-> Nil, page |-> Nil]]

\* What is mounted when the page shows r: an instance whose key did not change
\* stays and reads its contact anew.
TimelineOf(r, k) ==
    IF r.status # "ready" THEN Nil
    ELSE IF timeline = Nil \/ timeline.key # TimelineKey(r.contact, k)
    THEN Mounted(r.contact, k)
    ELSE IF timeline.contact = r.contact THEN timeline
    ELSE [timeline EXCEPT !.contact = r.contact, !.fetch = [cursor |-> Nil, page |-> Nil]]

NoComposer == [body |-> Nil, state |-> "idle"]

\* The page draws r.  Another state than the record's takes its components off
\* the page: no answer and no timer finds them again.
Draws(r) ==
    /\ record' = r
    /\ timeline' = TimelineOf(r, IF record.status = "ready" THEN noteKey ELSE 0)
    /\ noteKey' = IF record.status = "ready" THEN noteKey ELSE 0
    /\ IF r.status = "ready" THEN UNCHANGED <<composer, starting, graces, submitted>>
       ELSE /\ composer' = NoComposer /\ starting' = "idle" /\ graces' = 0
            /\ submitted' = [i \in DOMAIN submitted |-> [submitted[i] EXCEPT !.heard = FALSE]]

RecordInit ==
    /\ here = CHOOSE c \in Contact : TRUE
    /\ record = [status |-> "loading"]
    /\ reading = [contact |-> here, answer |-> Nil]
    /\ noteKey = 0 /\ timeline = Nil
    /\ composer = NoComposer /\ starting = "idle"
    /\ submitted = <<>> /\ graces = 0
    /\ history = Past /\ deals = [c \in Contact |-> 0]
    /\ faults = 0

----------------------------------------------------------------------------
\* The record.

\* Another contact's link: the read under way is aborted, what is on the
\* screen stays until the next one is answered.
Navigate(c) ==
    /\ c # here
    /\ here' = c
    /\ reading' = [contact |-> c, answer |-> Nil]
    /\ UNCHANGED <<record, noteKey, timeline, composer, starting>>
    /\ UNCHANGED <<submitted, graces, history, deals, faults>>

RecordRead ==
    /\ reading # Nil /\ reading.answer = Nil
    /\ \/ reading' = [reading EXCEPT !.answer = ReadContact(reading.contact)] /\ UNCHANGED faults
       \/ /\ Fail
          /\ \E s \in {"not_found", "error"} : reading' = [reading EXCEPT !.answer = [status |-> s]]
    /\ UNCHANGED <<here, record, noteKey, timeline, composer, starting>>
    /\ UNCHANGED <<submitted, graces, history, deals>>

RecordApplied ==
    /\ reading # Nil /\ reading.answer # Nil
    /\ reading' = Nil
    /\ Draws(reading.answer)
    /\ UNCHANGED <<here, history, deals, faults>>

----------------------------------------------------------------------------
\* The history.

\* The relay projects what happened, late and in any order.
Projected(e) ==
    /\ e \notin history
    /\ history' = history \cup {e}
    /\ UNCHANGED <<pageVars, submitted, graces, deals, faults>>

PageRead ==
    /\ timeline # Nil /\ timeline.fetch # Nil /\ timeline.fetch.page = Nil
    /\ timeline' = [timeline EXCEPT
            !.fetch.page = ReadTimeline(timeline.contact, timeline.fetch.cursor),
            !.since = IF timeline.fetch.cursor = Nil THEN history ELSE @]
    /\ UNCHANGED <<here, record, reading, noteKey, composer, starting>>
    /\ UNCHANGED <<submitted, graces, history, deals, faults>>

\* The first page replaces the list, an older one is put behind it.
PageApplied ==
    /\ timeline # Nil /\ timeline.fetch # Nil /\ timeline.fetch.page # Nil
    /\ LET page == timeline.fetch.page
       IN  timeline' =
            [timeline EXCEPT
                !.status = "ready", !.more = "idle", !.fetch = Nil,
                !.entries = IF timeline.fetch.cursor = Nil THEN page.entries
                            ELSE @ \o page.entries,
                !.nextCursor = page.nextCursor]
    /\ UNCHANGED <<here, record, reading, noteKey, composer, starting>>
    /\ UNCHANGED <<submitted, graces, history, deals, faults>>

\* Losing an older page leaves the history above it as it was.
PageFailed ==
    /\ timeline # Nil /\ timeline.fetch # Nil
    /\ Fail
    /\ timeline' = IF timeline.fetch.cursor = Nil
                   THEN [timeline EXCEPT !.status = "error", !.fetch = Nil]
                   ELSE [timeline EXCEPT !.more = "error", !.fetch = Nil]
    /\ UNCHANGED <<here, record, reading, noteKey, composer, starting>>
    /\ UNCHANGED <<submitted, graces, history, deals>>

loadMore ==
    /\ timeline # Nil
    /\ timeline.status = "ready" /\ timeline.nextCursor # Nil /\ timeline.more # "loading"
    /\ timeline' = [timeline EXCEPT !.more = "loading",
                        !.fetch = [cursor |-> timeline.nextCursor, page |-> Nil]]
    /\ UNCHANGED <<here, record, reading, noteKey, composer, starting>>
    /\ UNCHANGED <<submitted, graces, history, deals, faults>>

retry ==
    /\ timeline # Nil /\ timeline.status = "error"
    /\ timeline' = [timeline EXCEPT !.status = "loading", !.more = "idle",
                        !.fetch = [cursor |-> Nil, page |-> Nil]]
    /\ UNCHANGED <<here, record, reading, noteKey, composer, starting>>
    /\ UNCHANGED <<submitted, graces, history, deals, faults>>

----------------------------------------------------------------------------
\* Notes and deals.  An answer is applied by the closure that asked, to
\* components that may be gone (heard is then FALSE).

Submit(kind) ==
    /\ Len(submitted) < MaxPosts
    /\ submitted' = Append(submitted,
            [kind |-> kind, contact |-> record.contact, about |-> IF kind = "note" THEN composer.body ELSE Nil,
             answer |-> Nil, heard |-> TRUE])

\* The box is not the contact's: it keeps its text when the page changes.
TypeNote ==
    /\ record.status = "ready" /\ composer.body = Nil
    /\ composer' = [composer EXCEPT !.body = record.contact]
    /\ UNCHANGED <<here, record, reading, noteKey, timeline, starting>>
    /\ UNCHANGED <<submitted, graces, history, deals, faults>>

save ==
    /\ record.status = "ready" /\ composer.body # Nil /\ composer.state # "saving"
    /\ composer' = [composer EXCEPT !.state = "saving"]
    /\ Submit("note")
    /\ UNCHANGED <<here, record, reading, noteKey, timeline, starting>>
    /\ UNCHANGED <<graces, history, deals, faults>>

start ==
    /\ record.status = "ready" /\ starting # "saving"
    /\ starting' = "saving"
    /\ Submit("deal")
    /\ UNCHANGED <<here, record, reading, noteKey, timeline, composer>>
    /\ UNCHANGED <<graces, history, deals, faults>>

\* logNoteFor and startDealFor: both write, or the contact is in nobody's book.
Wrote(i) ==
    /\ submitted[i].answer = Nil
    /\ \/ submitted' = [submitted EXCEPT ![i].answer = "created"] /\ UNCHANGED faults
          /\ deals' = IF submitted[i].kind = "deal"
                      THEN [deals EXCEPT ![submitted[i].contact] = @ + 1] ELSE deals
       \/ /\ Fail /\ UNCHANGED deals
          /\ submitted' = [submitted EXCEPT ![i].answer = "not_found"]
    /\ UNCHANGED <<pageVars, graces, history>>

NoteAnswered(i) ==
    /\ submitted[i].kind = "note" /\ submitted[i].answer \notin {Nil, "seen"}
    /\ submitted' = [submitted EXCEPT ![i].answer = "seen"]
    /\ IF ~submitted[i].heard THEN UNCHANGED <<composer, graces>>
       ELSE IF submitted[i].answer = "created"
       THEN composer' = [body |-> Nil, state |-> "saved"] /\ graces' = graces + 1
       ELSE composer' = [composer EXCEPT !.state = submitted[i].answer] /\ UNCHANGED graces
    /\ UNCHANGED <<here, record, reading, noteKey, timeline, starting, history, deals, faults>>

\* PROJECTION_GRACE_MS later the history is read again by a new instance.
onLogged ==
    /\ graces > 0 /\ graces' = graces - 1
    /\ noteKey' = noteKey + 1
    /\ timeline' = TimelineOf(record, noteKey + 1)
    /\ UNCHANGED <<here, record, reading, composer, starting, submitted, history, deals, faults>>

\* A deal created is read back through the record, whoever is on it now.
DealAnswered(i) ==
    /\ submitted[i].kind = "deal" /\ submitted[i].answer \notin {Nil, "seen"}
    /\ submitted' = [submitted EXCEPT ![i].answer = "seen"]
    /\ starting' = IF ~submitted[i].heard THEN starting
                   ELSE IF submitted[i].answer = "created" THEN "idle" ELSE "not_found"
    /\ reading' = IF submitted[i].answer = "created"
                  THEN [contact |-> here, answer |-> Nil] ELSE reading
    /\ UNCHANGED <<here, record, noteKey, timeline, composer, graces, history, deals, faults>>

\* The answer is lost, before or after the server wrote.
PostFailed(i) ==
    /\ submitted[i].answer # "seen"
    /\ Fail
    /\ submitted' = [submitted EXCEPT ![i].answer = "seen"]
    /\ composer' = IF submitted[i].kind = "note" /\ submitted[i].heard
                   THEN [composer EXCEPT !.state = "error"] ELSE composer
    /\ starting' = IF submitted[i].kind = "deal" /\ submitted[i].heard THEN "error" ELSE starting
    /\ UNCHANGED <<here, record, reading, noteKey, timeline, graces, history, deals>>

----------------------------------------------------------------------------
RecordNext ==
    \/ \E c \in Contact : Navigate(c)
    \/ RecordRead \/ RecordApplied
    \/ \E e \in Late : Projected(e)
    \/ PageRead \/ PageApplied \/ PageFailed \/ loadMore \/ retry
    \/ TypeNote \/ save \/ start \/ onLogged
    \/ \E i \in DOMAIN submitted : Wrote(i) \/ NoteAnswered(i) \/ DealAnswered(i) \/ PostFailed(i)

RecordSpec == RecordInit /\ [][RecordNext]_recordVars

----------------------------------------------------------------------------
RecordTypeOK ==
    /\ here \in Contact
    /\ record \in {[status |-> "loading"]} \cup Found \cup Missing
    /\ reading \in Readings \cup {Nil} /\ (reading # Nil => reading.contact = here)
    /\ timeline \in Timelines \cup {Nil}
    /\ (timeline # Nil) <=> (record.status = "ready")
    /\ noteKey \in 0..MaxPosts /\ graces \in 0..MaxPosts
    /\ composer \in [body : Contact \cup {Nil},
                     state : {"idle", "saving", "saved", "error", "not_found"}]
    /\ starting \in {"idle", "saving", "error", "not_found"}
    /\ submitted \in Seq(Submitted) /\ Len(submitted) <= MaxPosts
    /\ history \subseteq Past \cup Late /\ deals \in [Contact -> Nat]
    /\ faults \in 0..MaxFaults

\* Every line under a name is that person's, newest first and once, and nothing
\* that was there when the first page was read is skipped between two lines or
\* before the end, whatever is projected, saved, retried or opened while older
\* pages are on their way (ui/contact.tsx:151-155, api/timeline.ts:189-195).
HistoryIsOfTheRecord ==
    (timeline # Nil /\ timeline.status = "ready") =>
        LET shown == timeline.entries
            reach == {e \in timeline.since : e[1] = record.contact
                        /\ (timeline.nextCursor # Nil => e[2] >= timeline.nextCursor)}
        IN  /\ \A i \in DOMAIN shown : shown[i][1] = record.contact
            /\ \A i, j \in DOMAIN shown : i < j => shown[i][2] > shown[j][2]
            /\ reach \subseteq ToSet(shown)

\* At rest the page is of the contact in the URL and lists every deal started
\* on it, also one whose button was on another contact's page when it was
\* answered; only an answer that was lost is missing (ui/contact.tsx:42-45).
PageIsTheUrls ==
    (record.status = "ready" /\ reading = Nil /\ faults = 0
        /\ \A i \in DOMAIN submitted : submitted[i].answer = "seen") =>
            record.contact = here /\ record.deals = deals[here]

\* A note is saved on the contact it was typed about.
NoteKeepsItsContact ==
    \A i \in DOMAIN submitted :
        submitted[i].kind = "note" => submitted[i].about = submitted[i].contact
=============================================================================
