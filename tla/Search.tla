------------------------------- MODULE Search -------------------------------
(***************************************************************************)
(* The search overlay and the quick-add sheet it opens, of one seller.  A    *)
(* query is typed, debounced, sent and answered while the next one is being  *)
(* typed; a lead can be saved twice, and the answer to a save can arrive     *)
(* when its sheet is gone.                                                   *)
(***************************************************************************)
EXTENDS Naturals, Sequences, SequencesExt

CONSTANTS
    Query,          \* what can be in the box; Blank is the empty string
    Blank,
    Searchable,     \* those of at least MIN_QUERY_LENGTH characters
    Phone,          \* those toE164 can read
    InBook,          \* the contacts of the seller's book each query matches
    Null,
    MaxSaves        \* bound: saves in one behaviour

ASSUME SearchAssumption ==
    /\ Blank \in Query \ Searchable /\ Searchable \subseteq Query
    /\ Phone \subseteq Searchable /\ DOMAIN InBook = Query
    /\ \A q \in Query : InBook[q] \in Seq(ToSet(InBook[q]))
    /\ Null \notin Query

VARIABLES
    open, query, answer, highlight, quickAdding,     \* the overlay's state
    openerRef,
    activeElement,  \* "page", "input", "name" or "body"
    fetching,       \* the search under way: its query and how far it is
    saving, result, \* the sheet's state
    posts,          \* saves under way
    book,           \* for each phone, how many contacts quick-add created
    place           \* the contact the seller was taken to last

overlayVars == <<open, query, answer, highlight, quickAdding, openerRef, activeElement, fetching>>
sheetVars   == <<saving, result>>
searchVars  == <<overlayVars, sheetVars, posts, book, place>>

----------------------------------------------------------------------------
\* The server.

\* readSearchFor: the seller's own contacts that match, phones first.
Matching(q) ==
    (IF q \in Phone /\ book[q] > 0 THEN <<q>> ELSE <<>>) \o InBook[q]

\* Wrong variant: no unique index on the phone.
QuickAddAlways(post) == IF ~post.named THEN "invalid" ELSE "created"

\* quickAddFor: the unique index decides, and a refusal becomes an answer.
QuickAddResult(post) ==
    IF ~post.named THEN "invalid"
    ELSE IF book[post.phone] > 0 THEN "duplicate"
    ELSE "created"

----------------------------------------------------------------------------
\* The answer only counts if it belongs to what is in the box.
Current == IF answer # Null /\ answer.forQuery = query THEN answer ELSE Null

Hits == IF Current = Null \/ Current.status = "error" THEN <<>> ELSE Current.hits

SearchInit ==
    /\ open = FALSE /\ query = Blank /\ answer = Null /\ highlight = 0 /\ quickAdding = Null
    /\ openerRef = Null /\ activeElement = "page"
    /\ fetching = Null
    /\ saving = FALSE /\ result = Null
    /\ posts = <<>>
    /\ book = [p \in Phone |-> 0]
    /\ place = Null

\* Ctrl/Cmd+K, from any surface, also from the overlay itself; the effect that
\* moves the focus runs when `open` changes.
Shortcut ==
    /\ openerRef' = activeElement
    /\ open' = TRUE
    /\ activeElement' = IF open THEN activeElement ELSE "input"
    /\ UNCHANGED <<query, answer, highlight, quickAdding, fetching, sheetVars, posts, book, place>>

\* close: what is focused must outlive the overlay to keep the focus.  The
\* effect's cleanup clears the timer and aborts the search.
Closed ==
    /\ open' = FALSE /\ query' = Blank /\ answer' = Null /\ quickAdding' = Null
    /\ fetching' = Null
    /\ activeElement' = IF openerRef \in {"page", "body"} THEN openerRef
                        ELSE IF activeElement = "page" THEN "page" ELSE "body"
    /\ saving' = FALSE /\ result' = Null
    /\ UNCHANGED <<highlight, openerRef>>

Escape ==
    /\ open /\ activeElement = "input"
    /\ Closed /\ UNCHANGED <<posts, book, place>>

Backdrop == open /\ Closed /\ UNCHANGED <<posts, book, place>>

Type(q) ==
    /\ open /\ quickAdding = Null /\ q # query
    /\ query' = q
    /\ activeElement' = "input"
    /\ fetching' = IF q \in Searchable THEN [query |-> q, phase |-> "timer"] ELSE Null
    /\ UNCHANGED <<open, answer, highlight, quickAdding, openerRef, sheetVars, posts, book, place>>

Debounced ==
    /\ fetching # Null /\ fetching.phase = "timer"
    /\ fetching' = [fetching EXCEPT !.phase = "sent"]
    /\ UNCHANGED <<open, query, answer, highlight, quickAdding, openerRef, activeElement>>
    /\ UNCHANGED <<sheetVars, posts, book, place>>

SearchAnswers(q) == {[status |-> "ready", forQuery |-> q, hits |-> Matching(q)],
               [status |-> "error", forQuery |-> q, hits |-> <<>>]}

SearchAnswered ==
    /\ fetching # Null /\ fetching.phase = "sent"
    /\ answer' \in SearchAnswers(fetching.query)
    /\ fetching' = Null
    /\ UNCHANGED <<open, query, highlight, quickAdding, openerRef, activeElement>>
    /\ UNCHANGED <<sheetVars, posts, book, place>>

\* ArrowDown and ArrowUp, the pointer over a row.
Highlight ==
    /\ open /\ Hits # <<>>
    /\ \/ /\ activeElement = "input"
          /\ highlight' \in {(highlight + 1) % Len(Hits),
                             (highlight + Len(Hits) - 1) % Len(Hits)}
       \/ quickAdding = Null /\ highlight' \in 0..(Len(Hits) - 1)
    /\ UNCHANGED <<open, query, answer, quickAdding, openerRef, activeElement, fetching>>
    /\ UNCHANGED <<sheetVars, posts, book, place>>

Taken(contact) == Closed /\ place' = contact /\ UNCHANGED <<posts, book>>

\* Enter opens the highlighted record, if there is one there; a click opens
\* the record clicked.
Enter ==
    /\ open /\ activeElement = "input" /\ highlight < Len(Hits)
    /\ Taken(Hits[highlight + 1])

ClickHit(i) == open /\ quickAdding = Null /\ Taken(Hits[i])

----------------------------------------------------------------------------
\* The sheet.

AddThisNumber ==
    /\ open /\ quickAdding = Null
    /\ Current # Null /\ Current.status = "ready" /\ Hits = <<>> /\ query \in Phone
    /\ quickAdding' = query
    /\ activeElement' = "name"
    /\ UNCHANGED <<open, query, answer, highlight, openerRef, fetching>>
    /\ UNCHANGED <<sheetVars, posts, book, place>>

Cancel ==
    /\ quickAdding # Null
    /\ quickAdding' = Null /\ activeElement' = "body"
    /\ saving' = FALSE /\ result' = Null
    /\ UNCHANGED <<open, query, answer, highlight, openerRef, fetching, posts, book, place>>

\* The button is disabled while saving; Enter in the field is not.
Save(named, byButton) ==
    /\ quickAdding # Null
    /\ byButton => ~saving
    /\ Len(posts) < MaxSaves
    /\ saving' = TRUE
    /\ posts' = Append(posts, [phone |-> quickAdding, named |-> named, answer |-> Null])
    /\ UNCHANGED <<overlayVars, result, book, place>>

ServerAdds(i) ==
    /\ posts[i].answer = Null
    /\ posts' = [posts EXCEPT ![i].answer = QuickAddResult(posts[i])]
    /\ book' = IF QuickAddResult(posts[i]) = "created"
               THEN [book EXCEPT ![posts[i].phone] = @ + 1] ELSE book
    /\ UNCHANGED <<overlayVars, sheetVars, place>>

\* The answer finds the sheet, or only the closure of one that is gone.
QuickAddAnswered(i) ==
    /\ posts[i].answer \notin {Null, "seen"}
    /\ posts' = [posts EXCEPT ![i].answer = "seen"]
    /\ IF posts[i].answer = "created"
       THEN Closed /\ place' = posts[i].phone
       ELSE /\ saving' = FALSE
            /\ result' = IF quickAdding = Null THEN result ELSE posts[i].answer
            /\ UNCHANGED <<overlayVars, place>>
    /\ UNCHANGED book

AddFailed(i) ==
    /\ posts[i].answer # "seen"
    /\ posts' = [posts EXCEPT ![i].answer = "seen"]
    /\ saving' = FALSE
    /\ UNCHANGED <<overlayVars, result, book, place>>

OpenExisting == quickAdding # Null /\ result = "duplicate" /\ Taken(quickAdding)

SearchNext ==
    \/ Shortcut \/ Escape \/ Backdrop \/ Debounced \/ SearchAnswered \/ Highlight \/ Enter
    \/ AddThisNumber \/ Cancel \/ OpenExisting
    \/ \E q \in Query : Type(q)
    \/ \E i \in DOMAIN Hits : ClickHit(i)
    \/ \E named, byButton \in BOOLEAN : Save(named, byButton)
    \/ \E i \in DOMAIN posts : ServerAdds(i) \/ QuickAddAnswered(i) \/ AddFailed(i)

SearchSpec == SearchInit /\ [][SearchNext]_searchVars

----------------------------------------------------------------------------
SearchTypeOK ==
    /\ open \in BOOLEAN /\ saving \in BOOLEAN
    /\ query \in Query /\ highlight \in Nat
    /\ quickAdding \in Phone \cup {Null}
    /\ activeElement \in {"page", "input", "name", "body"}
    /\ book \in [Phone -> Nat]

\* Every row on the screen is a record that matches what is in the box,
\* whatever was typed while it was being fetched (search-overlay.tsx:35-45).
RowsMatchTheBox ==
    open => ToSet(Hits) \subseteq ToSet(InBook[query]) \cup ({query} \cap Phone)

\* Saving twice creates one contact: the second save loses at the index and
\* says so, also when Enter is pressed while the first is on its way and when
\* the sheet is closed and opened again (quick-add.ts:19-30).
OneLeadPerPhone == \A p \in Phone : book[p] <= 1

\* Escape gives the focus back to whatever opened the overlay
\* (search-overlay.tsx:20-27).
EscapeRestoresFocus ==
    [][Escape => activeElement' = "page"]_searchVars

\* "Enter opens the highlighted record" (search-overlay.tsx:19): with rows on
\* the screen one of them is highlighted.
ARowIsHighlighted == open /\ Hits # <<>> => highlight < Len(Hits)
=============================================================================
