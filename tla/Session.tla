------------------------------ MODULE Session ------------------------------
(***************************************************************************)
(* Who a request speaks for.  One browser, whose tabs share a cookie: each   *)
(* request finds its session, the seat of that login, and opens a unit of    *)
(* work, in three transactions; in the third every statement asks again who  *)
(* the user is and what the role lets them see.  Seats change, sessions end  *)
(* and another login may take over the browser between any two of these.     *)
(***************************************************************************)
EXTENDS Naturals, Sequences, FiniteSets

CONSTANTS
    Login,          \* the logins with a seat in one tenant
    NoLogin,
    Tab,
    Connection,     \* the pool
    MaxSignIns,     \* bound: sessions ever created
    MaxRequests,    \* bound: requests ever made
    MaxSeatChanges  \* bound: roles given, seats closed and reopened

ASSUME SessionAssumption ==
    /\ NoLogin \notin Login /\ NoLogin \notin Connection
    /\ MaxSignIns \in Nat /\ MaxRequests \in Nat /\ MaxSeatChanges \in Nat

Role     == {"seller", "supervisor", "admin"}
NoContext == [user |-> NoLogin, scope |-> "none"]

VARIABLES
    seat,           \* app_user: each login's role, and whether it is active
    session,        \* auth.session, in the order they were created
    cookie,         \* the browser's: a session, or 0
    context,        \* for each connection, app.user_id and app.scope_mode
    requests,
    screen,         \* for each tab, the name in the shell and whose cards the board shows
    seatChanges

authVars    == <<seat, session, cookie, seatChanges>>
sessionVars == <<authVars, context, requests, screen>>

----------------------------------------------------------------------------
SessionInit ==
    /\ seat \in [Login -> [role : {"seller", "supervisor"}, active : {TRUE}]]
    /\ session = <<>> /\ cookie = 0
    /\ context = [c \in Connection |-> NoContext]
    /\ requests = <<>> /\ seatChanges = 0
    /\ screen = [t \in Tab |-> [name |-> NoLogin, cards |-> {}]]

\* The sign-in action, in any tab of the browser: the new cookie replaces the
\* old one for all of them.  A wrong password leaves everything as it was.
SignIn(u) ==
    /\ Len(session) < MaxSignIns
    /\ session' = Append(session, [login |-> u, live |-> TRUE]) /\ cookie' = Len(session')
    /\ UNCHANGED <<seat, seatChanges, context, requests, screen>>

\* The sign-out route: the browser's session, if it still has one, is gone and
\* the tab is sent to sign in.
SignOut(t) ==
    /\ screen[t].name # NoLogin
    /\ session' = [s \in DOMAIN session |->
                     IF s = cookie THEN [session[s] EXCEPT !.live = FALSE] ELSE session[s]]
    /\ cookie' = 0
    /\ screen' = [screen EXCEPT ![t] = [name |-> NoLogin, cards |-> {}]]
    /\ UNCHANGED <<seat, seatChanges, context, requests>>

Expires(s) ==
    /\ session[s].live /\ session' = [session EXCEPT ![s].live = FALSE]
    /\ UNCHANGED <<seat, cookie, seatChanges, context, requests, screen>>

\* An administrator gives a role, closes a seat or opens it again.  `barred`
\* notes that the request's login has had no seat since it was made.
SeatChanged(u, to) ==
    /\ seatChanges < MaxSeatChanges /\ seatChanges' = seatChanges + 1
    /\ (to.role = seat[u].role) # (to.active = seat[u].active)
    /\ seat' = [seat EXCEPT ![u] = to]
    /\ requests' = [r \in DOMAIN requests |->
          IF to.active /\ requests[r].session # 0 /\ session[requests[r].session].login = u
          THEN [requests[r] EXCEPT !.barred = FALSE] ELSE requests[r]]
    /\ UNCHANGED <<session, cookie, context, screen>>

----------------------------------------------------------------------------
LoginOf(r) == IF requests[r].session = 0 THEN NoLogin ELSE session[requests[r].session].login

\* A page is the shell's loader and the board's, a poll the board's alone.
Asks(t, kind) ==
    /\ Len(requests) < MaxRequests
    /\ requests' = Append(requests,
          [tab |-> t, kind |-> kind, session |-> cookie, at |-> "session", user |-> NoLogin,
           connection |-> NoLogin, rows |-> {}, overseen |-> {},
           barred |-> cookie # 0 /\ ~seat[session[cookie].login].active])
    /\ UNCHANGED <<authVars, context, screen>>

GoesTo(r, step) == requests' = [requests EXCEPT ![r].at = step]

\* Without an identity a page is redirected and a poll gets a 401, which the
\* poll ignores.
Refused(r) ==
    /\ GoesTo(r, "refused")
    /\ screen' = IF requests[r].kind = "page"
                 THEN [screen EXCEPT ![requests[r].tab] = [name |-> NoLogin, cards |-> {}]]
                 ELSE screen

\* auth.api.getSession.
getSession(r) ==
    /\ requests[r].at = "session"
    /\ IF requests[r].session # 0 /\ session[requests[r].session].live
       THEN GoesTo(r, "seat") /\ UNCHANGED screen
       ELSE Refused(r)
    /\ UNCHANGED <<authVars, context>>

\* resolve_identity: a closed seat reads as not signed in.
resolveIdentity(r) ==
    /\ requests[r].at = "seat"
    /\ IF seat[LoginOf(r)].active
       THEN /\ requests' = [requests EXCEPT ![r].at = "begin", ![r].user = LoginOf(r)]
            /\ UNCHANGED screen
       ELSE Refused(r)
    /\ UNCHANGED <<authVars, context>>

Scope(role) == CASE role = "seller" -> "owner"
                 [] role = "supervisor" -> "tenant_read"
                 [] role = "admin" -> "tenant_admin"

\* begin_request, on a connection nobody holds: the seat is read again, and the
\* scope is what its role says.  CTX001 and CTX002 are a 500.
begin_request(r, c) ==
    /\ requests[r].at = "begin"
    /\ \A q \in DOMAIN requests : requests[q].connection # c
    /\ IF context[c] = NoContext /\ seat[requests[r].user].active
       THEN /\ requests' = [requests EXCEPT ![r].at = "reading", ![r].connection = c]
            /\ context' = [context EXCEPT ![c] =
                              [user |-> requests[r].user, scope |-> Scope(seat[requests[r].user].role)]]
       ELSE GoesTo(r, "failed") /\ UNCHANGED context
    /\ UNCHANGED <<authVars, screen>>

\* Wrong variant: the scope is believed, whatever the role says by now.
scope_as_claimed(c) == context[c].scope \in {"tenant_read", "tenant_admin"}

\* scope_is_global: the scope is a claim that the row has to bear out.
scope_is_global(c) ==
    /\ context[c].scope \in {"tenant_read", "tenant_admin"}
    /\ seat[context[c].user].role \in {"supervisor", "admin"}
    /\ seat[context[c].user].active

\* A statement of the board's loader, under the row policies.  `overseen`
\* notes the rows of others that the login had no right to see at that moment.
RowsRead(r) ==
    /\ requests[r].at = "reading"
    /\ LET c    == requests[r].connection
           u    == context[c].user
           rows == IF scope_is_global(c) THEN Login ELSE {u}
           mine == IF seat[LoginOf(r)].active /\ seat[LoginOf(r)].role # "seller"
                   THEN Login ELSE {LoginOf(r)}
       IN  requests' = [requests EXCEPT ![r].at = "read", ![r].rows = rows,
                                        ![r].overseen = rows \ mine]
    /\ UNCHANGED <<authVars, context, screen>>

\* The transaction ends, and its context with it; the tab draws what was read.
Commits(r) ==
    /\ requests[r].at = "read"
    /\ requests' = [requests EXCEPT ![r].at = "answered", ![r].connection = NoLogin]
    /\ context' = [context EXCEPT ![requests[r].connection] = NoContext]
    /\ screen' = [screen EXCEPT ![requests[r].tab] =
                     [name |-> IF requests[r].kind = "page" THEN requests[r].user ELSE @.name,
                      cards |-> requests[r].rows]]
    /\ UNCHANGED authVars

Aborts(r) ==
    /\ requests[r].at \in {"reading", "read"}
    /\ requests' = [requests EXCEPT ![r].at = "failed", ![r].connection = NoLogin]
    /\ context' = [context EXCEPT ![requests[r].connection] = NoContext]
    /\ UNCHANGED <<authVars, screen>>

SessionNext ==
    \/ \E u \in Login : SignIn(u)
    \/ \E t \in Tab : SignOut(t) \/ Asks(t, "page") \/ (screen[t].name # NoLogin /\ Asks(t, "poll"))
    \/ \E s \in DOMAIN session : Expires(s)
    \/ \E u \in Login, role \in Role, active \in BOOLEAN :
          SeatChanged(u, [role |-> role, active |-> active])
    \/ \E r \in DOMAIN requests :
          \/ getSession(r) \/ resolveIdentity(r) \/ RowsRead(r) \/ Commits(r) \/ Aborts(r)
          \/ \E c \in Connection : begin_request(r, c)

SessionSpec == SessionInit /\ [][SessionNext]_sessionVars

----------------------------------------------------------------------------
\* Every variable holds what the code can store in it.
SessionTypeOK ==
    /\ seat \in [Login -> [role : Role, active : BOOLEAN]]
    /\ session \in Seq([login : Login, live : BOOLEAN]) /\ cookie \in 0..Len(session)
    /\ context \in [Connection -> [user : Login \cup {NoLogin},
                                   scope : {"none", "owner", "tenant_read", "tenant_admin"}]]
    /\ requests \in Seq([tab : Tab, kind : {"page", "poll"}, session : 0..Len(session),
                         at : {"session", "seat", "begin", "reading", "read", "answered",
                               "refused", "failed"},
                         user : Login \cup {NoLogin}, connection : Connection \cup {NoLogin},
                         rows : SUBSET Login, overseen : SUBSET Login, barred : BOOLEAN])
    /\ screen \in [Tab -> [name : Login \cup {NoLogin}, cards : SUBSET Login]]
    /\ seatChanges \in 0..MaxSeatChanges

\* "forging `app.scope_mode` alone buys nothing" (0067:29-30), and neither does
\* having had it: nobody reads a colleague's rows after the role that allowed
\* it is gone, in a unit of work opened before.
NobodyOversees ==
    \A r \in DOMAIN requests : requests[r].overseen = {}

\* "A deactivated seller must not be able to open a unit of work" (0067:164): a
\* request made without a seat, and none given since, reads nothing.
DepartedReadNothing ==
    \A r \in DOMAIN requests : requests[r].barred => requests[r].rows = {}

\* A request speaks for the login of its cookie and no further than its seat
\* allows when it reads (0067_identity_is_sealed.sql:27-32, :164).
SiloHolds == NobodyOversees /\ DepartedReadNothing

\* "am I looking at my own book or someone else's" (ui/shell.tsx:18-19): the
\* name above a seller's board is that of the cards.
NameIsOfTheBook ==
    \A t \in Tab : screen[t].cards # {} => screen[t].name \in screen[t].cards
=============================================================================
