----------------------------- MODULE UserAccess -----------------------------
(***************************************************************************)
(* Who may use one tenant: app_user_create (0073), app_user_set_role and   *)
(* app_user_set_active (0072).  Each is one READ COMMITTED transaction of  *)
(* several statements, and every statement has a snapshot of its own, so   *)
(* a call is four steps here: it is admitted, it reads the target row, it  *)
(* counts the other administrators, it writes the row and its audit row.   *)
(* No statement before the UPDATE takes a lock.  The UPDATE locks the row  *)
(* until the commit, so the write, the audit row and the commit are one    *)
(* step: nobody sees the row in between.                                   *)
(***************************************************************************)
EXTENDS Naturals, Sequences, FiniteSets

CONSTANTS Users,      \* people who are, or may be put, on the roster
          Founder,    \* the administrator the tenant starts with
          Sessions,   \* database sessions that can run a call
          MaxRows     \* bound: audit rows after which a user is left alone

ASSUME AccessAssumption == Founder \in Users /\ MaxRows \in Nat

VARIABLES roster,     \* users with a row in app_user
          held,       \* what the row says: held[u].role and held[u].active
          audit,      \* audit[u]: the audit rows about u, oldest first
          call,       \* the call a session has open
          overlapped  \* history: a call has started while another was open

vars == <<roster, held, audit, call, overlapped>>

Roles == {"seller", "supervisor", "admin"}
Row == [role : Roles, active : {"on", "off"}]
NewRow(r) == [role |-> r, active |-> "on"]

\* app_user_set_role is a change of "role", app_user_set_active of "active".
Change == [user : Users, field : {"role"}, to : Roles]
            \union [user : Users, field : {"active"}, to : {"on", "off"}]

Entry == [field : {"role", "active"},
          before : Roles \union {"on", "off", "none"},
          after : Roles \union {"on", "off"}]

NoCall == [step |-> "none"]
Calls == [step : {"read", "count", "write"}, actor : Users, change : Change, seen : Row]

IsAdmin(u) == u \in roster /\ held[u] = [role |-> "admin", active |-> "on"]

OtherAdmins(u) == {v \in Users \ {u} : IsAdmin(v)}

\* The change takes something away: a role other than admin, or access.
TakesARole(c) == c.field = "role" /\ c.to # "admin"   \* set_active forgets UR009 and UR010
Takes(c) == c.to \notin {"admin", "on"}

\* UR004 and UR009: nobody takes their own administration away.
NoSelfGuard(actor, c) == TRUE                          \* UR004 and UR009 relaxed
SelfGuard(actor, c) == c.user = actor => ~Takes(c)

UserAccessInit ==
    /\ roster = {Founder}
    /\ held = [u \in Users |-> NewRow(IF u = Founder THEN "admin" ELSE "seller")]
    /\ audit = [u \in Users |-> <<>>]
    /\ call = [s \in Sessions |-> NoCall]
    /\ overlapped = FALSE

\* Remember whether this call starts beside another.
NoteOverlap == overlapped' = (overlapped \/ \E t \in Sessions : call[t] # NoCall)

\* begin_request and scope_is_admin: the actor is an active admin now.
Admit(s, actor, c) ==
    /\ call[s] = NoCall
    /\ Len(audit[c.user]) < MaxRows
    /\ IsAdmin(actor)
    /\ SelfGuard(actor, c)
    /\ call' = [call EXCEPT ![s] = [step |-> "read", actor |-> actor, change |-> c, seen |-> NewRow("seller")]]
    /\ NoteOverlap
    /\ UNCHANGED <<roster, held, audit>>

\* SELECT ... INTO v_before: the row as it is now, or RETURN false when the
\* user is unknown or has what is asked already.  The other admins are counted
\* only when an admin loses something.
ReadTarget(s) ==
    /\ call[s].step = "read"
    /\ LET c == call[s].change
           row == held[c.user]
           next == IF Takes(c) /\ row.role = "admin" THEN "count" ELSE "write"
       IN call' = [call EXCEPT ![s] =
                     IF c.user \notin roster \/ row[c.field] = c.to THEN NoCall
                     ELSE [call[s] EXCEPT !.step = next, !.seen = row]]
    /\ UNCHANGED <<roster, held, audit, overlapped>>

\* UR005 and UR010: refuse when no other active admin is counted.
CountAdmins(s) ==
    /\ call[s].step = "count"
    /\ call' = [call EXCEPT ![s] =
                  IF OtherAdmins(call[s].change.user) = {} THEN NoCall
                  ELSE [call[s] EXCEPT !.step = "write"]]
    /\ UNCHANGED <<roster, held, audit, overlapped>>

\* A Write that hands audit_write its BEFORE and AFTER the wrong way round.
WriteSwapped(s) ==
    /\ call[s].step = "write"
    /\ LET c == call[s].change
       IN /\ held' = [held EXCEPT ![c.user][c.field] = c.to]
          /\ audit' = [audit EXCEPT ![c.user] =
                         Append(@, [field |-> c.field, before |-> c.to, after |-> call[s].seen[c.field]])]
    /\ call' = [call EXCEPT ![s] = NoCall]
    /\ UNCHANGED <<roster, overlapped>>

\* UPDATE by key alone, and audit_write with the value read before.
Write(s) ==
    /\ call[s].step = "write"
    /\ LET c == call[s].change
       IN /\ held' = [held EXCEPT ![c.user][c.field] = c.to]
          /\ audit' = [audit EXCEPT ![c.user] =
                         Append(@, [field |-> c.field, before |-> call[s].seen[c.field], after |-> c.to])]
    /\ call' = [call EXCEPT ![s] = NoCall]
    /\ UNCHANGED <<roster, overlapped>>

\* A Create that leaves the role out.
CreateNoRole(actor, u, r) ==
    /\ IsAdmin(actor)
    /\ u \notin roster
    /\ roster' = roster \union {u}
    /\ held' = [held EXCEPT ![u] = NewRow("none")]
    /\ UNCHANGED <<audit, call, overlapped>>

\* app_user_create; UC005 (the unique e-mail) refuses a second row.
Create(actor, u, r) ==
    /\ IsAdmin(actor)
    /\ u \notin roster
    /\ roster' = roster \union {u}
    /\ held' = [held EXCEPT ![u] = NewRow(r)]
    /\ audit' = [audit EXCEPT ![u] = Append(@, [field |-> "role", before |-> "none", after |-> r])]
    /\ NoteOverlap
    /\ UNCHANGED call

UserAccessNext ==
    \/ \E s \in Sessions, a \in Users, c \in Change : Admit(s, a, c)
    \/ \E s \in Sessions : ReadTarget(s) \/ CountAdmins(s) \/ Write(s)
    \/ \E a, u \in Users, r \in Roles : Create(a, u, r)

UserAccessSpec == UserAccessInit /\ [][UserAccessNext]_vars

-----------------------------------------------------------------------------
\* Every variable keeps the shape its table or plpgsql variables give it.
AccessTypeOK ==
    /\ roster \subseteq Users
    /\ held \in [Users -> Row]
    /\ audit \in [Users -> Seq(Entry)]
    /\ call \in [Sessions -> Calls \union {NoCall}]
    /\ overlapped \in BOOLEAN

\* "A tenant always has one reachable admin" (0072, the comment over UR005).
AnAdminRemains == \E u \in Users : IsAdmin(u)

\* It does, for as long as no two calls have overlapped: UR004 and UR009 are
\* enough then.
AdminUnlessRaced == ~overlapped => AnAdminRemains

\* Then, too, no call that counts the other admins finds none: UR005 and UR010
\* are never raised, which is what 0072 says of them.
CounterIdleUnlessRaced ==
    ~overlapped =>
        \A s \in Sessions : call[s].step = "count" => OtherAdmins(call[s].change.user) # {}

\* Row i is about field f, and none of the rows between it and row j is.
LastBefore(rows, f, i, j) ==
    /\ i \in 1 .. j - 1
    /\ rows[i].field = f
    /\ \A k \in i + 1 .. j - 1 : rows[k].field # f

\* Then, too, the BEFORE of an audit row is what the row before it left: the
\* history of a user's role, and of their access, has no gap.
ChainsUnlessRaced ==
    ~overlapped =>
        \A u \in Users : \A j \in 1 .. Len(audit[u]) : \A i \in 1 .. j - 1 :
            LastBefore(audit[u], audit[u][j].field, i, j) => audit[u][j].before = audit[u][i].after

\* The newest audit row about a field says what app_user says: whatever the
\* calls raced on, the record of the last change is the state.
RecordIsCurrent ==
    \A u \in roster, f \in {"role", "active"} : \A i \in 1 .. Len(audit[u]) :
        LastBefore(audit[u], f, i, Len(audit[u]) + 1) => audit[u][i].after = held[u][f]

\* What the audit of 0072 says of a user is what happened: no gap while calls do
\* not overlap, and the newest row always right.
AuditIsTrue == ChainsUnlessRaced /\ RecordIsCurrent

=============================================================================
