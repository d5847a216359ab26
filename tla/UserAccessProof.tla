--------------------------- MODULE UserAccessProof ---------------------------
(***************************************************************************)
(* Proofs about UserAccess: its types for every interleaving of calls, and *)
(* that until two calls overlap a tenant keeps an active administrator     *)
(* without the last-admin counter ever refusing anything, and that the     *)
(* audit is the history of what was written.                               *)
(***************************************************************************)
EXTENDS UserAccess, TLAPS

(* Types *)

\* The types hold for a tenant that starts.
LEMMA AccessTypeInit == UserAccessInit => AccessTypeOK
<1> SUFFICES ASSUME UserAccessInit PROVE AccessTypeOK
    OBVIOUS
<1> USE AccessAssumption
<1>1. \A r \in Roles : NewRow(r) \in Row
    BY DEF NewRow, Row, Roles
<1>2. held \in [Users -> Row]
    BY <1>1 DEF UserAccessInit, Roles
<1> QED
    <2>1. call \in [Sessions -> Calls \union {NoCall}] /\ audit \in [Users -> Seq(Entry)]
        BY DEF UserAccessInit
    <2>2. overlapped \in BOOLEAN
        BY DEF UserAccessInit
    <2> QED
        BY <1>2, <2>1, <2>2 DEF UserAccessInit, AccessTypeOK

\* What a change names, and what it may write there.
LEMMA FieldsOfChange ==
    ASSUME NEW c \in Change
    PROVE  /\ c.user \in Users
           /\ \/ c.field = "role" /\ c.to \in Roles
              \/ c.field = "active" /\ c.to \in {"on", "off"}
BY DEF Change

\* What a call writes into a row is a row again.
LEMMA WrittenRow ==
    ASSUME NEW row \in Row, NEW c \in Change
    PROVE  [row EXCEPT ![c.field] = c.to] \in Row
<1>1. CASE c.field = "role" /\ c.to \in Roles
    BY <1>1 DEF Row
<1>2. CASE c.field = "active" /\ c.to \in {"on", "off"}
    BY <1>2 DEF Row
<1> QED
    BY <1>1, <1>2, FieldsOfChange

\* What a call audits is an audit row.
LEMMA WrittenEntry ==
    ASSUME NEW row \in Row, NEW c \in Change
    PROVE  [field |-> c.field, before |-> row[c.field], after |-> c.to] \in Entry
<1>1. CASE c.field = "role" /\ c.to \in Roles
    BY <1>1 DEF Row, Entry
<1>2. CASE c.field = "active" /\ c.to \in {"on", "off"}
    BY <1>2 DEF Row, Entry
<1> QED
    BY <1>1, <1>2, FieldsOfChange

\* An open call has the fields of a call.
LEMMA OpenCall ==
    ASSUME AccessTypeOK, NEW s \in Sessions, call[s].step \in {"read", "count", "write"}
    PROVE  /\ call[s] \in Calls
           /\ call[s].change \in Change
           /\ call[s].change.user \in Users
           /\ call[s].actor \in Users
           /\ call[s].seen \in Row
<1>1. call[s] \in Calls
    BY DEF AccessTypeOK, NoCall
<1> QED
    BY <1>1, FieldsOfChange DEF Calls

\* Every step keeps the types.
LEMMA AccessTypeStep == AccessTypeOK /\ [UserAccessNext]_vars => AccessTypeOK'
<1> SUFFICES ASSUME AccessTypeOK, [UserAccessNext]_vars PROVE AccessTypeOK'
    OBVIOUS
<1>1. ASSUME NEW s \in Sessions, NEW a \in Users, NEW c \in Change, Admit(s, a, c)
      PROVE  AccessTypeOK'
    <2>1. NewRow("seller") \in Row
        BY DEF NewRow, Row, Roles
    <2>2. [step |-> "read", actor |-> a, change |-> c, seen |-> NewRow("seller")] \in Calls
        BY <2>1 DEF Calls
    <2> QED
        BY <1>1, <2>2 DEF Admit, NoteOverlap, AccessTypeOK
<1>2. ASSUME NEW s \in Sessions, ReadTarget(s) PROVE AccessTypeOK'
    <2>1. call[s] \in Calls /\ call[s].change.user \in Users
        BY <1>2, OpenCall DEF ReadTarget
    <2> DEFINE c == call[s].change
               row == held[c.user]
               next == IF Takes(c) /\ row.role = "admin" THEN "count" ELSE "write"
    <2>2. row \in Row
        BY <2>1 DEF AccessTypeOK
    <2>3. next \in {"count", "write"}
        OBVIOUS
    <2>4. call' = [call EXCEPT ![s] =
                     IF c.user \notin roster \/ row[c.field] = c.to THEN NoCall
                     ELSE [call[s] EXCEPT !.step = next, !.seen = row]]
        BY <1>2 DEF ReadTarget
    <2> HIDE DEF next, row, c
    <2>5. [call[s] EXCEPT !.step = next, !.seen = row] \in Calls
        BY <2>1, <2>2, <2>3 DEF Calls
    <2>6. call' \in [Sessions -> Calls \union {NoCall}]
        BY <2>4, <2>5 DEF AccessTypeOK
    <2> QED
        BY <1>2, <2>6 DEF ReadTarget, AccessTypeOK
<1>3. ASSUME NEW s \in Sessions, CountAdmins(s) PROVE AccessTypeOK'
    <2>1. call[s] \in Calls
        BY <1>3, OpenCall DEF CountAdmins
    <2>2. [call[s] EXCEPT !.step = "write"] \in Calls
        BY <2>1 DEF Calls
    <2> QED
        BY <1>3, <2>2 DEF CountAdmins, AccessTypeOK
<1>4. ASSUME NEW s \in Sessions, Write(s) PROVE AccessTypeOK'
    <2>1. call[s].change \in Change /\ call[s].change.user \in Users /\ call[s].seen \in Row
        BY <1>4, OpenCall DEF Write
    <2>2. PICK c \in Change, row \in Row : c = call[s].change /\ row = call[s].seen
        BY <2>1
    <2>3. held' = [held EXCEPT ![c.user] = [held[c.user] EXCEPT ![c.field] = c.to]]
        BY <1>4, <2>2 DEF Write
    <2>4. held' \in [Users -> Row]
        BY <2>1, <2>2, <2>3, WrittenRow DEF AccessTypeOK
    <2>5. audit' = [audit EXCEPT ![c.user] =
                      Append(@, [field |-> c.field, before |-> row[c.field], after |-> c.to])]
        BY <1>4, <2>2 DEF Write
    <2>6. audit' \in [Users -> Seq(Entry)]
        <3>1. PICK e \in Entry : audit' = [audit EXCEPT ![c.user] = Append(@, e)]
            BY <2>5, WrittenEntry
        <3>2. Append(audit[c.user], e) \in Seq(Entry)
            BY <2>1, <2>2 DEF AccessTypeOK
        <3> QED
            BY <2>1, <2>2, <3>1, <3>2 DEF AccessTypeOK
    <2> QED
        BY <1>4, <2>4, <2>6 DEF Write, AccessTypeOK
<1>5. ASSUME NEW a \in Users, NEW u \in Users, NEW r \in Roles, Create(a, u, r)
      PROVE  AccessTypeOK'
    <2>1. NewRow(r) \in Row
        BY DEF NewRow, Row
    <2>2. [field |-> "role", before |-> "none", after |-> r] \in Entry
        BY DEF Entry
    <2> QED
        BY <1>5, <2>1, <2>2 DEF Create, NoteOverlap, AccessTypeOK
<1>6. CASE UNCHANGED vars
    BY <1>6 DEF vars, AccessTypeOK
<1> QED
    BY <1>1, <1>2, <1>3, <1>4, <1>5, <1>6 DEF UserAccessNext

\* The rows, the audit log and the open calls keep their shape, whatever the
\* interleaving of calls: each UPDATE and each audit_write stores legal values.
THEOREM AccessTypeCorrect == UserAccessSpec => []AccessTypeOK
BY AccessTypeInit, AccessTypeStep, PTL DEF UserAccessSpec

-----------------------------------------------------------------------------
(* Until two calls overlap *)

\* At most one call is open; whoever made it is still an active admin and is
\* not taking anything from themselves.  Nothing else could have changed the
\* roster since it was admitted, so this, and not the counter, is what keeps
\* the last admin.
OneAtATime ==
    /\ \A s, t \in Sessions : call[s] # NoCall /\ call[t] # NoCall => s = t
    /\ \A s \in Sessions : call[s] # NoCall =>
          IsAdmin(call[s].actor) /\ SelfGuard(call[s].actor, call[s].change)
    /\ \A s \in Sessions : call[s].step = "count" => Takes(call[s].change)

Kept == AccessTypeOK /\ (~overlapped => OneAtATime /\ AnAdminRemains)

\* The inductive invariant holds for a tenant that starts.
LEMMA KeptInit == UserAccessInit => Kept
<1> SUFFICES ASSUME UserAccessInit PROVE Kept
    OBVIOUS
<1>1. OneAtATime
    BY DEF UserAccessInit, OneAtATime, NoCall
<1>2. IsAdmin(Founder)
    BY AccessAssumption DEF UserAccessInit, IsAdmin, NewRow
<1> QED
    BY <1>1, <1>2, AccessTypeInit, AccessAssumption DEF Kept, AnAdminRemains

\* Every step keeps the inductive invariant.
LEMMA KeptStep == Kept /\ [UserAccessNext]_vars => Kept'
<1>0. overlapped /\ [UserAccessNext]_vars => overlapped'
    BY DEF UserAccessNext, vars, Admit, ReadTarget, CountAdmins, Write, Create, NoteOverlap
<1> SUFFICES ASSUME AccessTypeOK, OneAtATime, AnAdminRemains, [UserAccessNext]_vars, ~overlapped'
             PROVE  OneAtATime' /\ AnAdminRemains'
    BY <1>0, AccessTypeStep DEF Kept
<1>1. ASSUME NEW s \in Sessions, NEW a \in Users, NEW c \in Change, Admit(s, a, c)
      PROVE  OneAtATime' /\ AnAdminRemains'
    <2>1. call' = [call EXCEPT ![s] = [step |-> "read", actor |-> a, change |-> c, seen |-> NewRow("seller")]]
        BY <1>1 DEF Admit
    <2>2. \A t \in Sessions : t # s => call'[t] = NoCall
        <3>1. \A t \in Sessions : call[t] = NoCall
            BY <1>1, Zenon DEF Admit, NoteOverlap
        <3> QED
            BY <2>1, <3>1 DEF AccessTypeOK
    <2>3. call'[s].actor = a /\ call'[s].change = c
        BY <2>1 DEF AccessTypeOK
    <2> QED
        BY <1>1, <2>2, <2>3 DEF Admit, OneAtATime, AnAdminRemains, IsAdmin
<1>2. ASSUME NEW s \in Sessions, ReadTarget(s) \/ CountAdmins(s)
      PROVE  OneAtATime' /\ AnAdminRemains'
    <2>1. call[s] \in Calls /\ call[s] # NoCall
        BY <1>2, OpenCall DEF ReadTarget, CountAdmins, NoCall
    <2>2. UNCHANGED <<roster, held>>
        BY <1>2 DEF ReadTarget, CountAdmins
    <2>3. \A t \in Sessions : t # s => call'[t] = call[t]
        BY <1>2 DEF ReadTarget, CountAdmins, AccessTypeOK
    <2>4. \/ call'[s] = NoCall
          \/ /\ call'[s].actor = call[s].actor
             /\ call'[s].change = call[s].change
             /\ call'[s].step = "count" => Takes(call[s].change)
        <3>1. CASE CountAdmins(s)
            <4>1. \/ call'[s] = NoCall
                  \/ call'[s] = [call[s] EXCEPT !.step = "write"]
                BY <3>1 DEF CountAdmins, AccessTypeOK
            <4> QED
                BY <4>1, <2>1 DEF Calls
        <3>2. CASE ReadTarget(s)
            <4>0. PICK row, next :
                    /\ next = IF Takes(call[s].change) /\ row.role = "admin" THEN "count" ELSE "write"
                    /\ call' = [call EXCEPT ![s] =
                                  IF call[s].change.user \notin roster
                                        \/ row[call[s].change.field] = call[s].change.to
                                  THEN NoCall
                                  ELSE [call[s] EXCEPT !.step = next, !.seen = row]]
                BY <3>2 DEF ReadTarget
            <4>1. /\ \/ call'[s] = NoCall
                     \/ call'[s] = [call[s] EXCEPT !.step = next, !.seen = row]
                  /\ next = "count" => Takes(call[s].change)
                BY <4>0 DEF AccessTypeOK
            <4>2. [call[s] EXCEPT !.step = next, !.seen = row].step = next
                BY <2>1 DEF Calls
            <4>3. /\ [call[s] EXCEPT !.step = next, !.seen = row].actor = call[s].actor
                  /\ [call[s] EXCEPT !.step = next, !.seen = row].change = call[s].change
                BY <2>1 DEF Calls
            <4> QED
                BY <4>1, <4>2, <4>3
        <3> QED
            BY <1>2, <3>1, <3>2
    <2>5. \A t \in Sessions : call'[t] # NoCall => call[t] # NoCall
        BY <2>1, <2>3
    <2>6. IsAdmin(call[s].actor) /\ SelfGuard(call[s].actor, call[s].change)
        BY <2>1 DEF OneAtATime
    <2>7. AnAdminRemains'
        BY <2>2 DEF AnAdminRemains, IsAdmin
    <2>8. \A t \in Sessions : call'[t].step = "count" => Takes(call'[t].change)
        BY <2>3, <2>4 DEF OneAtATime, NoCall
    <2>9. \A t \in Sessions : call'[t] # NoCall =>
             IsAdmin(call'[t].actor) /\ SelfGuard(call'[t].actor, call'[t].change)
        BY <2>3, <2>4, <2>5, <2>6 DEF OneAtATime
    <2> QED
        BY <2>2, <2>5, <2>7, <2>8, <2>9 DEF OneAtATime, IsAdmin
<1>3. ASSUME NEW s \in Sessions, Write(s) PROVE OneAtATime' /\ AnAdminRemains'
    <2>1. /\ call[s] # NoCall
          /\ call[s].change \in Change
          /\ call[s].actor \in Users
        BY <1>3, OpenCall DEF Write, NoCall
    <2>2. \A t \in Sessions : call'[t] = NoCall
        BY <1>3, <2>1 DEF Write, OneAtATime, AccessTypeOK
    <2>3. PICK c \in Change, a \in Users : c = call[s].change /\ a = call[s].actor
        BY <2>1
    <2>4. IsAdmin(a) /\ (c.user = a => ~Takes(c))
        BY <2>1, <2>3 DEF OneAtATime, SelfGuard
    <2>5. roster' = roster /\ held' = [held EXCEPT ![c.user][c.field] = c.to]
        BY <1>3, <2>3 DEF Write
    <2>6. held'[a] = held[a]
        <3>1. CASE c.user # a
            BY <2>5, <3>1 DEF AccessTypeOK
        <3>2. CASE c.user = a
            <4>1. held[a] \in Row /\ held[a].role = "admin" /\ held[a].active = "on"
                BY <2>4 DEF IsAdmin, AccessTypeOK
            <4>2. held[a][c.field] = c.to
                BY <2>4, <3>2, <4>1, FieldsOfChange DEF Takes, Roles
            <4>3. held'[a] = [held[a] EXCEPT ![c.field] = c.to]
                BY <2>5, <3>2 DEF AccessTypeOK
            <4> QED
                BY <4>1, <4>2, <4>3, FieldsOfChange DEF Row
        <3> QED
            BY <3>1, <3>2
    <2> QED
        BY <2>2, <2>4, <2>5, <2>6 DEF OneAtATime, AnAdminRemains, IsAdmin, NoCall
<1>4. ASSUME NEW a \in Users, NEW u \in Users, NEW r \in Roles, Create(a, u, r)
      PROVE  OneAtATime' /\ AnAdminRemains'
    <2>1. IsAdmin(a)'
        BY <1>4 DEF Create, IsAdmin, AccessTypeOK
    <2>2. \A t \in Sessions : call[t] = NoCall
        BY <1>4, Zenon DEF Create, NoteOverlap
    <2>3. OneAtATime'
        BY <1>4, <2>2 DEF Create, OneAtATime, NoCall
    <2> QED
        BY <2>1, <2>3 DEF AnAdminRemains
<1>5. CASE UNCHANGED vars
    BY <1>5 DEF vars, OneAtATime, AnAdminRemains, IsAdmin
<1> QED
    BY <1>1, <1>2, <1>3, <1>4, <1>5 DEF UserAccessNext

\* Until two calls overlap, a tenant always has one reachable admin: the self
\* guard of app_user_set_role and app_user_set_active is enough.
THEOREM AdminRemains == UserAccessSpec => []AdminUnlessRaced
<1>1. Kept => AdminUnlessRaced
    BY DEF Kept, AdminUnlessRaced
<1> QED
    BY KeptInit, KeptStep, <1>1, PTL DEF UserAccessSpec

\* Until two calls overlap, no call counts zero other admins: the actor is one,
\* and a call that takes something away is not about its actor.
THEOREM CounterNeverRefuses == UserAccessSpec => []CounterIdleUnlessRaced
<1>1. Kept => CounterIdleUnlessRaced
    <2> SUFFICES ASSUME Kept, ~overlapped, NEW s \in Sessions, call[s].step = "count"
                 PROVE  OtherAdmins(call[s].change.user) # {}
        BY DEF CounterIdleUnlessRaced
    <2>1. call[s] # NoCall /\ call[s].actor \in Users
        BY OpenCall DEF Kept, NoCall
    <2>2. IsAdmin(call[s].actor) /\ call[s].change.user # call[s].actor
        BY <2>1 DEF Kept, OneAtATime, SelfGuard
    <2>3. call[s].actor \in OtherAdmins(call[s].change.user)
        BY <2>1, <2>2 DEF OtherAdmins
    <2> QED
        BY <2>3
<1> QED
    BY KeptInit, KeptStep, <1>1, PTL DEF UserAccessSpec

-----------------------------------------------------------------------------
(* The audit *)

\* What the audit of the users keeps: nobody is audited before they are on the
\* roster, a call that is about to write is about somebody who is, and what it
\* read is still there unless calls overlapped.
Recorded ==
    /\ \A u \in Users \ roster : audit[u] = <<>>
    /\ \A s \in Sessions : call[s].step \in {"count", "write"} => call[s].change.user \in roster
    /\ ~overlapped => \A s \in Sessions : call[s].step \in {"count", "write"} =>
                         call[s].seen = held[call[s].change.user]
    /\ AuditIsTrue

\* Nothing is audited when a tenant starts.
LEMMA RecordedInit == UserAccessInit => Recorded
<1> SUFFICES ASSUME UserAccessInit PROVE Recorded
    OBVIOUS
<1>1. \A u \in Users : audit[u] = <<>> /\ Len(audit[u]) = 0
    BY DEF UserAccessInit
<1>2. \A s \in Sessions : call[s].step = "none"
    BY DEF UserAccessInit, NoCall
<1>3. roster \subseteq Users
    BY AccessAssumption DEF UserAccessInit
<1>4. ChainsUnlessRaced /\ RecordIsCurrent
    BY <1>1, <1>3 DEF ChainsUnlessRaced, RecordIsCurrent
<1> QED
    BY <1>1, <1>2, <1>4 DEF Recorded, AuditIsTrue

\* What audit_write leaves: the rows that were there and a new last one.
LEMMA RowAdded ==
    ASSUME AccessTypeOK, NEW u \in Users, NEW e \in Entry,
           audit' = [audit EXCEPT ![u] = Append(@, e)]
    PROVE  /\ Len(audit[u]) \in Nat /\ Len(audit'[u]) = Len(audit[u]) + 1
           /\ \A i \in 1 .. Len(audit[u]) : audit'[u][i] = audit[u][i]
           /\ audit'[u][Len(audit[u]) + 1] = e
           /\ \A v \in Users : v # u => audit'[v] = audit[v]
<1>1. audit[u] \in Seq(Entry) /\ audit'[u] = Append(audit[u], e)
    BY DEF AccessTypeOK
<1>2. \A v \in Users : v # u => audit'[v] = audit[v]
    BY DEF AccessTypeOK
<1> QED
    BY <1>1, <1>2

\* The newest row about the new row's own field is the new row, about the other
\* one it is what it was, and before the new row it was the newest before.
LEMMA NewestAfter ==
    ASSUME AccessTypeOK, NEW u \in Users, NEW e \in Entry,
           audit' = [audit EXCEPT ![u] = Append(@, e)], NEW f,
           NEW i \in 1 .. Len(audit'[u])
    PROVE  /\ LastBefore(audit'[u], f, i, Len(audit'[u]) + 1) =>
                \/ i = Len(audit[u]) + 1 /\ f = e.field
                \/ i \in 1 .. Len(audit[u]) /\ f # e.field /\ LastBefore(audit[u], f, i, Len(audit[u]) + 1)
           /\ \A j \in 1 .. Len(audit[u]) + 1 : LastBefore(audit'[u], f, i, j) => LastBefore(audit[u], f, i, j)
<1> DEFINE n == Len(audit[u])
<1>1. /\ n \in Nat /\ Len(audit'[u]) = n + 1
      /\ \A k \in 1 .. n : audit'[u][k] = audit[u][k]
      /\ audit'[u][n + 1] = e
    BY RowAdded
<1> HIDE DEF n
<1>2. ASSUME LastBefore(audit'[u], f, i, n + 2)
      PROVE  \/ i = n + 1 /\ f = e.field
             \/ i \in 1 .. n /\ f # e.field /\ LastBefore(audit[u], f, i, n + 1)
    <2>1. /\ i \in 1 .. n + 1 /\ audit'[u][i].field = f
          /\ \A k \in i + 1 .. n + 1 : audit'[u][k].field # f
        BY <1>1, <1>2 DEF LastBefore
    <2>2. CASE i = n + 1
        BY <1>1, <2>1, <2>2
    <2>3. CASE i \in 1 .. n
        <3>1. n + 1 \in i + 1 .. n + 1
            BY <1>1, <2>3
        <3>2. f # e.field
            BY <1>1, <2>1, <3>1
        <3>3. \A k \in i + 1 .. n : audit[u][k].field # f
            BY <1>1, <2>1, <2>3
        <3>4. audit[u][i].field = f
            BY <1>1, <2>1, <2>3
        <3> QED
            BY <1>1, <2>3, <3>2, <3>3, <3>4 DEF LastBefore
    <2> QED
        BY <1>1, <2>1, <2>2, <2>3
<1>3. ASSUME NEW j \in 1 .. n + 1, LastBefore(audit'[u], f, i, j)
      PROVE  LastBefore(audit[u], f, i, j)
    <2>1. /\ i \in 1 .. j - 1 /\ audit'[u][i].field = f
          /\ \A k \in i + 1 .. j - 1 : audit'[u][k].field # f
        BY <1>3 DEF LastBefore
    <2>2. \A k \in 1 .. j - 1 : audit'[u][k] = audit[u][k]
        BY <1>1, <1>3
    <2>3. \A k \in i + 1 .. j - 1 : k \in 1 .. j - 1
        BY <2>1
    <2> QED
        BY <2>1, <2>2, <2>3 DEF LastBefore
<1>4. Len(audit'[u]) + 1 = n + 2
    BY <1>1
<1> QED
    BY <1>2, <1>3, <1>4 DEF n

\* A row that says what its user's row becomes keeps the record of the roster.
LEMMA RowIsRecorded ==
    ASSUME AccessTypeOK, AccessTypeOK', RecordIsCurrent, NEW u \in Users, NEW e \in Entry,
           audit' = [audit EXCEPT ![u] = Append(@, e)],
           u \in roster, held'[u][e.field] = e.after,
           roster' = roster,
           \A f \in {"role", "active"} : f # e.field => held'[u][f] = held[u][f],
           \A v \in Users : v # u => held'[v] = held[v]
    PROVE  RecordIsCurrent'
<1> SUFFICES ASSUME NEW v \in roster, NEW f \in {"role", "active"}, NEW i \in 1 .. Len(audit'[v]),
                    LastBefore(audit'[v], f, i, Len(audit'[v]) + 1)
             PROVE  audit'[v][i].after = held'[v][f]
    BY DEF RecordIsCurrent
<1>0. v \in Users
    BY DEF AccessTypeOK
<1>1. CASE v = u
    <2>1. \/ i = Len(audit[u]) + 1 /\ f = e.field
          \/ i \in 1 .. Len(audit[u]) /\ f # e.field /\ LastBefore(audit[u], f, i, Len(audit[u]) + 1)
        BY <1>1, NewestAfter
    <2>2. CASE i = Len(audit[u]) + 1 /\ f = e.field
        BY <1>1, <2>2, RowAdded
    <2>3. CASE i \in 1 .. Len(audit[u]) /\ f # e.field /\ LastBefore(audit[u], f, i, Len(audit[u]) + 1)
        <3>1. audit[u][i].after = held[u][f]
            BY <2>3 DEF RecordIsCurrent
        <3>2. audit'[u][i] = audit[u][i]
            BY <2>3, RowAdded
        <3> QED
            BY <1>1, <2>3, <3>1, <3>2
    <2> QED
        BY <2>1, <2>2, <2>3
<1>2. CASE v # u
    <2>1. audit'[v] = audit[v] /\ held'[v] = held[v]
        BY <1>0, <1>2, RowAdded
    <2>2. LastBefore(audit[v], f, i, Len(audit[v]) + 1)
        BY <2>1 DEF LastBefore
    <2>3. i \in 1 .. Len(audit[v])
        BY <2>1
    <2>4. audit[v][i].after = held[v][f]
        BY <2>2, <2>3 DEF RecordIsCurrent
    <2> QED
        BY <2>1, <2>4
<1> QED
    BY <1>1, <1>2

\* A row whose BEFORE is what was there continues the history.
LEMMA RowChains ==
    ASSUME AccessTypeOK, ChainsUnlessRaced, ~overlapped, NEW u \in Users, NEW e \in Entry,
           audit' = [audit EXCEPT ![u] = Append(@, e)],
           \A i \in 1 .. Len(audit[u]) :
              LastBefore(audit[u], e.field, i, Len(audit[u]) + 1) => audit[u][i].after = e.before
    PROVE  ChainsUnlessRaced'
<1> SUFFICES ASSUME NEW v \in Users, NEW j \in 1 .. Len(audit'[v]), NEW i \in 1 .. j - 1,
                    LastBefore(audit'[v], audit'[v][j].field, i, j)
             PROVE  audit'[v][j].before = audit'[v][i].after
    BY DEF ChainsUnlessRaced
<1>1. CASE v = u
    <2> DEFINE n == Len(audit[u])
    <2>1. /\ n \in Nat /\ Len(audit'[u]) = n + 1
          /\ \A k \in 1 .. n : audit'[u][k] = audit[u][k]
          /\ audit'[u][n + 1] = e
        BY RowAdded
    <2> HIDE DEF n
    <2>2. j \in 1 .. n + 1 /\ i \in 1 .. n /\ i \in 1 .. Len(audit'[u])
        BY <1>1, <2>1
    <2>3. LastBefore(audit[u], audit'[u][j].field, i, j)
        BY <1>1, <2>2, NewestAfter DEF n
    <2>4. CASE j = n + 1
        BY <1>1, <2>1, <2>2, <2>3, <2>4 DEF n
    <2>5. CASE j \in 1 .. n
        BY <1>1, <2>1, <2>2, <2>3, <2>5 DEF n, ChainsUnlessRaced
    <2> QED
        BY <2>1, <2>2, <2>4, <2>5
<1>2. CASE v # u
    <2>1. audit'[v] = audit[v]
        BY <1>2, RowAdded
    <2>2. LastBefore(audit[v], audit[v][j].field, i, j)
        BY <2>1 DEF LastBefore
    <2> QED
        BY <2>1, <2>2 DEF ChainsUnlessRaced
<1> QED
    BY <1>1, <1>2

\* A step that writes nothing keeps the record.
LEMMA QuietRecord ==
    ASSUME UNCHANGED <<roster, held, audit>>, overlapped => overlapped'
    PROVE  AuditIsTrue => AuditIsTrue'
BY DEF AuditIsTrue, ChainsUnlessRaced, RecordIsCurrent, LastBefore

\* What an open call may have seen of its user.
SawItsUser(c) ==
    /\ c.change.user \in roster
    /\ ~overlapped => c.seen = held[c.change.user]

LEMMA OpenCallSaw ==
    ASSUME Recorded, NEW s \in Sessions, call[s].step \in {"count", "write"}
    PROVE  SawItsUser(call[s])
BY DEF Recorded, SawItsUser

\* A step that writes nothing, and leaves open calls that saw their users, keeps it.
LEMMA QuietlyRecorded ==
    ASSUME Recorded, UNCHANGED <<roster, held, audit>>, overlapped => overlapped',
           \A s \in Sessions : call'[s].step \in {"count", "write"} => SawItsUser(call'[s])
    PROVE  Recorded'
<1>1. AuditIsTrue'
    BY QuietRecord DEF Recorded
<1>2. \A u \in Users \ roster' : audit'[u] = <<>>
    BY DEF Recorded
<1>3. \A s \in Sessions : call'[s].step \in {"count", "write"} => call'[s].change.user \in roster'
    BY DEF SawItsUser
<1>4. ~overlapped' => \A s \in Sessions : call'[s].step \in {"count", "write"} =>
                         call'[s].seen = held'[call'[s].change.user]
    BY DEF SawItsUser
<1> QED
    BY <1>1, <1>2, <1>3, <1>4 DEF Recorded

\* Every step keeps it.
LEMMA RecordedStep == Kept /\ Recorded /\ [UserAccessNext]_vars => Recorded'
<1>0. overlapped /\ [UserAccessNext]_vars => overlapped'
    BY DEF UserAccessNext, vars, Admit, ReadTarget, CountAdmins, Write, Create, NoteOverlap
<1> SUFFICES ASSUME Kept, Recorded, [UserAccessNext]_vars PROVE Recorded'
    OBVIOUS
<1> USE <1>0
<1>t. AccessTypeOK /\ AccessTypeOK'
    BY AccessTypeStep DEF Kept
<1>1. ASSUME NEW s \in Sessions, NEW a \in Users, NEW c \in Change, Admit(s, a, c)
      PROVE  Recorded'
    <2>1. UNCHANGED <<roster, held, audit>>
        BY <1>1 DEF Admit
    <2>2. \A t \in Sessions : call'[t].step \in {"count", "write"} => call'[t] = call[t]
        BY <1>1, <1>t DEF Admit, AccessTypeOK
    <2>3. \A t \in Sessions : call'[t].step \in {"count", "write"} => SawItsUser(call'[t])
        BY <2>2, OpenCallSaw
    <2> QED
        BY <2>1, <2>3, QuietlyRecorded
<1>2. ASSUME NEW s \in Sessions, ReadTarget(s) PROVE Recorded'
    <2>1. UNCHANGED <<roster, held, audit>>
        BY <1>2 DEF ReadTarget
    <2>2. call[s] \in Calls
        BY <1>2, <1>t, OpenCall DEF ReadTarget
    <2>3. call'[s].step \in {"count", "write"} => SawItsUser(call'[s])
        <3> DEFINE c == call[s].change
                   row == held[c.user]
                   next == IF Takes(c) /\ row.role = "admin" THEN "count" ELSE "write"
        <3>1. call'[s] = IF c.user \notin roster \/ row[c.field] = c.to THEN NoCall
                         ELSE [call[s] EXCEPT !.step = next, !.seen = row]
            BY <1>2, <1>t DEF ReadTarget, AccessTypeOK
        <3> HIDE DEF next, row, c
        <3>2. [call[s] EXCEPT !.step = next, !.seen = row].change = call[s].change
            BY <2>2 DEF Calls
        <3>3. [call[s] EXCEPT !.step = next, !.seen = row].seen = row
            BY <2>2 DEF Calls
        <3>4. NoCall.step \notin {"count", "write"}
            BY DEF NoCall
        <3> QED
            BY <3>1, <3>2, <3>3, <3>4 DEF SawItsUser, c, row
    <2>4. \A t \in Sessions : t # s => call'[t] = call[t]
        BY <1>2, <1>t DEF ReadTarget, AccessTypeOK
    <2>5. \A t \in Sessions : call'[t].step \in {"count", "write"} => SawItsUser(call'[t])
        BY <2>3, <2>4, OpenCallSaw
    <2> QED
        BY <2>1, <2>5, QuietlyRecorded
<1>3. ASSUME NEW s \in Sessions, CountAdmins(s) PROVE Recorded'
    <2>1. UNCHANGED <<roster, held, audit>>
        BY <1>3 DEF CountAdmins
    <2>2. call[s] \in Calls /\ call[s].step = "count"
        BY <1>3, <1>t, OpenCall DEF CountAdmins
    <2>3. call'[s] = NoCall \/ call'[s] = [call[s] EXCEPT !.step = "write"]
        BY <1>3, <1>t DEF CountAdmins, AccessTypeOK
    <2>4. call'[s].step \in {"count", "write"} =>
             call'[s].change = call[s].change /\ call'[s].seen = call[s].seen
        BY <2>2, <2>3 DEF Calls, NoCall
    <2>5. \A t \in Sessions : t # s => call'[t] = call[t]
        BY <1>3, <1>t DEF CountAdmins, AccessTypeOK
    <2>6. SawItsUser(call[s])
        BY <2>2, OpenCallSaw
    <2>7. \A t \in Sessions : call'[t].step \in {"count", "write"} => SawItsUser(call'[t])
        BY <2>4, <2>5, <2>6, OpenCallSaw DEF SawItsUser
    <2> QED
        BY <2>1, <2>7, QuietlyRecorded
<1>4. ASSUME NEW s \in Sessions, Write(s) PROVE Recorded'
    <2>1. call[s].change \in Change /\ call[s].seen \in Row /\ call[s] # NoCall
        BY <1>4, <1>t, OpenCall DEF Write, NoCall
    <2>2. PICK c \in Change, row \in Row : c = call[s].change /\ row = call[s].seen
        BY <2>1
    <2> DEFINE e == [field |-> c.field, before |-> row[c.field], after |-> c.to]
    <2>3. c.user \in Users /\ c.user \in roster /\ e \in Entry
        BY <1>4, <2>2, FieldsOfChange, WrittenEntry DEF Write, Recorded
    <2>4. audit' = [audit EXCEPT ![c.user] = Append(@, e)]
        BY <1>4, <2>2 DEF Write
    <2>5. /\ roster' = roster
          /\ held' = [held EXCEPT ![c.user] = [held[c.user] EXCEPT ![c.field] = c.to]]
        BY <1>4, <2>2 DEF Write
    <2>6. /\ held'[c.user][c.field] = c.to
          /\ \A f \in {"role", "active"} : f # c.field => held'[c.user][f] = held[c.user][f]
          /\ \A v \in Users : v # c.user => held'[v] = held[v]
        <3>1. held[c.user] \in Row /\ c.field \in {"role", "active"}
            BY <1>t, <2>3, FieldsOfChange DEF AccessTypeOK
        <3>2. held'[c.user] = [held[c.user] EXCEPT ![c.field] = c.to]
            BY <1>t, <2>3, <2>5 DEF AccessTypeOK
        <3> QED
            BY <1>t, <2>5, <3>1, <3>2 DEF AccessTypeOK, Row
    <2>7. RecordIsCurrent'
        <3>1. e.field = c.field /\ e.after = c.to
            OBVIOUS
        <3> HIDE DEF e
        <3>2. RecordIsCurrent
            BY DEF Recorded, AuditIsTrue
        <3>3. PICK u \in Users : u = c.user
            BY <2>3
        <3>4. /\ audit' = [audit EXCEPT ![u] = Append(@, e)]
              /\ u \in roster /\ held'[u][e.field] = e.after /\ roster' = roster
              /\ \A f \in {"role", "active"} : f # e.field => held'[u][f] = held[u][f]
              /\ \A v \in Users : v # u => held'[v] = held[v]
            BY <2>3, <2>4, <2>5, <2>6, <3>1, <3>3
        <3> QED
            BY <1>t, <2>3, <3>2, <3>4, RowIsRecorded
    <2>8. ChainsUnlessRaced'
        <3> SUFFICES ASSUME ~overlapped' PROVE ChainsUnlessRaced'
            BY DEF ChainsUnlessRaced
        <3>1. ~overlapped /\ row = held[c.user]
            BY <1>4, <2>2 DEF Write, Recorded
        <3>2. \A i \in 1 .. Len(audit[c.user]) :
                 LastBefore(audit[c.user], e.field, i, Len(audit[c.user]) + 1) => audit[c.user][i].after = e.before
            BY <2>3, <3>1, FieldsOfChange DEF Recorded, AuditIsTrue, RecordIsCurrent
        <3> HIDE DEF e
        <3> QED
            BY <1>t, <2>3, <2>4, <3>1, <3>2, RowChains DEF Recorded, AuditIsTrue
    <2>9. call'[s] = NoCall /\ \A t \in Sessions : t # s => call'[t] = call[t]
        BY <1>4, <1>t DEF Write, AccessTypeOK
    <2>10. \A u \in Users \ roster' : audit'[u] = <<>>
        <3> HIDE DEF e
        <3>1. \A v \in Users : v # c.user => audit'[v] = audit[v]
            BY <1>t, <2>3, <2>4, RowAdded
        <3> QED
            BY <2>3, <2>5, <3>1 DEF Recorded
    <2>11. ~overlapped' => \A t \in Sessions : call'[t] = NoCall
        BY <1>4, <2>1, <2>9 DEF Write, Kept, OneAtATime
    <2> QED
        BY <2>5, <2>7, <2>8, <2>9, <2>10, <2>11 DEF Recorded, AuditIsTrue, NoCall
<1>5. ASSUME NEW a \in Users, NEW u \in Users, NEW r \in Roles, Create(a, u, r)
      PROVE  Recorded'
    <2> DEFINE e == [field |-> "role", before |-> "none", after |-> r]
    <2>1. e \in Entry
        BY DEF Entry
    <2>2. e.field = "role" /\ e.after = r
        OBVIOUS
    <2>3. audit' = [audit EXCEPT ![u] = Append(@, e)]
        BY <1>5 DEF Create
    <2> HIDE DEF e
    <2>4. audit[u] = <<>> /\ Len(audit[u]) = 0 /\ u \notin roster
        BY <1>5 DEF Create, Recorded
    <2>5. /\ Len(audit'[u]) = 1 /\ audit'[u][1] = e
          /\ \A v \in Users : v # u => audit'[v] = audit[v]
        <3>1. /\ Len(audit'[u]) = Len(audit[u]) + 1
              /\ audit'[u][Len(audit[u]) + 1] = e
              /\ \A v \in Users : v # u => audit'[v] = audit[v]
            BY <1>t, <2>1, <2>3, RowAdded
        <3>2. Len(audit[u]) + 1 = 1
            BY <2>4
        <3> QED
            BY <3>1, <3>2
    <2>6. held'[u] = NewRow(r) /\ \A v \in Users : v # u => held'[v] = held[v]
        BY <1>5, <1>t DEF Create, AccessTypeOK
    <2>7. RecordIsCurrent'
        <3> SUFFICES ASSUME NEW v \in roster', NEW f \in {"role", "active"}, NEW i \in 1 .. Len(audit'[v]),
                            LastBefore(audit'[v], f, i, Len(audit'[v]) + 1)
                     PROVE  audit'[v][i].after = held'[v][f]
            BY DEF RecordIsCurrent
        <3>1. CASE v = u
            <4>1. i = 1
                <5>1. i \in 1 .. 1
                    BY <2>5, <3>1
                <5> QED
                    BY <5>1
            <4>2. f = "role"
                BY <2>2, <2>5, <3>1, <4>1 DEF LastBefore
            <4> QED
                BY <2>2, <2>5, <2>6, <3>1, <4>1, <4>2 DEF NewRow
        <3>2. CASE v # u
            <4>1. v \in roster /\ v \in Users
                BY <1>5, <1>t, <3>2 DEF Create, AccessTypeOK
            <4>2. audit'[v] = audit[v] /\ held'[v] = held[v]
                BY <2>5, <2>6, <3>2, <4>1
            <4>3. LastBefore(audit[v], f, i, Len(audit[v]) + 1)
                BY <4>2 DEF LastBefore
            <4> QED
                BY <4>1, <4>2, <4>3 DEF Recorded, AuditIsTrue, RecordIsCurrent
        <3> QED
            BY <3>1, <3>2
    <2>8. ChainsUnlessRaced'
        <3> SUFFICES ASSUME ~overlapped' PROVE ChainsUnlessRaced'
            BY DEF ChainsUnlessRaced
        <3>1. ~overlapped
            OBVIOUS
        <3>2. \A i \in 1 .. Len(audit[u]) :
                 LastBefore(audit[u], e.field, i, Len(audit[u]) + 1) => audit[u][i].after = e.before
            BY <2>4
        <3> QED
            BY <1>t, <2>1, <2>3, <3>1, <3>2, RowChains DEF Recorded, AuditIsTrue
    <2>9. \A v \in Users \ roster' : audit'[v] = <<>>
        BY <1>5, <2>5 DEF Create, Recorded
    <2>10. ~overlapped' => \A t \in Sessions : call[t] = NoCall
        BY <1>5, Zenon DEF Create, NoteOverlap
    <2> QED
        BY <1>5, <2>7, <2>8, <2>9, <2>10 DEF Create, Recorded, AuditIsTrue, NoCall
<1>6. CASE UNCHANGED vars
    <2>1. AuditIsTrue'
        BY <1>6, QuietRecord DEF vars, Recorded
    <2> QED
        BY <1>6, <2>1 DEF vars, Recorded
<1> QED
    BY <1>1, <1>2, <1>3, <1>4, <1>5, <1>6 DEF UserAccessNext

\* What the audit of 0072 says of a user is what happened, for any people and any
\* number of sessions: no gap while calls do not overlap, and the newest row is
\* right whatever they raced on.
THEOREM AuditNeverLies == UserAccessSpec => []AuditIsTrue
<1>1. Recorded => AuditIsTrue
    BY DEF Recorded
<1> QED
    BY KeptInit, KeptStep, RecordedInit, RecordedStep, <1>1, PTL DEF UserAccessSpec
=============================================================================
