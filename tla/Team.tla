-------------------------------- MODULE Team --------------------------------
(***************************************************************************)
(* The roster as one admin edits it.  The form that adds a member and the    *)
(* editor that is open under one member send POSTs; a form waits for its own *)
(* and for no other, so an editor that is opened elsewhere sends while the   *)
(* POST of the one it replaced is under way.  The list is read again after   *)
(* each change, and other admins work on the same people.  What the database *)
(* makes of concurrent changes is UserAccess.                                *)
(***************************************************************************)
EXTENDS Naturals, Sequences, SequencesExt

CONSTANTS
    Person,
    Me,             \* the admin at this page; nobody changes their own access
    NoPerson,       \* no editor, a reading not served yet
    MaxEdits,       \* bound: POSTs sent
    MaxMishaps      \* bound: things that fail or happen elsewhere

ASSUME TeamAssumption ==
    /\ Me \in Person /\ NoPerson \notin Person
    /\ MaxEdits \in Nat /\ MaxMishaps \in Nat

VARIABLES
    members,        \* the server's: role and access of everybody on the team
    team,           \* the page: its status and the members it lists
    teamReads,      \* readings under way, in the order they were sent
    teamPosts,          \* POSTs under way, numbered in the order they were sent
    adding,         \* the POST AddMember waits for, 0 when it is not busy
    editor,         \* the open editor: whose, the role selected, what is confirmed,
                    \* and the POST it waits for
    edits, mishaps,
    passed          \* history: a reading was applied before an older one

teamVars == <<members, team, teamReads, teamPosts, adding, editor, edits, mishaps, passed>>

TeamRoles == {"seller", "admin"}
Standing  == [role : TeamRoles, active : {"on", "off"}]
Rosters   == UNION {[P -> Standing] : P \in SUBSET Person}
Editors   == [who : Person, role : TeamRoles, confirming : {"nothing", "role", "active"},
              busy : 0..MaxEdits]
Posts     == [nr : 1..MaxEdits, who : Person, field : {"add", "role", "active"},
              to : TeamRoles \cup {"on", "off"},
              answer : {"none", "changed", "unchanged", "invalid"}]

\* null is nobody's roster or editor.
ASSUME NoPersonIsNull == NoPerson \notin Rosters \cup Editors

Mishap == mishaps < MaxMishaps /\ mishaps' = mishaps + 1
Unread == [list |-> NoPerson]
ReadAgain == teamReads' = Append(teamReads, Unread)

TeamInit ==
    /\ members \in Rosters /\ Me \in DOMAIN members
    /\ members[Me] = [role |-> "admin", active |-> "on"]
    /\ team = [status |-> "loading"] /\ teamReads = <<Unread>>
    /\ teamPosts = {} /\ adding = 0 /\ editor = NoPerson
    /\ edits = 0 /\ mishaps = 0 /\ passed = FALSE

----------------------------------------------------------------------------
\* readRoster, and the page that draws what is answered.
RosterServed(i) ==
    /\ teamReads[i].list = NoPerson
    /\ teamReads' = [teamReads EXCEPT ![i].list = members]
    /\ UNCHANGED <<members, team, teamPosts, adding, editor, edits, mishaps, passed>>

\* The page remembers whose editor is open; the editor itself is there while
\* that member is on the list, and keeps the role it has selected.
Fresh(p, list) == [who |-> p, role |-> list[p].role, confirming |-> "nothing", busy |-> 0]

Shown == editor # NoPerson /\ team.status = "ready" /\ editor.who \in DOMAIN team.list

EditorOn(list) ==
    IF editor = NoPerson \/ Shown THEN editor
    ELSE IF editor.who \in DOMAIN list THEN Fresh(editor.who, list) ELSE editor

RosterApplied(i) ==
    /\ teamReads[i].list # NoPerson
    /\ team' = [status |-> "ready", list |-> teamReads[i].list]
    /\ teamReads' = RemoveAt(teamReads, i)
    /\ passed' = (passed \/ i > 1)
    /\ editor' = EditorOn(teamReads[i].list)
    /\ UNCHANGED <<members, teamPosts, adding, edits, mishaps>>

\* The forms go with the list; whoever adds next fills in a new one.
RosterFailed(i) ==
    /\ Mishap
    /\ team' \in {[status |-> "error"], [status |-> "forbidden"]}
    /\ teamReads' = RemoveAt(teamReads, i)
    /\ adding' = 0
    /\ UNCHANGED <<members, teamPosts, editor, edits, passed>>

----------------------------------------------------------------------------
\* A POST on its way and its answer on the way back.
Sends(p, field, to) ==
    /\ edits < MaxEdits /\ edits' = edits + 1
    /\ teamPosts' = teamPosts \cup {[nr |-> edits + 1, who |-> p, field |-> field, to |-> to,
                             answer |-> "none"]}

AnswerWith(post, a) == teamPosts' = (teamPosts \ {post}) \cup {[post EXCEPT !.answer = a]}

\* createUser: an address that is on the team is refused with a sentence.
createUser(post) ==
    /\ post.field = "add" /\ post.answer = "none"
    /\ IF post.who \in DOMAIN members
       THEN AnswerWith(post, "invalid") /\ UNCHANGED members
       ELSE /\ AnswerWith(post, "changed")
            /\ members' = [p \in DOMAIN members \cup {post.who} |->
                    IF p = post.who THEN [role |-> post.to, active |-> "on"] ELSE members[p]]
    /\ UNCHANGED <<team, teamReads, adding, editor, edits, mishaps, passed>>

\* changeAccess: a change that is the case already, or that the database
\* refuses, is answered and writes nothing.
changeAccess(post) ==
    /\ post.field # "add" /\ post.answer = "none"
    /\ IF members[post.who][post.field] = post.to
       THEN AnswerWith(post, "unchanged") /\ UNCHANGED members
       ELSE \/ AnswerWith(post, "changed")
               /\ members' = [members EXCEPT ![post.who][post.field] = post.to]
            \/ AnswerWith(post, "invalid") /\ UNCHANGED members
    /\ UNCHANGED <<team, teamReads, adding, editor, edits, mishaps, passed>>

\* The form that sent it hears of it, if it is still there: what an editor sets
\* after it was replaced is lost, also on one reopened for the same member.
FormHears(post) ==
    /\ adding' = IF adding = post.nr THEN 0 ELSE adding
    /\ editor' = IF editor # NoPerson /\ editor.busy = post.nr
                 THEN [editor EXCEPT !.busy = 0,
                                     !.confirming = IF post.answer = "changed" THEN "nothing"
                                                    ELSE @]
                 ELSE editor

\* Wrong variant: only a form that is still there has the list read again.
PostAnsweredToItsForm(post) ==
    /\ post.answer # "none"
    /\ teamPosts' = teamPosts \ {post}
    /\ FormHears(post)
    /\ IF post.answer = "changed" /\ <<adding, editor>>' # <<adding, editor>>
       THEN ReadAgain ELSE UNCHANGED teamReads
    /\ UNCHANGED <<members, team, edits, mishaps, passed>>

\* onAdded and onDone read the list again, whether or not the form is there.
PostAnswered(post) ==
    /\ post.answer # "none"
    /\ teamPosts' = teamPosts \ {post}
    /\ FormHears(post)
    /\ IF post.answer = "changed" THEN ReadAgain ELSE UNCHANGED teamReads
    /\ UNCHANGED <<members, team, edits, mishaps, passed>>

PostLost(post) ==
    /\ Mishap
    /\ teamPosts' = teamPosts \ {post}
    /\ FormHears([post EXCEPT !.answer = "none"])
    /\ UNCHANGED <<members, team, teamReads, edits, passed>>

----------------------------------------------------------------------------
\* AddMember.
AddMember(p, r) ==
    /\ team.status = "ready" /\ adding = 0
    /\ Sends(p, "add", r) /\ adding' = edits + 1
    /\ UNCHANGED <<members, team, teamReads, editor, mishaps, passed>>

----------------------------------------------------------------------------
\* The editor.

\* "Change access" is there for every other member, whatever the open editor waits for.
ChangeAccess(p) ==
    /\ team.status = "ready" /\ p \in DOMAIN team.list
    /\ editor # NoPerson => editor.who # p
    /\ editor' = Fresh(p, team.list)
    /\ UNCHANGED <<members, team, teamReads, teamPosts, adding, edits, mishaps, passed>>

EditorFree == Shown /\ editor.busy = 0

EditorSays(e) ==
    /\ editor' = e
    /\ UNCHANGED <<members, team, teamReads, teamPosts, adding, edits, mishaps, passed>>

SelectRole(r) ==
    /\ EditorFree /\ editor.who # Me /\ editor.role # r
    /\ EditorSays([editor EXCEPT !.role = r])

\* Another role than the list's, or the member's access.
ReviewChange(kind) ==
    /\ EditorFree /\ editor.who # Me /\ editor.confirming = "nothing"
    /\ kind = "role" => editor.role # team.list[editor.who].role
    /\ EditorSays([editor EXCEPT !.confirming = kind])

GoBack ==
    /\ EditorFree /\ editor.confirming # "nothing"
    /\ EditorSays([editor EXCEPT !.confirming = "nothing"])

CloseEditor ==
    /\ EditorFree /\ editor.confirming = "nothing"
    /\ EditorSays(NoPerson)

\* "Yes, do it" sends the selected role, or the opposite of what the list says.
Confirmed ==
    /\ EditorFree /\ editor.confirming # "nothing"
    /\ Sends(editor.who, editor.confirming,
            IF editor.confirming = "role" THEN editor.role
            ELSE IF team.list[editor.who].active = "on" THEN "off" ELSE "on")
    /\ editor' = [editor EXCEPT !.busy = edits + 1]
    /\ UNCHANGED <<members, team, teamReads, adding, mishaps, passed>>

\* Another admin changes a role.
ChangedElsewhere(p) ==
    /\ Mishap
    /\ p \in DOMAIN members \ {Me}
    /\ \E r \in TeamRoles \ {members[p].role} : members' = [members EXCEPT ![p].role = r]
    /\ UNCHANGED <<team, teamReads, teamPosts, adding, editor, edits, passed>>

TeamNext ==
    \/ \E i \in DOMAIN teamReads : RosterServed(i) \/ RosterApplied(i) \/ RosterFailed(i)
    \/ \E post \in teamPosts :
            createUser(post) \/ changeAccess(post) \/ PostAnswered(post) \/ PostLost(post)
    \/ \E p \in Person, r \in TeamRoles : AddMember(p, r)
    \/ \E p \in Person : ChangeAccess(p) \/ ChangedElsewhere(p)
    \/ \E r \in TeamRoles : SelectRole(r)
    \/ \E kind \in {"role", "active"} : ReviewChange(kind)
    \/ GoBack \/ CloseEditor \/ Confirmed

TeamSpec == TeamInit /\ [][TeamNext]_teamVars

----------------------------------------------------------------------------
TeamTypeOK ==
    /\ members \in Rosters /\ Me \in DOMAIN members
    /\ team.status \in {"loading", "ready", "error", "forbidden"}
    /\ team.status = "ready" => team.list \in Rosters
    /\ teamReads \in Seq([list : Rosters \cup {NoPerson}])
    /\ teamPosts \subseteq Posts
    /\ \A post \in teamPosts : post.nr <= edits
    /\ adding \in 0..edits
    /\ editor \in Editors \cup {NoPerson}
    /\ editor # NoPerson => editor.busy <= edits /\ editor.who \in DOMAIN members
    /\ edits \in 0..MaxEdits /\ mishaps \in 0..MaxMishaps
    /\ passed \in BOOLEAN

\* At rest the list is the team: every member added and every change answered
\* is on it, also one whose editor was closed before its answer came, and however
\* many POSTs overlapped, unless something failed, another admin was at it or one
\* reading overtook another (ui/users-admin.tsx:87-89, 139, 158-167, 396).
RosterIsTheTeam ==
    (team.status = "ready" /\ teamReads = <<>> /\ teamPosts = {} /\ mishaps = 0 /\ ~passed)
        => team.list = members
=============================================================================
