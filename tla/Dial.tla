-------------------------------- MODULE Dial --------------------------------
(***************************************************************************)
(* The Call button of the contact drawer.  A press walks the server's checks *)
(* in order, each in a transaction of its own: capability, target, the       *)
(* compliance gate, the seller's number.  Between two checks the lead may    *)
(* text STOP, leave the caller's sight, or see the calling hours end.        *)
(***************************************************************************)
EXTENDS Naturals, Sequences, FiniteSets

CONSTANTS
    Prospect,           \* the contacts of the book
    NoPhone,        \* those without a number
    AllParty,       \* those whose state wants everyone's consent to a recording
    NoLead,
    MaxPresses,     \* bound: presses of Call
    MaxEvents       \* bound: changes of what the checks read, restarts and failures

ASSUME DialAssumption ==
    /\ NoPhone \subseteq Prospect /\ AllParty \subseteq Prospect /\ NoLead \notin Prospect
    /\ MaxPresses \in Nat /\ MaxEvents \in Nat

Channel == {"any", "call", "sms"}      \* "any": the NULL channel of suppression_list
Hours   == {"open", "closed", "unknown"}

VARIABLES
    registry,       \* capabilitiesReady: what the one read of this process gave
    capability,     \* what ref.capability holds of two_legged_call
    elsewhere,      \* the leads the caller may not see: another's, and the caller no admin
    suppression,    \* suppression_list, in the order of effective_at
    hours,          \* calling_window_check, for each lead
    override, guard, mapping,   \* break-glass live; recording guard tripped; number verified
    presses,        \* the requests to dial
    audit,          \* the compliance.gate_checked rows
    blocked,        \* the compliance.send_blocked events
    drawer, pressed,  \* the lead whose drawer is open; the press it shows, 0 for none
    happened

lawVars  == <<elsewhere, suppression, hours, override, guard, mapping>>
dialVars == <<registry, capability, lawVars, presses, audit, blocked, drawer, pressed, happened>>

Happens == happened < MaxEvents /\ happened' = happened + 1

\* A press the gate has not judged.
Unjudged(p) == presses[p].at \in {"capability", "target", "gate", "verdict"}

----------------------------------------------------------------------------
\* The row that speaks last of a call to c is not one that allows it again.
SpeaksOfCall(i, c) == suppression[i].lead = c /\ suppression[i].channel \in {"any", "call"}
Suppressed(c) ==
    \E i \in DOMAIN suppression :
        /\ SpeaksOfCall(i, c) /\ suppression[i].kind # "start"
        /\ \A j \in DOMAIN suppression : j > i => ~SpeaksOfCall(j, c)

\* Wrong variant: the clock is asked before the list.
compliance_clock_first(c) ==
    CASE c \in elsewhere -> "blocked_timezone_unknown"
      [] c \notin elsewhere /\ ~override /\ hours[c] # "open" ->
            IF hours[c] = "unknown" THEN "blocked_timezone_unknown" ELSE "blocked_calling_window"
      [] OTHER -> IF c \notin NoPhone /\ Suppressed(c) THEN "blocked_suppressed"
                  ELSE IF guard /\ c \in AllParty THEN "blocked_recording_unverified"
                  ELSE "allow"

\* compliance_check, for a call: the first refusal wins, and an override
\* releases the two about the clock only.
compliance_check(c) ==
    CASE c \in elsewhere -> "blocked_timezone_unknown"
      [] c \notin elsewhere /\ c \notin NoPhone /\ Suppressed(c) -> "blocked_suppressed"
      [] OTHER ->
          IF ~override /\ hours[c] = "unknown" THEN "blocked_timezone_unknown"
          ELSE IF ~override /\ hours[c] = "closed" THEN "blocked_calling_window"
          ELSE IF guard /\ c \in AllParty THEN "blocked_recording_unverified"
          ELSE "allow"

\* What dialFor answers: why the call was not made.
Refusals == {"blocked_suppressed", "blocked_timezone_unknown", "blocked_calling_window",
             "blocked_recording_unverified"}
DialOutcome == Refusals \cup {"no_capability", "not_found", "no_phone", "no_number",
                              "no_credentials", "degraded"}

----------------------------------------------------------------------------
DialInit ==
    /\ registry = "unread" /\ capability \in {"verified", "unknown"}
    /\ elsewhere = {} /\ suppression = <<>> /\ hours = [c \in Prospect |-> "open"]
    /\ override = FALSE /\ guard = FALSE /\ mapping = TRUE
    /\ presses = <<>> /\ audit = {} /\ blocked = {}
    /\ drawer = NoLead /\ pressed = 0 /\ happened = 0

OpenDrawer(c) ==
    /\ drawer = NoLead /\ drawer' = c /\ pressed' = 0
    /\ UNCHANGED <<registry, capability, lawVars, presses, audit, blocked, happened>>

\* Close, Escape, or a click beside the panel; a pending answer finds no one.
CloseDrawer ==
    /\ drawer # NoLead /\ drawer' = NoLead /\ pressed' = 0
    /\ UNCHANGED <<registry, capability, lawVars, presses, audit, blocked, happened>>

Pending == pressed # 0 /\ presses[pressed].at # "answered"

\* dial: the button is disabled while its answer is pending.  `barred` and `seen`
\* note that the lead was on the list, and in sight, from the press on.
Dials ==
    /\ drawer # NoLead /\ ~Pending /\ Len(presses) < MaxPresses
    /\ presses' = Append(presses, [lead |-> drawer, at |-> "capability", outcome |-> "none",
                                   owned |-> FALSE,
                                   barred |-> drawer \notin NoPhone /\ Suppressed(drawer),
                                   seen |-> drawer \notin elsewhere])
    /\ pressed' = Len(presses')
    /\ UNCHANGED <<registry, capability, lawVars, audit, blocked, drawer, happened>>

\* The notes of the presses the gate has yet to judge, after a change about c.
Noted(c) ==
    presses' = [p \in DOMAIN presses |->
                   IF Unjudged(p) /\ presses[p].lead = c
                   THEN [presses[p] EXCEPT !.barred = @ /\ Suppressed(c)',
                                           !.seen = @ /\ c \notin elsewhere']
                   ELSE presses[p]]

GoOn(p, check)   == presses' = [presses EXCEPT ![p].at = check]
AnswerPress(p, with) == presses' = [presses EXCEPT ![p].at = "answered", ![p].outcome = with]

\* ensureCapabilities reads the registry once and keeps what came of it.
CapabilityChecked(p) ==
    /\ presses[p].at = "capability"
    /\ registry' = IF registry = "unread" THEN capability ELSE registry
    /\ CASE registry' = "verified" -> GoOn(p, "target")
         [] registry' = "failed"   -> AnswerPress(p, "degraded")
         [] OTHER                  -> AnswerPress(p, "no_capability")
    /\ UNCHANGED <<capability, lawVars, audit, blocked, drawer, pressed, happened>>

\* ... a failure too: the rejected promise is never asked for again.
RegistryFails(p) ==
    /\ presses[p].at = "capability" /\ registry = "unread" /\ Happens
    /\ registry' = "failed" /\ AnswerPress(p, "degraded")
    /\ UNCHANGED <<capability, lawVars, audit, blocked, drawer, pressed>>

TargetResolved(p) ==
    /\ presses[p].at = "target"
    /\ LET c == presses[p].lead
       IN  IF c \in elsewhere THEN AnswerPress(p, "not_found")
           ELSE IF c \in NoPhone THEN AnswerPress(p, "no_phone")
           ELSE GoOn(p, "gate")
    /\ UNCHANGED <<registry, capability, lawVars, audit, blocked, drawer, pressed, happened>>

\* compliance_attempt, first statement: whose lead it is, for the event alone.
OwnerRead(p) ==
    /\ presses[p].at = "gate"
    /\ presses' = [presses EXCEPT ![p].at = "verdict",
                                  ![p].owned = presses[p].lead \notin elsewhere]
    /\ UNCHANGED <<registry, capability, lawVars, audit, blocked, drawer, pressed, happened>>

\* ... then the verdict, which looks for the lead again, and with it the audit
\* row and, for a refusal of a lead whose owner was read, the event.
GateAsked(p) ==
    /\ presses[p].at = "verdict"
    /\ LET verdict == compliance_check(presses[p].lead)
       IN  /\ audit' = audit \cup {[press |-> p, verdict |-> verdict]}
           /\ blocked' = IF verdict # "allow" /\ presses[p].owned
                         THEN blocked \cup {p} ELSE blocked
           /\ IF verdict = "allow" THEN GoOn(p, "mapping") ELSE AnswerPress(p, verdict)
    /\ UNCHANGED <<registry, capability, lawVars, drawer, pressed, happened>>

\* The number mapping; behind it the adapter that is not written.
MappingRead(p) ==
    /\ presses[p].at = "mapping"
    /\ AnswerPress(p, IF mapping THEN "no_credentials" ELSE "no_number")
    /\ UNCHANGED <<registry, capability, lawVars, audit, blocked, drawer, pressed, happened>>

\* A transaction fails, or the answer is lost: what was committed stays.
DialFails(p) ==
    /\ presses[p].at # "answered" /\ Happens
    /\ AnswerPress(p, "degraded")
    /\ UNCHANGED <<registry, capability, lawVars, audit, blocked, drawer, pressed>>

----------------------------------------------------------------------------
\* suppression_append: `older` says how many of the rows are effective after it.
suppression_append(c, kind, channel, older) ==
    /\ Happens /\ older <= Len(suppression)
    /\ LET at == Len(suppression) - older + 1
       IN  suppression' = [i \in 1..(Len(suppression) + 1) |->
                             IF i < at THEN suppression[i]
                             ELSE IF i > at THEN suppression[i - 1]
                             ELSE [lead |-> c, kind |-> kind, channel |-> channel]]
    /\ UNCHANGED <<registry, capability, elsewhere, hours, override, guard, mapping, audit,
                   blocked, drawer, pressed>>
    /\ Noted(c)

\* A lead goes out of the caller's sight, or comes back into it.
SightChanges(c) ==
    /\ Happens
    /\ elsewhere' = IF c \in elsewhere THEN elsewhere \ {c} ELSE elsewhere \cup {c}
    /\ UNCHANGED <<registry, capability, suppression, hours, override, guard, mapping, audit,
                   blocked, drawer, pressed>>
    /\ Noted(c)

\* The rest of what the checks read changes: hours, override, guard, number.
LawChanges ==
    /\ Happens
    /\ \/ \E c \in Prospect, h \in Hours : hours' = [hours EXCEPT ![c] = h]
          /\ UNCHANGED <<override, guard, mapping>>
       \/ override' = ~override /\ UNCHANGED <<hours, guard, mapping>>
       \/ guard' = ~guard /\ UNCHANGED <<hours, override, mapping>>
       \/ mapping' = ~mapping /\ UNCHANGED <<hours, override, guard>>
    /\ UNCHANGED <<registry, capability, elsewhere, suppression, presses, audit, blocked,
                   drawer, pressed>>

\* A deploy: the process forgets the registry, and every answer on its way is lost.
Deployed ==
    /\ Happens
    /\ registry' = "unread" /\ capability' \in {"verified", "unknown"}
    /\ presses' = [p \in DOMAIN presses |->
                      IF presses[p].at = "answered" THEN presses[p]
                      ELSE [presses[p] EXCEPT !.at = "answered", !.outcome = "degraded"]]
    /\ UNCHANGED <<lawVars, audit, blocked, drawer, pressed>>

DialNext ==
    \/ \E c \in Prospect : OpenDrawer(c)
    \/ CloseDrawer \/ Dials
    \/ \E p \in DOMAIN presses :
          \/ CapabilityChecked(p) \/ RegistryFails(p) \/ TargetResolved(p)
          \/ OwnerRead(p) \/ GateAsked(p) \/ MappingRead(p) \/ DialFails(p)
    \/ \E c \in Prospect, kind \in {"stop", "start", "dnc"}, channel \in Channel, older \in 0..1 :
          suppression_append(c, kind, channel, older)
    \/ \E c \in Prospect : SightChanges(c)
    \/ LawChanges \/ Deployed

DialSpec == DialInit /\ [][DialNext]_dialVars

----------------------------------------------------------------------------
\* Every variable holds what the code can store in it.
DialTypeOK ==
    /\ registry \in {"unread", "verified", "unknown", "failed"}
    /\ capability \in {"verified", "unknown"}
    /\ elsewhere \subseteq Prospect /\ hours \in [Prospect -> Hours]
    /\ override \in BOOLEAN /\ guard \in BOOLEAN /\ mapping \in BOOLEAN
    /\ suppression \in Seq([lead : Prospect, kind : {"stop", "start", "dnc"}, channel : Channel])
    /\ presses \in Seq([lead : Prospect,
                        at : {"capability", "target", "gate", "verdict", "mapping", "answered"},
                        outcome : DialOutcome \cup {"none"},
                        owned : BOOLEAN, barred : BOOLEAN, seen : BOOLEAN])
    /\ audit \subseteq [press : DOMAIN presses, verdict : Refusals \cup {"allow"}]
    /\ blocked \subseteq DOMAIN presses
    /\ drawer \in Prospect \cup {NoLead} /\ pressed \in 0..MaxPresses /\ happened \in 0..MaxEvents

\* "The legally binding refusal wins" (calls.ts:131-135): whoever is on the list
\* from the press until it is answered is never told to wait for calling hours,
\* for the recording guard, or to set a number up.  The list refuses, unless the
\* attempt ended before the gate, or the lead was out of the caller's sight;
\* and of a lead in sight all along the refusal is in the seller's timeline.
LegalRefusalWins ==
    \A p \in DOMAIN presses :
        presses[p].barred =>
            /\ presses[p].outcome \in {"none", "blocked_suppressed", "no_capability", "degraded",
                                      "not_found", "blocked_timezone_unknown"}
            /\ presses[p].seen =>
                  /\ presses[p].outcome \notin {"not_found", "blocked_timezone_unknown"}
                  /\ presses[p].outcome = "blocked_suppressed" => p \in blocked

\* Refuted: that such a press is told of no setting at all ("NONE of them ...
\* suggests a setting to change", contact-drawer.tsx:407-408; "The legally binding
\* refusal wins", calls.ts:130-133).  The capability is asked before the gate, and a
\* lead out of sight by then is one to add a ZIP to.
NoSettingToFix ==
    \A p \in DOMAIN presses :
        presses[p].barred =>
            presses[p].outcome \notin {"no_number", "no_credentials", "no_capability",
                                       "blocked_timezone_unknown"}

\* One audit row per attempt (0060:315-317): a seller is refused, or told of
\* what lies behind the gate, only by an attempt whose one row says so.
AnswerIsOnRecord ==
    \A p \in DOMAIN presses :
        LET rows == {r \in audit : r.press = p}
        IN  /\ Cardinality(rows) <= 1
            /\ presses[p].outcome \in Refusals =>
                  \E r \in rows : r.verdict = presses[p].outcome
            /\ presses[p].outcome \in {"no_number", "no_credentials"} =>
                  \E r \in rows : r.verdict = "allow"

\* Nobody is told more than the gate allows, and what they are told is on
\* record (calls.ts:131-135, 0060_compliance_emits.sql:315-317).
GateIsObeyed == LegalRefusalWins /\ AnswerIsOnRecord
=============================================================================
