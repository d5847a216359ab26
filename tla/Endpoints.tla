----------------------------- MODULE Endpoints -----------------------------
(***************************************************************************)
(* The ingest credentials of a tenant as one admin manages them from the      *)
(* integration-health page.  Every click asks the server and then reads the  *)
(* whole page again; readings are answered in any order, and a reading that  *)
(* fails takes the page, and a token that was on it, off the screen.         *)
(***************************************************************************)
EXTENDS Naturals, Sequences, SequencesExt

CONSTANTS
    Nobody,         \* no request, no token
    MaxIssued,      \* bounds: credentials issued, clicks, things that fail
    MaxClicks,
    MaxTroubles

ASSUME EndpointsAssumption == Nobody \notin Nat /\ {MaxIssued, MaxClicks, MaxTroubles} \subseteq Nat

VARIABLES
    endpoints,      \* the server's: each credential issued, and whether it is live
    health,         \* the page: its status and the credentials it lists
    healthReads,    \* readings under way, in the order they were sent
    token,          \* the credential whose token is on the screen
    confirming,     \* the credential the admin is asked about
    click,          \* the POST under way; Endpoints is busy while there is one
    clicks, troubles,
    overtaken       \* history: a reading was applied before an older one

Lists  == Seq(BOOLEAN)
Clicks == [intent : {"issue", "revoke"}, endpoint : Nat \cup {Nobody}, mounted : BOOLEAN,
           answer : {"none", "issued", "invalid", "revoked", "not_found"}]

\* null is neither a list nor a click.
ASSUME NobodyIsNull == Nobody \notin Lists \cup Clicks

endpointsVars == <<endpoints, health, healthReads, token, confirming, click, clicks,
                   troubles, overtaken>>

Trouble == troubles < MaxTroubles /\ troubles' = troubles + 1

\* webhook_endpoint_list, as the page keeps it.
Snapshot == endpoints

\* A reading that has not been served yet, and one more of them.
Unserved == [list |-> Nobody]
AskAgain == healthReads' = Append(healthReads, Unserved)

EndpointsInit ==
    /\ endpoints = <<>>
    /\ health = [status |-> "loading"]
    /\ healthReads = <<Unserved>>
    /\ token = Nobody /\ confirming = Nobody /\ click = Nobody
    /\ clicks = 0 /\ troubles = 0
    /\ overtaken = FALSE

----------------------------------------------------------------------------
\* readIntegrationHealth: one transaction, then the way back.
HealthServed(i) ==
    /\ healthReads[i].list = Nobody
    /\ healthReads' = [healthReads EXCEPT ![i].list = Snapshot]
    /\ UNCHANGED <<endpoints, health, token, confirming, click, clicks, troubles, overtaken>>

\* The page draws whatever is answered last.
HealthApplied(i) ==
    /\ healthReads[i].list # Nobody
    /\ health' = [status |-> "ready", list |-> healthReads[i].list]
    /\ healthReads' = RemoveAt(healthReads, i)
    /\ overtaken' = (overtaken \/ i > 1)
    /\ UNCHANGED <<endpoints, token, confirming, click, clicks, troubles>>

\* An error or a 403 replaces the page; Endpoints goes with its state, and the
\* click that is under way finds nothing to tell.
HealthFailed(i) ==
    /\ Trouble
    /\ health' \in {[status |-> "error"], [status |-> "forbidden"]}
    /\ healthReads' = RemoveAt(healthReads, i)
    /\ token' = Nobody /\ confirming' = Nobody
    /\ click' = IF click = Nobody THEN Nobody ELSE [click EXCEPT !.mounted = FALSE]
    /\ UNCHANGED <<endpoints, clicks, overtaken>>

----------------------------------------------------------------------------
\* Endpoints.

Idle == health.status = "ready" /\ click = Nobody

\* The confirmation belongs to one row, and a row that is off has no button.
Confirm(e) ==
    /\ Idle /\ confirming # e
    /\ e \in DOMAIN health.list /\ health.list[e]
    /\ confirming' = e
    /\ UNCHANGED <<endpoints, health, healthReads, token, click, clicks, troubles, overtaken>>

Click(intent, e) ==
    /\ clicks < MaxClicks /\ clicks' = clicks + 1
    /\ click' = [intent |-> intent, endpoint |-> e, answer |-> "none", mounted |-> TRUE]
    /\ UNCHANGED <<endpoints, health, healthReads, token, confirming, troubles, overtaken>>

issue  == Idle /\ Len(endpoints) < MaxIssued /\ Click("issue", Nobody)
revoke == /\ Idle /\ confirming \in DOMAIN health.list /\ health.list[confirming]
          /\ Click("revoke", confirming)

\* issueWebhookEndpoint: every issue is a credential of its own; a label the
\* database refuses is an answer.
issueWebhookEndpoint ==
    /\ click # Nobody /\ click.intent = "issue" /\ click.answer = "none"
    /\ \/ /\ endpoints' = Append(endpoints, TRUE)
          /\ click' = [click EXCEPT !.answer = "issued", !.endpoint = Len(endpoints) + 1]
          /\ UNCHANGED troubles
       \/ /\ Trouble /\ UNCHANGED endpoints
          /\ click' = [click EXCEPT !.answer = "invalid"]
    /\ UNCHANGED <<health, healthReads, token, confirming, clicks, overtaken>>

\* revokeWebhookEndpoint: one that is off already is not found.
revokeWebhookEndpoint ==
    /\ click # Nobody /\ click.intent = "revoke" /\ click.answer = "none"
    /\ endpoints' = [endpoints EXCEPT ![click.endpoint] = FALSE]
    /\ click' = [click EXCEPT !.answer =
            IF endpoints[click.endpoint] THEN "revoked" ELSE "not_found"]
    /\ UNCHANGED <<health, healthReads, token, confirming, clicks, troubles, overtaken>>

\* Another admin.
RevokedElsewhere(e) ==
    /\ Trouble
    /\ e \in DOMAIN endpoints /\ endpoints[e]
    /\ endpoints' = [endpoints EXCEPT ![e] = FALSE]
    /\ UNCHANGED <<health, healthReads, token, confirming, click, clicks, overtaken>>

\* The answer: the token is shown once, the confirmation is over, and the page
\* is read again, also for a credential that was gone already.
ClickAnswered ==
    /\ click # Nobody /\ click.answer # "none"
    /\ click' = Nobody
    /\ token' = IF click.mounted /\ click.answer = "issued" THEN click.endpoint ELSE token
    /\ confirming' = IF click.mounted /\ click.intent = "revoke" THEN Nobody ELSE confirming
    /\ IF click.answer = "invalid" THEN UNCHANGED healthReads ELSE AskAgain
    /\ UNCHANGED <<endpoints, health, clicks, troubles, overtaken>>

\* The answer is lost before or after the server acted: only a message.
ClickLost ==
    /\ click # Nobody
    /\ Trouble
    /\ click' = Nobody
    /\ UNCHANGED <<endpoints, health, healthReads, token, confirming, clicks, overtaken>>

\* "I've saved it".
TokenSaved ==
    /\ token # Nobody /\ token' = Nobody
    /\ UNCHANGED <<endpoints, health, healthReads, confirming, click, clicks, troubles, overtaken>>

EndpointsNext ==
    \/ \E i \in DOMAIN healthReads : HealthServed(i) \/ HealthApplied(i) \/ HealthFailed(i)
    \/ \E e \in 1..MaxIssued : Confirm(e) \/ RevokedElsewhere(e)
    \/ issue \/ revoke \/ issueWebhookEndpoint \/ revokeWebhookEndpoint
    \/ ClickAnswered \/ ClickLost \/ TokenSaved

EndpointsSpec == EndpointsInit /\ [][EndpointsNext]_endpointsVars

----------------------------------------------------------------------------
EndpointsTypeOK ==
    /\ endpoints \in Lists /\ Len(endpoints) <= MaxIssued
    /\ health.status \in {"loading", "ready", "error", "forbidden"}
    /\ health.status = "ready" => health.list \in Lists
    /\ healthReads \in Seq([list : Lists \cup {Nobody}])
    /\ token \in DOMAIN endpoints \cup {Nobody}
    /\ confirming \in DOMAIN endpoints \cup {Nobody}
    /\ click \in Clicks \cup {Nobody}
    /\ clicks \in 0..MaxClicks /\ troubles \in 0..MaxTroubles
    /\ overtaken \in BOOLEAN

AtRest == health.status = "ready" /\ healthReads = <<>> /\ click = Nobody

\* The credential list cannot be left showing what was true before the admin's
\* click: at rest it is the server's, unless something failed, another admin
\* was at it or one reading overtook another
\* (ui/integration-health.tsx:77-82).
ListFollowsTheClick ==
    (AtRest /\ troubles = 0 /\ ~overtaken) => health.list = Snapshot

\* The same however the readings come in.
ListFollowsEveryClick == (AtRest /\ troubles = 0) => health.list = Snapshot

\* "You won't be able to see it again" (ui/integration-health.tsx:335-350): a
\* token leaves the screen only because the admin says it is saved, or because
\* the next one takes its place.
TokenStaysUntilSaved ==
    [][token # Nobody /\ token' = Nobody => health' = health]_endpointsVars
=============================================================================
