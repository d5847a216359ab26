----------------------------- MODULE Application -----------------------------
(***************************************************************************)
(* The application beside the outbox, the ledger, the reminders and the      *)
(* board's data: the screens of a browser tab, and what a web process does   *)
(* when it starts, for the provider's webhooks, for a dial and about its own *)
(* event loop.  No step of one part reads what another one keeps, so every   *)
(* behaviour of several is one of each, and one part moves here.             *)
(***************************************************************************)
EXTENDS Columns, FreshClock, Lead, Search, Record, MyDay, Standing, Checklist,
        Correction, Endpoints, Team, Session, Boot, Ingest, Dial, Saturation

VARIABLE part

Screens  == {"columns", "clock", "signals", "search", "contact", "my day",
             "leaderboard", "home", "earnings admin", "integration health", "users"}
Services == {"session", "boot", "ingest", "dial", "loop"}

applicationVars == <<part, columnsVars, freshVars, leadVars, searchVars, recordVars,
                     myDayVars, standingVars, checklistVars, correctionVars,
                     endpointsVars, teamVars, sessionVars, bootVars, ingestVars, dialVars,
                     satVars>>

\* A part that does not move starts in one of its states.
ApplicationInit ==
    /\ part \in Screens \cup Services
    /\ ColumnsInit /\ FreshClockInit /\ LeadInit /\ SearchInit /\ RecordInit /\
       MyDayInit /\ StandingInit /\ ChecklistInit /\ CorrectionInit /\
       EndpointsInit /\ TeamInit /\ SessionInit /\ BootInit /\ IngestInit /\ DialInit /\
       SaturationInit
    /\ part # "boot" => /\ wrong = {}
                        /\ laneOf = [q \in Queues |-> COMPLIANCE_LANE]
                        /\ environment = CHOOSE env \in Environments : TRUE
    /\ part # "session" => \A u \in Login : seat[u].role = "seller"
    /\ part # "dial" => capability = "verified"
    /\ part # "users" => DOMAIN members = {Me}
    /\ \A p \in DOMAIN members \ {Me} : members[p] = [role |-> "seller", active |-> "on"]
    /\ part # "columns" => laid = CHOOSE layout \in Layouts : TRUE

----------------------------------------------------------------------------
\* What the parts that do not move keep.
NoBoard  == UNCHANGED <<columnsVars, freshVars, leadVars>>
NoPage   == UNCHANGED <<searchVars, recordVars, myDayVars, standingVars, checklistVars>>
NoAdmin  == UNCHANGED <<correctionVars, endpointsVars, teamVars>>
NoServer == UNCHANGED <<sessionVars, bootVars, ingestVars, dialVars, satVars>>

\* The screens of a tab.
BoardColumns ==
    /\ part = "columns" /\ ColumnsNext
    /\ UNCHANGED <<part, freshVars, leadVars>>
    /\ NoPage /\ NoAdmin /\ NoServer

BoardClock ==
    /\ part = "clock" /\ FreshClockNext
    /\ UNCHANGED <<part, columnsVars, leadVars>>
    /\ NoPage /\ NoAdmin /\ NoServer

BoardSignals ==
    /\ part = "signals" /\ LeadNext
    /\ UNCHANGED <<part, columnsVars, freshVars>>
    /\ NoPage /\ NoAdmin /\ NoServer

SearchOverlay ==
    /\ part = "search" /\ SearchNext
    /\ UNCHANGED <<part, recordVars, myDayVars, standingVars, checklistVars>>
    /\ NoBoard /\ NoAdmin /\ NoServer

ContactRecord ==
    /\ part = "contact" /\ RecordNext
    /\ UNCHANGED <<part, searchVars, myDayVars, standingVars, checklistVars>>
    /\ NoBoard /\ NoAdmin /\ NoServer

MyDayScreen ==
    /\ part = "my day" /\ MyDayNext
    /\ UNCHANGED <<part, searchVars, recordVars, standingVars, checklistVars>>
    /\ NoBoard /\ NoAdmin /\ NoServer

LeaderboardScreen ==
    /\ part = "leaderboard" /\ StandingNext
    /\ UNCHANGED <<part, searchVars, recordVars, myDayVars, checklistVars>>
    /\ NoBoard /\ NoAdmin /\ NoServer

HomeScreen ==
    /\ part = "home" /\ ChecklistNext
    /\ UNCHANGED <<part, searchVars, recordVars, myDayVars, standingVars>>
    /\ NoBoard /\ NoAdmin /\ NoServer

EarningsAdmin ==
    /\ part = "earnings admin" /\ CorrectionNext
    /\ UNCHANGED <<part, endpointsVars, teamVars>>
    /\ NoBoard /\ NoPage /\ NoServer

IntegrationHealth ==
    /\ part = "integration health" /\ EndpointsNext
    /\ UNCHANGED <<part, correctionVars, teamVars>>
    /\ NoBoard /\ NoPage /\ NoServer

UsersAdmin ==
    /\ part = "users" /\ TeamNext
    /\ UNCHANGED <<part, correctionVars, endpointsVars>>
    /\ NoBoard /\ NoPage /\ NoServer

\* The services of a process.
Requests ==
    /\ part = "session" /\ SessionNext
    /\ UNCHANGED <<part, bootVars, ingestVars, dialVars, satVars>>
    /\ NoBoard /\ NoPage /\ NoAdmin

ComingUp ==
    /\ part = "boot" /\ BootNext
    /\ UNCHANGED <<part, sessionVars, ingestVars, dialVars, satVars>>
    /\ NoBoard /\ NoPage /\ NoAdmin

Webhooks ==
    /\ part = "ingest" /\ IngestNext
    /\ UNCHANGED <<part, sessionVars, bootVars, dialVars, satVars>>
    /\ NoBoard /\ NoPage /\ NoAdmin

Calls ==
    /\ part = "dial" /\ DialNext
    /\ UNCHANGED <<part, sessionVars, bootVars, ingestVars, satVars>>
    /\ NoBoard /\ NoPage /\ NoAdmin

LoopWatch ==
    /\ part = "loop" /\ SaturationNext
    /\ UNCHANGED <<part, sessionVars, bootVars, ingestVars, dialVars>>
    /\ NoBoard /\ NoPage /\ NoAdmin

ApplicationNext ==
    \/ BoardColumns \/ BoardClock \/ BoardSignals \/ SearchOverlay \/
       ContactRecord \/ MyDayScreen \/ LeaderboardScreen \/ HomeScreen \/
       EarningsAdmin \/ IntegrationHealth \/ UsersAdmin \/ Requests \/ ComingUp \/
       Webhooks \/ Calls \/ LoopWatch

ApplicationSpec == ApplicationInit /\ [][ApplicationNext]_applicationVars

----------------------------------------------------------------------------
\* Every variable of every part holds what the code can store in it.
ApplicationTypeOK ==
    /\ part \in Screens \cup Services
    /\ ColumnsTypeOK /\ FreshClockTypeOK /\ LeadTypeOK /\ SearchTypeOK /\
       RecordTypeOK /\ MyDayTypeOK /\ StandingTypeOK /\ ChecklistTypeOK /\
       CorrectionTypeOK /\ EndpointsTypeOK /\ TeamTypeOK /\ SessionTypeOK /\
       BootTypeOK /\ IngestTypeOK /\ DialTypeOK /\ SaturationTypeOK

\* What is submitted twice is done once: a lead saved again and again is one
\* contact, and a correction sent again after lost answers is one entry of the
\* amount it was answered for (quick-add.ts:19-30, ui/earnings-admin.tsx:198-201).
SubmittedOnce == OneLeadPerPhone /\ CorrectedOnce

\* An answer is drawn only where its question stands: rows of what is in the
\* search box, lines of the contact whose name is above them, none skipped
\* (search-overlay.tsx:35-45, ui/contact.tsx:151-155).
AnswerOfTheQuestion == RowsMatchTheBox /\ HistoryIsOfTheRecord

\* What was done is seen: at rest a contact's page, the credentials and the
\* team are the server's, after whatever was clicked on them
\* (ui/contact.tsx:42-45, ui/integration-health.tsx:77-82, ui/users-admin.tsx:87-89).
AnswersAreShown == PageIsTheUrls /\ ListFollowsTheClick /\ RosterIsTheTeam

\* Two things drawn from one reading agree: the lists of a day, the sentence
\* and the ranking, the rail and the chip (api/my-day.ts:32,
\* api/leaderboard.ts:124-157, card-health.ts:140-141).
OneReadingAgrees == ShownOnce /\ GapIsTheDistance /\ RailAndChipAgree

\* A process that serves is one whose database was checked, it drains the
\* outbox once, and it tells of its own event loop what is true, once, and
\* whenever it is due (pool.ts:72-191, boot.ts:20-31, saturation.ts:83-131).
ProcessIsWatched == SettledMeansSafe /\ OneDrain /\ AlertIsSustained /\ SaturationIsTold

\* What the provider told is kept, once, and none of it is taken back by what
\* it tells later or told before (0050_message_merge.sql:253-414,
\* 0049_dead_letter_and_alerts.sql:343-428).
DeliveriesKept == AcceptedIsKept /\ NothingIsForgotten
=============================================================================
