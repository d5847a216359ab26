-------------------------- MODULE ApplicationProof --------------------------
(***************************************************************************)
(* The composition of Application is faithful to its parts: each of them runs *)
(* as its own specification says, so what is proved of a part alone holds in *)
(* the composition, for every value of all the constants.                    *)
(***************************************************************************)
EXTENDS Application, ScreensProof, ServicesProof

----------------------------------------------------------------------------
\* A step of the application is a step of each part of the board, or leaves what
\* that part keeps alone.
LEMMA BoardStep ==
    [ApplicationNext]_applicationVars =>
        /\ [ColumnsNext]_columnsVars
        /\ [FreshClockNext]_freshVars
        /\ [LeadNext]_leadVars
  <1> SUFFICES ASSUME [ApplicationNext]_applicationVars
               PROVE  /\ [ColumnsNext]_columnsVars
                      /\ [FreshClockNext]_freshVars
                      /\ [LeadNext]_leadVars
    OBVIOUS
  <1>1. CASE BoardColumns
    BY <1>1 DEF BoardColumns
  <1>2. CASE BoardClock
    BY <1>2 DEF BoardClock
  <1>3. CASE BoardSignals
    BY <1>3 DEF BoardSignals
  <1>4. CASE SearchOverlay \/ ContactRecord \/ MyDayScreen \/ LeaderboardScreen \/
             HomeScreen \/ EarningsAdmin \/ IntegrationHealth \/ UsersAdmin \/
             Requests \/ ComingUp \/ Webhooks \/ Calls \/ LoopWatch
    BY <1>4 DEF SearchOverlay, ContactRecord, MyDayScreen, LeaderboardScreen,
                HomeScreen, EarningsAdmin, IntegrationHealth, UsersAdmin, Requests,
                ComingUp, Webhooks, Calls, LoopWatch, NoBoard
  <1>5. CASE UNCHANGED applicationVars
    BY <1>5 DEF applicationVars
  <1> QED
    BY <1>1, <1>2, <1>3, <1>4, <1>5 DEF ApplicationNext

\* A step of the application is a step of each page, or leaves what that
\* page keeps alone.
LEMMA PageStep ==
    [ApplicationNext]_applicationVars =>
        /\ [SearchNext]_searchVars
        /\ [RecordNext]_recordVars
        /\ [MyDayNext]_myDayVars
        /\ [StandingNext]_standingVars
        /\ [ChecklistNext]_checklistVars
  <1> SUFFICES ASSUME [ApplicationNext]_applicationVars
               PROVE  /\ [SearchNext]_searchVars
                      /\ [RecordNext]_recordVars
                      /\ [MyDayNext]_myDayVars
                      /\ [StandingNext]_standingVars
                      /\ [ChecklistNext]_checklistVars
    OBVIOUS
  <1>1. CASE SearchOverlay
    BY <1>1 DEF SearchOverlay
  <1>2. CASE ContactRecord
    BY <1>2 DEF ContactRecord
  <1>3. CASE MyDayScreen
    BY <1>3 DEF MyDayScreen
  <1>4. CASE LeaderboardScreen
    BY <1>4 DEF LeaderboardScreen
  <1>5. CASE HomeScreen
    BY <1>5 DEF HomeScreen
  <1>6. CASE BoardColumns \/ BoardClock \/ BoardSignals \/ EarningsAdmin \/
             IntegrationHealth \/ UsersAdmin \/ Requests \/ ComingUp \/ Webhooks \/
             Calls \/ LoopWatch
    BY <1>6 DEF BoardColumns, BoardClock, BoardSignals, EarningsAdmin,
                IntegrationHealth, UsersAdmin, Requests, ComingUp, Webhooks, Calls,
                LoopWatch, NoPage
  <1>7. CASE UNCHANGED applicationVars
    BY <1>7 DEF applicationVars
  <1> QED
    BY <1>1, <1>2, <1>3, <1>4, <1>5, <1>6, <1>7 DEF ApplicationNext

\* A step of the application is a step of each administrator's screen, or leaves what that
\* screen keeps alone.
LEMMA AdminStep ==
    [ApplicationNext]_applicationVars =>
        /\ [CorrectionNext]_correctionVars
        /\ [EndpointsNext]_endpointsVars
        /\ [TeamNext]_teamVars
  <1> SUFFICES ASSUME [ApplicationNext]_applicationVars
               PROVE  /\ [CorrectionNext]_correctionVars
                      /\ [EndpointsNext]_endpointsVars
                      /\ [TeamNext]_teamVars
    OBVIOUS
  <1>1. CASE EarningsAdmin
    BY <1>1 DEF EarningsAdmin
  <1>2. CASE IntegrationHealth
    BY <1>2 DEF IntegrationHealth
  <1>3. CASE UsersAdmin
    BY <1>3 DEF UsersAdmin
  <1>4. CASE BoardColumns \/ BoardClock \/ BoardSignals \/ SearchOverlay \/
             ContactRecord \/ MyDayScreen \/ LeaderboardScreen \/ HomeScreen \/
             Requests \/ ComingUp \/ Webhooks \/ Calls \/ LoopWatch
    BY <1>4 DEF BoardColumns, BoardClock, BoardSignals, SearchOverlay, ContactRecord,
                MyDayScreen, LeaderboardScreen, HomeScreen, Requests, ComingUp,
                Webhooks, Calls, LoopWatch, NoAdmin
  <1>5. CASE UNCHANGED applicationVars
    BY <1>5 DEF applicationVars
  <1> QED
    BY <1>1, <1>2, <1>3, <1>4, <1>5 DEF ApplicationNext

\* A step of the application is a step of each service, or leaves what that
\* service keeps alone.
LEMMA ServiceStep ==
    [ApplicationNext]_applicationVars =>
        /\ [SessionNext]_sessionVars
        /\ [BootNext]_bootVars
        /\ [IngestNext]_ingestVars
        /\ [DialNext]_dialVars
        /\ [SaturationNext]_satVars
  <1> SUFFICES ASSUME [ApplicationNext]_applicationVars
               PROVE  /\ [SessionNext]_sessionVars
                      /\ [BootNext]_bootVars
                      /\ [IngestNext]_ingestVars
                      /\ [DialNext]_dialVars
                      /\ [SaturationNext]_satVars
    OBVIOUS
  <1>1. CASE Requests
    BY <1>1 DEF Requests
  <1>2. CASE ComingUp
    BY <1>2 DEF ComingUp
  <1>3. CASE Webhooks
    BY <1>3 DEF Webhooks
  <1>4. CASE Calls
    BY <1>4 DEF Calls
  <1>5. CASE LoopWatch
    BY <1>5 DEF LoopWatch
  <1>6. CASE BoardColumns \/ BoardClock \/ BoardSignals \/ SearchOverlay \/
             ContactRecord \/ MyDayScreen \/ LeaderboardScreen \/ HomeScreen \/
             EarningsAdmin \/ IntegrationHealth \/ UsersAdmin
    BY <1>6 DEF BoardColumns, BoardClock, BoardSignals, SearchOverlay, ContactRecord,
                MyDayScreen, LeaderboardScreen, HomeScreen, EarningsAdmin,
                IntegrationHealth, UsersAdmin, NoServer
  <1>7. CASE UNCHANGED applicationVars
    BY <1>7 DEF applicationVars
  <1> QED
    BY <1>1, <1>2, <1>3, <1>4, <1>5, <1>6, <1>7 DEF ApplicationNext

\* The application runs every part as that part's own specification has it: the
\* composition adds no step, and takes none of their conditions away.
THEOREM EachPartIsItself ==
    ApplicationSpec => /\ ColumnsSpec
                       /\ FreshClockSpec
                       /\ LeadSpec
                       /\ SearchSpec
                       /\ RecordSpec
                       /\ MyDaySpec
                       /\ StandingSpec
                       /\ ChecklistSpec
                       /\ CorrectionSpec
                       /\ EndpointsSpec
                       /\ TeamSpec
                       /\ SessionSpec
                       /\ BootSpec
                       /\ IngestSpec
                       /\ DialSpec
                       /\ SaturationSpec
  <1>1. ApplicationInit => /\ ColumnsInit
                           /\ FreshClockInit
                           /\ LeadInit
                           /\ SearchInit
                           /\ RecordInit
                           /\ MyDayInit
                           /\ StandingInit
                           /\ ChecklistInit
                           /\ CorrectionInit
                           /\ EndpointsInit
                           /\ TeamInit
                           /\ SessionInit
                           /\ BootInit
                           /\ IngestInit
                           /\ DialInit
                           /\ SaturationInit
    BY DEF ApplicationInit
  <1> QED
    BY <1>1, BoardStep, PageStep, AdminStep, ServiceStep, PTL
    DEF ApplicationSpec, ColumnsSpec, FreshClockSpec, LeadSpec, SearchSpec, RecordSpec,
        MyDaySpec, StandingSpec, ChecklistSpec, CorrectionSpec, EndpointsSpec, TeamSpec,
        SessionSpec, BootSpec, IngestSpec, DialSpec, SaturationSpec

\* What is submitted twice is done once: a lead saved again and again is one
\* contact, and a correction sent again after lost answers one entry of the
\* ledger (quick-add.ts:19-30, ui/earnings-admin.tsx:198-201).
THEOREM WhatIsSentTwice == ApplicationSpec => []SubmittedOnce
  <1>1. OneLeadPerPhone /\ CorrectedOnce => SubmittedOnce
    BY DEF SubmittedOnce
  <1> QED
    BY <1>1, EachPartIsItself, OneLeadHoweverOften, OneEntryHoweverOften, PTL

\* A process that serves had its database checked, drains the outbox once, and
\* tells of its own loop what is true and whenever it is due (pool.ts:72-191,
\* boot.ts:20-31, saturation.ts:83-131).
THEOREM AProcessIsWatched == ApplicationSpec => []ProcessIsWatched
  <1>1. (SettledMeansSafe /\ OneDrain) /\ (AlertIsSustained /\ SaturationIsTold) => ProcessIsWatched
    BY DEF ProcessIsWatched
  <1> QED
    BY <1>1, EachPartIsItself, AProcessIsChecked, SaturationIsSaidTrue, PTL

\* What the provider told is kept, once, and nothing it told before or tells
\* later takes it back (0050_message_merge.sql:253-414,
\* 0049_dead_letter_and_alerts.sql:343-428).
THEOREM DeliveriesAreKept == ApplicationSpec => []DeliveriesKept
  <1>1. AcceptedIsKept /\ NothingIsForgotten => DeliveriesKept
    BY DEF DeliveriesKept
  <1> QED
    BY <1>1, EachPartIsItself, NoDeliveryIsLost, PTL

\* Rows are drawn under the words they were searched by, lines under the name
\* they are about, none skipped (search-overlay.tsx:35-45, ui/contact.tsx:151-155).
THEOREM DrawnWhereAsked == ApplicationSpec => []AnswerOfTheQuestion
  <1>1. RowsMatchTheBox /\ (RecordTypeOK /\ PageIsTheUrls /\ HistoryIsOfTheRecord) => AnswerOfTheQuestion
    BY DEF AnswerOfTheQuestion
  <1> QED
    BY <1>1, EachPartIsItself, RowsAreOfTheBox, ThePageIsTheContacts, PTL

\* At rest a contact's page, the credentials and the team are the server's,
\* after whatever was clicked on them, answered, refused or lost
\* (ui/contact.tsx:42-45, ui/integration-health.tsx:77-82, ui/users-admin.tsx:87-89).
THEOREM WhatWasDoneIsSeen == ApplicationSpec => []AnswersAreShown
  <1>1. /\ RecordTypeOK /\ PageIsTheUrls /\ HistoryIsOfTheRecord
        /\ EndpointsTypeOK /\ ListFollowsTheClick
        /\ TeamTypeOK /\ RosterIsTheTeam
        => AnswersAreShown
    BY DEF AnswersAreShown
  <1> QED
    BY <1>1, EachPartIsItself, ThePageIsTheContacts, TheListIsTheServers, TheListIsTheTeam, PTL

\* The lists of a day have a thing once, the sentence of where a seller stands
\* says the distance it says, and a lead's rail and chip are of one reading
\* (api/my-day.ts:32, api/leaderboard.ts:124-157, card-health.ts:140-141).
THEOREM DrawnFromOneReading == ApplicationSpec => []OneReadingAgrees
  <1>1. /\ MyDayTypeOK /\ ShownOnce
        /\ GapIsTheDistance
        /\ LeadTypeOK /\ RailAndChipAgree
        => OneReadingAgrees
    BY DEF OneReadingAgrees
  <1> QED
    BY <1>1, EachPartIsItself, ADayIsShownOnce, TheGapIsTrue, RailAndChipAreOne, PTL

\* Every variable of every part holds what the code can store in it, and the
\* part that moves is one of them.
THEOREM ApplicationTypeCorrect == ApplicationSpec => []ApplicationTypeOK
  <1>1. ApplicationInit => part \in Screens \cup Services
    BY DEF ApplicationInit
  <1>2. part \in Screens \cup Services /\ [ApplicationNext]_applicationVars
            => (part \in Screens \cup Services)'
    <2> SUFFICES ASSUME [ApplicationNext]_applicationVars PROVE part' = part
      OBVIOUS
    <2>1. CASE BoardColumns \/ BoardClock \/ BoardSignals \/ SearchOverlay \/ ContactRecord \/
               MyDayScreen \/ LeaderboardScreen \/ HomeScreen
      BY <2>1 DEF BoardColumns, BoardClock, BoardSignals, SearchOverlay, ContactRecord,
                  MyDayScreen, LeaderboardScreen, HomeScreen
    <2>2. CASE EarningsAdmin \/ IntegrationHealth \/ UsersAdmin \/ Requests \/ ComingUp \/
               Webhooks \/ Calls \/ LoopWatch
      BY <2>2 DEF EarningsAdmin, IntegrationHealth, UsersAdmin, Requests, ComingUp, Webhooks,
                  Calls, LoopWatch
    <2>3. CASE UNCHANGED applicationVars
      BY <2>3 DEF applicationVars
    <2> QED
      BY <2>1, <2>2, <2>3 DEF ApplicationNext
  <1>3. ApplicationSpec => [](part \in Screens \cup Services)
    BY <1>1, <1>2, PTL DEF ApplicationSpec
  <1>4. ApplicationSpec => /\ [](ColumnsTypeOK /\ ViewportCovered) /\ []FreshClockTypeOK
                           /\ [](LeadTypeOK /\ RailAndChipAgree)
    BY EachPartIsItself, NoCardIsMissed, ClockTypeCorrect, RailAndChipAreOne, PTL
  <1>5. ApplicationSpec => /\ [](SearchTypeOK /\ RowsMatchTheBox)
                           /\ [](RecordTypeOK /\ PageIsTheUrls /\ HistoryIsOfTheRecord)
                           /\ [](MyDayTypeOK /\ ShownOnce) /\ []StandingTypeOK /\ []ChecklistTypeOK
    BY EachPartIsItself, RowsAreOfTheBox, ThePageIsTheContacts, ADayIsShownOnce,
       StandingTypeCorrect, ChecklistTypeCorrect, PTL
  <1>6. ApplicationSpec => /\ []CorrectionTypeOK /\ [](EndpointsTypeOK /\ ListFollowsTheClick)
                           /\ [](TeamTypeOK /\ RosterIsTheTeam)
    BY EachPartIsItself, CorrectionTypeCorrect, TheListIsTheServers, TheListIsTheTeam, PTL
  <1>7. ApplicationSpec => /\ []SessionTypeOK /\ []BootTypeOK /\ []IngestTypeOK /\ []DialTypeOK
                           /\ []SaturationTypeOK
    BY EachPartIsItself, SessionTypeCorrect, BootTypeCorrect, IngestTypeCorrect, DialTypeCorrect,
       SaturationTypeCorrect, PTL
  <1>8. /\ part \in Screens \cup Services
        /\ ColumnsTypeOK /\ FreshClockTypeOK /\ LeadTypeOK /\ SearchTypeOK /\
           RecordTypeOK /\ MyDayTypeOK /\ StandingTypeOK /\ ChecklistTypeOK /\
           CorrectionTypeOK /\ EndpointsTypeOK /\ TeamTypeOK /\ SessionTypeOK /\
           BootTypeOK /\ IngestTypeOK /\ DialTypeOK /\ SaturationTypeOK
        => ApplicationTypeOK
    BY DEF ApplicationTypeOK
  <1> QED
    BY <1>3, <1>4, <1>5, <1>6, <1>7, <1>8, PTL

\* What is proved of a part alone holds beside everything else the application
\* does, each with the conditions it states: a column draws what is in view once its
\* last scroll is heard and unless a new pitch came inside a row; no permit of the
\* limiter lies idle beside a waiting delivery; nobody oversees colleagues without the
\* role, and who has no seat reads nothing; a lead on the list is never told to wait for
\* an hour or to set a number up; and the chips' interval runs while one is watched
\* (pipeline-columns.tsx, lib/ingest/semaphore.ts, db/client.ts,
\* 0060_compliance_emits.sql, lib/board/tick.ts).
THEOREM ApplicationKeepsItsWord ==
    ApplicationSpec => [](/\ ViewportCovered /\ NoIdlePermit /\ SiloHolds /\ GateIsObeyed
                          /\ HandRunsWhileWatched)
  BY EachPartIsItself, NoCardIsMissed, NoPermitIsIdle, EverySiloHolds, TheGateIsObeyed,
     TheHandRuns, PTL
=============================================================================
