------------------------------ MODULE Pipeline ------------------------------
(***************************************************************************)
(* From a source to a reviewed and corrected clip: production, analysis,   *)
(* clip opportunities, content packages, media and corrections, with       *)
(* operations, the AI producer, the autopilot, intake, the TikTok          *)
(* connection and the Discord community beside them, composed over one     *)
(* broker, one set of workers and one set of handlers.  A task of one      *)
(* component sends the message that starts the next.                       *)
(*                                                                         *)
(* Content packages and media are those of one rendered clip that is there *)
(* from the beginning; that a worker asks for its inspection when it has   *)
(* rendered a clip is left out.                                            *)
(*                                                                         *)
(* Source: app/worker.py for the tasks and beat; each component's module   *)
(* names its own.                                                          *)
(***************************************************************************)
EXTENDS
    Corrections, Operations, Autopilot, Ingestion, Discovery, ManualPublishing, Community,
    TikTokConnections, ProducerAdvice

care == <<packageRows, mediaRows>>
accounts == <<communityRows, connectionRows>>
intake == <<ingestionRows, discoveryRows, accounts>>
office == <<planRows, operationsRows, autopilotRows, postRows, adviceRows, intake>>
vars == <<rows, care, office, messages, session, lost, faults>>

ClipMessages == PipelineMessages \cup {PackageMessage, InspectMessage, CleanupMessage}
OfficeMessages ==
    {CorrectMessage(p) : p \in Plans} \cup {ReinspectMessage(p) : p \in Plans}
        \cup {RefreshMessage, AdvanceMessage, DueMessage, DiscoverMessage, TokensMessage,
                ReportMessage, AdviseMessage}
AllMessages == ClipMessages \cup OfficeMessages

(* There is one broker, which has every message that is sent.              *)
ASSUME PipelineAssumption == AllMessages \subseteq Messages

Init ==
    /\ CeleryInit /\ ProductionInit /\ AnalysisInit /\ OpportunitiesInit
    /\ PackagesInit /\ MediaInit
    /\ CorrectionsInit /\ OperationsInit /\ AutopilotInit /\ IngestionInit
    /\ DiscoveryInit /\ PostsInit /\ CommunityInit /\ ConnectionsInit /\ AdviceInit

Later == <<run, opportunity, versions, care, office>>
NotPackages == <<rows, mediaRows, office>>
NotMedia == <<rows, packageRows, office>>
NotPlans ==
    <<upstream, run, opportunity, versions, mediaRows, operationsRows, autopilotRows, postRows, adviceRows,
      intake>>
NotOperations == <<rows, care, planRows, autopilotRows, postRows, adviceRows, intake>>
NotAutopilot == <<rows, care, planRows, operationsRows, postRows, adviceRows, intake>>
NotPosts == <<rows, care, planRows, operationsRows, autopilotRows, adviceRows, intake>>
NotAdvice == <<rows, care, planRows, operationsRows, autopilotRows, postRows, intake>>
NotIngestion == <<rows, care, planRows, operationsRows, autopilotRows, postRows, adviceRows,
                  discoveryRows, accounts>>
NotDiscovery == <<rows, care, planRows, operationsRows, autopilotRows, postRows, adviceRows,
                  ingestionRows, accounts>>
NotCommunity == <<rows, care, planRows, operationsRows, autopilotRows, postRows, adviceRows,
                  ingestionRows, discoveryRows, connectionRows>>
NotConnections == <<rows, care, planRows, operationsRows, autopilotRows, postRows, adviceRows,
                    ingestionRows, discoveryRows, communityRows>>

(* What a worker does with a message of one kind.                          *)
Deliver(w, m) ==
    \/ m = FetchMessage /\ TakeFetch(w) /\ UNCHANGED <<analysis, Later>>
    \/ m = AnalyseMessage /\ TakeAnalysis(w) /\ UNCHANGED Later
    \/ m = DetectMessage /\ TakeDetection(w) /\ UNCHANGED <<care, office>>
    \/ \E o \in Opportunities :
          m = RenderMessage(o) /\ TakeRender(w, o) /\ UNCHANGED <<care, office>>
    \/ m = PackageMessage /\ TakePackage(w) /\ UNCHANGED NotPackages
    \/ m = InspectMessage /\ TakeInspection(w) /\ UNCHANGED NotMedia
    \/ m = CleanupMessage /\ TakeCleanup(w) /\ UNCHANGED NotMedia
    \/ \E p \in Plans : /\ \/ m = CorrectMessage(p) /\ TakeCorrection(w, p)
                           \/ m = ReinspectMessage(p) /\ TakeReinspection(w, p)
                        /\ UNCHANGED <<NotPlans, packageRows>>
    \/ m = RefreshMessage /\ TakeRefresh(w) /\ UNCHANGED NotOperations
    \/ m \in {AdvanceMessage, DueMessage} /\ TakeTick(w, m) /\ UNCHANGED NotAutopilot
    \/ m = DiscoverMessage /\ TakeDiscovery(w) /\ UNCHANGED NotDiscovery
    \/ m = TokensMessage /\ TakeTokens(w) /\ UNCHANGED NotConnections
    \/ m = ReportMessage /\ TakeReport(w) /\ UNCHANGED NotAdvice
    \/ m = AdviseMessage /\ TakeAdvice(w) /\ UNCHANGED NotAdvice

Work(a) ==
    \/ Download(a) /\ UNCHANGED <<analysis, Later>>
    \/ Analyse(a) /\ UNCHANGED Later
    \/ Generate(a) /\ UNCHANGED <<care, office>>
    \/ Render(a) /\ UNCHANGED <<care, office>>
    \/ WriteUp(a) /\ UNCHANGED NotPackages
    \/ a \in Workers /\ Inspect(a) /\ UNCHANGED NotMedia
    \/ CleanUp(a) /\ UNCHANGED NotMedia
    \/ Correct(a) /\ UNCHANGED <<NotPlans, packageRows>>
    \/ Operate(a) /\ UNCHANGED NotOperations
    \/ Advance(a) /\ UNCHANGED NotAutopilot
    \/ a \in Workers /\ Discover(a) /\ UNCHANGED NotDiscovery
    \/ Connect(a) /\ UNCHANGED NotConnections
    \/ a \in Workers /\ Advise(a) /\ UNCHANGED NotAdvice

SourceHandler(o) == ProductionHandler(o) /\ UNCHANGED <<analysis, Later>>
VideoHandler(o) == AnalysisHandler(o) /\ UNCHANGED Later
ReviewHandler(o) == OpportunitiesHandler(o) /\ UNCHANGED <<care, office>>
PackageHandler(o) == PackagesHandler(o) /\ UNCHANGED NotPackages
ClipHandler(o) == MediaHandler(o) /\ UNCHANGED NotMedia
CorrectionHandler(o) ==
    \/ PlanHandler(o) /\ UNCHANGED <<NotPlans, packageRows>>
    \/ AdoptRevision(o) /\ UNCHANGED NotPlans
DayHandler(o) == OperationsHandler(o) /\ UNCHANGED NotOperations
PolicyHandler(o) == AutopilotHandler(o) /\ UNCHANGED NotAutopilot
IntakeHandler(o) == IngestionHandler(o) /\ UNCHANGED NotIngestion
ScoutHandler(o) == DiscoveryHandler(o) /\ UNCHANGED NotDiscovery
PostHandler(o) == PostsHandler(o) /\ UNCHANGED NotPosts
BotHandler(o) == CommunityHandler(o) /\ UNCHANGED NotCommunity
OwnerHandler(o) == ConnectionsHandler(o) /\ UNCHANGED NotConnections
AdviserHandler(o) == AdviceHandler(o) /\ UNCHANGED NotAdvice
Restart == RestartBot /\ UNCHANGED NotCommunity

CleanupBeat == BeatCleanup /\ UNCHANGED NotMedia
OperationsBeat == BeatRefresh /\ UNCHANGED NotOperations
AutopilotBeat == BeatAutopilot /\ UNCHANGED NotAutopilot
DiscoveryBeat == BeatDiscovery /\ UNCHANGED NotDiscovery
TokensBeat == BeatTokens /\ UNCHANGED NotConnections
Beat == CleanupBeat \/ OperationsBeat \/ AutopilotBeat \/ DiscoveryBeat \/ TokensBeat
ClipTime == MediaTime /\ UNCHANGED NotMedia
FeedTimes == FeedTime /\ UNCHANGED NotIngestion
ScoutTime == PollTime /\ UNCHANGED NotDiscovery
Time == ClipTime \/ FeedTimes \/ ScoutTime

(* A bot that hangs ends as a whole.                                       *)
Fault(a) ==
    /\ Hung => session[a].op \notin BotOps
    /\ \/ (Crash(a) \/ Uncaught(a)) /\ Reload(a)
       \/ Redeliver(a) /\ UNCHANGED behind
    /\ UNCHANGED <<rows, packageRows, asset, file, clipRows, inspection, office>>

Next ==
    \/ \E w \in Workers, m \in Messages : Deliver(w, m)
    \/ \E a \in Actors : Work(a) \/ Fault(a)
    \/ \E o \in Operators : \/ SourceHandler(o) \/ VideoHandler(o) \/ ReviewHandler(o)
                           \/ PackageHandler(o) \/ ClipHandler(o) \/ CorrectionHandler(o)
                           \/ DayHandler(o) \/ PolicyHandler(o) \/ IntakeHandler(o)
                           \/ ScoutHandler(o) \/ PostHandler(o) \/ BotHandler(o)
                           \/ OwnerHandler(o) \/ AdviserHandler(o)
    \/ Beat \/ Time \/ Restart

(* A worker goes on with its task, and every message has its turn (Celery  *)
(* hands them out in their order); beat asks for a retention pass every    *)
(* hour, and grants are issued for a time.                                 *)
Fairness ==
    /\ \A w \in Workers : WF_vars(Work(w))
    /\ \A m \in Messages : SF_vars(\E w \in Workers : Deliver(w, m))
    /\ WF_vars(CleanupBeat)
    /\ WF_vars(GrantEnds /\ UNCHANGED NotMedia)

Spec == Init /\ [][Next]_vars
FairSpec == Spec /\ Fairness

Sessions ==
    {Idle} \cup ProductionSessions \cup AnalysisSessions \cup OpportunitySessions
        \cup PackageSessions \cup MediaSessions \cup PlanSessions \cup OperationSessions
        \cup AutopilotSessions \cup IngestionSessions \cup DiscoverySessions \cup PostSessions
        \cup AdviceSessions \cup BotSessions \cup ConnectionSessions

TypeOK ==
    /\ CeleryTypeOK /\ ProductionTypeOK /\ AnalysisTypeOK /\ OpportunitiesTypeOK
    /\ PackagesTypeOK /\ MediaTypeOK
    /\ CorrectionsTypeOK /\ OperationsTypeOK /\ AutopilotTypeOK /\ IngestionTypeOK
    /\ DiscoveryTypeOK /\ PostsTypeOK /\ CommunityTypeOK /\ ConnectionsTypeOK /\ AdviceTypeOK
    /\ session \in [Actors -> Sessions]
=============================================================================
