--------------------------- MODULE PipelineProofs ---------------------------
(***************************************************************************)
(* The composition: what the proofs about components show of the whole     *)
(* pipeline, for any number of handlers, workers, sources, packages,       *)
(* inspections and so on.                                                  *)
(*                                                                         *)
(* A step of the pipeline is one of one component.  It leaves the rows of  *)
(* the others, and only sessions of its own operations come of it; so an   *)
(* invariant that relates a component's rows to the sessions of its own    *)
(* operations is kept by every step of another.                            *)
(***************************************************************************)
EXTENDS Console, ReviewProofs, CopiesProofs, OfficeProofs

-----------------------------------------------------------------------------
(* The operations of the components, and that the steps of each change one *)
(* actor's session, and only to one of their own operations.               *)

LEMMA ProductionMoves ==
  ASSUME Shaped, NEW a \in Actors, ProductionHandler(a) \/ Download(a) \/ TakeFetch(a)
  PROVE  Moves(a, ProductionOps)
<1>1. CASE CreateProject(a)
  BY <1>1, BeginMoves DEF CreateProject, ProductionOps
<1>2. CASE LoadForChoice(a) \/ LoadForDownload(a) \/ LoadForClips(a)
  BY <1>2, BeginMoves DEF LoadForChoice, LoadForDownload, LoadForClips, Loaded, ProductionOps
<1>3. CASE TakeFetch(a)
  BY <1>3, BeginMoves DEF TakeFetch, Receive, Loaded, ProductionOps
<1>4. ASSUME NEW op \in {"ACCEPT", "REJECT"}, LoadForDecision(a, op)
      PROVE  Moves(a, ProductionOps)
  BY <1>4, BeginMoves DEF LoadForDecision, Loaded, ProductionOps
<1>5. CASE \/ ResolveSources(a) \/ SendAccepted(a) \/ RejectSource(a) \/ ReturnDownload(a)
           \/ GenerateClips(a) \/ RefuseDownload(a) \/ SkipRejected(a) \/ DownloadFails(a)
           \/ \E s \in Sources : ChooseSource(a, s)
  BY <1>5, EndMoves
  DEF ResolveSources, SendAccepted, RejectSource, ReturnDownload, GenerateClips,
      RefuseDownload, SkipRejected, DownloadFails, ChooseSource
<1>6. CASE AcceptSource(a) \/ AlreadyFetched(a)
  BY <1>6, GotoMoves DEF AcceptSource, AlreadyFetched, At, ProductionOps
<1>7. CASE StartDownload(a) \/ AttachSource(a)
  BY <1>7 DEF StartDownload, AttachSource, At, ProductionOps, Moves, Shaped, OthersStay, Confined
<1> QED BY <1>1, <1>2, <1>3, <1>4, <1>5, <1>6, <1>7 DEF ProductionHandler, Download

LEMMA AnalysisMoves ==
  ASSUME Shaped, NEW a \in Actors, AnalysisHandler(a) \/ Analyse(a) \/ TakeAnalysis(a)
  PROVE  Moves(a, AnalysisOps)
<1>1. ASSUME NEW op \in {"ANALYSE", "REANALYSE", "CANCEL"}, LoadForAnalysis(a, op)
      PROVE  Moves(a, AnalysisOps)
  BY <1>1, BeginMoves DEF LoadForAnalysis, AnalysisOps
<1>2. CASE TakeAnalysis(a)
  BY <1>2, BeginMoves DEF TakeAnalysis, Receive, AnalysisOps
<1>3. CASE \/ AlreadyRequested(a) \/ SendAnalysis(a) \/ CancelAnalysis(a)
           \/ FetchedSendsAnalysis(a) \/ LeaveAnalysis(a) \/ SendDetection(a)
           \/ AnalysisFails(a)
  BY <1>3, EndMoves
  DEF AlreadyRequested, SendAnalysis, CancelAnalysis, FetchedSendsAnalysis, LeaveAnalysis,
      SendDetection, AnalysisFails
<1>4. CASE RequestAnalysis(a) \/ FetchedRequestsAnalysis(a)
  BY <1>4, GotoMoves DEF RequestAnalysis, FetchedRequestsAnalysis, At, AnalysisOps
<1>5. CASE FindCompleted(a) \/ StartAnalysis(a) \/ CompleteAnalysis(a)
  BY <1>5, GotoMoves DEF FindCompleted, StartAnalysis, CompleteAnalysis, At, AnalysisOps
<1>6. CASE AnalyseVideo(a) \/ WriteTimeline(a) \/ WriteTranscript(a) \/ WriteText(a)
  BY <1>6, GotoMoves, EndMoves
  DEF AnalyseVideo, WriteTimeline, WriteTranscript, WriteText, GoOnUnlessCancelled, At,
      AnalysisOps
<1> QED BY <1>1, <1>2, <1>3, <1>4, <1>5, <1>6 DEF AnalysisHandler, Analyse

LEMMA OpportunitiesMoves ==
  ASSUME Shaped, NEW a \in Actors,
         \/ OpportunitiesHandler(a) \/ Generate(a) \/ Render(a) \/ TakeDetection(a)
         \/ \E o \in Opportunities : TakeRender(a, o)
  PROVE  Moves(a, OpportunityOps)
<1>1. ASSUME NEW rerun \in BOOLEAN, LoadForDetection(a, rerun)
      PROVE  Moves(a, OpportunityOps)
  BY <1>1, BeginMoves DEF LoadForDetection, OpportunityOps
<1>2. ASSUME NEW o \in Opportunities, NEW approved \in BOOLEAN, LoadForReview(a, o, approved)
      PROVE  Moves(a, OpportunityOps)
  BY <1>2, BeginMoves DEF LoadForReview, OpportunityOps
<1>3. CASE TakeDetection(a)
  BY <1>3, BeginMoves DEF TakeDetection, Receive, OpportunityOps
<1>4. ASSUME NEW o \in Opportunities, TakeRender(a, o)
      PROVE  Moves(a, OpportunityOps)
  BY <1>4, BeginMoves DEF TakeRender, Receive, OpportunityOps
<1>5. CASE Detect(a) \/ RenderInCall(a)
  BY <1>5, BeginMoves DEF Detect, RenderInCall, OpportunityOps
<1>6. CASE StartRender(a)
  <2>1. CASE Renderable(project)
    BY <1>6, <2>1, BeginMoves DEF StartRender, OpportunityOps
  <2>2. CASE ~Renderable(project)
    BY <1>6, <2>2, EndMoves DEF StartRender
  <2> QED BY <2>1, <2>2
<1>7. CASE \/ GenerationExists(a) \/ SendGeneration(a) \/ LeaveGeneration(a)
           \/ CommitGeneration(a) \/ GenerationFails(a) \/ DecisionIsStale(a) \/ EndReview(a)
           \/ LeaveRender(a) \/ LinkClip(a) \/ RenderConflicts(a)
  BY <1>7, EndMoves
  DEF GenerationExists, SendGeneration, LeaveGeneration, CommitGeneration, GenerationFails,
      DecisionIsStale, EndReview, LeaveRender, LinkClip, RenderConflicts, EndInException
<1>8. CASE RequestGeneration(a) \/ StartGeneration(a) \/ CommitClip(a)
  BY <1>8, GotoMoves DEF RequestGeneration, StartGeneration, CommitClip, At, OpportunityOps
<1>9. CASE FirstGeneration(a)
  <2>1. CASE run[1] = "ABSENT"
    BY <1>9, <2>1
    DEF FirstGeneration, At, OpportunityOps, Moves, Shaped, OthersStay, Confined
  <2>2. CASE run[1] # "ABSENT"
    BY <1>9, <2>2, EndMoves DEF FirstGeneration
  <2> QED BY <2>1, <2>2
<1>10. CASE DecideOpportunity(a)
  <2>1. CASE session[a].copy.review_status = Decision(session[a])
    BY <1>10, <2>1, GotoMoves DEF DecideOpportunity, At, OpportunityOps
  <2>2. CASE session[a].copy.review_status # Decision(session[a])
    BY <1>10, <2>2
    DEF DecideOpportunity, At, OpportunityOps, Moves, Shaped, OthersStay, Confined
  <2> QED BY <2>1, <2>2
<1> QED BY <1>1, <1>2, <1>3, <1>4, <1>5, <1>6, <1>7, <1>8, <1>9, <1>10
        DEF OpportunitiesHandler, Generate, Render

LEMMA CorrectionsMoves ==
  ASSUME Shaped, NEW a \in Actors,
         \/ PlanHandler(a) \/ AdoptRevision(a) \/ Correct(a)
         \/ \E p \in Plans : TakeCorrection(a, p) \/ TakeReinspection(a, p)
  PROVE  Moves(a, CorrectionOps)
<1>1. CASE LoadForPlan(a)
  BY <1>1, BeginMoves DEF LoadForPlan, CorrectionOps
<1>2. ASSUME NEW p \in Plans, NEW op \in {"TICK", "SUBMIT", "CONFIRM", "WITHDRAW", "COMPARE", "ADOPT"},
             LoadPlan(a, p, op)
      PROVE  Moves(a, CorrectionOps)
  BY <1>2, BeginMoves DEF LoadPlan, CorrectionOps
<1>3. ASSUME NEW p \in Plans, TakeCorrection(a, p)
      PROVE  Moves(a, CorrectionOps)
  BY <1>3, BeginMoves DEF TakeCorrection, Receive, CorrectionOps
<1>4. ASSUME NEW p \in Plans, TakeReinspection(a, p)
      PROVE  Moves(a, CorrectionOps)
  BY <1>4, BeginMoves DEF TakeReinspection, Receive, CorrectionOps
<1>5. CASE \/ CreatePlan(a) \/ SelectAction(a) \/ SubmitPlan(a) \/ CancelPlan(a)
           \/ SendCorrection(a) \/ ComparePlan(a) \/ AdoptRevision(a) \/ LeaveCorrection(a)
           \/ RefuseCorrection(a) \/ CorrectionFails(a) \/ SendReinspection(a)
           \/ CompletePlan(a)
  BY <1>5, EndMoves
  DEF CreatePlan, SelectAction, SubmitPlan, CancelPlan, SendCorrection, ComparePlan,
      AdoptRevision, LeaveCorrection, RefuseCorrection, CorrectionFails, SendReinspection,
      CompletePlan
<1>6. CASE ConfirmPlan(a) \/ StartCorrection(a) \/ RenderRevision(a)
  BY <1>6, GotoMoves DEF ConfirmPlan, StartCorrection, RenderRevision, At, CorrectionOps
<1>7. CASE InspectRevision(a)
  BY <1>7, GotoMoves, EndMoves DEF InspectRevision, At, CorrectionOps
<1> QED BY <1>1, <1>2, <1>3, <1>4, <1>5, <1>6, <1>7 DEF PlanHandler, Correct

LEMMA PackagesMoves ==
  ASSUME Shaped, NEW a \in Actors, PackagesHandler(a) \/ WriteUp(a) \/ TakePackage(a)
  PROVE  Moves(a, PackageOps)
<1>1. ASSUME NEW rerun \in BOOLEAN, LoadForPackage(a, rerun)
      PROVE  Moves(a, PackageOps)
  BY <1>1, BeginMoves DEF LoadForPackage, PackageOps
<1>2. ASSUME NEW g \in Generations, NEW op \in {"EDIT", "APPROVED", "REJECTED"},
             LoadForPackageReview(a, g, op)
      PROVE  Moves(a, PackageOps)
  BY <1>2, BeginMoves DEF LoadForPackageReview, PackageOps
<1>3. CASE TakePackage(a)
  BY <1>3, BeginMoves DEF TakePackage, Receive, PackageOps
<1>4. CASE \/ RequestCollides(a) \/ SendPackage(a) \/ ReviewPackage(a) \/ ReviewCollides(a)
           \/ LeavePackage(a) \/ WritePackage(a) \/ PackageFails(a)
  BY <1>4, EndMoves
  DEF RequestCollides, SendPackage, ReviewPackage, ReviewCollides, LeavePackage, WritePackage,
      PackageFails, EndInException
<1>5. CASE SelectRevision(a)
  BY <1>5, StayMoves DEF SelectRevision
<1>6. CASE StartPackage(a)
  BY <1>6, GotoMoves DEF StartPackage, At, PackageOps
<1>7. CASE RequestPackage(a)
  <2>1. CASE Adds(session[a])
    BY <1>7, <2>1
    DEF RequestPackage, At, PackageOps, Moves, Shaped, OthersStay, Confined
  <2>2. CASE ~Adds(session[a])
    BY <1>7, <2>2, GotoMoves DEF RequestPackage, At, PackageOps
  <2> QED BY <2>1, <2>2
<1>8. CASE FirstPackage(a)
  <2>1. CASE package[1].status = "ABSENT"
    BY <1>8, <2>1 DEF FirstPackage, At, PackageOps, Moves, Shaped, OthersStay, Confined
  <2>2. CASE package[1].status # "ABSENT"
    BY <1>8, <2>2, EndMoves DEF FirstPackage, EndInException
  <2> QED BY <2>1, <2>2
<1> QED BY <1>1, <1>2, <1>3, <1>4, <1>5, <1>6, <1>7, <1>8 DEF PackagesHandler, WriteUp

LEMMA CommunityMoves ==
  ASSUME Shaped, NEW a \in Actors, CommunityHandler(a)
  PROVE  Moves(a, BotOps)
<1>1. ASSUME NEW s, s.op \in BotOps, Enter(a, s)
      PROVE  Moves(a, BotOps)
  BY <1>1, BeginMoves DEF Enter
<1>2. CASE CallSetup(a)
  BY <1>1, <1>2 DEF CallSetup, BotOps
<1>3. CASE CallReset(a) \/ CallPanels(a) \/ CallAccept(a) \/ CallTicket(a) \/ CallPublish(a)
  BY <1>1, <1>3 DEF CallReset, CallPanels, CallAccept, CallTicket, CallPublish, BotOps
<1>4. CASE CallRoles(a)
  <2>1. PICK selected, todo :
           Enter(a, [op |-> "ROLES", at |-> "changing",
                     more |-> [selected |-> selected, todo |-> todo, old |-> <<>>]])
    BY <1>4 DEF CallRoles
  <2> QED BY <1>1, <2>1 DEF BotOps
<1>5. CASE CallModeration(a)
  BY <1>5, BeginMoves DEF CallModeration, BotOps
<1>6. CASE ResetPreview(a) \/ AcceptAtOnce(a) \/ MoveTicket(a) \/ DraftNotice(a) \/ AppealCase(a)
  BY <1>6, StayMoves DEF ResetPreview, AcceptAtOnce, MoveTicket, DraftNotice, AppealCase
<1>7. CASE DeleteObsolete(a) \/ DeleteReplaced(a) \/ GiveRole(a) \/ OpenChannel(a) \/ SendNotice(a)
  BY <1>7, GotoMoves
  DEF DeleteObsolete, DeleteReplaced, GiveRole, OpenChannel, SendNotice, Resumes, At, BotOps
<1>8. CASE \/ CommitReset(a) \/ CommitPanels(a) \/ CommitAccept(a) \/ CommitRoles(a)
           \/ FileTicket(a) \/ CommitNotice(a) \/ OpenCase(a)
  BY <1>8, EndMoves
  DEF CommitReset, CommitPanels, CommitAccept, CommitRoles, FileTicket, CommitNotice, OpenCase,
      EndInException
<1>9. CASE CommitSetup(a)
  <2>1. End(a) \/ \E s : s.op \in BotOps /\ {"op", "at"} \subseteq DOMAIN s /\ Begin(a, s)
    BY <1>9 DEF CommitSetup, EndInException, BotOps
  <2> QED BY <2>1, BeginMoves, EndMoves
<1>10. CASE PlaceItem(a)
  BY <1>10 DEF PlaceItem, Resumes, At, BotOps, Moves, Shaped, OthersStay, Confined
<1>11. CASE PostPanel(a)
  BY <1>11 DEF PostPanel, Resumes, At, BotOps, Moves, Shaped, OthersStay, Confined
<1>12. CASE ChangeRole(a)
  <2>1. Shaped' /\ OthersStay(a) /\ Confined(BotOps)
    BY <1>12 DEF ChangeRole, Resumes, At, BotOps, Shaped, OthersStay, Confined
  <2>2. DOMAIN session = Actors
    BY DEF Shaped
  <2>3. session' = [b \in Actors |-> session'[b]]
    <3>1. PICK t, r : session' = [session EXCEPT ![a].more.todo = t, ![a].more.old = r]
      BY <1>12 DEF ChangeRole
    <3> QED BY <2>2, <3>1
  <2> QED BY <2>1, <2>3 DEF Moves
<1> QED BY <1>2, <1>3, <1>4, <1>5, <1>6, <1>7, <1>8, <1>9, <1>10, <1>11, <1>12
        DEF CommunityHandler

LEMMA ConnectionsMoves ==
  ASSUME Shaped, NEW a \in Actors, ConnectionsHandler(a) \/ Connect(a) \/ TakeTokens(a)
  PROVE  Moves(a, ConnectionOps)
<1>1. CASE TakeTokens(a)
  BY <1>1, BeginMoves DEF TakeTokens, Receive, Connecting, ConnectionOps
<1>2. CASE AskForTokens(a) \/ CallDisconnect(a)
  BY <1>2, BeginMoves DEF AskForTokens, CallDisconnect, Connecting, ConnectionOps
<1>3. CASE CallAuthorize(a) \/ CallCallback(a)
  BY <1>3, BeginMoves DEF CallAuthorize, CallCallback, Connecting, ConnectionOps
<1>4. CASE \/ NoRefresh(a) \/ ExchangeFails(a) \/ RecordRefresh(a) \/ RecordDisconnect(a)
           \/ RecordState(a) \/ RecordCallback(a)
  BY <1>4, EndMoves
  DEF NoRefresh, ExchangeFails, RecordRefresh, RecordDisconnect, RecordState, RecordCallback,
      Degrade
<1>5. CASE RevokeTokens(a)
  BY <1>5, EndMoves, GotoMoves DEF RevokeTokens, Degrade, At, ConnectionOps
<1>6. CASE LockAccount(a)
  <2>1. CASE store[session[a].reference] = 0
    BY <1>6, <2>1, EndMoves DEF LockAccount
  <2>2. CASE store[session[a].reference] # 0
    BY <1>6, <2>2
    DEF LockAccount, At, ConnectionOps, Moves, Shaped, OthersStay, Confined
  <2> QED BY <2>1, <2>2
<1>7. CASE ExchangeTokens(a)
  <2>1. CASE End(a)
    BY <2>1, EndMoves
  <2>2. CASE ~End(a)
    BY <1>7, <2>2
    DEF ExchangeTokens, Degrade, At, ConnectionOps, Moves, Shaped, OthersStay, Confined
  <2> QED BY <2>1, <2>2
<1>8. CASE ExchangeCode(a)
  <2>1. CASE End(a)
    BY <2>1, EndMoves
  <2>2. CASE ~End(a)
    BY <1>8, <2>2 DEF ExchangeCode, At, ConnectionOps, Moves, Shaped, OthersStay, Confined
  <2> QED BY <2>1, <2>2
<1>9. CASE VerifyConnection(a)
  <2>1. CASE Goto(a, "recording")
    BY <1>9, <2>1, GotoMoves DEF VerifyConnection, At, ConnectionOps
  <2>2. CASE ~Goto(a, "recording")
    BY <1>9, <2>2 DEF VerifyConnection, At, ConnectionOps, Moves, Shaped, OthersStay, Confined
  <2> QED BY <2>1, <2>2
<1>10. CASE session[a].op \in ConnectionOps /\ OpenFile(a)
  <2>1. CASE End(a)
    BY <2>1, EndMoves
  <2>2. CASE ~End(a)
    BY <1>10, <2>2 DEF OpenFile, Degrade, Moves, Shaped, OthersStay, Confined
  <2> QED BY <2>1, <2>2
<1>11. CASE session[a].op \in ConnectionOps /\ WriteFile(a)
  BY <1>11 DEF WriteFile, Moves, Shaped, OthersStay, Confined
<1> QED BY <1>1, <1>2, <1>3, <1>4, <1>5, <1>6, <1>7, <1>8, <1>9, <1>10, <1>11
        DEF ConnectionsHandler, Connect
-----------------------------------------------------------------------------
(* The steps of the pipeline by components.  What Production, VideoAnalysis*)
(* and ClipOpportunities do goes together in most of the proofs, and so    *)
(* does what the Discord community and the TikTok connection do.           *)

UpstreamOps == ProductionOps \cup AnalysisOps \cup OpportunityOps
AccountOps == BotOps \cup ConnectionOps

ProductionActs ==
    /\ \E a \in Actors : \/ a \in Operators /\ ProductionHandler(a)
                         \/ Download(a)
                         \/ a \in Workers /\ TakeFetch(a)
    /\ UNCHANGED <<analysis, Later>>

AnalysisActs ==
    /\ \E a \in Actors : \/ a \in Operators /\ AnalysisHandler(a)
                         \/ Analyse(a)
                         \/ a \in Workers /\ TakeAnalysis(a)
    /\ UNCHANGED Later

OpportunitiesActs ==
    /\ \E a \in Actors :
          \/ a \in Operators /\ OpportunitiesHandler(a)
          \/ Generate(a) \/ Render(a)
          \/ a \in Workers /\ (TakeDetection(a) \/ \E o \in Opportunities : TakeRender(a, o))
    /\ UNCHANGED <<care, office>>

UpstreamActs == ProductionActs \/ AnalysisActs \/ OpportunitiesActs

PackagesActs ==
    /\ \E a \in Actors : \/ a \in Operators /\ PackagesHandler(a)
                         \/ WriteUp(a)
                         \/ a \in Workers /\ TakePackage(a)
    /\ UNCHANGED NotPackages

MediaActs ==
    /\ \/ \E o \in Operators : MediaHandler(o)
       \/ \E a \in Actors : (a \in Workers /\ Inspect(a)) \/ CleanUp(a)
       \/ \E w \in Workers : TakeInspection(w) \/ TakeCleanup(w)
       \/ BeatCleanup \/ MediaTime
    /\ UNCHANGED NotMedia

CorrectionsActs ==
    /\ \E a \in Actors :
          \/ /\ \/ a \in Operators /\ PlanHandler(a)
                \/ Correct(a)
                \/ a \in Workers /\ \E p \in Plans : TakeCorrection(a, p) \/ TakeReinspection(a, p)
             /\ UNCHANGED packageRows
          \/ a \in Operators /\ AdoptRevision(a)
    /\ UNCHANGED NotPlans

OperationsActs ==
    /\ \/ \E o \in Operators : OperationsHandler(o)
       \/ \E a \in Actors : Operate(a) \/ (a \in Workers /\ TakeRefresh(a))
       \/ BeatRefresh
    /\ UNCHANGED NotOperations

AutopilotActs ==
    /\ \/ \E o \in Operators : AutopilotHandler(o)
       \/ \E a \in Actors :
             \/ Advance(a)
             \/ /\ a \in Workers
                /\ \E m \in Messages \cap {AdvanceMessage, DueMessage} : TakeTick(a, m)
       \/ BeatAutopilot
    /\ UNCHANGED NotAutopilot

PostsActs == (\E a \in Actors : a \in Operators /\ PostsHandler(a)) /\ UNCHANGED NotPosts

AdviceActs ==
    /\ \E a \in Actors : \/ a \in Operators /\ AdviceHandler(a)
                         \/ a \in Workers /\ (Advise(a) \/ TakeReport(a) \/ TakeAdvice(a))
    /\ UNCHANGED NotAdvice

IngestionActs ==
    /\ (\E o \in Operators : IngestionHandler(o)) \/ FeedTime
    /\ UNCHANGED NotIngestion

DiscoveryActs ==
    /\ \/ \E a \in Actors : \/ a \in Operators /\ DiscoveryHandler(a)
                            \/ a \in Workers /\ (Discover(a) \/ TakeDiscovery(a))
       \/ BeatDiscovery \/ PollTime
    /\ UNCHANGED NotDiscovery

CommunityActs ==
    /\ (\E o \in Operators : CommunityHandler(o)) \/ RestartBot
    /\ UNCHANGED NotCommunity

ConnectionsActs ==
    /\ \/ \E a \in Actors : \/ a \in Operators /\ ConnectionsHandler(a)
                            \/ Connect(a)
                            \/ a \in Workers /\ TakeTokens(a)
       \/ BeatTokens
    /\ UNCHANGED NotConnections

AccountsActs == CommunityActs \/ ConnectionsActs

FaultActs == \E a \in Actors : Fault(a)

LEMMA UpstreamLeaves ==
  ASSUME UpstreamActs
  PROVE  UNCHANGED <<care, office>>
  BY DEF UpstreamActs, ProductionActs, AnalysisActs, OpportunitiesActs, Later

LEMMA NextByComponents ==
  ASSUME [Next]_vars
  PROVE  \/ UpstreamActs \/ PackagesActs \/ MediaActs \/ CorrectionsActs \/ OperationsActs
         \/ AutopilotActs \/ PostsActs \/ AdviceActs \/ IngestionActs \/ DiscoveryActs
         \/ AccountsActs \/ FaultActs \/ UNCHANGED vars
<1>1. ASSUME NEW w \in Workers, NEW m \in Messages, Deliver(w, m)
      PROVE  \/ UpstreamActs \/ PackagesActs \/ MediaActs \/ CorrectionsActs \/ OperationsActs
             \/ AutopilotActs \/ AdviceActs \/ DiscoveryActs \/ AccountsActs
  <2>1. w \in Actors
    BY DEF Actors
  <2>2. CASE \/ TakeFetch(w) /\ UNCHANGED <<analysis, Later>>
             \/ TakeAnalysis(w) /\ UNCHANGED Later
             \/ TakeDetection(w) /\ UNCHANGED <<care, office>>
             \/ \E o \in Opportunities : TakeRender(w, o) /\ UNCHANGED <<care, office>>
    BY <2>1, <2>2 DEF UpstreamActs, ProductionActs, AnalysisActs, OpportunitiesActs
  <2>3. CASE TakePackage(w) /\ UNCHANGED NotPackages
    BY <2>1, <2>3 DEF PackagesActs
  <2>4. CASE (TakeInspection(w) \/ TakeCleanup(w)) /\ UNCHANGED NotMedia
    BY <2>1, <2>4 DEF MediaActs
  <2>5. CASE \E p \in Plans : /\ TakeCorrection(w, p) \/ TakeReinspection(w, p)
                              /\ UNCHANGED <<NotPlans, packageRows>>
    BY <2>1, <2>5 DEF CorrectionsActs
  <2>6. CASE TakeRefresh(w) /\ UNCHANGED NotOperations
    BY <2>1, <2>6 DEF OperationsActs
  <2>7. CASE m \in {AdvanceMessage, DueMessage} /\ TakeTick(w, m) /\ UNCHANGED NotAutopilot
    BY <2>1, <2>7 DEF AutopilotActs
  <2>8. CASE TakeDiscovery(w) /\ UNCHANGED NotDiscovery
    BY <2>1, <2>8 DEF DiscoveryActs
  <2>9. CASE TakeTokens(w) /\ UNCHANGED NotConnections
    BY <2>1, <2>9 DEF AccountsActs, CommunityActs, ConnectionsActs
  <2>10. CASE (TakeReport(w) \/ TakeAdvice(w)) /\ UNCHANGED NotAdvice
    BY <2>1, <2>10 DEF AdviceActs
  <2> QED BY <1>1, <2>2, <2>3, <2>4, <2>5, <2>6, <2>7, <2>8, <2>9, <2>10 DEF Deliver
<1>2. ASSUME NEW a \in Actors, Work(a)
      PROVE  \/ UpstreamActs \/ PackagesActs \/ MediaActs \/ CorrectionsActs \/ OperationsActs
             \/ AutopilotActs \/ AdviceActs \/ DiscoveryActs \/ AccountsActs
  <2>1. CASE \/ Download(a) /\ UNCHANGED <<analysis, Later>>
             \/ Analyse(a) /\ UNCHANGED Later
             \/ (Generate(a) \/ Render(a)) /\ UNCHANGED <<care, office>>
    BY <2>1 DEF UpstreamActs, ProductionActs, AnalysisActs, OpportunitiesActs
  <2>2. CASE WriteUp(a) /\ UNCHANGED NotPackages
    BY <2>2 DEF PackagesActs
  <2>3. CASE ((a \in Workers /\ Inspect(a)) \/ CleanUp(a)) /\ UNCHANGED NotMedia
    BY <2>3 DEF MediaActs
  <2>4. CASE Correct(a) /\ UNCHANGED <<NotPlans, packageRows>>
    BY <2>4 DEF CorrectionsActs
  <2>5. CASE Operate(a) /\ UNCHANGED NotOperations
    BY <2>5 DEF OperationsActs
  <2>6. CASE Advance(a) /\ UNCHANGED NotAutopilot
    BY <2>6 DEF AutopilotActs
  <2>7. CASE a \in Workers /\ Discover(a) /\ UNCHANGED NotDiscovery
    BY <2>7 DEF DiscoveryActs
  <2>8. CASE Connect(a) /\ UNCHANGED NotConnections
    BY <2>8 DEF AccountsActs, CommunityActs, ConnectionsActs
  <2>9. CASE a \in Workers /\ Advise(a) /\ UNCHANGED NotAdvice
    BY <2>9 DEF AdviceActs
  <2> QED BY <1>2, <2>1, <2>2, <2>3, <2>4, <2>5, <2>6, <2>7, <2>8, <2>9 DEF Work
<1>3. ASSUME NEW o \in Operators,
             \/ SourceHandler(o) \/ VideoHandler(o) \/ ReviewHandler(o) \/ PackageHandler(o)
             \/ ClipHandler(o) \/ CorrectionHandler(o)
      PROVE  UpstreamActs \/ PackagesActs \/ MediaActs \/ CorrectionsActs
  <2>1. o \in Actors
    BY DEF Actors
  <2>2. CASE SourceHandler(o) \/ VideoHandler(o) \/ ReviewHandler(o)
    BY <2>1, <2>2 DEF UpstreamActs, ProductionActs, AnalysisActs, OpportunitiesActs,
                      SourceHandler, VideoHandler, ReviewHandler
  <2>3. CASE PackageHandler(o)
    BY <2>1, <2>3 DEF PackagesActs, PackageHandler
  <2>4. CASE ClipHandler(o)
    BY <2>4 DEF MediaActs, ClipHandler
  <2>5. CASE CorrectionHandler(o)
    BY <2>1, <2>5 DEF CorrectionsActs, CorrectionHandler
  <2> QED BY <1>3, <2>2, <2>3, <2>4, <2>5
<1>4. ASSUME NEW o \in Operators,
             \/ DayHandler(o) \/ PolicyHandler(o) \/ IntakeHandler(o) \/ ScoutHandler(o)
             \/ PostHandler(o) \/ BotHandler(o) \/ OwnerHandler(o) \/ AdviserHandler(o)
      PROVE  \/ OperationsActs \/ AutopilotActs \/ PostsActs \/ AdviceActs \/ IngestionActs
             \/ DiscoveryActs \/ AccountsActs
  <2>1. o \in Actors
    BY DEF Actors
  <2>2. CASE DayHandler(o) \/ PolicyHandler(o) \/ IntakeHandler(o) \/ ScoutHandler(o)
    BY <2>1, <2>2
    DEF OperationsActs, DayHandler, AutopilotActs, PolicyHandler, IngestionActs, IntakeHandler,
        DiscoveryActs, ScoutHandler
  <2>3. CASE PostHandler(o) \/ AdviserHandler(o)
    BY <2>1, <2>3 DEF PostsActs, PostHandler, AdviceActs, AdviserHandler
  <2>4. CASE BotHandler(o) \/ OwnerHandler(o)
    BY <2>1, <2>4 DEF AccountsActs, CommunityActs, ConnectionsActs, BotHandler, OwnerHandler
  <2> QED BY <1>4, <2>2, <2>3, <2>4
<1>5. CASE Beat \/ Time \/ Restart
  BY <1>5
  DEF Beat, Time, Restart, CleanupBeat, OperationsBeat, AutopilotBeat, DiscoveryBeat, TokensBeat,
      ClipTime, FeedTimes, ScoutTime, MediaActs, OperationsActs, AutopilotActs, DiscoveryActs,
      IngestionActs, AccountsActs, CommunityActs, ConnectionsActs
<1> QED BY <1>1, <1>2, <1>3, <1>4, <1>5 DEF Next, FaultActs

(* Their sessions. *)
LEMMA ActsMove ==
  ASSUME Shaped
  PROVE  /\ UpstreamActs => Shaped' /\ Confined(UpstreamOps)
         /\ PackagesActs => Shaped' /\ Confined(PackageOps)
         /\ MediaActs => Shaped' /\ Confined(MediaOps)
         /\ CorrectionsActs => Shaped' /\ Confined(CorrectionOps)
         /\ OperationsActs => Shaped' /\ Confined(OperationOps)
         /\ AutopilotActs => Shaped' /\ Confined(AutopilotOps)
         /\ PostsActs => Shaped' /\ Confined(PostOps)
         /\ AdviceActs => Shaped' /\ Confined(AdviceOps)
         /\ IngestionActs => Shaped' /\ Confined(IngestionOps)
         /\ DiscoveryActs => Shaped' /\ Confined(DiscoveryOps)
         /\ AccountsActs => Shaped' /\ Confined(AccountOps)
         /\ FaultActs => Shaped' /\ Confined({})
<1>1. ASSUME NEW a \in Actors, NEW Ops, Moves(a, Ops), NEW More, Ops \subseteq More
      PROVE  Shaped' /\ Confined(More)
  BY <1>1 DEF Moves, Confined
<1>2. ASSUME UNCHANGED session, NEW Ops
      PROVE  Shaped' /\ Confined(Ops)
  BY <1>2 DEF Shaped, Confined
<1>3. \A o \in Operators \cup Workers : o \in Actors
  BY DEF Actors
<1>4. ASSUME UpstreamActs PROVE Shaped' /\ Confined(UpstreamOps)
  <2>1. PICK a \in Actors :
           \/ ProductionHandler(a) \/ Download(a) \/ TakeFetch(a)
           \/ AnalysisHandler(a) \/ Analyse(a) \/ TakeAnalysis(a)
           \/ OpportunitiesHandler(a) \/ Generate(a) \/ Render(a) \/ TakeDetection(a)
           \/ \E o \in Opportunities : TakeRender(a, o)
    BY <1>4 DEF UpstreamActs, ProductionActs, AnalysisActs, OpportunitiesActs
  <2>2. Moves(a, ProductionOps) \/ Moves(a, AnalysisOps) \/ Moves(a, OpportunityOps)
    BY <2>1, ProductionMoves, AnalysisMoves, OpportunitiesMoves
  <2> QED BY <1>1, <2>2 DEF UpstreamOps
<1>5. ASSUME PackagesActs PROVE Shaped' /\ Confined(PackageOps)
  BY <1>1, <1>5, PackagesMoves DEF PackagesActs
<1>6. ASSUME MediaActs PROVE Shaped' /\ Confined(MediaOps)
  <2>1. CASE UNCHANGED session
    BY <1>2, <2>1
  <2>2. BeatCleanup \/ MediaTime => UNCHANGED session
    BY DEF BeatCleanup, MediaTime, GrantEnds, DeadlinePasses, PublishingMoves
  <2> QED BY <1>1, <1>3, <1>6, <2>1, <2>2, MediaMoves DEF MediaActs
<1>7. ASSUME CorrectionsActs PROVE Shaped' /\ Confined(CorrectionOps)
  BY <1>1, <1>7, CorrectionsMoves DEF CorrectionsActs
<1>8. ASSUME OperationsActs PROVE Shaped' /\ Confined(OperationOps)
  BY <1>1, <1>2, <1>3, <1>8, OperationsMoves DEF OperationsActs, BeatRefresh
<1>9. ASSUME AutopilotActs PROVE Shaped' /\ Confined(AutopilotOps)
  BY <1>1, <1>2, <1>3, <1>9, AutopilotMoves DEF AutopilotActs, BeatAutopilot
<1>10. ASSUME PostsActs PROVE Shaped' /\ Confined(PostOps)
  BY <1>1, <1>10, PostsMoves DEF PostsActs
<1>11. ASSUME AdviceActs PROVE Shaped' /\ Confined(AdviceOps)
  BY <1>1, <1>11, AdviceMoves DEF AdviceActs
<1>12. ASSUME IngestionActs PROVE Shaped' /\ Confined(IngestionOps)
  BY <1>1, <1>2, <1>3, <1>12, IngestionMoves DEF IngestionActs, FeedTime
<1>13. ASSUME DiscoveryActs PROVE Shaped' /\ Confined(DiscoveryOps)
  BY <1>1, <1>2, <1>13, DiscoveryMoves DEF DiscoveryActs, BeatDiscovery, PollTime
<1>14. ASSUME AccountsActs PROVE Shaped' /\ Confined(AccountOps)
  <2>1. ASSUME RestartBot PROVE Shaped' /\ Confined(AccountOps)
    BY <2>1 DEF RestartBot, Shaped, Confined, Idle
  <2>2. ASSUME BeatTokens PROVE Shaped' /\ Confined(AccountOps)
    BY <1>2, <2>2 DEF BeatTokens
  <2>3. ASSUME NEW a \in Actors, CommunityHandler(a) PROVE Shaped' /\ Confined(AccountOps)
    BY <1>1, <2>3, CommunityMoves DEF AccountOps
  <2>4. ASSUME NEW a \in Actors, ConnectionsHandler(a) \/ Connect(a) \/ TakeTokens(a)
        PROVE  Shaped' /\ Confined(AccountOps)
    BY <1>1, <2>4, ConnectionsMoves DEF AccountOps
  <2> QED BY <1>3, <1>14, <2>1, <2>2, <2>3, <2>4 DEF AccountsActs, CommunityActs, ConnectionsActs
<1>15. ASSUME FaultActs PROVE Shaped' /\ Confined({})
  <2>1. PICK a \in Actors : End(a) \/ UNCHANGED session
    BY <1>15 DEF FaultActs, Fault, Crash, Uncaught, EndInException, Redeliver
  <2> QED BY <1>1, <1>2, <2>1, EndMoves
<1> QED BY <1>4, <1>5, <1>6, <1>7, <1>8, <1>9, <1>10, <1>11, <1>12, <1>13, <1>14, <1>15

LEMMA ShapeKept ==
  ASSUME Shaped, [Next]_vars
  PROVE  Shaped'
<1>1. CASE UNCHANGED vars
  BY <1>1 DEF vars, Shaped
<1> QED BY <1>1, NextByComponents, ActsMove

-----------------------------------------------------------------------------
(* And what their steps find: an actor begins when it is free, and goes on *)
(* with an operation of the component that it has begun.  A step that      *)
(* fails on its own account counts as a fault.  One message at most is     *)
(* sent, or taken, which is then one of the component's tasks.             *)

Sends(Tasks) ==
    /\ faults' \in {faults, faults + 1} /\ lost \subseteq lost'
    /\ UNCHANGED faults \/ faults < MaxFaults
    /\ \/ UNCHANGED messages
       \/ \E m : messages' = Queued(m)
       \/ \E m \in Tasks : messages[m] > 0 /\ messages' = [messages EXCEPT ![m] = @ - 1]

TakesOwn(a, Ops, Tasks) ==
    /\ Sends(Tasks)
    /\ session[a].op \in Ops \cup {"IDLE"} \/ UNCHANGED session

RenderTasks == {DetectMessage} \cup {RenderMessage(o) : o \in Opportunities}
CorrectionTasks ==
    {CorrectMessage(p) : p \in Plans} \cup {ReinspectMessage(p) : p \in Plans}
TickTasks == Messages \cap {AdvanceMessage, DueMessage}

LEMMA ReceivedIsOwn ==
  ASSUME NEW a \in Actors, NEW Ops, NEW Tasks, NEW m \in Tasks, NEW s, Receive(a, m, s)
  PROVE  TakesOwn(a, Ops, Tasks)
<1>1. Free(a) /\ UNCHANGED <<faults, lost>>
  BY DEF Receive
<1>2. messages[m] > 0 /\ messages' = [messages EXCEPT ![m] = @ - 1]
  BY DEF Receive
<1>3. \E n \in Tasks : messages[n] > 0 /\ messages' = [messages EXCEPT ![n] = @ - 1]
  BY <1>2
<1>4. session[a].op \in Ops \cup {"IDLE"}
  BY <1>1 DEF Free, Idle
<1>5. faults' \in {faults, faults + 1} /\ lost \subseteq lost'
  BY <1>1
<1>6. UNCHANGED faults \/ faults < MaxFaults
  BY <1>1
<1>7. (session[a].op \in Ops \cup {"IDLE"}) \/ UNCHANGED session
  BY <1>4
<1>8. UNCHANGED messages \/ (\E n : messages' = Queued(n))
        \/ \E n \in Tasks : messages[n] > 0 /\ messages' = [messages EXCEPT ![n] = @ - 1]
  BY <1>3
<1> QED BY <1>5, <1>6, <1>7, <1>8, Zenon DEF TakesOwn, Sends

LEMMA ProductionTakeOwn ==
  ASSUME NEW a \in Actors, ProductionHandler(a) \/ Download(a) \/ TakeFetch(a)
  PROVE  TakesOwn(a, ProductionOps, {FetchMessage})
<1> USE DEF TakesOwn, Sends, ProductionOps
<1>1. CASE CreateProject(a) \/ LoadForChoice(a)
  BY <1>1 DEF CreateProject, LoadForChoice, Free, Idle
<1>2. CASE ResolveSources(a) \/ AcceptSource(a) \/ SendAccepted(a) \/ RejectSource(a)
  BY <1>2 DEF ResolveSources, AcceptSource, SendAccepted, RejectSource, At
<1>3. CASE LoadForDownload(a) \/ ReturnDownload(a) \/ LoadForClips(a) \/ GenerateClips(a)
  BY <1>3 DEF LoadForDownload, ReturnDownload, LoadForClips, GenerateClips, At, Free, Idle
<1>4. CASE RefuseDownload(a) \/ SkipRejected(a) \/ AlreadyFetched(a) \/ StartDownload(a)
  BY <1>4 DEF RefuseDownload, SkipRejected, AlreadyFetched, StartDownload, At
<1>5. CASE AttachSource(a) \/ DownloadFails(a) \/ TakeFetch(a)
  BY <1>5 DEF AttachSource, DownloadFails, TakeFetch, At, Receive, Free, Idle
<1>6. ASSUME NEW op \in {"ACCEPT", "REJECT"}, LoadForDecision(a, op)
      PROVE  TakesOwn(a, ProductionOps, {FetchMessage})
  BY <1>6 DEF LoadForDecision, Free, Idle
<1>7. ASSUME NEW s \in Sources, ChooseSource(a, s)
      PROVE  TakesOwn(a, ProductionOps, {FetchMessage})
  BY <1>7 DEF ChooseSource, At
<1> QED BY <1>1, <1>2, <1>3, <1>4, <1>5, <1>6, <1>7 DEF ProductionHandler, Download

LEMMA AnalysisTakeOwn ==
  ASSUME NEW a \in Actors, AnalysisHandler(a) \/ Analyse(a) \/ TakeAnalysis(a)
  PROVE  TakesOwn(a, AnalysisOps, {AnalyseMessage})
<1> USE DEF TakesOwn, Sends, AnalysisOps
<1>1. CASE \/ RequestAnalysis(a) \/ AlreadyRequested(a) \/ SendAnalysis(a)
           \/ CancelAnalysis(a) \/ FetchedRequestsAnalysis(a) \/ FetchedSendsAnalysis(a)
  BY <1>1 DEF RequestAnalysis, AlreadyRequested, SendAnalysis, CancelAnalysis,
      FetchedRequestsAnalysis, FetchedSendsAnalysis, At
<1>2. CASE \/ LeaveAnalysis(a) \/ FindCompleted(a) \/ StartAnalysis(a) \/ AnalyseVideo(a)
           \/ WriteTimeline(a) \/ WriteTranscript(a)
  BY <1>2 DEF LeaveAnalysis, AnalysisUnchanged, FindCompleted, StartAnalysis, AnalyseVideo,
      WriteTimeline, WriteTranscript, At
<1>3. CASE \/ WriteText(a) \/ CompleteAnalysis(a) \/ SendDetection(a) \/ AnalysisFails(a)
           \/ TakeAnalysis(a)
  BY <1>3 DEF WriteText, CompleteAnalysis, SendDetection, AnalysisUnchanged, AnalysisFails,
      TakeAnalysis, At, Receive, Free, Idle
<1>4. ASSUME NEW op \in {"ANALYSE", "REANALYSE", "CANCEL"}, LoadForAnalysis(a, op)
      PROVE  TakesOwn(a, AnalysisOps, {AnalyseMessage})
  BY <1>4 DEF LoadForAnalysis, Free, Idle
<1> QED BY <1>1, <1>2, <1>3, <1>4 DEF AnalysisHandler, Analyse

LEMMA OpportunitiesTakeOwn ==
  ASSUME NEW a \in Actors,
         \/ OpportunitiesHandler(a) \/ Generate(a) \/ Render(a) \/ TakeDetection(a)
         \/ \E o \in Opportunities : TakeRender(a, o)
  PROVE  TakesOwn(a, OpportunityOps, RenderTasks)
<1> USE DEF TakesOwn, Sends, OpportunityOps
<1>1. CASE \/ RequestGeneration(a) \/ GenerationExists(a) \/ SendGeneration(a)
           \/ DecideOpportunity(a) \/ DecisionIsStale(a) \/ EndReview(a)
  BY <1>1 DEF RequestGeneration, GenerationExists, SendGeneration, DecideOpportunity,
      DecisionIsStale, EndReview, At
<1>2. CASE \/ RenderInCall(a) \/ LeaveGeneration(a) \/ FirstGeneration(a)
           \/ StartGeneration(a) \/ Detect(a) \/ CommitGeneration(a)
  BY <1>2 DEF RenderInCall, LeaveGeneration, FirstGeneration, StartGeneration, Detect,
      CommitGeneration, At
<1>3. CASE \/ GenerationFails(a) \/ LeaveRender(a) \/ StartRender(a) \/ CommitClip(a)
           \/ LinkClip(a)
  BY <1>3 DEF GenerationFails, LeaveRender, StartRender, CommitClip, LinkClip, At
<1>8. CASE RenderConflicts(a)
  BY <1>8 DEF RenderConflicts, At, EndInException
<1>4. CASE TakeDetection(a)
  <2>1. DetectMessage \in RenderTasks
    BY DEF RenderTasks
  <2>2. \E s : Receive(a, DetectMessage, s)
    BY <1>4 DEF TakeDetection
  <2> QED BY <2>1, <2>2, ReceivedIsOwn
<1>5. ASSUME NEW rerun \in BOOLEAN, LoadForDetection(a, rerun)
      PROVE  TakesOwn(a, OpportunityOps, RenderTasks)
  BY <1>5 DEF LoadForDetection, Free, Idle
<1>6. ASSUME NEW o \in Opportunities, NEW approved \in BOOLEAN, LoadForReview(a, o, approved)
      PROVE  TakesOwn(a, OpportunityOps, RenderTasks)
  BY <1>6 DEF LoadForReview, Free, Idle
<1>7. ASSUME NEW o \in Opportunities, TakeRender(a, o)
      PROVE  TakesOwn(a, OpportunityOps, RenderTasks)
  <2>1. RenderMessage(o) \in RenderTasks
    BY DEF RenderTasks
  <2>2. \E s : Receive(a, RenderMessage(o), s)
    BY <1>7 DEF TakeRender
  <2> QED BY <2>1, <2>2, ReceivedIsOwn
<1> QED BY <1>1, <1>2, <1>3, <1>4, <1>5, <1>6, <1>7, <1>8
        DEF OpportunitiesHandler, Generate, Render

LEMMA PackagesTakeOwn ==
  ASSUME NEW a \in Actors, PackagesHandler(a) \/ WriteUp(a) \/ TakePackage(a)
  PROVE  TakesOwn(a, PackageOps, {PackageMessage})
<1> USE DEF TakesOwn, Sends, PackageOps
<1>1. CASE \/ RequestPackage(a) \/ RequestCollides(a) \/ SendPackage(a) \/ ReviewPackage(a)
           \/ ReviewCollides(a) \/ SelectRevision(a)
  BY <1>1 DEF RequestPackage, RequestCollides, SendPackage, ReviewPackage, ReviewCollides,
      SelectRevision, At, Free, Idle
<1>2. CASE \/ FirstPackage(a) \/ LeavePackage(a) \/ StartPackage(a) \/ WritePackage(a)
           \/ PackageFails(a) \/ TakePackage(a)
  BY <1>2 DEF FirstPackage, LeavePackage, StartPackage, WritePackage, PackageFails,
      TakePackage, At, Receive, Free, Idle, EndInException
<1>3. ASSUME NEW rerun \in BOOLEAN, LoadForPackage(a, rerun)
      PROVE  TakesOwn(a, PackageOps, {PackageMessage})
  BY <1>3 DEF LoadForPackage, Free, Idle
<1>4. ASSUME NEW g \in Generations, NEW op \in {"EDIT", "APPROVED", "REJECTED"},
             LoadForPackageReview(a, g, op)
      PROVE  TakesOwn(a, PackageOps, {PackageMessage})
  BY <1>4 DEF LoadForPackageReview, Free, Idle
<1> QED BY <1>1, <1>2, <1>3, <1>4 DEF PackagesHandler, WriteUp

LEMMA MediaTakeOwn ==
  ASSUME NEW a \in Actors,
         \/ MediaHandler(a) \/ Inspect(a) \/ CleanUp(a)
         \/ TakeInspection(a) \/ TakeCleanup(a)
  PROVE  TakesOwn(a, MediaOps, {InspectMessage, CleanupMessage})
<1> USE DEF TakesOwn, Sends, MediaOps
<1>1. CASE \/ IssueGrant(a) \/ AccessMedia(a) \/ ExtendRetention(a) \/ DecideClip(a)
           \/ CallCleanup(a) \/ RequestInspection(a)
  BY <1>1 DEF IssueGrant, AccessMedia, ExtendRetention, DecideClip, CallCleanup,
      RequestInspection, At, Free, Idle
<1>2. CASE \/ InspectionExists(a) \/ SendInspection(a) \/ LoadForCancelling(a)
           \/ CancelInspection(a) \/ RequestInTask(a) \/ LoadMedia(a)
  BY <1>2 DEF InspectionExists, SendInspection, LoadForCancelling, CancelInspection,
      RequestInTask, LoadMedia, At, Free, Idle, EndInException
<1>3. CASE \/ StartInspection(a) \/ OpenMedia(a) \/ Stage(a) \/ Release(a) \/ Judge(a)
           \/ DeleteFile(a)
  BY <1>3 DEF StartInspection, OpenMedia, Stage, Release, Judge, DeleteFile, At,
      EndInException
<1>4. CASE DeletionFails(a)
  BY <1>4 DEF DeletionFails, At, EndInException
<1>8. CASE RecordDeletion(a)
  BY <1>8 DEF RecordDeletion, At, EndInException
<1>9. CASE TakeInspection(a) \/ TakeCleanup(a)
  <2>1. PICK m \in {InspectMessage, CleanupMessage} : \E s : Receive(a, m, s)
    BY <1>9 DEF TakeInspection, TakeCleanup
  <2> HIDE DEF TakesOwn
  <2> QED BY <2>1, ReceivedIsOwn
<1>5. ASSUME NEW enabled \in BOOLEAN, SetHold(a, enabled)
      PROVE  TakesOwn(a, MediaOps, {InspectMessage, CleanupMessage})
  BY <1>5 DEF SetHold, Free, Idle
<1>6. ASSUME NEW rerun \in BOOLEAN, LoadForInspection(a, rerun)
      PROVE  TakesOwn(a, MediaOps, {InspectMessage, CleanupMessage})
  BY <1>6 DEF LoadForInspection, Free, Idle
<1>7. ASSUME NEW outcome \in {"COMPLETED", "FAILED"}, EndInspection(a, outcome)
      PROVE  TakesOwn(a, MediaOps, {InspectMessage, CleanupMessage})
  BY <1>7 DEF EndInspection, At
<1> QED BY <1>1, <1>2, <1>3, <1>4, <1>5, <1>6, <1>7, <1>8, <1>9
        DEF MediaHandler, Inspect, CleanUp

LEMMA CorrectionsTakeOwn ==
  ASSUME NEW a \in Actors,
         \/ PlanHandler(a) \/ Correct(a) \/ AdoptRevision(a)
         \/ \E p \in Plans : TakeCorrection(a, p) \/ TakeReinspection(a, p)
  PROVE  TakesOwn(a, CorrectionOps, CorrectionTasks)
<1> USE DEF TakesOwn, Sends, CorrectionOps
<1>1. CASE \/ LoadForPlan(a) \/ CreatePlan(a) \/ SelectAction(a) \/ SubmitPlan(a)
           \/ CancelPlan(a) \/ ConfirmPlan(a)
  BY <1>1 DEF LoadForPlan, CreatePlan, SelectAction, SubmitPlan, CancelPlan, ConfirmPlan,
      At, Free, Idle
<1>2. CASE \/ SendCorrection(a) \/ ComparePlan(a) \/ LeaveCorrection(a)
           \/ RefuseCorrection(a) \/ StartCorrection(a) \/ RenderRevision(a)
  BY <1>2 DEF SendCorrection, ComparePlan, LeaveCorrection, RefuseCorrection,
      StartCorrection, RenderRevision, At
<1>3. CASE \/ CorrectionFails(a) \/ SendReinspection(a) \/ InspectRevision(a)
           \/ CompletePlan(a) \/ AdoptRevision(a)
  BY <1>3 DEF CorrectionFails, SendReinspection, InspectRevision, CompletePlan,
      AdoptRevision, At
<1>4. ASSUME NEW p \in Plans,
             NEW op \in {"TICK", "SUBMIT", "CONFIRM", "WITHDRAW", "COMPARE", "ADOPT"},
             LoadPlan(a, p, op)
      PROVE  TakesOwn(a, CorrectionOps, CorrectionTasks)
  BY <1>4 DEF LoadPlan, Free, Idle
<1>5. ASSUME NEW p \in Plans, TakeCorrection(a, p)
      PROVE  TakesOwn(a, CorrectionOps, CorrectionTasks)
  <2>1. CorrectMessage(p) \in CorrectionTasks
    BY DEF CorrectionTasks
  <2>2. \E s : Receive(a, CorrectMessage(p), s)
    BY <1>5 DEF TakeCorrection
  <2> QED BY <2>1, <2>2, ReceivedIsOwn
<1>6. ASSUME NEW p \in Plans, TakeReinspection(a, p)
      PROVE  TakesOwn(a, CorrectionOps, CorrectionTasks)
  <2>1. ReinspectMessage(p) \in CorrectionTasks
    BY DEF CorrectionTasks
  <2>2. \E s : Receive(a, ReinspectMessage(p), s)
    BY <1>6 DEF TakeReinspection
  <2> QED BY <2>1, <2>2, ReceivedIsOwn
<1> QED BY <1>1, <1>2, <1>3, <1>4, <1>5, <1>6 DEF PlanHandler, Correct

LEMMA AutopilotTakeOwn ==
  ASSUME NEW a \in Actors,
         AutopilotHandler(a) \/ Advance(a) \/ \E m \in TickTasks : TakeTick(a, m)
  PROVE  TakesOwn(a, AutopilotOps, TickTasks)
<1> USE DEF TakesOwn, Sends, AutopilotOps, Purposes
<1>1. CASE LoadControl(a) \/ CommitControl(a) \/ LoadPolicy(a) \/ CommitPolicy(a)
  BY <1>1 DEF LoadControl, CommitControl, LoadPolicy, CommitPolicy, At, Free, Idle
<1>2. CASE CallDecision(a) \/ Consider(a) \/ EnterDecision(a) \/ DecisionCollides(a)
  BY <1>2 DEF CallDecision, Consider, EnterDecision, DecisionCollides, Free, Idle,
      EndInException
<1>3. CASE LookForSlot(a) \/ ReserveSlot(a)
  BY <1>3 DEF LookForSlot, ReserveSlot, At
<1>4. ASSUME NEW m \in TickTasks, TakeTick(a, m)
      PROVE  TakesOwn(a, AutopilotOps, TickTasks)
  BY <1>4 DEF TakeTick, Receive, Free, Idle
<1> QED BY <1>1, <1>2, <1>3, <1>4 DEF AutopilotHandler, Advance

LEMMA OperationsTakeOwn ==
  ASSUME NEW a \in Actors, OperationsHandler(a) \/ Operate(a) \/ TakeRefresh(a)
  PROVE  TakesOwn(a, OperationOps, {RefreshMessage})
<1> USE DEF TakesOwn, Sends, OperationOps
<1>1. CASE \/ CallRefresh(a) \/ LoadReports(a) \/ PostReport(a) \/ PostFails(a)
           \/ MarkDelivered(a)
  BY <1>1 DEF CallRefresh, LoadReports, PostReport, PostFails, MarkDelivered, At, Free, Idle
<1>2. CASE LeaveQuiet(a) \/ Refresh(a) \/ CreateReports(a) \/ TakeRefresh(a)
  BY <1>2 DEF LeaveQuiet, Refresh, CreateReports, TakeRefresh, Receive, At, Free, Idle
<1>3. CASE RefreshFails(a)
  BY <1>3 DEF RefreshFails, At, EndInException
<1> QED BY <1>1, <1>2, <1>3 DEF OperationsHandler, Operate

LEMMA PostsTakeOwn ==
  ASSUME NEW a \in Actors, PostsHandler(a)
  PROVE  TakesOwn(a, PostOps, {})
<1> USE DEF TakesOwn, Sends, PostOps
<1>1. CASE \/ LoadForPost(a) \/ RecordPost(a) \/ LoadMetrics(a) \/ CommitMetrics(a)
           \/ LoadCheckpoint(a) \/ UpdateCheckpoint(a)
  BY <1>1 DEF LoadForPost, RecordPost, LoadMetrics, CommitMetrics, LoadCheckpoint,
      UpdateCheckpoint, At, Free, Idle
<1> QED BY <1>1 DEF PostsHandler

LEMMA AdviceTakeOwn ==
  ASSUME NEW a \in Actors, AdviceHandler(a) \/ Advise(a) \/ TakeReport(a) \/ TakeAdvice(a)
  PROVE  TakesOwn(a, AdviceOps, {ReportMessage, AdviseMessage})
<1> USE DEF TakesOwn, Sends, AdviceOps, JudgingOps
<1>1. CASE \/ CallReport(a) \/ CallAdvice(a) \/ LoadAdvice(a) \/ SaveAdvice(a)
           \/ ReadEvidence(a) \/ CommitReport(a)
  BY <1>1 DEF CallReport, CallAdvice, LoadAdvice, SaveAdvice, ReadEvidence, AfterReport,
      CommitReport, Free, Idle, EndInException
<1>2. CASE CommitAdvice(a) \/ ReportInspection(a) \/ TakeReport(a) \/ TakeAdvice(a)
  BY <1>2 DEF CommitAdvice, ReportInspection, TakeReport, TakeAdvice, At, Receive, Free,
      Idle
<1> QED BY <1>1, <1>2 DEF AdviceHandler, Advise

LEMMA IngestionTakeOwn ==
  ASSUME NEW a \in Actors, IngestionHandler(a)
  PROVE  TakesOwn(a, IngestionOps, {})
<1> USE DEF TakesOwn, Sends, IngestionOps
<1>0. CASE SubmitUrl(a)
  BY <1>0 DEF SubmitUrl, Accepts, Free, Idle
<1>1. CASE CheckUrl(a) \/ FetchUrl(a)
  BY <1>1 DEF CheckUrl, FetchUrl, At
<1>2. CASE StoreUrl(a) \/ SubmitUpload(a) \/ ReceiveUpload(a)
  BY <1>2 DEF StoreUrl, SubmitUpload, Accepts, LoopFree, ReceiveUpload, At, Free, Idle
<1>3. CASE StoreUpload(a) \/ RegisterFeed(a) \/ FinishRegistration(a)
  BY <1>3 DEF StoreUpload, RegisterFeed, Accepts, LoopFree, FinishRegistration, At, Free,
      Idle
<1>4. CASE LoadFeed(a) \/ FinishValidation(a) \/ CommitFeedStatus(a)
  BY <1>4 DEF LoadFeed, Accepts, LoopFree, FinishValidation, CommitFeedStatus, At, Free,
      Idle
<1>5. CASE StartRun(a) \/ FinishRun(a) \/ RunFails(a)
  BY <1>5 DEF StartRun, FinishRun, LoopFree, RunFails, At
<1>6. CASE LoadItem(a) \/ CommitTransition(a)
  BY <1>6 DEF LoadItem, Accepts, LoopFree, CommitTransition, At, Free, Idle
<1> QED BY <1>0, <1>1, <1>2, <1>3, <1>4, <1>5, <1>6 DEF IngestionHandler

LEMMA DiscoveryTakeOwn ==
  ASSUME NEW a \in Actors, DiscoveryHandler(a) \/ Discover(a) \/ TakeDiscovery(a)
  PROVE  TakesOwn(a, DiscoveryOps, {DiscoverMessage})
<1> USE DEF TakesOwn, Sends, DiscoveryOps
<1>1. CASE \/ EnableChannel(a) \/ CallPoll(a) \/ LoadFinding(a) \/ CallProject(a)
           \/ LookForProject(a) \/ MakeProject(a)
  BY <1>1 DEF EnableChannel, CallPoll, LoadFinding, CallProject, LookForProject, Return,
      MakeProject, Free, Idle
<1>2. CASE \/ ProjectCollides(a) \/ ApproveMedia(a) \/ RejectMedia(a) \/ StartPoll(a)
           \/ PollAnswers(a) \/ InsertFound(a)
  BY <1>2 DEF ProjectCollides, ApproveMedia, RejectMedia, StartPoll, PollAnswers,
      InsertFound, At, EndInException
<1>3. CASE InsertCollides(a) \/ PollFails(a) \/ TakeDiscovery(a)
  BY <1>3 DEF InsertCollides, PollFails, TakeDiscovery, At, Receive, Free, Idle,
      EndInException
<1> QED BY <1>1, <1>2, <1>3 DEF DiscoveryHandler, Discover

LEMMA CommunityTakeOwn ==
  ASSUME NEW a \in Actors, CommunityHandler(a)
  PROVE  TakesOwn(a, BotOps, {})
<1> USE DEF TakesOwn, Sends, BotOps
<1>1. CASE \/ CallSetup(a) \/ PlaceItem(a) \/ CommitSetup(a) \/ ResetPreview(a)
           \/ CallReset(a) \/ DeleteObsolete(a)
  BY <1>1 DEF CallSetup, Called, Enter, PlaceItem, Resumes, CommitSetup, ResetPreview,
      CallReset, DeleteObsolete, At, Free, Idle, EndInException
<1>2. CASE \/ DeleteReplaced(a) \/ CommitReset(a) \/ CallPanels(a) \/ PostPanel(a)
           \/ CommitPanels(a) \/ CallAccept(a)
  BY <1>2 DEF DeleteReplaced, Resumes, CommitReset, CallPanels, Called, Enter, PostPanel,
      CommitPanels, CallAccept, At, Free, Idle, EndInException
<1>3. CASE \/ AcceptAtOnce(a) \/ GiveRole(a) \/ CommitAccept(a) \/ CallRoles(a)
           \/ ChangeRole(a) \/ CommitRoles(a)
  BY <1>3 DEF AcceptAtOnce, Called, GiveRole, Resumes, CommitAccept, CallRoles, Enter,
      ChangeRole, CommitRoles, At, Free, Idle, EndInException
<1>4. CASE \/ CallTicket(a) \/ OpenChannel(a) \/ FileTicket(a) \/ MoveTicket(a)
           \/ DraftNotice(a) \/ CallPublish(a)
  BY <1>4 DEF CallTicket, Called, Enter, OpenChannel, Resumes, FileTicket, MoveTicket,
      DraftNotice, CallPublish, At, Free, Idle, EndInException
<1>5. CASE \/ SendNotice(a) \/ CommitNotice(a) \/ CallModeration(a) \/ OpenCase(a)
           \/ AppealCase(a)
  BY <1>5 DEF SendNotice, Resumes, CommitNotice, CallModeration, Called, OpenCase,
      AppealCase, At, Free, Idle
<1> QED BY <1>1, <1>2, <1>3, <1>4, <1>5 DEF CommunityHandler

LEMMA ConnectionsTakeOwn ==
  ASSUME NEW a \in Actors, ConnectionsHandler(a) \/ Connect(a) \/ TakeTokens(a)
  PROVE  TakesOwn(a, ConnectionOps, {TokensMessage})
<1> USE DEF TakesOwn, Sends, ConnectionOps
<1>1. CASE \/ AskForTokens(a) \/ CallDisconnect(a) \/ RevokeTokens(a) \/ RecordDisconnect(a)
           \/ CallAuthorize(a)
  BY <1>1 DEF AskForTokens, CallDisconnect, RevokeTokens, RecordDisconnect, CallAuthorize,
      At, Free, Idle
<1>2. CASE \/ RecordState(a) \/ CallCallback(a) \/ ExchangeCode(a) \/ VerifyConnection(a)
           \/ RecordCallback(a)
  BY <1>2 DEF RecordState, CallCallback, ExchangeCode, VerifyConnection, RecordCallback, At,
      Free, Idle
<1>3. CASE \/ session[a].op \in ConnectionOps /\ (OpenFile(a) \/ WriteFile(a))
           \/ NoRefresh(a) \/ LockAccount(a) \/ ExchangeTokens(a)
  BY <1>3 DEF OpenFile, WriteFile, NoRefresh, LockAccount, ExchangeTokens, At
<1>4. CASE ExchangeFails(a) \/ RecordRefresh(a) \/ TakeTokens(a)
  BY <1>4 DEF ExchangeFails, RecordRefresh, TakeTokens, At, Receive, Free, Idle
<1> QED BY <1>1, <1>2, <1>3, <1>4 DEF ConnectionsHandler, Connect

(* The sessions that change were free or of one of Ops, and are again.     *)
Touches(Ops) ==
    /\ faults' \in {faults, faults + 1}
    /\ \A a \in Actors : \/ session'[a] = session[a]
                         \/ {session[a].op, session'[a].op} \subseteq Ops \cup {"IDLE"}

LEMMA OneTouches ==
  ASSUME NEW a \in Actors, NEW Ops, NEW Tasks, TakesOwn(a, Ops, Tasks), Moves(a, Ops)
  PROVE  Touches(Ops)
  BY DEF TakesOwn, Sends, Moves, OthersStay, Confined, Touches

LEMMA ActsTouch ==
  ASSUME Shaped
  PROVE  /\ UpstreamActs => Touches(UpstreamOps)
         /\ PackagesActs => Touches(PackageOps)
         /\ MediaActs => Touches(MediaOps)
         /\ CorrectionsActs => Touches(CorrectionOps)
         /\ OperationsActs => Touches(OperationOps)
         /\ AutopilotActs => Touches(AutopilotOps)
         /\ PostsActs => Touches(PostOps)
         /\ AdviceActs => Touches(AdviceOps)
         /\ IngestionActs => Touches(IngestionOps)
         /\ DiscoveryActs => Touches(DiscoveryOps)
         /\ CommunityActs => Touches(BotOps)
         /\ ConnectionsActs => Touches(ConnectionOps)
<1>0. \A o \in Operators \cup Workers : o \in Actors
  BY DEF Actors
<1>1. ASSUME UNCHANGED <<session, faults>>, NEW Ops
      PROVE  Touches(Ops)
  BY <1>1 DEF Touches
<1>2. ASSUME UpstreamActs PROVE Touches(UpstreamOps)
  <2>1. PICK a \in Actors :
           \/ ProductionHandler(a) \/ Download(a) \/ TakeFetch(a)
           \/ AnalysisHandler(a) \/ Analyse(a) \/ TakeAnalysis(a)
           \/ OpportunitiesHandler(a) \/ Generate(a) \/ Render(a) \/ TakeDetection(a)
           \/ \E o \in Opportunities : TakeRender(a, o)
    BY <1>2 DEF UpstreamActs, ProductionActs, AnalysisActs, OpportunitiesActs
  <2>2. Touches(ProductionOps) \/ Touches(AnalysisOps) \/ Touches(OpportunityOps)
    BY <2>1, OneTouches, ProductionMoves, AnalysisMoves, OpportunitiesMoves,
       ProductionTakeOwn, AnalysisTakeOwn, OpportunitiesTakeOwn
  <2> QED BY <2>2 DEF Touches, UpstreamOps
<1>3. ASSUME PackagesActs PROVE Touches(PackageOps)
  BY <1>3, OneTouches, PackagesMoves, PackagesTakeOwn DEF PackagesActs
<1>4. ASSUME MediaActs PROVE Touches(MediaOps)
  <2>1. CASE BeatCleanup \/ MediaTime
    BY <1>1, <2>1 DEF BeatCleanup, MediaTime, GrantEnds, DeadlinePasses, PublishingMoves
  <2> QED BY <1>0, <1>4, <2>1, OneTouches, MediaMoves, MediaTakeOwn DEF MediaActs
<1>5. ASSUME CorrectionsActs PROVE Touches(CorrectionOps)
  BY <1>5, OneTouches, CorrectionsMoves, CorrectionsTakeOwn DEF CorrectionsActs
<1>6. ASSUME AutopilotActs PROVE Touches(AutopilotOps)
  BY <1>0, <1>1, <1>6, OneTouches, AutopilotMoves, AutopilotTakeOwn
  DEF AutopilotActs, BeatAutopilot, TickTasks
<1>7. ASSUME PostsActs PROVE Touches(PostOps)
  BY <1>7, OneTouches, PostsMoves, PostsTakeOwn DEF PostsActs
<1>8. ASSUME AdviceActs PROVE Touches(AdviceOps)
  BY <1>8, OneTouches, AdviceMoves, AdviceTakeOwn DEF AdviceActs
<1>9. ASSUME IngestionActs PROVE Touches(IngestionOps)
  BY <1>0, <1>1, <1>9, OneTouches, IngestionMoves, IngestionTakeOwn DEF IngestionActs, FeedTime
<1>10. ASSUME DiscoveryActs PROVE Touches(DiscoveryOps)
  BY <1>1, <1>10, OneTouches, DiscoveryMoves, DiscoveryTakeOwn
  DEF DiscoveryActs, BeatDiscovery, PollTime
<1>11. ASSUME CommunityActs PROVE Touches(BotOps)
  <2>1. CASE RestartBot
    <3>1. \A a \in Actors : \/ session'[a] = session[a]
                            \/ session[a].op \in BotOps /\ session'[a] = Idle
      BY <2>1 DEF RestartBot
    <3> QED BY <2>1, <3>1 DEF RestartBot, Touches, Idle
  <2> QED BY <1>0, <1>11, <2>1, OneTouches, CommunityMoves, CommunityTakeOwn DEF CommunityActs
<1>12. ASSUME ConnectionsActs PROVE Touches(ConnectionOps)
  BY <1>1, <1>12, OneTouches, ConnectionsMoves, ConnectionsTakeOwn
  DEF ConnectionsActs, BeatTokens
<1>13. ASSUME OperationsActs PROVE Touches(OperationOps)
  BY <1>0, <1>1, <1>13, OneTouches, OperationsMoves, OperationsTakeOwn
  DEF OperationsActs, BeatRefresh
<1> QED BY <1>2, <1>3, <1>4, <1>5, <1>6, <1>7, <1>8, <1>9, <1>10, <1>11, <1>12, <1>13

LEMMA ActsSend ==
  /\ ProductionActs => Sends({FetchMessage})
  /\ AnalysisActs => Sends({AnalyseMessage})
  /\ OpportunitiesActs => Sends(RenderTasks)
  /\ PackagesActs => Sends({PackageMessage})
  /\ MediaActs => Sends({InspectMessage, CleanupMessage})
  /\ CorrectionsActs => Sends(CorrectionTasks)
  /\ OperationsActs => Sends({RefreshMessage})
  /\ AutopilotActs => Sends(TickTasks)
  /\ PostsActs => Sends({})
  /\ AdviceActs => Sends({ReportMessage, AdviseMessage})
  /\ IngestionActs => Sends({})
  /\ DiscoveryActs => Sends({DiscoverMessage})
  /\ CommunityActs => Sends({})
  /\ ConnectionsActs => Sends({TokensMessage})
  /\ FaultActs => Sends({})
<1>0. \A o \in Operators \cup Workers : o \in Actors
  BY DEF Actors
<1>1. ASSUME NEW Tasks, UNCHANGED <<faults, lost>>,
             UNCHANGED messages \/ \E m : messages' = Queued(m)
      PROVE  Sends(Tasks)
  BY <1>1 DEF Sends
<1>2. ASSUME NEW a, NEW Ops, NEW Tasks, TakesOwn(a, Ops, Tasks)
      PROVE  Sends(Tasks)
  BY <1>2 DEF TakesOwn
<1>3. /\ ProductionActs => Sends({FetchMessage})
      /\ AnalysisActs => Sends({AnalyseMessage})
      /\ OpportunitiesActs => Sends(RenderTasks)
  BY <1>2, ProductionTakeOwn, AnalysisTakeOwn, OpportunitiesTakeOwn
  DEF ProductionActs, AnalysisActs, OpportunitiesActs
<1>4. PackagesActs => Sends({PackageMessage})
  BY <1>2, PackagesTakeOwn DEF PackagesActs
<1>5. ASSUME MediaActs PROVE Sends({InspectMessage, CleanupMessage})
  <2>1. CASE BeatCleanup \/ MediaTime
    BY <1>1, <2>1 DEF BeatCleanup, MediaTime, GrantEnds, DeadlinePasses, PublishingMoves
  <2> QED BY <1>0, <1>2, <1>5, <2>1, MediaTakeOwn DEF MediaActs
<1>6. CorrectionsActs => Sends(CorrectionTasks)
  BY <1>2, CorrectionsTakeOwn DEF CorrectionsActs
<1>7. OperationsActs => Sends({RefreshMessage})
  BY <1>0, <1>1, <1>2, OperationsTakeOwn DEF OperationsActs, BeatRefresh
<1>8. AutopilotActs => Sends(TickTasks)
  BY <1>0, <1>1, <1>2, AutopilotTakeOwn DEF AutopilotActs, BeatAutopilot, TickTasks
<1>9. PostsActs => Sends({})
  BY <1>2, PostsTakeOwn DEF PostsActs
<1>10. AdviceActs => Sends({ReportMessage, AdviseMessage})
  BY <1>2, AdviceTakeOwn DEF AdviceActs
<1>11. IngestionActs => Sends({})
  BY <1>0, <1>1, <1>2, IngestionTakeOwn DEF IngestionActs, FeedTime
<1>12. DiscoveryActs => Sends({DiscoverMessage})
  BY <1>1, <1>2, DiscoveryTakeOwn DEF DiscoveryActs, BeatDiscovery, PollTime
<1>13. CommunityActs => Sends({})
  BY <1>0, <1>1, <1>2, CommunityTakeOwn DEF CommunityActs, RestartBot
<1>14. ConnectionsActs => Sends({TokensMessage})
  BY <1>1, <1>2, ConnectionsTakeOwn DEF ConnectionsActs, BeatTokens
<1>15. FaultActs => Sends({})
  BY DEF FaultActs, Fault, Crash, Unacknowledged, Uncaught, EndInException, Redeliver, Sends
<1> QED BY <1>3, <1>4, <1>5, <1>6, <1>7, <1>8, <1>9, <1>10, <1>11, <1>12, <1>13, <1>14, <1>15
-----------------------------------------------------------------------------
(* Content packages: the rows change in the component's own steps, and     *)
(* become STALE when a correction's revision is adopted.                   *)

LEMMA PackagesInvKept ==
  ASSUME PackagesInv, Shaped, [Next]_vars
  PROVE  PackagesInv'
<1>1. CASE PackagesActs
  BY <1>1, PackagesStep DEF PackagesActs
<1>2. CASE CorrectionsActs
  <2>1. CASE UNCHANGED packageRows
    BY <1>2, <2>1, ActsMove, PackagesUntouched DEF CorrectionOps, PackageOps
  <2>2. CASE ~UNCHANGED packageRows
    <3>1. PICK a \in Actors : AdoptRevision(a)
      BY <1>2, <2>2 DEF CorrectionsActs
    <3>2. package' = Outdated /\ UNCHANGED packageVersions /\ End(a)
      BY <2>2, <3>1 DEF AdoptRevision, packageRows
    <3>3. session'[a].op \notin PackageOps /\ OthersStay(a)
      BY <3>2, EndEffect DEF PackageOps
    <3> QED BY <3>2, <3>3, OtherIsFine, OutdatingKeeps
  <2> QED BY <2>1, <2>2
<1>3. CASE MediaActs \/ OperationsActs \/ AutopilotActs \/ PostsActs \/ AdviceActs
  <2>1. UNCHANGED packageRows
    BY <1>3
    DEF MediaActs, NotMedia, OperationsActs, NotOperations, AutopilotActs, NotAutopilot,
        PostsActs, NotPosts, AdviceActs, NotAdvice, care
  <2> QED
    BY <1>3, <2>1, ActsMove, PackagesUntouched
    DEF MediaOps, OperationOps, AutopilotOps, Purposes, PostOps, AdviceOps, PackageOps
<1>4. CASE IngestionActs \/ DiscoveryActs \/ AccountsActs \/ FaultActs
  <2>1. UNCHANGED packageRows
    BY <1>4
    DEF IngestionActs, NotIngestion, DiscoveryActs, NotDiscovery,
        AccountsActs, CommunityActs, ConnectionsActs, NotCommunity,
        NotConnections, FaultActs, Fault, care
  <2> QED
    BY <1>4, <2>1, ActsMove, PackagesUntouched
    DEF IngestionOps, DiscoveryOps, AccountOps, BotOps, ConnectionOps, PackageOps
<1>5. CASE UpstreamActs
  <2>1. UNCHANGED packageRows
    BY <1>5, UpstreamLeaves DEF care
  <2> QED
    BY <1>5, <2>1, ActsMove, PackagesUntouched
    DEF UpstreamOps, ProductionOps, AnalysisOps, OpportunityOps, PackageOps
<1>6. CASE UNCHANGED vars
  <2>1. UNCHANGED packageRows /\ Confined({})
    BY <1>6 DEF vars, care, Confined
  <2> QED BY <2>1, PackagesUntouched DEF PackageOps
<1> QED BY <1>1, <1>2, <1>3, <1>4, <1>5, <1>6, NextByComponents

LEMMA Beginning ==
  ASSUME Init
  PROVE  Shaped /\ \A a \in Actors : session[a] = Idle
  BY DEF Init, CeleryInit, Shaped, Idle

(* The invariant of packages, their histories and the copies of them is   *)
(* inductive.                                                              *)
THEOREM PackagesInductive == Spec => [](Shaped /\ PackagesInv)
<1>1. Init => Shaped /\ PackagesInv
  BY Beginning, PackagesInitially DEF Init
<1>2. Shaped /\ PackagesInv /\ [Next]_vars => (Shaped /\ PackagesInv)'
  BY ShapeKept, PackagesInvKept
<1> QED BY <1>1, <1>2, PTL DEF Spec

(* Packages, their versions and their histories keep their types.          *)
THEOREM PackagesAreTyped == Spec => []PackagesTypeOK
  BY PackagesInductive, PackagesInvIsEnough, PTL

(* However many people edit, decide and regenerate at once, the history of *)
(* a package has every version up to the package's once, and ends with it. *)
THEOREM HistoryIsComplete == Spec => []PackageHistory
  BY PackagesInductive, PackagesInvIsEnough, PTL

(* What reads APPROVED has the fields that a reviewer approved.            *)
THEOREM ReviewedWasApproved == Spec => []ReviewedIsApproved
  BY PackagesInductive, PackagesInvIsEnough, PTL
-----------------------------------------------------------------------------
(* Media: no other component writes the clip's row or its file.            *)

LEMMA MediaInvKept ==
  ASSUME MediaInv, Shaped, [Next]_vars
  PROVE  MediaInv'
<1>1. CASE MediaActs
  <2>1. CASE BeatCleanup
    <3>1. UNCHANGED mediaRows /\ Confined({})
      BY <2>1 DEF BeatCleanup, Confined
    <3> QED BY <3>1, MediaUntouched
  <2>2. \A o \in Operators \cup Workers : o \in Actors
    BY DEF Actors
  <2> QED BY <1>1, <2>1, <2>2, MediaStep, MediaTimeStep DEF MediaActs
<1>2. CASE FaultActs
  BY <1>2, MediaFault DEF FaultActs, Fault, Crash, Uncaught, EndInException, Redeliver
<1>3. CASE PackagesActs \/ CorrectionsActs \/ OperationsActs \/ AutopilotActs \/ PostsActs
  <2>1. UNCHANGED mediaRows
    BY <1>3
    DEF PackagesActs, NotPackages, CorrectionsActs, NotPlans, OperationsActs, NotOperations,
        AutopilotActs, NotAutopilot, PostsActs, NotPosts, care
  <2> QED
    BY <1>3, <2>1, ActsMove, MediaUntouched
    DEF PackageOps, CorrectionOps, OperationOps, AutopilotOps, Purposes, PostOps
<1>4. CASE AdviceActs \/ IngestionActs \/ DiscoveryActs \/ AccountsActs
  <2>1. UNCHANGED mediaRows
    BY <1>4
    DEF AdviceActs, NotAdvice, IngestionActs, NotIngestion, DiscoveryActs, NotDiscovery,
        AccountsActs, CommunityActs, ConnectionsActs, NotCommunity, NotConnections, care
  <2> QED
    BY <1>4, <2>1, ActsMove, MediaUntouched
    DEF AdviceOps, IngestionOps, DiscoveryOps, AccountOps, BotOps, ConnectionOps
<1>5. CASE UpstreamActs
  <2>1. UNCHANGED mediaRows
    BY <1>5, UpstreamLeaves DEF care
  <2> QED
    BY <1>5, <2>1, ActsMove, MediaUntouched
    DEF UpstreamOps, ProductionOps, AnalysisOps, OpportunityOps
<1>6. CASE UNCHANGED vars
  <2>1. UNCHANGED mediaRows /\ Confined({})
    BY <1>6 DEF vars, care, Confined
  <2> QED BY <2>1, MediaUntouched
<1> QED BY <1>1, <1>2, <1>3, <1>4, <1>5, <1>6, NextByComponents

(* A step that writes the clip's row keeps the hold.                       *)
LEMMA HoldKeptByNext ==
  ASSUME MediaInv, Shaped, [Next]_vars
  PROVE  [HoldKept]_asset
<1>1. CASE MediaActs
  <2>1. CASE MediaTime
    <3>1. asset' = asset \/ asset' = [asset EXCEPT !.due = TRUE]
      BY <2>1 DEF MediaTime, GrantEnds, DeadlinePasses, PublishingMoves
    <3>2. asset'.kept = asset.kept /\ asset'.hold = asset.hold
      BY <3>1 DEF MediaInv, MediaTypeOK, Asset
    <3> QED BY <3>2 DEF HoldKept
  <2>2. CASE BeatCleanup \/ \E w \in Workers : TakeInspection(w) \/ TakeCleanup(w)
    BY <2>2 DEF BeatCleanup, TakeInspection, TakeCleanup, mediaRows
  <2> QED
    BY <1>1, <2>1, <2>2, HandlersKeepHolds, PassesKeepHolds, InspectionsKeepHolds DEF MediaActs
<1>2. CASE \/ PackagesActs \/ CorrectionsActs \/ OperationsActs \/ AutopilotActs \/ PostsActs
           \/ AdviceActs \/ UNCHANGED vars
  BY <1>2
  DEF PackagesActs, NotPackages, CorrectionsActs, NotPlans, OperationsActs, NotOperations,
      AutopilotActs, NotAutopilot, PostsActs, NotPosts, AdviceActs, NotAdvice, vars, care,
      mediaRows
<1>3. CASE \/ UpstreamActs \/ IngestionActs \/ DiscoveryActs \/ AccountsActs \/ FaultActs
  BY <1>3, UpstreamLeaves
  DEF IngestionActs, NotIngestion, DiscoveryActs, NotDiscovery,
      AccountsActs, CommunityActs, ConnectionsActs,
      NotCommunity, NotConnections, FaultActs, Fault, care, mediaRows
<1> QED BY <1>1, <1>2, <1>3, NextByComponents

(* The invariant that relates assets, files and inspections to the         *)
(* sessions of media is inductive.                                         *)
THEOREM MediaInductive == Spec => [](Shaped /\ MediaInv)
<1>1. Init => Shaped /\ MediaInv
  BY Beginning, MediaInitially DEF Init
<1>2. Shaped /\ MediaInv /\ [Next]_vars => (Shaped /\ MediaInv)'
  BY ShapeKept, MediaInvKept
<1> QED BY <1>1, <1>2, PTL DEF Spec

(* Media that is held is not recorded as deleted.  An operator's hold on   *)
(* media nobody held ends only when an operator ends it, whatever overlaps *)
(* it; one that was accepted while an inspection held the media ends so, or*)
(* with an inspection that had found no hold.                              *)
THEOREM HoldsSurvive == Spec => HoldsAreKept
<1>1. Shaped /\ MediaInv /\ [Next]_vars => [HoldKept]_asset
  BY HoldKeptByNext
<1>2. Spec => [][HoldKept]_asset
  BY <1>1, MediaInductive, PTL DEF Spec
<1> QED BY <1>2 DEF HoldsAreKept, HoldKept
-----------------------------------------------------------------------------
(* What goes on beside the making of a clip.  The rows of a component of   *)
(* the office are written by its own steps only.                           *)

LEMMA OfficeRowsKept ==
  ASSUME [Next]_vars
  PROVE  /\ CorrectionsActs \/ UNCHANGED planRows
         /\ OperationsActs \/ UNCHANGED operationsRows
         /\ AutopilotActs \/ UNCHANGED autopilotRows
         /\ PostsActs \/ UNCHANGED postRows
         /\ AdviceActs \/ UNCHANGED adviceRows
         /\ IngestionActs \/ UNCHANGED ingestionRows
         /\ DiscoveryActs \/ UNCHANGED discoveryRows
<1>1. CASE UpstreamActs \/ PackagesActs \/ MediaActs \/ FaultActs \/ UNCHANGED vars
  BY <1>1, UpstreamLeaves
  DEF PackagesActs, NotPackages, MediaActs, NotMedia, FaultActs, Fault, vars,
      office, intake
<1>2. CASE CorrectionsActs
  BY <1>2 DEF CorrectionsActs, NotPlans, intake
<1>3. CASE OperationsActs
  BY <1>3 DEF OperationsActs, NotOperations, intake
<1>4. CASE AutopilotActs
  BY <1>4 DEF AutopilotActs, NotAutopilot, intake
<1>5. CASE PostsActs
  BY <1>5 DEF PostsActs, NotPosts, intake
<1>6. CASE AdviceActs
  BY <1>6 DEF AdviceActs, NotAdvice, intake
<1>7. CASE IngestionActs
  BY <1>7 DEF IngestionActs, NotIngestion
<1>8. CASE DiscoveryActs
  BY <1>8 DEF DiscoveryActs, NotDiscovery
<1>9. CASE AccountsActs
  BY <1>9 DEF AccountsActs, CommunityActs, ConnectionsActs, NotCommunity, NotConnections
<1> QED BY <1>1, <1>2, <1>3, <1>4, <1>5, <1>6, <1>7, <1>8, <1>9, NextByComponents

(* And of another component's step come no sessions of its operations.     *)
Foreign(Ops) == \E Others : Confined(Others) /\ (Others \cup {"IDLE"}) \cap Ops = {}

LEMMA OfficeSessionsKept ==
  ASSUME Shaped, [Next]_vars
  PROVE  /\ OperationsActs \/ Foreign(OperationOps)
         /\ AutopilotActs \/ Foreign(AutopilotOps)
         /\ PostsActs \/ Foreign(PostOps)
         /\ AdviceActs \/ Foreign(JudgingOps \cup {"ADVISE"})
         /\ IngestionActs \/ Foreign(IngestionOps)
         /\ DiscoveryActs \/ Foreign(DiscoveryOps)
<1> USE DEF OperationOps, AutopilotOps, Purposes, PostOps, JudgingOps, IngestionOps, DiscoveryOps
<1>1. ASSUME NEW Others, Confined(Others), "IDLE" \notin Others, NEW Ops, "IDLE" \notin Ops,
             Others \cap Ops = {}
      PROVE  Foreign(Ops)
  BY <1>1 DEF Foreign
<1>2. CASE UpstreamActs
  <2>1. Confined(UpstreamOps)
    BY <1>2, ActsMove
  <2> QED BY <1>1, <2>1 DEF UpstreamOps, ProductionOps, AnalysisOps, OpportunityOps
<1>3. CASE PackagesActs
  <2>1. Confined(PackageOps)
    BY <1>3, ActsMove
  <2> QED BY <1>1, <2>1 DEF PackageOps
<1>4. CASE MediaActs
  <2>1. Confined(MediaOps)
    BY <1>4, ActsMove
  <2> QED BY <1>1, <2>1 DEF MediaOps
<1>5. CASE CorrectionsActs
  <2>1. Confined(CorrectionOps)
    BY <1>5, ActsMove
  <2> QED BY <1>1, <2>1 DEF CorrectionOps
<1>6. CASE OperationsActs
  <2>1. Confined(OperationOps)
    BY <1>6, ActsMove
  <2> QED BY <1>1, <1>6, <2>1
<1>7. CASE AutopilotActs
  <2>1. Confined(AutopilotOps)
    BY <1>7, ActsMove
  <2> QED BY <1>1, <1>7, <2>1
<1>8. CASE PostsActs
  <2>1. Confined(PostOps)
    BY <1>8, ActsMove
  <2> QED BY <1>1, <1>8, <2>1
<1>9. CASE AdviceActs
  <2>1. Confined(AdviceOps)
    BY <1>9, ActsMove
  <2> QED BY <1>1, <1>9, <2>1 DEF AdviceOps
<1>10. CASE IngestionActs
  <2>1. Confined(IngestionOps)
    BY <1>10, ActsMove
  <2> QED BY <1>1, <1>10, <2>1
<1>11. CASE DiscoveryActs
  <2>1. Confined(DiscoveryOps)
    BY <1>11, ActsMove
  <2> QED BY <1>1, <1>11, <2>1
<1>12. CASE AccountsActs
  <2>1. Confined(AccountOps)
    BY <1>12, ActsMove
  <2> QED BY <1>1, <2>1 DEF AccountOps, BotOps, ConnectionOps
<1>13. CASE FaultActs \/ UNCHANGED vars
  <2>1. Confined({})
    BY <1>13, ActsMove DEF vars, Confined
  <2> QED BY <1>1, <2>1
<1> QED
  BY <1>2, <1>3, <1>4, <1>5, <1>6, <1>7, <1>8, <1>9, <1>10, <1>11, <1>12, <1>13,
     NextByComponents
-----------------------------------------------------------------------------
(* Autopilot. *)

LEMMA AutopilotInvKept ==
  ASSUME AutopilotInv, Shaped, [Next]_vars
  PROVE  AutopilotInv'
<1>1. CASE AutopilotActs
  <2>1. \A o \in Operators \cup Workers : o \in Actors
    BY DEF Actors
  <2>2. CASE BeatAutopilot
    <3>1. UNCHANGED autopilotRows /\ Confined({})
      BY <2>2 DEF BeatAutopilot, Confined
    <3> QED BY <3>1, AutopilotUntouched DEF AutopilotOps, Purposes
  <2> QED BY <1>1, <2>1, <2>2, AutopilotStep DEF AutopilotActs
<1>2. CASE ~AutopilotActs
  <2>1. UNCHANGED autopilotRows /\ Foreign(AutopilotOps)
    BY <1>2, OfficeRowsKept, OfficeSessionsKept
  <2> QED BY <2>1, AutopilotUntouched DEF Foreign
<1> QED BY <1>1, <1>2

LEMMA LiftedKnowinglyByNext ==
  ASSUME AutopilotInv, [Next]_vars
  PROVE  [LiftedKnowingly]_control
<1>1. CASE AutopilotActs
  <2>1. CASE \E o \in Operators : AutopilotHandler(o)
    BY <2>1, HandlersLiftKnowingly
  <2>2. CASE UNCHANGED control
    BY <2>2
  <2>3. CASE \E a \in Actors : Advance(a) \/ \E m \in Messages : TakeTick(a, m)
    BY <2>2, <2>3
    DEF Advance, Consider, EnterDecision, DecisionCollides, TakeTick, autopilotRows
  <2> QED BY <1>1, <2>1, <2>2, <2>3 DEF AutopilotActs, BeatAutopilot, autopilotRows
<1>2. CASE ~AutopilotActs
  BY <1>2, OfficeRowsKept DEF autopilotRows
<1> QED BY <1>1, <1>2

(* The invariant of policies, controls and decisions is inductive.         *)
THEOREM AutopilotInductive == Spec => [](Shaped /\ AutopilotInv)
<1>1. Init => Shaped /\ AutopilotInv
  BY Beginning, AutopilotInitially DEF Init
<1>2. Shaped /\ AutopilotInv /\ [Next]_vars => (Shaped /\ AutopilotInv)'
  BY ShapeKept, AutopilotInvKept
<1> QED BY <1>1, <1>2, PTL DEF Spec

(* Every decision that allows something follows from a policy that was in  *)
(* force, and every slot of the schedule from such a decision.             *)
THEOREM DecisionsAreTraceable == Spec => []DecisionsTraceable
  BY AutopilotInductive, AutopilotInvIsEnough, PTL

(* An emergency stop is lifted only by an operator who saw it.             *)
THEOREM StopIsLiftedKnowingly == Spec => StopLiftedKnowingly
<1>1. Shaped /\ AutopilotInv /\ [Next]_vars => [LiftedKnowingly]_control
  BY LiftedKnowinglyByNext
<1>2. Spec => [][LiftedKnowingly]_control
  BY <1>1, AutopilotInductive, PTL DEF Spec
<1> QED BY <1>2 DEF StopLiftedKnowingly, LiftedKnowingly

-----------------------------------------------------------------------------
(* Recommendations. *)

LEMMA AdviceInvKept ==
  ASSUME AdviceInv, Shaped, [Next]_vars
  PROVE  AdviceInv' /\ [StaysDecided]_advice
<1>1. CASE AdviceActs
  BY <1>1, AdviceStep DEF AdviceActs
<1>2. CASE ~AdviceActs
  <2>1. UNCHANGED adviceRows /\ Foreign(JudgingOps \cup {"ADVISE"})
    BY <1>2, OfficeRowsKept, OfficeSessionsKept
  <2> QED BY <2>1, AdviceUntouched DEF Foreign, adviceRows
<1> QED BY <1>1, <1>2

(* The invariant of recommendations and the copies of them is inductive.   *)
THEOREM AdviceInductive == Spec => [](Shaped /\ AdviceInv)
<1>1. Init => Shaped /\ AdviceInv
  BY Beginning, AdviceInitially DEF Init
<1>2. Shaped /\ AdviceInv /\ [Next]_vars => (Shaped /\ AdviceInv)'
  BY ShapeKept, AdviceInvKept
<1> QED BY <1>1, <1>2, PTL DEF Spec

(* A recommendation that was approved or rejected is never pending again.  *)
THEOREM DecidedAdviceStays == Spec => AdviceStaysDecided
<1>1. Shaped /\ AdviceInv /\ [Next]_vars => [StaysDecided]_advice
  BY AdviceInvKept
<1>2. Spec => [][StaysDecided]_advice
  BY <1>1, AdviceInductive, PTL DEF Spec
<1> QED BY <1>2 DEF AdviceStaysDecided, StaysDecided

-----------------------------------------------------------------------------
(* Discovery. *)

LEMMA DiscoveryInvKept ==
  ASSUME DiscoveryInv, Shaped, [Next]_vars
  PROVE  DiscoveryInv'
<1>1. CASE DiscoveryActs
  <2>1. CASE BeatDiscovery
    <3>1. UNCHANGED discoveryRows /\ Confined({})
      BY <2>1 DEF BeatDiscovery, Confined
    <3> QED BY <3>1, DiscoveryUntouched DEF DiscoveryOps
  <2> QED BY <1>1, <2>1, DiscoveryStep, PollTimeKeeps DEF DiscoveryActs
<1>2. CASE ~DiscoveryActs
  <2>1. UNCHANGED discoveryRows /\ Foreign(DiscoveryOps)
    BY <1>2, OfficeRowsKept, OfficeSessionsKept
  <2> QED BY <2>1, DiscoveryUntouched DEF Foreign
<1> QED BY <1>1, <1>2

(* A video has one project at most, and what reads PROJECT_CREATED has it. *)
THEOREM OneProjectEach == Spec => []OneProjectPerVideo
<1>1. Init => Shaped /\ DiscoveryInv
  BY Beginning, DiscoveryInitially DEF Init
<1>2. Shaped /\ DiscoveryInv /\ [Next]_vars => (Shaped /\ DiscoveryInv)'
  BY ShapeKept, DiscoveryInvKept
<1>3. DiscoveryInv => OneProjectPerVideo
  BY DiscoveryInvIsEnough
<1> QED BY <1>1, <1>2, <1>3, PTL DEF Spec

-----------------------------------------------------------------------------
(* Posts by hand, which rest on the history of packages.                   *)

LEMMA PackagesGrowHistory ==
  ASSUME PackagesInv, NEW a \in Actors, PackagesHandler(a) \/ WriteUp(a) \/ TakePackage(a)
  PROVE  HistoryGrows
<1>1. packageVersions \in [Generations -> SUBSET PackageVersion]
  BY DEF PackagesInv
<1>2. ASSUME NEW g, NEW p, RecordVersion(g, p)
      PROVE  HistoryGrows
  BY <1>1, <1>2 DEF RecordVersion, HistoryGrows
<1>3. CASE UNCHANGED packageVersions
  BY <1>3 DEF HistoryGrows
<1>4. CASE RequestPackage(a) /\ Adds(session[a])
  <2>1. PICK next : next = session[a].latest + 1
    OBVIOUS
  <2>2. package[next].status = "ABSENT"
    BY <1>4, <2>1 DEF RequestPackage, Collides
  <2>3. next \in Generations => packageVersions[next] = {}
    BY <2>2 DEF PackagesInv, Sound, Gapless, NoPackage
  <2>4. ASSUME NEW h \in Generations, h # next
        PROVE  packageVersions[h] \subseteq packageVersions'[h]
    BY <1>4, <2>1, <2>4 DEF RequestPackage
  <2> QED BY <2>3, <2>4 DEF HistoryGrows
<1>5. RequestPackage(a) /\ ~Adds(session[a]) => UNCHANGED packageVersions
  BY DEF RequestPackage, packageRows
<1>6. CASE FirstPackage(a) \/ WritePackage(a) \/ PackageFails(a) \/ ReviewPackage(a)
  BY <1>2, <1>3, <1>6 DEF FirstPackage, WritePackage, PackageFails, ReviewPackage, packageRows
<1>7. \/ RequestPackage(a) \/ FirstPackage(a) \/ WritePackage(a) \/ PackageFails(a)
      \/ ReviewPackage(a) \/ UNCHANGED packageVersions
  BY DEF PackagesHandler, WriteUp, TakePackage, LoadForPackage, RequestCollides, SendPackage,
         LoadForPackageReview, ReviewCollides, SelectRevision, LeavePackage, StartPackage,
         packageRows
<1> QED BY <1>3, <1>4, <1>5, <1>6, <1>7

LEMMA HistoryOnlyGrows ==
  ASSUME PackagesInv, [Next]_vars
  PROVE  HistoryGrows
<1>1. CASE PackagesActs
  BY <1>1, PackagesGrowHistory DEF PackagesActs
<1>2. CASE UNCHANGED packageVersions
  BY <1>2 DEF HistoryGrows
<1>3. CorrectionsActs => UNCHANGED packageVersions
  BY DEF CorrectionsActs, AdoptRevision, packageRows
<1>4. MediaActs \/ OperationsActs \/ AutopilotActs \/ PostsActs \/ AdviceActs \/ UNCHANGED vars
         => UNCHANGED packageVersions
  BY DEF MediaActs, NotMedia, OperationsActs, NotOperations, AutopilotActs, NotAutopilot,
         PostsActs, NotPosts, AdviceActs, NotAdvice, vars, care, packageRows
<1>5. UpstreamActs \/ IngestionActs \/ DiscoveryActs \/ AccountsActs \/ FaultActs
         => UNCHANGED packageVersions
  BY UpstreamLeaves
  DEF IngestionActs, NotIngestion, DiscoveryActs, NotDiscovery,
      AccountsActs, CommunityActs, ConnectionsActs,
         NotCommunity, NotConnections, FaultActs, Fault, care, packageRows
<1> QED BY <1>1, <1>2, <1>3, <1>4, <1>5, NextByComponents

LEMMA PostsInvKept ==
  ASSUME PostsInv, PackagesInv, Shaped, [Next]_vars
  PROVE  PostsInv'
<1>1. CASE PostsActs
  <2>1. UNCHANGED packageRows
    BY <1>1 DEF PostsActs, NotPosts, care
  <2> QED BY <1>1, <2>1, PackagesInvIsEnough, PostsStep DEF PostsActs
<1>2. CASE ~PostsActs
  <2>1. UNCHANGED postRows /\ Foreign(PostOps)
    BY <1>2, OfficeRowsKept, OfficeSessionsKept
  <2> QED BY <2>1, HistoryOnlyGrows, PostsUntouched DEF Foreign
<1> QED BY <1>1, <1>2

(* A recorded post names an approved version of a package, and has all its *)
(* checkpoints.                                                            *)
THEOREM PostsAreTraceable == Spec => []PostsTraceable
<1>1. Init => PostsInv
  BY Beginning, PostsInitially DEF Init
<1>2. Shaped /\ PackagesInv /\ PostsInv /\ [Next]_vars => PostsInv'
  BY PostsInvKept
<1>3. PostsInv => PostsTraceable
  BY DEF PostsInv
<1> QED BY <1>1, <1>2, <1>3, PackagesInductive, PTL DEF Spec

-----------------------------------------------------------------------------
(* Intake. *)

LEMMA IngestionInvKept ==
  ASSUME IngestionInv, Shaped, [Next]_vars
  PROVE  IngestionInv' /\ [FollowsLifecycle]_content
<1>1. CASE IngestionActs
  BY <1>1, IngestionStep, FeedTimeKeeps DEF IngestionActs
<1>2. CASE ~IngestionActs
  <2>1. UNCHANGED ingestionRows /\ Foreign(IngestionOps)
    BY <1>2, OfficeRowsKept, OfficeSessionsKept
  <2> QED BY <2>1, IngestionUntouched DEF Foreign, ingestionRows
<1> QED BY <1>1, <1>2

(* The invariant of intake is inductive. *)
THEOREM IngestionInductive == Spec => [](Shaped /\ IngestionInv)
<1>1. Init => Shaped /\ IngestionInv
  BY Beginning, IngestionInitially DEF Init
<1>2. Shaped /\ IngestionInv /\ [Next]_vars => (Shaped /\ IngestionInv)'
  BY ShapeKept, IngestionInvKept
<1> QED BY <1>1, <1>2, PTL DEF Spec

(* No entry of the feed and no file comes in twice, the item of a file has *)
(* its file, and a job that succeeded its item.                            *)
THEOREM ContentComesInOnce == Spec => []IngestedOnce
<1>1. IngestionInv => IngestedOnce
  BY DEF IngestionInv, ItemsFine
<1> QED BY <1>1, IngestionInductive, PTL

(* However many people decide at once, an item goes through the            *)
(* lifecycle's transitions only.                                           *)
THEOREM LifecycleIsFollowed == Spec => ContentFollowsLifecycle
<1>1. Shaped /\ IngestionInv /\ [Next]_vars => [FollowsLifecycle]_content
  BY IngestionInvKept
<1>2. Spec => [][FollowsLifecycle]_content
  BY <1>1, IngestionInductive, PTL DEF Spec
<1> QED BY <1>2 DEF ContentFollowsLifecycle, FollowsLifecycle

-----------------------------------------------------------------------------
(* The review of opportunities. *)

(* Production and corrections insert clips while there is room, the others *)
(* leave them.                                                             *)
LEMMA ClipsStaySequence ==
  ASSUME clips \in Seq(Clip), [Next]_vars, ~OpportunitiesActs
  PROVE  clips' \in Seq(Clip) /\ (UNCHANGED clips \/ Len(clips') <= MaxClips)
<1>1. CASE ProductionActs
  <2>1. PICK a \in Actors : ProductionHandler(a) \/ Download(a) \/ TakeFetch(a)
    BY <1>1 DEF ProductionActs
  <2>2. CASE UNCHANGED clips
    BY <2>2
  <2>3. CASE GenerateClips(a)
    <3>1. ASSUME NEW ok \in BOOLEAN, clips' = <<[opportunity |-> None, rendered |-> ok]>>
          PROVE  clips' \in Seq(Clip) /\ Len(clips') <= MaxClips
      <4>1. PICK row : row = [opportunity |-> None, rendered |-> ok]
        OBVIOUS
      <4>2. row \in Clip
        BY <4>1 DEF Clip
      <4> QED BY <3>1, <4>1, <4>2, ProductionAssumption
    <3> QED BY <2>3, <3>1 DEF GenerateClips
  <2> QED
    BY <2>1, <2>2, <2>3
    DEF ProductionHandler, CreateProject, ResolveSources, LoadForDecision, AcceptSource,
        SendAccepted, RejectSource, LoadForChoice, ChooseSource, LoadForDownload,
        ReturnDownload, LoadForClips, Download, RefuseDownload, SkipRejected, AlreadyFetched,
        StartDownload, AttachSource, DownloadFails, TakeFetch
<1>2. CASE AnalysisActs
  <2>1. PICK a \in Actors : AnalysisHandler(a) \/ Analyse(a) \/ TakeAnalysis(a)
    BY <1>2 DEF AnalysisActs
  <2> QED
    BY <2>1
    DEF AnalysisHandler, LoadForAnalysis, RequestAnalysis, AlreadyRequested, SendAnalysis,
        CancelAnalysis, FetchedRequestsAnalysis, FetchedSendsAnalysis, AnalysisUnchanged,
        TakeAnalysis, LeaveAnalysis, FindCompleted, StartAnalysis, AnalyseVideo, WriteTimeline,
        WriteTranscript, WriteText, CompleteAnalysis, SendDetection, AnalysisFails, Analyse
<1>3. CASE CorrectionsActs
  <2>1. CASE UNCHANGED clips
    BY <2>1
  <2>2. ASSUME NEW w \in Actors, RenderRevision(w)
        PROVE  clips' \in Seq(Clip) /\ Len(clips') <= MaxClips
    <3>1. PICK row : row = [opportunity |-> None, rendered |-> TRUE]
      OBVIOUS
    <3>2. row \in Clip
      BY <3>1 DEF Clip
    <3>3. clips' = Append(clips, row) /\ Len(clips) + 1 <= MaxClips
      BY <2>2, <3>1 DEF RenderRevision, InsertClip, NextNumber
    <3> QED BY <3>2, <3>3
  <2>3. ASSUME NEW a \in Actors,
               \/ PlanHandler(a) \/ AdoptRevision(a)
               \/ \E p \in Plans : TakeCorrection(a, p) \/ TakeReinspection(a, p)
        PROVE  UNCHANGED clips
    BY <2>3
    DEF PlanHandler, AdoptRevision, TakeCorrection, TakeReinspection, LoadForPlan, CreatePlan,
        LoadPlan, SelectAction, SubmitPlan, CancelPlan, ConfirmPlan, SendCorrection, ComparePlan
  <2>4. ASSUME NEW a \in Actors, Correct(a), ~RenderRevision(a)
        PROVE  UNCHANGED clips
    BY <2>4 DEF Correct, LeaveCorrection, RefuseCorrection, StartCorrection, CorrectionFails,
                SendReinspection, InspectRevision, CompletePlan
  <2> QED BY <1>3, <2>1, <2>2, <2>3, <2>4 DEF CorrectionsActs
<1>4. CASE PackagesActs \/ MediaActs \/ FaultActs \/ UNCHANGED vars
  BY <1>4 DEF PackagesActs, NotPackages, MediaActs, NotMedia, FaultActs, Fault, vars, rows
<1>5. CASE OperationsActs \/ AutopilotActs \/ PostsActs \/ AdviceActs
  BY <1>5 DEF OperationsActs, NotOperations, AutopilotActs, NotAutopilot, PostsActs, NotPosts,
              AdviceActs, NotAdvice, rows
<1>6. CASE IngestionActs \/ DiscoveryActs \/ AccountsActs
  BY <1>6 DEF IngestionActs, NotIngestion, DiscoveryActs, NotDiscovery,
          AccountsActs, CommunityActs, ConnectionsActs,
              NotCommunity, NotConnections, rows
<1> QED BY <1>1, <1>2, <1>3, <1>4, <1>5, <1>6, NextByComponents DEF UpstreamActs

LEMMA ReviewRowsKept ==
  ASSUME [Next]_vars, ~OpportunitiesActs
  PROVE  UNCHANGED <<run, opportunity, versions>>
<1>1. CASE ProductionActs \/ AnalysisActs
  BY <1>1 DEF ProductionActs, AnalysisActs, Later
<1>2. CASE CorrectionsActs
  BY <1>2 DEF CorrectionsActs, NotPlans
<1>3. CASE PackagesActs \/ MediaActs \/ FaultActs \/ UNCHANGED vars
  BY <1>3 DEF PackagesActs, NotPackages, MediaActs, NotMedia, FaultActs, Fault, vars, rows
<1>4. CASE OperationsActs \/ AutopilotActs \/ PostsActs \/ AdviceActs
  BY <1>4 DEF OperationsActs, NotOperations, AutopilotActs, NotAutopilot, PostsActs, NotPosts,
              AdviceActs, NotAdvice, rows
<1>5. CASE IngestionActs \/ DiscoveryActs \/ AccountsActs
  BY <1>5 DEF IngestionActs, NotIngestion, DiscoveryActs, NotDiscovery,
          AccountsActs, CommunityActs, ConnectionsActs,
              NotCommunity, NotConnections, rows
<1> QED BY <1>1, <1>2, <1>3, <1>4, <1>5, NextByComponents DEF UpstreamActs

LEMMA ReviewSessionsKept ==
  ASSUME Shaped, [Next]_vars, ~OpportunitiesActs
  PROVE  Foreign(OpportunityOps)
<1>1. ASSUME NEW Others, Confined(Others), "IDLE" \notin Others, Others \cap OpportunityOps = {}
      PROVE  Foreign(OpportunityOps)
  BY <1>1 DEF Foreign, OpportunityOps
<1>2. CASE ProductionActs
  <2>1. PICK a \in Actors : ProductionHandler(a) \/ Download(a) \/ TakeFetch(a)
    BY <1>2 DEF ProductionActs
  <2>2. Confined(ProductionOps)
    BY <2>1, ProductionMoves DEF Moves
  <2> QED BY <1>1, <2>2 DEF OpportunityOps, ProductionOps
<1>3. CASE AnalysisActs
  <2>1. PICK a \in Actors : AnalysisHandler(a) \/ Analyse(a) \/ TakeAnalysis(a)
    BY <1>3 DEF AnalysisActs
  <2>2. Confined(AnalysisOps)
    BY <2>1, AnalysisMoves DEF Moves
  <2> QED BY <1>1, <2>2 DEF OpportunityOps, AnalysisOps
<1>4. CASE PackagesActs
  BY <1>1, <1>4, ActsMove DEF OpportunityOps, PackageOps
<1>5. CASE MediaActs
  BY <1>1, <1>5, ActsMove DEF OpportunityOps, MediaOps
<1>6. CASE CorrectionsActs
  BY <1>1, <1>6, ActsMove DEF OpportunityOps, CorrectionOps
<1>7. CASE OperationsActs
  BY <1>1, <1>7, ActsMove DEF OpportunityOps, OperationOps
<1>8. CASE AutopilotActs
  BY <1>1, <1>8, ActsMove DEF OpportunityOps, AutopilotOps, Purposes
<1>9. CASE PostsActs
  BY <1>1, <1>9, ActsMove DEF OpportunityOps, PostOps
<1>10. CASE AdviceActs
  BY <1>1, <1>10, ActsMove DEF OpportunityOps, AdviceOps, JudgingOps
<1>11. CASE IngestionActs
  BY <1>1, <1>11, ActsMove DEF OpportunityOps, IngestionOps
<1>12. CASE DiscoveryActs
  BY <1>1, <1>12, ActsMove DEF OpportunityOps, DiscoveryOps
<1>13. CASE AccountsActs
  BY <1>1, <1>13, ActsMove DEF OpportunityOps, AccountOps, BotOps, ConnectionOps
<1>14. CASE FaultActs \/ UNCHANGED vars
  <2>1. Confined({})
    BY <1>14, ActsMove DEF vars, Confined
  <2> QED BY <1>1, <2>1
<1> QED
  BY <1>2, <1>3, <1>4, <1>5, <1>6, <1>7, <1>8, <1>9, <1>10, <1>11, <1>12, <1>13, <1>14,
     NextByComponents DEF UpstreamActs

LEMMA ReviewStepSimulates ==
  ASSUME ReviewInv, Shaped, [Next]_vars
  PROVE  ReviewInv' /\ [Review!Next]_(Review!vars)
<1>1. CASE OpportunitiesActs
  <2>1. PICK a \in Actors :
           \/ OpportunitiesHandler(a) \/ Generate(a) \/ Render(a) \/ TakeDetection(a)
           \/ \E o \in Opportunities : TakeRender(a, o)
    BY <1>1 DEF OpportunitiesActs
  <2> QED BY <2>1, OpportunitiesImplement
<1>2. CASE ~OpportunitiesActs
  <2>1. UNCHANGED <<opportunity, versions>> /\ clips' \in Seq(Clip)
    BY <1>2, ReviewRowsKept, ClipsStaySequence DEF ReviewInv
  <2>2. PICK Others : Confined(Others) /\ (Others \cup {"IDLE"}) \cap OpportunityOps = {}
    BY <1>2, ReviewSessionsKept DEF Foreign
  <2>3. (Others \cup {"IDLE"}) \cap {"GENERATE", "DECIDE", "RENDER"} = {}
    BY <2>2 DEF OpportunityOps
  <2> QED BY <2>1, <2>2, <2>3, ReviewUntouched
<1> QED BY <1>1, <1>2

(* The invariant of the opportunities' copies and histories is inductive.  *)
THEOREM ReviewInductive == Spec => [](Shaped /\ ReviewInv)
<1>1. Init => Shaped /\ ReviewInv
  BY Beginning, ReviewInitially DEF Init, CeleryInit, ProductionInit
<1>2. Shaped /\ ReviewInv /\ [Next]_vars => (Shaped /\ ReviewInv)'
  BY ShapeKept, ReviewStepSimulates
<1> QED BY <1>1, <1>2, PTL DEF Spec

(* Whatever reviewers, detections and renderings do at once with stale     *)
(* copies, what becomes of reviews, clips and histories is what            *)
(* OpportunityReview allows.                                               *)
THEOREM ReviewImplemented == Spec => ImplementsReview
<1>1. Init => Review!Init
  BY ReviewInitially DEF Init, CeleryInit, ProductionInit
<1>2. Shaped /\ ReviewInv /\ [Next]_vars => [Review!Next]_(Review!vars)
  BY ReviewStepSimulates
<1> QED BY <1>1, <1>2, ReviewInductive, PTL DEF Spec, ImplementsReview, Review!Spec

-----------------------------------------------------------------------------
(* Operations: no other component touches a delivery. *)

LEMMA DeliveriesKept ==
  ASSUME Shaped, [Next]_vars, ~OperationsActs, ~FaultActs
  PROVE  /\ faults' \in {faults, faults + 1}
         /\ \A a \in Actors : Delivering(session[a]) \/ Delivering(session'[a])
                                 => session'[a] = session[a]
<1>1. ASSUME NEW Ops, Touches(Ops), "DELIVER" \notin Ops
      PROVE  /\ faults' \in {faults, faults + 1}
             /\ \A a \in Actors : Delivering(session[a]) \/ Delivering(session'[a])
                                     => session'[a] = session[a]
  BY <1>1 DEF Touches, Delivering
<1>2. CASE UpstreamActs \/ PackagesActs \/ MediaActs
  BY <1>1, <1>2, ActsTouch
  DEF UpstreamOps, ProductionOps, AnalysisOps, OpportunityOps, PackageOps, MediaOps
<1>3. CASE CorrectionsActs \/ AutopilotActs \/ PostsActs
  BY <1>1, <1>3, ActsTouch DEF CorrectionOps, AutopilotOps, Purposes, PostOps
<1>4. CASE AdviceActs \/ IngestionActs \/ DiscoveryActs
  BY <1>1, <1>4, ActsTouch DEF AdviceOps, JudgingOps, IngestionOps, DiscoveryOps
<1>5. CASE AccountsActs
  BY <1>1, <1>5, ActsTouch DEF AccountsActs, BotOps, ConnectionOps
<1>6. CASE UNCHANGED vars
  BY <1>6 DEF vars
<1> QED BY <1>2, <1>3, <1>4, <1>5, <1>6, NextByComponents

LEMMA ReportsInvKept ==
  ASSUME ReportsInv, Shaped, [Next]_vars
  PROVE  ReportsInv'
<1>1. CASE OperationsActs
  BY <1>1, ReportsStep DEF OperationsActs
<1>2. CASE ~OperationsActs
  <2>1. UNCHANGED <<report, posted>>
    BY <1>2, OfficeRowsKept DEF operationsRows
  <2>2. CASE ~FaultActs
    BY <1>2, <2>1, <2>2, DeliveriesKept, ReportsUntouched
  <2>3. CASE FaultActs
    <3>1. PICK a \in Actors : faults' = faults + 1 /\ (End(a) \/ UNCHANGED session)
      BY <2>3 DEF FaultActs, Fault, Crash, Uncaught, EndInException, Redeliver
    <3>2. \A b \in Actors : session'[b] = session[b] \/ ~Delivering(session'[b])
      BY <3>1, EndEffect DEF OthersStay, Delivering
    <3> QED BY <2>1, <3>1, <3>2, ReportsSurviveFaults
  <2> QED BY <2>2, <2>3
<1> QED BY <1>1, <1>2

(* The invariant of reports, what is posted of them and the bot's delivery *)
(* loop is inductive.                                                      *)
THEOREM ReportsInductive == Spec => [](Shaped /\ ReportsInv)
<1>1. Init => Shaped /\ ReportsInv
  BY Beginning, ReportsInitially DEF Init, CeleryInit
<1>2. Shaped /\ ReportsInv /\ [Next]_vars => (Shaped /\ ReportsInv)'
  BY ShapeKept, ReportsInvKept
<1> QED BY <1>1, <1>2, PTL DEF Spec

(* What reads DELIVERED was posted, and a report is posted again only for  *)
(* a fault.                                                                *)
THEOREM DeliveredWasPosted == Spec => []ReportsArePosted
<1>1. ReportsInv => ReportsArePosted
  BY DEF ReportsInv, PostsCounted, ReportsArePosted
<1> QED BY <1>1, ReportsInductive, PTL

-----------------------------------------------------------------------------
(* The TikTok connection: no other component touches one that is worked on.*)

LEMMA ConnectionRowsOwn ==
  ASSUME [Next]_vars
  PROVE  ConnectionsActs \/ UNCHANGED connectionRows
<1>1. CASE UpstreamActs \/ PackagesActs \/ MediaActs \/ FaultActs \/ UNCHANGED vars
  BY <1>1, UpstreamLeaves
  DEF PackagesActs, NotPackages, MediaActs, NotMedia, FaultActs, Fault, vars,
      office, intake, accounts
<1>2. CASE CorrectionsActs \/ OperationsActs
  BY <1>2 DEF CorrectionsActs, NotPlans, OperationsActs, NotOperations, intake, accounts
<1>3. CASE AutopilotActs \/ PostsActs \/ AdviceActs
  BY <1>3 DEF AutopilotActs, NotAutopilot, PostsActs, NotPosts, AdviceActs, NotAdvice, intake,
              accounts
<1>4. CASE IngestionActs \/ DiscoveryActs
  BY <1>4 DEF IngestionActs, NotIngestion, DiscoveryActs, NotDiscovery, accounts
<1>5. CASE AccountsActs
  BY <1>5 DEF AccountsActs, CommunityActs, NotCommunity
<1> QED BY <1>1, <1>2, <1>3, <1>4, <1>5, NextByComponents

LEMMA ConnectionSessionsOwn ==
  ASSUME Shaped, [Next]_vars, ~ConnectionsActs, ~FaultActs
  PROVE  /\ faults' \in {faults, faults + 1}
         /\ \A a \in Actors : Connected(session[a]) \/ Connected(session'[a])
                                 => session'[a] = session[a]
<1>1. ASSUME NEW Ops, Touches(Ops), (Ops \cup {"IDLE"}) \cap ConnectionOps = {}
      PROVE  /\ faults' \in {faults, faults + 1}
             /\ \A a \in Actors : Connected(session[a]) \/ Connected(session'[a])
                                     => session'[a] = session[a]
  BY <1>1 DEF Touches, Connected
<1> USE DEF ConnectionOps
<1>2. CASE UpstreamActs \/ PackagesActs \/ MediaActs
  BY <1>1, <1>2, ActsTouch
  DEF UpstreamOps, ProductionOps, AnalysisOps, OpportunityOps, PackageOps, MediaOps
<1>3. CASE CorrectionsActs \/ OperationsActs \/ AutopilotActs \/ PostsActs
  BY <1>1, <1>3, ActsTouch DEF CorrectionOps, OperationOps, AutopilotOps, Purposes, PostOps
<1>4. CASE AdviceActs \/ IngestionActs \/ DiscoveryActs
  BY <1>1, <1>4, ActsTouch DEF AdviceOps, JudgingOps, IngestionOps, DiscoveryOps
<1>5. CASE CommunityActs
  BY <1>1, <1>5, ActsTouch DEF BotOps
<1>6. CASE UNCHANGED vars
  BY <1>6 DEF vars
<1> QED BY <1>2, <1>3, <1>4, <1>5, <1>6, NextByComponents DEF AccountsActs

LEMMA ConnectionsInvKept ==
  ASSUME ConnectionsInv, Shaped, [Next]_vars
  PROVE  ConnectionsInv'
<1>1. CASE ConnectionsActs
  <2>1. CASE BeatTokens
    BY <2>1, ConnectionsUntouched DEF BeatTokens, connectionRows
  <2> QED BY <1>1, <2>1, ConnectionsStep DEF ConnectionsActs
<1>2. CASE ~ConnectionsActs
  <2>1. UNCHANGED <<account, connection, store, tiktok>>
    BY <1>2, ConnectionRowsOwn DEF connectionRows
  <2>2. CASE ~FaultActs
    BY <1>2, <2>1, <2>2, ConnectionSessionsOwn, ConnectionsUntouched
  <2>3. CASE FaultActs
    <3>1. faults' = faults + 1
      BY <2>3 DEF FaultActs, Fault, Crash, Uncaught, Redeliver
    <3> QED BY <2>1, <3>1, ConnectionsUntouched
  <2> QED BY <2>2, <2>3
<1> QED BY <1>1, <1>2

(* The invariant of the account, its connection, the store and what        *)
(* refreshes, disconnections and authorizations hold is inductive.         *)
THEOREM ConnectionsInductive == Spec => [](Shaped /\ ConnectionsInv)
<1>1. Init => Shaped /\ ConnectionsInv
  BY Beginning, ConnectionsInitially DEF Init, CeleryInit
<1>2. Shaped /\ ConnectionsInv /\ [Next]_vars => (Shaped /\ ConnectionsInv)'
  BY ShapeKept, ConnectionsInvKept
<1> QED BY <1>1, <1>2, PTL DEF Spec

(* However refreshes, disconnections and authorizations meet, no token is  *)
(* exchanged twice, and a connection that counts as CONNECTED and is left  *)
(* alone has a token that is still good.                                   *)
THEOREM TokensStayGood == Spec => []TokensAreGood
  BY ConnectionsInductive, ConnectionsInvIsEnough, PTL

-----------------------------------------------------------------------------
(* The Discord community: no other component touches its rows, or what a   *)
(* handler of it is doing.                                                 *)

LEMMA CommunityRowsOwn ==
  ASSUME [Next]_vars
  PROVE  CommunityActs \/ UNCHANGED communityRows
<1>1. CASE UpstreamActs \/ PackagesActs \/ MediaActs \/ FaultActs \/ UNCHANGED vars
  BY <1>1, UpstreamLeaves
  DEF PackagesActs, NotPackages, MediaActs, NotMedia, FaultActs, Fault, vars,
      office, intake, accounts
<1>2. CASE CorrectionsActs \/ OperationsActs
  BY <1>2 DEF CorrectionsActs, NotPlans, OperationsActs, NotOperations, intake, accounts
<1>3. CASE AutopilotActs \/ PostsActs \/ AdviceActs
  BY <1>3 DEF AutopilotActs, NotAutopilot, PostsActs, NotPosts, AdviceActs, NotAdvice, intake,
              accounts
<1>4. CASE IngestionActs \/ DiscoveryActs
  BY <1>4 DEF IngestionActs, NotIngestion, DiscoveryActs, NotDiscovery, accounts
<1>5. CASE AccountsActs
  BY <1>5 DEF AccountsActs, ConnectionsActs, NotConnections
<1> QED BY <1>1, <1>2, <1>3, <1>4, <1>5, NextByComponents

LEMMA BotSessionsOwn ==
  ASSUME Shaped, [Next]_vars, ~CommunityActs, ~FaultActs
  PROVE  /\ faults' \in {faults, faults + 1}
         /\ \A a \in Actors : \/ session'[a] = session[a]
                              \/ session[a].op \notin BotOps /\ session'[a].op \notin BotOps
<1>1. ASSUME NEW Ops, Touches(Ops), (Ops \cup {"IDLE"}) \cap BotOps = {}
      PROVE  /\ faults' \in {faults, faults + 1}
             /\ \A a \in Actors : \/ session'[a] = session[a]
                                  \/ session[a].op \notin BotOps /\ session'[a].op \notin BotOps
  BY <1>1 DEF Touches
<1> USE DEF BotOps
<1>2. CASE UpstreamActs \/ PackagesActs \/ MediaActs
  <2>1. CASE UpstreamActs
    BY <1>1, <2>1, ActsTouch DEF UpstreamOps, ProductionOps, AnalysisOps, OpportunityOps
  <2>2. CASE PackagesActs \/ MediaActs
    BY <1>1, <2>2, ActsTouch DEF PackageOps, MediaOps
  <2> QED BY <1>2, <2>1, <2>2
<1>3. CASE CorrectionsActs \/ OperationsActs \/ AutopilotActs \/ PostsActs
  BY <1>1, <1>3, ActsTouch DEF CorrectionOps, OperationOps, AutopilotOps, Purposes, PostOps
<1>4. CASE AdviceActs \/ IngestionActs \/ DiscoveryActs
  BY <1>1, <1>4, ActsTouch DEF AdviceOps, JudgingOps, IngestionOps, DiscoveryOps
<1>5. CASE ConnectionsActs
  BY <1>1, <1>5, ActsTouch DEF ConnectionOps
<1>6. CASE UNCHANGED vars
  BY <1>6 DEF vars
<1> QED BY <1>2, <1>3, <1>4, <1>5, <1>6, NextByComponents DEF AccountsActs

LEMMA CommunityInvKept ==
  ASSUME CommunityInv, Shaped, [Next]_vars
  PROVE  CommunityInv'
<1>1. CASE CommunityActs
  BY <1>1, CommunityStep DEF CommunityActs
<1>2. CASE ~CommunityActs
  <2>1. UNCHANGED communityRows
    BY <1>2, CommunityRowsOwn
  <2>2. CASE ~FaultActs
    BY <1>2, <2>1, <2>2, BotSessionsOwn, CommunityUntouched
  <2>3. CASE FaultActs
    <3>1. PICK a \in Actors : faults' = faults + 1 /\ (End(a) \/ UNCHANGED session)
      BY <2>3 DEF FaultActs, Fault, Crash, Uncaught, EndInException, Redeliver
    <3> QED BY <2>1, <3>1, CommunitySurvivesFaults, CommunityUntouched
  <2> QED BY <2>2, <2>3
<1> QED BY <1>1, <1>2

(* The invariant of the server, what is registered and sent of it, tickets *)
(* and the handlers of the bot is inductive.                               *)
THEOREM CommunityInductive == Spec => [](Shaped /\ CommunityInv)
<1>1. Init => Shaped /\ CommunityInv
  BY Beginning, CommunityInitially DEF Init, CeleryInit
<1>2. Shaped /\ CommunityInv /\ [Next]_vars => (Shaped /\ CommunityInv)'
  BY ShapeKept, CommunityInvKept
<1> QED BY <1>1, <1>2, PTL DEF Spec

(* Whatever fails, overlaps or hangs, what is registered, published and    *)
(* posted is there on the server, and every ticket channel has its row or  *)
(* a handler that will enter it, but for as many as there were faults.     *)
THEOREM RowsAreOfDiscord == Spec => []RowsFollowDiscord
  BY CommunityInductive, CommunityInvIsEnough, PTL

-----------------------------------------------------------------------------
(* The reports of inspections: no other component takes a message of them, *)
(* or forgets an exception.                                                *)

LEMMA OwnTasksWait ==
  ASSUME ReportingInv, NEW Tasks, Sends(Tasks), InspectMessage \notin Tasks
  PROVE  StillAwaited
<1>1. lost \subseteq lost'
  BY DEF Sends
<1>2. CASE UNCHANGED messages
  BY <1>1, <1>2, SentWaits
<1>3. CASE \E m : messages' = Queued(m)
  BY <1>1, <1>3, SentWaits
<1>4. CASE \E m \in Tasks : messages' = [messages EXCEPT ![m] = @ - 1]
  BY <1>1, <1>4, TakenWaits
<1> QED BY <1>2, <1>3, <1>4 DEF Sends

(* ReinspectMessage has the name of the task, and a plan beside.           *)
LEMMA InspectMessageIsApart ==
  /\ InspectMessage \notin CorrectionTasks \cup RenderTasks \cup TickTasks
  /\ InspectMessage \notin {FetchMessage, AnalyseMessage, PackageMessage, RefreshMessage,
                            DiscoverMessage, TokensMessage}
<1>1. ASSUME NEW p PROVE InspectMessage # CorrectMessage(p)
  BY DEF InspectMessage, CorrectMessage
<1>2. ASSUME NEW p PROVE InspectMessage # ReinspectMessage(p)
  <2>1. "plan" \in DOMAIN ReinspectMessage(p) /\ "plan" \notin DOMAIN InspectMessage
    BY DEF ReinspectMessage, InspectMessage
  <2> QED BY <2>1
<1>3. ASSUME NEW o PROVE InspectMessage # RenderMessage(o)
  BY DEF InspectMessage, RenderMessage
<1>4. InspectMessage # DetectMessage
  BY DEF InspectMessage, DetectMessage
<1>5. InspectMessage # AdvanceMessage /\ InspectMessage # DueMessage
  BY DEF InspectMessage, AdvanceMessage, DueMessage
<1>6. InspectMessage # FetchMessage /\ InspectMessage # AnalyseMessage
  BY DEF InspectMessage, FetchMessage, AnalyseMessage
<1>7. InspectMessage # PackageMessage /\ InspectMessage # RefreshMessage
  BY DEF InspectMessage, PackageMessage, RefreshMessage
<1>8. InspectMessage # DiscoverMessage /\ InspectMessage # TokensMessage
  BY DEF InspectMessage, DiscoverMessage, TokensMessage
<1> QED BY <1>1, <1>2, <1>3, <1>4, <1>5, <1>6, <1>7, <1>8
        DEF CorrectionTasks, RenderTasks, TickTasks

LEMMA OthersWait ==
  ASSUME ReportingInv, [Next]_vars, ~MediaActs, ~AdviceActs, ~FaultActs
  PROVE  StillAwaited
<1>1. CASE UpstreamActs
  BY <1>1, ActsSend, OwnTasksWait, InspectMessageIsApart DEF UpstreamActs
<1>2. CASE PackagesActs \/ CorrectionsActs \/ OperationsActs \/ AutopilotActs
  BY <1>2, ActsSend, OwnTasksWait, InspectMessageIsApart
<1>3. CASE PostsActs \/ IngestionActs \/ DiscoveryActs \/ AccountsActs
  BY <1>3, ActsSend, OwnTasksWait, InspectMessageIsApart DEF AccountsActs
<1>4. CASE UNCHANGED vars
  BY <1>4, SentWaits DEF vars
<1> QED BY <1>1, <1>2, <1>3, <1>4, NextByComponents

LEMMA ReportersKept ==
  ASSUME Shaped, [Next]_vars, ~MediaActs, ~AdviceActs, ~FaultActs
  PROVE  \A a \in Actors :
            \/ session'[a] = session[a]
            \/ {session[a].op, session'[a].op} \cap (InspectingOps \cup ReportingOps) = {}
<1>1. ASSUME NEW Ops, Touches(Ops),
             (Ops \cup {"IDLE"}) \cap {"INSPECT", "INSPECTED", "REPORT", "QUALITY"} = {}
      PROVE  \A a \in Actors :
                \/ session'[a] = session[a]
                \/ {session[a].op, session'[a].op} \cap (InspectingOps \cup ReportingOps) = {}
  BY <1>1 DEF Touches, InspectingOps, ReportingOps
<1>2. CASE UpstreamActs
  BY <1>1, <1>2, ActsTouch DEF UpstreamOps, ProductionOps, AnalysisOps, OpportunityOps
<1>3. CASE PackagesActs \/ CorrectionsActs
  BY <1>1, <1>3, ActsTouch DEF PackageOps, CorrectionOps
<1>4. CASE OperationsActs \/ AutopilotActs \/ PostsActs
  BY <1>1, <1>4, ActsTouch DEF OperationOps, AutopilotOps, Purposes, PostOps
<1>5. CASE IngestionActs \/ DiscoveryActs
  BY <1>1, <1>5, ActsTouch DEF IngestionOps, DiscoveryOps
<1>6. CASE AccountsActs
  BY <1>1, <1>6, ActsTouch DEF AccountsActs, BotOps, ConnectionOps
<1>7. CASE UNCHANGED vars
  BY <1>7 DEF vars
<1> QED BY <1>2, <1>3, <1>4, <1>5, <1>6, <1>7, NextByComponents

LEMMA InspectionRowsOwn ==
  ASSUME [Next]_vars
  PROVE  MediaActs \/ UNCHANGED inspection
<1>1. CASE UpstreamActs \/ PackagesActs \/ FaultActs \/ UNCHANGED vars
  BY <1>1, UpstreamLeaves
  DEF PackagesActs, NotPackages, FaultActs, Fault, vars, care, mediaRows
<1>2. CASE CorrectionsActs \/ OperationsActs
  BY <1>2 DEF CorrectionsActs, NotPlans, OperationsActs, NotOperations, care, mediaRows
<1>3. CASE AutopilotActs \/ PostsActs \/ AdviceActs
  BY <1>3 DEF AutopilotActs, NotAutopilot, PostsActs, NotPosts, AdviceActs, NotAdvice, care,
              mediaRows
<1>4. CASE IngestionActs \/ DiscoveryActs
  BY <1>4 DEF IngestionActs, NotIngestion, DiscoveryActs, NotDiscovery, care, mediaRows
<1>5. CASE AccountsActs
  BY <1>5 DEF AccountsActs, CommunityActs, NotCommunity, ConnectionsActs, NotConnections,
              care, mediaRows
<1> QED BY <1>1, <1>2, <1>3, <1>4, <1>5, NextByComponents

LEMMA InspectMessageIsSent == InspectMessage \in Messages
  BY PipelineAssumption DEF AllMessages, ClipMessages

LEMMA MediaActsKeepReports ==
  ASSUME ReportingInv, Shaped, MediaActs
  PROVE  ReportingInv'
<1>0. \A o \in Operators \cup Workers : o \in Actors
  BY DEF Actors
<1>1. UNCHANGED adviceRows
  BY DEF MediaActs, NotMedia, office
<1>2. CASE BeatCleanup \/ MediaTime
  <2>1. UNCHANGED <<inspection, session, lost>> /\ messages' \in {messages, Queued(CleanupMessage)}
    BY <1>2 DEF BeatCleanup, MediaTime, GrantEnds, DeadlinePasses, PublishingMoves, mediaRows
  <2>2. StillAwaited
    BY <2>1, SentWaits
  <2>3. \A v \in Inspections : CompletedLast(v)' => CompletedLast(v)
    BY <2>1 DEF CompletedLast
  <2>4. inspection' \in [Inspections -> InspectionStatuses]
    BY <2>1 DEF ReportingInv
  <2> QED BY <1>1, <2>1, <2>2, <2>3, <2>4, AsideKeepsReports DEF adviceRows
<1>3. CASE \E o \in Operators : MediaHandler(o)
  BY <1>0, <1>1, <1>3, RequestsKeepReports
<1>4. CASE \E a \in Actors : CleanUp(a)
  BY <1>1, <1>4, PassesKeepReports
<1>5. CASE \E w \in Workers : TakeCleanup(w)
  BY <1>0, <1>1, <1>5, PassesKeepReports
<1>6. CASE \E w \in Workers : TakeInspection(w)
  BY <1>1, <1>6, TakeInspectionKeepsReports
<1>7. CASE \E a \in Actors : Inspect(a)
  BY <1>1, <1>7, InspectionsKeepReports, InspectMessageIsSent
<1> QED BY <1>2, <1>3, <1>4, <1>5, <1>6, <1>7 DEF MediaActs

LEMMA ReportingInvKept ==
  ASSUME ReportingInv, Shaped, [Next]_vars
  PROVE  ReportingInv'
<1>1. CASE MediaActs
  BY <1>1, MediaActsKeepReports
<1>2. CASE AdviceActs
  <2>1. UNCHANGED mediaRows
    BY <1>2 DEF AdviceActs, NotAdvice, care
  <2> QED BY <1>2, <2>1, AdviceKeepsReports, InspectMessageIsSent DEF AdviceActs
<1>3. CASE FaultActs
  <2>1. PICK a \in Actors : Fault(a)
    BY <1>3 DEF FaultActs
  <2>2. /\ Crash(a) \/ Uncaught(a) \/ Redeliver(a)
        /\ UNCHANGED <<inspection, qualityReports>>
    BY <2>1 DEF Fault, office, adviceRows
  <2> QED BY <2>2, FaultKeepsReports, InspectMessageIsSent
<1>4. CASE ~MediaActs /\ ~AdviceActs /\ ~FaultActs
  <2>1. UNCHANGED <<inspection, qualityReports>>
    BY <1>4, InspectionRowsOwn, OfficeRowsKept DEF adviceRows
  <2>2. StillAwaited
    BY <1>4, OthersWait
  <2>3. \A v \in Inspections : CompletedLast(v)' => CompletedLast(v)
    BY <2>1 DEF CompletedLast
  <2>4. inspection' \in [Inspections -> InspectionStatuses]
    BY <2>1 DEF ReportingInv
  <2>5. \A a \in Actors :
           \/ session'[a] = session[a]
           \/ {session[a].op, session'[a].op} \cap (InspectingOps \cup ReportingOps) = {}
    BY <1>4, ReportersKept
  <2> QED BY <2>1, <2>2, <2>3, <2>4, <2>5, AsideKeepsReports
<1> QED BY <1>1, <1>2, <1>3, <1>4

(* The invariant of inspections, their messages, the tasks that report     *)
(* them and the reports is inductive.                                      *)
THEOREM ReportingInductive == Spec => [](Shaped /\ ReportingInv)
<1>1. Init => Shaped /\ ReportingInv
  BY Beginning, ReportingInitially, InspectMessageIsSent DEF Init
<1>2. Shaped /\ ReportingInv /\ [Next]_vars => (Shaped /\ ReportingInv)'
  BY ShapeKept, ReportingInvKept
<1> QED BY <1>1, <1>2, PTL DEF Spec

(* However tasks overlap, are redelivered or end, once nothing works on the*)
(* latest inspection, which is complete, the newest report is about it,    *)
(* unless its message is still to come or ended in an exception.           *)
THEOREM InspectionsAreReported == Spec => []InspectionIsReported
  BY ReportingInductive, ReportingInvIsEnough, PTL

-----------------------------------------------------------------------------
(* With one worker: what detections read, and the revisions of plans. *)

LEMMA AnalysingSessionsOwn ==
  ASSUME Shaped, [Next]_vars, ~AnalysisActs, ~OpportunitiesActs
  PROVE  Foreign({"RUN", "GENERATE"})
<1>1. ASSUME NEW Others, Confined(Others), Others \cap {"RUN", "GENERATE"} = {}
      PROVE  Foreign({"RUN", "GENERATE"})
  BY <1>1 DEF Foreign
<1>2. CASE ProductionActs
  <2>1. PICK a \in Actors : ProductionHandler(a) \/ Download(a) \/ TakeFetch(a)
    BY <1>2 DEF ProductionActs
  <2>2. Confined(ProductionOps)
    BY <2>1, ProductionMoves DEF Moves
  <2> QED BY <1>1, <2>2 DEF ProductionOps
<1>3. CASE PackagesActs
  BY <1>1, <1>3, ActsMove DEF PackageOps
<1>4. CASE MediaActs
  BY <1>1, <1>4, ActsMove DEF MediaOps
<1>5. CASE CorrectionsActs
  BY <1>1, <1>5, ActsMove DEF CorrectionOps
<1>6. CASE OperationsActs
  BY <1>1, <1>6, ActsMove DEF OperationOps
<1>7. CASE AutopilotActs
  BY <1>1, <1>7, ActsMove DEF AutopilotOps, Purposes
<1>8. CASE PostsActs
  BY <1>1, <1>8, ActsMove DEF PostOps
<1>9. CASE AdviceActs
  BY <1>1, <1>9, ActsMove DEF AdviceOps, JudgingOps
<1>10. CASE IngestionActs
  BY <1>1, <1>10, ActsMove DEF IngestionOps
<1>11. CASE DiscoveryActs
  BY <1>1, <1>11, ActsMove DEF DiscoveryOps
<1>12. CASE AccountsActs
  BY <1>1, <1>12, ActsMove DEF AccountOps, BotOps, ConnectionOps
<1>13. CASE FaultActs \/ UNCHANGED vars
  <2>1. Confined({})
    BY <1>13, ActsMove DEF vars, Confined
  <2> QED BY <1>1, <2>1
<1> QED
  BY <1>2, <1>3, <1>4, <1>5, <1>6, <1>7, <1>8, <1>9, <1>10, <1>11, <1>12, <1>13,
     NextByComponents DEF UpstreamActs

LEMMA AnalysisKept ==
  ASSUME [Next]_vars, ~AnalysisActs, ~OpportunitiesActs
  PROVE  UNCHANGED analysis
<1>1. CASE ProductionActs \/ CorrectionsActs
  BY <1>1 DEF ProductionActs, CorrectionsActs, NotPlans, upstream
<1>2. CASE PackagesActs \/ MediaActs \/ FaultActs \/ UNCHANGED vars
  BY <1>2 DEF PackagesActs, NotPackages, MediaActs, NotMedia, FaultActs, Fault, vars, rows
<1>3. CASE OperationsActs \/ AutopilotActs \/ PostsActs \/ AdviceActs
  BY <1>3 DEF OperationsActs, NotOperations, AutopilotActs, NotAutopilot, PostsActs, NotPosts,
              AdviceActs, NotAdvice, rows
<1>4. CASE IngestionActs \/ DiscoveryActs \/ AccountsActs
  BY <1>4 DEF IngestionActs, NotIngestion, DiscoveryActs, NotDiscovery,
              AccountsActs, CommunityActs, ConnectionsActs, NotCommunity, NotConnections, rows
<1> QED BY <1>1, <1>2, <1>3, <1>4, NextByComponents DEF UpstreamActs

LEMMA FactsInvKept ==
  ASSUME FactsInv, Shaped, OneWorker, [Next]_vars
  PROVE  FactsInv'
<1>1. CASE AnalysisActs
  BY <1>1, AnalysisKeepsFacts DEF AnalysisActs
<1>2. CASE OpportunitiesActs
  BY <1>2, DetectionKeepsFacts DEF OpportunitiesActs
<1>3. CASE ~AnalysisActs /\ ~OpportunitiesActs
  <2>1. UNCHANGED analysis
    BY <1>3, AnalysisKept
  <2>2. PICK Others : Confined(Others) /\ (Others \cup {"IDLE"}) \cap {"RUN", "GENERATE"} = {}
    BY <1>3, AnalysingSessionsOwn DEF Foreign
  <2> QED BY <2>1, <2>2, FactsLeft
<1> QED BY <1>1, <1>2, <1>3

(* The invariant that relates the analysis to the tasks which write and    *)
(* read it is inductive, when there is one worker.                         *)
THEOREM FactsInductive ==
  ASSUME OneWorker
  PROVE  Spec => [](Shaped /\ FactsInv)
<1>1. Init => Shaped /\ FactsInv
  BY Beginning, FactsInitially DEF Init
<1>2. Shaped /\ FactsInv /\ [Next]_vars => (Shaped /\ FactsInv)'
  BY ShapeKept, FactsInvKept
<1> QED BY <1>1, <1>2, PTL DEF Spec

(* With the one worker of the production deployment, a detection reads     *)
(* whole facts, stored once: no other task empties them, or leaves them    *)
(* half-written, between its check of the status and its query.            *)
THEOREM DetectionReadsWholeFacts ==
  ASSUME OneWorker
  PROVE  Spec => []DetectsInWholeFacts
<1>1. FactsInv => DetectsInWholeFacts
  BY FactsInvIsEnough
<1> QED BY <1>1, FactsInductive, PTL

LEMMA CorrectingSessionsOwn ==
  ASSUME Shaped, [Next]_vars, ~CorrectionsActs
  PROVE  Foreign({"CORRECT"})
<1>1. ASSUME NEW Others, Confined(Others), "CORRECT" \notin Others
      PROVE  Foreign({"CORRECT"})
  BY <1>1 DEF Foreign
<1>2. CASE UpstreamActs
  BY <1>1, <1>2, ActsMove DEF UpstreamOps, ProductionOps, AnalysisOps, OpportunityOps
<1>3. CASE PackagesActs
  BY <1>1, <1>3, ActsMove DEF PackageOps
<1>4. CASE MediaActs
  BY <1>1, <1>4, ActsMove DEF MediaOps
<1>5. CASE OperationsActs
  BY <1>1, <1>5, ActsMove DEF OperationOps
<1>6. CASE AutopilotActs
  BY <1>1, <1>6, ActsMove DEF AutopilotOps, Purposes
<1>7. CASE PostsActs
  BY <1>1, <1>7, ActsMove DEF PostOps
<1>8. CASE AdviceActs
  BY <1>1, <1>8, ActsMove DEF AdviceOps, JudgingOps
<1>9. CASE IngestionActs
  BY <1>1, <1>9, ActsMove DEF IngestionOps
<1>10. CASE DiscoveryActs
  BY <1>1, <1>10, ActsMove DEF DiscoveryOps
<1>11. CASE AccountsActs
  BY <1>1, <1>11, ActsMove DEF AccountOps, BotOps, ConnectionOps
<1>12. CASE FaultActs \/ UNCHANGED vars
  <2>1. Confined({})
    BY <1>12, ActsMove DEF vars, Confined
  <2> QED BY <1>1, <2>1
<1> QED
  BY <1>2, <1>3, <1>4, <1>5, <1>6, <1>7, <1>8, <1>9, <1>10, <1>11, <1>12, NextByComponents

LEMMA RevisionsInvKept ==
  ASSUME RevisionsInv, ReviewInv, Shaped, OneWorker, [Next]_vars
  PROVE  RevisionsInv'
<1>1. CASE CorrectionsActs
  <2>1. NextNumber \in Nat \ {0}
    BY DEF ReviewInv, NextNumber
  <2> QED BY <1>1, <2>1, CorrectionsKeepRevisions DEF CorrectionsActs
<1>2. CASE ~CorrectionsActs
  <2>1. UNCHANGED <<plan, revisions>>
    BY <1>2, OfficeRowsKept DEF planRows
  <2>2. PICK Others : Confined(Others) /\ (Others \cup {"IDLE"}) \cap {"CORRECT"} = {}
    BY <1>2, CorrectingSessionsOwn DEF Foreign
  <2>3. "CORRECT" \notin Others
    BY <2>2
  <2> QED BY <2>1, <2>2, <2>3, RevisionsUntouched
<1> QED BY <1>1, <1>2

(* The invariant that relates plans and revisions to the tasks that render *)
(* them is inductive, when there is one worker.                            *)
THEOREM RevisionsInductive ==
  ASSUME OneWorker
  PROVE  Spec => [](Shaped /\ ReviewInv /\ RevisionsInv)
<1>1. Init => Shaped /\ RevisionsInv
  BY Beginning, RevisionsInitially DEF Init
<1>2. Shaped /\ ReviewInv /\ RevisionsInv /\ [Next]_vars => (Shaped /\ RevisionsInv)'
  BY ShapeKept, RevisionsInvKept
<1> QED BY <1>1, <1>2, ReviewInductive, PTL DEF Spec

(* With one worker, a plan is rendered once, however often it is           *)
(* confirmed, delivered or cut off, and its result is that one clip.       *)
THEOREM PlansHaveOneRevision ==
  ASSUME OneWorker
  PROVE  Spec => []OneRevision
<1>1. RevisionsInv => OneRevision
  BY RevisionsInvIsEnough
<1> QED BY <1>1, RevisionsInductive, PTL

-----------------------------------------------------------------------------
(* What is under way: the broker's messages, the row of the project, the   *)
(* analysis and the runs, and the sessions that see to them.               *)

BrokerInv == messages \in [Messages -> 0..MaxMessages] /\ faults \in Nat

LEMMA BrokerStep ==
  ASSUME BrokerInv, NEW Tasks, Sends(Tasks)
  PROVE  BrokerInv' /\ (faults' = faults \/ faults' > 0) /\ (faults > 0 => faults' > 0)
<1>1. MaxMessages \in Nat \ {0}
  BY CeleryAssumption
<1>2. faults' \in Nat /\ (faults' = faults \/ faults' > 0) /\ (faults > 0 => faults' > 0)
  BY DEF BrokerInv, Sends
<1>3. CASE UNCHANGED messages
  BY <1>2, <1>3 DEF BrokerInv
<1>4. CASE \E m : messages' = Queued(m)
  <2>1. PICK m : messages' = Queued(m)
    BY <1>4
  <2>2. CASE m \in Messages
    BY <1>1, <1>2, <2>1, <2>2 DEF BrokerInv, Queued
  <2>3. CASE m \notin Messages
    BY <1>1, <1>2, <2>1, <2>3 DEF BrokerInv, Queued
  <2> QED BY <2>2, <2>3
<1>5. CASE \E m \in Tasks : messages[m] > 0 /\ messages' = [messages EXCEPT ![m] = @ - 1]
  <2>1. PICK m \in Tasks : messages[m] > 0 /\ messages' = [messages EXCEPT ![m] = @ - 1]
    BY <1>5
  <2>2. CASE m \in Messages
    BY <1>1, <1>2, <2>1, <2>2 DEF BrokerInv
  <2>3. CASE m \notin Messages
    BY <1>1, <1>2, <2>1, <2>3 DEF BrokerInv
  <2> QED BY <2>2, <2>3
<1> QED BY <1>2, <1>3, <1>4, <1>5 DEF Sends

LEMMA BrokerInvKept ==
  ASSUME BrokerInv, [Next]_vars
  PROVE  BrokerInv' /\ (faults' = faults \/ faults' > 0) /\ (faults > 0 => faults' > 0)
<1>1. CASE UNCHANGED vars
  BY <1>1 DEF vars, BrokerInv
<1>2. ASSUME ~UNCHANGED vars
      PROVE  \E Tasks : Sends(Tasks)
  <2>1. CASE UpstreamActs \/ PackagesActs \/ MediaActs \/ CorrectionsActs
    BY <2>1, ActsSend DEF UpstreamActs
  <2>2. CASE OperationsActs \/ AutopilotActs \/ PostsActs \/ AdviceActs
    BY <2>2, ActsSend
  <2>3. CASE IngestionActs \/ DiscoveryActs \/ AccountsActs \/ FaultActs
    BY <2>3, ActsSend DEF AccountsActs
  <2> QED BY <1>2, <2>1, <2>2, <2>3, NextByComponents
<1> QED BY <1>1, <1>2, BrokerStep

(* No other component takes up an analysis.                                *)
LEMMA AnalyseMessageIsApart ==
  /\ AnalyseMessage \notin CorrectionTasks \cup RenderTasks \cup TickTasks
  /\ AnalyseMessage \notin {FetchMessage, PackageMessage, InspectMessage, CleanupMessage,
                            RefreshMessage, ReportMessage, AdviseMessage, DiscoverMessage,
                            TokensMessage}
<1>1. ASSUME NEW p PROVE AnalyseMessage # CorrectMessage(p)
  BY DEF AnalyseMessage, CorrectMessage
<1>2. ASSUME NEW p PROVE AnalyseMessage # ReinspectMessage(p)
  BY DEF AnalyseMessage, ReinspectMessage
<1>3. ASSUME NEW o PROVE AnalyseMessage # RenderMessage(o)
  BY DEF AnalyseMessage, RenderMessage
<1>4. AnalyseMessage # DetectMessage
  BY DEF AnalyseMessage, DetectMessage
<1>5. AnalyseMessage # AdvanceMessage /\ AnalyseMessage # DueMessage
  BY DEF AnalyseMessage, AdvanceMessage, DueMessage
<1>6. AnalyseMessage # FetchMessage /\ AnalyseMessage # PackageMessage
  BY DEF AnalyseMessage, FetchMessage, PackageMessage
<1>7. AnalyseMessage # InspectMessage /\ AnalyseMessage # CleanupMessage
  BY DEF AnalyseMessage, InspectMessage, CleanupMessage
<1>8. AnalyseMessage # RefreshMessage /\ AnalyseMessage # ReportMessage
  BY DEF AnalyseMessage, RefreshMessage, ReportMessage
<1>9. AnalyseMessage # AdviseMessage /\ AnalyseMessage # DiscoverMessage
  BY DEF AnalyseMessage, AdviseMessage, DiscoverMessage
<1>10. AnalyseMessage # TokensMessage
  BY DEF AnalyseMessage, TokensMessage
<1> QED BY <1>1, <1>2, <1>3, <1>4, <1>5, <1>6, <1>7, <1>8, <1>9, <1>10
        DEF CorrectionTasks, RenderTasks, TickTasks

LEMMA AnalyseMessageIsSent == AnalyseMessage \in Messages
  BY PipelineAssumption DEF AllMessages, ClipMessages, PipelineMessages

LEMMA AnalysesCounted ==
  ASSUME BrokerInv
  PROVE  messages \in [Messages -> Nat] /\ messages[AnalyseMessage] \in Nat
  BY AnalyseMessageIsSent, CeleryAssumption DEF BrokerInv

LEMMA AnalysesWait ==
  ASSUME BrokerInv, [Next]_vars, ~AnalysisActs
  PROVE  messages'[AnalyseMessage] >= messages[AnalyseMessage]
<1>0. messages \in [Messages -> Nat] /\ messages[AnalyseMessage] \in Nat
  BY AnalysesCounted
<1>1. ASSUME NEW Tasks, Sends(Tasks), AnalyseMessage \notin Tasks
      PROVE  messages'[AnalyseMessage] >= messages[AnalyseMessage]
  <2>1. CASE UNCHANGED messages
    BY <1>0, <2>1
  <2>2. CASE \E m : messages' = Queued(m)
    BY <1>0, <2>2, AnalyseMessageIsSent, SendingAdds
  <2>3. CASE \E m \in Tasks : messages' = [messages EXCEPT ![m] = @ - 1]
    BY <1>0, <1>1, <2>3
  <2> QED BY <1>1, <2>1, <2>2, <2>3 DEF Sends
<1>2. CASE UpstreamActs
  BY <1>1, <1>2, ActsSend, AnalyseMessageIsApart DEF UpstreamActs
<1>3. CASE PackagesActs \/ MediaActs \/ CorrectionsActs \/ OperationsActs \/ AutopilotActs
  BY <1>1, <1>3, ActsSend, AnalyseMessageIsApart
<1>4. CASE PostsActs \/ AdviceActs \/ IngestionActs \/ DiscoveryActs \/ AccountsActs
  BY <1>1, <1>4, ActsSend, AnalyseMessageIsApart DEF AccountsActs
<1>5. CASE FaultActs
  BY <1>1, <1>5, ActsSend
<1>6. CASE UNCHANGED vars
  BY <1>0, <1>6 DEF vars
<1> QED BY <1>2, <1>3, <1>4, <1>5, <1>6, NextByComponents

(* Whose rows change.                                                      *)
LEMMA UpstreamRowsKept ==
  ASSUME [Next]_vars, ~UpstreamActs
  PROVE  UNCHANGED <<project, analysis, run, opportunity>>
<1>1. CASE CorrectionsActs
  BY <1>1 DEF CorrectionsActs, NotPlans, upstream
<1>2. CASE PackagesActs \/ MediaActs \/ FaultActs \/ UNCHANGED vars
  BY <1>2 DEF PackagesActs, NotPackages, MediaActs, NotMedia, FaultActs, Fault, vars, rows
<1>3. CASE OperationsActs \/ AutopilotActs \/ PostsActs \/ AdviceActs
  BY <1>3 DEF OperationsActs, NotOperations, AutopilotActs, NotAutopilot, PostsActs, NotPosts,
              AdviceActs, NotAdvice, rows
<1>4. CASE IngestionActs \/ DiscoveryActs \/ AccountsActs
  BY <1>4 DEF IngestionActs, NotIngestion, DiscoveryActs, NotDiscovery,
              AccountsActs, CommunityActs, ConnectionsActs, NotCommunity, NotConnections, rows
<1> QED BY <1>1, <1>2, <1>3, <1>4, NextByComponents

LEMMA ProjectKept ==
  ASSUME [Next]_vars, ~ProductionActs
  PROVE  UNCHANGED project
<1>1. CASE AnalysisActs
  BY <1>1, AnalysisLeavesProject DEF AnalysisActs, AnalysisStep
<1>2. CASE OpportunitiesActs
  BY <1>2, OpportunitiesLeaveUpstream DEF OpportunitiesActs, OpportunityStep
<1> QED BY <1>1, <1>2, UpstreamRowsKept DEF UpstreamActs

LEMMA AnalysisRowKept ==
  ASSUME [Next]_vars, ~AnalysisActs
  PROVE  UNCHANGED analysis
<1>1. CASE ProductionActs
  BY <1>1 DEF ProductionActs
<1>2. CASE OpportunitiesActs
  BY <1>2, OpportunitiesLeaveUpstream DEF OpportunitiesActs, OpportunityStep
<1> QED BY <1>1, <1>2, UpstreamRowsKept DEF UpstreamActs

(* And whose sessions.                                                     *)
LEMMA UpstreamSessionsOwn ==
  ASSUME Shaped, [Next]_vars, ~UpstreamActs
  PROVE  Foreign(UpstreamOps)
<1> USE DEF UpstreamOps, ProductionOps, AnalysisOps, OpportunityOps
<1>1. ASSUME NEW Others, Confined(Others), Others \cap UpstreamOps = {}
      PROVE  Foreign(UpstreamOps)
  BY <1>1 DEF Foreign
<1>2. CASE PackagesActs
  BY <1>1, <1>2, ActsMove DEF PackageOps
<1>3. CASE MediaActs
  BY <1>1, <1>3, ActsMove DEF MediaOps
<1>4. CASE CorrectionsActs
  BY <1>1, <1>4, ActsMove DEF CorrectionOps
<1>5. CASE OperationsActs
  BY <1>1, <1>5, ActsMove DEF OperationOps
<1>6. CASE AutopilotActs
  BY <1>1, <1>6, ActsMove DEF AutopilotOps, Purposes
<1>7. CASE PostsActs
  BY <1>1, <1>7, ActsMove DEF PostOps
<1>8. CASE AdviceActs
  BY <1>1, <1>8, ActsMove DEF AdviceOps
<1>9. CASE IngestionActs
  BY <1>1, <1>9, ActsMove DEF IngestionOps
<1>10. CASE DiscoveryActs
  BY <1>1, <1>10, ActsMove DEF DiscoveryOps
<1>11. CASE AccountsActs
  BY <1>1, <1>11, ActsMove DEF AccountOps, BotOps, ConnectionOps
<1>12. CASE FaultActs \/ UNCHANGED vars
  <2>1. Confined({})
    BY <1>12, ActsMove DEF vars, Confined
  <2> QED BY <1>1, <2>1
<1> QED
  BY <1>2, <1>3, <1>4, <1>5, <1>6, <1>7, <1>8, <1>9, <1>10, <1>11, <1>12, NextByComponents

LEMMA UpstreamSessionsStay ==
  ASSUME Shaped, [Next]_vars, ~UpstreamActs, ~FaultActs
  PROVE  \A a \in Actors : session[a].op \in UpstreamOps => session'[a] = session[a]
<1> USE DEF UpstreamOps, ProductionOps, AnalysisOps, OpportunityOps
<1>1. ASSUME NEW Ops, Touches(Ops), (Ops \cup {"IDLE"}) \cap UpstreamOps = {}
      PROVE  \A a \in Actors : session[a].op \in UpstreamOps => session'[a] = session[a]
  BY <1>1 DEF Touches
<1>2. CASE PackagesActs
  BY <1>1, <1>2, ActsTouch DEF PackageOps
<1>3. CASE MediaActs
  BY <1>1, <1>3, ActsTouch DEF MediaOps
<1>4. CASE CorrectionsActs
  BY <1>1, <1>4, ActsTouch DEF CorrectionOps
<1>5. CASE OperationsActs
  BY <1>1, <1>5, ActsTouch DEF OperationOps
<1>6. CASE AutopilotActs
  BY <1>1, <1>6, ActsTouch DEF AutopilotOps, Purposes
<1>7. CASE PostsActs
  BY <1>1, <1>7, ActsTouch DEF PostOps
<1>8. CASE AdviceActs
  BY <1>1, <1>8, ActsTouch DEF AdviceOps
<1>9. CASE IngestionActs
  BY <1>1, <1>9, ActsTouch DEF IngestionOps
<1>10. CASE DiscoveryActs
  BY <1>1, <1>10, ActsTouch DEF DiscoveryOps
<1>11. CASE CommunityActs
  BY <1>1, <1>11, ActsTouch DEF BotOps
<1>12. CASE ConnectionsActs
  BY <1>1, <1>12, ActsTouch DEF ConnectionOps
<1>13. CASE UNCHANGED vars
  BY <1>13 DEF vars
<1> QED
  BY <1>2, <1>3, <1>4, <1>5, <1>6, <1>7, <1>8, <1>9, <1>10, <1>11, <1>12, <1>13,
     NextByComponents DEF AccountsActs

(* Of the upstream components, one does not touch what another has begun.  *)
LEMMA UpstreamTouch ==
  ASSUME Shaped
  PROVE  /\ ProductionActs => Touches(ProductionOps)
         /\ AnalysisActs => Touches(AnalysisOps)
         /\ OpportunitiesActs => Touches(OpportunityOps)
<1>1. ASSUME ProductionActs PROVE Touches(ProductionOps)
  BY <1>1, OneTouches, ProductionMoves, ProductionTakeOwn DEF ProductionActs
<1>2. ASSUME AnalysisActs PROVE Touches(AnalysisOps)
  BY <1>2, OneTouches, AnalysisMoves, AnalysisTakeOwn DEF AnalysisActs
<1>3. ASSUME OpportunitiesActs PROVE Touches(OpportunityOps)
  <2>1. PICK a \in Actors :
           \/ OpportunitiesHandler(a) \/ Generate(a) \/ Render(a) \/ TakeDetection(a)
           \/ \E o \in Opportunities : TakeRender(a, o)
    BY <1>3 DEF OpportunitiesActs
  <2> QED BY <2>1, OneTouches, OpportunitiesMoves, OpportunitiesTakeOwn
<1> QED BY <1>1, <1>2, <1>3

LEMMA DownloadsStay ==
  ASSUME Shaped, [Next]_vars, ~ProductionActs, ~FaultActs
  PROVE  \A a \in Actors :
            Creating(session[a]) \/ Downloading(session[a]) => session'[a] = session[a]
<1>1. CASE AnalysisActs
  <2>1. PICK a \in Actors : AnalysisStep(a)
    BY <1>1 DEF AnalysisActs, AnalysisStep
  <2>2. OthersStay(a)
    BY <2>1, AnalysisMoves DEF AnalysisStep, Moves
  <2>3. ~Creating(session[a]) /\ ~Downloading(session[a])
    BY <2>1, AnalysisTouchesNoDownload
  <2> QED BY <2>2, <2>3 DEF OthersStay
<1>2. CASE OpportunitiesActs
  BY <1>2, UpstreamTouch DEF Touches, OpportunityOps, Creating, Downloading
<1>3. CASE ~UpstreamActs
  BY <1>3, UpstreamSessionsStay DEF UpstreamOps, ProductionOps, Creating, Downloading
<1> QED BY <1>1, <1>2, <1>3 DEF UpstreamActs

LEMMA AnalysesStay ==
  ASSUME Shaped, [Next]_vars, ~AnalysisActs, ~FaultActs
  PROVE  \A a \in Actors : Furthers(session[a]) => session'[a] = session[a]
<1>1. CASE ProductionActs
  <2>1. PICK a \in Actors : ProductionStep(a)
    BY <1>1 DEF ProductionActs, ProductionStep
  <2>2. OthersStay(a)
    BY <2>1, ProductionMoves DEF ProductionStep, Moves
  <2>3. ~Furthers(session[a])
    BY <2>1, ProductionTouchesNoAnalysis
  <2> QED BY <2>2, <2>3 DEF OthersStay
<1>2. \A a \in Actors : Furthers(session[a]) => session[a].op \in AnalysisOps
  BY DEF Furthers, InStages, AnalysisOps
<1>3. CASE OpportunitiesActs
  BY <1>2, <1>3, UpstreamTouch DEF Touches, OpportunityOps, AnalysisOps
<1>4. CASE ~UpstreamActs
  BY <1>2, <1>4, UpstreamSessionsStay DEF UpstreamOps
<1> QED BY <1>1, <1>3, <1>4 DEF UpstreamActs

LEMMA GenerationsStay ==
  ASSUME Shaped, [Next]_vars, ~OpportunitiesActs, ~FaultActs
  PROVE  \A a \in Actors : session[a].op = "GENERATE" => session'[a] = session[a]
<1>1. CASE ProductionActs
  BY <1>1, UpstreamTouch DEF Touches, ProductionOps
<1>2. CASE AnalysisActs
  BY <1>2, UpstreamTouch DEF Touches, AnalysisOps
<1>3. CASE ~UpstreamActs
  BY <1>3, UpstreamSessionsStay DEF UpstreamOps, OpportunityOps
<1> QED BY <1>1, <1>2, <1>3 DEF UpstreamActs

(* The rows of the project and the copies of it.                           *)
LEMMA SourceInvKept ==
  ASSUME SourceInv, Shaped, [Next]_vars
  PROVE  SourceInv'
<1>1. CASE ProductionActs
  BY <1>1, ProductionKeepsSource DEF ProductionActs
<1>2. CASE AnalysisActs
  BY <1>2, AnalysisKeepsSource DEF AnalysisActs, AnalysisStep
<1>3. ASSUME ~ProductionActs, NEW Others, Confined(Others),
             (Others \cup {"IDLE"}) \cap {"ACCEPT", "CLIPS", "FETCH"} = {}
      PROVE  SourceInv'
  BY <1>3, ProjectKept, SourceAside DEF Confined
<1>4. CASE OpportunitiesActs /\ ~ProductionActs
  <2>1. PICK a \in Actors :
           \/ OpportunitiesHandler(a) \/ Generate(a) \/ Render(a) \/ TakeDetection(a)
           \/ \E o \in Opportunities : TakeRender(a, o)
    BY <1>4 DEF OpportunitiesActs
  <2>2. Confined(OpportunityOps)
    BY <2>1, OpportunitiesMoves DEF Moves
  <2>3. (OpportunityOps \cup {"IDLE"}) \cap {"ACCEPT", "CLIPS", "FETCH"} = {}
    BY DEF OpportunityOps
  <2> QED BY <1>3, <1>4, <2>2, <2>3
<1>5. CASE ~UpstreamActs
  <2>1. PICK Others : Confined(Others) /\ (Others \cup {"IDLE"}) \cap UpstreamOps = {}
    BY <1>5, UpstreamSessionsOwn DEF Foreign
  <2>2. (Others \cup {"IDLE"}) \cap {"ACCEPT", "CLIPS", "FETCH"} = {}
    BY <2>1 DEF UpstreamOps, ProductionOps
  <2>3. ~ProductionActs
    BY <1>5 DEF UpstreamActs
  <2> QED BY <1>3, <2>1, <2>2, <2>3
<1> QED BY <1>1, <1>2, <1>4, <1>5 DEF UpstreamActs

LEMMA AnalysisTypeKept ==
  ASSUME AnalysisTypeOK, [Next]_vars
  PROVE  AnalysisTypeOK'
<1>1. CASE AnalysisActs
  BY <1>1, AnalysisKeepsType DEF AnalysisActs
<1>2. CASE ~AnalysisActs
  BY <1>2, AnalysisRowKept DEF AnalysisTypeOK
<1> QED BY <1>1, <1>2

LEMMA RunsInvKept ==
  ASSUME RunsInv, ReviewInv, Shaped, [Next]_vars
  PROVE  RunsInv'
<1>1. CASE OpportunitiesActs
  BY <1>1, OpportunitiesKeepRuns DEF OpportunitiesActs, OpportunityStep
<1>2. CASE ~OpportunitiesActs
  <2>1. PICK Others : Confined(Others) /\ (Others \cup {"IDLE"}) \cap OpportunityOps = {}
    BY <1>2, ReviewSessionsKept DEF Foreign
  <2>2. \A a \in Actors : session'[a] = session[a] \/ session'[a].op # "GENERATE"
    BY <2>1 DEF Confined, OpportunityOps
  <2> QED BY <1>2, <2>2, ReviewRowsKept, RunsUntouched
<1> QED BY <1>1, <1>2

(* As long as nothing has failed, what is under way is seen to.            *)
LEMMA FaultsCount ==
  ASSUME BrokerInv, FaultActs
  PROVE  faults' > 0
  BY DEF BrokerInv, FaultActs, Fault, Crash, Unacknowledged, Uncaught, EndInException, Redeliver

LEMMA DownloadsKept ==
  ASSUME DownloadsGoOn, BrokerInv, SourceInv, Shaped, [Next]_vars
  PROVE  DownloadsGoOn'
<1>1. CASE faults' > 0
  BY <1>1 DEF DownloadsGoOn
<1>2. CASE ~(faults' > 0) /\ ProductionActs
  <2>1. PICK a \in Actors : ProductionHandler(a) \/ Download(a) \/ TakeFetch(a)
    BY <1>2 DEF ProductionActs
  <2>2. OthersStay(a)
    BY <2>1, ProductionMoves DEF Moves
  <2>3. UNCHANGED faults
    BY <1>2, BrokerInvKept
  <2> QED BY <2>1, <2>2, <2>3, ProductionHandsOn, HandedOnDownloads
<1>3. CASE ~(faults' > 0) /\ ~ProductionActs
  BY <1>3, BrokerInvKept, FaultsCount, DownloadsStay, ProjectKept, DownloadsAside
<1> QED BY <1>1, <1>2, <1>3

LEMMA AnalysesKept ==
  ASSUME AnalysesGoOn, BrokerInv, AnalysisTypeOK, Shaped, [Next]_vars
  PROVE  AnalysesGoOn'
<1>0. /\ messages \in [Messages -> Nat] /\ messages[AnalyseMessage] \in Nat
      /\ messages'[AnalyseMessage] \in Nat
  <2>1. BrokerInv'
    BY BrokerInvKept
  <2>2. messages' \in [Messages -> 0..MaxMessages]
    BY <2>1 DEF BrokerInv
  <2> QED BY <2>2, AnalysesCounted, AnalyseMessageIsSent, CeleryAssumption
<1>1. CASE faults' > 0
  BY <1>1 DEF AnalysesGoOn
<1>2. CASE ~(faults' > 0) /\ AnalysisActs
  <2>1. PICK a \in Actors : AnalysisHandler(a) \/ Analyse(a) \/ TakeAnalysis(a)
    BY <1>2 DEF AnalysisActs
  <2>2. OthersStay(a)
    BY <2>1, AnalysisMoves DEF Moves
  <2>3. UNCHANGED faults
    BY <1>2, BrokerInvKept
  <2>4. AnalysesHandedOn(a)
    BY <1>0, <2>1, AnalyseMessageIsSent, AnalysisHandsOn
  <2> QED BY <1>0, <2>2, <2>3, <2>4, HandedOnAnalyses
<1>3. CASE ~(faults' > 0) /\ ~AnalysisActs
  <2>1. ~FaultActs /\ (faults > 0 => faults' > 0)
    BY <1>3, BrokerInvKept, FaultsCount
  <2>2. \A a \in Actors : Furthers(session[a]) => session'[a] = session[a]
    BY <1>3, <2>1, AnalysesStay
  <2>3. messages'[AnalyseMessage] >= messages[AnalyseMessage]
    BY <1>3, AnalysesWait
  <2>4. UNCHANGED analysis
    BY <1>3, AnalysisRowKept
  <2> QED BY <1>0, <2>1, <2>2, <2>3, <2>4, AnalysesAside
<1> QED BY <1>1, <1>2, <1>3

LEMMA GenerationsKept ==
  ASSUME GenerationsGoOn, BrokerInv, RunsInv, ReviewInv, Shaped, [Next]_vars
  PROVE  GenerationsGoOn'
<1>1. CASE faults' > 0
  BY <1>1 DEF GenerationsGoOn
<1>2. CASE ~(faults' > 0) /\ OpportunitiesActs
  <2>1. PICK a \in Actors : OpportunityStep(a)
    BY <1>2 DEF OpportunitiesActs, OpportunityStep
  <2>2. OthersStay(a)
    BY <2>1, OpportunitiesMoves DEF OpportunityStep, Moves
  <2>3. UNCHANGED faults
    BY <1>2, BrokerInvKept
  <2> QED BY <2>1, <2>2, <2>3, OpportunitiesHandOn, HandedOnGenerations
<1>3. CASE ~(faults' > 0) /\ ~OpportunitiesActs
  BY <1>3, BrokerInvKept, FaultsCount, GenerationsStay, ReviewRowsKept, GenerationsAside
<1> QED BY <1>1, <1>2, <1>3

(* What the dashboard's control rests on.                                  *)
ProgressInv ==
    /\ BrokerInv /\ SourceInv /\ AnalysisTypeOK /\ RunsInv
    /\ DownloadsGoOn /\ AnalysesGoOn /\ GenerationsGoOn

LEMMA ProgressInitially ==
  ASSUME Init
  PROVE  ProgressInv
<1>1. \A a \in Actors : session[a] = Idle
  BY Beginning
<1>2. BrokerInv
  BY CeleryAssumption DEF Init, CeleryInit, BrokerInv
<1>3. SourceInv
  BY <1>1, SourceInitially DEF Init
<1>4. RunsInv
  BY <1>1, RunsInitially DEF Init
<1>5. AnalysisTypeOK
  BY AnalysisAssumption DEF Init, AnalysisInit, AnalysisTypeOK, Analysis, AnalysisStatuses
<1>6. DownloadsGoOn
  BY DEF Init, ProductionInit, DownloadsGoOn
<1>7. AnalysesGoOn
  BY DEF Init, AnalysisInit, AnalysesGoOn
<1>8. GenerationsGoOn
  BY DEF Init, OpportunitiesInit, GenerationsGoOn
<1> QED BY <1>2, <1>3, <1>4, <1>5, <1>6, <1>7, <1>8 DEF ProgressInv

LEMMA ProgressInvKept ==
  ASSUME ProgressInv, ReviewInv, Shaped, [Next]_vars
  PROVE  ProgressInv'
  BY BrokerInvKept, SourceInvKept, AnalysisTypeKept, RunsInvKept, DownloadsKept, AnalysesKept,
     GenerationsKept
  DEF ProgressInv

(* The invariant of what is under way is inductive: unless something has   *)
(* failed, a download, an analysis and a detection that are running have a *)
(* session that will end them, and an analysis that is queued a message or *)
(* a session that will take it up.                                         *)
THEOREM ProgressInductive == Spec => [](Shaped /\ ReviewInv /\ ProgressInv)
<1>1. Init => Shaped /\ ProgressInv
  BY Beginning, ProgressInitially
<1>2. Shaped /\ ReviewInv /\ ProgressInv /\ [Next]_vars => (Shaped /\ ProgressInv)'
  BY ShapeKept, ProgressInvKept
<1> QED BY <1>1, <1>2, ReviewInductive, PTL DEF Spec

-----------------------------------------------------------------------------
(* The console: what the chains of conditions arrive at.                   *)

LEMMA FirstOfIs ==
  ASSUME NEW order, NEW n \in Nat, DOMAIN order = 1..n, NEW S, NEW i \in 1..n,
         order[i] \in S, \A j \in 1..(i - 1) : order[j] \notin S
  PROVE  FirstOf(order, S) = order[i]
<1> DEFINE Comes(k) == order[k] \in S /\ \A j \in 1..(k - 1) : order[j] \notin S
<1>1. i \in DOMAIN order /\ Comes(i)
  OBVIOUS
<1>2. ASSUME NEW k \in DOMAIN order, Comes(k)
      PROVE  k = i
  BY <1>2
<1> DEFINE c == CHOOSE k \in DOMAIN order : Comes(k)
<1>3. c \in DOMAIN order /\ Comes(c)
  BY <1>1, Zenon
<1>4. FirstOf(order, S) = order[c]
  BY DEF FirstOf
<1> HIDE DEF c
<1> QED BY <1>2, <1>3, <1>4

(* The first of order that is in S, if it is one of the first five, is x.  *)
ComesFirst(x, order, S) ==
    /\ order[1] \in S => x = order[1]
    /\ order[1] \notin S =>
          /\ order[2] \in S => x = order[2]
          /\ order[2] \notin S =>
                /\ order[3] \in S => x = order[3]
                /\ order[3] \notin S =>
                      /\ order[4] \in S => x = order[4]
                      /\ order[4] \notin S /\ 5 \in DOMAIN order /\ order[5] \in S =>
                            x = order[5]

LEMMA FirstComesFirst ==
  ASSUME NEW order, NEW n \in Nat, n >= 4, DOMAIN order = 1..n, NEW S
  PROVE  ComesFirst(FirstOf(order, S), order, S)
<1>1. ASSUME NEW i \in 1..n, order[i] \in S, \A j \in 1..(i - 1) : order[j] \notin S
      PROVE  FirstOf(order, S) = order[i]
  BY <1>1, FirstOfIs
<1>2. ASSUME order[1] \in S PROVE FirstOf(order, S) = order[1]
  BY <1>1, <1>2
<1>3. ASSUME order[1] \notin S, order[2] \in S PROVE FirstOf(order, S) = order[2]
  <2>1. 2 \in 1..n /\ \A j \in 1..(2 - 1) : order[j] \notin S
    BY <1>3
  <2> QED BY <1>1, <1>3, <2>1
<1>4. ASSUME order[1] \notin S, order[2] \notin S, order[3] \in S
      PROVE  FirstOf(order, S) = order[3]
  <2>1. 3 \in 1..n /\ \A j \in 1..(3 - 1) : order[j] \notin S
    BY <1>4
  <2> QED BY <1>1, <1>4, <2>1
<1>5. ASSUME order[1] \notin S, order[2] \notin S, order[3] \notin S, order[4] \in S
      PROVE  FirstOf(order, S) = order[4]
  <2>1. 4 \in 1..n /\ \A j \in 1..(4 - 1) : order[j] \notin S
    BY <1>5
  <2> QED BY <1>1, <1>5, <2>1
<1>6. ASSUME order[1] \notin S, order[2] \notin S, order[3] \notin S, order[4] \notin S,
             5 \in DOMAIN order, order[5] \in S
      PROVE  FirstOf(order, S) = order[5]
  <2>1. 5 \in 1..n /\ \A j \in 1..(5 - 1) : order[j] \notin S
    BY <1>6
  <2> QED BY <1>1, <1>6, <2>1
<1> QED BY <1>2, <1>3, <1>4, <1>5, <1>6 DEF ComesFirst

LEMMA OfferedIs ==
  ASSUME NEW d
  PROVE  /\ d.status = "SOURCE_REVIEW_REQUIRED" => Offered(d) = "REVIEW"
         /\ d.status \in {"SOURCE_RESOLVED", "SOURCE_ACCEPTED"} /\ ~d.downloaded =>
               Offered(d) = "DOWNLOAD"
         /\ d.status # "SOURCE_REVIEW_REQUIRED" /\ d.downloaded =>
               /\ Analysable(d.analysis) => Offered(d) = "ANALYSE"
               /\ d.analysis = "COMPLETED" /\ d.opportunities = 0 => Offered(d) = "DETECT"
               /\ d.analysis = "COMPLETED" /\ d.opportunities \in Nat \ {0} =>
                     Offered(d) = "SUGGESTIONS"
<1> DEFINE order == <<"REVIEW", "DOWNLOAD", "ANALYSE", "DETECT", "SUGGESTIONS", "PREPARE", "CLIPS",
                      "REFRESH">>
           S == Enabled(d) \cup {"REFRESH"}
<1>1. /\ "REVIEW" \in S <=> d.status = "SOURCE_REVIEW_REQUIRED"
      /\ "DOWNLOAD" \in S <=>
            ~d.downloaded /\ d.status \in {"SOURCE_RESOLVED", "SOURCE_ACCEPTED", "SOURCE_READY"}
      /\ "ANALYSE" \in S <=> d.downloaded /\ Analysable(d.analysis)
      /\ "DETECT" \in S <=> d.analysis = "COMPLETED" /\ d.opportunities = 0
      /\ "SUGGESTIONS" \in S <=> d.opportunities > 0
  BY DEF Enabled
<1>2. /\ DOMAIN order = 1..8 /\ order[1] = "REVIEW" /\ order[2] = "DOWNLOAD"
      /\ order[3] = "ANALYSE" /\ order[4] = "DETECT" /\ order[5] = "SUGGESTIONS"
  OBVIOUS
<1>3. Offered(d) = FirstOf(order, S)
  BY DEF Offered
<1> HIDE DEF order, S
<1>4. ComesFirst(Offered(d), order, S)
  <2>1. 8 \in Nat /\ 8 >= 4 /\ DOMAIN order = 1..8
    BY <1>2
  <2> QED BY <1>3, <2>1, FirstComesFirst
<1>5. ~Analysable("COMPLETED")
  BY DEF Analysable
<1>6. CASE d.status = "SOURCE_REVIEW_REQUIRED"
  BY <1>1, <1>2, <1>4, <1>6 DEF ComesFirst
<1>7. CASE d.status \in {"SOURCE_RESOLVED", "SOURCE_ACCEPTED"} /\ ~d.downloaded
  BY <1>1, <1>2, <1>4, <1>7 DEF ComesFirst
<1>8. CASE d.status # "SOURCE_REVIEW_REQUIRED" /\ d.downloaded
  <2>1. CASE Analysable(d.analysis)
    BY <1>1, <1>2, <1>4, <1>5, <1>8, <2>1 DEF ComesFirst
  <2>2. CASE d.analysis = "COMPLETED" /\ d.opportunities = 0
    BY <1>1, <1>2, <1>4, <1>5, <1>8, <2>2 DEF ComesFirst
  <2>3. CASE d.analysis = "COMPLETED" /\ d.opportunities \in Nat \ {0}
    BY <1>1, <1>2, <1>4, <1>5, <1>8, <2>3 DEF ComesFirst
  <2> QED BY <1>5, <1>8, <2>1, <2>2, <2>3
<1> QED BY <1>6, <1>7, <1>8

(* The suggestions of the latest generation.                               *)
LEMMA LatestCounted ==
  /\ IsFiniteSet(LatestOpportunities)
  /\ Cardinality(LatestOpportunities) \in Nat
  /\ Cardinality(LatestOpportunities) = 0 <=> LatestOpportunities = {}
  /\ Cardinality(Suggested(LatestOpportunities)) \in Nat
  /\ Cardinality(Suggested(LatestOpportunities)) = 0 <=> Suggested(LatestOpportunities) = {}
<1>1. IsFiniteSet({Latest} \X Moments)
  BY FS_Product, FS_Singleton, OpportunitiesAssumption
<1>2. /\ LatestOpportunities \subseteq {Latest} \X Moments
      /\ Suggested(LatestOpportunities) \subseteq LatestOpportunities
  BY DEF LatestOpportunities, Suggested
<1>3. IsFiniteSet(LatestOpportunities) /\ IsFiniteSet(Suggested(LatestOpportunities))
  BY <1>1, <1>2, FS_Subset
<1> QED BY <1>3, FS_CardinalityType, FS_EmptySet

LEMMA LatestAre ==
  ASSUME NEW o
  PROVE  o \in LatestOpportunities <=>
            o \in Opportunities /\ o[1] = Latest /\ opportunity[o].review_status # "ABSENT"
<1>1. Opportunities = (1..MaxGenerations) \X Moments
  BY OpportunitiesAssumption
<1> QED BY <1>1 DEF LatestOpportunities

LEMMA SuggestionsCanBeViewed ==
  ASSUME RunsInv, LatestOpportunities # {}
  PROVE  Viewable # {}
<1>1. PICK o \in Opportunities : o[1] = Latest /\ opportunity[o].review_status # "ABSENT"
  BY LatestAre
<1>2. Living(Latest) \/ Surpassed(Latest)
  BY <1>1 DEF RunsInv
<1>3. ~Surpassed(Latest)
  BY LatestRunIsLast DEF RunsInv, Surpassed
<1>4. PICK p \in Opportunities : p[1] = Latest /\ opportunity[p].review_status \notin {"ABSENT", "STALE"}
  BY <1>2, <1>3 DEF Living
<1>5. p \in LatestOpportunities
  BY <1>4, LatestAre
<1> QED BY <1>4, <1>5 DEF Viewable

(* When nothing is under way, no row says that something is.               *)
LEMMA QuietRows ==
  ASSUME ProgressInv, Quiet
  PROVE  /\ project.status \notin {"CREATED", "DOWNLOADING"}
         /\ analysis.status \notin {"QUEUED", "RUNNING"}
         /\ \A g \in 1..MaxGenerations : run[g] # "RUNNING"
<1>1. faults = 0 /\ messages[AnalyseMessage] = 0
  BY AnalyseMessageIsSent DEF Quiet
<1>2. \A a \in Actors : session[a].op = "IDLE"
  BY DEF Quiet, Free, Idle
<1>3. ~(faults > 0) /\ ~(messages[AnalyseMessage] > 0)
  BY <1>1
<1>4. project.status \notin {"CREATED", "DOWNLOADING"}
  BY <1>2, <1>3 DEF ProgressInv, DownloadsGoOn, Creating, Downloading
<1>5. analysis.status \notin {"QUEUED", "RUNNING"}
  BY <1>2, <1>3 DEF ProgressInv, AnalysesGoOn, Furthers, InStages
<1>6. \A g \in 1..MaxGenerations : run[g] # "RUNNING"
  BY <1>2, <1>3 DEF ProgressInv, GenerationsGoOn, Detecting
<1> QED BY <1>4, <1>5, <1>6

LEMMA ProgressInvIsEnough ==
  ASSUME ProgressInv
  PROVE  DashboardLeadsOn
<1> SUFFICES ASSUME Quiet, ~Over, NEW decided \in Decisions
             PROVE  LeadsOn(Offered(Dashboard(decided)))
  BY DEF DashboardLeadsOn
<1> DEFINE d == Dashboard(decided)
<1>1. /\ d.status = project.status /\ d.downloaded = (project.key # None)
      /\ d.analysis = analysis.status /\ d.opportunities = Cardinality(LatestOpportunities)
  BY DEF Dashboard
<1>2. /\ project \in Project /\ Sourced(project) /\ analysis \in Analysis /\ RunsInv
      /\ project.status \in {"SOURCE_READY", "CLIPS_READY"} => project.key # None
  BY DEF ProgressInv, SourceInv, AnalysisTypeOK
<1>3. project.status \in ProjectStatuses /\ analysis.status \in AnalysisStatuses
  BY <1>2 DEF Project, Analysis
<1>4. /\ project.status \notin {"CREATED", "DOWNLOADING", "ABSENT", "SOURCE_REJECTED"}
      /\ project.status = "DOWNLOAD_FAILED" => project.key # None
      /\ analysis.status \notin {"QUEUED", "RUNNING", "CANCELLED"}
      /\ \A g \in 1..MaxGenerations : run[g] # "RUNNING"
      /\ Latest # 0 /\ run[Latest] = "COMPLETED" => Viewable # {}
  BY QuietRows DEF Over
<1> HIDE DEF d
<1>5. CASE project.status = "SOURCE_REVIEW_REQUIRED"
  <2>1. Offered(d) = "REVIEW"
    BY <1>1, <1>5, OfferedIs
  <2>2. project.selected # None
    BY <1>2, <1>5 DEF Sourced, Unresolved
  <2> QED BY <2>1, <2>2 DEF LeadsOn, d
<1>6. CASE project.status # "SOURCE_REVIEW_REQUIRED" /\ project.key = None
  <2>1. project.status \in {"SOURCE_RESOLVED", "SOURCE_ACCEPTED"}
    BY <1>2, <1>3, <1>4, <1>6 DEF ProjectStatuses
  <2>2. Offered(d) = "DOWNLOAD"
    BY <1>1, <1>6, <2>1, OfferedIs
  <2> QED BY <2>1, <2>2 DEF LeadsOn, Downloadable, d
<1>7. CASE project.status # "SOURCE_REVIEW_REQUIRED" /\ project.key # None
  <2>1. d.status # "SOURCE_REVIEW_REQUIRED" /\ d.downloaded
    BY <1>1, <1>7
  <2>2. CASE analysis.status # "COMPLETED"
    <3>1. Analysable(d.analysis)
      BY <1>1, <1>4, <2>2 DEF Analysable
    <3>2. Offered(d) = "ANALYSE"
      BY <2>1, <3>1, OfferedIs
    <3> QED BY <1>4, <3>2 DEF LeadsOn, d
  <2>3. CASE analysis.status = "COMPLETED" /\ LatestOpportunities = {}
    <3>1. d.analysis = "COMPLETED" /\ d.opportunities = 0
      BY <1>1, <2>3, LatestCounted
    <3>2. Offered(d) = "DETECT"
      BY <2>1, <3>1, OfferedIs
    <3>3. Viewable = {}
      BY <2>3 DEF Viewable
    <3>4. ASSUME Latest # 0
          PROVE  run[Latest] \in {"QUEUED", "FAILED"}
      <4>1. Latest \in 1..MaxGenerations /\ run[Latest] # "ABSENT"
        BY <1>2, <3>4, LatestRunIsLast, OpportunitiesAssumption DEF RunsInv
      <4>2. run[Latest] \in RunStatuses
        BY <1>2, <4>1 DEF RunsInv, RunsTyped
      <4> QED BY <1>4, <3>3, <3>4, <4>1, <4>2 DEF RunStatuses
    <3> QED BY <3>2, <3>4 DEF LeadsOn, d
  <2>4. CASE analysis.status = "COMPLETED" /\ LatestOpportunities # {}
    <3>1. d.analysis = "COMPLETED" /\ d.opportunities \in Nat \ {0}
      BY <1>1, <2>4, LatestCounted
    <3>2. Offered(d) = "SUGGESTIONS"
      BY <2>1, <3>1, OfferedIs
    <3>3. Viewable # {}
      BY <1>2, <2>4, SuggestionsCanBeViewed
    <3> QED BY <3>2, <3>3 DEF LeadsOn, d
  <2> QED BY <2>2, <2>3, <2>4
<1> QED BY <1>5, <1>6, <1>7

(* However requests, cancellations, downloads, runs and reruns of any      *)
(* number of people and workers have met: when nothing is under way any    *)
(* more and nothing has failed, the control that the dashboard offers      *)
(* brings the project on, unless it may stop there.                        *)
THEOREM DashboardLeads == Spec => []DashboardLeadsOn
  BY ProgressInductive, ProgressInvIsEnough, PTL

-----------------------------------------------------------------------------
(* With one worker: the runs supersede one another in their order.         *)

LEMMA OnlyTasksDetect ==
  ASSUME Shaped, NEW a \in Actors, TakeDetection(a),
         \/ OpportunitiesHandler(a) \/ Generate(a) \/ Render(a)
         \/ \E o \in Opportunities : TakeRender(a, o)
  PROVE  FALSE
<1>1. session[a].op = "IDLE" /\ session'[a].op = "GENERATE"
  BY DetectionTaken DEF TakeDetection, Receive, Free, Idle
<1>2. CASE Generate(a) \/ Render(a)
  BY <1>1, <1>2
  DEF Generate, LeaveGeneration, FirstGeneration, StartGeneration, Detect, CommitGeneration,
      GenerationFails, Render, LeaveRender, StartRender, CommitClip, LinkClip, RenderConflicts, At
<1>3. ASSUME NEW o \in Opportunities, TakeRender(a, o) PROVE FALSE
  BY <1>1, <1>3, BeginEffect DEF TakeRender, Receive
<1>4. ASSUME NEW rerun \in BOOLEAN, LoadForDetection(a, rerun) PROVE FALSE
  BY <1>1, <1>4, BeginEffect DEF LoadForDetection
<1>5. ASSUME NEW o \in Opportunities, NEW approved \in BOOLEAN, LoadForReview(a, o, approved)
      PROVE  FALSE
  BY <1>1, <1>5, BeginEffect DEF LoadForReview
<1>6. CASE \/ RequestGeneration(a) \/ GenerationExists(a) \/ SendGeneration(a)
           \/ DecideOpportunity(a) \/ DecisionIsStale(a) \/ EndReview(a) \/ RenderInCall(a)
  BY <1>1, <1>6
  DEF RequestGeneration, GenerationExists, SendGeneration, DecideOpportunity, DecisionIsStale,
      EndReview, RenderInCall, At
<1> QED BY <1>2, <1>3, <1>4, <1>5, <1>6 DEF OpportunitiesHandler

LEMMA SupersededInvKept ==
  ASSUME OneWorker, SupersededInv, RunsInv, ReviewInv, Shaped, [Next]_vars
  PROVE  SupersededInv'
<1>1. CASE OpportunitiesActs
  <2>1. PICK a \in Actors :
           \/ OpportunitiesHandler(a) \/ Generate(a) \/ Render(a)
           \/ a \in Workers /\ TakeDetection(a)
           \/ \E o \in Opportunities : TakeRender(a, o)
    BY <1>1 DEF OpportunitiesActs
  <2>2. OpportunityStep(a)
    BY <2>1 DEF OpportunityStep
  <2>3. TakeDetection(a) => a \in Workers
    BY <2>1, OnlyTasksDetect
  <2> QED BY <2>2, <2>3, OpportunitiesKeepSuperseded
<1>2. CASE ~OpportunitiesActs
  <2>1. PICK Others : Confined(Others) /\ (Others \cup {"IDLE"}) \cap OpportunityOps = {}
    BY <1>2, ReviewSessionsKept DEF Foreign
  <2>2. \A a \in Actors : session'[a] = session[a] \/ session'[a].op # "GENERATE"
    BY <2>1 DEF Confined, OpportunityOps
  <2> QED BY <1>2, <2>2, ReviewRowsKept, SupersededUntouched
<1> QED BY <1>1, <1>2

LEMMA GenerationsInitially ==
  ASSUME Init
  PROVE  RunsInv /\ SupersededInv
  BY Beginning, RunsInitially, SupersededInitially DEF Init

(* The invariant of the runs and of the detection that the one worker may  *)
(* be at is inductive: suggestions are left of no run older than one that  *)
(* is complete, for a detection knows those it has to make STALE.          *)
THEOREM GenerationsInductive ==
  ASSUME OneWorker
  PROVE  Spec => [](Shaped /\ ReviewInv /\ RunsInv /\ SupersededInv)
<1>1. Init => Shaped /\ RunsInv /\ SupersededInv
  BY Beginning, GenerationsInitially
<1>2. Shaped /\ ReviewInv /\ RunsInv /\ SupersededInv /\ [Next]_vars
        => (Shaped /\ RunsInv /\ SupersededInv)'
  BY ShapeKept, RunsInvKept, SupersededInvKept
<1> QED BY <1>1, <1>2, ReviewInductive, PTL DEF Spec

(* The button of the guided card, its label and that of the home page.     *)
LEMMA ContinueIs ==
  ASSUME NEW d, NEW decided
  PROVE  /\ d.status = "SOURCE_REVIEW_REQUIRED" => Continue(d, decided) = "SOURCE"
         /\ d.status # "SOURCE_REVIEW_REQUIRED" /\ d.pending \in Nat \ {0} =>
               Continue(d, decided) = "SUGGESTION"
         /\ d.status # "SOURCE_REVIEW_REQUIRED" /\ d.pending = 0 =>
               (d.total \in Nat \ {0} /\ d.approved < d.total /\ Unreviewed(decided) # {} =>
                   Continue(d, decided) = "CLIP")
<1> DEFINE S == {x \in {"SOURCE"} : d.status = "SOURCE_REVIEW_REQUIRED"}
                \cup {x \in {"SUGGESTION"} : d.pending > 0}
                \cup {x \in {"AWAITED"} : d.opportunities > 0 /\ d.total = 0}
                \cup {x \in {"CLIP"} :
                         d.total > 0 /\ d.approved < d.total /\ Unreviewed(decided) # {}}
                \cup {"LATER"}
<1>1. /\ "SOURCE" \in S <=> d.status = "SOURCE_REVIEW_REQUIRED"
      /\ "SUGGESTION" \in S <=> d.pending > 0
      /\ "AWAITED" \in S => d.total = 0
      /\ "CLIP" \in S <=> d.total > 0 /\ d.approved < d.total /\ Unreviewed(decided) # {}
  OBVIOUS
<1>2. /\ DOMAIN SuggestionFirst = 1..5
      /\ SuggestionFirst[1] = "SOURCE" /\ SuggestionFirst[2] = "SUGGESTION"
      /\ SuggestionFirst[3] = "AWAITED" /\ SuggestionFirst[4] = "CLIP"
  BY DEF SuggestionFirst
<1>3. Continue(d, decided) = FirstOf(SuggestionFirst, S)
  BY DEF Continue
<1> HIDE DEF S
<1>4. ComesFirst(Continue(d, decided), SuggestionFirst, S)
  <2>1. 5 \in Nat /\ 5 >= 4 /\ DOMAIN SuggestionFirst = 1..5
    BY <1>2
  <2> QED BY <1>3, <2>1, FirstComesFirst
<1>5. ASSUME d.status = "SOURCE_REVIEW_REQUIRED"
      PROVE  Continue(d, decided) = "SOURCE"
  <2>1. SuggestionFirst[1] \in S
    BY <1>1, <1>2, <1>5
  <2> QED BY <1>2, <1>4, <2>1 DEF ComesFirst
<1>6. ASSUME d.status # "SOURCE_REVIEW_REQUIRED", d.pending \in Nat \ {0}
      PROVE  Continue(d, decided) = "SUGGESTION"
  <2>1. SuggestionFirst[1] \notin S /\ SuggestionFirst[2] \in S
    BY <1>1, <1>2, <1>6
  <2> QED BY <1>2, <1>4, <2>1 DEF ComesFirst
<1>7. ASSUME d.status # "SOURCE_REVIEW_REQUIRED", d.pending = 0, d.total \in Nat \ {0},
             d.approved < d.total, Unreviewed(decided) # {}
      PROVE  Continue(d, decided) = "CLIP"
  <2>1. /\ SuggestionFirst[1] \notin S /\ SuggestionFirst[2] \notin S
        /\ SuggestionFirst[3] \notin S /\ SuggestionFirst[4] \in S
    BY <1>1, <1>2, <1>7
  <2> QED BY <1>2, <1>4, <2>1 DEF ComesFirst
<1> QED BY <1>5, <1>6, <1>7

LEMMA LabelIs ==
  ASSUME NEW d, d.pending \in Nat
  PROVE  /\ Label(d) = "SOURCE" => d.status = "SOURCE_REVIEW_REQUIRED"
         /\ Label(d) = "SUGGESTION" =>
               d.status # "SOURCE_REVIEW_REQUIRED" /\ d.pending \in Nat \ {0}
<1> DEFINE order == <<"ISSUE", "SOURCE", "SUGGESTION", "CLIP", "LATER">>
           S == {x \in {"ISSUE"} : project.error}
                \cup {x \in {"SOURCE"} : d.status = "SOURCE_REVIEW_REQUIRED"}
                \cup {x \in {"SUGGESTION"} : d.pending > 0}
                \cup {x \in {"CLIP"} : d.total > 0 /\ d.approved < d.total}
                \cup {"LATER"}
<1>1. /\ "ISSUE" \in S <=> project.error
      /\ "SOURCE" \in S <=> d.status = "SOURCE_REVIEW_REQUIRED"
      /\ "SUGGESTION" \in S <=> d.pending > 0
      /\ "LATER" \in S
  OBVIOUS
<1>2. /\ DOMAIN order = 1..5
      /\ order[1] = "ISSUE" /\ order[2] = "SOURCE" /\ order[3] = "SUGGESTION"
      /\ order[4] = "CLIP" /\ order[5] = "LATER"
  OBVIOUS
<1>3. Label(d) = FirstOf(order, S)
  BY DEF Label
<1> HIDE DEF order, S
<1>4. ComesFirst(Label(d), order, S)
  <2>1. 5 \in Nat /\ 5 >= 4 /\ DOMAIN order = 1..5
    BY <1>2
  <2> QED BY <1>3, <2>1, FirstComesFirst
<1>5. CASE order[1] \in S \/ order[2] \in S \/ order[3] \in S
  BY <1>1, <1>2, <1>4, <1>5 DEF ComesFirst
<1>6. CASE order[1] \notin S /\ order[2] \notin S /\ order[3] \notin S
  <2>1. order[5] \in S
    BY <1>1, <1>2
  <2>2. Label(d) \in {"CLIP", "LATER"}
    BY <1>2, <1>4, <1>6, <2>1 DEF ComesFirst
  <2> QED BY <2>2
<1> QED BY <1>5, <1>6

LEMMA OpenNextIs ==
  ASSUME NEW decided, NEW here, here = Waiting(Suggested(Opportunities), decided)
  PROVE  /\ "SOURCE" \in here => OpenNext(decided) = "SOURCE"
         /\ "SOURCE" \notin here /\ "SUGGESTION" \in here => OpenNext(decided) = "SUGGESTION"
         /\ "SOURCE" \notin here /\ "SUGGESTION" \notin here /\ "CLIP" \in here =>
               OpenNext(decided) = "CLIP"
<1> DEFINE order == <<"SOURCE", "SUGGESTION", "CLIP", "LATER">>
           S == here \cup {"LATER"}
<1>1. /\ DOMAIN order = 1..4
      /\ order[1] = "SOURCE" /\ order[2] = "SUGGESTION" /\ order[3] = "CLIP"
  OBVIOUS
<1>2. OpenNext(decided) = FirstOf(order, S)
  BY DEF OpenNext
<1>3. \A x \in {"SOURCE", "SUGGESTION", "CLIP"} : x \in S <=> x \in here
  OBVIOUS
<1> HIDE DEF order, S
<1>4. ComesFirst(OpenNext(decided), order, S)
  <2>1. 4 \in Nat /\ 4 >= 4 /\ DOMAIN order = 1..4
    BY <1>1
  <2> QED BY <1>2, <2>1, FirstComesFirst
<1>5. CASE "SOURCE" \in here
  BY <1>1, <1>3, <1>4, <1>5 DEF ComesFirst
<1>6. CASE "SOURCE" \notin here /\ "SUGGESTION" \in here
  BY <1>1, <1>3, <1>4, <1>6 DEF ComesFirst
<1>7. CASE "SOURCE" \notin here /\ "SUGGESTION" \notin here /\ "CLIP" \in here
  BY <1>1, <1>3, <1>4, <1>7 DEF ComesFirst
<1> QED BY <1>5, <1>6, <1>7

LEMMA ClipsCounted ==
  ASSUME clips \in Seq(Clip), NEW decided, Unreviewed(decided) # {}
  PROVE  /\ Len(clips) \in Nat \ {0}
         /\ Approved(decided) < Len(clips)
<1>1. PICK n \in DOMAIN clips : decided[n] = "PENDING"
  BY DEF Unreviewed, Finished
<1>2. PICK l \in Nat : l = Len(clips) /\ DOMAIN clips = 1..l
  OBVIOUS
<1> DEFINE A == {m \in DOMAIN clips : decided[m] = "APPROVED"}
<1>3. n \in 1..l /\ A \subseteq (1..l) \ {n}
  BY <1>1, <1>2
<1>4. 1 \in Int /\ l \in Int /\ ~(1 > l)
  BY <1>3
<1>5. IsFiniteSet(1..l) /\ Cardinality(1..l) = l - 1 + 1
  BY <1>4, FS_Interval
<1>6. IsFiniteSet((1..l) \ {n}) /\ Cardinality((1..l) \ {n}) = Cardinality(1..l) - 1
  BY <1>3, <1>5, FS_RemoveElement
<1> HIDE DEF A
<1>7. IsFiniteSet(A) /\ Cardinality(A) <= Cardinality((1..l) \ {n})
  BY <1>3, <1>6, FS_Subset
<1>8. Cardinality(A) \in Nat
  BY <1>7, FS_CardinalityType
<1>9. Approved(decided) = Cardinality(A)
  BY DEF Approved, A
<1> QED BY <1>2, <1>4, <1>5, <1>6, <1>7, <1>8, <1>9

(* Once the latest run is complete, no older suggestion is left.           *)
LEMMA SuggestedAreLatest ==
  ASSUME RunsInv, SupersededInv, Latest # 0, run[Latest] = "COMPLETED"
  PROVE  Suggested(Opportunities) = Suggested(LatestOpportunities)
<1>1. /\ Latest \in 1..MaxGenerations
      /\ \A h \in 1..MaxGenerations : h > Latest => run[h] = "ABSENT"
  BY LatestRunIsLast, OpportunitiesAssumption DEF RunsInv
<1>2. ASSUME NEW o \in Opportunities, opportunity[o].review_status = "PENDING"
      PROVE  o[1] = Latest
  <2>1. o[1] \in 1..MaxGenerations
    BY GenerationOf
  <2>2. run[o[1]] # "ABSENT"
    BY <1>2 DEF RunsInv
  <2>3. o[1] >= Latest
    BY <1>1, <1>2 DEF SupersededInv, Superseding
  <2> QED BY <1>1, <2>1, <2>2, <2>3
<1>3. ASSUME NEW o
      PROVE  o \in Suggested(Opportunities) <=> o \in Suggested(LatestOpportunities)
  BY <1>2, LatestAre DEF Suggested
<1> QED BY <1>3

LEMMA SupersededInvIsEnough ==
  ASSUME RunsInv, SupersededInv, ReviewInv
  PROVE  NoDecisionHidden
<1> SUFFICES ASSUME NEW decided \in Decisions
             PROVE  LET d == Dashboard(decided)
                        here == Waiting(Suggested(LatestOpportunities), decided)
                    IN  /\ here # {} => Continue(d, decided) \in here
                        /\ Label(d) \in {"SOURCE", "SUGGESTION"} => Continue(d, decided) = Label(d)
                        /\ Latest # 0 /\ run[Latest] = "COMPLETED" =>
                              /\ ControlCenter(decided).suggestions = d.pending
                              /\ here # {} => OpenNext(decided) = Continue(d, decided)
  BY DEF NoDecisionHidden
<1> DEFINE d == Dashboard(decided)
           here == Waiting(Suggested(LatestOpportunities), decided)
<1>1. /\ d.status = project.status /\ d.total = Len(clips) /\ d.approved = Approved(decided)
      /\ d.pending = Cardinality(Suggested(LatestOpportunities))
  BY DEF Dashboard
<1>2. d.pending \in Nat /\ (d.pending = 0 <=> Suggested(LatestOpportunities) = {})
  BY <1>1, LatestCounted
<1>3. /\ here \subseteq {"SOURCE", "SUGGESTION", "CLIP"}
      /\ "SOURCE" \in here <=> project.status = "SOURCE_REVIEW_REQUIRED"
      /\ "SUGGESTION" \in here <=> Suggested(LatestOpportunities) # {}
      /\ "CLIP" \in here <=> Unreviewed(decided) # {}
  BY DEF Waiting
<1> HIDE DEF d, here
<1>4. /\ "SOURCE" \in here => Continue(d, decided) = "SOURCE"
      /\ "SOURCE" \notin here /\ "SUGGESTION" \in here => Continue(d, decided) = "SUGGESTION"
      /\ "SOURCE" \notin here /\ "SUGGESTION" \notin here /\ "CLIP" \in here =>
            Continue(d, decided) = "CLIP"
  <2>1. CASE "SOURCE" \in here
    BY <1>1, <1>3, <2>1, ContinueIs
  <2>2. CASE "SOURCE" \notin here /\ "SUGGESTION" \in here
    BY <1>1, <1>2, <1>3, <2>2, ContinueIs
  <2>3. CASE "SOURCE" \notin here /\ "SUGGESTION" \notin here /\ "CLIP" \in here
    <3>1. d.total \in Nat \ {0} /\ d.approved < d.total /\ Unreviewed(decided) # {}
      BY <1>1, <1>3, <2>3, ClipsCounted DEF ReviewInv
    <3> QED BY <1>1, <1>2, <1>3, <2>3, <3>1, ContinueIs
  <2> QED BY <2>1, <2>2, <2>3
<1>5. here # {} => Continue(d, decided) \in here
  BY <1>3, <1>4
<1>6. Label(d) \in {"SOURCE", "SUGGESTION"} => Continue(d, decided) = Label(d)
  BY <1>2, LabelIs, ContinueIs
<1>7. ASSUME Latest # 0, run[Latest] = "COMPLETED"
      PROVE  /\ ControlCenter(decided).suggestions = d.pending
             /\ here # {} => OpenNext(decided) = Continue(d, decided)
  <2>1. Suggested(Opportunities) = Suggested(LatestOpportunities)
    BY <1>7, SuggestedAreLatest
  <2>2. ControlCenter(decided).suggestions = d.pending
    BY <1>1, <2>1 DEF ControlCenter
  <2>3. here = Waiting(Suggested(Opportunities), decided)
    BY <2>1 DEF here
  <2> QED BY <1>3, <1>4, <2>2, <2>3, OpenNextIs
<1> QED BY <1>5, <1>6, <1>7 DEF d, here

(* With one worker, a decision that waits is not hidden by another thing   *)
(* the console could speak of: the button of the guided card opens one, as *)
(* its label says, and, unless a run is to come, the home page counts the  *)
(* same suggestions and opens the same.                                    *)
THEOREM NoDecisionIsHidden ==
  ASSUME OneWorker
  PROVE  Spec => []NoDecisionHidden
<1>1. RunsInv /\ SupersededInv /\ ReviewInv => NoDecisionHidden
  BY SupersededInvIsEnough
<1> QED BY <1>1, GenerationsInductive, PTL

-----------------------------------------------------------------------------
(* The types of the whole: each component puts into its actors' sessions   *)
(* what its module names, and the operation tells whose session it is.     *)

SessionTyped(a) == session[a] = Idle \/ (session[a] \in Sessions /\ Carries(a, session[a]))
SessionsTyped ==
    /\ session = [a \in Actors |-> session[a]]
    /\ \A a \in Actors : SessionTyped(a)
    /\ lost \subseteq Messages

LEMMA OwnOperations ==
  /\ \A s \in ProductionSessions : s.op \in ProductionOps
  /\ \A s \in AnalysisSessions : s.op \in AnalysisOps \ {"FETCH"}
  /\ \A s \in OpportunitySessions : s.op \in OpportunityOps
  /\ \A s \in PackageSessions : s.op \in PackageOps
  /\ \A s \in MediaSessions : s.op \in MediaOps /\ (s.op = "INSPECTED" => s.at = "completed")
  /\ \A s \in PlanSessions : s.op \in CorrectionOps
  /\ \A s \in OperationSessions : s.op \in OperationOps
  /\ \A s \in AutopilotSessions : s.op \in AutopilotOps
  /\ \A s \in IngestionSessions : s.op \in IngestionOps
  /\ \A s \in DiscoverySessions : s.op \in DiscoveryOps
  /\ \A s \in PostSessions : s.op \in PostOps
  /\ \A s \in AdviceSessions : s.op \in AdviceOps
  /\ \A s \in BotSessions : s.op \in BotOps
  /\ \A s \in ConnectionSessions : s.op \in ConnectionOps
<1>1. \A s \in ProductionSessions : s.op \in ProductionOps
  BY DEF ProductionSessions, ProductionOps
<1>2. \A s \in AnalysisSessions : s.op \in AnalysisOps \ {"FETCH"}
  BY DEF AnalysisSessions, AnalysisOps
<1>3. \A s \in OpportunitySessions : s.op \in OpportunityOps
  BY DEF OpportunitySessions, OpportunityOps
<1>4. \A s \in PackageSessions : s.op \in PackageOps
  BY DEF PackageSessions, PackageOps
<1>5. \A s \in MediaSessions : s.op \in MediaOps /\ (s.op = "INSPECTED" => s.at = "completed")
  BY DEF MediaSessions, MediaOps
<1>6. \A s \in PlanSessions : s.op \in CorrectionOps
  BY DEF PlanSessions, CorrectionOps
<1>7. \A s \in OperationSessions : s.op \in OperationOps
  BY DEF OperationSessions, OperationOps
<1>8. \A s \in AutopilotSessions : s.op \in AutopilotOps
  BY DEF AutopilotSessions, AutopilotOps
<1>9. \A s \in IngestionSessions : s.op \in IngestionOps
  BY DEF IngestionSessions, IngestionOps
<1>10. \A s \in DiscoverySessions : s.op \in DiscoveryOps
  BY DEF DiscoverySessions, DiscoveryOps
<1>11. \A s \in PostSessions : s.op \in PostOps
  BY DEF PostSessions, PostOps
<1>12. \A s \in AdviceSessions : s.op \in AdviceOps
  BY DEF AdviceSessions, AdviceOps
<1>13. \A s \in BotSessions : s.op \in BotOps
  BY DEF BotSessions, BotOps
<1>14. \A s \in ConnectionSessions : s.op \in ConnectionOps
  BY DEF ConnectionSessions
<1> QED BY <1>1, <1>2, <1>3, <1>4, <1>5, <1>6, <1>7, <1>8, <1>9, <1>10, <1>11, <1>12, <1>13, <1>14

LEMMA OperationTells ==
  ASSUME NEW s \in Sessions
  PROVE  /\ s.op \in ProductionOps => s \in ProductionSessions
         /\ s.op \in AnalysisOps \ {"FETCH"} => s \in AnalysisSessions
         /\ s.op \in OpportunityOps => s \in OpportunitySessions
         /\ s.op \in PackageOps => s \in PackageSessions
         /\ s.op \in MediaOps \ {"INSPECTED"} => s \in MediaSessions
         /\ s.op \in CorrectionOps => s \in PlanSessions
         /\ s.op \in OperationOps => s \in OperationSessions
         /\ s.op \in AutopilotOps => s \in AutopilotSessions
         /\ s.op \in IngestionOps => s \in IngestionSessions
         /\ s.op \in DiscoveryOps => s \in DiscoverySessions
         /\ s.op \in PostOps => s \in PostSessions
         /\ s.op \in AdviceOps /\ s.at # "completed" => s \in AdviceSessions
         /\ s.op \in BotOps => s \in BotSessions
         /\ s.op \in ConnectionOps => s \in ConnectionSessions
<1>1. \/ s.op = "IDLE"
      \/ s \in ProductionSessions /\ s.op \in ProductionOps
      \/ s \in AnalysisSessions /\ s.op \in AnalysisOps \ {"FETCH"}
      \/ s \in OpportunitySessions /\ s.op \in OpportunityOps
      \/ s \in PackageSessions /\ s.op \in PackageOps
      \/ s \in MediaSessions /\ s.op \in MediaOps /\ (s.op = "INSPECTED" => s.at = "completed")
      \/ s \in PlanSessions /\ s.op \in CorrectionOps
      \/ s \in OperationSessions /\ s.op \in OperationOps
      \/ s \in AutopilotSessions /\ s.op \in AutopilotOps
      \/ s \in IngestionSessions /\ s.op \in IngestionOps
      \/ s \in DiscoverySessions /\ s.op \in DiscoveryOps
      \/ s \in PostSessions /\ s.op \in PostOps
      \/ s \in AdviceSessions /\ s.op \in AdviceOps
      \/ s \in BotSessions /\ s.op \in BotOps
      \/ s \in ConnectionSessions /\ s.op \in ConnectionOps
  BY OwnOperations DEF Sessions, Idle
<1>2. s.op \in ProductionOps \cup AnalysisOps \cup OpportunityOps \cup PackageOps =>
         /\ s.op \in ProductionOps => s \in ProductionSessions
         /\ s.op \in AnalysisOps \ {"FETCH"} => s \in AnalysisSessions
         /\ s.op \in OpportunityOps => s \in OpportunitySessions
         /\ s.op \in PackageOps => s \in PackageSessions
  BY <1>1
  DEF ProductionOps, AnalysisOps, OpportunityOps, PackageOps, MediaOps, CorrectionOps,
      OperationOps, AutopilotOps, Purposes, IngestionOps, DiscoveryOps, PostOps, AdviceOps, BotOps,
      ConnectionOps
<1>3. /\ s.op \in MediaOps \ {"INSPECTED"} => s \in MediaSessions
      /\ s.op \in CorrectionOps => s \in PlanSessions
      /\ s.op \in OperationOps => s \in OperationSessions
      /\ s.op \in AutopilotOps => s \in AutopilotSessions
      /\ s.op \in IngestionOps => s \in IngestionSessions
  BY <1>1
  DEF ProductionOps, AnalysisOps, OpportunityOps, PackageOps, MediaOps, CorrectionOps,
      OperationOps, AutopilotOps, Purposes, IngestionOps, DiscoveryOps, PostOps, AdviceOps, BotOps,
      ConnectionOps
<1>4. /\ s.op \in DiscoveryOps => s \in DiscoverySessions
      /\ s.op \in PostOps => s \in PostSessions
      /\ s.op \in AdviceOps /\ s.at # "completed" => s \in AdviceSessions
      /\ s.op \in BotOps => s \in BotSessions
      /\ s.op \in ConnectionOps => s \in ConnectionSessions
  BY <1>1
  DEF ProductionOps, AnalysisOps, OpportunityOps, PackageOps, MediaOps, CorrectionOps,
      OperationOps, AutopilotOps, Purposes, IngestionOps, DiscoveryOps, PostOps, AdviceOps, BotOps,
      ConnectionOps
<1> QED BY <1>2, <1>3, <1>4

LEMMA SessionIsKnown ==
  ASSUME SessionsTyped, NEW a \in Actors
  PROVE  /\ ProductionKnown(a) /\ AnalysisKnown(a) /\ OpportunityKnown(a)
         /\ session[a].op \in PackageOps => Carries(a, session[a])
         /\ MediaKnown(a) /\ PlanKnown(a) /\ OperationKnown(a) /\ AutopilotKnown(a)
         /\ IngestionKnown(a) /\ DiscoveryKnown(a) /\ AdviceKnown(a) /\ BotKnown(a)
         /\ ConnectionKnown(a)
         /\ session[a].op \in PostOps => session[a] \in PostSessions
<1>1. PICK s : s = session[a]
  OBVIOUS
<1>2. CASE s = Idle
  <2>1. s.op = "IDLE"
    BY <1>2 DEF Idle
  <2> QED
    BY <1>1, <2>1
    DEF ProductionKnown, AnalysisKnown, OpportunityKnown, MediaKnown, PlanKnown, OperationKnown,
        AutopilotKnown, IngestionKnown, DiscoveryKnown, AdviceKnown, BotKnown, ConnectionKnown,
        ProductionOps, AnalysisOps, OpportunityOps, PackageOps, CorrectionOps,
        OperationOps, AutopilotOps, Purposes, IngestionOps, DiscoveryOps, PostOps, AdviceOps,
        BotOps, ConnectionOps
<1>3. CASE s \in Sessions /\ Carries(a, s)
  BY <1>1, <1>3, OperationTells
  DEF ProductionKnown, AnalysisKnown, OpportunityKnown, MediaKnown, PlanKnown, OperationKnown,
      AutopilotKnown, IngestionKnown, DiscoveryKnown, AdviceKnown, BotKnown, ConnectionKnown,
      MediaOps
<1> QED BY <1>1, <1>2, <1>3 DEF SessionsTyped, SessionTyped

LEMMA PuttingKeeps ==
  ASSUME SessionsTyped, NEW a \in Actors, NEW Ops, Moves(a, Ops),
         NEW S \in SUBSET Sessions, Puts(a, S)
  PROVE  SessionsTyped'
<1>1. lost' \subseteq Messages
  BY DEF SessionsTyped, Puts
<1>2. session' = [b \in Actors |-> session'[b]]
  BY DEF SessionsTyped, Moves
<1>3. ASSUME NEW b \in Actors
      PROVE  SessionTyped(b)'
  <2>1. PICK s : s = session'[b]
    OBVIOUS
  <2>2. s = Idle \/ (s \in Sessions /\ Carries(b, s))
    BY <2>1 DEF SessionsTyped, SessionTyped, Moves, OthersStay, Puts
  <2> QED BY <2>1, <2>2 DEF SessionTyped
<1> QED BY <1>1, <1>2, <1>3 DEF SessionsTyped

LEMMA StayingKeeps ==
  ASSUME SessionsTyped, UNCHANGED <<session, lost>>
  PROVE  SessionsTyped'
  BY DEF SessionsTyped, SessionTyped

LEMMA MessagesAreSent ==
  /\ {FetchMessage, AnalyseMessage, DetectMessage, PackageMessage, InspectMessage, CleanupMessage,
      RefreshMessage, DiscoverMessage, TokensMessage} \subseteq Messages
  /\ RenderTasks \subseteq Messages /\ CorrectionTasks \subseteq Messages
  /\ AdviceTasks \subseteq Messages
  BY PipelineAssumption
  DEF AllMessages, ClipMessages, PipelineMessages, OfficeMessages, RenderTasks, CorrectionTasks,
      AdviceTasks

LEMMA UpstreamKeepsSessions ==
  ASSUME Shaped, SessionsTyped, ReviewInv, VersionsBounded, ProgressInv, UpstreamActs
  PROVE  SessionsTyped'
<1>1. CASE ProductionActs
  <2>1. PICK a \in Actors : \/ a \in Operators /\ ProductionHandler(a)
                            \/ Download(a)
                            \/ a \in Workers /\ TakeFetch(a)
    BY <1>1 DEF ProductionActs
  <2>2. Moves(a, ProductionOps)
    BY <2>1, ProductionMoves
  <2>3. project \in Project /\ FetchMessage \in Messages
    BY MessagesAreSent DEF ProgressInv, SourceInv
  <2>4. Puts(a, ProductionSessions)
    BY <2>1, <2>3, SessionIsKnown, ProductionPuts
  <2> QED BY <2>2, <2>4, PuttingKeeps DEF Sessions
<1>2. CASE AnalysisActs
  <2>1. PICK a \in Actors : \/ a \in Operators /\ AnalysisHandler(a)
                            \/ Analyse(a)
                            \/ a \in Workers /\ TakeAnalysis(a)
    BY <1>2 DEF AnalysisActs
  <2>2. Moves(a, AnalysisOps)
    BY <2>1, AnalysisMoves
  <2>3. AnalysisTypeOK /\ AnalyseMessage \in Messages
    BY MessagesAreSent DEF ProgressInv
  <2>4. PICK S : S = ProductionSessions \cup AnalysisSessions
    OBVIOUS
  <2>5. Puts(a, S) /\ S \in SUBSET Sessions
    BY <2>1, <2>3, <2>4, SessionIsKnown, AnalysisPuts DEF Sessions
  <2> QED BY <2>2, <2>5, PuttingKeeps
<1>3. CASE OpportunitiesActs
  <2>1. PICK a \in Actors :
           \/ a \in Operators /\ OpportunitiesHandler(a)
           \/ Generate(a) \/ Render(a)
           \/ a \in Workers /\ (TakeDetection(a) \/ \E o \in Opportunities : TakeRender(a, o))
    BY <1>3 DEF OpportunitiesActs
  <2>2. Moves(a, OpportunityOps)
    BY <2>1, OpportunitiesMoves
  <2>3. AnalysisTypeOK /\ RunsInv /\ RenderTasks \subseteq Messages
    BY MessagesAreSent DEF ProgressInv
  <2>4. Puts(a, OpportunitySessions)
    BY <2>1, <2>3, SessionIsKnown, OpportunitiesPut DEF RenderTasks
  <2> QED BY <2>2, <2>4, PuttingKeeps DEF Sessions
<1> QED BY <1>1, <1>2, <1>3 DEF UpstreamActs

LEMMA CopiesKeepSessions ==
  ASSUME Shaped, SessionsTyped, PackagesInv, PackagesInv', MediaInv, PackagesActs \/ MediaActs
  PROVE  SessionsTyped'
<1>1. CASE PackagesActs
  <2>1. PICK a \in Actors : \/ a \in Operators /\ PackagesHandler(a)
                            \/ WriteUp(a)
                            \/ a \in Workers /\ TakePackage(a)
    BY <1>1 DEF PackagesActs
  <2>2. Moves(a, PackageOps)
    BY <2>1, PackagesMoves
  <2>3. Puts(a, PackageSessions)
    BY <2>1, SessionIsKnown, MessagesAreSent, PackagesPut
  <2> QED BY <2>2, <2>3, PuttingKeeps DEF Sessions
<1>2. CASE MediaActs
  <2>1. ASSUME NEW a \in Actors, Puts(a, MediaSessions), Moves(a, MediaOps)
        PROVE  SessionsTyped'
    BY <2>1, PuttingKeeps DEF Sessions
  <2>2. \A o \in Operators \cup Workers : o \in Actors
    BY DEF Actors
  <2>3. CASE BeatCleanup \/ MediaTime
    BY <2>3, StayingKeeps DEF BeatCleanup, MediaTime, GrantEnds, DeadlinePasses, PublishingMoves
  <2>4. MediaTypeOK
    BY DEF MediaInv
  <2>5. CASE ~(BeatCleanup \/ MediaTime)
    <3>1. PICK a \in Actors : \/ a \in Operators /\ MediaHandler(a)
                              \/ Inspect(a) \/ CleanUp(a)
                              \/ a \in Workers /\ (TakeInspection(a) \/ TakeCleanup(a))
      BY <1>2, <2>2, <2>5 DEF MediaActs
    <3>2. Moves(a, MediaOps)
      BY <3>1, MediaMoves
    <3>3. Puts(a, MediaSessions)
      BY <2>4, <3>1, SessionIsKnown, MessagesAreSent, InspectionsPut, MediaPuts
    <3> QED BY <2>1, <3>2, <3>3
  <2> QED BY <2>3, <2>5
<1> QED BY <1>1, <1>2

LEMMA FaultsKeepSessions ==
  ASSUME Shaped, SessionsTyped, FaultActs
  PROVE  SessionsTyped'
<1>1. PICK a \in Actors : Crash(a) \/ Uncaught(a) \/ Redeliver(a)
  BY DEF FaultActs, Fault
<1>2. CASE UNCHANGED <<session, lost>>
  BY <1>2, StayingKeeps
<1>3. CASE ~UNCHANGED <<session, lost>>
  <2>1. End(a) /\ ~Free(a) /\ (UNCHANGED lost \/ EndInException(a))
    BY <1>1, <1>3 DEF Crash, Uncaught, Redeliver, EndInException
  <2>2. Carries(a, session[a])
    BY <2>1 DEF SessionsTyped, SessionTyped, Free
  <2>3. Puts(a, {}) /\ Moves(a, {})
    BY <2>1, <2>2, EndPuts, ExceptionPuts, EndMoves
  <2> QED BY <2>3, PuttingKeeps
<1> QED BY <1>2, <1>3

(* Corrections, and the office. *)
LEMMA PlansKeepTypes ==
  ASSUME Shaped, SessionsTyped, CorrectionsTypeOK, clips \in Seq(Clip), CorrectionsActs
  PROVE  CorrectionsTypeOK' /\ SessionsTyped'
<1>1. PICK a \in Actors :
         \/ a \in Operators /\ (PlanHandler(a) \/ AdoptRevision(a))
         \/ Correct(a)
         \/ a \in Workers /\ \E p \in Plans : TakeCorrection(a, p) \/ TakeReinspection(a, p)
  BY DEF CorrectionsActs
<1>2. Moves(a, CorrectionOps)
  BY <1>1, CorrectionsMoves
<1>3. NextNumber \in Nat \ {0}
  BY DEF NextNumber
<1>4. \A p \in Plans : {CorrectMessage(p), ReinspectMessage(p)} \subseteq Messages
  BY MessagesAreSent DEF CorrectionTasks
<1>5. CorrectionsTypeOK' /\ Puts(a, PlanSessions)
  BY <1>1, <1>3, <1>4, SessionIsKnown, CorrectionsKeepTypes
<1> QED BY <1>2, <1>5, PuttingKeeps DEF Sessions

LEMMA OperationsKeepSessions ==
  ASSUME Shaped, SessionsTyped, OperationRows, ReportsInv, OperationsActs
  PROVE  OperationRows' /\ SessionsTyped'
<1>1. CASE BeatRefresh
  BY <1>1, StayingKeeps DEF BeatRefresh, operationsRows, OperationRows
<1>2. CASE ~BeatRefresh
  <2>1. \A o \in Operators : o \in Actors
    BY DEF Actors
  <2>2. PICK a \in Actors : \/ a \in Operators /\ OperationsHandler(a)
                            \/ Operate(a)
                            \/ a \in Workers /\ TakeRefresh(a)
    BY <1>2, <2>1 DEF OperationsActs
  <2>3. Moves(a, OperationOps)
    BY <2>2, OperationsMoves
  <2>4. OperationRows' /\ Puts(a, OperationSessions)
    BY <2>2, SessionIsKnown, MessagesAreSent, OperationsKeepTypes
  <2> QED BY <2>3, <2>4, PuttingKeeps DEF Sessions
<1> QED BY <1>1, <1>2

LEMMA OfficeKeepsSessions ==
  ASSUME Shaped, SessionsTyped, AutopilotInv, PostsInv, PackagesInv, AutopilotActs \/ PostsActs
  PROVE  SessionsTyped'
<1>1. \A o \in Operators : o \in Actors
  BY DEF Actors
<1>2. CASE BeatAutopilot
  BY <1>2, StayingKeeps DEF BeatAutopilot
<1>3. CASE AutopilotActs /\ ~BeatAutopilot
  <2>1. PICK a \in Actors :
           \/ a \in Operators /\ AutopilotHandler(a)
           \/ Advance(a)
           \/ a \in Workers /\ \E m \in Messages \cap {AdvanceMessage, DueMessage} : TakeTick(a, m)
    BY <1>1, <1>3 DEF AutopilotActs
  <2>2. Moves(a, AutopilotOps)
    BY <2>1, AutopilotMoves
  <2>3. AutopilotTypeOK
    BY DEF AutopilotInv
  <2>4. Puts(a, AutopilotSessions)
    BY <2>1, <2>3, SessionIsKnown, AutopilotPuts
  <2> QED BY <2>2, <2>4, PuttingKeeps DEF Sessions
<1>4. CASE PostsActs
  <2>1. PICK a \in Actors : a \in Operators /\ PostsHandler(a)
    BY <1>4 DEF PostsActs
  <2>2. Moves(a, PostOps)
    BY <2>1, PostsMoves
  <2>3. PackagesTypeOK /\ PostsTypeOK
    BY DEF PackagesInv, PostsInv
  <2>4. Puts(a, PostSessions)
    BY <2>1, <2>3, SessionIsKnown, PostsPut
  <2> QED BY <2>2, <2>4, PuttingKeeps DEF Sessions
<1> QED BY <1>2, <1>3, <1>4

LEMMA AdviserKeepsTypes ==
  ASSUME Shaped, SessionsTyped, qualityReports \subseteq QualityReport, AdviceInv, AdviceActs
  PROVE  qualityReports' \subseteq QualityReport /\ SessionsTyped'
<1>1. PICK a \in Actors : \/ a \in Operators /\ AdviceHandler(a)
                          \/ a \in Workers /\ (Advise(a) \/ TakeReport(a) \/ TakeAdvice(a))
  BY DEF AdviceActs
<1>2. Moves(a, AdviceOps)
  BY <1>1, AdviceMoves
<1>3. advice \in [AdviceIds -> Recommendation]
  BY DEF AdviceInv
<1>4. qualityReports' \subseteq QualityReport /\ Puts(a, AdviceSessions)
  BY <1>1, <1>3, SessionIsKnown, MessagesAreSent, AdviceKeepsTypes
<1> QED BY <1>2, <1>4, PuttingKeeps DEF Sessions

(* Intake, and the accounts. *)
LEMMA IntakeKeepsTypes ==
  ASSUME Shaped, SessionsTyped, IngestionInv, feed \in Feed, IngestionActs
  PROVE  feed' \in Feed /\ SessionsTyped'
<1>1. ItemsFine
  BY DEF IngestionInv
<1>2. feed' \in Feed
  BY <1>1, FeedKeepsType DEF IngestionActs
<1>3. CASE FeedTime
  BY <1>2, <1>3, StayingKeeps DEF FeedTime
<1>4. CASE ~FeedTime
  <2>1. PICK o \in Operators : IngestionHandler(o)
    BY <1>4 DEF IngestionActs
  <2>2. o \in Actors
    BY DEF Actors
  <2>3. Moves(o, IngestionOps)
    BY <2>1, <2>2, IngestionMoves
  <2>4. Puts(o, IngestionSessions)
    BY <1>1, <2>1, <2>2, SessionIsKnown, IngestionPuts
  <2> QED BY <1>2, <2>2, <2>3, <2>4, PuttingKeeps DEF Sessions
<1> QED BY <1>3, <1>4

LEMMA DiscoveryKeepsSessions ==
  ASSUME Shaped, SessionsTyped, DiscoveryInv, DiscoveryActs
  PROVE  SessionsTyped'
<1>1. CASE BeatDiscovery \/ PollTime
  BY <1>1, StayingKeeps DEF BeatDiscovery, PollTime
<1>2. CASE ~(BeatDiscovery \/ PollTime)
  <2>1. PICK a \in Actors : \/ a \in Operators /\ DiscoveryHandler(a)
                            \/ a \in Workers /\ (Discover(a) \/ TakeDiscovery(a))
    BY <1>2 DEF DiscoveryActs
  <2>2. Moves(a, DiscoveryOps)
    BY <2>1, DiscoveryMoves
  <2>3. DiscoveryTypeOK
    BY DEF DiscoveryInv
  <2>4. Puts(a, DiscoverySessions)
    BY <2>1, <2>3, SessionIsKnown, MessagesAreSent, DiscoveryPuts
  <2> QED BY <2>2, <2>4, PuttingKeeps DEF Sessions
<1> QED BY <1>1, <1>2

LEMMA BotKeepsTypes ==
  ASSUME Shaped, SessionsTyped, CommunityTypeOK, CommunityInv, CommunityActs
  PROVE  CommunityTypeOK' /\ SessionsTyped'
<1>1. CASE RestartBot
  <2>1. lost' \subseteq Messages
    BY <1>1 DEF RestartBot, SessionsTyped
  <2>2. ASSUME NEW a \in Actors
        PROVE  SessionTyped(a)'
    <3>1. PICK s : s = session'[a]
      OBVIOUS
    <3>2. s = Idle \/ s = session[a]
      BY <1>1, <3>1 DEF RestartBot
    <3> QED BY <3>1, <3>2 DEF SessionsTyped, SessionTyped
  <2>3. CommunityTypeOK'
    BY <1>1 DEF RestartBot, communityRows, CommunityTypeOK
  <2>4. session' = [a \in Actors |-> session'[a]]
    BY <1>1 DEF RestartBot
  <2> QED BY <2>1, <2>2, <2>3, <2>4 DEF SessionsTyped
<1>2. CASE ~RestartBot
  <2>1. PICK o \in Operators : CommunityHandler(o)
    BY <1>2 DEF CommunityActs
  <2>2. o \in Actors
    BY DEF Actors
  <2>3. Moves(o, BotOps)
    BY <2>1, <2>2, CommunityMoves
  <2>4. BotKnown(o)
    BY <2>2, SessionIsKnown
  <2>5. Puts(o, BotSessions) /\ CommunityTypeOK'
    BY <2>1, <2>4, BotPuts, CommunityKeepsTypes
  <2> QED BY <2>2, <2>3, <2>5, PuttingKeeps DEF Sessions
<1> QED BY <1>1, <1>2

LEMMA OwnerKeepsTypes ==
  ASSUME Shaped, SessionsTyped, ConnectionsTypeOK, ConnectionsActs
  PROVE  ConnectionsTypeOK' /\ SessionsTyped'
<1>1. CASE BeatTokens
  BY <1>1, StayingKeeps DEF BeatTokens, connectionRows, ConnectionsTypeOK
<1>2. CASE ~BeatTokens
  <2>1. PICK a \in Actors : \/ a \in Operators /\ ConnectionsHandler(a)
                            \/ Connect(a)
                            \/ a \in Workers /\ TakeTokens(a)
    BY <1>2 DEF ConnectionsActs
  <2>2. Moves(a, ConnectionOps)
    BY <2>1, ConnectionsMoves
  <2>3. ConnectionsTypeOK' /\ Puts(a, ConnectionSessions)
    BY <2>1, SessionIsKnown, MessagesAreSent, ConnectionsKeepTypes
  <2> QED BY <2>2, <2>3, PuttingKeeps DEF Sessions
<1> QED BY <1>1, <1>2

(* The number of clips, and of faults.                                     *)
LEMMA ClipsKeepBound ==
  ASSUME ReviewInv, SessionsTyped, Len(clips) <= MaxClips, [Next]_vars
  PROVE  Len(clips') <= MaxClips
<1>1. clips \in Seq(Clip)
  BY DEF ReviewInv
<1>2. CASE ~OpportunitiesActs
  BY <1>1, <1>2, ClipsStaySequence
<1>3. CASE OpportunitiesActs
  <2>1. PICK a \in Actors : OpportunityStep(a)
    BY <1>3 DEF OpportunitiesActs, OpportunityStep
  <2>2. CASE CommitClip(a)
    <3>1. session[a].number \in 1..MaxClips
      BY <2>2, SessionIsKnown, RendersFrom DEF CommitClip, At
    <3>2. PICK row : clips' = Append(clips, row) /\ Len(clips) + 1 = session[a].number
      BY <2>2 DEF CommitClip, InsertClip, NextNumber
    <3> QED BY <1>1, <3>1, <3>2
  <2>3. CASE ~CommitClip(a)
    <3>1. UNCHANGED clips
      BY <2>1, <2>3
      DEF OpportunityStep, OpportunitiesHandler, Generate, Render, LoadForDetection,
          RequestGeneration, GenerationExists, SendGeneration, LoadForReview, DecideOpportunity,
          DecisionIsStale, EndReview, RenderInCall, LeaveRender, StartRender, LinkClip,
          RenderConflicts, LeaveGeneration, FirstGeneration, StartGeneration, Detect,
          CommitGeneration, GenerationFails, TakeDetection, TakeRender, rows
    <3> QED BY <3>1
  <2> QED BY <2>2, <2>3
<1> QED BY <1>2, <1>3

LEMMA FaultsKeepBound ==
  ASSUME BrokerInv, faults <= MaxFaults, [Next]_vars
  PROVE  faults' <= MaxFaults
<1>1. UNCHANGED vars \/ \E Tasks : Sends(Tasks)
  BY NextByComponents, ActsSend DEF UpstreamActs, AccountsActs
<1>2. faults \in Nat /\ MaxFaults \in Nat
  BY CeleryAssumption DEF BrokerInv
<1> QED BY <1>1, <1>2 DEF vars, Sends

-----------------------------------------------------------------------------
(* What is known of the types beyond the invariants of the components, and *)
(* that it is inductive with them.                                         *)

TypeInv ==
    /\ SessionsTyped /\ faults <= MaxFaults
    /\ VersionsBounded /\ Len(clips) <= MaxClips
    /\ CorrectionsTypeOK /\ OperationRows /\ feed \in Feed
    /\ CommunityTypeOK /\ ConnectionsTypeOK /\ qualityReports \subseteq QualityReport

ComponentsInv ==
    /\ Shaped /\ PackagesInv /\ MediaInv /\ ReviewInv /\ ProgressInv /\ ReportsInv
    /\ AutopilotInv /\ PostsInv /\ AdviceInv /\ IngestionInv /\ DiscoveryInv /\ CommunityInv

LEMMA ComponentsInitially ==
  ASSUME Init
  PROVE  ComponentsInv
<1>1. Shaped /\ faults = 0 /\ \A a \in Actors : session[a] = Idle
  BY Beginning DEF Init, CeleryInit
<1>2. PackagesInv /\ MediaInv /\ AutopilotInv /\ AdviceInv /\ IngestionInv
  BY <1>1, PackagesInitially, MediaInitially, AutopilotInitially, AdviceInitially,
     IngestionInitially
  DEF Init
<1>3. PostsInv /\ DiscoveryInv /\ CommunityInv /\ ReportsInv
  BY <1>1, PostsInitially, DiscoveryInitially, CommunityInitially, ReportsInitially DEF Init
<1>4. ReviewInv
  BY <1>1, ReviewInitially DEF Init, ProductionInit
<1> QED BY <1>1, <1>2, <1>3, <1>4, ProgressInitially DEF ComponentsInv

LEMMA ComponentsKept ==
  ASSUME ComponentsInv, [Next]_vars
  PROVE  ComponentsInv'
<1> USE DEF ComponentsInv
<1>1. Shaped' /\ PackagesInv' /\ MediaInv' /\ ReviewInv' /\ ProgressInv'
  BY ShapeKept, PackagesInvKept, MediaInvKept, ReviewStepSimulates, ProgressInvKept
<1>2. ReportsInv' /\ AutopilotInv' /\ PostsInv'
  BY ReportsInvKept, AutopilotInvKept, PostsInvKept
<1>3. AdviceInv' /\ IngestionInv' /\ DiscoveryInv' /\ CommunityInv'
  BY AdviceInvKept, IngestionInvKept, DiscoveryInvKept, CommunityInvKept
<1> QED BY <1>1, <1>2, <1>3

LEMMA SessionsKept ==
  ASSUME ComponentsInv, TypeInv, [Next]_vars
  PROVE  SessionsTyped'
<1> USE DEF ComponentsInv, TypeInv
<1>1. CASE UNCHANGED vars
  BY <1>1, StayingKeeps DEF vars
<1>2. CASE UpstreamActs
  BY <1>2, UpstreamKeepsSessions
<1>3. CASE PackagesActs \/ MediaActs
  BY <1>3, ComponentsKept, CopiesKeepSessions
<1>4. CASE CorrectionsActs \/ OperationsActs
  BY <1>4, PlansKeepTypes, OperationsKeepSessions DEF ReviewInv
<1>5. CASE AutopilotActs \/ PostsActs
  BY <1>5, OfficeKeepsSessions
<1>6. CASE AdviceActs \/ IngestionActs
  BY <1>6, AdviserKeepsTypes, IntakeKeepsTypes
<1>7. CASE DiscoveryActs \/ AccountsActs
  BY <1>7, DiscoveryKeepsSessions, BotKeepsTypes, OwnerKeepsTypes DEF AccountsActs
<1>8. CASE FaultActs
  BY <1>8, FaultsKeepSessions
<1> QED BY <1>1, <1>2, <1>3, <1>4, <1>5, <1>6, <1>7, <1>8, NextByComponents

LEMMA RowTypesKept ==
  ASSUME ComponentsInv, TypeInv, [Next]_vars
  PROVE  /\ VersionsBounded' /\ CorrectionsTypeOK' /\ OperationRows' /\ (feed \in Feed)'
         /\ CommunityTypeOK' /\ ConnectionsTypeOK' /\ (qualityReports \subseteq QualityReport)'
<1> USE DEF ComponentsInv, TypeInv
<1>1. VersionsBounded'
  <2>1. CASE OpportunitiesActs
    <3>1. PICK a \in Actors : OpportunityStep(a)
      BY <2>1 DEF OpportunitiesActs, OpportunityStep
    <3> QED BY <3>1, SessionIsKnown, OpportunitiesBounded
  <2>2. CASE UNCHANGED opportunity
    BY <2>2 DEF VersionsBounded, Bounded
  <2> QED BY <2>1, <2>2, ReviewRowsKept
<1>2. CorrectionsTypeOK'
  <2>1. CASE UNCHANGED planRows
    BY <2>1 DEF planRows, CorrectionsTypeOK
  <2> QED BY <2>1, PlansKeepTypes, OfficeRowsKept DEF ReviewInv
<1>3. OperationRows'
  <2>1. CASE UNCHANGED operationsRows
    BY <2>1 DEF operationsRows, OperationRows
  <2> QED BY <2>1, OperationsKeepSessions, OfficeRowsKept
<1>4. feed' \in Feed
  <2>1. CASE UNCHANGED ingestionRows
    BY <2>1 DEF ingestionRows
  <2> QED BY <2>1, IntakeKeepsTypes, OfficeRowsKept
<1>5. CommunityTypeOK'
  <2>1. CASE UNCHANGED communityRows
    BY <2>1 DEF communityRows, CommunityTypeOK
  <2> QED BY <2>1, BotKeepsTypes, CommunityRowsOwn
<1>6. ConnectionsTypeOK'
  <2>1. CASE UNCHANGED connectionRows
    BY <2>1 DEF connectionRows, ConnectionsTypeOK
  <2> QED BY <2>1, OwnerKeepsTypes, ConnectionRowsOwn
<1>7. qualityReports' \subseteq QualityReport
  <2>1. CASE UNCHANGED adviceRows
    BY <2>1 DEF adviceRows
  <2> QED BY <2>1, AdviserKeepsTypes, OfficeRowsKept
<1> QED BY <1>1, <1>2, <1>3, <1>4, <1>5, <1>6, <1>7

LEMMA TypesInitially ==
  ASSUME Init
  PROVE  TypeInv
<1>1. SessionsTyped
  BY Beginning DEF Init, CeleryInit, SessionsTyped, SessionTyped
<1>2. faults <= MaxFaults
  BY CeleryAssumption DEF Init, CeleryInit
<1>3. VersionsBounded
  <2>1. ASSUME NEW o \in Opportunities
        PROVE  Bounded(o)
    <3>1. PICK row : row = [review_status |-> "ABSENT", review_version |-> 0, generated_clip |-> 0]
      OBVIOUS
    <3>2. opportunity[o] = row
      BY <3>1 DEF Init, OpportunitiesInit
    <3>3. row \in Opportunity
      BY <3>1, OpportunitiesAssumption, ProductionAssumption DEF Opportunity, ReviewStatuses
    <3> QED BY <3>1, <3>2, <3>3 DEF Bounded
  <2> QED BY <2>1 DEF VersionsBounded
<1>4. Len(clips) <= MaxClips
  BY ProductionAssumption DEF Init, ProductionInit
<1>5. CorrectionsTypeOK
  <2>1. PICK row : row = [status |-> "ABSENT", selected |-> FALSE, result |-> 0]
    OBVIOUS
  <2>2. row \in Plan
    BY <2>1, ProductionAssumption DEF Plan, PlanStatuses
  <2>3. plan = [p \in Plans |-> row] /\ revisions = [p \in Plans |-> {}] /\ reinspected = {}
    BY <2>1 DEF Init, CorrectionsInit
  <2> QED BY <2>2, <2>3 DEF CorrectionsTypeOK
<1>6. OperationRows
  BY OperationsAssumption DEF Init, OperationsInit, OperationRows
<1>7. feed \in Feed
  BY DEF Init, IngestionInit, NoFeed, Feed
<1>8. CommunityTypeOK
  <2>1. server \in Seq(ServerThings) /\ Len(server) <= MaxThings
    BY CommunityAssumption DEF Init, CommunityInit
  <2>2. /\ obsolete \in [row : BOOLEAN, alive : BOOLEAN]
        /\ guild \in [row : BOOLEAN, state : {"PREVIEW", "APPLIED"}]
        /\ registry \in [Layout -> 0..MaxThings]
        /\ panel \in [sent : 0..MaxThings, saved : 0..MaxThings]
    BY CommunityAssumption DEF Init, CommunityInit
  <2>3. member \in [role : BOOLEAN, accepted : BOOLEAN, badges : SUBSET Badges,
                    grants : [Badges -> GrantStatuses]]
    BY DEF Init, CommunityInit, GrantStatuses
  <2>4. /\ ticket \in [rows : [Tickets -> TicketStatuses \cup {"ABSENT"}], channels : 0..MaxTickets]
        /\ notice \in [status : {"ABSENT", "DRAFT", "PUBLISHED"}, sent : 0..MaxThings]
        /\ cases \in [Tickets -> {"ABSENT", "OPEN", "APPEALED"}]
    BY CommunityAssumption DEF Init, CommunityInit
  <2> QED BY <2>1, <2>2, <2>3, <2>4 DEF CommunityTypeOK
<1>9. ConnectionsTypeOK
  BY ConnectionsAssumption
  DEF Init, ConnectionsInit, ConnectionsTypeOK, ConnectionStates, CredentialFile, NoFile
<1>10. qualityReports \subseteq QualityReport
  BY DEF Init, AdviceInit
<1> QED BY <1>1, <1>2, <1>3, <1>4, <1>5, <1>6, <1>7, <1>8, <1>9, <1>10 DEF TypeInv

LEMMA TypesKept ==
  ASSUME ComponentsInv, TypeInv, [Next]_vars
  PROVE  TypeInv'
<1>1. SessionsTyped'
  BY SessionsKept
<1>2. faults' <= MaxFaults
  BY FaultsKeepBound DEF ComponentsInv, ProgressInv, TypeInv
<1>3. Len(clips') <= MaxClips
  BY ClipsKeepBound DEF ComponentsInv, TypeInv
<1> QED BY <1>1, <1>2, <1>3, RowTypesKept DEF TypeInv

LEMMA TypesAreEnough ==
  ASSUME ComponentsInv, TypeInv
  PROVE  TypeOK
<1>1. CeleryTypeOK
  <2>1. /\ messages \in [Messages -> 0..MaxMessages] /\ lost \subseteq Messages
        /\ faults \in 0..MaxFaults
    BY CeleryAssumption DEF ComponentsInv, ProgressInv, BrokerInv, TypeInv, SessionsTyped
  <2>2. ASSUME NEW a \in Actors, session[a] # Idle
        PROVE  Carries(a, session[a])
    BY <2>2 DEF TypeInv, SessionsTyped, SessionTyped
  <2>3. /\ \A a \in Operators : session[a] # Idle => session[a].message = NoMessage
        /\ \A w \in Workers : session[w] # Idle => session[w].message \in Messages
    BY <2>2, CeleryAssumption DEF Actors, Carries
  <2> QED BY <2>1, <2>3 DEF CeleryTypeOK
<1>2. ProductionTypeOK /\ AnalysisTypeOK
  BY DEF ComponentsInv, ProgressInv, SourceInv, ReviewInv, TypeInv, ProductionTypeOK
<1>3. OpportunitiesTypeOK
  BY OpportunitiesAreTyped DEF ComponentsInv, ProgressInv, TypeInv
<1>4. PackagesTypeOK /\ MediaTypeOK /\ AutopilotTypeOK /\ DiscoveryTypeOK /\ PostsTypeOK
  BY DEF ComponentsInv, PackagesInv, MediaInv, AutopilotInv, DiscoveryInv, PostsInv
<1>5. OperationsTypeOK /\ AdviceTypeOK
  BY DEF ComponentsInv, TypeInv, OperationRows, ReportsInv, OperationsTypeOK, AdviceInv,
         AdviceTypeOK
<1>6. IngestionTypeOK
  BY DEF ComponentsInv, TypeInv, IngestionInv, ItemsFine, Jobs, IngestionTypeOK
<1>7. CorrectionsTypeOK /\ CommunityTypeOK /\ ConnectionsTypeOK
  BY DEF TypeInv
<1>8. \A a \in Actors : session[a] \in Sessions
  BY DEF TypeInv, SessionsTyped, SessionTyped, Sessions
<1>9. session \in [Actors -> Sessions]
  BY <1>8 DEF TypeInv, SessionsTyped
<1> QED BY <1>1, <1>2, <1>3, <1>4, <1>5, <1>6, <1>7, <1>9 DEF TypeOK

(* The types are part of an inductive invariant, in which those of one     *)
(* component rest on what is known of the others.                          *)
THEOREM TypesInductive == Spec => [](ComponentsInv /\ TypeInv)
<1>1. Init => ComponentsInv /\ TypeInv
  BY ComponentsInitially, TypesInitially
<1>2. ComponentsInv /\ TypeInv /\ [Next]_vars => (ComponentsInv /\ TypeInv)'
  BY ComponentsKept, TypesKept
<1> QED BY <1>1, <1>2, PTL DEF Spec

(* Every row, every session and every message is of its type: what a       *)
(* handler or a task goes on with is what it has loaded, no counter leaves *)
(* its bound, and a session is one that the operation's module names.      *)
THEOREM PipelineIsTyped == Spec => []TypeOK
<1>1. ComponentsInv /\ TypeInv => TypeOK
  BY TypesAreEnough
<1> QED BY <1>1, TypesInductive, PTL
=============================================================================
