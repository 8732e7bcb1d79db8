---------------------------- MODULE OfficeProofs ----------------------------
(***************************************************************************)
(* Proofs about what goes on beside the making of a clip: the autopilot's  *)
(* decisions, recommendations, discovered videos, posts made by hand,      *)
(* intake, operations, the TikTok connection and the Discord community.    *)
(* Each component has an inductive invariant, with three lemmas that       *)
(* PipelineProofs uses: it holds initially, the component's own steps keep *)
(* it, and so does what leaves its rows alone.                             *)
(***************************************************************************)
EXTENDS
    Operations, Autopilot, Ingestion, Discovery, ManualPublishing, ProducerAdvice,
    TikTokConnections, Community, WorkersProofs, FiniteSetTheorems

-----------------------------------------------------------------------------
(* The operations of the components, and that the steps of each change one *)
(* actor's session, and only to one of their own operations.               *)

OperationOps == {"REFRESH", "DELIVER"}
AutopilotOps == {"CONTROL", "POLICY"} \cup Purposes
PostOps == {"POST", "METRICS", "CHECKPOINT"}
AdviceOps == {"REPORT", "QUALITY", "INSPECTED", "ADVISE", "NOTE", "ENDORSE", "DECLINE"}
IngestionOps ==
    {"URL", "UPLOAD", "REGISTER", "VALIDATE", "ACTIVATE", "PAUSE", "BLOCK", "POLL", "TRANSITION"}
DiscoveryOps == {"DISCOVER", "TAKE", "LEAVE", "MAKE"}

LEMMA OperationsMoves ==
  ASSUME Shaped, NEW a \in Actors, OperationsHandler(a) \/ Operate(a) \/ TakeRefresh(a)
  PROVE  Moves(a, OperationOps)
<1>1. ASSUME NEW m, NEW s \in Health(m), Begin(a, s)
      PROVE  Moves(a, OperationOps)
  BY <1>1, BeginMoves DEF Health, OperationOps
<1>2. CASE CallRefresh(a) \/ TakeRefresh(a)
  BY <1>1, <1>2 DEF CallRefresh, TakeRefresh, Receive
<1>3. CASE LoadReports(a)
  BY <1>3, BeginMoves DEF LoadReports, OperationOps
<1>4. CASE PostReport(a)
  BY <1>4, GotoMoves DEF PostReport, At, OperationOps
<1>5. CASE PostFails(a) \/ LeaveQuiet(a) \/ RefreshFails(a) \/ CreateReports(a)
  BY <1>5, EndMoves DEF PostFails, LeaveQuiet, RefreshFails, CreateReports, EndInException
<1>6. CASE Refresh(a)
  BY <1>6, GotoMoves, EndMoves DEF Refresh, At, OperationOps
<1>7. CASE MarkDelivered(a)
  <2>1. CASE End(a)
    BY <2>1, EndMoves
  <2>2. CASE ~End(a)
    BY <1>7, <2>2 DEF MarkDelivered, At, OperationOps, Moves, Shaped, OthersStay, Confined
  <2> QED BY <2>1, <2>2
<1> QED BY <1>2, <1>3, <1>4, <1>5, <1>6, <1>7 DEF OperationsHandler, Operate

LEMMA AutopilotMoves ==
  ASSUME Shaped, NEW a \in Actors,
         AutopilotHandler(a) \/ Advance(a) \/ \E m \in Messages : TakeTick(a, m)
  PROVE  Moves(a, AutopilotOps)
<1>1. CASE LoadControl(a) \/ LoadPolicy(a)
  BY <1>1, BeginMoves DEF LoadControl, LoadPolicy, AutopilotOps
<1>2. ASSUME NEW purpose \in Purposes, NEW object, NEW time, NEW m,
             Begin(a, Deciding(purpose, object, time, m))
      PROVE  Moves(a, AutopilotOps)
  BY <1>2, BeginMoves DEF Deciding, AutopilotOps
<1>3. CASE CallDecision(a)
  BY <1>2, <1>3 DEF CallDecision, Purposes
<1>4. ASSUME NEW m \in Messages, TakeTick(a, m)
      PROVE  Moves(a, AutopilotOps)
  BY <1>2, <1>4, StayMoves DEF TakeTick, Receive, Purposes
<1>5. CASE Consider(a)
  BY <1>5, BeginMoves DEF Consider, AutopilotOps
<1>6. CASE EnterDecision(a)
  BY <1>6, GotoMoves, EndMoves DEF EnterDecision, AutopilotOps
<1>7. CASE CommitControl(a) \/ CommitPolicy(a) \/ DecisionCollides(a) \/ ReserveSlot(a)
  BY <1>7, EndMoves DEF CommitControl, CommitPolicy, DecisionCollides, EndInException, ReserveSlot
<1>8. CASE LookForSlot(a)
  BY <1>8, GotoMoves, EndMoves DEF LookForSlot, At, AutopilotOps, Purposes
<1> QED BY <1>1, <1>3, <1>4, <1>5, <1>6, <1>7, <1>8 DEF AutopilotHandler, Advance

LEMMA PostsMoves ==
  ASSUME Shaped, NEW a \in Actors, PostsHandler(a)
  PROVE  Moves(a, PostOps)
<1>1. CASE LoadForPost(a)
  BY <1>1, BeginMoves DEF LoadForPost, PostOps
<1>2. CASE LoadMetrics(a)
  BY <1>2, BeginMoves DEF LoadMetrics, PostOps
<1>3. CASE LoadCheckpoint(a)
  BY <1>3, BeginMoves DEF LoadCheckpoint, PostOps
<1>4. CASE RecordPost(a) \/ CommitMetrics(a) \/ UpdateCheckpoint(a)
  BY <1>4, EndMoves DEF RecordPost, CommitMetrics, UpdateCheckpoint
<1> QED BY <1>1, <1>2, <1>3, <1>4 DEF PostsHandler

LEMMA AdviceMoves ==
  ASSUME Shaped, NEW a \in Actors,
         AdviceHandler(a) \/ Advise(a) \/ TakeReport(a) \/ TakeAdvice(a)
  PROVE  Moves(a, AdviceOps)
<1>1. CASE CallReport(a)
  BY <1>1, BeginMoves DEF CallReport, Reporting, AdviceOps
<1>2. CASE TakeReport(a) \/ ReportInspection(a)
  BY <1>2, BeginMoves DEF TakeReport, ReportInspection, Receive, Reporting, AdviceOps
<1>3. CASE CallAdvice(a) \/ TakeAdvice(a)
  BY <1>3, BeginMoves DEF CallAdvice, TakeAdvice, Receive, Advising, AdviceOps
<1>4. CASE AfterReport(a)
  BY <1>4, BeginMoves, EndMoves DEF AfterReport, Advising, AdviceOps
<1>5. CASE ReadEvidence(a)
  <2>1. PICK s : s = [op |-> session[a].op, at |-> "reported", message |-> session[a].message,
                      latest |-> session[a].latest, inspection |-> NewestCompleted]
    OBVIOUS
  <2>2. AfterReport(a) \/ End(a) \/ Begin(a, s)
    BY <1>5, <2>1 DEF ReadEvidence
  <2>3. s.op \in AdviceOps /\ {"op", "at"} \subseteq DOMAIN s
    BY <1>5, <2>1 DEF ReadEvidence, AdviceOps
  <2> QED BY <1>4, <2>2, <2>3, BeginMoves, EndMoves
<1>6. CASE CommitReport(a)
  BY <1>4, <1>6, EndMoves DEF CommitReport, EndInException
<1>7. CASE CommitAdvice(a) \/ SaveAdvice(a)
  BY <1>7, EndMoves DEF CommitAdvice, SaveAdvice
<1>8. CASE LoadAdvice(a)
  BY <1>8, BeginMoves DEF LoadAdvice, AdviceOps
<1> QED BY <1>1, <1>2, <1>3, <1>5, <1>6, <1>7, <1>8 DEF AdviceHandler, Advise

LEMMA IngestionMoves ==
  ASSUME Shaped, NEW a \in Actors, IngestionHandler(a)
  PROVE  Moves(a, IngestionOps)
<1>1. CASE SubmitUrl(a)
  BY <1>1, BeginMoves DEF SubmitUrl, IngestionOps
<1>2. CASE SubmitUpload(a)
  BY <1>2, BeginMoves, StayMoves DEF SubmitUpload, IngestionOps
<1>3. CASE CheckUrl(a) \/ ReceiveUpload(a)
  BY <1>3, GotoMoves, EndMoves DEF CheckUrl, ReceiveUpload, At, IngestionOps
<1>4. CASE FetchUrl(a)
  <2>1. CASE End(a)
    BY <2>1, EndMoves
  <2>2. ASSUME NEW final, Begin(a, [session[a] EXCEPT !.at = "storing", !.thing = final])
        PROVE  Moves(a, IngestionOps)
    BY <1>4, <2>2, BeginMoves DEF FetchUrl, At, IngestionOps, Shaped
  <2> QED BY <1>4, <2>1, <2>2 DEF FetchUrl
<1>5. CASE \/ StoreUrl(a) \/ StoreUpload(a) \/ FinishRegistration(a) \/ FinishValidation(a)
           \/ CommitFeedStatus(a) \/ FinishRun(a) \/ RunFails(a) \/ CommitTransition(a)
  BY <1>5, EndMoves
  DEF StoreUrl, StoreUpload, FinishRegistration, FinishValidation, CommitFeedStatus, FinishRun,
      RunFails, CommitTransition
<1>6. CASE RegisterFeed(a)
  BY <1>6, BeginMoves DEF RegisterFeed, IngestionOps
<1>7. CASE LoadFeed(a)
  BY <1>7, BeginMoves DEF LoadFeed, IngestionOps
<1>8. CASE StartRun(a)
  <2>1. PICK s : s = [session[a] EXCEPT !.at = "fetching", !.feed.leased = TRUE]
    OBVIOUS
  <2>2. s.op \in IngestionOps /\ {"op", "at"} \subseteq DOMAIN s /\ Begin(a, s)
    BY <1>8, <2>1 DEF StartRun, At, IngestionOps, Shaped
  <2> QED BY <2>2, BeginMoves
<1>9. CASE LoadItem(a)
  BY <1>9, BeginMoves DEF LoadItem, IngestionOps
<1> QED BY <1>1, <1>2, <1>3, <1>4, <1>5, <1>6, <1>7, <1>8, <1>9 DEF IngestionHandler

LEMMA DiscoveryMoves ==
  ASSUME Shaped, NEW a \in Actors, DiscoveryHandler(a) \/ Discover(a) \/ TakeDiscovery(a)
  PROVE  Moves(a, DiscoveryOps)
<1>1. CASE EnableChannel(a)
  BY <1>1, StayMoves DEF EnableChannel
<1>2. ASSUME NEW todo, NEW m, Begin(a, Polling(todo, m))
      PROVE  Moves(a, DiscoveryOps)
  BY <1>2, BeginMoves DEF Polling, DiscoveryOps
<1>3. CASE CallPoll(a) \/ TakeDiscovery(a)
  BY <1>2, <1>3, StayMoves DEF CallPoll, TakeDiscovery, Receive
<1>4. CASE StartPoll(a)
  BY <1>4, BeginMoves DEF StartPoll, DiscoveryOps
<1>5. CASE PollAnswers(a)
  BY <1>5 DEF PollAnswers, At, DiscoveryOps, Moves, Shaped, OthersStay, Confined
<1>6. CASE InsertFound(a) \/ PollFails(a)
  BY <1>2, <1>6, EndMoves DEF InsertFound, PollFails, AfterPoll
<1>7. CASE InsertCollides(a) \/ ProjectCollides(a) \/ ApproveMedia(a) \/ RejectMedia(a)
  BY <1>7, EndMoves
  DEF InsertCollides, ProjectCollides, ApproveMedia, RejectMedia, EndInException
<1>8. CASE LoadFinding(a)
  BY <1>8, BeginMoves DEF LoadFinding, DiscoveryOps
<1>9. CASE CallProject(a)
  BY <1>9, BeginMoves DEF CallProject, DiscoveryOps
<1>10. CASE LookForProject(a) \/ MakeProject(a)
  BY <1>10, GotoMoves, EndMoves DEF LookForProject, MakeProject, Return, DiscoveryOps
<1> QED BY <1>1, <1>3, <1>4, <1>5, <1>6, <1>7, <1>8, <1>9, <1>10 DEF DiscoveryHandler, Discover
-----------------------------------------------------------------------------
(* Autopilot.  A session keeps a policy that was in force when it began,   *)
(* allows only what that policy permits, and reserves a slot only after it *)
(* has entered its decision.                                               *)

InForce == policy \in policies

AllowedByPolicy ==
    \A d \in decisions :
        d.allowed => [permits |-> TRUE, version |-> d.policy_version] \in policies

ScheduledByDecision ==
    \A i \in Items :
        slot[i].scheduled_for # None =>
            [object |-> i, allowed |-> TRUE, policy_version |-> slot[i].policy_version] \in decisions

DecisionFine(s) ==
    /\ s.op = "CONTROL" => s.copy \in Control
    /\ s.op = "POLICY" => s.copy \in Policy /\ s.copy.version < MaxPolicyVersions
    /\ s.op \in Purposes =>
          /\ s.at \in {"policy", "considered", "allowed", "reserving"}
          /\ s.copy \in policies
          /\ s.object \in Objects
          /\ s.op = "SCHEDULE" => s.object \in Items /\ s.time \in Times
          /\ s.at # "policy" => s.allowed \in BOOLEAN /\ (s.allowed => s.copy.permits)
          /\ s.at \in {"allowed", "reserving"} => s.allowed /\ DecisionOf(s) \in decisions

(* The inductive invariant. *)
AutopilotInv ==
    /\ AutopilotTypeOK
    /\ InForce /\ AllowedByPolicy /\ ScheduledByDecision
    /\ \A a \in Actors : DecisionFine(session[a])

LEMMA AutopilotInitially ==
  ASSUME AutopilotInit, \A a \in Actors : session[a] = Idle
  PROVE  AutopilotInv
<1>1. AutopilotTypeOK
  BY AutopilotAssumption DEF AutopilotInit, AutopilotTypeOK, Control, Policy
<1>2. \A a \in Actors : DecisionFine(session[a])
  BY DEF DecisionFine, Idle, Purposes
<1> QED BY <1>1, <1>2
        DEF AutopilotInit, AutopilotInv, InForce, AllowedByPolicy, ScheduledByDecision

(* What the other sessions know stays true: policies and decisions are     *)
(* only added.                                                             *)
LEMMA OthersDecide ==
  ASSUME AutopilotInv, policies \subseteq policies', decisions \subseteq decisions',
         NEW a \in Actors, OthersStay(a), DecisionFine(session[a])',
         AutopilotTypeOK', InForce', AllowedByPolicy', ScheduledByDecision'
  PROVE  AutopilotInv'
<1>1. ASSUME NEW b \in Actors, b # a
      PROVE  DecisionFine(session[b])'
  <2>1. session'[b] = session[b] /\ DecisionFine(session[b])
    BY <1>1 DEF OthersStay, AutopilotInv
  <2> QED BY <2>1 DEF DecisionFine, DecisionOf
<1> QED BY <1>1 DEF AutopilotInv

LEMMA IdleDecides ==
  ASSUME NEW a \in Actors, session'[a] = Idle
  PROVE  DecisionFine(session[a])'
  BY DEF DecisionFine, Idle, Purposes

(* A step that leaves the rows. *)
LEMMA SessionDecides ==
  ASSUME AutopilotInv, UNCHANGED autopilotRows, NEW a \in Actors, OthersStay(a),
         DecisionFine(session'[a])
  PROVE  AutopilotInv'
<1>1. /\ UNCHANGED <<policies, decisions>>
      /\ AutopilotTypeOK' /\ InForce' /\ AllowedByPolicy' /\ ScheduledByDecision'
  BY DEF autopilotRows, AutopilotInv, AutopilotTypeOK, InForce, AllowedByPolicy,
         ScheduledByDecision
<1>2. DecisionFine(session[a])'
  BY <1>1 DEF DecisionFine, DecisionOf
<1> QED BY <1>1, <1>2, OthersDecide

LEMMA CommitControlKeeps ==
  ASSUME AutopilotInv, Shaped, NEW o \in Actors, CommitControl(o)
  PROVE  AutopilotInv'
<1>1. session[o].copy \in Control
  BY DEF AutopilotInv, DecisionFine, CommitControl, At
<1>2. control' \in Control
  BY <1>1 DEF AutopilotInv, AutopilotTypeOK, CommitControl, Control, Updated
<1>3. UNCHANGED <<policy, policies, decisions, exceptions, slot>>
  BY DEF CommitControl
<1>4. AutopilotTypeOK' /\ InForce' /\ AllowedByPolicy' /\ ScheduledByDecision'
  BY <1>2, <1>3
  DEF AutopilotInv, AutopilotTypeOK, InForce, AllowedByPolicy, ScheduledByDecision
<1>5. session'[o] = Idle /\ OthersStay(o)
  BY EndEffect DEF CommitControl
<1> QED BY <1>3, <1>4, <1>5, IdleDecides, OthersDecide

LEMMA CommitPolicyKeeps ==
  ASSUME AutopilotInv, Shaped, NEW o \in Actors, CommitPolicy(o)
  PROVE  AutopilotInv'
<1>1. session[o].copy \in Policy /\ session[o].copy.version < MaxPolicyVersions
  BY DEF AutopilotInv, DecisionFine, CommitPolicy, At
<1>2. policy' \in Policy /\ policies' = policies \cup {policy'}
  BY <1>1, AutopilotAssumption
  DEF AutopilotInv, AutopilotTypeOK, CommitPolicy, Policy, Updated
<1>3. UNCHANGED <<control, decisions, exceptions, slot>>
  BY DEF CommitPolicy
<1>4. AutopilotTypeOK' /\ InForce' /\ AllowedByPolicy' /\ ScheduledByDecision'
  BY <1>2, <1>3
  DEF AutopilotInv, AutopilotTypeOK, InForce, AllowedByPolicy, ScheduledByDecision
<1>5. session'[o] = Idle /\ OthersStay(o)
  BY EndEffect DEF CommitPolicy
<1> QED BY <1>2, <1>3, <1>4, <1>5, IdleDecides, OthersDecide

LEMMA EnterDecisionKeeps ==
  ASSUME AutopilotInv, Shaped, NEW a \in Actors, EnterDecision(a)
  PROVE  AutopilotInv'
<1>1. PICK s : s = session[a]
  OBVIOUS
<1>2. PICK d : d = DecisionOf(s)
  OBVIOUS
<1>3. /\ s.op \in Purposes /\ s.at = "considered" /\ s.copy \in policies
      /\ s.object \in Objects /\ s.allowed \in BOOLEAN /\ (s.allowed => s.copy.permits)
      /\ s.op = "SCHEDULE" => s.object \in Items /\ s.time \in Times
  BY <1>1 DEF AutopilotInv, DecisionFine, EnterDecision
<1>4. s.copy \in Policy /\ policies \subseteq Policy
  BY <1>3 DEF AutopilotInv, AutopilotTypeOK
<1>5. d.object = s.object /\ d.allowed = s.allowed /\ d.policy_version = s.copy.version
  BY <1>2 DEF DecisionOf
<1>6. /\ decisions' = decisions \cup {d}
      /\ exceptions' \in {exceptions, exceptions \cup {s.object}}
      /\ UNCHANGED <<control, policy, policies, slot>>
  BY <1>1, <1>2 DEF EnterDecision
<1>7. d \in [object : Objects, allowed : BOOLEAN, policy_version : 1..MaxPolicyVersions]
  BY <1>2, <1>3, <1>4 DEF DecisionOf, Policy
<1>8. AutopilotTypeOK'
  BY <1>3, <1>6, <1>7 DEF AutopilotInv, AutopilotTypeOK
<1>9. s.allowed => [permits |-> TRUE, version |-> s.copy.version] \in policies
  <2>1. s.allowed => s.copy = [permits |-> TRUE, version |-> s.copy.version]
    BY <1>3, <1>4 DEF Policy
  <2> QED BY <1>3, <2>1
<1>10. AllowedByPolicy'
  BY <1>5, <1>6, <1>9 DEF AutopilotInv, AllowedByPolicy
<1>11. InForce' /\ ScheduledByDecision'
  BY <1>6 DEF AutopilotInv, InForce, ScheduledByDecision
<1>12. DecisionFine(session[a])' /\ OthersStay(a)
  <2>1. CASE End(a)
    BY <2>1, EndEffect, IdleDecides
  <2>2. CASE s.allowed /\ Goto(a, "allowed")
    <3>1. session'[a] = [s EXCEPT !.at = "allowed"] /\ OthersStay(a)
      BY <1>1, <2>2, GotoEffect
    <3>2. PICK t : t = [s EXCEPT !.at = "allowed"]
      OBVIOUS
    <3>3. /\ t.op = s.op /\ t.copy = s.copy /\ t.object = s.object /\ t.time = s.time
          /\ t.allowed = s.allowed /\ (t.at = "allowed")
      BY <1>1, <3>2 DEF Shaped
    <3>4. DecisionOf(t) = d
      BY <1>2, <3>3 DEF DecisionOf
    <3> QED BY <1>3, <1>6, <2>2, <3>1, <3>2, <3>3, <3>4 DEF DecisionFine, DecisionOf, Purposes
  <2> QED BY <1>1, <2>1, <2>2 DEF EnterDecision
<1> QED BY <1>6, <1>8, <1>10, <1>11, <1>12, OthersDecide

LEMMA ReserveSlotKeeps ==
  ASSUME AutopilotInv, Shaped, NEW o \in Actors, ReserveSlot(o)
  PROVE  AutopilotInv'
<1>1. PICK s : s = session[o]
  OBVIOUS
<1>2. s.object \in Items /\ s.time \in Times /\ s.allowed /\ s.copy \in Policy
  BY <1>1 DEF AutopilotInv, AutopilotTypeOK, DecisionFine, ReserveSlot, At, Purposes
<1>3. DecisionOf(s) \in decisions
  BY <1>1 DEF AutopilotInv, DecisionFine, ReserveSlot, At, Purposes
<1>4. DecisionOf(s) = [object |-> s.object, allowed |-> TRUE, policy_version |-> s.copy.version]
  <2>1. s.allowed = TRUE
    BY <1>1 DEF AutopilotInv, DecisionFine, ReserveSlot, At, Purposes
  <2> QED BY <2>1 DEF DecisionOf
<1>5. UNCHANGED <<control, policy, policies, decisions, exceptions>>
  BY DEF ReserveSlot
<1>6. \/ UNCHANGED slot
      \/ slot' = [slot EXCEPT ![s.object] =
                     [scheduled_for |-> s.time, policy_version |-> s.copy.version]]
  BY <1>1 DEF ReserveSlot
<1>7. slot' \in [Items -> [scheduled_for : Times \cup {None},
                           policy_version : 0..MaxPolicyVersions]]
  BY <1>2, <1>6 DEF AutopilotInv, AutopilotTypeOK, Policy
<1>8. ASSUME NEW i \in Items, slot'[i].scheduled_for # None
      PROVE  [object |-> i, allowed |-> TRUE, policy_version |-> slot'[i].policy_version]
                \in decisions
  <2>1. CASE slot'[i] = slot[i]
    BY <1>8, <2>1 DEF AutopilotInv, ScheduledByDecision
  <2>2. CASE slot'[i] # slot[i]
    <3>1. i = s.object /\ slot'[i].policy_version = s.copy.version
      BY <1>6, <2>2 DEF AutopilotInv, AutopilotTypeOK
    <3> QED BY <1>3, <1>4, <3>1
  <2> QED BY <2>1, <2>2
<1>9. AutopilotTypeOK' /\ InForce' /\ AllowedByPolicy'
  BY <1>5, <1>7 DEF AutopilotInv, AutopilotTypeOK, InForce, AllowedByPolicy
<1>10. session'[o] = Idle /\ OthersStay(o)
  BY EndEffect DEF ReserveSlot
<1>11. ScheduledByDecision'
  BY <1>5, <1>8 DEF ScheduledByDecision
<1> QED BY <1>5, <1>9, <1>10, <1>11, IdleDecides, OthersDecide

LEMMA DecidingKeeps ==
  ASSUME AutopilotInv, Shaped, NEW a \in Actors,
         \/ LoadControl(a) \/ LoadPolicy(a) \/ CallDecision(a) \/ Consider(a)
         \/ DecisionCollides(a) \/ LookForSlot(a) \/ \E m \in Messages : TakeTick(a, m)
  PROVE  AutopilotInv'
<1>1. UNCHANGED autopilotRows
  BY DEF LoadControl, LoadPolicy, CallDecision, Consider, DecisionCollides, LookForSlot, TakeTick
<1>2. control \in Control /\ policy \in Policy /\ policy \in policies
  BY DEF AutopilotInv, AutopilotTypeOK, InForce
<1>3. CASE LoadControl(a)
  <2>1. PICK s : s = [op |-> "CONTROL", at |-> "loaded", message |-> NoMessage, copy |-> control]
    OBVIOUS
  <2>2. DecisionFine(s)
    BY <1>2, <2>1 DEF DecisionFine, Purposes
  <2> QED BY <1>1, <1>3, <2>1, <2>2, BeginEffect, SessionDecides DEF LoadControl
<1>4. CASE LoadPolicy(a)
  <2>1. PICK s : s = [op |-> "POLICY", at |-> "loaded", message |-> NoMessage, copy |-> policy]
    OBVIOUS
  <2>2. DecisionFine(s)
    BY <1>2, <1>4, <2>1 DEF DecisionFine, Purposes, LoadPolicy
  <2> QED BY <1>1, <1>4, <2>1, <2>2, BeginEffect, SessionDecides DEF LoadPolicy
<1>5. ASSUME NEW purpose \in Purposes, NEW object \in Objects, NEW time, NEW m,
             purpose = "SCHEDULE" => object \in Items /\ time \in Times,
             Begin(a, Deciding(purpose, object, time, m))
      PROVE  AutopilotInv'
  <2>1. PICK s : s = Deciding(purpose, object, time, m)
    OBVIOUS
  <2>2. DecisionFine(s)
    BY <1>2, <1>5, <2>1 DEF DecisionFine, Deciding, Purposes
  <2> QED BY <1>1, <1>5, <2>1, <2>2, BeginEffect, SessionDecides
<1>6. CASE CallDecision(a)
  BY <1>5, <1>6 DEF CallDecision, Objects, Purposes
<1>7. ASSUME NEW m \in Messages, TakeTick(a, m)
      PROVE  AutopilotInv'
  <2>1. CASE UNCHANGED session
    BY <1>1, <2>1, SessionDecides DEF OthersStay, AutopilotInv
  <2> QED BY <1>5, <1>7, <2>1 DEF TakeTick, Receive, Objects, Purposes
<1>8. CASE Consider(a)
  <2>1. PICK s : s = session[a]
    OBVIOUS
  <2>2. PICK t : t = [op |-> s.op, at |-> "considered", message |-> s.message,
                      object |-> s.object, time |-> s.time, copy |-> s.copy,
                      allowed |-> Allows(s), known |-> s.object \in exceptions]
    OBVIOUS
  <2>3. Begin(a, t)
    BY <1>8, <2>1, <2>2 DEF Consider
  <2>4. DecisionFine(s) /\ s.op \in Purposes
    BY <1>8, <2>1 DEF AutopilotInv, Consider
  <2>5. t.allowed \in BOOLEAN /\ (t.allowed => s.copy.permits)
    BY <2>2, Zenon DEF Allows
  <2>6. DecisionFine(t)
    BY <2>2, <2>4, <2>5 DEF DecisionFine, Purposes
  <2> QED BY <1>1, <2>3, <2>6, BeginEffect, SessionDecides
<1>9. CASE End(a)
  BY <1>1, <1>9, EndEffect, IdleDecides, SessionDecides DEF DecisionFine, Idle, Purposes
<1>10. CASE LookForSlot(a) /\ Goto(a, "reserving")
  <2>1. PICK s : s = session[a]
    OBVIOUS
  <2>2. PICK t : t = [s EXCEPT !.at = "reserving"]
    OBVIOUS
  <2>3. session'[a] = t /\ OthersStay(a)
    BY <1>10, <2>1, <2>2, GotoEffect
  <2>4. DecisionFine(s) /\ s.op = "SCHEDULE" /\ s.at = "allowed"
    BY <1>10, <2>1 DEF AutopilotInv, LookForSlot, At
  <2>5. /\ t.op = s.op /\ t.copy = s.copy /\ t.object = s.object /\ t.time = s.time
        /\ t.allowed = s.allowed /\ (t.at = "reserving")
    BY <2>1, <2>2 DEF Shaped
  <2>6. DecisionFine(t)
    BY <2>4, <2>5 DEF DecisionFine, DecisionOf, Purposes
  <2> QED BY <1>1, <2>3, <2>6, SessionDecides
<1> QED BY <1>3, <1>4, <1>6, <1>7, <1>8, <1>9, <1>10
        DEF DecisionCollides, EndInException, LookForSlot

LEMMA AutopilotStep ==
  ASSUME AutopilotInv, Shaped, NEW a \in Actors,
         AutopilotHandler(a) \/ Advance(a) \/ \E m \in Messages : TakeTick(a, m)
  PROVE  AutopilotInv'
  BY CommitControlKeeps, CommitPolicyKeeps, EnterDecisionKeeps, ReserveSlotKeeps, DecidingKeeps
  DEF AutopilotHandler, Advance

LEMMA AutopilotUntouched ==
  ASSUME AutopilotInv, UNCHANGED autopilotRows, NEW Ops, Confined(Ops),
         (Ops \cup {"IDLE"}) \cap AutopilotOps = {}
  PROVE  AutopilotInv'
<1>1. UNCHANGED <<policies, decisions>>
  BY DEF autopilotRows
<1>2. ASSUME NEW a \in Actors PROVE DecisionFine(session[a])'
  <2>1. CASE session'[a] = session[a]
    BY <1>1, <2>1 DEF AutopilotInv, DecisionFine, DecisionOf
  <2>2. CASE session'[a] # session[a]
    BY <2>2 DEF Confined, DecisionFine, AutopilotOps
  <2> QED BY <2>1, <2>2
<1> QED BY <1>2
        DEF autopilotRows, AutopilotInv, AutopilotTypeOK, InForce, AllowedByPolicy,
            ScheduledByDecision

LEMMA AutopilotInvIsEnough ==
  ASSUME AutopilotInv
  PROVE  AutopilotTypeOK /\ DecisionsTraceable
  BY DEF AutopilotInv, AllowedByPolicy, ScheduledByDecision, DecisionsTraceable

(* The body of StopLiftedKnowingly. *)
LiftedKnowingly ==
    control.emergency_stop /\ ~control'.emergency_stop
      => \E o \in Operators : /\ At(o, "CONTROL", "loaded")
                              /\ session[o].copy.emergency_stop

LEMMA HandlersLiftKnowingly ==
  ASSUME AutopilotInv, NEW o \in Operators, AutopilotHandler(o)
  PROVE  [LiftedKnowingly]_control
<1>1. CASE CommitControl(o)
  <2>1. session[o].copy \in Control
    BY <1>1 DEF AutopilotInv, DecisionFine, CommitControl, At, Actors
  <2>2. PICK new \in Control :
           control'.emergency_stop =
              Updated(control.emergency_stop, session[o].copy.emergency_stop, new.emergency_stop)
    BY <1>1 DEF CommitControl
  <2>3. control.emergency_stop /\ ~control'.emergency_stop => session[o].copy.emergency_stop
    BY <2>1, <2>2 DEF Updated, Control
  <2>4. At(o, "CONTROL", "loaded")
    BY <1>1 DEF CommitControl
  <2> QED BY <2>3, <2>4 DEF LiftedKnowingly
<1>2. ~CommitControl(o) => UNCHANGED control
  BY DEF AutopilotHandler, autopilotRows, LoadControl, LoadPolicy, CommitPolicy, CallDecision,
         Consider, EnterDecision, DecisionCollides, LookForSlot, ReserveSlot
<1> QED BY <1>1, <1>2
-----------------------------------------------------------------------------
(* Recommendations.  What an operator decides on was pending, and a note   *)
(* writes the status only if it changes it.                                *)

JudgingOps == {"NOTE", "ENDORSE", "DECLINE"}

JudgementFine(s) ==
    /\ s.op \in JudgingOps =>
          /\ s.id \in AdviceIds /\ s.copy \in Recommendation
          /\ s.copy.status = "PENDING" /\ s.copy.version < MaxNotes
    /\ s.op = "ADVISE" => s.about \in {"PROJECT", "CLIP"}

(* The inductive invariant. *)
AdviceInv ==
    /\ advice \in [AdviceIds -> Recommendation]
    /\ \A a \in Actors : JudgementFine(session[a])

(* The body of AdviceStaysDecided. *)
StaysDecided ==
    \A i \in AdviceIds : advice[i].status # "PENDING" => advice'[i].status # "PENDING"

LEMMA AdviceInitially ==
  ASSUME AdviceInit, \A a \in Actors : session[a] = Idle
  PROVE  AdviceInv
<1>1. Unwritten \in Recommendation
  BY AdviceAssumption DEF Unwritten, Recommendation, AdviceStatuses
<1> QED BY <1>1 DEF AdviceInit, AdviceInv, JudgementFine, JudgingOps, Idle

LEMMA SaveAdviceKeeps ==
  ASSUME AdviceInv, Shaped, NEW o \in Actors, SaveAdvice(o)
  PROVE  AdviceInv' /\ StaysDecided
<1>1. PICK s : s = session[o]
  OBVIOUS
<1>2. /\ s.op \in JudgingOps /\ s.id \in AdviceIds /\ s.copy \in Recommendation
      /\ s.copy.status = "PENDING" /\ s.copy.version < MaxNotes
  BY <1>1 DEF AdviceInv, JudgementFine, SaveAdvice, JudgingOps
<1>3. PICK row \in Recommendation : row = advice[s.id]
  BY <1>2 DEF AdviceInv
<1>4. PICK status : status = Updated(row.status, s.copy.status, Verdict(s))
  OBVIOUS
<1>5. /\ status \in AdviceStatuses
      /\ row.status # "PENDING" => status # "PENDING"
  <2>1. CASE s.op = "NOTE"
    BY <1>3, <1>4, <2>1 DEF Updated, Verdict, Recommendation
  <2>2. CASE s.op # "NOTE"
    BY <1>2, <1>4, <2>2 DEF Updated, Verdict, JudgingOps, AdviceStatuses
  <2> QED BY <2>1, <2>2
<1>6. PICK new : new = [row EXCEPT !.status = status, !.version = s.copy.version + 1]
  OBVIOUS
<1>7. advice' = [advice EXCEPT ![s.id] = new]
  BY <1>1, <1>2, <1>3, <1>4, <1>6 DEF SaveAdvice, AdviceInv
<1>8. new \in Recommendation /\ new.status = status
  <2>1. s.copy.version + 1 \in 1..MaxNotes
    BY <1>2, AdviceAssumption DEF Recommendation
  <2>2. new.version = s.copy.version + 1 /\ new.status = status
    BY <1>3, <1>6 DEF Recommendation
  <2> QED BY <1>3, <1>5, <1>6, <2>1, <2>2 DEF Recommendation
<1>9. advice' \in [AdviceIds -> Recommendation] /\ StaysDecided
  BY <1>2, <1>3, <1>5, <1>7, <1>8 DEF AdviceInv, StaysDecided
<1>10. session'[o].op = "IDLE" /\ OthersStay(o)
  BY EndEffect DEF SaveAdvice
<1> QED BY <1>9, <1>10 DEF AdviceInv, JudgementFine, JudgingOps, OthersStay

LEMMA CommitAdviceKeeps ==
  ASSUME AdviceInv, Shaped, NEW a \in Actors, CommitAdvice(a)
  PROVE  AdviceInv' /\ StaysDecided
<1>1. session'[a].op = "IDLE" /\ OthersStay(a)
  BY EndEffect DEF CommitAdvice
<1>2. advice' \in [AdviceIds -> Recommendation] /\ StaysDecided
  <2>1. CASE UNCHANGED advice
    BY <2>1 DEF AdviceInv, StaysDecided
  <2>2. CASE ~UNCHANGED advice
    <3>1. PICK filled : filled = [Unwritten EXCEPT !.about = session[a].about]
      OBVIOUS
    <3>2. advice' = [i \in AdviceIds |-> IF i \in NextAdvice THEN filled ELSE advice[i]]
      BY <2>2, <3>1 DEF CommitAdvice
    <3>3. \A i \in NextAdvice : advice[i] = Unwritten
      BY DEF NextAdvice
    <3>4. session[a].about \in {"PROJECT", "CLIP"}
      BY DEF AdviceInv, JudgementFine, CommitAdvice, At
    <3>5. filled \in Recommendation
      BY <3>1, <3>4, AdviceAssumption DEF Unwritten, Recommendation, AdviceStatuses
    <3> QED BY <3>2, <3>3, <3>5 DEF AdviceInv, StaysDecided, Unwritten
  <2> QED BY <2>1, <2>2
<1> QED BY <1>1, <1>2 DEF AdviceInv, JudgementFine, JudgingOps, OthersStay

(* A step that leaves the rows. *)
LEMMA AdvisingKeeps ==
  ASSUME AdviceInv, UNCHANGED advice, NEW a \in Actors, OthersStay(a), JudgementFine(session'[a])
  PROVE  AdviceInv'
  BY DEF AdviceInv, JudgementFine, OthersStay

LEMMA LoadAdviceKeeps ==
  ASSUME AdviceInv, Shaped, NEW o \in Actors, LoadAdvice(o)
  PROVE  AdviceInv'
<1>1. PICK i \in AdviceIds, op \in JudgingOps :
         /\ advice[i].status = "PENDING" /\ advice[i].version < MaxNotes
         /\ Begin(o, [op |-> op, at |-> "advised", message |-> NoMessage, id |-> i,
                      copy |-> advice[i]])
  BY DEF LoadAdvice, JudgingOps
<1>2. PICK s : s = [op |-> op, at |-> "advised", message |-> NoMessage, id |-> i,
                    copy |-> advice[i]]
  OBVIOUS
<1>3. JudgementFine(s)
  BY <1>1, <1>2 DEF AdviceInv, JudgementFine, JudgingOps
<1> QED BY <1>1, <1>2, <1>3, BeginEffect, AdvisingKeeps DEF LoadAdvice, adviceRows

LEMMA AdviceStep ==
  ASSUME AdviceInv, Shaped, NEW a \in Actors,
         AdviceHandler(a) \/ Advise(a) \/ TakeReport(a) \/ TakeAdvice(a)
  PROVE  AdviceInv' /\ [StaysDecided]_advice
<1>1. CASE SaveAdvice(a) \/ CommitAdvice(a)
  BY <1>1, SaveAdviceKeeps, CommitAdviceKeeps
<1>2. CASE ~(SaveAdvice(a) \/ CommitAdvice(a))
  <2>1. UNCHANGED advice
    BY <1>2
    DEF AdviceHandler, Advise, CallReport, TakeReport, ReportInspection, ReadEvidence,
        CommitReport, CallAdvice, TakeAdvice, LoadAdvice, adviceRows
  <2> SUFFICES AdviceInv'
    BY <2>1
  <2>2. CASE End(a)
    BY <2>1, <2>2, EndEffect, AdvisingKeeps DEF JudgementFine, JudgingOps
  <2>3. ASSUME NEW s, Begin(a, s), JudgementFine(s)
        PROVE  AdviceInv'
    BY <2>1, <2>3, BeginEffect, AdvisingKeeps
  <2>4. ASSUME NEW m, NEW about \in {"PROJECT", "CLIP"}, NEW statuses,
               Begin(a, Advising(m, about, statuses))
        PROVE  AdviceInv'
    BY <2>3, <2>4 DEF Advising, JudgementFine, JudgingOps
  <2>5. CASE AfterReport(a)
    BY <2>2, <2>4, <2>5 DEF AfterReport
  <2>6. ASSUME NEW op \in {"REPORT", "QUALITY", "INSPECTED"}, NEW m, Begin(a, Reporting(op, m))
        PROVE  AdviceInv'
    BY <2>3, <2>6 DEF Reporting, JudgementFine, JudgingOps
  <2>7. CASE CallReport(a) \/ TakeReport(a) \/ ReportInspection(a)
    BY <2>6, <2>7 DEF CallReport, TakeReport, ReportInspection, Receive
  <2>8. CASE CallAdvice(a) \/ TakeAdvice(a)
    BY <2>4, <2>8 DEF CallAdvice, TakeAdvice, Receive
  <2>9. CASE ReadEvidence(a)
    <3>1. PICK s : s = [op |-> session[a].op, at |-> "reported", message |-> session[a].message,
                        latest |-> session[a].latest, inspection |-> NewestCompleted]
      OBVIOUS
    <3>2. AfterReport(a) \/ End(a) \/ Begin(a, s)
      BY <2>9, <3>1 DEF ReadEvidence
    <3>3. JudgementFine(s)
      BY <2>9, <3>1 DEF ReadEvidence, JudgementFine, JudgingOps
    <3> QED BY <2>2, <2>3, <2>5, <3>2, <3>3
  <2>10. CASE CommitReport(a)
    BY <2>2, <2>5, <2>10 DEF CommitReport, EndInException
  <2> QED BY <1>2, <2>1, <2>7, <2>8, <2>9, <2>10, LoadAdviceKeeps DEF AdviceHandler, Advise
<1> QED BY <1>1, <1>2

LEMMA AdviceUntouched ==
  ASSUME AdviceInv, UNCHANGED adviceRows, NEW Ops, Confined(Ops),
         (Ops \cup {"IDLE"}) \cap (JudgingOps \cup {"ADVISE"}) = {}
  PROVE  AdviceInv'
<1>1. ASSUME NEW a \in Actors PROVE JudgementFine(session'[a])
  <2>1. session'[a] = session[a] \/ session'[a].op \notin JudgingOps \cup {"ADVISE"}
    BY DEF Confined
  <2> QED BY <2>1 DEF AdviceInv, JudgementFine
<1> QED BY <1>1 DEF adviceRows, AdviceInv, JudgementFine
-----------------------------------------------------------------------------
(* Discovery.  Whoever links an item comes from a project that is there.   *)

OneProject == \A v \in Videos : made[v] <= 1

LinkedToIt ==
    \A c \in Channels, v \in Videos :
        media[c][v].status = "PROJECT_CREATED" => media[c][v].project /\ made[v] = 1

FindingFine(s) ==
    /\ s.op \in {"TAKE", "MAKE"} =>
          /\ s.video \in Videos
          /\ s.at \in {"loaded", "making", "linking"}
          /\ s.at = "linking" => made[s.video] = 1
    /\ s.op \in {"TAKE", "LEAVE"} => s.video \in Videos /\ s.channel \in Channels
    /\ s.op = "DISCOVER" =>
          /\ s.todo \subseteq Channels
          /\ s.at \in {"polling", "inserting"} => s.channel \in Channels

(* The inductive invariant. *)
DiscoveryInv ==
    /\ DiscoveryTypeOK
    /\ OneProject /\ LinkedToIt
    /\ \A a \in Actors : FindingFine(session[a])

LEMMA DiscoveryInitially ==
  ASSUME DiscoveryInit, \A a \in Actors : session[a] = Idle
  PROVE  DiscoveryInv
<1>1. NoMedia \in Media /\ NoMedia.status = "ABSENT"
  BY DEF NoMedia, Media, MediaStatuses
<1>2. DiscoveryTypeOK
  BY <1>1 DEF DiscoveryInit, DiscoveryTypeOK
<1>3. OneProject /\ LinkedToIt
  BY <1>1 DEF DiscoveryInit, OneProject, LinkedToIt
<1> QED BY <1>2, <1>3 DEF DiscoveryInv, FindingFine, Idle

(* Projects stay, so what the other sessions know stays true.              *)
LEMMA OthersFind ==
  ASSUME DiscoveryInv, \A v \in Videos : made[v] = 1 => made'[v] = 1,
         NEW a \in Actors, OthersStay(a), FindingFine(session[a])',
         DiscoveryTypeOK', OneProject', LinkedToIt'
  PROVE  DiscoveryInv'
<1>1. ASSUME NEW b \in Actors, b # a
      PROVE  FindingFine(session[b])'
  BY <1>1 DEF OthersStay, DiscoveryInv, FindingFine
<1> QED BY <1>1 DEF DiscoveryInv

LEMMA IdleFinds ==
  ASSUME NEW a \in Actors, session'[a] = Idle
  PROVE  FindingFine(session[a])'
  BY DEF FindingFine, Idle

(* A step that leaves items and projects.                                  *)
LEMMA SessionFinds ==
  ASSUME DiscoveryInv, UNCHANGED <<media, made>>, DiscoveryTypeOK',
         NEW a \in Actors, OthersStay(a), FindingFine(session'[a])
  PROVE  DiscoveryInv'
<1>1. OneProject' /\ LinkedToIt' /\ FindingFine(session[a])'
  BY DEF DiscoveryInv, OneProject, LinkedToIt, FindingFine
<1> QED BY <1>1, OthersFind DEF DiscoveryInv

LEMMA PollingFinds ==
  ASSUME NEW todo \in SUBSET Channels, NEW m
  PROVE  FindingFine(Polling(todo, m))
  BY DEF FindingFine, Polling

(* The runs of polls. *)
LEMMA AfterPollKeeps ==
  ASSUME DiscoveryInv, Shaped, NEW a \in Actors, NEW result \in {"SUCCEEDED", "FAILED"},
         session[a].op = "DISCOVER", session[a].at \in {"polling", "inserting"},
         AfterPoll(a, result)
  PROVE  /\ poll' \in [Channels -> {"ABSENT", "NONE", "RUNNING", "SUCCEEDED", "FAILED"}]
         /\ due' \subseteq Channels
         /\ OthersStay(a) /\ FindingFine(session[a])'
<1>1. session[a].todo \subseteq Channels /\ session[a].channel \in Channels
  BY DEF DiscoveryInv, FindingFine
<1>2. /\ poll' \in [Channels -> {"ABSENT", "NONE", "RUNNING", "SUCCEEDED", "FAILED"}]
      /\ due' \subseteq Channels
  BY <1>1 DEF AfterPoll, DiscoveryInv, DiscoveryTypeOK
<1>3. CASE End(a)
  BY <1>2, <1>3, EndEffect, IdleFinds
<1>4. CASE Begin(a, Polling(session[a].todo, session[a].message))
  <2>1. PICK s : s = Polling(session[a].todo, session[a].message)
    OBVIOUS
  <2>2. s.op = "DISCOVER" /\ s.at = "next" /\ s.todo \subseteq Channels
    BY <1>1, <2>1 DEF Polling
  <2>3. session'[a] = s /\ OthersStay(a)
    BY <1>4, <2>1, BeginEffect
  <2> QED BY <1>2, <2>2, <2>3 DEF FindingFine
<1> QED BY <1>3, <1>4 DEF AfterPoll

LEMMA InsertFoundKeeps ==
  ASSUME DiscoveryInv, Shaped, NEW a \in Actors, InsertFound(a)
  PROVE  DiscoveryInv'
<1>1. PICK s : s = session[a]
  OBVIOUS
<1>2. s.channel \in Channels /\ s.op = "DISCOVER" /\ s.at = "inserting"
  BY <1>1 DEF DiscoveryInv, FindingFine, InsertFound, At
<1>3. PICK new : new = [v \in Videos |-> IF v \in s.found
                                         THEN [status |-> "NEEDS_REVIEW", project |-> FALSE]
                                         ELSE media[s.channel][v]]
  OBVIOUS
<1>4. media' = [media EXCEPT ![s.channel] = new]
  BY <1>1, <1>2, <1>3 DEF InsertFound, DiscoveryInv, DiscoveryTypeOK
<1>5. new \in [Videos -> Media]
  BY <1>2, <1>3 DEF DiscoveryInv, DiscoveryTypeOK, Media, MediaStatuses
<1>6. \A v \in Videos : new[v] = media[s.channel][v] \/ new[v].status = "NEEDS_REVIEW"
  BY <1>3
<1>7. UNCHANGED made
  BY DEF InsertFound
<1>8. LinkedToIt'
  BY <1>2, <1>4, <1>5, <1>6, <1>7 DEF DiscoveryInv, DiscoveryTypeOK, LinkedToIt
<1>9. /\ poll' \in [Channels -> {"ABSENT", "NONE", "RUNNING", "SUCCEEDED", "FAILED"}]
      /\ due' \subseteq Channels
      /\ OthersStay(a) /\ FindingFine(session[a])'
  BY <1>1, <1>2, AfterPollKeeps DEF InsertFound
<1>10. DiscoveryTypeOK' /\ OneProject'
  BY <1>2, <1>4, <1>5, <1>7, <1>9 DEF DiscoveryInv, DiscoveryTypeOK, OneProject
<1> QED BY <1>7, <1>8, <1>9, <1>10, OthersFind

(* The insert of a project, and where it goes on.                          *)
LEMMA MakeProjectKeeps ==
  ASSUME DiscoveryInv, Shaped, NEW o \in Actors, MakeProject(o)
  PROVE  DiscoveryInv'
<1>1. PICK s : s = session[o]
  OBVIOUS
<1>2. s.op \in {"TAKE", "MAKE"} /\ s.video \in Videos
  BY <1>1 DEF DiscoveryInv, FindingFine, MakeProject
<1>3. made[s.video] = 0
  BY <1>1, <1>2 DEF DiscoveryInv, DiscoveryTypeOK, MakeProject, HasProject
<1>4. made' = [made EXCEPT ![s.video] = 1]
  BY <1>1, <1>2, <1>3 DEF MakeProject, DiscoveryInv, DiscoveryTypeOK
<1>5. UNCHANGED <<media, poll, due>>
  BY DEF MakeProject
<1>6. DiscoveryTypeOK' /\ OneProject' /\ LinkedToIt'
  <2>1. made' \in [Videos -> 0..2] /\ \A v \in Videos : made'[v] \in {made[v], 1}
    BY <1>2, <1>4 DEF DiscoveryInv, DiscoveryTypeOK
  <2>2. \A v \in Videos : made[v] <= 1 => made'[v] <= 1
    BY <2>1
  <2>3. \A v \in Videos : made[v] = 1 => made'[v] = 1
    BY <2>1
  <2> QED BY <1>5, <2>1, <2>2, <2>3 DEF DiscoveryInv, DiscoveryTypeOK, OneProject, LinkedToIt
<1>7. made'[s.video] = 1 /\ \A v \in Videos : made[v] = 1 => made'[v] = 1
  BY <1>2, <1>4 DEF DiscoveryInv, DiscoveryTypeOK
<1>8. CASE End(o)
  BY <1>6, <1>7, <1>8, EndEffect, IdleFinds, OthersFind
<1>9. CASE s.op = "TAKE" /\ Goto(o, "linking")
  <2>1. session'[o] = [s EXCEPT !.at = "linking"] /\ OthersStay(o)
    BY <1>1, <1>9, GotoEffect
  <2>2. PICK t : t = [s EXCEPT !.at = "linking"]
    OBVIOUS
  <2>3. t.op = "TAKE" /\ t.at = "linking" /\ t.video = s.video /\ t.channel = s.channel
    BY <1>1, <1>9, <2>2 DEF Shaped
  <2>4. s.channel \in Channels
    BY <1>1, <1>9 DEF DiscoveryInv, FindingFine
  <2>5. FindingFine(session[o])'
    BY <1>2, <1>7, <2>1, <2>2, <2>3, <2>4 DEF FindingFine
  <2> QED BY <1>6, <1>7, <2>1, <2>5, OthersFind
<1> QED BY <1>1, <1>8, <1>9 DEF MakeProject, Return

LEMMA ApproveMediaKeeps ==
  ASSUME DiscoveryInv, Shaped, NEW o \in Actors, ApproveMedia(o)
  PROVE  DiscoveryInv'
<1>1. PICK s : s = session[o]
  OBVIOUS
<1>2. s.video \in Videos /\ s.channel \in Channels /\ made[s.video] = 1
  BY <1>1 DEF DiscoveryInv, FindingFine, ApproveMedia, At
<1>3. PICK linked : linked = [status |-> "PROJECT_CREATED", project |-> TRUE]
  OBVIOUS
<1>4. linked \in Media /\ linked.project
  BY <1>3 DEF Media, MediaStatuses
<1>5. media' = [media EXCEPT ![s.channel][s.video] = linked]
  BY <1>1, <1>3 DEF ApproveMedia
<1>6. UNCHANGED <<poll, due, made>>
  BY DEF ApproveMedia
<1>7. DiscoveryTypeOK' /\ OneProject'
  BY <1>2, <1>4, <1>5, <1>6 DEF DiscoveryInv, DiscoveryTypeOK, OneProject
<1>8. LinkedToIt'
  BY <1>2, <1>4, <1>5, <1>6 DEF DiscoveryInv, DiscoveryTypeOK, LinkedToIt
<1>9. session'[o] = Idle /\ OthersStay(o)
  BY EndEffect DEF ApproveMedia
<1> QED BY <1>6, <1>7, <1>8, <1>9, IdleFinds, OthersFind

LEMMA RejectMediaKeeps ==
  ASSUME DiscoveryInv, Shaped, NEW o \in Actors, RejectMedia(o)
  PROVE  DiscoveryInv'
<1>1. PICK s : s = session[o]
  OBVIOUS
<1>2. s.video \in Videos /\ s.channel \in Channels
  BY <1>1 DEF DiscoveryInv, FindingFine, RejectMedia, At
<1>3. PICK row \in Media : row = media[s.channel][s.video]
  BY <1>2 DEF DiscoveryInv, DiscoveryTypeOK
<1>4. PICK new : new = [row EXCEPT !.status = Updated(row.status, s.status, "REJECTED")]
  OBVIOUS
<1>5. new \in Media /\ (new.status = "REJECTED" \/ new = row)
  BY <1>3, <1>4 DEF Media, MediaStatuses, Updated
<1>6. media' = [media EXCEPT ![s.channel][s.video] = new]
  BY <1>1, <1>2, <1>3, <1>4 DEF RejectMedia, DiscoveryInv, DiscoveryTypeOK
<1>7. UNCHANGED <<poll, due, made>>
  BY DEF RejectMedia
<1>8. DiscoveryTypeOK' /\ OneProject'
  BY <1>2, <1>5, <1>6, <1>7 DEF DiscoveryInv, DiscoveryTypeOK, OneProject
<1>9. LinkedToIt'
  BY <1>2, <1>3, <1>5, <1>6, <1>7 DEF DiscoveryInv, DiscoveryTypeOK, LinkedToIt
<1>10. session'[o] = Idle /\ OthersStay(o)
  BY EndEffect DEF RejectMedia
<1> QED BY <1>7, <1>8, <1>9, <1>10, IdleFinds, OthersFind

LEMMA FindingKeeps ==
  ASSUME DiscoveryInv, Shaped, NEW a \in Actors,
         \/ EnableChannel(a) \/ CallPoll(a) \/ TakeDiscovery(a) \/ StartPoll(a)
         \/ PollAnswers(a) \/ InsertCollides(a) \/ PollFails(a) \/ LoadFinding(a)
         \/ CallProject(a) \/ LookForProject(a) \/ ProjectCollides(a)
  PROVE  DiscoveryInv'
<1>0. UNCHANGED <<media, made>>
  BY DEF EnableChannel, CallPoll, TakeDiscovery, StartPoll, PollAnswers, InsertCollides,
         PollFails, LoadFinding, CallProject, LookForProject, ProjectCollides, discoveryRows
<1>1. UNCHANGED <<poll, due>> => DiscoveryTypeOK'
  BY <1>0 DEF DiscoveryInv, DiscoveryTypeOK
<1>2. ASSUME NEW s, Begin(a, s), FindingFine(s), DiscoveryTypeOK'
      PROVE  DiscoveryInv'
  BY <1>0, <1>2, BeginEffect, SessionFinds
<1>3. CASE UNCHANGED session /\ DiscoveryTypeOK'
  BY <1>0, <1>3, SessionFinds DEF OthersStay, DiscoveryInv
<1>4. CASE End(a) /\ DiscoveryTypeOK'
  <2>1. FindingFine(Idle)
    BY DEF FindingFine, Idle
  <2> QED BY <1>0, <1>4, <2>1, EndEffect, SessionFinds
<1>5. CASE EnableChannel(a)
  <2>1. DiscoveryTypeOK'
    BY <1>0, <1>5 DEF EnableChannel, DiscoveryInv, DiscoveryTypeOK
  <2> QED BY <1>3, <1>5, <2>1 DEF EnableChannel
<1>6. CASE CallPoll(a) \/ TakeDiscovery(a)
  <2>1. DiscoveryTypeOK' /\ due \subseteq Channels
    BY <1>1, <1>6 DEF CallPoll, TakeDiscovery, discoveryRows, DiscoveryInv, DiscoveryTypeOK
  <2> QED BY <1>2, <1>3, <1>6, <2>1, PollingFinds DEF CallPoll, TakeDiscovery, Receive
<1>7. CASE StartPoll(a)
  <2>1. PICK c \in session[a].todo :
           /\ poll' = [poll EXCEPT ![c] = "RUNNING"]
           /\ Begin(a, [op |-> "DISCOVER", at |-> "polling", message |-> session[a].message,
                        todo |-> session[a].todo \ {c}, found |-> {}, channel |-> c])
    BY <1>7 DEF StartPoll
  <2>2. PICK s : s = [op |-> "DISCOVER", at |-> "polling", message |-> session[a].message,
                      todo |-> session[a].todo \ {c}, found |-> {}, channel |-> c]
    OBVIOUS
  <2>3. session[a].todo \subseteq Channels
    BY <1>7 DEF StartPoll, At, DiscoveryInv, FindingFine
  <2>4. FindingFine(s)
    BY <2>1, <2>2, <2>3 DEF FindingFine
  <2>5. DiscoveryTypeOK'
    BY <1>0, <1>7, <2>1, <2>3 DEF StartPoll, DiscoveryInv, DiscoveryTypeOK
  <2> QED BY <1>2, <2>1, <2>2, <2>4, <2>5
<1>8. CASE PollAnswers(a)
  <2>1. PICK found : session' = [session EXCEPT ![a].at = "inserting", ![a].found = found]
    BY <1>8 DEF PollAnswers
  <2>2. PICK s : s = [session[a] EXCEPT !.at = "inserting", !.found = found]
    OBVIOUS
  <2>3. session'[a] = s /\ OthersStay(a)
    BY <2>1, <2>2 DEF Shaped, OthersStay
  <2>4. /\ s.op = "DISCOVER" /\ s.at = "inserting"
        /\ s.todo = session[a].todo /\ s.channel = session[a].channel
    <3>1. PICK old : old = session[a]
      OBVIOUS
    <3>2. PICK t : t = [old EXCEPT !.at = "inserting"]
      OBVIOUS
    <3>3. old.op = "DISCOVER" /\ {"op", "at"} \subseteq DOMAIN old
      BY <1>8, <3>1 DEF PollAnswers, At, Shaped
    <3>4. t.op = "DISCOVER" /\ t.at = "inserting" /\ t.todo = old.todo /\ t.channel = old.channel
      BY <3>2, <3>3
    <3>5. s = [t EXCEPT !.found = found]
      BY <2>2, <3>1, <3>2
    <3> QED BY <3>1, <3>4, <3>5
  <2>5. session[a].todo \subseteq Channels /\ session[a].channel \in Channels
    BY <1>8 DEF PollAnswers, At, DiscoveryInv, FindingFine
  <2>6. DiscoveryTypeOK'
    BY <1>1, <1>8 DEF PollAnswers, discoveryRows
  <2> QED BY <1>0, <2>3, <2>4, <2>5, <2>6, SessionFinds DEF FindingFine
<1>9. CASE InsertCollides(a) \/ ProjectCollides(a)
  BY <1>1, <1>4, <1>9 DEF InsertCollides, ProjectCollides, EndInException, discoveryRows
<1>10. CASE PollFails(a)
  <2>1. session[a].op = "DISCOVER" /\ session[a].at = "polling" /\ AfterPoll(a, "FAILED")
    BY <1>10 DEF PollFails, At
  <2>2. /\ poll' \in [Channels -> {"ABSENT", "NONE", "RUNNING", "SUCCEEDED", "FAILED"}]
        /\ due' \subseteq Channels
        /\ OthersStay(a) /\ FindingFine(session[a])'
    BY <2>1, AfterPollKeeps
  <2>3. DiscoveryTypeOK' /\ OneProject' /\ LinkedToIt'
    BY <1>0, <2>2 DEF DiscoveryInv, DiscoveryTypeOK, OneProject, LinkedToIt
  <2> QED BY <1>0, <2>2, <2>3, OthersFind
<1>11. CASE LoadFinding(a)
  <2>1. PICK c \in Channels, v \in Videos, op \in {"TAKE", "LEAVE"} :
           Begin(a, [op |-> op, at |-> "loaded", message |-> NoMessage, video |-> v,
                     channel |-> c, status |-> media[c][v].status])
    BY <1>11 DEF LoadFinding
  <2>2. PICK s : s = [op |-> op, at |-> "loaded", message |-> NoMessage, video |-> v,
                      channel |-> c, status |-> media[c][v].status]
    OBVIOUS
  <2>3. FindingFine(s)
    BY <2>2 DEF FindingFine
  <2> QED BY <1>1, <1>2, <1>11, <2>1, <2>2, <2>3 DEF LoadFinding, discoveryRows
<1>12. CASE CallProject(a)
  <2>1. PICK v \in Videos :
           Begin(a, [op |-> "MAKE", at |-> "loaded", message |-> NoMessage, video |-> v])
    BY <1>12 DEF CallProject
  <2>2. PICK s : s = [op |-> "MAKE", at |-> "loaded", message |-> NoMessage, video |-> v]
    OBVIOUS
  <2>3. FindingFine(s)
    BY <2>2 DEF FindingFine
  <2> QED BY <1>1, <1>2, <1>12, <2>1, <2>2, <2>3 DEF CallProject, discoveryRows
<1>13. CASE LookForProject(a) /\ ~End(a)
  <2>1. PICK s : s = session[a]
    OBVIOUS
  <2>2. /\ s.op \in {"TAKE", "MAKE"} /\ s.video \in Videos
        /\ s.op = "TAKE" => s.channel \in Channels
    BY <1>13, <2>1 DEF LookForProject, DiscoveryInv, FindingFine
  <2>3. PICK place : /\ Goto(a, place) /\ place \in {"making", "linking"}
                     /\ place = "linking" => made[s.video] > 0 
    BY <1>13, <2>1 DEF LookForProject, Return
  <2>4. PICK t : t = [s EXCEPT !.at = place]
    OBVIOUS
  <2>5. session'[a] = t /\ OthersStay(a)
    BY <2>1, <2>3, <2>4, GotoEffect
  <2>6. t.op = s.op /\ t.at = place /\ t.video = s.video /\ t.channel = s.channel
    BY <2>1, <2>4 DEF Shaped
  <2>7. place = "linking" => made[s.video] = 1
    BY <2>2, <2>3 DEF DiscoveryInv, DiscoveryTypeOK, OneProject
  <2>8. FindingFine(t)
    BY <2>2, <2>3, <2>6, <2>7 DEF FindingFine
  <2> QED BY <1>0, <1>1, <1>13, <2>5, <2>8, SessionFinds DEF LookForProject, discoveryRows
<1>14. CASE LookForProject(a) /\ End(a)
  BY <1>1, <1>4, <1>14 DEF LookForProject, discoveryRows
<1> QED BY <1>5, <1>6, <1>7, <1>8, <1>9, <1>10, <1>11, <1>12, <1>13, <1>14

LEMMA DiscoveryStep ==
  ASSUME DiscoveryInv, Shaped, NEW a \in Actors,
         DiscoveryHandler(a) \/ Discover(a) \/ TakeDiscovery(a)
  PROVE  DiscoveryInv'
  BY InsertFoundKeeps, MakeProjectKeeps, ApproveMediaKeeps, RejectMediaKeeps, FindingKeeps
  DEF DiscoveryHandler, Discover

LEMMA PollTimeKeeps ==
  ASSUME DiscoveryInv, PollTime
  PROVE  DiscoveryInv'
<1>1. UNCHANGED <<media, poll, made, session>> /\ due' \subseteq Channels
  BY DEF PollTime, DiscoveryInv, DiscoveryTypeOK
<1> QED BY <1>1
        DEF DiscoveryInv, DiscoveryTypeOK, OneProject, LinkedToIt, FindingFine

LEMMA DiscoveryUntouched ==
  ASSUME DiscoveryInv, UNCHANGED discoveryRows, NEW Ops, Confined(Ops),
         (Ops \cup {"IDLE"}) \cap DiscoveryOps = {}
  PROVE  DiscoveryInv'
<1>1. UNCHANGED <<media, poll, due, made>>
  BY DEF discoveryRows
<1>2. ASSUME NEW a \in Actors PROVE FindingFine(session[a])'
  <2>1. session'[a] = session[a] \/ session'[a].op \notin DiscoveryOps
    BY DEF Confined
  <2> QED BY <1>1, <2>1 DEF DiscoveryInv, FindingFine, DiscoveryOps
<1> QED BY <1>1, <1>2 DEF DiscoveryInv, DiscoveryTypeOK, OneProject, LinkedToIt

LEMMA DiscoveryInvIsEnough ==
  ASSUME DiscoveryInv
  PROVE  DiscoveryTypeOK /\ OneProjectPerVideo
  BY DEF DiscoveryInv, OneProject, LinkedToIt, OneProjectPerVideo
-----------------------------------------------------------------------------
(* Posts by hand.  What a session will record was approved when it loaded  *)
(* it, and the history of packages is only added to.                       *)

ApprovedVersion(g, version) ==
    \E v \in packageVersions[g] : v.version = version /\ v.status = "APPROVED"

HistoryGrows == \A g \in Generations : packageVersions[g] \subseteq packageVersions'[g]

PostFine(s) ==
    /\ s.op \in PostOps => s.url \in Posts
    /\ s.op = "POST" =>
          /\ s.latest \in Generations /\ s.copy.review_version \in Nat
          /\ ApprovedVersion(s.latest, s.copy.review_version)
    /\ s.op = "METRICS" => Posted(s.url)
    /\ s.op = "CHECKPOINT" => Posted(s.url) /\ s.mark \in Marks

(* The inductive invariant. *)
PostsInv ==
    /\ PostsTypeOK
    /\ \A u \in Posts : Posted(u) => post[u].generation \in Generations
    /\ PostsTraceable
    /\ \A a \in Actors : PostFine(session[a])

LEMMA PostsInitially ==
  ASSUME PostsInit, \A a \in Actors : session[a] = Idle
  PROVE  PostsInv
<1>1. PostsTypeOK
  BY PackagesAssumption DEF PostsInit, PostsTypeOK, NoPost, CheckpointStatuses
<1>2. \A u \in Posts : ~Posted(u)
  BY DEF PostsInit, Posted
<1>3. \A a \in Actors : PostFine(session[a])
  BY DEF PostFine, PostOps, Idle
<1> QED BY <1>1, <1>2, <1>3 DEF PostsInv, PostsTraceable

(* What a session knows, and what a post says, stays true of a history     *)
(* that grows.                                                             *)
LEMMA KnownToPosts ==
  ASSUME HistoryGrows, \A u \in Posts : Posted(u) => Posted(u)',
         NEW s, PostFine(s)
  PROVE  PostFine(s)'
<1>1. s.op = "POST" => ApprovedVersion(s.latest, s.copy.review_version)'
  BY DEF PostFine, ApprovedVersion, HistoryGrows
<1> QED BY <1>1 DEF PostFine, PostOps

LEMMA PostsStayTraceable ==
  ASSUME PostsInv, HistoryGrows, UNCHANGED postRows
  PROVE  /\ PostsTypeOK' /\ PostsTraceable'
         /\ \A u \in Posts : Posted(u)' <=> Posted(u)
         /\ \A u \in Posts : Posted(u)' => post'[u].generation \in Generations
<1>1. post' = post /\ checkpoint' = checkpoint
  BY DEF postRows
<1>2. \A u \in Posts : Posted(u)' <=> Posted(u)
  BY <1>1 DEF Posted
<1>3. PostsTraceable'
  BY <1>1, <1>2 DEF PostsInv, PostsTraceable, HistoryGrows
<1> QED BY <1>1, <1>2, <1>3 DEF PostsInv, PostsTypeOK

(* A step that leaves posts and packages, and changes one session.         *)
LEMMA PostingKeeps ==
  ASSUME PostsInv, HistoryGrows, UNCHANGED postRows, NEW a \in Actors, OthersStay(a),
         NEW s, session'[a] = s, PostFine(s)
  PROVE  PostsInv'
<1>1. \A b \in Actors : PostFine(session'[b])
  BY DEF PostsInv, OthersStay
<1>2. ASSUME NEW b \in Actors
      PROVE  PostFine(session[b])'
  <2>1. PICK t : t = session'[b]
    OBVIOUS
  <2>2. PostFine(t)'
    BY <1>1, <2>1, PostsStayTraceable, KnownToPosts
  <2> QED BY <2>1, <2>2
<1> QED BY <1>2, PostsStayTraceable DEF PostsInv

(* A step that writes posts, and ends. *)
LEMMA WritingPostsKeeps ==
  ASSUME PostsInv, HistoryGrows, NEW o \in Actors, Shaped, End(o),
         PostsTypeOK', PostsTraceable', \A u \in Posts : Posted(u) => Posted(u)',
         \A u \in Posts : Posted(u)' => post'[u].generation \in Generations
  PROVE  PostsInv'
<1>1. ASSUME NEW b \in Actors
      PROVE  PostFine(session[b])'
  <2>1. CASE b = o
    BY <2>1, EndEffect DEF PostFine, PostOps
  <2>2. CASE b # o
    <3>1. PICK t : t = session'[b]
      OBVIOUS
    <3>2. PostFine(t)
      BY <2>2, <3>1, EndEffect DEF PostsInv, OthersStay
    <3> QED BY <3>1, <3>2, KnownToPosts
  <2> QED BY <2>1, <2>2
<1> QED BY <1>1 DEF PostsInv

LEMMA RecordPostKeeps ==
  ASSUME PostsInv, Shaped, UNCHANGED packageRows, NEW o \in Actors, RecordPost(o)
  PROVE  PostsInv'
<1>1. PICK s : s = session[o]
  OBVIOUS
<1>2. /\ s.url \in Posts /\ s.latest \in Generations /\ s.copy.review_version \in Nat
      /\ ApprovedVersion(s.latest, s.copy.review_version)
  BY <1>1 DEF PostsInv, PostFine, RecordPost, At, PostOps
<1>3. HistoryGrows /\ packageVersions' = packageVersions
  BY DEF HistoryGrows, packageRows
<1>4. CASE UNCHANGED postRows
  BY <1>3, <1>4, PostsStayTraceable, WritingPostsKeeps DEF RecordPost
<1>5. CASE ~UNCHANGED postRows
  <2>1. PICK new : new = [generation |-> s.latest, version |-> s.copy.review_version]
    OBVIOUS
  <2>2. PICK marks : marks = [m \in Marks |-> "DUE"]
    OBVIOUS
  <2>3. post' = [post EXCEPT ![s.url] = new] /\ checkpoint' = [checkpoint EXCEPT ![s.url] = marks]
    BY <1>1, <1>5, <2>1, <2>2 DEF RecordPost, VersionOf
  <2>4. /\ new \in [generation : 0..MaxPackages, version : Nat]
        /\ new.generation = s.latest /\ new.version = s.copy.review_version /\ new # NoPost
    BY <1>2, <2>1 DEF Generations, NoPost
  <2>5. marks \in [Marks -> CheckpointStatuses] /\ \A m \in Marks : marks[m] # "ABSENT"
    BY <2>2 DEF CheckpointStatuses
  <2>6. PostsTypeOK'
    BY <1>2, <2>3, <2>4, <2>5 DEF PostsInv, PostsTypeOK
  <2>7. ASSUME NEW u \in Posts
        PROVE  /\ Posted(u) => Posted(u)'
               /\ Posted(u)' => post'[u].generation \in Generations
               /\ Posted(u)' =>
                     /\ \E v \in packageVersions'[post'[u].generation] :
                           v.version = post'[u].version /\ v.status = "APPROVED"
                     /\ \A m \in Marks : checkpoint'[u][m] # "ABSENT"
    <3>1. CASE u = s.url
      <4>1. post'[u] = new /\ checkpoint'[u] = marks
        BY <2>3, <3>1 DEF PostsInv, PostsTypeOK
      <4> QED BY <1>2, <1>3, <2>4, <2>5, <4>1 DEF Posted, ApprovedVersion
    <3>2. CASE u # s.url
      <4>1. post'[u] = post[u] /\ checkpoint'[u] = checkpoint[u]
        BY <2>3, <3>2 DEF PostsInv, PostsTypeOK
      <4> QED BY <1>3, <4>1 DEF Posted, PostsInv, PostsTraceable
    <3> QED BY <3>1, <3>2
  <2> QED BY <1>3, <2>6, <2>7, WritingPostsKeeps DEF RecordPost, PostsTraceable
<1> QED BY <1>4, <1>5

(* Metrics and checkpoints are about a post that is there.                 *)
LEMMA CheckpointsKeep ==
  ASSUME PostsInv, Shaped, UNCHANGED packageRows, NEW o \in Actors,
         CommitMetrics(o) \/ UpdateCheckpoint(o)
  PROVE  PostsInv'
<1>1. PICK s : s = session[o]
  OBVIOUS
<1>2. s.url \in Posts /\ Posted(s.url) /\ (s.op = "CHECKPOINT" => s.mark \in Marks)
  BY <1>1 DEF PostsInv, PostFine, CommitMetrics, UpdateCheckpoint, At, PostOps
<1>3. PICK old \in [Marks -> CheckpointStatuses] : old = checkpoint[s.url]
  BY <1>2 DEF PostsInv, PostsTypeOK
<1>4. \A m \in Marks : old[m] # "ABSENT"
  BY <1>2, <1>3 DEF PostsInv, PostsTraceable
<1>5. PICK marks \in [Marks -> CheckpointStatuses] :
         checkpoint' = [checkpoint EXCEPT ![s.url] = marks] /\ \A m \in Marks : marks[m] # "ABSENT"
  <2>1. CASE CommitMetrics(o)
    <3>1. PICK marks : marks = [m \in Marks |-> IF m \in s.marks THEN "COMPLETED" ELSE old[m]]
      OBVIOUS
    <3>2. checkpoint' = [checkpoint EXCEPT ![s.url] = marks]
      BY <1>1, <1>2, <1>3, <2>1, <3>1 DEF CommitMetrics, PostsInv, PostsTypeOK
    <3>3. marks \in [Marks -> CheckpointStatuses] /\ \A m \in Marks : marks[m] # "ABSENT"
      BY <1>3, <1>4, <3>1 DEF CheckpointStatuses
    <3> QED BY <3>2, <3>3
  <2>2. CASE UpdateCheckpoint(o)
    <3>1. PICK status \in {"COMPLETED", "SKIPPED", "DUE"} :
             checkpoint' = [checkpoint EXCEPT ![s.url][s.mark] = Updated(@, s.status, status)]
      BY <1>1, <2>2 DEF UpdateCheckpoint
    <3>2. PICK marks : marks = [old EXCEPT ![s.mark] = Updated(old[s.mark], s.status, status)]
      OBVIOUS
    <3>3. checkpoint' = [checkpoint EXCEPT ![s.url] = marks]
      BY <1>2, <1>3, <3>1, <3>2 DEF PostsInv, PostsTypeOK
    <3>4. marks \in [Marks -> CheckpointStatuses] /\ \A m \in Marks : marks[m] # "ABSENT"
      BY <1>1, <1>2, <1>3, <1>4, <2>2, <3>2
      DEF CheckpointStatuses, Updated, UpdateCheckpoint, At
    <3> QED BY <3>3, <3>4
  <2> QED BY <2>1, <2>2
<1>6. UNCHANGED post /\ packageVersions' = packageVersions /\ End(o)
  BY DEF CommitMetrics, UpdateCheckpoint, packageRows
<1>7. PostsTypeOK'
  BY <1>2, <1>5, <1>6 DEF PostsInv, PostsTypeOK
<1>8. ASSUME NEW u \in Posts
      PROVE  Posted(u)' <=> Posted(u)
  BY <1>6 DEF Posted
<1>9. \A u \in Posts : checkpoint'[u] = checkpoint[u] \/ checkpoint'[u] = marks
  BY <1>5 DEF PostsInv, PostsTypeOK
<1>10. PostsTraceable'
  BY <1>5, <1>6, <1>8, <1>9 DEF PostsInv, PostsTraceable
<1> QED BY <1>6, <1>7, <1>8, <1>10, WritingPostsKeeps DEF HistoryGrows, PostsInv

LEMMA LoadingPostsKeeps ==
  ASSUME PostsInv, Shaped, PackagesTypeOK, ReviewedIsApproved, UNCHANGED packageRows,
         NEW o \in Actors, LoadForPost(o) \/ LoadMetrics(o) \/ LoadCheckpoint(o)
  PROVE  PostsInv'
<1>1. HistoryGrows /\ UNCHANGED postRows
  BY DEF HistoryGrows, packageRows, LoadForPost, LoadMetrics, LoadCheckpoint
<1>2. CASE LoadForPost(o)
  <2>1. PICK u \in Posts, g \in Generations :
           /\ package[g].status = "APPROVED"
           /\ Begin(o, [op |-> "POST", at |-> "loaded", message |-> NoMessage,
                        url |-> u, latest |-> g, copy |-> package[g]])
    BY <1>2 DEF LoadForPost
  <2>2. PICK s : s = [op |-> "POST", at |-> "loaded", message |-> NoMessage,
                      url |-> u, latest |-> g, copy |-> package[g]]
    OBVIOUS
  <2>3. ApprovedVersion(g, package[g].review_version)
    BY <2>1 DEF ReviewedIsApproved, ApprovedVersion
  <2>4. PostFine(s)
    BY <2>2, <2>3 DEF PostFine, PostOps, PackagesTypeOK, Package
  <2> QED BY <1>1, <2>1, <2>2, <2>4, BeginEffect, PostingKeeps
<1>3. CASE LoadMetrics(o)
  <2>1. PICK u \in Posts, n \in Marks :
           /\ Posted(u)
           /\ Begin(o, [op |-> "METRICS", at |-> "loaded", message |-> NoMessage, url |-> u,
                        marks |-> {m \in 1..n : checkpoint[u][m] = "DUE"}])
    BY <1>3 DEF LoadMetrics
  <2>2. PICK s : s = [op |-> "METRICS", at |-> "loaded", message |-> NoMessage, url |-> u,
                      marks |-> {m \in 1..n : checkpoint[u][m] = "DUE"}]
    OBVIOUS
  <2>3. PostFine(s)
    BY <2>1, <2>2 DEF PostFine, PostOps
  <2> QED BY <1>1, <2>1, <2>2, <2>3, BeginEffect, PostingKeeps
<1>4. CASE LoadCheckpoint(o)
  <2>1. PICK u \in Posts, m \in Marks :
           /\ Posted(u)
           /\ Begin(o, [op |-> "CHECKPOINT", at |-> "loaded", message |-> NoMessage, url |-> u,
                        mark |-> m, status |-> checkpoint[u][m]])
    BY <1>4 DEF LoadCheckpoint
  <2>2. PICK s : s = [op |-> "CHECKPOINT", at |-> "loaded", message |-> NoMessage, url |-> u,
                      mark |-> m, status |-> checkpoint[u][m]]
    OBVIOUS
  <2>3. PostFine(s)
    BY <2>1, <2>2 DEF PostFine, PostOps
  <2> QED BY <1>1, <2>1, <2>2, <2>3, BeginEffect, PostingKeeps
<1> QED BY <1>2, <1>3, <1>4

LEMMA PostsStep ==
  ASSUME PostsInv, Shaped, PackagesTypeOK, ReviewedIsApproved, UNCHANGED packageRows,
         NEW o \in Actors, PostsHandler(o)
  PROVE  PostsInv'
  BY RecordPostKeeps, CheckpointsKeep, LoadingPostsKeeps DEF PostsHandler

LEMMA PostsUntouched ==
  ASSUME PostsInv, HistoryGrows, UNCHANGED postRows, NEW Ops, Confined(Ops),
         (Ops \cup {"IDLE"}) \cap PostOps = {}
  PROVE  PostsInv'
<1>1. ASSUME NEW a \in Actors PROVE PostFine(session[a])'
  <2>1. PICK s : s = session'[a]
    OBVIOUS
  <2>2. s = session[a] \/ s.op \notin PostOps
    BY <2>1 DEF Confined
  <2>3. PostFine(s)
    BY <2>2 DEF PostsInv, PostFine, PostOps
  <2>4. PostFine(s)'
    BY <2>3, PostsStayTraceable, KnownToPosts
  <2> QED BY <2>1, <2>4
<1> QED BY <1>1, PostsStayTraceable DEF PostsInv
-----------------------------------------------------------------------------
(* Intake.  A key has one session and one item; what an upload has written *)
(* as final is nobody else's file until its item is stored.                *)

Coming(s) == s.op \in {"URL", "UPLOAD"}
Finalizing(s) == s.op = "UPLOAD" /\ s.at = "finalized"

ComingFine(s) ==
    /\ Coming(s) => s.key \in Keys /\ job[s.key].status = "RUNNING" /\ content[s.key] = NoItem
    /\ s.op = "URL" => s.thing \in Links
    /\ s.op = "UPLOAD" => s.thing \in Files
    /\ Finalizing(s) => storage[s.key] = "FINAL" /\ WithChecksum(s.thing) = {}
    /\ s.op = "TRANSITION" => s.way \in Ways /\ content[s.way] # NoItem

Jobs == [status : {"ABSENT", "RUNNING", "RETRY_SCHEDULED", "FAILED", "SUCCEEDED"},
         content : Ways \cup {0}]

ItemsFine ==
    /\ content \in [Ways -> [thing : Things, status : ItemStatuses] \cup {NoItem}]
    /\ job \in [Keys -> Jobs]
    /\ storage \in [Keys -> {"NONE", "TEMPORARY", "FINAL"}]
    /\ published \subseteq Entries
    /\ \A e \in Entries : content[e] = NoItem \/ content[e].thing = e
    /\ \A k \in Keys : /\ job[k] = NoJob => content[k] = NoItem
                       /\ job[k].status = "SUCCEEDED" => job[k].content \in Ways
    /\ IngestedOnce

(* The inductive invariant. *)
IngestionInv ==
    /\ ItemsFine
    /\ \A o \in Operators : ComingFine(session[o])
    /\ \A o, p \in Operators : o # p =>
          /\ Coming(session[o]) /\ Coming(session[p]) => session[o].key # session[p].key
          /\ ~ (Finalizing(session[o]) /\ Finalizing(session[p]))

LEMMA IngestionInitially ==
  ASSUME IngestionInit, \A a \in Actors : session[a] = Idle
  PROVE  IngestionInv
<1>1. NoJob \in Jobs /\ NoJob.status = "ABSENT"
  BY DEF Jobs, NoJob
<1>2. NoItem.thing = 0 /\ 0 \notin Files
  BY IngestionAssumption DEF NoItem
<1>3. ItemsFine
  BY <1>1, <1>2, IngestionAssumption DEF IngestionInit, ItemsFine, IngestedOnce, Ways
<1>4. \A o \in Operators : session[o] = Idle
  BY DEF Actors
<1> QED BY <1>3, <1>4 DEF IngestionInv, ComingFine, Coming, Finalizing, Idle

(* A step of an operator: K has the key that it is about, if any, which no *)
(* other session is about.                                                 *)
LEMMA ArrivalsKeep ==
  ASSUME IngestionInv, NEW o \in Operators, OthersStay(o), NEW K \in SUBSET Keys,
         \A p \in Operators \ {o} : Coming(session[p]) => session[p].key \notin K,
         ItemsFine',
         \A k \in Keys \ K : /\ job'[k] = job[k] /\ storage'[k] = storage[k]
                             /\ content'[k].thing = content[k].thing
                             /\ content[k] = NoItem => content'[k] = NoItem,
         \A w \in Ways : content[w] # NoItem => content'[w] # NoItem,
         \A k \in K : content'[k].thing \in Files =>
                         \A p \in Operators \ {o} : ~Finalizing(session[p]),
         NEW s, session'[o] = s, ComingFine(s)', Coming(s) => s.key \in K,
         Finalizing(s) => \A p \in Operators \ {o} : ~Finalizing(session[p])
  PROVE  IngestionInv'
<1>1. \A p \in Operators \ {o} : session'[p] = session[p]
  BY DEF OthersStay, Actors
<1>2. ASSUME NEW p \in Operators, p # o
      PROVE  ComingFine(session[p])'
  <2>1. PICK t : t = session[p]
    OBVIOUS
  <2>2. ComingFine(t) /\ (Coming(t) => t.key \notin K) /\ session'[p] = t
    BY <1>1, <1>2, <2>1 DEF IngestionInv
  <2>3. Coming(t) => /\ t.key \in Keys /\ job'[t.key].status = "RUNNING"
                     /\ content'[t.key] = NoItem
    BY <2>2 DEF ComingFine
  <2>4. ASSUME Finalizing(t)
        PROVE  storage'[t.key] = "FINAL" /\ \A k \in Keys : content'[k].thing # t.thing
    <3>1. Coming(t) /\ t.thing \in Files /\ t.key \in Keys \ K /\ storage[t.key] = "FINAL"
      BY <2>2, <2>4 DEF ComingFine, Finalizing, Coming
    <3>2. \A k \in Keys : content[k].thing # t.thing
      BY <2>2, <2>4 DEF ComingFine, WithChecksum
    <3>3. ~ \A q \in Operators \ {o} : ~Finalizing(session[q])
      BY <1>2, <2>1, <2>4
    <3> QED BY <3>1, <3>2, <3>3
  <2>5. ComingFine(t)'
    BY <2>2, <2>3, <2>4 DEF ComingFine, WithChecksum, Coming, Finalizing
  <2> QED BY <2>2, <2>5
<1>3. ASSUME NEW p \in Operators, NEW q \in Operators, p # q
      PROVE  /\ Coming(session'[p]) /\ Coming(session'[q]) => session'[p].key # session'[q].key
             /\ ~ (Finalizing(session'[p]) /\ Finalizing(session'[q]))
  <2>1. CASE p # o /\ q # o
    BY <1>1, <1>3, <2>1 DEF IngestionInv
  <2>2. CASE p = o
    BY <1>1, <1>3, <2>2
  <2>3. CASE q = o
    BY <1>1, <1>3, <2>3
  <2> QED BY <2>1, <2>2, <2>3
<1>4. ComingFine(session[o])'
  OBVIOUS
<1> QED BY <1>2, <1>3, <1>4 DEF IngestionInv, Coming, Finalizing

LEMMA NoItemHasNoThing == NoItem.thing = 0 /\ NoItem.thing \notin Links \cup Files
  BY IngestionAssumption DEF NoItem

(* A job is set, for a key without an item; items stay.                    *)
LEMMA JobSet ==
  ASSUME IngestionInv, NEW k \in Keys, content[k] = NoItem, UNCHANGED <<content, published>>,
         NEW status \in {"RUNNING", "RETRY_SCHEDULED", "FAILED", "SUCCEEDED"},
         NEW c \in Ways \cup {0}, SetJob(k, status, c),
         status = "SUCCEEDED" => c \in Ways /\ content[c] # NoItem,
         storage' \in [Keys -> {"NONE", "TEMPORARY", "FINAL"}],
         \A j \in Keys \ {k} : storage'[j] = storage[j]
  PROVE  /\ ItemsFine'
         /\ job'[k].status = status
         /\ \A j \in Keys \ {k} : job'[j] = job[j]
<1>1. PICK new : new = [status |-> status, content |-> c]
  OBVIOUS
<1>2. new \in Jobs /\ new # NoJob /\ new.status = status /\ new.content = c
  BY <1>1 DEF Jobs, NoJob
<1>3. job' = [job EXCEPT ![k] = new]
  BY <1>1 DEF SetJob
<1>4. job' \in [Keys -> Jobs] /\ job'[k] = new /\ \A j \in Keys \ {k} : job'[j] = job[j]
  BY <1>2, <1>3 DEF IngestionInv, ItemsFine
<1>5. IngestedOnce'
  <2>1. \A j \in Keys : job'[j].status = "SUCCEEDED" => content'[job'[j].content] # NoItem
    BY <1>2, <1>4 DEF IngestionInv, ItemsFine, IngestedOnce
  <2>2. \A j \in Keys : content'[j].thing \in Files =>
           /\ storage'[j] = "FINAL"
           /\ \A m \in Keys \ {j} : content'[m].thing # content'[j].thing
    BY NoItemHasNoThing DEF IngestionInv, ItemsFine, IngestedOnce
  <2>3. \A d, e \in Entries : d # e /\ content'[d] # NoItem => content'[d].thing # content'[e].thing
    BY DEF IngestionInv, ItemsFine, IngestedOnce
  <2> QED BY <2>1, <2>2, <2>3 DEF IngestedOnce
<1>6. /\ content' \in [Ways -> [thing : Things, status : ItemStatuses] \cup {NoItem}]
      /\ published' \subseteq Entries
      /\ \A e \in Entries : content'[e] = NoItem \/ content'[e].thing = e
  BY DEF IngestionInv, ItemsFine
<1>7. \A j \in Keys : /\ job'[j] = NoJob => content'[j] = NoItem
                      /\ job'[j].status = "SUCCEEDED" => job'[j].content \in Ways
  BY <1>2, <1>4 DEF IngestionInv, ItemsFine
<1> QED BY <1>2, <1>4, <1>5, <1>6, <1>7 DEF ItemsFine

(* The step of a session for its key, or of a call for a new one.          *)
LEMMA JobSetKeeps ==
  ASSUME IngestionInv, NEW o \in Operators, NEW k \in Keys, content[k] = NoItem,
         UNCHANGED <<content, published>>,
         NEW status \in {"RUNNING", "RETRY_SCHEDULED", "FAILED", "SUCCEEDED"},
         NEW c \in Ways \cup {0}, SetJob(k, status, c),
         status = "SUCCEEDED" => c \in Ways /\ content[c] # NoItem,
         storage' \in [Keys -> {"NONE", "TEMPORARY", "FINAL"}],
         \A j \in Keys \ {k} : storage'[j] = storage[j],
         \A p \in Operators \ {o} : Coming(session[p]) => session[p].key # k,
         OthersStay(o), NEW s, session'[o] = s, ~Finalizing(s), s.op # "TRANSITION",
         Coming(s) => /\ s.key = k /\ status = "RUNNING"
                      /\ s.thing \in (IF s.op = "URL" THEN Links ELSE Files)
  PROVE  IngestionInv'
<1>1. /\ ItemsFine' /\ job'[k].status = status
      /\ \A j \in Keys \ {k} : job'[j] = job[j]
  BY JobSet
<1>2. ComingFine(s)'
  BY <1>1 DEF ComingFine, Coming, Finalizing
<1>3. {k} \in SUBSET Keys /\ content'[k].thing \notin Files
  BY NoItemHasNoThing
<1>4. \A p \in Operators \ {o} : Coming(session[p]) => session[p].key \notin {k}
  OBVIOUS
<1>5. Coming(s) => s.key \in {k}
  OBVIOUS
<1> QED BY <1>1, <1>2, <1>3, <1>4, <1>5, ArrivalsKeep

LEMMA KnownItems ==
  ASSUME IngestionInv, NEW t \in Links \cup Files, NEW d \in Ways, content[d].thing = t
  PROVE  content[d] # NoItem
  BY NoItemHasNoThing

LEMMA SubmissionKeeps ==
  ASSUME IngestionInv, Shaped, NEW o \in Operators, SubmitUrl(o) \/ SubmitUpload(o)
  PROVE  IngestionInv'
<1>1. o \in Actors
  BY DEF Actors
<1>2. \A k \in Keys : job[k] = NoJob =>
         /\ content[k] = NoItem
         /\ \A p \in Operators : Coming(session[p]) => session[p].key # k
  BY DEF IngestionInv, ItemsFine, ComingFine, NoJob
<1>3. storage \in [Keys -> {"NONE", "TEMPORARY", "FINAL"}]
  BY DEF IngestionInv, ItemsFine
<1>4. CASE SubmitUrl(o)
  <2>1. PICK k \in Keys, l \in Links :
           /\ job[k] = NoJob /\ SetJob(k, "RUNNING", 0)
           /\ Begin(o, [op |-> "URL", at |-> "submitted", message |-> NoMessage,
                        key |-> k, thing |-> l])
    BY <1>4 DEF SubmitUrl
  <2>2. PICK s : s = [op |-> "URL", at |-> "submitted", message |-> NoMessage,
                      key |-> k, thing |-> l]
    OBVIOUS
  <2>3. session'[o] = s /\ OthersStay(o)
    BY <1>1, <2>1, <2>2, BeginEffect
  <2>4. ~Finalizing(s) /\ s.op = "URL" /\ s.key = k /\ s.thing \in Links
    BY <2>2 DEF Finalizing
  <2>5. UNCHANGED <<content, published, storage>>
    BY <1>4 DEF SubmitUrl
  <2> QED BY <1>2, <1>3, <2>1, <2>3, <2>4, <2>5, JobSetKeeps DEF Coming
<1>5. CASE SubmitUpload(o)
  <2>1. PICK k \in Keys, f \in Files :
           /\ job[k] = NoJob
           /\ \/ SetJob(k, "FAILED", 0) /\ UNCHANGED <<storage, session>>
              \/ /\ SetJob(k, "RUNNING", 0)
                 /\ storage' = [storage EXCEPT ![k] = "TEMPORARY"]
                 /\ Begin(o, [op |-> "UPLOAD", at |-> "receiving", message |-> NoMessage,
                              key |-> k, thing |-> f])
    BY <1>5 DEF SubmitUpload
  <2>2. UNCHANGED <<content, published>> /\ Free(o)
    BY <1>5 DEF SubmitUpload, Accepts
  <2>3. CASE SetJob(k, "FAILED", 0) /\ UNCHANGED <<storage, session>>
    <3>1. PICK s : s = session[o]
      OBVIOUS
    <3>2. session'[o] = s /\ OthersStay(o)
      BY <2>3, <3>1 DEF OthersStay
    <3>3. ~Finalizing(s) /\ s.op # "TRANSITION" /\ ~Coming(s)
      BY <2>2, <3>1 DEF Free, Idle, Finalizing, Coming
    <3> QED BY <1>2, <1>3, <2>1, <2>2, <2>3, <3>2, <3>3, JobSetKeeps
  <2>4. CASE /\ SetJob(k, "RUNNING", 0)
             /\ storage' = [storage EXCEPT ![k] = "TEMPORARY"]
             /\ Begin(o, [op |-> "UPLOAD", at |-> "receiving", message |-> NoMessage,
                          key |-> k, thing |-> f])
    <3>1. PICK s : s = [op |-> "UPLOAD", at |-> "receiving", message |-> NoMessage,
                        key |-> k, thing |-> f]
      OBVIOUS
    <3>2. session'[o] = s /\ OthersStay(o)
      BY <1>1, <2>4, <3>1, BeginEffect
    <3>3. ~Finalizing(s) /\ s.op = "UPLOAD" /\ s.key = k /\ s.thing \in Files
      BY <3>1 DEF Finalizing
    <3>4. /\ storage' \in [Keys -> {"NONE", "TEMPORARY", "FINAL"}]
          /\ \A j \in Keys \ {k} : storage'[j] = storage[j]
      BY <1>3, <2>4
    <3> QED BY <1>2, <2>1, <2>2, <2>4, <3>2, <3>3, <3>4, JobSetKeeps
  <2> QED BY <2>1, <2>3, <2>4
<1> QED BY <1>4, <1>5

LEMMA JobEndKeeps ==
  ASSUME IngestionInv, Shaped, NEW o \in Operators, Coming(session[o]), End(o),
         UNCHANGED <<content, published>>,
         NEW status \in {"RETRY_SCHEDULED", "FAILED", "SUCCEEDED"}, NEW c \in Ways \cup {0},
         SetJob(session[o].key, status, c),
         status = "SUCCEEDED" => c \in Ways /\ content[c] # NoItem,
         storage' \in [Keys -> {"NONE", "TEMPORARY", "FINAL"}],
         \A j \in Keys \ {session[o].key} : storage'[j] = storage[j]
  PROVE  IngestionInv'
<1>1. o \in Actors
  BY DEF Actors
<1>2. PICK k : k = session[o].key
  OBVIOUS
<1>3. /\ k \in Keys /\ content[k] = NoItem
      /\ \A p \in Operators \ {o} : Coming(session[p]) => session[p].key # k
  BY <1>2 DEF IngestionInv, ComingFine
<1>4. session'[o] = Idle /\ OthersStay(o)
  BY <1>1, EndEffect
<1>5. ~Finalizing(Idle) /\ Idle.op # "TRANSITION" /\ ~Coming(Idle)
  BY DEF Finalizing, Idle, Coming
<1>6. /\ SetJob(k, status, c)
      /\ \A j \in Keys \ {k} : storage'[j] = storage[j]
  BY <1>2
<1> QED BY <1>3, <1>4, <1>5, <1>6, JobSetKeeps

(* The session goes on, for its key. *)
LEMMA JobGoesOnKeeps ==
  ASSUME IngestionInv, NEW o \in Operators, Coming(session[o]), OthersStay(o),
         UNCHANGED <<content, published, job>>,
         storage' \in [Keys -> {"NONE", "TEMPORARY", "FINAL"}],
         \A j \in Keys \ {session[o].key} : storage'[j] = storage[j],
         NEW s, session'[o] = s, Coming(s), s.key = session[o].key,
         s.thing \in (IF s.op = "URL" THEN Links ELSE Files),
         Finalizing(s) => /\ storage'[s.key] = "FINAL" /\ WithChecksum(s.thing) = {}
                          /\ \A p \in Operators \ {o} : ~Finalizing(session[p])
  PROVE  IngestionInv'
<1>1. PICK k : k = session[o].key
  OBVIOUS
<1>2. /\ k \in Keys /\ content[k] = NoItem /\ job[k].status = "RUNNING"
      /\ \A p \in Operators \ {o} : Coming(session[p]) => session[p].key # k
  BY <1>1 DEF IngestionInv, ComingFine
<1>3. ComingFine(s)'
  BY <1>1, <1>2 DEF ComingFine, Coming, Finalizing, WithChecksum
<1>4. IngestedOnce'
  BY <1>1, <1>2, NoItemHasNoThing DEF IngestionInv, ItemsFine, IngestedOnce
<1>5. ItemsFine'
  BY <1>4 DEF IngestionInv, ItemsFine
<1>6. content'[k].thing \notin Files
  BY <1>2, NoItemHasNoThing
<1>7. {k} \in SUBSET Keys /\ \A p \in Operators \ {o} : Coming(session[p]) => session[p].key \notin {k}
  BY <1>2
<1>8. Coming(s) => s.key \in {k}
  BY <1>1
<1>9. \A j \in Keys \ {k} : storage'[j] = storage[j]
  BY <1>1
<1> QED BY <1>3, <1>5, <1>6, <1>7, <1>8, <1>9, ArrivalsKeep

LEMMA LinkKeeps ==
  ASSUME IngestionInv, Shaped, NEW o \in Operators, CheckUrl(o) \/ FetchUrl(o)
  PROVE  IngestionInv'
<1>1. PICK s : s = session[o]
  OBVIOUS
<1>2. /\ o \in Actors /\ s.op = "URL" /\ Coming(s) /\ s.thing \in Links
      /\ UNCHANGED <<content, storage, published>>
  BY <1>1 DEF Actors, CheckUrl, FetchUrl, At, Coming, IngestionInv, ComingFine
<1>3. storage' \in [Keys -> {"NONE", "TEMPORARY", "FINAL"}]
  BY <1>2 DEF IngestionInv, ItemsFine
<1>4. ASSUME NEW l \in Links, NEW d \in Duplicates(l)
      PROVE  d \in Ways /\ content[d] # NoItem
  BY <1>4, KnownItems DEF Duplicates
<1>5. ASSUME NEW status \in {"FAILED", "RETRY_SCHEDULED"}, SetJob(s.key, status, 0), End(o)
      PROVE  IngestionInv'
  BY <1>1, <1>2, <1>3, <1>5, JobEndKeeps
<1>6. ASSUME NEW l \in Links, NEW d \in Duplicates(l), SetJob(s.key, "SUCCEEDED", d), End(o)
      PROVE  IngestionInv'
  BY <1>1, <1>2, <1>3, <1>4, <1>6, JobEndKeeps
<1>7. ASSUME NEW t, session'[o] = t, OthersStay(o), UNCHANGED job, t.op = "URL",
             t.key = s.key, t.thing \in Links
      PROVE  IngestionInv'
  <2>1. Coming(t) /\ ~Finalizing(t)
    BY <1>7 DEF Coming, Finalizing
  <2> QED BY <1>1, <1>2, <1>3, <1>7, <2>1, JobGoesOnKeeps
<1>8. CASE CheckUrl(o)
  <2>1. CASE Goto(o, "fetching") /\ UNCHANGED job
    <3>1. PICK t : t = [s EXCEPT !.at = "fetching"]
      OBVIOUS
    <3>2. session'[o] = t /\ OthersStay(o)
      BY <1>1, <1>2, <2>1, <3>1, GotoEffect
    <3>3. t.op = "URL" /\ t.key = s.key /\ t.thing \in Links
      BY <1>2, <3>1
    <3> QED BY <1>7, <2>1, <3>2, <3>3
  <2> QED BY <1>1, <1>2, <1>5, <1>6, <1>8, <2>1 DEF CheckUrl
<1>9. CASE FetchUrl(o)
  <2>1. ASSUME NEW final \in Links, Begin(o, [s EXCEPT !.at = "storing", !.thing = final]),
               UNCHANGED job
        PROVE  IngestionInv'
    <3>1. PICK t : t = [s EXCEPT !.at = "storing", !.thing = final]
      OBVIOUS
    <3>2. session'[o] = t /\ OthersStay(o)
      BY <1>2, <2>1, <3>1, BeginEffect
    <3>3. PICK u : u = [s EXCEPT !.at = "storing"]
      OBVIOUS
    <3>4. t = [u EXCEPT !.thing = final] /\ u.op = "URL" /\ u.key = s.key
      BY <1>2, <3>1, <3>3
    <3>5. t.op = "URL" /\ t.key = s.key
      BY <3>4
    <3>6. t.thing \in Links
      BY <1>1, <1>2, <3>4 DEF Shaped
    <3> QED BY <1>7, <2>1, <3>2, <3>5, <3>6
  <2> QED BY <1>1, <1>2, <1>5, <1>6, <1>9, <2>1 DEF FetchUrl
<1> QED BY <1>8, <1>9

LEMMA UploadKeeps ==
  ASSUME IngestionInv, Shaped, NEW o \in Operators, ReceiveUpload(o)
  PROVE  IngestionInv'
<1>1. PICK s : s = session[o]
  OBVIOUS
<1>2. /\ o \in Actors /\ s.op = "UPLOAD" /\ Coming(s) /\ s.thing \in Files /\ s.key \in Keys
      /\ UNCHANGED <<content, published>> /\ LoopFree
  BY <1>1 DEF Actors, ReceiveUpload, At, Coming, IngestionInv, ComingFine
<1>3. storage \in [Keys -> {"NONE", "TEMPORARY", "FINAL"}]
  BY DEF IngestionInv, ItemsFine
<1>4. CASE storage' = [storage EXCEPT ![s.key] = "NONE"] /\ End(o)
  <2>1. /\ storage' \in [Keys -> {"NONE", "TEMPORARY", "FINAL"}]
        /\ \A j \in Keys \ {s.key} : storage'[j] = storage[j]
    BY <1>3, <1>4
  <2>2. CASE SetJob(s.key, "FAILED", 0)
    BY <1>1, <1>2, <1>4, <2>1, <2>2, JobEndKeeps
  <2>3. ASSUME NEW d \in WithChecksum(s.thing), SetJob(s.key, "SUCCEEDED", d)
        PROVE  IngestionInv'
    <3>1. d \in Ways /\ content[d] # NoItem
      BY <1>2, <2>3, KnownItems DEF WithChecksum, Ways
    <3> QED BY <1>1, <1>2, <1>4, <2>1, <2>3, <3>1, JobEndKeeps
  <2>4. \/ SetJob(s.key, "FAILED", 0)
        \/ \E d \in WithChecksum(s.thing) : SetJob(s.key, "SUCCEEDED", d)
        \/ Goto(o, "finalized")
    BY <1>1 DEF ReceiveUpload
  <2>5. ~Goto(o, "finalized")
    BY <1>1, <1>2, <1>4, GotoEffect, EndEffect DEF Idle
  <2> QED BY <2>2, <2>3, <2>4, <2>5
<1>5. CASE /\ WithChecksum(s.thing) = {}
           /\ storage' = [storage EXCEPT ![s.key] = "FINAL"]
           /\ Goto(o, "finalized") /\ UNCHANGED job
  <2>1. PICK t : t = [s EXCEPT !.at = "finalized"]
    OBVIOUS
  <2>2. session'[o] = t /\ OthersStay(o)
    BY <1>1, <1>2, <1>5, <2>1, GotoEffect
  <2>3. t.op = "UPLOAD" /\ t.key = s.key /\ t.thing = s.thing /\ Coming(t)
    BY <1>2, <2>1 DEF Coming
  <2>4. /\ storage' \in [Keys -> {"NONE", "TEMPORARY", "FINAL"}]
        /\ \A j \in Keys \ {s.key} : storage'[j] = storage[j]
        /\ storage'[s.key] = "FINAL"
    BY <1>2, <1>3, <1>5
  <2>5. \A p \in Operators \ {o} : ~Finalizing(session[p])
    BY <1>2 DEF LoopFree, At, Finalizing
  <2> QED BY <1>1, <1>2, <1>5, <2>2, <2>3, <2>4, <2>5, JobGoesOnKeeps
<1> QED BY <1>1, <1>4, <1>5 DEF ReceiveUpload

(* An item comes in under its session's key.                               *)
LEMMA StoringKeeps ==
  ASSUME IngestionInv, Shaped, NEW o \in Operators, StoreUrl(o) \/ StoreUpload(o)
  PROVE  IngestionInv'
<1>1. PICK s : s = session[o]
  OBVIOUS
<1>2. PICK k : k = s.key
  OBVIOUS
<1>3. /\ o \in Actors /\ Coming(s) /\ k \in Keys /\ k \in Ways /\ content[k] = NoItem
      /\ UNCHANGED <<storage, published>> /\ End(o)
  BY <1>1, <1>2 DEF Actors, StoreUrl, StoreUpload, At, Coming, IngestionInv, ComingFine, Ways
<1>4. PICK new : new = Incoming(s.thing)
  OBVIOUS
<1>5. s.thing \in Links \cup Files
  BY <1>1, <1>3 DEF IngestionInv, ComingFine, Coming
<1>6. /\ new \in [thing : Things, status : ItemStatuses]
      /\ new.thing = s.thing /\ new # NoItem
  BY <1>4, <1>5 DEF Incoming, Things, ItemStatuses, NoItem
<1>7. PICK done : done = [status |-> "SUCCEEDED", content |-> k]
  OBVIOUS
<1>8. done \in Jobs /\ done # NoJob /\ done.content = k
  BY <1>3, <1>7 DEF Jobs, NoJob
<1>9. content' = [content EXCEPT ![k] = new] /\ job' = [job EXCEPT ![k] = done]
  BY <1>1, <1>2, <1>4, <1>7 DEF StoreUrl, StoreUpload, SetJob
<1>10. /\ content' \in [Ways -> [thing : Things, status : ItemStatuses] \cup {NoItem}]
       /\ content'[k] = new /\ \A w \in Ways \ {k} : content'[w] = content[w]
  BY <1>3, <1>6, <1>9 DEF IngestionInv, ItemsFine
<1>11. /\ job' \in [Keys -> Jobs]
       /\ job'[k] = done /\ \A j \in Keys \ {k} : job'[j] = job[j]
  BY <1>3, <1>8, <1>9 DEF IngestionInv, ItemsFine
<1>12. \A j \in Keys : j \in Ways
  BY DEF Ways
<1>13. k \notin Entries /\ \A e \in Entries : e \in Ways
  BY <1>3, IngestionAssumption DEF Ways
<1>14. s.thing \in Files => /\ storage[k] = "FINAL"
                            /\ \A j \in Keys : content[j].thing # s.thing
                            /\ \A p \in Operators \ {o} : ~Finalizing(session[p])
  <2>1. CASE StoreUrl(o)
    BY <1>1, <2>1, IngestionAssumption DEF StoreUrl, At, IngestionInv, ComingFine
  <2>2. CASE StoreUpload(o)
    <3>1. Finalizing(s)
      BY <1>1, <2>2 DEF StoreUpload, At, Finalizing
    <3> QED BY <1>1, <1>2, <3>1 DEF IngestionInv, ComingFine, WithChecksum
  <2> QED BY <2>1, <2>2
<1>15. IngestedOnce'
  <2>1. \A j \in Keys : job'[j].status = "SUCCEEDED" => content'[job'[j].content] # NoItem
    BY <1>6, <1>8, <1>10, <1>11 DEF IngestionInv, ItemsFine, IngestedOnce
  <2>2. ASSUME NEW j \in Keys, content'[j].thing \in Files
        PROVE  /\ storage'[j] = "FINAL"
               /\ \A m \in Keys \ {j} : content'[m].thing # content'[j].thing
    <3>1. CASE j = k
      BY <1>3, <1>6, <1>10, <1>12, <1>14, <2>2, <3>1
    <3>2. CASE j # k
      <4>1. content'[j] = content[j]
        BY <1>10, <1>12, <3>2
      <4>2. /\ storage'[j] = "FINAL"
            /\ \A m \in Keys \ {j} : content[m].thing # content[j].thing
        BY <1>3, <2>2, <4>1 DEF IngestionInv, ItemsFine, IngestedOnce
      <4>3. content'[k].thing # content[j].thing
        BY <1>6, <1>10, <1>14, <2>2, <4>1
      <4> QED BY <1>10, <1>12, <4>1, <4>2, <4>3
    <3> QED BY <3>1, <3>2
  <2>3. \A d, e \in Entries : d # e /\ content'[d] # NoItem => content'[d].thing # content'[e].thing
    BY <1>10, <1>13 DEF IngestionInv, ItemsFine, IngestedOnce
  <2> QED BY <2>1, <2>2, <2>3 DEF IngestedOnce
<1>16. \A e \in Entries : content'[e] = NoItem \/ content'[e].thing = e
  BY <1>10, <1>13 DEF IngestionInv, ItemsFine
<1>17. \A j \in Keys : /\ job'[j] = NoJob => content'[j] = NoItem
                       /\ job'[j].status = "SUCCEEDED" => job'[j].content \in Ways
  BY <1>3, <1>8, <1>10, <1>11, <1>12 DEF IngestionInv, ItemsFine
<1>18. ItemsFine'
  BY <1>3, <1>10, <1>11, <1>15, <1>16, <1>17 DEF IngestionInv, ItemsFine
<1>19. session'[o] = Idle /\ OthersStay(o)
  BY <1>3, EndEffect
<1>20. ComingFine(Idle)' /\ ~Finalizing(Idle) /\ ~Coming(Idle)
  BY DEF ComingFine, Finalizing, Coming, Idle
<1>21. {k} \in SUBSET Keys /\ \A p \in Operators \ {o} : Coming(session[p]) => session[p].key \notin {k}
  BY <1>1, <1>2, <1>3 DEF IngestionInv
<1>22. \A j \in Keys \ {k} : /\ job'[j] = job[j] /\ storage'[j] = storage[j]
                             /\ content'[j].thing = content[j].thing
                             /\ content[j] = NoItem => content'[j] = NoItem
  BY <1>3, <1>10, <1>11, <1>12
<1>23. \A w \in Ways : content[w] # NoItem => content'[w] # NoItem
  BY <1>6, <1>10
<1>24. ASSUME NEW j \in {k}, content'[j].thing \in Files
       PROVE  \A p \in Operators \ {o} : ~Finalizing(session[p])
  <2>1. content'[j].thing = s.thing
    BY <1>6, <1>10
  <2> QED BY <1>14, <1>24, <2>1
<1> QED BY <1>18, <1>19, <1>20, <1>21, <1>22, <1>23, <1>24, ArrivalsKeep

(* The steps of the feed that leave content and jobs alone.                *)
LEMMA FeedKeeps ==
  ASSUME IngestionInv, Shaped, NEW o \in Operators,
         \/ RegisterFeed(o) \/ FinishRegistration(o) \/ LoadFeed(o) \/ FinishValidation(o)
         \/ CommitFeedStatus(o) \/ StartRun(o) \/ RunFails(o) \/ LoadItem(o)
  PROVE  IngestionInv'
<1>1. o \in Actors
  BY DEF Actors
<1>2. UNCHANGED <<content, job, storage, published>>
  BY DEF RegisterFeed, FinishRegistration, LoadFeed, FinishValidation, CommitFeedStatus,
         StartRun, RunFails, LoadItem, ingestionRows
<1>3. ItemsFine'
  BY <1>2 DEF IngestionInv, ItemsFine, IngestedOnce
<1>4. ASSUME NEW s, session'[o] = s, OthersStay(o), ~Coming(s),
             s.op = "TRANSITION" => s.way \in Ways /\ content[s.way] # NoItem
      PROVE  IngestionInv'
  <2>1. ComingFine(s)' /\ ~Finalizing(s)
    BY <1>2, <1>4 DEF ComingFine, Coming, Finalizing
  <2>2. {} \in SUBSET Keys
    OBVIOUS
  <2> QED BY <1>2, <1>3, <1>4, <2>1, <2>2, ArrivalsKeep
<1>5. ~Coming(Idle) /\ Idle.op # "TRANSITION"
  BY DEF Coming, Idle
<1>6. CASE End(o)
  BY <1>1, <1>4, <1>5, <1>6, EndEffect
<1>7. ASSUME NEW s, Begin(o, s), ~Coming(s),
             s.op = "TRANSITION" => s.way \in Ways /\ content[s.way] # NoItem
      PROVE  IngestionInv'
  BY <1>1, <1>4, <1>7, BeginEffect
<1>8. CASE RegisterFeed(o) \/ LoadFeed(o)
  BY <1>7, <1>8 DEF RegisterFeed, LoadFeed, Coming
<1>9. CASE LoadItem(o)
  BY <1>7, <1>9 DEF LoadItem, Coming
<1>10. CASE StartRun(o)
  <2>1. PICK s : s = [session[o] EXCEPT !.at = "fetching", !.feed.leased = TRUE]
    OBVIOUS
  <2>2. Begin(o, s) /\ s.op = "POLL"
    BY <1>1, <1>10, <2>1 DEF StartRun, At, Shaped
  <2> QED BY <1>7, <2>2 DEF Coming
<1> QED
  BY <1>2, <1>6, <1>8, <1>9, <1>10
  DEF FinishRegistration, FinishValidation, CommitFeedStatus, RunFails

(* A run imports entries under their own names, where there is no item.    *)
LEMMA RunKeeps ==
  ASSUME IngestionInv, Shaped, NEW o \in Operators, FinishRun(o)
  PROVE  /\ IngestionInv'
         /\ \A w \in Ways : content[w] # NoItem => content'[w] = content[w]
<1>1. /\ o \in Actors /\ UNCHANGED <<job, storage, published>> /\ End(o)
  BY DEF FinishRun, Actors
<1>2. /\ \A e \in Entries : e \in Ways /\ e \notin Keys /\ e \in Things /\ e # 0
      /\ \A k \in Keys : k \in Ways
  <2>1. \A e \in Entries : e # 0
    <3>1. \A e \in 1..Cardinality(Entries) : e # 0
      OBVIOUS
    <3> QED BY <3>1, IngestionAssumption
  <2> QED BY <2>1, IngestionAssumption DEF Ways, Things
<1>3. ASSUME NEW e \in Entries
      PROVE  /\ Incoming(e) \in [thing : Things, status : ItemStatuses]
             /\ Incoming(e).thing = e /\ Incoming(e) # NoItem
  BY <1>2 DEF Incoming, ItemStatuses, NoItem
<1>4. ASSUME NEW w \in Ways
      PROVE  \/ content'[w] = content[w]
             \/ w \in Entries /\ content[w] = NoItem /\ content'[w] = Incoming(w)
  <2>1. CASE UNCHANGED content
    BY <2>1
  <2>2. CASE ~UNCHANGED content
    <3>1. content'[w] = IF \E e \in NewEntries : Identity(e) = w
                        THEN Incoming(CHOOSE e \in NewEntries : Identity(e) = w) ELSE content[w]
      BY <2>2 DEF FinishRun
    <3>2. CASE \E e \in NewEntries : Identity(e) = w
      <4>1. (CHOOSE e \in NewEntries : Identity(e) = w) = w
        BY <3>2 DEF Identity
      <4>2. w \in Entries /\ content[w] = NoItem
        BY <3>2 DEF Identity, NewEntries, IngestionInv, ItemsFine
      <4> QED BY <3>1, <3>2, <4>1, <4>2
    <3>3. CASE ~ \E e \in NewEntries : Identity(e) = w
      BY <3>1, <3>3
    <3> QED BY <3>2, <3>3
  <2> QED BY <2>1, <2>2
<1>5. content' \in [Ways -> [thing : Things, status : ItemStatuses] \cup {NoItem}]
  <2>1. content' = [w \in Ways |-> content'[w]]
    BY DEF FinishRun, IngestionInv, ItemsFine
  <2>2. \A w \in Ways : content'[w] \in [thing : Things, status : ItemStatuses] \cup {NoItem}
    BY <1>3, <1>4 DEF IngestionInv, ItemsFine
  <2> QED BY <2>1, <2>2
<1>6. \A k \in Keys : content'[k] = content[k]
  BY <1>2, <1>4
<1>7. \A e \in Entries : content'[e] = NoItem \/ content'[e].thing = e
  BY <1>2, <1>3, <1>4 DEF IngestionInv, ItemsFine
<1>8. \A w \in Ways : content[w] # NoItem => content'[w] = content[w]
  BY <1>4
<1>9. IngestedOnce'
  <2>1. \A k \in Keys : job'[k].status = "SUCCEEDED" => content'[job'[k].content] # NoItem
    BY <1>1, <1>8 DEF IngestionInv, ItemsFine, IngestedOnce
  <2>2. \A k \in Keys : content'[k].thing \in Files =>
           /\ storage'[k] = "FINAL"
           /\ \A m \in Keys \ {k} : content'[m].thing # content'[k].thing
    BY <1>1, <1>6 DEF IngestionInv, ItemsFine, IngestedOnce
  <2>3. \A d, e \in Entries : d # e /\ content'[d] # NoItem => content'[d].thing # content'[e].thing
    BY <1>2, <1>7, NoItemHasNoThing
  <2> QED BY <2>1, <2>2, <2>3 DEF IngestedOnce
<1>10. ItemsFine'
  BY <1>1, <1>5, <1>6, <1>7, <1>9 DEF IngestionInv, ItemsFine
<1>11. session'[o] = Idle /\ OthersStay(o)
  BY <1>1, EndEffect
<1>12. ComingFine(Idle)' /\ ~Finalizing(Idle) /\ ~Coming(Idle) /\ {} \in SUBSET Keys
  BY DEF ComingFine, Finalizing, Coming, Idle
<1> QED BY <1>1, <1>6, <1>8, <1>10, <1>11, <1>12, ArrivalsKeep

(* What the lifecycle allows from one state to the next.                   *)
FollowsLifecycle ==
    \A w \in Ways : content[w] # NoItem =>
          /\ content'[w].thing = content[w].thing
          /\ \/ content'[w].status = content[w].status
             \/ content'[w].status \in Transitions[content[w].status]

LEMMA TransitionsAreStatuses ==
  ASSUME NEW status \in ItemStatuses, NEW target \in Transitions[status]
  PROVE  target \in ItemStatuses
  BY DEF Transitions, ItemStatuses

LEMMA TransitionKeeps ==
  ASSUME IngestionInv, Shaped, NEW o \in Operators, CommitTransition(o)
  PROVE  IngestionInv' /\ FollowsLifecycle
<1>1. PICK s : s = session[o]
  OBVIOUS
<1>2. /\ o \in Actors /\ s.way \in Ways /\ content[s.way] # NoItem
      /\ UNCHANGED <<job, storage, published>> /\ End(o)
  BY <1>1 DEF Actors, CommitTransition, At, IngestionInv, ComingFine
<1>3. PICK old \in [thing : Things, status : ItemStatuses] : old = content[s.way]
  BY <1>2 DEF IngestionInv, ItemsFine
<1>4. PICK new \in [thing : Things, status : ItemStatuses] :
         /\ content' = [content EXCEPT ![s.way] = new]
         /\ new.thing = old.thing
         /\ new.status = old.status \/ new.status \in Transitions[old.status]
  <2>1. CASE UNCHANGED content
    BY <1>2, <1>3, <2>1 DEF IngestionInv, ItemsFine
  <2>2. CASE ~UNCHANGED content
    <3>1. PICK target \in Transitions[s.status] :
             content' = [content EXCEPT ![s.way].status = target] /\ s.status = old.status
      BY <1>1, <1>3, <2>2 DEF CommitTransition, Unchanged
    <3>2. target \in ItemStatuses
      BY <3>1, TransitionsAreStatuses
    <3>3. PICK new : new = [old EXCEPT !.status = target]
      OBVIOUS
    <3>4. content' = [content EXCEPT ![s.way] = new]
      BY <1>2, <1>3, <3>1, <3>3 DEF IngestionInv, ItemsFine
    <3>5. /\ new \in [thing : Things, status : ItemStatuses]
          /\ new.thing = old.thing /\ new.status = target
      BY <3>2, <3>3
    <3> QED BY <3>1, <3>4, <3>5
  <2> QED BY <2>1, <2>2
<1>5. /\ content' \in [Ways -> [thing : Things, status : ItemStatuses] \cup {NoItem}]
      /\ content'[s.way] = new /\ \A w \in Ways \ {s.way} : content'[w] = content[w]
  BY <1>2, <1>4 DEF IngestionInv, ItemsFine
<1>6. new # NoItem
  BY DEF NoItem, ItemStatuses
<1>7. \A w \in Ways : /\ content'[w].thing = content[w].thing
                      /\ content'[w] = NoItem <=> content[w] = NoItem
  BY <1>2, <1>3, <1>4, <1>5, <1>6
<1>8. /\ \A k \in Keys : k \in Ways
      /\ \A e \in Entries : e \in Ways
  BY DEF Ways
<1>9. IngestedOnce'
  BY <1>2, <1>7, <1>8 DEF IngestionInv, ItemsFine, IngestedOnce
<1>10. ItemsFine'
  BY <1>2, <1>5, <1>7, <1>8, <1>9 DEF IngestionInv, ItemsFine
<1>11. session'[o] = Idle /\ OthersStay(o)
  BY <1>2, EndEffect
<1>12. ComingFine(Idle)' /\ ~Finalizing(Idle) /\ ~Coming(Idle) /\ {} \in SUBSET Keys
  BY DEF ComingFine, Finalizing, Coming, Idle
<1>13. IngestionInv'
  <2>1. \A p \in Operators \ {o} : Coming(session[p]) => session[p].key \notin {}
    OBVIOUS
  <2>2. \A k \in Keys \ {} : /\ job'[k] = job[k] /\ storage'[k] = storage[k]
                             /\ content'[k].thing = content[k].thing
                             /\ content[k] = NoItem => content'[k] = NoItem
    BY <1>2, <1>7, <1>8
  <2>3. \A w \in Ways : content[w] # NoItem => content'[w] # NoItem
    BY <1>7
  <2>4. /\ Coming(Idle) => Idle.key \in {}
        /\ \A k \in {} : content'[k].thing \in Files =>
                         \A p \in Operators \ {o} : ~Finalizing(session[p])
    BY <1>12
  <2> QED BY <1>10, <1>11, <1>12, <2>1, <2>2, <2>3, <2>4, ArrivalsKeep
<1>14. FollowsLifecycle
  BY <1>3, <1>4, <1>5, <1>7 DEF FollowsLifecycle
<1> QED BY <1>13, <1>14

LEMMA IngestionStep ==
  ASSUME IngestionInv, Shaped, NEW o \in Operators, IngestionHandler(o)
  PROVE  IngestionInv' /\ [FollowsLifecycle]_content
<1>1. CASE StoreUrl(o) \/ StoreUpload(o)
  <2>1. PICK k, new : k = session[o].key /\ content[k] = NoItem
                      /\ content' = [content EXCEPT ![k] = new]
    BY <1>1 DEF StoreUrl, StoreUpload, At, IngestionInv, ComingFine, Coming
  <2>2. \A w \in Ways : content[w] # NoItem => content'[w] = content[w]
    BY <2>1 DEF IngestionInv, ItemsFine
  <2> QED BY <1>1, <2>2, StoringKeeps DEF FollowsLifecycle
<1>2. CASE FinishRun(o)
  BY <1>2, RunKeeps DEF FollowsLifecycle
<1>3. CASE CommitTransition(o)
  BY <1>3, TransitionKeeps
<1>4. CASE SubmitUrl(o) \/ SubmitUpload(o) \/ CheckUrl(o) \/ FetchUrl(o) \/ ReceiveUpload(o)
  <2>1. UNCHANGED content
    BY <1>4 DEF SubmitUrl, SubmitUpload, CheckUrl, FetchUrl, ReceiveUpload
  <2> QED BY <1>4, <2>1, SubmissionKeeps, LinkKeeps, UploadKeeps
<1>5. CASE \/ RegisterFeed(o) \/ FinishRegistration(o) \/ LoadFeed(o) \/ FinishValidation(o)
           \/ CommitFeedStatus(o) \/ StartRun(o) \/ RunFails(o) \/ LoadItem(o)
  <2>1. UNCHANGED content
    BY <1>5 DEF RegisterFeed, FinishRegistration, LoadFeed, FinishValidation, CommitFeedStatus,
                StartRun, RunFails, LoadItem, ingestionRows
  <2> QED BY <1>5, <2>1, FeedKeeps
<1> QED BY <1>1, <1>2, <1>3, <1>4, <1>5 DEF IngestionHandler

(* Sessions that end, and steps of others.                                 *)
LEMMA SessionsEndKeep ==
  ASSUME IngestionInv, UNCHANGED <<content, job, storage>>, published' \subseteq Entries,
         NEW Ops, Confined(Ops), (Ops \cup {"IDLE"}) \cap IngestionOps = {}
  PROVE  IngestionInv'
<1>1. ItemsFine'
  BY DEF IngestionInv, ItemsFine, IngestedOnce
<1>2. ASSUME NEW o \in Operators
      PROVE  \/ session'[o] = session[o]
             \/ /\ ~Coming(session'[o]) /\ ~Finalizing(session'[o])
                /\ session'[o].op # "TRANSITION"
  BY DEF Confined, Actors, IngestionOps, Coming, Finalizing
<1>3. ASSUME NEW o \in Operators
      PROVE  ComingFine(session[o])'
  <2>1. PICK s : s = session'[o]
    OBVIOUS
  <2>2. ComingFine(s)
    BY <1>2, <2>1 DEF IngestionInv, ComingFine, Coming, Finalizing
  <2>3. ComingFine(s)'
    BY <2>2 DEF ComingFine, Coming, Finalizing, WithChecksum
  <2> QED BY <2>1, <2>3
<1>4. ASSUME NEW o \in Operators, NEW p \in Operators, o # p
      PROVE  /\ Coming(session'[o]) /\ Coming(session'[p]) => session'[o].key # session'[p].key
             /\ ~ (Finalizing(session'[o]) /\ Finalizing(session'[p]))
  BY <1>2, <1>4 DEF IngestionInv
<1> QED BY <1>1, <1>3, <1>4 DEF IngestionInv, Coming, Finalizing

LEMMA FeedTimeKeeps ==
  ASSUME IngestionInv, FeedTime
  PROVE  IngestionInv' /\ UNCHANGED content
<1>1. UNCHANGED <<content, job, storage>> /\ Confined({})
  BY DEF FeedTime, Confined
<1>2. published' \subseteq Entries
  BY DEF FeedTime, IngestionInv, ItemsFine
<1>3. ({} \cup {"IDLE"}) \cap IngestionOps = {}
  BY DEF IngestionOps
<1> QED BY <1>1, <1>2, <1>3, SessionsEndKeep

LEMMA IngestionUntouched ==
  ASSUME IngestionInv, UNCHANGED ingestionRows, NEW Ops, Confined(Ops),
         (Ops \cup {"IDLE"}) \cap IngestionOps = {}
  PROVE  IngestionInv'
<1>1. UNCHANGED <<content, job, storage>> /\ published' \subseteq Entries
  BY DEF ingestionRows, IngestionInv, ItemsFine
<1> QED BY <1>1, SessionsEndKeep

-----------------------------------------------------------------------------
(* Operations: the delivery of reports. *)

Delivering(s) == s.op = "DELIVER"
Posting(s, r) == Delivering(s) /\ s.at = "posted" /\ r = NextReport(s)

(* What a delivery goes through is pending, and what it has posted last    *)
(* has been posted.                                                        *)
DeliveryFine(s) == Delivering(s) =>
    /\ "reports" \in DOMAIN s
    /\ s.reports \subseteq Reports /\ s.reports # {}
    /\ \A r \in s.reports : report[r] = "PENDING_DELIVERY"
    /\ s.at = "posted" => posted[NextReport(s)] > 0

(* Only what is being entered may have been posted once more than there    *)
(* were faults.                                                            *)
PostsCounted ==
    /\ faults \in Nat
    /\ \A r \in Reports :
          /\ report[r] = "DELIVERED" => posted[r] > 0
          /\ posted[r] <= 1 + faults
          /\ \/ report[r] = "DELIVERED" \/ posted[r] <= faults
             \/ \E a \in Actors : Posting(session[a], r)

OneDelivery ==
    \A a, b \in Actors : Delivering(session[a]) /\ Delivering(session[b]) => a = b

(* The inductive invariant. *)
ReportsInv ==
    /\ report \in [Reports -> {"ABSENT", "PENDING_DELIVERY", "DELIVERED"}]
    /\ posted \in [Reports -> Nat]
    /\ \A a \in Actors : Delivering(session[a]) => a \in Operators
    /\ \A a \in Actors : DeliveryFine(session[a])
    /\ OneDelivery
    /\ PostsCounted

LEMMA ReportsInitially ==
  ASSUME OperationsInit, faults = 0, \A a \in Actors : session[a] = Idle
  PROVE  ReportsInv
<1>1. \A a \in Actors : ~Delivering(session[a])
  BY DEF Delivering, Idle
<1> QED BY <1>1 DEF OperationsInit, ReportsInv, DeliveryFine, OneDelivery, PostsCounted

(* What the loop posts next is one of those that it has read.              *)
LEMMA NextIsLoaded ==
  ASSUME NEW s, s.reports \subseteq Reports, s.reports # {}
  PROVE  NextReport(s) \in s.reports
<1>1. s.reports \in SUBSET Nat
  BY OperationsAssumption
<1> QED BY <1>1, LeastNumber DEF NextReport

(* A session in a delivery that goes on or ends.                           *)
LEMMA SessionsOfOthers ==
  ASSUME ReportsInv, NEW o \in Actors, Delivering(session[o]), OthersStay(o)
  PROVE  \A a \in Actors \ {o} : ~Delivering(session[a]) /\ session'[a] = session[a]
  BY DEF ReportsInv, OneDelivery, OthersStay

LEMMA LoadReportsKeeps ==
  ASSUME ReportsInv, Shaped, NEW o \in Operators, LoadReports(o)
  PROVE  ReportsInv'
<1>0. o \in Actors
  BY DEF Actors
<1>1. PICK s : s = [op |-> "DELIVER", at |-> "posting", message |-> NoMessage,
                    reports |-> PendingReports]
  OBVIOUS
<1>2. session'[o] = s /\ OthersStay(o) /\ UNCHANGED <<report, posted, faults>>
  BY <1>0, <1>1, BeginEffect DEF LoadReports, operationsRows
<1>3. \A a \in Actors : ~Delivering(session[a])
  BY DEF LoadReports, ReportsInv, Delivering
<1>4. \A a \in Actors : a # o => ~Delivering(session'[a])
  BY <1>2, <1>3 DEF OthersStay
<1>5. Delivering(s) /\ s.at = "posting" /\ s.reports = PendingReports /\ "reports" \in DOMAIN s
  BY <1>1 DEF Delivering
<1>6. DeliveryFine(s)'
  BY <1>2, <1>5 DEF DeliveryFine, PendingReports, LoadReports
<1>7. \A a \in Actors : DeliveryFine(session[a])'
  BY <1>2, <1>4, <1>6 DEF DeliveryFine
<1>8. PostsCounted'
  BY <1>2, <1>3 DEF ReportsInv, PostsCounted, Posting
<1>9. OneDelivery'
  BY <1>4 DEF OneDelivery
<1>10. \A a \in Actors : Delivering(session'[a]) => a \in Operators
  BY <1>4
<1> QED BY <1>2, <1>7, <1>8, <1>9, <1>10 DEF ReportsInv

LEMMA PostReportKeeps ==
  ASSUME ReportsInv, Shaped, NEW o \in Operators, PostReport(o)
  PROVE  ReportsInv'
<1>0. o \in Actors
  BY DEF Actors
<1>1. PICK s : s = session[o]
  OBVIOUS
<1>2. PICK r : r = NextReport(s)
  OBVIOUS
<1>3. Delivering(session[o]) /\ Delivering(s) /\ s.at = "posting" /\ DeliveryFine(s)
  BY <1>0, <1>1 DEF PostReport, At, Delivering, ReportsInv
<1>4. r \in Reports /\ report[r] = "PENDING_DELIVERY" /\ s.reports \subseteq Reports
  BY <1>2, <1>3, NextIsLoaded DEF DeliveryFine
<1>5. /\ posted' = [posted EXCEPT ![r] = @ + 1] /\ Goto(o, "posted")
      /\ UNCHANGED <<report, faults>>
  BY <1>1, <1>2 DEF PostReport
<1>6. PICK t : t = [s EXCEPT !.at = "posted"]
  OBVIOUS
<1>7. session'[o] = t /\ OthersStay(o) /\ {"op", "at"} \subseteq DOMAIN s
  BY <1>0, <1>1, <1>5, <1>6, GotoEffect DEF Shaped
<1>8. Delivering(t) /\ t.at = "posted" /\ t.reports = s.reports /\ "reports" \in DOMAIN t
  BY <1>3, <1>6, <1>7 DEF Delivering, DeliveryFine
<1>9. NextReport(t) = r
  BY <1>2, <1>8 DEF NextReport
<1>10. \A a \in Actors \ {o} : ~Delivering(session[a]) /\ session'[a] = session[a]
  BY <1>0, <1>3, <1>7, SessionsOfOthers
<1>11. \A q \in Reports : posted[q] \in Nat
  BY DEF ReportsInv
<1>12. /\ posted' \in [Reports -> Nat] /\ posted'[r] = posted[r] + 1
       /\ \A q \in Reports \ {r} : posted'[q] = posted[q]
  BY <1>4, <1>5, <1>11 DEF ReportsInv
<1>13. posted[r] <= faults
  <2>1. \A a \in Actors : ~Posting(session[a], r)
    BY <1>1, <1>3, <1>10 DEF Posting
  <2> QED BY <1>4, <2>1 DEF ReportsInv, PostsCounted
<1>14. DeliveryFine(t)'
  BY <1>3, <1>4, <1>5, <1>8, <1>9, <1>11, <1>12 DEF DeliveryFine
<1>15. \A a \in Actors : DeliveryFine(session[a])'
  BY <1>7, <1>10, <1>14 DEF DeliveryFine
<1>16. PostsCounted'
  <2>1. faults' \in Nat
    BY <1>5 DEF ReportsInv, PostsCounted
  <2>2. ASSUME NEW q \in Reports
        PROVE  /\ report'[q] = "DELIVERED" => posted'[q] > 0
               /\ posted'[q] <= 1 + faults'
               /\ \/ report'[q] = "DELIVERED" \/ posted'[q] <= faults'
                  \/ \E a \in Actors : Posting(session'[a], q)
    <3>1. CASE q = r
      <4>1. Posting(session'[o], r)
        BY <1>7, <1>8, <1>9 DEF Posting
      <4> QED BY <1>0, <1>4, <1>5, <1>11, <1>12, <1>13, <2>1, <3>1, <4>1
    <3>2. CASE q # r
      <4>1. \A a \in Actors : ~Posting(session[a], q)
        BY <1>1, <1>3, <1>10 DEF Posting
      <4> QED BY <1>5, <1>12, <3>2, <4>1 DEF ReportsInv, PostsCounted
    <3> QED BY <3>1, <3>2
  <2> QED BY <2>1, <2>2 DEF PostsCounted
<1>17. OneDelivery'
  BY <1>10 DEF OneDelivery
<1>18. \A a \in Actors : Delivering(session'[a]) => a \in Operators
  BY <1>10
<1> QED BY <1>5, <1>12, <1>15, <1>16, <1>17, <1>18 DEF ReportsInv

LEMMA MarkDeliveredKeeps ==
  ASSUME ReportsInv, Shaped, NEW o \in Operators, MarkDelivered(o)
  PROVE  ReportsInv'
<1>0. o \in Actors
  BY DEF Actors
<1>1. PICK s : s = session[o]
  OBVIOUS
<1>2. PICK r : r = NextReport(s)
  OBVIOUS
<1>3. Delivering(session[o]) /\ Delivering(s) /\ s.at = "posted" /\ DeliveryFine(s)
  BY <1>0, <1>1 DEF MarkDelivered, At, Delivering, ReportsInv
<1>4. r \in Reports /\ posted[r] > 0 /\ s.reports \subseteq Reports /\ r \in s.reports
  BY <1>2, <1>3, NextIsLoaded DEF DeliveryFine
<1>5. PICK rest : rest = s.reports \ {r}
  OBVIOUS
<1>6. UNCHANGED <<posted, faults>>
  BY DEF MarkDelivered
<1>7. /\ report' \in [Reports -> {"ABSENT", "PENDING_DELIVERY", "DELIVERED"}]
      /\ report'[r] = "DELIVERED" /\ \A q \in Reports \ {r} : report'[q] = report[q]
  BY <1>1, <1>2, <1>4 DEF MarkDelivered, Delivered, ReportsInv
<1>8. /\ OthersStay(o)
      /\ Delivering(session'[o]) => /\ session'[o].at = "posting" /\ rest # {}
                                    /\ session'[o].reports = rest
                                    /\ "reports" \in DOMAIN session'[o]
  <2>1. CASE End(o)
    BY <1>0, <2>1, EndEffect DEF Delivering
  <2>2. CASE ~End(o)
    <3>1. rest # {} /\ session' = [session EXCEPT ![o].at = "posting", ![o].reports = rest]
      BY <1>1, <1>2, <1>5, <2>2 DEF MarkDelivered
    <3>2. PICK u : u = [s EXCEPT !.at = "posting"]
      OBVIOUS
    <3>3. PICK t : t = [u EXCEPT !.reports = rest]
      OBVIOUS
    <3>4. session'[o] = t /\ OthersStay(o) /\ {"op", "at"} \subseteq DOMAIN s
      BY <1>0, <1>1, <3>1, <3>2, <3>3 DEF Shaped, OthersStay
    <3>5. "reports" \in DOMAIN s
      BY <1>3 DEF DeliveryFine
    <3>6. t.at = "posting" /\ t.reports = rest /\ "reports" \in DOMAIN t
      BY <3>2, <3>3, <3>4, <3>5
    <3> QED BY <3>1, <3>4, <3>6
  <2> QED BY <2>1, <2>2
<1>9. \A a \in Actors \ {o} : ~Delivering(session[a]) /\ session'[a] = session[a]
  BY <1>0, <1>3, <1>8, SessionsOfOthers
<1>10. \A a \in Actors : DeliveryFine(session[a])'
  <2>1. PICK t : t = session'[o]
    OBVIOUS
  <2>2. Delivering(t) => /\ t.at = "posting" /\ rest # {} /\ t.reports = rest
                         /\ "reports" \in DOMAIN t
    BY <1>8, <2>1
  <2>3. \A q \in rest : report'[q] = "PENDING_DELIVERY"
    BY <1>3, <1>4, <1>5, <1>7 DEF DeliveryFine
  <2>4. DeliveryFine(t)'
    BY <1>4, <1>5, <2>2, <2>3 DEF DeliveryFine
  <2> QED BY <1>9, <2>1, <2>4 DEF DeliveryFine
<1>11. PostsCounted'
  <2>1. ASSUME NEW q \in Reports
        PROVE  /\ report'[q] = "DELIVERED" => posted'[q] > 0
               /\ posted'[q] <= 1 + faults'
               /\ report'[q] = "DELIVERED" \/ posted'[q] <= faults'
    <3>1. CASE q = r
      BY <1>4, <1>6, <1>7, <3>1 DEF ReportsInv, PostsCounted
    <3>2. CASE q # r
      <4>1. \A a \in Actors : ~Posting(session[a], q)
        BY <1>1, <1>2, <1>9, <3>2 DEF Posting
      <4> QED BY <1>6, <1>7, <3>2, <4>1 DEF ReportsInv, PostsCounted
    <3> QED BY <3>1, <3>2
  <2> QED BY <1>6, <2>1 DEF ReportsInv, PostsCounted
<1>12. OneDelivery'
  BY <1>9 DEF OneDelivery
<1>13. \A a \in Actors : Delivering(session'[a]) => a \in Operators
  BY <1>9
<1> QED BY <1>6, <1>7, <1>10, <1>11, <1>12, <1>13 DEF ReportsInv

(* Steps that leave what is posted and the deliveries under way: a tick    *)
(* may write reports.                                                      *)
LEMMA DeliveriesStay ==
  ASSUME ReportsInv, UNCHANGED <<posted, faults>>,
         report' \in [Reports -> {"ABSENT", "PENDING_DELIVERY", "DELIVERED"}],
         \A r \in Reports : report[r] # "ABSENT" => report'[r] = report[r],
         \A r \in Reports : report[r] = "ABSENT" => report'[r] # "DELIVERED",
         \A a \in Actors : Delivering(session[a]) \/ Delivering(session'[a])
                              => session'[a] = session[a]
  PROVE  ReportsInv'
<1>1. ASSUME NEW a \in Actors
      PROVE  DeliveryFine(session[a])'
  <2>1. PICK t : t = session'[a]
    OBVIOUS
  <2>2. CASE Delivering(t)
    <3>1. t = session[a] /\ DeliveryFine(t)
      BY <2>1, <2>2 DEF ReportsInv
    <3> QED BY <2>1, <2>2, <3>1 DEF DeliveryFine
  <2>3. CASE ~Delivering(t)
    BY <2>1, <2>3 DEF DeliveryFine
  <2> QED BY <2>2, <2>3
<1>2. PostsCounted'
  <2>1. ASSUME NEW r \in Reports, NEW a \in Actors, Posting(session[a], r)
        PROVE  Posting(session'[a], r)
    BY <2>1 DEF Posting
  <2>2. ASSUME NEW r \in Reports
        PROVE  /\ report'[r] = "DELIVERED" => posted'[r] > 0
               /\ posted'[r] <= 1 + faults'
               /\ \/ report'[r] = "DELIVERED" \/ posted'[r] <= faults'
                  \/ \E a \in Actors : Posting(session'[a], r)
    BY <2>1 DEF ReportsInv, PostsCounted
  <2> QED BY <2>2 DEF ReportsInv, PostsCounted
<1>3. OneDelivery'
  BY DEF ReportsInv, OneDelivery
<1>4. \A a \in Actors : Delivering(session'[a]) => a \in Operators
  BY DEF ReportsInv
<1> QED BY <1>1, <1>2, <1>3, <1>4 DEF ReportsInv

(* An actor gives a session that is no delivery another such.              *)
LEMMA OtherSessionsStay ==
  ASSUME NEW a \in Actors, OthersStay(a),
         ~Delivering(session[a]), ~Delivering(session'[a])
  PROVE  \A b \in Actors : Delivering(session[b]) \/ Delivering(session'[b])
                              => session'[b] = session[b]
  BY DEF OthersStay

(* A delivery ends before the next post.                                   *)
LEMMA PostFailsKeeps ==
  ASSUME ReportsInv, Shaped, NEW o \in Operators, PostFails(o)
  PROVE  ReportsInv'
<1>0. o \in Actors
  BY DEF Actors
<1>1. /\ session'[o] = Idle /\ OthersStay(o) /\ UNCHANGED <<report, posted, faults>>
      /\ Delivering(session[o]) /\ session[o].at = "posting"
  BY <1>0, EndEffect DEF PostFails, operationsRows, At, Delivering
<1>2. \A a \in Actors \ {o} : ~Delivering(session[a]) /\ session'[a] = session[a]
  BY <1>0, <1>1, SessionsOfOthers
<1>3. \A a \in Actors : ~Delivering(session'[a])
  BY <1>1, <1>2 DEF Delivering, Idle
<1>4. \A a \in Actors, r \in Reports : ~Posting(session[a], r)
  BY <1>1, <1>2 DEF Posting
<1>5. PostsCounted'
  BY <1>1, <1>4 DEF ReportsInv, PostsCounted
<1> QED BY <1>1, <1>3, <1>5 DEF ReportsInv, DeliveryFine, OneDelivery

LEMMA RefreshesKeep ==
  ASSUME ReportsInv, Shaped, NEW a \in Actors, CallRefresh(a) \/ Operate(a) \/ TakeRefresh(a)
  PROVE  ReportsInv'
<1>1. OthersStay(a)
  BY OperationsMoves DEF Moves, OperationsHandler
<1>2. UNCHANGED <<posted, faults>>
  BY DEF CallRefresh, Operate, LeaveQuiet, Refresh, RefreshFails, CreateReports, TakeRefresh,
         Receive, operationsRows
<1>3. ~Delivering(session[a])
  BY DEF CallRefresh, Operate, LeaveQuiet, Refresh, RefreshFails, CreateReports, TakeRefresh,
         Receive, Free, Idle, At, Delivering
<1>4. ~Delivering(session'[a])
  <2>1. ASSUME NEW m, NEW s \in Health(m), Begin(a, s)
        PROVE  ~Delivering(session'[a])
    BY <2>1, BeginEffect DEF Health, Delivering
  <2>2. CASE End(a)
    BY <2>2, EndEffect DEF Delivering
  <2>3. CASE Goto(a, "refreshed") /\ Refresh(a)
    <3>1. session'[a] = [session[a] EXCEPT !.at = "refreshed"] /\ session[a].op = "REFRESH"
      BY <2>3, GotoEffect DEF Refresh, At
    <3> QED BY <3>1 DEF Delivering
  <2> QED
    BY <2>1, <2>2, <2>3
    DEF CallRefresh, Operate, LeaveQuiet, Refresh, RefreshFails, EndInException, CreateReports,
        TakeRefresh, Receive
<1>5. CASE UNCHANGED report
  BY <1>1, <1>2, <1>3, <1>4, <1>5, OtherSessionsStay, DeliveriesStay DEF ReportsInv
<1>6. CASE CreateReports(a)
  <2>1. PICK added \in SUBSET {r \in Reports : report[r] = "ABSENT"} :
           report' = [r \in Reports |-> IF r \in added THEN "PENDING_DELIVERY" ELSE report[r]]
    BY <1>6 DEF CreateReports
  <2>2. /\ report' \in [Reports -> {"ABSENT", "PENDING_DELIVERY", "DELIVERED"}]
        /\ \A r \in Reports : report[r] # "ABSENT" => report'[r] = report[r]
        /\ \A r \in Reports : report[r] = "ABSENT" => report'[r] # "DELIVERED"
    BY <2>1 DEF ReportsInv
  <2> QED BY <1>1, <1>2, <1>3, <1>4, <2>2, OtherSessionsStay, DeliveriesStay
<1> QED
  BY <1>5, <1>6
  DEF CallRefresh, Operate, LeaveQuiet, Refresh, RefreshFails, TakeRefresh, operationsRows

LEMMA ReportsStep ==
  ASSUME ReportsInv, Shaped,
         \/ \E o \in Operators : OperationsHandler(o)
         \/ \E a \in Actors : Operate(a) \/ TakeRefresh(a)
         \/ BeatRefresh
  PROVE  ReportsInv'
<1>1. CASE \E o \in Operators : LoadReports(o) \/ PostReport(o) \/ PostFails(o) \/ MarkDelivered(o)
  BY <1>1, LoadReportsKeeps, PostReportKeeps, PostFailsKeeps, MarkDeliveredKeeps
<1>2. CASE \E a \in Actors : CallRefresh(a) \/ Operate(a) \/ TakeRefresh(a)
  BY <1>2, RefreshesKeep
<1>3. CASE BeatRefresh
  BY <1>3, DeliveriesStay DEF BeatRefresh, operationsRows, ReportsInv
<1>4. \A o \in Operators : o \in Actors
  BY DEF Actors
<1> QED BY <1>1, <1>2, <1>3, <1>4 DEF OperationsHandler

(* A fault ends what was being done, a delivery too.                       *)
LEMMA ReportsSurviveFaults ==
  ASSUME ReportsInv, UNCHANGED <<report, posted>>, faults' = faults + 1,
         \A a \in Actors : session'[a] = session[a] \/ ~Delivering(session'[a])
  PROVE  ReportsInv'
<1>1. \A a \in Actors : Delivering(session'[a]) => session'[a] = session[a]
  OBVIOUS
<1>2. \A a \in Actors : DeliveryFine(session[a])'
  <2>1. SUFFICES ASSUME NEW a \in Actors, NEW t, t = session'[a], Delivering(t)
                 PROVE  DeliveryFine(t)'
    BY DEF DeliveryFine
  <2>2. t = session[a] /\ DeliveryFine(t)
    BY <1>1, <2>1 DEF ReportsInv
  <2> QED BY <2>2 DEF DeliveryFine
<1>3. PostsCounted'
  <2>1. faults \in Nat /\ faults' \in Nat
    BY DEF ReportsInv, PostsCounted
  <2>2. \A r \in Reports : /\ posted[r] \in Nat /\ posted[r] <= 1 + faults
                           /\ report[r] = "DELIVERED" => posted[r] > 0
    BY DEF ReportsInv, PostsCounted
  <2> QED BY <2>1, <2>2 DEF PostsCounted
<1>4. OneDelivery' /\ \A a \in Actors : Delivering(session'[a]) => a \in Operators
  BY <1>1 DEF ReportsInv, OneDelivery
<1> QED BY <1>2, <1>3, <1>4 DEF ReportsInv

(* A step of another component leaves what is posted and what is being     *)
(* delivered; one that fails counts as a fault.                            *)
LEMMA ReportsUntouched ==
  ASSUME ReportsInv, UNCHANGED <<report, posted>>, faults' \in {faults, faults + 1},
         \A a \in Actors : Delivering(session[a]) \/ Delivering(session'[a])
                              => session'[a] = session[a]
  PROVE  ReportsInv'
<1>1. CASE UNCHANGED faults
  BY <1>1, DeliveriesStay DEF ReportsInv
<1>2. CASE faults' = faults + 1
  <2>1. \A a \in Actors : session'[a] = session[a] \/ ~Delivering(session'[a])
    OBVIOUS
  <2> QED BY <1>2, <2>1, ReportsSurviveFaults
<1> QED BY <1>1, <1>2

-----------------------------------------------------------------------------
(* The TikTok connection. *)

Undisturbed == faults = 0 /\ ~tiktok.spoilt

Connected(s) == s.op \in ConnectionOps
Locks(s) == s.op = "TOKENS" /\ s.at # "loaded"
Exchanging(s) == s.op = "TOKENS" /\ s.at = "exchanging"
Renewing(s) == s.op = "TOKENS" /\ s.at \in {"put", "putting"}
Bringing(s) == s.op = "CALLBACK" /\ s.at \in {"put", "putting"}
Holding(s) == Exchanging(s) \/ Renewing(s) \/ Bringing(s)

(* Where an operation can be.                                              *)
Places(op) ==
    CASE op = "TOKENS" -> {"loaded", "exchanging", "put", "putting", "recording"}
      [] op = "DISCONNECT" -> {"revoking", "drop", "dropping", "recording"}
      [] op = "AUTHORIZE" -> {"touch", "touching", "recording"}
      [] op = "CALLBACK" -> {"touch", "touching", "exchanging", "put", "putting", "verifying",
                             "drop", "dropping", "recording"}

(* It has the reference that its later steps use.                          *)
ConnectionFine(s) == Connected(s) =>
    /\ {"reference", "state", "token", "file"} \subseteq DOMAIN s
    /\ s.at \in Places(s.op)
    /\ s.reference \in 0..MaxTokens
    /\ Locks(s) \/ s.op = "DISCONNECT" => s.reference # 0
    /\ s.op = "CALLBACK" /\ s.at \notin {"touch", "touching", "exchanging"} => s.reference # 0
    /\ s.op = "TOKENS" /\ s.reference # 0 => account.reference # 0

(* The tokens that a session holds are good, and are nowhere else than     *)
(* where it found them.                                                    *)
HoldsGood(s) == Holding(s) =>
    /\ s.token \in 1..tiktok.issued /\ s.token \notin tiktok.spent
    /\ \A r \in Tokens : store[r] = s.token => Exchanging(s) /\ r = s.reference

(* So are those in the store, but for the ones that a refresh has          *)
(* exchanged and is about to replace.                                      *)
StoreGood ==
    /\ \A r \in Tokens : store[r] <= tiktok.issued
    /\ \A q, r \in Tokens : store[q] = store[r] /\ q # r => store[r] = 0
    /\ \A r \in Tokens : store[r] \in tiktok.spent =>
          \E a \in Actors : Renewing(session[a]) /\ session[a].reference = r

OneRefresh == \A a, b \in Actors : Locks(session[a]) /\ Locks(session[b]) => a = b
HeldOnce ==
    \A a, b \in Actors :
        Holding(session[a]) /\ Holding(session[b]) /\ a # b => session[a].token # session[b].token

ConnectionGood ==
    /\ store \in CredentialFile
    /\ tiktok.issued \in 0..MaxTokens /\ tiktok.spent \subseteq 1..tiktok.issued
    /\ account.reference \in 0..MaxTokens
    /\ connection = "CONNECTED" => account.reference # 0
    /\ \A a \in Actors : ConnectionFine(session[a]) /\ HoldsGood(session[a])
    /\ StoreGood /\ OneRefresh /\ HeldOnce

(* The inductive invariant. *)
ConnectionsInv ==
    /\ faults \in Nat
    /\ {"active", "reference"} \subseteq DOMAIN account
    /\ {"issued", "spent", "spoilt"} \subseteq DOMAIN tiktok
    /\ Undisturbed => ConnectionGood

LEMMA ConnectionsInitially ==
  ASSUME ConnectionsInit, faults = 0, \A a \in Actors : session[a] = Idle
  PROVE  ConnectionsInv
<1>1. \A a \in Actors : session[a].op = "IDLE"
  BY DEF Idle
<1>2. MaxTokens \in Nat /\ MaxTokens # 0
  BY ConnectionsAssumption
<1>3. /\ store \in CredentialFile /\ \A r \in Tokens : store[r] = 0
      /\ tiktok.issued = 0 /\ tiktok.spent = {} /\ account.reference = 0
  BY <1>2 DEF ConnectionsInit, NoFile, CredentialFile
<1>4. \A a \in Actors : /\ ~Connected(session[a]) /\ ~Locks(session[a])
                        /\ ~Holding(session[a])
  BY <1>1 DEF Connected, ConnectionOps, Locks, Holding, Exchanging, Renewing, Bringing
<1>5. StoreGood /\ OneRefresh /\ HeldOnce
  BY <1>3, <1>4 DEF StoreGood, OneRefresh, HeldOnce
<1>6. ConnectionGood
  BY <1>2, <1>3, <1>4, <1>5 DEF ConnectionGood, ConnectionsInit, ConnectionFine, HoldsGood
<1> QED BY <1>6 DEF ConnectionsInv, ConnectionsInit

(* What a step has to do with the session of its actor for the others to   *)
(* be as good as before: it leaves account and tokens, or advances them.   *)
LEMMA OthersHoldGood ==
  ASSUME ConnectionGood, NEW a \in Actors, OthersStay(a),
         account.reference # 0 => account'.reference # 0
  PROVE  \A b \in Actors \ {a} : ConnectionFine(session[b])'
<1>1. ASSUME NEW b \in Actors \ {a}
      PROVE  ConnectionFine(session[b])'
  <2>1. PICK s : s = session[b]
    OBVIOUS
  <2>2. session'[b] = s /\ ConnectionFine(s)
    BY <2>1 DEF OthersStay, ConnectionGood
  <2>3. ConnectionFine(s)'
    BY <2>2 DEF ConnectionFine
  <2> QED BY <2>2, <2>3 DEF ConnectionFine
<1> QED BY <1>1

SameTokens == tiktok'.issued = tiktok.issued /\ tiktok'.spent = tiktok.spent

(* A step that leaves the store and the tokens: the session may begin, go  *)
(* on or end, but comes to hold nothing.                                   *)
LEMMA LeavesTokens ==
  ASSUME ConnectionGood, NEW a \in Actors, OthersStay(a), UNCHANGED store, SameTokens,
         NEW s, s = session[a], NEW t, t = session'[a],
         account'.reference \in 0..MaxTokens,
         account.reference # 0 => account'.reference # 0,
         connection' = "CONNECTED" => account'.reference # 0,
         ConnectionFine(t)',
         Locks(t) => Locks(s),
         Holding(t) => /\ Holding(s) /\ t.token = s.token
                       /\ Exchanging(s) => Exchanging(t) /\ t.reference = s.reference,
         \/ Renewing(s) => Renewing(t) /\ t.reference = s.reference
         \/ store[s.reference] = 0
  PROVE  ConnectionGood'
<1>1. ConnectionFine(session[a])'
  BY DEF ConnectionFine
<1>2. \A b \in Actors : ConnectionFine(session[b])'
  BY <1>1, OthersHoldGood
<1>3. \A b \in Actors \ {a} : session'[b] = session[b]
  BY DEF OthersStay
<1>4. ASSUME NEW b \in Actors
      PROVE  HoldsGood(session[b])'
  <2>1. PICK u : u = session'[b]
    OBVIOUS
  <2>2. HoldsGood(u)'
    <3>1. CASE b = a
      <4>1. HoldsGood(s) /\ u = t
        BY <2>1, <3>1 DEF ConnectionGood
      <4> QED BY <4>1 DEF HoldsGood, SameTokens
    <3>2. CASE b # a
      <4>1. HoldsGood(u)
        BY <1>3, <2>1, <3>2 DEF ConnectionGood
      <4> QED BY <4>1 DEF HoldsGood, SameTokens
    <3> QED BY <3>1, <3>2
  <2> QED BY <2>1, <2>2 DEF HoldsGood
<1>5. StoreGood'
  <2>1. \A r \in Tokens : store[r] \notin tiktok.spent \/ store[r] # 0
    BY DEF ConnectionGood
  <2>2. ASSUME NEW r \in Tokens, store[r] \in tiktok.spent
        PROVE  \E b \in Actors : Renewing(session'[b]) /\ session'[b].reference = r
    <3>1. PICK b \in Actors : Renewing(session[b]) /\ session[b].reference = r
      BY <2>2 DEF ConnectionGood, StoreGood, SameTokens
    <3> QED BY <1>3, <2>1, <2>2, <3>1
  <2> QED BY <2>2 DEF ConnectionGood, StoreGood, SameTokens
<1>6. OneRefresh'
  <2>1. \A b \in Actors : Locks(session'[b]) => Locks(session[b])
    BY <1>3
  <2> QED BY <2>1 DEF ConnectionGood, OneRefresh
<1>7. HeldOnce'
  <2>1. \A b \in Actors : Holding(session'[b]) =>
           Holding(session[b]) /\ session'[b].token = session[b].token
    BY <1>3
  <2> QED BY <2>1 DEF ConnectionGood, HeldOnce
<1> QED BY <1>2, <1>4, <1>5, <1>6, <1>7 DEF ConnectionGood, SameTokens

LEMMA BeginsGood ==
  ASSUME ConnectionGood, Shaped, NEW a \in Actors, NEW op \in ConnectionOps, NEW place,
         NEW message, NEW reference \in 0..MaxTokens, Free(a),
         Begin(a, Connecting(op, place, message, reference)),
         UNCHANGED <<account, connection, store, tiktok>>,
         place \in Places(op) \cap {"loaded", "revoking", "touch"},
         reference # 0 => account.reference # 0, op = "DISCONNECT" => reference # 0
  PROVE  ConnectionGood'
<1>1. PICK t : t = Connecting(op, place, message, reference)
  OBVIOUS
<1>2. session'[a] = t /\ OthersStay(a)
  BY <1>1, BeginEffect
<1>3. /\ t.op = op /\ t.at = place /\ t.reference = reference
      /\ {"reference", "state", "token", "file"} \subseteq DOMAIN t
  BY <1>1 DEF Connecting
<1>4. ~Locks(t) /\ ~Holding(t)
  BY <1>3 DEF Places, ConnectionOps, Locks, Holding, Exchanging, Renewing, Bringing
<1>5. ConnectionFine(t)'
  <2>1. op = "CALLBACK" => place = "touch"
    BY DEF Places
  <2> QED BY <1>3, <1>4, <2>1 DEF ConnectionFine
<1>6. ~Renewing(session[a])
  BY DEF Free, Idle, Renewing
<1> QED BY <1>2, <1>4, <1>5, <1>6, LeavesTokens DEF ConnectionGood, SameTokens

LEMMA EndsGood ==
  ASSUME ConnectionGood, Shaped, NEW a \in Actors, End(a), UNCHANGED <<store, tiktok>>,
         account'.reference \in 0..MaxTokens,
         account.reference # 0 => account'.reference # 0,
         connection' = "CONNECTED" => account'.reference # 0,
         ~Renewing(session[a]) \/ store[session[a].reference] = 0
  PROVE  ConnectionGood'
<1>1. PICK s : s = session[a]
  OBVIOUS
<1>2. PICK t : t = session'[a]
  OBVIOUS
<1>3. t.op = "IDLE" /\ OthersStay(a)
  BY <1>2, EndEffect
<1>4. ~Locks(t) /\ ~Holding(t) /\ ConnectionFine(t)'
  BY <1>3 DEF Locks, Holding, Exchanging, Renewing, Bringing, ConnectionFine, Connected,
              ConnectionOps
<1> QED BY <1>1, <1>2, <1>3, <1>4, LeavesTokens DEF SameTokens

(* A session goes on with the reference that it has.                       *)
GoesOn(s, t) ==
    /\ {"reference", "state", "token", "file"} \subseteq DOMAIN t
    /\ t.op = s.op /\ t.at \in Places(s.op) /\ t.reference = s.reference
    /\ s.op = "TOKENS" => s.at # "loaded"
    /\ s.op = "CALLBACK" =>
          \/ t.at \in {"touch", "touching", "exchanging"}
          \/ s.at \notin {"touch", "touching", "exchanging"}

LEMMA GoesOnFine ==
  ASSUME NEW s, ConnectionFine(s), Connected(s), NEW t, GoesOn(s, t), UNCHANGED account
  PROVE  ConnectionFine(t)' /\ (Locks(t) => Locks(s))
<1>1. Locks(t) => Locks(s)
  BY DEF Locks, GoesOn
<1>2. /\ s.reference \in 0..MaxTokens
      /\ Locks(s) \/ s.op = "DISCONNECT" => s.reference # 0
      /\ s.op = "CALLBACK" /\ s.at \notin {"touch", "touching", "exchanging"}
            => s.reference # 0
      /\ s.op = "TOKENS" /\ s.reference # 0 => account'.reference # 0
  BY DEF ConnectionFine
<1>3. /\ Locks(t) \/ t.op = "DISCONNECT" => t.reference # 0
      /\ t.op = "CALLBACK" /\ t.at \notin {"touch", "touching", "exchanging"}
            => t.reference # 0
      /\ t.op = "TOKENS" /\ t.reference # 0 => account'.reference # 0
  BY <1>1, <1>2 DEF GoesOn
<1> QED BY <1>1, <1>2, <1>3 DEF ConnectionFine, GoesOn

LEMMA GoesOnGood ==
  ASSUME ConnectionGood, NEW a \in Actors, OthersStay(a),
         UNCHANGED <<account, connection, store>>, SameTokens,
         NEW s, s = session[a], NEW t, t = session'[a], Connected(s), GoesOn(s, t),
         Bringing(t) => Bringing(s) /\ t.token = s.token,
         Renewing(t) => t.token = s.token,
         ~Exchanging(t), Renewing(t) <=> Renewing(s)
  PROVE  ConnectionGood'
<1>1. ConnectionFine(s)
  BY DEF ConnectionGood
<1>2. ConnectionFine(t)' /\ (Locks(t) => Locks(s))
  BY <1>1, GoesOnFine
<1>3. Holding(t) => Holding(s) /\ t.token = s.token /\ ~Exchanging(s)
  BY DEF Holding, Exchanging, Renewing, Bringing
<1> QED BY <1>2, <1>3, LeavesTokens DEF ConnectionGood, GoesOn

LEMMA OpenFileGood ==
  ASSUME ConnectionGood, Shaped, NEW a \in Actors, Connected(session[a]), OpenFile(a)
  PROVE  ConnectionGood'
<1>1. PICK s : s = session[a]
  OBVIOUS
<1>2. UNCHANGED <<account, store, tiktok>>
  BY DEF OpenFile
<1>3. CASE s.op = "TOKENS" /\ store[s.reference] = 0
  <2>1. End(a) /\ connection' \in {connection, "DEGRADED"}
    BY <1>1, <1>3 DEF OpenFile, Degrade, Records, Updated
  <2> QED BY <1>1, <1>2, <1>3, <2>1, EndsGood DEF ConnectionGood
<1>4. CASE ~(s.op = "TOKENS" /\ store[s.reference] = 0)
  <2>1. PICK place : place = [put |-> "putting", drop |-> "dropping",
                              touch |-> "touching"][s.at]
    OBVIOUS
  <2>2. /\ session' = [session EXCEPT ![a].file = store, ![a].at = place]
        /\ UNCHANGED connection
    BY <1>1, <1>4, <2>1 DEF OpenFile
  <2>3. \/ s.at = "put" /\ place = "putting"
        \/ s.at = "drop" /\ place = "dropping"
        \/ s.at = "touch" /\ place = "touching"
    BY <1>1, <2>1 DEF OpenFile
  <2>4. PICK u : u = [s EXCEPT !.file = store]
    OBVIOUS
  <2>5. PICK t : t = [u EXCEPT !.at = place]
    OBVIOUS
  <2>6. t = session'[a] /\ OthersStay(a) /\ {"op", "at"} \subseteq DOMAIN s
    BY <1>1, <2>2, <2>4, <2>5 DEF Shaped, OthersStay
  <2>7. {"reference", "state", "token", "file"} \subseteq DOMAIN s /\ s.at \in Places(s.op)
    BY <1>1 DEF ConnectionGood, ConnectionFine
  <2>8. /\ {"reference", "state", "token", "file"} \subseteq DOMAIN t /\ t.op = s.op
        /\ t.at = place /\ t.reference = s.reference /\ t.token = s.token
    BY <2>4, <2>5, <2>6, <2>7
  <2>9. Connected(s)
    BY <1>1
  <2>10. t.at \in Places(s.op)
    BY <2>3, <2>7, <2>8, <2>9 DEF Places, Connected, ConnectionOps
  <2>11. /\ Bringing(t) <=> Bringing(s)
         /\ Renewing(t) <=> Renewing(s)
         /\ ~Exchanging(t) /\ s.at # "loaded"
    BY <2>3, <2>8 DEF Bringing, Renewing, Exchanging
  <2>12. GoesOn(s, t)
    BY <2>3, <2>8, <2>10, <2>11 DEF GoesOn
  <2> QED BY <1>1, <1>2, <2>2, <2>6, <2>8, <2>9, <2>11, <2>12, GoesOnGood DEF SameTokens
<1> QED BY <1>3, <1>4

(* The row is locked, and what the store has under the reference is held.  *)
LEMMA LockAccountGood ==
  ASSUME ConnectionGood, Shaped, NEW a \in Actors, LockAccount(a)
  PROVE  ConnectionGood'
<1>1. PICK s : s = session[a]
  OBVIOUS
<1>2. /\ s.op = "TOKENS" /\ s.at = "loaded" /\ s.reference # 0 /\ ~RowLocked
      /\ UNCHANGED <<account, store, tiktok>> /\ ConnectionFine(s)
  BY <1>1 DEF LockAccount, At, ConnectionGood
<1>3. /\ s.reference \in 1..MaxTokens /\ account.reference # 0
      /\ {"reference", "state", "token", "file"} \subseteq DOMAIN s
  BY <1>2, ConnectionsAssumption DEF ConnectionFine, Connected, ConnectionOps
<1>4. CASE store[s.reference] = 0
  <2>1. End(a) /\ connection' = "DEGRADED"
    BY <1>1, <1>4 DEF LockAccount
  <2> QED BY <1>1, <1>2, <1>4, <2>1, EndsGood DEF ConnectionGood
<1>5. CASE store[s.reference] # 0
  <2>1. PICK token : token = store[s.reference]
    OBVIOUS
  <2>2. PICK u : u = [s EXCEPT !.at = "exchanging"]
    OBVIOUS
  <2>3. PICK v : v = [u EXCEPT !.state = connection]
    OBVIOUS
  <2>4. PICK t : t = [v EXCEPT !.token = token]
    OBVIOUS
  <2>5. /\ session'[a] = t /\ OthersStay(a) /\ {"op", "at"} \subseteq DOMAIN s
        /\ UNCHANGED connection
    BY <1>1, <1>5, <2>1, <2>2, <2>3, <2>4 DEF LockAccount, Shaped, OthersStay
  <2>6. /\ {"reference", "state", "token", "file"} \subseteq DOMAIN t
        /\ t.op = "TOKENS" /\ t.at = "exchanging" /\ t.reference = s.reference
        /\ t.token = token
    BY <1>2, <1>3, <2>2, <2>3, <2>4, <2>5
  <2>7. \A b \in Actors : ~Locks(session[b])
    BY <1>2 DEF RowLocked, Locks
  <2>8. \A b \in Actors \ {a} : session'[b] = session[b] /\ ~Locks(session[b])
    BY <2>5, <2>7 DEF OthersStay
  <2>9. \A b \in Actors : ~Renewing(session[b])
    BY <2>7 DEF Locks, Renewing
  <2>10. ConnectionFine(t)'
    BY <1>2, <1>3, <2>6 DEF ConnectionFine, Places
  <2>11. token \in 1..tiktok.issued /\ token \notin tiktok.spent
    <3>1. s.reference \in Tokens
      BY <1>3 DEF Tokens
    <3>2. token \in 0..MaxTokens /\ token # 0 /\ token <= tiktok.issued
      BY <1>5, <2>1, <3>1 DEF ConnectionGood, CredentialFile, StoreGood
    <3>3. token \notin tiktok.spent
      BY <2>1, <2>9, <3>1 DEF ConnectionGood, StoreGood
    <3>4. tiktok.issued \in Nat
      BY DEF ConnectionGood
    <3> QED BY <3>2, <3>3, <3>4
  <2>12. \A r \in Tokens : store[r] = token => r = s.reference
    BY <1>3, <1>5, <2>1 DEF ConnectionGood, StoreGood, Tokens
  <2>13. HoldsGood(t)'
    BY <1>2, <2>6, <2>11, <2>12 DEF HoldsGood, Exchanging
  <2>14. ASSUME NEW b \in Actors \ {a}
         PROVE  HoldsGood(session[b])'
    <3>1. PICK w : w = session[b]
      OBVIOUS
    <3>2. HoldsGood(w) /\ session'[b] = w
      BY <2>8, <3>1 DEF ConnectionGood
    <3>3. HoldsGood(w)'
      BY <1>2, <3>2 DEF HoldsGood
    <3> QED BY <3>2, <3>3 DEF HoldsGood
  <2>15. \A b \in Actors : ConnectionFine(session[b])' /\ HoldsGood(session[b])'
    <3>1. ConnectionFine(session[a])' /\ HoldsGood(session[a])'
      BY <2>5, <2>10, <2>13 DEF ConnectionFine, HoldsGood
    <3> QED BY <1>2, <2>5, <2>14, <3>1, OthersHoldGood
  <2>16. StoreGood'
    BY <1>2, <2>9 DEF ConnectionGood, StoreGood
  <2>17. OneRefresh'
    BY <2>8 DEF OneRefresh
  <2>18. HeldOnce'
    <3>1. ASSUME NEW b \in Actors \ {a}, Holding(session[b])
          PROVE  session[b].token # token
      <4>1. ~Exchanging(session[b])
        BY <2>8 DEF Locks, Exchanging
      <4>2. s.reference \in Tokens
        BY <1>3 DEF Tokens
      <4> QED BY <2>1, <3>1, <4>1, <4>2 DEF ConnectionGood, HoldsGood
    <3>2. session'[a].token = token
      BY <2>5, <2>6
    <3> QED BY <2>8, <3>1, <3>2 DEF ConnectionGood, HeldOnce
  <2> QED BY <1>2, <1>3, <2>5, <2>15, <2>16, <2>17, <2>18 DEF ConnectionGood
<1> QED BY <1>4, <1>5

(* TikTok issues other tokens: to a refresh for those that it held, or for *)
(* the code of a callback.                                                 *)
LEMMA IssuedGood ==
  ASSUME ConnectionGood, NEW a \in Actors, OthersStay(a),
         UNCHANGED <<account, connection, store>>,
         NEW s, s = session[a], NEW t, t = session'[a],
         tiktok.issued < MaxTokens, tiktok'.issued = tiktok.issued + 1,
         \/ tiktok'.spent = tiktok.spent /\ Bringing(t) /\ ~Locks(s)
         \/ tiktok'.spent = tiktok.spent \cup {s.token} /\ Exchanging(s)
               /\ Renewing(t) /\ t.reference = s.reference,
         t.token = tiktok.issued + 1, ConnectionFine(t)'
  PROVE  ConnectionGood'
<1> DEFINE n == tiktok.issued
<1>1. n \in 0..MaxTokens /\ n \in Nat /\ n + 1 \in 1..MaxTokens
  BY ConnectionsAssumption DEF ConnectionGood
<1>2. \A b \in Actors \ {a} : session'[b] = session[b]
  BY DEF OthersStay
<1>3. tiktok'.spent \subseteq 1..n /\ tiktok.spent \subseteq tiktok'.spent
  <2>1. Exchanging(s) => s.token \in 1..n
    BY DEF ConnectionGood, HoldsGood, Holding
  <2> QED BY <2>1 DEF ConnectionGood
<1>4. ASSUME NEW b \in Actors \ {a}, Holding(session[b])
      PROVE  /\ session[b].token \in 1..n /\ session[b].token \notin tiktok'.spent
             /\ session[b].token # n + 1
  <2>1. session[b].token \in 1..n /\ session[b].token \notin tiktok.spent
    BY <1>4 DEF ConnectionGood, HoldsGood
  <2>2. Exchanging(s) => session[b].token # s.token
    BY <1>4 DEF ConnectionGood, HeldOnce, Holding
  <2>3. session[b].token # n + 1
    BY <1>1, <2>1
  <2> QED BY <2>1, <2>2, <2>3 DEF Bringing, Exchanging
<1>5. \A r \in Tokens : store[r] \in 0..n /\ store[r] # n + 1
  BY <1>1 DEF ConnectionGood, StoreGood, CredentialFile
<1>6. ConnectionFine(session[a])'
  BY DEF ConnectionFine
<1>7. \A b \in Actors : ConnectionFine(session[b])'
  BY <1>6, OthersHoldGood
<1>8. HoldsGood(session[a])'
  <2>1. n + 1 \in 1..(n + 1) /\ n + 1 \notin tiktok'.spent
    BY <1>1, <1>3
  <2> QED BY <1>5, <2>1 DEF HoldsGood
<1>9. ASSUME NEW b \in Actors \ {a}
      PROVE  HoldsGood(session[b])'
  <2>1. PICK w : w = session[b]
    OBVIOUS
  <2>2. session'[b] = w /\ HoldsGood(w)
    BY <1>2, <2>1 DEF ConnectionGood
  <2>3. HoldsGood(w)'
    <3>1. CASE Holding(w)
      <4>1. w.token \in 1..(n + 1) /\ w.token \notin tiktok'.spent
        BY <1>1, <1>4, <2>1, <3>1
      <4> QED BY <2>2, <3>1, <4>1 DEF HoldsGood
    <3>2. CASE ~Holding(w)
      BY <3>2 DEF HoldsGood
    <3> QED BY <3>1, <3>2
  <2> QED BY <2>2, <2>3 DEF HoldsGood
<1>10. StoreGood'
  <2>1. \A r \in Tokens : store'[r] <= tiktok'.issued
    BY <1>1, <1>5
  <2>2. ASSUME NEW r \in Tokens, store[r] \in tiktok'.spent
        PROVE  \E b \in Actors : Renewing(session'[b]) /\ session'[b].reference = r
    <3>1. CASE store[r] \in tiktok.spent
      <4>1. PICK b \in Actors : Renewing(session[b]) /\ session[b].reference = r
        BY <3>1 DEF ConnectionGood, StoreGood
      <4>2. ~Renewing(s)
        BY DEF Locks, Exchanging, Renewing
      <4> QED BY <1>2, <4>1, <4>2
    <3>2. CASE store[r] \notin tiktok.spent
      <4>1. /\ store[r] = s.token /\ Exchanging(s)
            /\ Renewing(t) /\ t.reference = s.reference
        BY <2>2, <3>2
      <4>2. r = s.reference
        BY <4>1 DEF ConnectionGood, HoldsGood, Holding
      <4> QED BY <4>1, <4>2
    <3> QED BY <3>1, <3>2
  <2> QED BY <2>1, <2>2 DEF ConnectionGood, StoreGood
<1>11. OneRefresh'
  <2>1. Locks(t) => Locks(s)
    BY DEF Locks, Bringing, Exchanging
  <2>2. \A b \in Actors : Locks(session'[b]) => Locks(session[b])
    BY <1>2, <2>1
  <2> QED BY <2>2 DEF ConnectionGood, OneRefresh
<1>12. HeldOnce'
  <2>1. ASSUME NEW b \in Actors, NEW c \in Actors, b # c,
               Holding(session'[b]), Holding(session'[c])
        PROVE  session'[b].token # session'[c].token
    <3>1. CASE b # a /\ c # a
      BY <1>2, <2>1, <3>1 DEF ConnectionGood, HeldOnce
    <3>2. CASE b = a \/ c = a
      BY <1>2, <1>4, <2>1, <3>2
    <3> QED BY <3>1, <3>2
  <2> QED BY <2>1 DEF HeldOnce
<1>13. tiktok'.issued \in 0..MaxTokens /\ tiktok'.spent \subseteq 1..tiktok'.issued
  BY <1>1, <1>3
<1> QED BY <1>7, <1>8, <1>9, <1>10, <1>11, <1>12, <1>13 DEF ConnectionGood

LEMMA ExchangeTokensGood ==
  ASSUME ConnectionsInv, ConnectionGood, Shaped, NEW a \in Actors, ExchangeTokens(a),
         ~tiktok'.spoilt
  PROVE  ConnectionGood'
<1>1. PICK s : s = session[a]
  OBVIOUS
<1>2. PICK n : n = tiktok.issued + 1
  OBVIOUS
<1>3. Exchanging(s) /\ tiktok.issued < MaxTokens /\ UNCHANGED <<account, store>>
  BY <1>1 DEF ExchangeTokens, At, Exchanging
<1>4. {"issued", "spent", "spoilt"} \subseteq DOMAIN tiktok
  BY DEF ConnectionsInv
<1>5. /\ session' = [session EXCEPT ![a].at = "put", ![a].token = n]
      /\ tiktok' = [tiktok EXCEPT !.issued = @ + 1, !.spent = @ \cup {s.token}]
      /\ UNCHANGED connection
  BY <1>1, <1>2, <1>4 DEF ExchangeTokens
<1>6. tiktok'.issued = tiktok.issued + 1 /\ tiktok'.spent = tiktok.spent \cup {s.token}
  BY <1>4, <1>5
<1>7. PICK u : u = [s EXCEPT !.at = "put"]
  OBVIOUS
<1>8. PICK t : t = [u EXCEPT !.token = n]
  OBVIOUS
<1>9. t = session'[a] /\ OthersStay(a) /\ {"op", "at"} \subseteq DOMAIN s
  BY <1>1, <1>5, <1>7, <1>8 DEF Shaped, OthersStay
<1>10. ConnectionFine(s) /\ Connected(s)
  BY <1>1, <1>3 DEF ConnectionGood, Exchanging, Connected, ConnectionOps
<1>11. {"reference", "state", "token", "file"} \subseteq DOMAIN s
  BY <1>10 DEF ConnectionFine
<1>12. /\ {"reference", "state", "token", "file"} \subseteq DOMAIN t
       /\ t.op = s.op /\ t.at = "put" /\ t.token = n /\ t.reference = s.reference
  BY <1>7, <1>8, <1>9, <1>11
<1>13. GoesOn(s, t)
  BY <1>3, <1>12 DEF GoesOn, Exchanging, Places
<1>14. ConnectionFine(t)'
  BY <1>3, <1>10, <1>13, GoesOnFine
<1>15. Renewing(t)
  BY <1>3, <1>12 DEF Exchanging, Renewing
<1> QED BY <1>1, <1>2, <1>3, <1>5, <1>6, <1>9, <1>12, <1>14, <1>15, IssuedGood

LEMMA ExchangeCodeGood ==
  ASSUME ConnectionsInv, ConnectionGood, Shaped, NEW a \in Actors, ExchangeCode(a)
  PROVE  ConnectionGood'
<1>1. PICK s : s = session[a]
  OBVIOUS
<1>2. PICK n : n = tiktok.issued + 1
  OBVIOUS
<1>3. s.op = "CALLBACK" /\ s.at = "exchanging" /\ UNCHANGED <<account, connection, store>>
  BY <1>1 DEF ExchangeCode, At
<1>4. ~Renewing(s) /\ ~Locks(s)
  BY <1>3 DEF Renewing, Locks
<1>5. CASE End(a) /\ UNCHANGED tiktok
  BY <1>1, <1>3, <1>4, <1>5, EndsGood DEF ConnectionGood
<1>6. CASE ~(End(a) /\ UNCHANGED tiktok)
  <2>1. /\ tiktok.issued < MaxTokens
        /\ tiktok' = [tiktok EXCEPT !.issued = @ + 1]
        /\ session' = [session EXCEPT ![a].at = "put", ![a].state = connection,
                         ![a].reference = n, ![a].token = n]
    BY <1>2, <1>6 DEF ExchangeCode
  <2>2. tiktok'.issued = n /\ tiktok'.spent = tiktok.spent
    BY <1>2, <2>1 DEF ConnectionsInv
  <2>3. PICK u : u = [s EXCEPT !.at = "put"]
    OBVIOUS
  <2>4. PICK v : v = [u EXCEPT !.state = connection]
    OBVIOUS
  <2>5. PICK w : w = [v EXCEPT !.reference = n]
    OBVIOUS
  <2>6. PICK t : t = [w EXCEPT !.token = n]
    OBVIOUS
  <2>7. t = session'[a] /\ OthersStay(a) /\ {"op", "at"} \subseteq DOMAIN s
    BY <1>1, <2>1, <2>3, <2>4, <2>5, <2>6 DEF Shaped, OthersStay
  <2>8. {"reference", "state", "token", "file"} \subseteq DOMAIN s
    BY <1>1, <1>3 DEF ConnectionGood, ConnectionFine, Connected, ConnectionOps
  <2>9. /\ {"reference", "state", "token", "file"} \subseteq DOMAIN t
        /\ t.op = "CALLBACK" /\ t.at = "put" /\ t.token = n /\ t.reference = n
    BY <1>3, <2>3, <2>4, <2>5, <2>6, <2>7, <2>8
  <2>10. n \in 0..MaxTokens /\ n # 0
    BY <1>2, <2>1, ConnectionsAssumption DEF ConnectionGood
  <2>11. ConnectionFine(t)'
    BY <2>9, <2>10 DEF ConnectionFine, Places, Locks
  <2>12. Bringing(t)
    BY <2>9 DEF Bringing
  <2> QED BY <1>1, <1>2, <1>3, <1>4, <2>1, <2>2, <2>7, <2>9, <2>11, <2>12, IssuedGood
<1> QED BY <1>5, <1>6

(* The file is written with what the session brings, or without what it    *)
(* takes out.                                                              *)
LEMMA StoredGood ==
  ASSUME ConnectionGood, NEW a \in Actors, OthersStay(a),
         UNCHANGED <<account, connection>>, SameTokens,
         NEW s, s = session[a], NEW t, t = session'[a], Connected(s), GoesOn(s, t), ~Holding(t),
         NEW q \in Tokens, q = s.reference,
         NEW value, value = 0 \/ (value = s.token /\ (Renewing(s) \/ Bringing(s))),
         store' = [store EXCEPT ![q] = value]
  PROVE  ConnectionGood'
<1>1. ConnectionFine(s) /\ HoldsGood(s)
  BY DEF ConnectionGood
<1>2. ConnectionFine(t)' /\ (Locks(t) => Locks(s))
  BY <1>1, GoesOnFine
<1>3. ConnectionFine(session[a])'
  BY <1>2 DEF ConnectionFine
<1>4. \A b \in Actors : ConnectionFine(session[b])'
  BY <1>3, OthersHoldGood
<1>5. \A b \in Actors \ {a} : session'[b] = session[b]
  BY DEF OthersStay
<1>6. tiktok.issued \in 0..MaxTokens /\ MaxTokens \in Nat /\ tiktok.spent \subseteq 1..tiktok.issued
  BY ConnectionsAssumption DEF ConnectionGood
<1>7. value # 0 => /\ value \in 1..tiktok.issued /\ value \notin tiktok.spent
                   /\ \A r \in Tokens : store[r] # value
  BY <1>1 DEF HoldsGood, Holding, Exchanging, Renewing, Bringing
<1>8. value \in 0..tiktok.issued /\ value \notin tiktok.spent
  BY <1>6, <1>7
<1>9. /\ store' \in CredentialFile /\ store'[q] = value
      /\ \A r \in Tokens \ {q} : store'[r] = store[r]
  BY <1>6, <1>8 DEF ConnectionGood, CredentialFile
<1>10. HoldsGood(session[a])'
  BY DEF HoldsGood
<1>11. ASSUME NEW b \in Actors \ {a}
       PROVE  HoldsGood(session[b])'
  <2>1. PICK w : w = session[b]
    OBVIOUS
  <2>2. session'[b] = w /\ HoldsGood(w)
    BY <1>5, <2>1 DEF ConnectionGood
  <2>3. HoldsGood(w)'
    <3>1. CASE Holding(w)
      <4>1. w.token # value
        BY <1>6, <2>1, <2>2, <3>1 DEF ConnectionGood, HeldOnce, HoldsGood, Holding
      <4> QED BY <1>9, <2>2, <3>1, <4>1 DEF HoldsGood, SameTokens
    <3>2. CASE ~Holding(w)
      BY <3>2 DEF HoldsGood
    <3> QED BY <3>1, <3>2
  <2> QED BY <2>2, <2>3 DEF HoldsGood
<1>12. StoreGood'
  <2>1. \A r \in Tokens : store'[r] <= tiktok'.issued
    BY <1>6, <1>8, <1>9 DEF ConnectionGood, StoreGood, SameTokens
  <2>2. \A r, p \in Tokens : store'[r] = store'[p] /\ r # p => store'[r] = 0
    BY <1>7, <1>9 DEF ConnectionGood, StoreGood
  <2>3. ASSUME NEW r \in Tokens, store'[r] \in tiktok'.spent
        PROVE  \E b \in Actors : Renewing(session'[b]) /\ session'[b].reference = r
    <3>1. r # q /\ store[r] \in tiktok.spent
      BY <1>8, <1>9, <2>3 DEF SameTokens
    <3>2. PICK b \in Actors : Renewing(session[b]) /\ session[b].reference = r
      BY <3>1 DEF ConnectionGood, StoreGood
    <3> QED BY <1>5, <3>1, <3>2
  <2> QED BY <2>1, <2>2, <2>3 DEF StoreGood
<1>13. OneRefresh'
  <2>1. \A b \in Actors : Locks(session'[b]) => Locks(session[b])
    BY <1>2, <1>5
  <2> QED BY <2>1 DEF ConnectionGood, OneRefresh
<1>14. HeldOnce'
  <2>1. \A b \in Actors : Holding(session'[b]) => session'[b] = session[b]
    BY <1>5
  <2> QED BY <2>1 DEF ConnectionGood, HeldOnce
<1> QED BY <1>4, <1>9, <1>10, <1>11, <1>12, <1>13, <1>14 DEF ConnectionGood, SameTokens

LEMMA WriteFileGood ==
  ASSUME ConnectionsInv, ConnectionGood, Shaped, NEW a \in Actors, Connected(session[a]),
         WriteFile(a), ~tiktok'.spoilt
  PROVE  ConnectionGood'
<1>1. PICK s : s = session[a]
  OBVIOUS
<1>2. PICK next : next = [TOKENS |-> "recording", DISCONNECT |-> "recording",
                          AUTHORIZE |-> "recording",
                          CALLBACK |-> [putting |-> "verifying", dropping |-> "recording",
                                        touching |-> "exchanging"][s.at]][s.op]
  OBVIOUS
<1>3. /\ s.at \in {"putting", "dropping", "touching"} /\ Connected(s) /\ store' = InFile(s)
      /\ session' = [session EXCEPT ![a].at = next, ![a].file = NoFile]
      /\ UNCHANGED <<account, connection>>
  BY <1>1, <1>2 DEF WriteFile
<1>4. SameTokens /\ s.file = store
  <2>1. /\ tiktok' = [tiktok EXCEPT !.spoilt = @ \/ store # s.file]
        /\ {"issued", "spent", "spoilt"} \subseteq DOMAIN tiktok
    BY <1>1 DEF WriteFile, ConnectionsInv
  <2> QED BY <2>1 DEF SameTokens
<1>5. ConnectionFine(s) /\ {"op", "at"} \subseteq DOMAIN s
  BY <1>1 DEF ConnectionGood, Shaped
<1>6. {"reference", "state", "token", "file"} \subseteq DOMAIN s /\ s.at \in Places(s.op)
  BY <1>3, <1>5 DEF ConnectionFine
<1>7. PICK u : u = [s EXCEPT !.at = next]
  OBVIOUS
<1>8. PICK t : t = [u EXCEPT !.file = NoFile]
  OBVIOUS
<1>9. t = session'[a] /\ OthersStay(a)
  BY <1>1, <1>3, <1>7, <1>8 DEF Shaped, OthersStay
<1>10. /\ {"reference", "state", "token", "file"} \subseteq DOMAIN t /\ t.op = s.op
       /\ t.at = next /\ t.reference = s.reference
  BY <1>5, <1>6, <1>7, <1>8
<1>11. \/ s.op \in {"TOKENS", "DISCONNECT", "AUTHORIZE"} /\ next = "recording"
       \/ s.op = "CALLBACK" /\ s.at = "putting" /\ next = "verifying"
       \/ s.op = "CALLBACK" /\ s.at = "dropping" /\ next = "recording"
       \/ s.op = "CALLBACK" /\ s.at = "touching" /\ next = "exchanging"
  BY <1>2, <1>3 DEF Connected, ConnectionOps
<1>12. t.at \in Places(s.op)
  BY <1>10, <1>11 DEF Places
<1>13. GoesOn(s, t)
  BY <1>3, <1>10, <1>11, <1>12 DEF GoesOn
<1>14. ~Holding(t)
  BY <1>10, <1>11 DEF Holding, Exchanging, Renewing, Bringing
<1>15. CASE s.at = "touching"
  <2>1. UNCHANGED store
    BY <1>3, <1>4, <1>15 DEF InFile
  <2>2. ~Renewing(s)
    BY <1>15 DEF Renewing
  <2> QED BY <1>1, <1>3, <1>4, <1>9, <1>13, <1>14, <2>1, <2>2, GoesOnGood DEF Holding
<1>16. CASE s.at \in {"putting", "dropping"}
  <2>1. (s.op = "TOKENS" /\ s.at = "putting") \/ s.op \in {"DISCONNECT", "CALLBACK"}
    BY <1>3, <1>6, <1>16 DEF Places, Connected, ConnectionOps
  <2>2. s.reference \in Tokens
    BY <1>3, <1>5, <1>16, <2>1, ConnectionsAssumption DEF ConnectionFine, Locks, Tokens
  <2>3. PICK q \in Tokens : q = s.reference
    BY <2>2
  <2>4. PICK value : value = IF s.at = "putting" THEN s.token ELSE 0
    OBVIOUS
  <2>5. store' = [store EXCEPT ![q] = value]
    BY <1>3, <1>4, <1>16, <2>3, <2>4 DEF InFile
  <2>6. value = 0 \/ (value = s.token /\ (Renewing(s) \/ Bringing(s)))
    <3>1. s.at = "putting" => s.op \in {"TOKENS", "CALLBACK"}
      BY <1>6, <2>1 DEF Places
    <3> QED BY <2>4, <3>1 DEF Renewing, Bringing
  <2>7. /\ UNCHANGED <<account, connection>> /\ OthersStay(a) /\ SameTokens
        /\ s = session[a] /\ t = session'[a] /\ Connected(s) /\ GoesOn(s, t) /\ ~Holding(t)
    BY <1>1, <1>3, <1>4, <1>9, <1>13, <1>14
  <2> QED BY <2>3, <2>5, <2>6, <2>7, StoredGood
<1> QED BY <1>3, <1>15, <1>16

LEMMA RevokesGood ==
  ASSUME ConnectionGood, Shaped, NEW a \in Actors, RevokeTokens(a)
  PROVE  ConnectionGood'
<1>1. PICK s : s = session[a]
  OBVIOUS
<1>2. s.op = "DISCONNECT" /\ s.at = "revoking" /\ UNCHANGED <<account, store, tiktok>>
  BY <1>1 DEF RevokeTokens, At
<1>3. ~Renewing(s) /\ Connected(s)
  BY <1>2 DEF Renewing, Connected, ConnectionOps
<1>4. CASE Degrade(a)
  <2>1. End(a) /\ connection' \in {connection, "DEGRADED"}
    BY <1>4 DEF Degrade, Records, Updated
  <2> QED BY <1>1, <1>2, <1>3, <2>1, EndsGood DEF ConnectionGood
<1>5. CASE Goto(a, "drop") /\ UNCHANGED connection
  <2>1. PICK t : t = [s EXCEPT !.at = "drop"]
    OBVIOUS
  <2>2. t = session'[a] /\ OthersStay(a) /\ {"op", "at"} \subseteq DOMAIN s
    BY <1>1, <1>5, <2>1, GotoEffect DEF Shaped
  <2>3. ConnectionFine(s)
    BY <1>1 DEF ConnectionGood
  <2>4. /\ {"reference", "state", "token", "file"} \subseteq DOMAIN t
        /\ t.op = "DISCONNECT" /\ t.at = "drop" /\ t.reference = s.reference
    BY <1>2, <1>3, <2>1, <2>2, <2>3 DEF ConnectionFine
  <2>5. GoesOn(s, t) /\ ~Bringing(t) /\ ~Renewing(t) /\ ~Exchanging(t)
    BY <1>2, <2>4 DEF GoesOn, Places, Bringing, Renewing, Exchanging
  <2> QED BY <1>1, <1>2, <1>3, <1>5, <2>2, <2>5, GoesOnGood DEF SameTokens
<1> QED BY <1>4, <1>5 DEF RevokeTokens

LEMMA VerifiesGood ==
  ASSUME ConnectionGood, Shaped, NEW a \in Actors, VerifyConnection(a)
  PROVE  ConnectionGood'
<1>1. PICK s : s = session[a]
  OBVIOUS
<1>2. /\ s.op = "CALLBACK" /\ s.at = "verifying"
      /\ UNCHANGED <<account, connection, store, tiktok>>
  BY <1>1 DEF VerifyConnection, At, connectionRows
<1>3. ~Renewing(s) /\ Connected(s)
  BY <1>2 DEF Renewing, Connected, ConnectionOps
<1>4. ConnectionFine(s) /\ {"op", "at"} \subseteq DOMAIN s
  BY <1>1 DEF ConnectionGood, Shaped
<1>5. {"reference", "state", "token", "file"} \subseteq DOMAIN s
  BY <1>3, <1>4 DEF ConnectionFine
<1>6. PICK t : t = session'[a]
  OBVIOUS
<1>7. /\ OthersStay(a) /\ {"reference", "state", "token", "file"} \subseteq DOMAIN t
      /\ t.op = "CALLBACK" /\ t.at \in {"recording", "drop"} /\ t.reference = s.reference
  <2>1. CASE Goto(a, "recording")
    <3>1. PICK u : u = [s EXCEPT !.at = "recording"]
      OBVIOUS
    <3>2. t = u /\ OthersStay(a)
      BY <1>1, <1>6, <2>1, <3>1, GotoEffect
    <3> QED BY <1>2, <1>4, <1>5, <3>1, <3>2
  <2>2. CASE ~Goto(a, "recording")
    <3>1. PICK u : u = [s EXCEPT !.at = "drop"]
      OBVIOUS
    <3>2. PICK v : v = [u EXCEPT !.token = 0]
      OBVIOUS
    <3>3. t = v /\ OthersStay(a)
      BY <1>1, <1>6, <2>2, <3>1, <3>2 DEF VerifyConnection, Shaped, OthersStay
    <3> QED BY <1>2, <1>4, <1>5, <3>1, <3>2, <3>3
  <2> QED BY <2>1, <2>2
<1>8. GoesOn(s, t) /\ ~Bringing(t) /\ ~Renewing(t) /\ ~Exchanging(t)
  BY <1>2, <1>7 DEF GoesOn, Places, Bringing, Renewing, Exchanging
<1> QED BY <1>1, <1>2, <1>3, <1>6, <1>7, <1>8, GoesOnGood DEF SameTokens

(* The rest begin, and what ends with a commit of the two rows.            *)
LEMMA BeginningGood ==
  ASSUME ConnectionGood, Shaped, NEW a \in Actors,
         AskForTokens(a) \/ CallDisconnect(a) \/ CallAuthorize(a) \/ CallCallback(a) \/ TakeTokens(a)
  PROVE  ConnectionGood'
<1>1. UNCHANGED <<account, connection, store, tiktok>> /\ Free(a)
  BY DEF AskForTokens, CallDisconnect, CallAuthorize, CallCallback, TakeTokens, Receive,
         connectionRows
<1>2. account.reference \in 0..MaxTokens /\ 0 \in 0..MaxTokens
  BY ConnectionsAssumption DEF ConnectionGood
<1>3. ASSUME NEW message, NEW reference \in {0, account.reference},
             Begin(a, Connecting("TOKENS", "loaded", message, reference))
      PROVE  ConnectionGood'
  <2>1. "TOKENS" \in ConnectionOps /\ "loaded" \in Places("TOKENS")
    BY DEF ConnectionOps, Places
  <2> QED BY <1>1, <1>2, <1>3, <2>1, BeginsGood
<1>4. CASE AskForTokens(a)
  BY <1>3, <1>4 DEF AskForTokens
<1>5. CASE TakeTokens(a)
  <2>1. PICK soon \in BOOLEAN :
           Begin(a, Connecting("TOKENS", "loaded", TokensMessage,
                               IF soon /\ account.active /\ connection = "CONNECTED"
                               THEN account.reference ELSE 0))
    BY <1>5 DEF TakeTokens, Receive
  <2> QED BY <1>3, <2>1
<1>6. CASE CallDisconnect(a)
  <2>1. "DISCONNECT" \in ConnectionOps /\ "revoking" \in Places("DISCONNECT")
    BY DEF ConnectionOps, Places
  <2>2. /\ account.reference # 0
        /\ Begin(a, Connecting("DISCONNECT", "revoking", NoMessage, account.reference))
    BY <1>6 DEF CallDisconnect
  <2> QED BY <1>1, <1>2, <2>1, <2>2, BeginsGood
<1>7. CASE CallAuthorize(a)
  <2>1. "AUTHORIZE" \in ConnectionOps /\ "touch" \in Places("AUTHORIZE")
    BY DEF ConnectionOps, Places
  <2>2. Begin(a, Connecting("AUTHORIZE", "touch", NoMessage, 0))
    BY <1>7 DEF CallAuthorize
  <2> QED BY <1>1, <1>2, <2>1, <2>2, BeginsGood
<1>8. CASE CallCallback(a)
  <2>1. "CALLBACK" \in ConnectionOps /\ "touch" \in Places("CALLBACK")
    BY DEF ConnectionOps, Places
  <2>2. Begin(a, Connecting("CALLBACK", "touch", NoMessage, 0))
    BY <1>8 DEF CallCallback
  <2> QED BY <1>1, <1>2, <2>1, <2>2, BeginsGood
<1> QED BY <1>4, <1>5, <1>6, <1>7, <1>8

LEMMA RecordsGood ==
  ASSUME ConnectionsInv, ConnectionGood, Shaped, NEW a \in Actors,
         \/ NoRefresh(a) \/ ExchangeFails(a) \/ RecordRefresh(a)
         \/ RecordDisconnect(a) \/ RecordState(a) \/ RecordCallback(a)
  PROVE  ConnectionGood'
<1>1. PICK s : s = session[a]
  OBVIOUS
<1>2. ConnectionFine(s)
  BY <1>1 DEF ConnectionGood
<1>3. End(a) /\ UNCHANGED <<store, tiktok>> /\ ~Renewing(s)
  BY <1>1
  DEF NoRefresh, ExchangeFails, RecordRefresh, RecordDisconnect, RecordState, RecordCallback,
      Degrade, At, Renewing, connectionRows
<1>4. ASSUME UNCHANGED account, connection' = "CONNECTED" => account.reference # 0
      PROVE  ConnectionGood'
  BY <1>1, <1>3, <1>4, EndsGood DEF ConnectionGood
<1>5. CASE NoRefresh(a) \/ ExchangeFails(a) \/ RecordState(a)
  <2>1. UNCHANGED account /\ connection' \in {connection, "DEGRADED"}
    BY <1>5 DEF NoRefresh, ExchangeFails, RecordState, Degrade, Records, Updated, connectionRows
  <2> QED BY <1>4, <2>1 DEF ConnectionGood
<1>6. CASE RecordRefresh(a)
  <2>1. s.op = "TOKENS" /\ s.at = "recording" /\ UNCHANGED account
    BY <1>1, <1>6 DEF RecordRefresh, At
  <2>2. account.reference # 0
    BY <1>2, <2>1 DEF ConnectionFine, Connected, ConnectionOps, Locks
  <2> QED BY <1>4, <2>1, <2>2
<1>7. CASE RecordDisconnect(a)
  <2>1. account'.reference = account.reference
    BY <1>7 DEF RecordDisconnect, ConnectionsInv
  <2>2. connection' \in {connection, "DISCONNECTED"}
    BY <1>7 DEF RecordDisconnect, Records, Updated
  <2> QED BY <1>1, <1>3, <2>1, <2>2, EndsGood DEF ConnectionGood
<1>8. CASE RecordCallback(a)
  <2>1. /\ account' = [account EXCEPT !.reference = s.reference]
        /\ s.op = "CALLBACK" /\ s.at = "recording"
    BY <1>1, <1>8 DEF RecordCallback, At
  <2>2. account'.reference = s.reference
    BY <2>1 DEF ConnectionsInv
  <2>3. s.reference \in 0..MaxTokens /\ s.reference # 0
    BY <1>2, <2>1 DEF ConnectionFine, Connected, ConnectionOps
  <2> QED BY <1>1, <1>3, <2>2, <2>3, EndsGood
<1> QED BY <1>5, <1>6, <1>7, <1>8

(* Faults are counted, and what is spoilt stays so.                        *)
LEMMA ConnectionRowsKept ==
  ASSUME ConnectionsInv, NEW a \in Actors, ConnectionsHandler(a) \/ Connect(a) \/ TakeTokens(a)
  PROVE  /\ UNCHANGED faults
         /\ {"active", "reference"} \subseteq DOMAIN account'
         /\ {"issued", "spent", "spoilt"} \subseteq DOMAIN tiktok'
         /\ Undisturbed' => Undisturbed
<1>1. /\ {"active", "reference"} \subseteq DOMAIN account
      /\ {"issued", "spent", "spoilt"} \subseteq DOMAIN tiktok
  BY DEF ConnectionsInv
<1>2. UNCHANGED faults
  BY DEF ConnectionsHandler, Connect, TakeTokens, Receive, AskForTokens, CallDisconnect,
      RevokeTokens, RecordDisconnect, CallAuthorize, RecordState, CallCallback, ExchangeCode,
      VerifyConnection, RecordCallback, OpenFile, WriteFile, NoRefresh, LockAccount,
      ExchangeTokens, ExchangeFails, RecordRefresh
<1>3. {"active", "reference"} \subseteq DOMAIN account'
  <2>1. \/ UNCHANGED account
        \/ account' = [account EXCEPT !.active = FALSE]
        \/ account' = [account EXCEPT !.reference = session[a].reference]
    BY DEF ConnectionsHandler, Connect, TakeTokens, Receive, AskForTokens, CallDisconnect,
      RevokeTokens, RecordDisconnect, CallAuthorize, RecordState, CallCallback, ExchangeCode,
      VerifyConnection, RecordCallback, OpenFile, WriteFile, NoRefresh, LockAccount,
      ExchangeTokens, ExchangeFails, RecordRefresh, connectionRows
  <2> QED BY <1>1, <2>1
<1>4. CASE WriteFile(a)
  <2>1. tiktok' = [tiktok EXCEPT !.spoilt = @ \/ store # session[a].file]
    BY <1>4 DEF WriteFile
  <2>2. DOMAIN tiktok' = DOMAIN tiktok /\ (tiktok.spoilt => tiktok'.spoilt)
    BY <1>1, <2>1
  <2> QED BY <1>1, <1>2, <1>3, <2>2 DEF Undisturbed
<1>5. CASE ExchangeTokens(a) \/ ExchangeCode(a)
  <2>1. \/ UNCHANGED tiktok
        \/ tiktok' = [tiktok EXCEPT !.issued = @ + 1]
        \/ tiktok' = [tiktok EXCEPT !.issued = @ + 1, !.spent = @ \cup {session[a].token}]
        \/ tiktok' = [tiktok EXCEPT !.spent = @ \cup {session[a].token}, !.spoilt = TRUE]
    BY <1>5 DEF ExchangeTokens, ExchangeCode
  <2>2. DOMAIN tiktok' = DOMAIN tiktok /\ (tiktok.spoilt => tiktok'.spoilt)
    BY <1>1, <2>1
  <2> QED BY <1>1, <1>2, <1>3, <2>2 DEF Undisturbed
<1>6. CASE UNCHANGED tiktok
  BY <1>1, <1>2, <1>3, <1>6 DEF Undisturbed
<1> QED
  BY <1>4, <1>5, <1>6
  DEF ConnectionsHandler, Connect, TakeTokens, Receive, AskForTokens, CallDisconnect,
      RevokeTokens, RecordDisconnect, CallAuthorize, RecordState, CallCallback,
      VerifyConnection, RecordCallback, OpenFile, NoRefresh, LockAccount,
      ExchangeFails, RecordRefresh, connectionRows

LEMMA ConnectionsStep ==
  ASSUME ConnectionsInv, Shaped, NEW a \in Actors,
         ConnectionsHandler(a) \/ Connect(a) \/ TakeTokens(a)
  PROVE  ConnectionsInv'
<1>1. /\ UNCHANGED faults
      /\ {"active", "reference"} \subseteq DOMAIN account'
      /\ {"issued", "spent", "spoilt"} \subseteq DOMAIN tiktok'
      /\ Undisturbed' => Undisturbed
  BY ConnectionRowsKept
<1>2. ASSUME Undisturbed'
      PROVE  ConnectionGood'
  <2>1. ConnectionGood /\ ~tiktok'.spoilt
    BY <1>1, <1>2 DEF ConnectionsInv, Undisturbed
  <2>2. CASE Connected(session[a]) /\ (OpenFile(a) \/ WriteFile(a))
    BY <2>1, <2>2, OpenFileGood, WriteFileGood
  <2>3. CASE LockAccount(a) \/ ExchangeTokens(a) \/ ExchangeCode(a)
    BY <2>1, <2>3, LockAccountGood, ExchangeTokensGood, ExchangeCodeGood
  <2>4. CASE RevokeTokens(a) \/ VerifyConnection(a)
    BY <2>1, <2>4, RevokesGood, VerifiesGood
  <2>5. CASE \/ AskForTokens(a) \/ CallDisconnect(a) \/ CallAuthorize(a) \/ CallCallback(a)
             \/ TakeTokens(a)
    BY <2>1, <2>5, BeginningGood
  <2>6. CASE \/ NoRefresh(a) \/ ExchangeFails(a) \/ RecordRefresh(a)
             \/ RecordDisconnect(a) \/ RecordState(a) \/ RecordCallback(a)
    BY <2>1, <2>6, RecordsGood
  <2> QED
    BY <2>2, <2>3, <2>4, <2>5, <2>6 DEF ConnectionsHandler, Connect, Connected
<1> QED BY <1>1, <1>2 DEF ConnectionsInv

(* What leaves the rows and the sessions that work on a connection keeps   *)
(* the invariant, and so does a fault.                                     *)
LEMMA ConnectionsUntouched ==
  ASSUME ConnectionsInv, UNCHANGED <<account, connection, store, tiktok>>,
         \/ faults' = faults + 1
         \/ /\ faults' = faults
            /\ \A a \in Actors : Connected(session[a]) \/ Connected(session'[a])
                                    => session'[a] = session[a]
  PROVE  ConnectionsInv'
<1>1. faults \in Nat /\ faults' \in Nat
  BY DEF ConnectionsInv
<1>2. ASSUME Undisturbed'
      PROVE  ConnectionGood'
  <2>1. faults' = faults /\ ConnectionGood
    BY <1>1, <1>2 DEF Undisturbed, ConnectionsInv
  <2>2. \A a \in Actors : Connected(session[a]) \/ Connected(session'[a])
                             => session'[a] = session[a]
    BY <1>1, <2>1
  <2>3. \A a \in Actors : Connected(session'[a]) => session'[a] = session[a]
    BY <2>2
  <2>4. \A a \in Actors : Locks(session'[a]) => session'[a] = session[a] /\ Locks(session[a])
    BY <2>3 DEF Locks, Connected, ConnectionOps
  <2>5. \A a \in Actors : Holding(session'[a]) => session'[a] = session[a] /\ Holding(session[a])
    BY <2>3 DEF Holding, Exchanging, Renewing, Bringing, Connected, ConnectionOps
  <2>6. ASSUME NEW a \in Actors
        PROVE  ConnectionFine(session[a])' /\ HoldsGood(session[a])'
    <3>1. PICK t : t = session'[a]
      OBVIOUS
    <3>2. ConnectionFine(t)'
      <4>1. CASE Connected(t)
        <5>1. ConnectionFine(t)
          BY <2>1, <2>3, <3>1, <4>1 DEF ConnectionGood
        <5> QED BY <5>1 DEF ConnectionFine
      <4>2. CASE ~Connected(t)
        BY <4>2 DEF ConnectionFine
      <4> QED BY <4>1, <4>2
    <3>3. HoldsGood(t)'
      <4>1. CASE Holding(t)
        <5>1. HoldsGood(t)
          BY <2>1, <2>5, <3>1, <4>1 DEF ConnectionGood
        <5> QED BY <5>1 DEF HoldsGood
      <4>2. CASE ~Holding(t)
        BY <4>2 DEF HoldsGood
      <4> QED BY <4>1, <4>2
    <3> QED BY <3>1, <3>2, <3>3 DEF ConnectionFine, HoldsGood
  <2>7. StoreGood'
    <3>1. ASSUME NEW a \in Actors, Renewing(session[a])
          PROVE  session'[a] = session[a]
      BY <2>2, <3>1 DEF Renewing, Connected, ConnectionOps
    <3>2. ASSUME NEW r \in Tokens, store[r] \in tiktok.spent
          PROVE  \E a \in Actors : Renewing(session'[a]) /\ session'[a].reference = r
      BY <2>1, <3>1, <3>2 DEF ConnectionGood, StoreGood
    <3> QED BY <2>1, <3>2 DEF ConnectionGood, StoreGood
  <2>8. OneRefresh' /\ HeldOnce'
    BY <2>1, <2>4, <2>5 DEF ConnectionGood, OneRefresh, HeldOnce
  <2> QED BY <2>1, <2>6, <2>7, <2>8 DEF ConnectionGood
<1> QED BY <1>1, <1>2 DEF ConnectionsInv

LEMMA ConnectionsInvIsEnough ==
  ASSUME ConnectionsInv
  PROVE  TokensAreGood
<1>1. SUFFICES ASSUME Undisturbed, ConnectionGood
               PROVE  TokensAreGood
  BY DEF ConnectionsInv, Undisturbed, TokensAreGood
<1>2. ASSUME NEW a \in Actors, At(a, "TOKENS", "exchanging")
      PROVE  session[a].token \notin tiktok.spent
  BY <1>1, <1>2 DEF ConnectionGood, HoldsGood, Holding, Exchanging, At
<1>3. ASSUME connection = "CONNECTED", \A a \in Actors : session[a].op \notin ConnectionOps
      PROVE  account.reference # 0 /\ store[account.reference] \notin tiktok.spent
  <2>1. account.reference \in Tokens
    BY <1>1, <1>3, ConnectionsAssumption DEF ConnectionGood, Tokens
  <2>2. \A a \in Actors : ~Renewing(session[a])
    BY <1>3 DEF Renewing, ConnectionOps
  <2> QED BY <1>1, <1>3, <2>1, <2>2 DEF ConnectionGood, StoreGood
<1> QED BY <1>2, <1>3 DEF TokensAreGood

-----------------------------------------------------------------------------
(* The Discord community. *)

(* The thing with this id is one of the item i. *)
ThingOf(i, id) == id \in DOMAIN server /\ server[id].item = i

(* What a handler carries, from where it found it to its commit.           *)
PlacingFine(s) ==
    /\ s.item \in Layout
    /\ s.found # 0 => ThingOf(s.item, s.found)
    /\ \A i \in Layout : i < s.item => ThingOf(i, s.ids[i])
BotFine(s) == s.op \in BotOps =>
    /\ "more" \in DOMAIN s
    /\ s.op = "SETUP" /\ s.at \in {"placing", "placed"} =>
          /\ {"item", "found", "ids", "absent", "panels"} \subseteq DOMAIN s.more
          /\ s.more.ids \in [Layout -> Nat]
    /\ s.op = "SETUP" /\ s.at = "placing" => PlacingFine(s.more)
    /\ s.op = "SETUP" /\ s.at = "placed" => \A i \in Layout : ThingOf(i, s.more.ids[i])
    /\ s.op = "PANELS" /\ s.at = "posting" => s.more \in Nat /\ s.more <= panel.sent
    /\ s.op = "PANELS" /\ s.at = "posted" => s.more.id \in Nat /\ s.more.id <= panel.sent
    /\ s.op = "TICKET" /\ s.at \in {"opening", "opened"} => guild.row
    /\ s.op = "ANNOUNCE" /\ s.at = "sent" => notice.sent > 0

(* The rows of setup, and those of panels, announcements and tickets.      *)
SetupGood ==
    /\ server \in Seq(ServerThings)
    /\ {"row", "state"} \subseteq DOMAIN guild
    /\ registry \in [Layout -> Nat]
    /\ \/ \A i \in Layout : registry[i] = 0
       \/ guild.row /\ \A i \in Layout : ThingOf(i, registry[i])
SentGood ==
    /\ {"sent", "saved"} \subseteq DOMAIN panel
    /\ panel.sent \in Nat /\ panel.saved \in Nat /\ panel.saved <= panel.sent
    /\ {"status", "sent"} \subseteq DOMAIN notice
    /\ notice.sent \in Nat
    /\ notice.status = "PUBLISHED" => notice.sent > 0

(* Tickets have the first numbers, and each its channel; a channel without *)
(* a ticket has a handler that will enter it, or that was interrupted.     *)
Unfiled == {o \in Operators : At(o, "TICKET", "opened")}
TicketsGood ==
    /\ {"rows", "channels"} \subseteq DOMAIN ticket
    /\ ticket.rows \in [Tickets -> TicketStatuses \cup {"ABSENT"}]
    /\ ticket.channels \in 0..MaxTickets
    /\ Filed = 1..Cardinality(Filed)
    /\ faults \in Nat
    /\ IsFiniteSet(Unfiled)
    /\ Cardinality(Filed) + Cardinality(Unfiled) <= ticket.channels
    /\ ticket.channels <= Cardinality(Filed) + Cardinality(Unfiled) + faults

(* The inductive invariant.  While the loop is hung no ticket is under way,*)
(* as those need a server that is set up.                                  *)
CommunityInv ==
    /\ SetupGood /\ SentGood /\ TicketsGood
    /\ Hung => ~guild.row
    /\ \A a \in Actors : BotFine(session[a])

(* What rows and things may do under a session that goes on.               *)
ServerKept == \A id \in DOMAIN server : id \in DOMAIN server' /\ server'[id].item = server[id].item
Lasting ==
    /\ ServerKept
    /\ guild.row => guild.row'
    /\ panel.sent \in Nat /\ panel'.sent \in Nat /\ panel.sent <= panel'.sent
    /\ notice.sent \in Nat /\ notice'.sent \in Nat /\ notice.sent <= notice'.sent

LEMMA CommunityInitially ==
  ASSUME CommunityInit, faults = 0, \A a \in Actors : session[a] = Idle
  PROVE  CommunityInv
<1>1. \A a \in Actors : session[a].op = "IDLE"
  BY DEF Idle
<1>2. \A a \in Actors : a \in Operators \cup Workers
  BY DEF Actors
<1>3. Unfiled = {} /\ ~Hung /\ \A a \in Actors : BotFine(session[a])
  <2>1. \A o \in Operators : session[o].op = "IDLE"
    BY <1>1 DEF Actors
  <2> QED BY <1>1, <2>1 DEF Unfiled, At, Hung, BotFine, BotOps
<1>4. SetupGood
  BY DEF CommunityInit, SetupGood
<1>5. SentGood
  BY DEF CommunityInit, SentGood
<1>6. Filed = {} /\ MaxTickets \in Nat
  BY CommunityAssumption DEF CommunityInit, Filed
<1>7. IsFiniteSet({}) /\ Cardinality({}) = 0
  BY FS_EmptySet
<1>8. ticket.rows \in [Tickets -> TicketStatuses \cup {"ABSENT"}] /\ ticket.channels = 0
      /\ {"rows", "channels"} \subseteq DOMAIN ticket
  BY DEF CommunityInit
<1>9. TicketsGood
  BY <1>3, <1>6, <1>7, <1>8 DEF TicketsGood
<1> QED BY <1>3, <1>4, <1>5, <1>9 DEF CommunityInv

LEMMA BotStaysFine ==
  ASSUME NEW a \in Actors, BotFine(session[a]), session'[a] = session[a], Lasting
  PROVE  BotFine(session[a])'
<1>1. PICK s : s = session[a]
  OBVIOUS
<1>2. BotFine(s) /\ session'[a] = s
  BY <1>1
<1>3. \A i, id : ThingOf(i, id) => ThingOf(i, id)'
  BY DEF Lasting, ServerKept, ThingOf
<1>4. s.op = "SETUP" /\ s.at = "placing" => PlacingFine(s.more)'
  <2>1. PICK m : m = s.more
    OBVIOUS
  <2>2. PlacingFine(m) => PlacingFine(m)'
    BY <1>3 DEF PlacingFine
  <2>3. s.op = "SETUP" /\ s.at = "placing" => PlacingFine(m)
    BY <1>2, <2>1 DEF BotFine, BotOps
  <2> QED BY <2>1, <2>2, <2>3
<1>5. BotFine(s)'
  BY <1>2, <1>3, <1>4 DEF BotFine, Lasting
<1> QED BY <1>2, <1>5

(* One handler's step: what it leaves, and what it owes.                   *)
LEMMA BotStep ==
  ASSUME CommunityInv, NEW a \in Operators, OthersStay(a), ~Hung,
         Lasting, SetupGood', SentGood', TicketsGood', BotFine(session[a])',
         session'[a].op \in BotOps /\ session'[a].at = "waiting" => ~guild'.row
  PROVE  CommunityInv'
<1>1. a \in Actors /\ \A o \in Operators : o \in Actors
  BY DEF Actors
<1>2. ASSUME NEW b \in Actors PROVE BotFine(session[b])'
  <2>1. CASE b = a
    BY <2>1
  <2>2. CASE b # a
    BY <2>2, BotStaysFine DEF OthersStay, CommunityInv
  <2> QED BY <2>1, <2>2
<1>3. Hung' => ~guild'.row
  BY <1>1 DEF Hung, OthersStay
<1> QED BY <1>2, <1>3 DEF CommunityInv

(* Nothing but the session of a handler that has no channel to answer for. *)
LEMMA UnfiledKept ==
  ASSUME NEW a \in Operators, OthersStay(a), Shaped,
         ~At(a, "TICKET", "opened"), ~At(a, "TICKET", "opened")'
  PROVE  Unfiled' = Unfiled
<1>1. a \in Actors /\ \A o \in Operators : o \in Actors
  BY DEF Actors
<1>2. \A o \in Operators : At(o, "TICKET", "opened")' <=> At(o, "TICKET", "opened")
  BY <1>1 DEF At, OthersStay
<1> QED BY <1>2 DEF Unfiled

LEMMA TicketsKept ==
  ASSUME TicketsGood, Unfiled' = Unfiled, UNCHANGED <<ticket, faults>>
  PROVE  TicketsGood'
  BY DEF TicketsGood, Filed

(* A handler that enters waits, or starts with what it needs. *)
Entered(s, inserts) ==
    [op |-> s.op, at |-> s.at, message |-> NoMessage, inserts |-> inserts, more |-> s.more]

LEMMA NothingMoves ==
  ASSUME CommunityInv, UNCHANGED communityRows
  PROVE  Lasting /\ SetupGood' /\ SentGood'
<1>1. UNCHANGED <<server, guild, registry, panel, notice>>
  BY DEF communityRows
<1> QED BY <1>1 DEF CommunityInv, Lasting, ServerKept, SetupGood, SentGood, ThingOf

LEMMA EnterGood ==
  ASSUME CommunityInv, Shaped, NEW a \in Operators, Called(a), NEW s, s.op \in BotOps,
         Enter(a, s), UNCHANGED <<communityRows, faults>>,
         s.at \notin {"waiting", "opened"}, ~Inserting => \A i : BotFine(Entered(s, i))
  PROVE  CommunityInv'
<1>1. a \in Actors /\ ~Hung /\ session[a].op = "IDLE"
  BY DEF Actors, Called, Free, Idle
<1>2. Lasting /\ SetupGood' /\ SentGood'
  BY NothingMoves
<1>3. PICK t : /\ t = [Entered(s, ~guild.row /\ ~Inserting) EXCEPT
                         !.at = IF Inserting THEN "waiting" ELSE s.at]
               /\ Begin(a, t)
  <2>1. PICK t : t = [op |-> s.op, at |-> IF Inserting THEN "waiting" ELSE s.at,
                      message |-> NoMessage, inserts |-> ~guild.row /\ ~Inserting,
                      more |-> s.more]
    OBVIOUS
  <2>2. t = [Entered(s, ~guild.row /\ ~Inserting) EXCEPT
               !.at = IF Inserting THEN "waiting" ELSE s.at]
    BY <2>1 DEF Entered
  <2> QED BY <2>1, <2>2 DEF Enter
<1>4. session'[a] = t /\ OthersStay(a)
  BY <1>1, <1>3, BeginEffect
<1>5. t.op = s.op /\ t.at = (IF Inserting THEN "waiting" ELSE s.at) /\ "more" \in DOMAIN t
  BY <1>3 DEF Entered
<1>6. TicketsGood'
  <2>1. ~At(a, "TICKET", "opened") /\ ~At(a, "TICKET", "opened")'
    BY <1>1, <1>4, <1>5 DEF At
  <2> QED BY <1>4, <2>1, UnfiledKept, TicketsKept DEF CommunityInv, communityRows
<1>7. BotFine(t)
  <2>1. CASE Inserting
    BY <1>5, <2>1 DEF BotFine
  <2>2. CASE ~Inserting
    <3>1. t = Entered(s, ~guild.row /\ ~Inserting)
      BY <1>3, <2>2 DEF Entered
    <3>2. PICK i : i = (~guild.row /\ ~Inserting)
      OBVIOUS
    <3>3. BotFine(Entered(s, i))
      BY <2>2
    <3> QED BY <3>1, <3>2, <3>3
  <2> QED BY <2>1, <2>2
<1>8. BotFine(session[a])'
  <2>1. UNCHANGED <<server, guild, registry, panel, notice>>
    BY DEF communityRows
  <2>2. BotFine(t)'
    BY <1>7, <2>1 DEF BotFine, PlacingFine, ThingOf
  <2> QED BY <1>4, <2>2
<1>9. session'[a].op \in BotOps /\ session'[a].at = "waiting" => ~guild'.row
  BY <1>4, <1>5 DEF Inserting, communityRows
<1> QED BY <1>1, <1>2, <1>4, <1>6, <1>8, <1>9, BotStep

(* What is there of an item is a thing of the item. *)
LEMMA FoundIsOfItem ==
  ASSUME SetupGood, NEW i \in Layout, Found(i) # 0
  PROVE  ThingOf(i, Found(i))
<1>1. CASE Alive(registry[i]) /\ server[registry[i]].fits
  BY <1>1 DEF Found, Alive, SetupGood
<1>2. CASE ~Alive(registry[i]) /\ Named(i) # {}
  <2>1. Found(i) \in Named(i)
    BY <1>2 DEF Found
  <2> QED BY <2>1 DEF Named, ThingOf
<1>3. CASE /\ ~(Alive(registry[i]) /\ server[registry[i]].fits)
           /\ ~(~Alive(registry[i]) /\ Named(i) # {})
  BY <1>3 DEF Found
<1> QED BY <1>1, <1>2, <1>3

LEMMA LayoutIsInterval ==
  /\ Cardinality(Layout) \in Nat /\ Layout = 1..Cardinality(Layout)
  /\ 1 \in Layout
<1>1. Cardinality(Layout) \in Nat
  BY CommunityAssumption, FS_CardinalityType
<1>2. Layout = 1..Cardinality(Layout) /\ MemberRole \in Layout
  BY CommunityAssumption
<1> QED BY <1>1, <1>2

LEMMA CallsGood ==
  ASSUME CommunityInv, Shaped, NEW a \in Operators,
         \/ CallSetup(a) \/ CallReset(a) \/ CallPanels(a) \/ CallAccept(a) \/ CallRoles(a)
         \/ CallTicket(a) \/ CallPublish(a)
  PROVE  CommunityInv'
<1> DEFINE Starts(op, at, more) == [op |-> op, at |-> at, more |-> more]
<1>1. ASSUME NEW op, NEW at, NEW more, op \in BotOps, Enter(a, Starts(op, at, more)), Called(a),
             UNCHANGED <<communityRows, faults>>, at \notin {"waiting", "opened"},
             ~Inserting => \A i : BotFine([op |-> op, at |-> at, message |-> NoMessage,
                                           inserts |-> i, more |-> more])
      PROVE  CommunityInv'
  BY <1>1, EnterGood DEF Entered
<1> HIDE DEF Starts
<1>2. CASE CallSetup(a)
  <2>1. PICK panels \in BOOLEAN :
           Enter(a, [op |-> "SETUP", at |-> "placing",
                     more |-> Placing(1, [i \in Layout |-> 0], {}, panels)])
    BY <1>2 DEF CallSetup
  <2>2. PICK more : more = Placing(1, [i \in Layout |-> 0], {}, panels)
    OBVIOUS
  <2>3. {"item", "found", "ids", "absent", "panels"} \subseteq DOMAIN more
        /\ more.ids \in [Layout -> Nat] /\ more.item = 1 /\ more.found = Found(1)
    BY <2>2 DEF Placing
  <2>4. 1 \in Layout /\ \A i \in Layout : ~(i < 1)
    BY LayoutIsInterval
  <2>5. PlacingFine(more)
    BY <2>3, <2>4, FoundIsOfItem DEF PlacingFine, CommunityInv
  <2>6. \A i : BotFine([op |-> "SETUP", at |-> "placing", message |-> NoMessage,
                        inserts |-> i, more |-> more])
    BY <2>3, <2>5 DEF BotFine
  <2>7. Enter(a, Starts("SETUP", "placing", more)) /\ Called(a)
        /\ UNCHANGED <<communityRows, faults>>
    BY <1>2, <2>1, <2>2 DEF CallSetup, Starts
  <2> QED BY <1>1, <2>6, <2>7 DEF BotOps
<1>3. CASE CallReset(a)
  <2>1. \A i : BotFine([op |-> "RESET", at |-> "obsolete", message |-> NoMessage,
                        inserts |-> i, more |-> 0])
    BY DEF BotFine
  <2>2. Enter(a, Starts("RESET", "obsolete", 0)) /\ Called(a) /\ UNCHANGED <<communityRows, faults>>
    BY <1>3 DEF CallReset, Starts
  <2> QED BY <1>1, <2>1, <2>2 DEF BotOps
<1>4. CASE CallPanels(a)
  <2>1. panel.saved \in Nat /\ panel.saved <= panel.sent
    BY DEF CommunityInv, SentGood
  <2>2. \A i : BotFine([op |-> "PANELS", at |-> "posting", message |-> NoMessage,
                        inserts |-> i, more |-> panel.saved])
    BY <2>1 DEF BotFine
  <2>3. Enter(a, Starts("PANELS", "posting", panel.saved)) /\ Called(a)
        /\ UNCHANGED <<communityRows, faults>>
    BY <1>4 DEF CallPanels, Starts
  <2> QED BY <1>1, <2>2, <2>3 DEF BotOps
<1>5. CASE CallAccept(a)
  <2>1. \A i : BotFine([op |-> "RULES", at |-> "giving", message |-> NoMessage,
                        inserts |-> i, more |-> member.accepted])
    BY DEF BotFine
  <2>2. Enter(a, Starts("RULES", "giving", member.accepted)) /\ Called(a)
        /\ UNCHANGED <<communityRows, faults>>
    BY <1>5 DEF CallAccept, Starts
  <2> QED BY <1>1, <2>1, <2>2 DEF BotOps
<1>6. CASE CallRoles(a)
  <2>1. PICK more : Enter(a, [op |-> "ROLES", at |-> "changing", more |-> more])
    BY <1>6 DEF CallRoles
  <2>2. \A i : BotFine([op |-> "ROLES", at |-> "changing", message |-> NoMessage,
                        inserts |-> i, more |-> more])
    BY DEF BotFine
  <2>3. Enter(a, Starts("ROLES", "changing", more)) /\ Called(a)
        /\ UNCHANGED <<communityRows, faults>>
    BY <1>6, <2>1 DEF CallRoles, Starts
  <2> QED BY <1>1, <2>2, <2>3 DEF BotOps
<1>7. CASE CallTicket(a)
  <2>1. ~Inserting => guild.row
    <3>1. ~Inserting => registry[Desk] # 0
      BY <1>7 DEF CallTicket, Alive
    <3>2. Desk \in Layout
      BY CommunityAssumption
    <3> QED BY <3>1, <3>2 DEF CommunityInv, SetupGood
  <2>2. PICK more : more = Cardinality(Filed) + 1
    OBVIOUS
  <2>3. ~Inserting => \A i : BotFine([op |-> "TICKET", at |-> "opening", message |-> NoMessage,
                                      inserts |-> i, more |-> more])
    BY <2>1 DEF BotFine
  <2>4. Enter(a, Starts("TICKET", "opening", more)) /\ Called(a)
        /\ UNCHANGED <<communityRows, faults>>
    BY <1>7, <2>2 DEF CallTicket, Starts
  <2> QED BY <1>1, <2>3, <2>4 DEF BotOps
<1>8. CASE CallPublish(a)
  <2>1. \A i : BotFine([op |-> "ANNOUNCE", at |-> "sending", message |-> NoMessage,
                        inserts |-> i, more |-> 0])
    BY DEF BotFine
  <2>2. Enter(a, Starts("ANNOUNCE", "sending", 0)) /\ Called(a)
        /\ UNCHANGED <<communityRows, faults>>
    BY <1>8 DEF CallPublish, Starts
  <2> QED BY <1>1, <2>1, <2>2 DEF BotOps
<1> QED BY <1>2, <1>3, <1>4, <1>5, <1>6, <1>7, <1>8

(* A step that goes on, or ends, without a ticket's channel. *)
LEMMA TicketsUnderStep ==
  ASSUME CommunityInv, Shaped, NEW a \in Operators, OthersStay(a), UNCHANGED <<ticket, faults>>,
         ~At(a, "TICKET", "opened"), ~At(a, "TICKET", "opened")'
  PROVE  TicketsGood'
  BY UnfiledKept, TicketsKept DEF CommunityInv

LEMMA EndIsFine ==
  ASSUME Shaped, NEW a \in Operators, End(a)
  PROVE  /\ OthersStay(a) /\ BotFine(session[a])' /\ ~At(a, "TICKET", "opened")'
         /\ ~(session'[a].op \in BotOps)
<1>1. session'[a].op = "IDLE" /\ OthersStay(a)
  BY EndEffect DEF Actors
<1> QED BY <1>1 DEF BotFine, BotOps, At

LEMMA PlaceItemGood ==
  ASSUME CommunityInv, Shaped, NEW a \in Operators, PlaceItem(a)
  PROVE  CommunityInv'
<1>1. PICK s : s = session[a].more
  OBVIOUS
<1>2. PICK id : id = IF s.found # 0 THEN s.found ELSE Len(server) + 1
  OBVIOUS
<1>3. PICK ids : ids = [s.ids EXCEPT ![s.item] = id]
  OBVIOUS
<1>4. PICK absent : absent = s.absent \cup {i \in {s.item} : registry[i] = 0}
  OBVIOUS
<1>5. /\ a \in Actors /\ ~Hung /\ At(a, "SETUP", "placing")
      /\ BotFine(session[a]) /\ {"op", "at"} \subseteq DOMAIN session[a] /\ DOMAIN session = Actors
  BY DEF PlaceItem, Resumes, Actors, CommunityInv, Shaped
<1>6. /\ server' = IF s.found # 0 THEN server
                   ELSE Append(server, [item |-> s.item, fits |-> TRUE, alive |-> TRUE])
      /\ UNCHANGED <<registry, guild, panel, ticket, notice, faults>>
  BY <1>1 DEF PlaceItem, NoItemYet
<1>7. IF s.item < Cardinality(Layout)
      THEN session' = [session EXCEPT ![a].more = Placing(s.item + 1, ids, absent, s.panels)]
      ELSE session' = [session EXCEPT ![a].at = "placed", ![a].more.ids = ids,
                                      ![a].more.absent = absent]
  BY <1>1, <1>2, <1>3, <1>4 DEF PlaceItem
<1>8. /\ session[a].op = "SETUP" /\ session[a].at = "placing" /\ "more" \in DOMAIN session[a]
      /\ {"item", "found", "ids", "absent", "panels"} \subseteq DOMAIN s
      /\ s.ids \in [Layout -> Nat] /\ PlacingFine(s)
  BY <1>1, <1>5 DEF At, BotFine, BotOps
<1>9. s.item \in Layout /\ (s.found # 0 => ThingOf(s.item, s.found))
      /\ \A i \in Layout : i < s.item => ThingOf(i, s.ids[i])
  BY <1>8 DEF PlacingFine
<1>10. server \in Seq(ServerThings)
  BY DEF CommunityInv, SetupGood
<1>11. server' \in Seq(ServerThings) /\ ServerKept /\ id \in Nat /\ ThingOf(s.item, id)'
  <2>1. CASE s.found # 0
    <3>1. server' = server /\ id = s.found /\ ThingOf(s.item, id)
      BY <1>2, <1>6, <1>9, <2>1
    <3>2. id \in Nat
      BY <1>10, <3>1 DEF ThingOf
    <3> QED BY <1>10, <3>1, <3>2 DEF ServerKept, ThingOf
  <2>2. CASE s.found = 0
    <3>1. PICK thing : thing = [item |-> s.item, fits |-> TRUE, alive |-> TRUE]
      OBVIOUS
    <3>2. thing \in ServerThings /\ thing.item = s.item
      BY <1>9, <3>1 DEF ServerThings
    <3>3. server' = Append(server, thing) /\ id = Len(server) + 1
      BY <1>2, <1>6, <2>2, <3>1
    <3>4. server' \in Seq(ServerThings) /\ Len(server) \in Nat
      BY <1>10, <3>2, <3>3
    <3>5. ServerKept /\ id \in DOMAIN server' /\ server'[id] = thing
      BY <1>10, <3>2, <3>3 DEF ServerKept
    <3> QED BY <3>2, <3>3, <3>4, <3>5 DEF ThingOf
  <2> QED BY <2>1, <2>2
<1>12. \A i, r : ThingOf(i, r) => ThingOf(i, r)'
  BY <1>11 DEF ServerKept, ThingOf
<1>13. ids \in [Layout -> Nat] /\ \A i \in Layout : i < s.item \/ i = s.item => ThingOf(i, ids[i])'
  <2>1. ids \in [Layout -> Nat] /\ ids[s.item] = id
    BY <1>3, <1>8, <1>9, <1>11
  <2>2. ASSUME NEW i \in Layout, i < s.item PROVE ThingOf(i, ids[i])'
    <3>1. i # s.item
      BY <1>9, <2>2, LayoutIsInterval
    <3>2. ids[i] = s.ids[i] /\ ThingOf(i, s.ids[i])
      BY <1>3, <1>8, <1>9, <2>2, <3>1
    <3>3. PICK r : r = s.ids[i]
      OBVIOUS
    <3>4. ThingOf(i, r)'
      BY <1>12, <3>2, <3>3
    <3> QED BY <3>2, <3>3, <3>4
  <2> QED BY <1>11, <2>1, <2>2
<1>14. SetupGood' /\ SentGood'
  <2>1. SetupGood'
    BY <1>6, <1>11, <1>12 DEF CommunityInv, SetupGood
  <2> QED BY <1>6, <2>1 DEF CommunityInv, SentGood
<1>15. Lasting
  BY <1>6, <1>11 DEF CommunityInv, SentGood, Lasting
<1>16. session'[a].op = "SETUP" /\ session'[a].at \in {"placing", "placed"} /\ OthersStay(a)
  <2>1. CASE s.item < Cardinality(Layout)
    BY <1>5, <1>7, <1>8, <2>1 DEF OthersStay
  <2>2. CASE ~(s.item < Cardinality(Layout))
    BY <1>5, <1>7, <1>8, <2>2 DEF OthersStay
  <2> QED BY <2>1, <2>2
<1>17. TicketsGood'
  BY <1>6, <1>8, <1>16, TicketsUnderStep DEF At
<1>18. BotFine(session[a])'
  <2>1. CASE s.item < Cardinality(Layout)
    <3>1. s.item + 1 \in Layout /\ s.item \in Nat
          /\ \A i \in Layout : i < s.item + 1 => i < s.item \/ i = s.item
      BY <1>9, <2>1, LayoutIsInterval
    <3>2. PICK next : next = Placing(s.item + 1, ids, absent, s.panels)
      OBVIOUS
    <3>3. /\ {"item", "found", "ids", "absent", "panels"} \subseteq DOMAIN next
          /\ next.item = s.item + 1 /\ next.ids = ids /\ next.found = Found(s.item + 1)
      BY <3>2 DEF Placing
    <3>4. next.found # 0 => ThingOf(next.item, next.found)'
      <4>1. PICK i \in Layout : i = s.item + 1
        BY <3>1
      <4>2. PICK r : r = Found(i)
        OBVIOUS
      <4>3. r # 0 => ThingOf(i, r)'
        BY <1>12, <4>2, FoundIsOfItem DEF CommunityInv
      <4> QED BY <3>3, <4>1, <4>2, <4>3
    <3>5. PlacingFine(next)'
      BY <1>13, <3>1, <3>3, <3>4 DEF PlacingFine
    <3>6. session'[a] = [session[a] EXCEPT !.more = next]
      BY <1>5, <1>7, <2>1, <3>2
    <3>7. /\ session'[a].op = "SETUP" /\ session'[a].at = "placing"
          /\ "more" \in DOMAIN session'[a] /\ session'[a].more = next
      BY <1>8, <3>6
    <3> QED BY <1>13, <3>3, <3>5, <3>7 DEF BotFine
  <2>2. CASE ~(s.item < Cardinality(Layout))
    <3>1. \A i \in Layout : i < s.item \/ i = s.item
      BY <1>9, <2>2, LayoutIsInterval
    <3>2. /\ session'[a].op = "SETUP" /\ session'[a].at = "placed"
          /\ "more" \in DOMAIN session'[a]
          /\ session'[a].more = [s EXCEPT !.ids = ids, !.absent = absent]
      <4>1. PICK one : one = [session EXCEPT ![a].at = "placed"]
        OBVIOUS
      <4>2. PICK two : two = [one EXCEPT ![a].more.ids = ids]
        OBVIOUS
      <4>3. session' = [two EXCEPT ![a].more.absent = absent]
        BY <1>7, <2>2, <4>1, <4>2
      <4>4. /\ one[a].op = "SETUP" /\ one[a].at = "placed" /\ "more" \in DOMAIN one[a]
            /\ one[a].more = s /\ DOMAIN one = Actors
        BY <1>1, <1>5, <1>8, <4>1
      <4>5. /\ two[a].op = "SETUP" /\ two[a].at = "placed" /\ "more" \in DOMAIN two[a]
            /\ two[a].more = [s EXCEPT !.ids = ids] /\ DOMAIN two = Actors
        BY <1>5, <4>2, <4>4
      <4>6. session'[a] = [two[a] EXCEPT !.more = [two[a].more EXCEPT !.absent = absent]]
        BY <1>5, <4>3, <4>5
      <4> QED BY <4>5, <4>6
    <3>3. PICK more : more = [s EXCEPT !.ids = ids, !.absent = absent]
      OBVIOUS
    <3>4. DOMAIN more = DOMAIN s /\ more.ids = ids
      BY <1>8, <3>3
    <3>5. \A i \in Layout : ThingOf(i, more.ids[i])'
      BY <1>13, <3>1, <3>4
    <3> QED BY <1>8, <1>13, <3>2, <3>3, <3>4, <3>5 DEF BotFine
  <2> QED BY <2>1, <2>2
<1> QED BY <1>5, <1>14, <1>15, <1>16, <1>17, <1>18, BotStep

LEMMA CommitSetupGood ==
  ASSUME CommunityInv, Shaped, NEW a \in Operators, CommitSetup(a)
  PROVE  CommunityInv'
<1>1. PICK s : s = session[a].more
  OBVIOUS
<1>2. a \in Actors /\ ~Hung /\ session[a].op = "SETUP" /\ session[a].at = "placed"
      /\ BotFine(session[a])
  BY DEF CommitSetup, Resumes, At, Actors, CommunityInv
<1>3. s.ids \in [Layout -> Nat] /\ \A i \in Layout : ThingOf(i, s.ids[i])
  BY <1>1, <1>2 DEF BotFine, BotOps
<1>4. UNCHANGED <<server, panel, notice, ticket, faults>>
  BY DEF CommitSetup
<1>5. \/ UNCHANGED <<registry, guild>>
      \/ registry' = s.ids /\ guild' = [row |-> TRUE, state |-> "APPLIED"]
  BY <1>1 DEF CommitSetup
<1>6. \/ End(a)
      \/ Begin(a, [op |-> "PANELS", at |-> "posting", message |-> NoMessage,
                   inserts |-> FALSE, more |-> panel.saved])
  BY <1>1 DEF CommitSetup, EndInException
<1>7. \A i, r : ThingOf(i, r) => ThingOf(i, r)'
  BY <1>4 DEF ThingOf
<1>8. SetupGood'
  <2>1. CASE UNCHANGED <<registry, guild>>
    BY <1>4, <1>7, <2>1 DEF CommunityInv, SetupGood
  <2>2. CASE registry' = s.ids /\ guild' = [row |-> TRUE, state |-> "APPLIED"]
    <3>1. \A i \in Layout : ThingOf(i, registry[i])'
      BY <1>3, <1>7, <2>2
    <3> QED BY <1>3, <1>4, <2>2, <3>1 DEF CommunityInv, SetupGood
  <2> QED BY <1>5, <2>1, <2>2
<1>9. SentGood' /\ Lasting
  BY <1>4, <1>5 DEF CommunityInv, SentGood, Lasting, ServerKept
<1>10. CASE End(a)
  <2>1. TicketsGood'
    BY <1>2, <1>4, <1>10, EndIsFine, TicketsUnderStep DEF At
  <2> QED BY <1>2, <1>8, <1>9, <1>10, <2>1, EndIsFine, BotStep
<1>11. CASE Begin(a, [op |-> "PANELS", at |-> "posting", message |-> NoMessage,
                      inserts |-> FALSE, more |-> panel.saved])
  <2>1. PICK t : t = [op |-> "PANELS", at |-> "posting", message |-> NoMessage,
                      inserts |-> FALSE, more |-> panel.saved]
    OBVIOUS
  <2>2. session'[a] = t /\ OthersStay(a)
    BY <1>2, <1>11, <2>1, BeginEffect
  <2>3. panel'.sent = panel.sent /\ panel.saved \in Nat /\ panel.saved <= panel.sent
    BY <1>4 DEF CommunityInv, SentGood
  <2>4. BotFine(session[a])'
    BY <2>1, <2>2, <2>3 DEF BotFine
  <2>5. TicketsGood'
    BY <1>2, <1>4, <2>1, <2>2, TicketsUnderStep DEF At
  <2> QED BY <1>2, <1>8, <1>9, <2>1, <2>2, <2>4, <2>5, BotStep
<1> QED BY <1>6, <1>10, <1>11

(* A handler ends, goes on, or did all at once, and no ticket is opened or *)
(* entered.                                                                *)
LEMMA HandlerEnds ==
  ASSUME CommunityInv, Shaped, NEW a \in Operators, ~Hung, ~At(a, "TICKET", "opened"), End(a),
         Lasting, SetupGood', SentGood', UNCHANGED <<ticket, faults>>
  PROVE  CommunityInv'
<1>1. TicketsGood'
  BY EndIsFine, TicketsUnderStep
<1> QED BY <1>1, EndIsFine, BotStep

LEMMA HandlerGoesOn ==
  ASSUME CommunityInv, Shaped, NEW a \in Operators, ~Hung, NEW op, NEW place, NEW next,
         At(a, op, place), Goto(a, next), op \in BotOps, place # "opened",
         next \notin {"opened", "waiting"},
         NEW t, t = [session[a] EXCEPT !.at = next], BotFine(t)',
         Lasting, SetupGood', SentGood', UNCHANGED <<ticket, faults>>
  PROVE  CommunityInv'
<1>1. a \in Actors
  BY DEF Actors
<1>2. session'[a] = [session[a] EXCEPT !.at = next] /\ OthersStay(a)
  BY <1>1, GotoEffect
<1>3. session'[a].at = next
  BY <1>1, <1>2 DEF Shaped
<1>4. TicketsGood'
  BY <1>2, <1>3, TicketsUnderStep DEF At
<1> QED BY <1>2, <1>3, <1>4, BotStep

LEMMA HandlerStays ==
  ASSUME CommunityInv, Shaped, NEW a \in Operators, ~Hung, UNCHANGED session,
         Lasting, SetupGood', SentGood', TicketsGood'
  PROVE  CommunityInv'
<1>1. a \in Actors /\ \A o \in Operators : o \in Actors
  BY DEF Actors
<1>2. ASSUME NEW b \in Actors PROVE BotFine(session[b])'
  BY <1>2, BotStaysFine DEF CommunityInv
<1>3. ~Hung'
  BY DEF Hung
<1> QED BY <1>2, <1>3 DEF CommunityInv

(* The row of the server is written, once it is there it stays. *)
LEMMA GuildWritten ==
  ASSUME CommunityInv, UNCHANGED <<server, registry, panel, notice>>,
         {"row", "state"} \subseteq DOMAIN guild', guild.row => guild'.row
  PROVE  Lasting /\ SetupGood' /\ SentGood'
<1>1. \A i, r : ThingOf(i, r) => ThingOf(i, r)'
  BY DEF ThingOf
<1> QED BY <1>1 DEF CommunityInv, Lasting, ServerKept, SetupGood, SentGood

LEMMA ResetsGood ==
  ASSUME CommunityInv, Shaped, NEW a \in Operators,
         ResetPreview(a) \/ DeleteObsolete(a) \/ DeleteReplaced(a) \/ CommitReset(a)
  PROVE  CommunityInv'
<1>1. CASE ResetPreview(a)
  <2>1. guild' = [guild EXCEPT !.state = "PREVIEW"] /\ {"row", "state"} \subseteq DOMAIN guild
    BY <1>1 DEF ResetPreview, CommunityInv, SetupGood
  <2>2. {"row", "state"} \subseteq DOMAIN guild' /\ guild'.row = guild.row
    BY <2>1
  <2>3. Lasting /\ SetupGood' /\ SentGood'
    BY <1>1, <2>2, GuildWritten DEF ResetPreview
  <2>4. TicketsGood'
    BY <1>1 DEF ResetPreview, CommunityInv, TicketsGood, Filed, Unfiled, At
  <2> QED BY <1>1, <2>3, <2>4, HandlerStays DEF ResetPreview, Called
<1>2. CASE DeleteObsolete(a)
  <2>1. UNCHANGED <<server, guild, registry, panel, notice, ticket, faults>>
    BY <1>2 DEF DeleteObsolete
  <2>2. Lasting /\ SetupGood' /\ SentGood'
    BY <2>1, GuildWritten DEF CommunityInv, SetupGood
  <2>3. ~Hung /\ At(a, "RESET", "obsolete") /\ Goto(a, "replaced") /\ session[a].op = "RESET"
    BY <1>2 DEF DeleteObsolete, Resumes, At
  <2>4. PICK t : t = [session[a] EXCEPT !.at = "replaced"]
    OBVIOUS
  <2>5. BotFine(t)'
    <3>1. t.op = "RESET" /\ "more" \in DOMAIN t
      BY <2>3, <2>4 DEF BotFine, BotOps, CommunityInv, Actors
    <3> QED BY <3>1 DEF BotFine
  <2> QED BY <2>1, <2>2, <2>3, <2>4, <2>5, HandlerGoesOn DEF BotOps
<1>3. CASE DeleteReplaced(a)
  <2>1. UNCHANGED <<guild, registry, panel, notice, ticket, faults>>
    BY <1>3 DEF DeleteReplaced
  <2>2. server \in Seq(ServerThings)
    BY DEF CommunityInv, SetupGood
  <2>3. server' = [id \in DOMAIN server |-> [server[id] EXCEPT !.alive = @ /\ ~Replaced(id)]]
    BY <1>3 DEF DeleteReplaced
  <2>4. ASSUME NEW id \in DOMAIN server
        PROVE  server'[id] \in ServerThings /\ server'[id].item = server[id].item
    <3>1. server[id] \in ServerThings
      BY <2>2
    <3>2. server'[id] = [server[id] EXCEPT !.alive = @ /\ ~Replaced(id)]
      BY <2>3
    <3>3. PICK still \in BOOLEAN : server'[id] = [server[id] EXCEPT !.alive = still]
      <4>1. (server[id].alive /\ ~Replaced(id)) \in BOOLEAN
        OBVIOUS
      <4> QED BY <3>2, <4>1
    <3> QED BY <3>1, <3>3 DEF ServerThings
  <2>5. DOMAIN server' = DOMAIN server /\ DOMAIN server = 1..Len(server) /\ Len(server) \in Nat
    BY <2>2, <2>3
  <2>6. server' \in Seq(ServerThings)
    <3>1. server' = [id \in 1..Len(server) |-> server'[id]]
      BY <2>3, <2>5
    <3>2. server' \in [1..Len(server) -> ServerThings]
      BY <2>4, <2>5, <3>1
    <3> QED BY <2>5, <3>2
  <2>7. ServerKept /\ \A i, r : ThingOf(i, r) => ThingOf(i, r)'
    BY <2>4, <2>5 DEF ServerKept, ThingOf
  <2>8. Lasting /\ SetupGood' /\ SentGood'
    BY <2>1, <2>6, <2>7 DEF CommunityInv, Lasting, SetupGood, SentGood
  <2>9. ~Hung /\ At(a, "RESET", "replaced") /\ Goto(a, "deleted") /\ session[a].op = "RESET"
    BY <1>3 DEF DeleteReplaced, Resumes, At
  <2>10. PICK t : t = [session[a] EXCEPT !.at = "deleted"]
    OBVIOUS
  <2>11. BotFine(t)'
    <3>1. t.op = "RESET" /\ "more" \in DOMAIN t
      BY <2>9, <2>10 DEF BotFine, BotOps, CommunityInv, Actors
    <3> QED BY <3>1 DEF BotFine
  <2> QED BY <2>1, <2>8, <2>9, <2>10, <2>11, HandlerGoesOn DEF BotOps
<1>4. CASE CommitReset(a)
  <2>1. Lasting /\ SetupGood' /\ SentGood'
    BY <1>4, GuildWritten DEF CommitReset
  <2> QED BY <1>4, <2>1, HandlerEnds DEF CommitReset, Resumes, At
<1> QED BY <1>1, <1>2, <1>3, <1>4

LEMMA PanelsGood ==
  ASSUME CommunityInv, Shaped, NEW a \in Operators, PostPanel(a) \/ CommitPanels(a)
  PROVE  CommunityInv'
<1>1. a \in Actors /\ BotFine(session[a]) /\ \A i, r : UNCHANGED server => (ThingOf(i, r) => ThingOf(i, r)')
  BY DEF Actors, CommunityInv, ThingOf
<1>2. /\ {"sent", "saved"} \subseteq DOMAIN panel
      /\ panel.sent \in Nat /\ panel.saved \in Nat /\ panel.saved <= panel.sent
  BY DEF CommunityInv, SentGood
<1>3. CASE PostPanel(a)
  <2>1. PICK known : known = session[a].more
    OBVIOUS
  <2>2. PICK id : id = IF known # 0 THEN known ELSE panel.sent + 1
    OBVIOUS
  <2>3. /\ ~Hung /\ session[a].op = "PANELS" /\ session[a].at = "posting"
        /\ UNCHANGED <<server, guild, registry, notice, ticket, faults>>
        /\ panel' = [panel EXCEPT !.sent = IF known # 0 THEN panel.sent ELSE id]
        /\ session' = [session EXCEPT ![a].at = "posted",
                                      ![a].more = [id |-> id, absent |-> panel.saved = 0]]
    BY <1>3, <2>1, <2>2 DEF PostPanel, Resumes, At
  <2>4. known \in Nat /\ known <= panel.sent /\ "more" \in DOMAIN session[a]
    BY <1>1, <2>1, <2>3 DEF BotFine, BotOps
  <2>5. /\ id \in Nat /\ id <= panel'.sent /\ panel'.sent \in Nat /\ panel.sent <= panel'.sent
        /\ panel'.saved = panel.saved /\ {"sent", "saved"} \subseteq DOMAIN panel'
    BY <1>2, <2>2, <2>3, <2>4
  <2>6. Lasting /\ SetupGood' /\ SentGood'
    BY <1>1, <1>2, <2>3, <2>5 DEF CommunityInv, Lasting, ServerKept, SetupGood, SentGood
  <2>7. /\ OthersStay(a) /\ session'[a].op = "PANELS" /\ session'[a].at = "posted"
        /\ "more" \in DOMAIN session'[a] /\ session'[a].more = [id |-> id, absent |-> panel.saved = 0]
    <3>1. PICK one : one = [session EXCEPT ![a].at = "posted"]
      OBVIOUS
    <3>2. session' = [one EXCEPT ![a].more = [id |-> id, absent |-> panel.saved = 0]]
      BY <2>3, <3>1
    <3>3. /\ \A b \in Actors \ {a} : one[b] = session[b]
          /\ one[a].op = "PANELS" /\ one[a].at = "posted" /\ "more" \in DOMAIN one[a]
          /\ DOMAIN one = Actors
      BY <1>1, <2>3, <2>4, <3>1 DEF Shaped
    <3> QED BY <1>1, <3>2, <3>3 DEF OthersStay
  <2>8. session'[a].more.id = id
    BY <2>7
  <2>9. BotFine(session[a])'
    BY <2>5, <2>7, <2>8 DEF BotFine
  <2>10. TicketsGood'
    BY <2>3, <2>7, TicketsUnderStep DEF At
  <2> QED BY <2>3, <2>6, <2>7, <2>9, <2>10, BotStep
<1>4. CASE CommitPanels(a)
  <2>1. /\ ~Hung /\ session[a].op = "PANELS" /\ session[a].at = "posted" /\ End(a)
        /\ UNCHANGED <<server, guild, registry, notice, ticket, faults>>
        /\ panel' \in {panel, [panel EXCEPT !.saved = session[a].more.id]}
    BY <1>4 DEF CommitPanels, Resumes, At, EndInException
  <2>2. session[a].more.id \in Nat /\ session[a].more.id <= panel.sent
    BY <1>1, <2>1 DEF BotFine, BotOps
  <2>3. /\ panel'.sent = panel.sent /\ panel'.saved \in Nat /\ panel'.saved <= panel.sent
        /\ {"sent", "saved"} \subseteq DOMAIN panel'
    BY <1>2, <2>1, <2>2
  <2>4. Lasting /\ SetupGood' /\ SentGood'
    BY <1>1, <1>2, <2>1, <2>3 DEF CommunityInv, Lasting, ServerKept, SetupGood, SentGood
  <2> QED BY <2>1, <2>4, HandlerEnds DEF At
<1> QED BY <1>3, <1>4

LEMMA MembersGood ==
  ASSUME CommunityInv, Shaped, NEW a \in Operators,
         \/ AcceptAtOnce(a) \/ GiveRole(a) \/ CommitAccept(a) \/ ChangeRole(a) \/ CommitRoles(a)
  PROVE  CommunityInv'
<1>1. a \in Actors /\ BotFine(session[a]) /\ {"op", "at"} \subseteq DOMAIN session[a]
      /\ DOMAIN session = Actors
  BY DEF Actors, CommunityInv, Shaped
<1>2. {"row", "state"} \subseteq DOMAIN guild
  BY DEF CommunityInv, SetupGood
<1>3. CASE AcceptAtOnce(a)
  <2>1. UNCHANGED <<server, registry, panel, notice, ticket, session, faults>>
        /\ guild' = [guild EXCEPT !.row = TRUE] /\ ~Hung
    BY <1>3 DEF AcceptAtOnce, Called
  <2>2. Lasting /\ SetupGood' /\ SentGood'
    BY <1>2, <2>1, GuildWritten
  <2>3. TicketsGood'
    BY <2>1 DEF CommunityInv, TicketsGood, Filed, Unfiled, At
  <2> QED BY <2>1, <2>2, <2>3, HandlerStays
<1>4. CASE GiveRole(a)
  <2>1. /\ UNCHANGED <<server, guild, registry, panel, notice, ticket, faults>> /\ ~Hung
        /\ session[a].op = "RULES" /\ At(a, "RULES", "giving") /\ Goto(a, "given")
    BY <1>4 DEF GiveRole, setupRows, Resumes, At
  <2>2. Lasting /\ SetupGood' /\ SentGood'
    BY <1>2, <2>1, GuildWritten
  <2>3. PICK t : t = [session[a] EXCEPT !.at = "given"]
    OBVIOUS
  <2>4. t.op = "RULES" /\ "more" \in DOMAIN t
    BY <1>1, <2>1, <2>3 DEF BotFine, BotOps
  <2>5. BotFine(t)'
    BY <2>4 DEF BotFine
  <2> QED BY <2>1, <2>2, <2>3, <2>5, HandlerGoesOn DEF BotOps
<1>5. CASE CommitAccept(a) \/ CommitRoles(a)
  <2>1. /\ UNCHANGED <<server, guild, registry, panel, notice, ticket, faults>>
        /\ ~Hung /\ ~At(a, "TICKET", "opened") /\ End(a)
    BY <1>5 DEF CommitAccept, CommitRoles, setupRows, Resumes, At, EndInException
  <2>2. Lasting /\ SetupGood' /\ SentGood'
    BY <1>2, <2>1, GuildWritten
  <2> QED BY <2>1, <2>2, HandlerEnds
<1>6. CASE ChangeRole(a)
  <2>1. PICK todo, old :
           session' = [session EXCEPT ![a].more.todo = todo, ![a].more.old = old]
    <3>1. PICK s : s = session[a].more
      OBVIOUS
    <3>2. PICK badge : badge = CHOOSE b \in s.todo : \A c \in s.todo : b <= c
      OBVIOUS
    <3>3. session' = [session EXCEPT
                        ![a].more.todo = @ \ {badge},
                        ![a].more.old = Append(@, [badge |-> badge, was |-> member.grants[badge]])]
      BY <1>6, <3>1, <3>2 DEF ChangeRole
    <3> QED BY <3>3
  <2>2. /\ UNCHANGED <<server, guild, registry, panel, notice, ticket, faults>> /\ ~Hung
        /\ session[a].op = "ROLES" /\ session[a].at = "changing" /\ "more" \in DOMAIN session[a]
    BY <1>1, <1>6 DEF ChangeRole, setupRows, Resumes, At, BotFine, BotOps
  <2>3. Lasting /\ SetupGood' /\ SentGood'
    BY <1>2, <2>2, GuildWritten
  <2>4. /\ OthersStay(a) /\ session'[a].op = "ROLES" /\ session'[a].at = "changing"
        /\ "more" \in DOMAIN session'[a]
    <3>1. PICK one : one = [session EXCEPT ![a].more.todo = todo]
      OBVIOUS
    <3>2. session' = [one EXCEPT ![a].more.old = old]
      BY <2>1, <3>1
    <3>3. /\ \A b \in Actors \ {a} : one[b] = session[b]
          /\ one[a].op = "ROLES" /\ one[a].at = "changing" /\ "more" \in DOMAIN one[a]
          /\ DOMAIN one = Actors
      BY <1>1, <2>2, <3>1
    <3> QED BY <1>1, <3>2, <3>3 DEF OthersStay
  <2>5. BotFine(session[a])'
    BY <2>4 DEF BotFine
  <2>6. TicketsGood'
    BY <2>2, <2>4, TicketsUnderStep DEF At
  <2> QED BY <2>2, <2>3, <2>4, <2>5, <2>6, BotStep
<1> QED BY <1>3, <1>4, <1>5, <1>6

(* The set of filed tickets is finite, and a number is as large as it. *)
LEMMA FiledIsFinite ==
  ASSUME TicketsGood
  PROVE  /\ IsFiniteSet(Filed) /\ Cardinality(Filed) \in Nat /\ MaxTickets \in Nat
         /\ Cardinality(Unfiled) \in Nat
<1>1. MaxTickets \in Nat
  BY CommunityAssumption
<1>2. IsFiniteSet(Tickets)
  BY <1>1, FS_Interval DEF Tickets
<1>3. Filed \in SUBSET Tickets
  BY DEF Filed
<1>4. IsFiniteSet(Filed)
  BY <1>2, <1>3, FS_Subset
<1>5. IsFiniteSet(Unfiled)
  BY DEF TicketsGood
<1> QED BY <1>1, <1>4, <1>5, FS_CardinalityType

LEMMA OpenChannelGood ==
  ASSUME CommunityInv, Shaped, NEW a \in Operators, OpenChannel(a)
  PROVE  CommunityInv'
<1>1. /\ a \in Actors /\ \A o \in Operators : o \in Actors
      /\ BotFine(session[a]) /\ {"op", "at"} \subseteq DOMAIN session[a] /\ TicketsGood
  BY DEF Actors, CommunityInv, Shaped
<1>2. /\ ~Hung /\ session[a].op = "TICKET" /\ session[a].at = "opening" /\ Goto(a, "opened")
      /\ ticket.channels < MaxTickets /\ ticket' = [ticket EXCEPT !.channels = @ + 1]
      /\ UNCHANGED <<server, guild, registry, panel, notice, faults>>
  BY DEF OpenChannel, Resumes, At, setupRows
<1>3. Lasting /\ SetupGood' /\ SentGood'
  BY <1>2, GuildWritten DEF CommunityInv, SetupGood
<1>4. session'[a] = [session[a] EXCEPT !.at = "opened"] /\ OthersStay(a)
  BY <1>1, <1>2, GotoEffect
<1>5. session'[a].op = "TICKET" /\ session'[a].at = "opened" /\ "more" \in DOMAIN session'[a]
  BY <1>1, <1>2, <1>4 DEF BotFine, BotOps
<1>6. guild.row
  BY <1>1, <1>2 DEF BotFine, BotOps
<1>7. BotFine(session[a])'
  BY <1>2, <1>5, <1>6 DEF BotFine
<1>8. TicketsGood'
  <2>1. Unfiled' = Unfiled \cup {a} /\ a \notin Unfiled
    <3>1. \A o \in Operators : o # a => (At(o, "TICKET", "opened")' <=> At(o, "TICKET", "opened"))
      BY <1>1, <1>4 DEF At, OthersStay
    <3>2. At(a, "TICKET", "opened")' /\ ~At(a, "TICKET", "opened")
      BY <1>2, <1>5 DEF At
    <3> QED BY <3>1, <3>2 DEF Unfiled
  <2>2. IsFiniteSet(Unfiled)
    BY <1>1 DEF TicketsGood
  <2>3. IsFiniteSet(Unfiled \cup {a}) /\ Cardinality(Unfiled \cup {a}) = Cardinality(Unfiled) + 1
    BY <2>1, <2>2, FS_AddElement
  <2>4. /\ ticket'.rows = ticket.rows /\ ticket'.channels = ticket.channels + 1
        /\ {"rows", "channels"} \subseteq DOMAIN ticket'
    BY <1>1, <1>2 DEF TicketsGood
  <2>5. Filed' = Filed
    BY <2>4 DEF Filed
  <2>6. Cardinality(Filed) \in Nat /\ Cardinality(Unfiled) \in Nat /\ MaxTickets \in Nat
    BY <1>1, FiledIsFinite
  <2>7. faults' = faults
    BY <1>2
  <2>8. ticket'.channels \in 0..MaxTickets
    BY <1>1, <1>2, <2>4, <2>6 DEF TicketsGood
  <2> QED BY <1>1, <2>1, <2>3, <2>4, <2>5, <2>6, <2>7, <2>8 DEF TicketsGood
<1> QED BY <1>2, <1>3, <1>4, <1>5, <1>7, <1>8, BotStep

LEMMA FileTicketGood ==
  ASSUME CommunityInv, Shaped, NEW a \in Operators, FileTicket(a)
  PROVE  CommunityInv'
<1>1. /\ a \in Actors /\ \A o \in Operators : o \in Actors
      /\ TicketsGood
  BY DEF Actors, CommunityInv
<1>2. PICK n : n = Cardinality(Filed) + 1
  OBVIOUS
<1>3. /\ ~Hung /\ At(a, "TICKET", "opened") /\ End(a)
      /\ n \notin Filed => ticket' = [ticket EXCEPT !.rows[n] = "NEW"]
      /\ UNCHANGED <<server, guild, registry, panel, notice, faults>>
  BY <1>2 DEF FileTicket, TicketNumber, Resumes, setupRows, EndInException
<1>4. Lasting /\ SetupGood' /\ SentGood'
  BY <1>3, GuildWritten DEF CommunityInv, SetupGood
<1>5. /\ OthersStay(a) /\ BotFine(session[a])' /\ ~At(a, "TICKET", "opened")'
      /\ ~(session'[a].op \in BotOps)
  BY <1>3, EndIsFine
<1>6. TicketsGood'
  <2>1. Unfiled' = Unfiled \ {a} /\ a \in Unfiled
    <3>1. \A o \in Operators : o # a => (At(o, "TICKET", "opened")' <=> At(o, "TICKET", "opened"))
      BY <1>1, <1>5 DEF At, OthersStay
    <3> QED BY <1>3, <1>5, <3>1 DEF Unfiled
  <2>2. IsFiniteSet(Unfiled)
    BY <1>1 DEF TicketsGood
  <2>3. IsFiniteSet(Unfiled \ {a}) /\ Cardinality(Unfiled \ {a}) = Cardinality(Unfiled) - 1
    BY <2>1, <2>2, FS_RemoveElement
  <2>4. Cardinality(Filed) \in Nat /\ Cardinality(Unfiled) \in Nat /\ MaxTickets \in Nat
        /\ IsFiniteSet(Filed)
    BY <1>1, FiledIsFinite
  <2>5. Cardinality(Unfiled) > 0
    <3>1. Cardinality(Unfiled) # 0
      BY <2>1, <2>2, FS_EmptySet
    <3> QED BY <2>4, <3>1
  <2>6. n \in Tickets /\ n \notin Filed
    BY <1>1, <1>2, <2>4, <2>5 DEF TicketsGood, Tickets
  <2>7. ticket' = [ticket EXCEPT !.rows = [ticket.rows EXCEPT ![n] = "NEW"]]
    BY <1>3, <2>6
  <2>8. /\ ticket'.rows = [ticket.rows EXCEPT ![n] = "NEW"] /\ ticket'.channels = ticket.channels
        /\ {"rows", "channels"} \subseteq DOMAIN ticket'
    BY <1>1, <2>7 DEF TicketsGood
  <2>9. ticket'.rows \in [Tickets -> TicketStatuses \cup {"ABSENT"}]
    BY <1>1, <2>6, <2>8 DEF TicketsGood, TicketStatuses
  <2>10. Filed' = Filed \cup {n}
    BY <1>1, <2>6, <2>8 DEF TicketsGood, Filed
  <2>11. Cardinality(Filed \cup {n}) = Cardinality(Filed) + 1
    BY <2>4, <2>6, FS_AddElement
  <2>12. Filed \cup {n} = 1..(Cardinality(Filed) + 1)
    <3>1. PICK k \in Nat : k = Cardinality(Filed)
      BY <2>4
    <3>2. Filed = 1..k /\ n = k + 1
      BY <1>1, <1>2, <3>1 DEF TicketsGood
    <3>3. (1..k) \cup {k + 1} = 1..(k + 1)
      OBVIOUS
    <3> QED BY <3>1, <3>2, <3>3
  <2>13. faults' = faults /\ faults \in Nat /\ ticket.channels \in 0..MaxTickets
    BY <1>1, <1>3 DEF TicketsGood
  <2>14. Filed' = 1..Cardinality(Filed')
    BY <2>10, <2>11, <2>12
  <2>15. Cardinality(Filed') + Cardinality(Unfiled') = Cardinality(Filed) + Cardinality(Unfiled)
    BY <2>1, <2>3, <2>4, <2>10, <2>11
  <2>16. /\ Cardinality(Filed') + Cardinality(Unfiled') <= ticket'.channels
         /\ ticket'.channels <= Cardinality(Filed') + Cardinality(Unfiled') + faults'
    BY <1>1, <2>8, <2>13, <2>15 DEF TicketsGood
  <2>17. IsFiniteSet(Unfiled')
    BY <2>1, <2>3
  <2> QED BY <2>8, <2>9, <2>13, <2>14, <2>16, <2>17 DEF TicketsGood
<1> QED BY <1>3, <1>4, <1>5, <1>6, BotStep

LEMMA MoveTicketGood ==
  ASSUME CommunityInv, Shaped, NEW a \in Operators, MoveTicket(a)
  PROVE  CommunityInv'
<1>1. /\ ~Hung /\ UNCHANGED <<server, guild, registry, panel, notice, session, faults>>
  BY DEF MoveTicket, Called, setupRows
<1>2. Lasting /\ SetupGood' /\ SentGood'
  BY <1>1, GuildWritten DEF CommunityInv, SetupGood
<1>3. \A s \in TicketStatuses : TicketTransitions[s] \subseteq TicketStatuses
  BY DEF TicketTransitions, TicketStatuses
<1>4. PICK n, status :
           /\ n \in Filed
           /\ status \in TicketTransitions[ticket.rows[n]] \/ status \in TicketStatuses
           /\ ticket' = [ticket EXCEPT !.rows[n] = status]
  BY DEF MoveTicket, TicketStatuses
<1>5. TicketsGood
  BY DEF CommunityInv
<1>6. n \in Tickets /\ ticket.rows[n] \in TicketStatuses
  BY <1>4, <1>5 DEF TicketsGood, Filed
<1>7. status \in TicketStatuses /\ status # "ABSENT"
  BY <1>3, <1>4, <1>6 DEF TicketStatuses
<1>8. /\ ticket'.rows = [ticket.rows EXCEPT ![n] = status] /\ ticket'.channels = ticket.channels
      /\ {"rows", "channels"} \subseteq DOMAIN ticket'
  <2>1. ticket' = [ticket EXCEPT !.rows = [ticket.rows EXCEPT ![n] = status]]
    BY <1>4
  <2> QED BY <1>5, <2>1 DEF TicketsGood
<1>9. ticket'.rows \in [Tickets -> TicketStatuses \cup {"ABSENT"}]
  BY <1>5, <1>6, <1>7, <1>8 DEF TicketsGood
<1>10. Filed' = Filed
  BY <1>4, <1>5, <1>6, <1>7, <1>8 DEF TicketsGood, Filed
<1>11. Unfiled' = Unfiled
  BY <1>1 DEF Unfiled, At
<1>12. TicketsGood'
  BY <1>1, <1>5, <1>8, <1>9, <1>10, <1>11 DEF TicketsGood
<1> QED BY <1>1, <1>2, <1>12, HandlerStays

LEMMA NoticesGood ==
  ASSUME CommunityInv, Shaped, NEW a \in Operators,
         DraftNotice(a) \/ SendNotice(a) \/ CommitNotice(a)
  PROVE  CommunityInv'
<1>1. /\ a \in Actors /\ BotFine(session[a]) /\ {"op", "at"} \subseteq DOMAIN session[a]
      /\ SentGood /\ {"status", "sent"} \subseteq DOMAIN notice
  BY DEF Actors, CommunityInv, Shaped, SentGood
<1>2. ~Hung /\ UNCHANGED <<server, guild, registry, panel, ticket, faults>>
  BY DEF DraftNotice, SendNotice, CommitNotice, Called, Resumes, setupRows
<1>3. SetupGood'
  BY <1>2 DEF CommunityInv, SetupGood, ThingOf
<1>4. ASSUME {"status", "sent"} \subseteq DOMAIN notice', notice'.sent \in Nat,
             notice.sent <= notice'.sent, notice'.status = "PUBLISHED" => notice'.sent > 0
      PROVE  Lasting /\ SentGood'
  BY <1>1, <1>2, <1>4 DEF SentGood, Lasting, ServerKept
<1>5. CASE DraftNotice(a)
  <2>1. notice' = [notice EXCEPT !.status = "DRAFT"] /\ UNCHANGED session
    BY <1>5 DEF DraftNotice
  <2>2. notice'.sent = notice.sent /\ notice'.status = "DRAFT"
        /\ {"status", "sent"} \subseteq DOMAIN notice'
    BY <1>1, <2>1
  <2>3. Lasting /\ SentGood'
    BY <1>1, <1>4, <2>2 DEF SentGood
  <2>4. TicketsGood'
    BY <1>2, <2>1 DEF CommunityInv, TicketsGood, Filed, Unfiled, At
  <2> QED BY <1>2, <1>3, <2>1, <2>3, <2>4, HandlerStays
<1>6. CASE SendNotice(a)
  <2>1. /\ notice' = [notice EXCEPT !.sent = @ + 1] /\ Goto(a, "sent")
        /\ At(a, "ANNOUNCE", "sending") /\ session[a].op = "ANNOUNCE"
    BY <1>6 DEF SendNotice, Resumes, At
  <2>2. notice'.sent = notice.sent + 1 /\ {"status", "sent"} \subseteq DOMAIN notice'
    BY <1>1, <2>1
  <2>3. Lasting /\ SentGood'
    BY <1>1, <1>4, <2>2 DEF SentGood
  <2>4. PICK t : t = [session[a] EXCEPT !.at = "sent"]
    OBVIOUS
  <2>5. t.op = "ANNOUNCE" /\ "more" \in DOMAIN t
    BY <1>1, <2>1, <2>4 DEF BotFine, BotOps
  <2>6. notice'.sent > 0
    BY <1>1, <2>2 DEF SentGood
  <2>7. BotFine(t)'
    BY <2>5, <2>6 DEF BotFine
  <2> QED BY <1>2, <1>3, <2>1, <2>3, <2>4, <2>7, HandlerGoesOn DEF BotOps
<1>7. CASE CommitNotice(a)
  <2>1. /\ notice' = [notice EXCEPT !.status = "PUBLISHED"] /\ End(a)
        /\ session[a].op = "ANNOUNCE" /\ session[a].at = "sent"
    BY <1>7 DEF CommitNotice, Resumes, At
  <2>2. notice'.sent = notice.sent /\ {"status", "sent"} \subseteq DOMAIN notice'
    BY <1>1, <2>1
  <2>3. notice.sent > 0
    BY <1>1, <2>1 DEF BotFine, BotOps
  <2>4. Lasting /\ SentGood'
    BY <1>1, <1>4, <2>2, <2>3 DEF SentGood
  <2> QED BY <1>2, <1>3, <2>1, <2>4, HandlerEnds DEF At
<1> QED BY <1>5, <1>6, <1>7

LEMMA ModerationGood ==
  ASSUME CommunityInv, Shaped, NEW a \in Operators,
         CallModeration(a) \/ OpenCase(a) \/ AppealCase(a)
  PROVE  CommunityInv'
<1>1. ~Hung /\ UNCHANGED <<server, guild, registry, panel, notice, ticket, faults>>
  BY DEF CallModeration, OpenCase, AppealCase, Called, Resumes, setupRows, communityRows
<1>2. Lasting /\ SetupGood' /\ SentGood'
  BY <1>1, GuildWritten DEF CommunityInv, SetupGood
<1>3. CASE CallModeration(a)
  <2>1. PICK t : t = [op |-> "MODERATE", at |-> "deleting", message |-> NoMessage,
                      inserts |-> FALSE, more |-> 0]
    OBVIOUS
  <2>2. session'[a] = t /\ OthersStay(a) /\ session[a].op = "IDLE"
    BY <1>3, <2>1, BeginEffect DEF CallModeration, Called, Free, Idle, Actors
  <2>3. BotFine(session[a])'
    BY <2>1, <2>2 DEF BotFine
  <2>4. TicketsGood'
    BY <1>1, <2>1, <2>2, TicketsUnderStep DEF At
  <2> QED BY <1>1, <1>2, <2>1, <2>2, <2>3, <2>4, BotStep
<1>4. CASE OpenCase(a)
  BY <1>1, <1>2, <1>4, HandlerEnds DEF OpenCase, Resumes, At
<1>5. CASE AppealCase(a)
  <2>1. UNCHANGED session
    BY <1>5 DEF AppealCase
  <2>2. TicketsGood'
    BY <1>1, <2>1 DEF CommunityInv, TicketsGood, Filed, Unfiled, At
  <2> QED BY <1>1, <1>2, <2>1, <2>2, HandlerStays
<1> QED BY <1>3, <1>4, <1>5

(* What leaves the rows alone: handlers end, and what others do.           *)
LEMMA CommunityRowsStay ==
  ASSUME CommunityInv, UNCHANGED communityRows, TicketsGood',
         \A a \in Actors : \/ session'[a] = session[a]
                           \/ session'[a].op \notin BotOps
  PROVE  CommunityInv'
<1>1. Lasting /\ SetupGood' /\ SentGood'
  BY NothingMoves
<1>2. ASSUME NEW a \in Actors PROVE BotFine(session[a])'
  <2>1. CASE session'[a] = session[a]
    BY <1>1, <2>1, BotStaysFine DEF CommunityInv
  <2>2. CASE session'[a].op \notin BotOps
    BY <2>2 DEF BotFine
  <2> QED BY <2>1, <2>2
<1>3. Hung' => Hung
  BY DEF Hung, Actors
<1>4. guild' = guild
  BY DEF communityRows
<1> QED BY <1>1, <1>2, <1>3, <1>4 DEF CommunityInv

LEMMA RestartGood ==
  ASSUME CommunityInv, RestartBot
  PROVE  CommunityInv'
<1>1. \A o \in Operators : o \in Actors
  BY DEF Actors
<1>2. \A a \in Actors : session'[a] = session[a] \/ session'[a] = Idle
  BY DEF RestartBot
<1>3. \A a \in Actors : session[a].op \in BotOps => session'[a] = Idle
  BY DEF RestartBot
<1>4. Unfiled = {} /\ Unfiled' = {}
  <2>1. ~guild.row
    BY DEF RestartBot, CommunityInv
  <2>2. Unfiled = {}
    BY <1>1, <2>1 DEF CommunityInv, BotFine, BotOps, Unfiled, At
  <2> QED BY <1>1, <1>2, <2>2 DEF Unfiled, At, Idle
<1>5. UNCHANGED <<communityRows, faults>>
  BY DEF RestartBot
<1>6. TicketsGood'
  BY <1>4, <1>5, TicketsKept DEF CommunityInv, communityRows
<1>7. Idle.op \notin BotOps
  BY DEF Idle, BotOps
<1> QED BY <1>2, <1>5, <1>6, <1>7, CommunityRowsStay

LEMMA CommunityUntouched ==
  ASSUME CommunityInv, UNCHANGED communityRows, faults' \in {faults, faults + 1},
         \A a \in Actors : \/ session'[a] = session[a]
                           \/ session[a].op \notin BotOps /\ session'[a].op \notin BotOps
  PROVE  CommunityInv'
<1>1. \A o \in Operators : o \in Actors
  BY DEF Actors
<1>2. Unfiled' = Unfiled
  BY <1>1 DEF Unfiled, At, BotOps
<1>3. TicketsGood /\ ticket' = ticket /\ Filed' = Filed
  BY DEF CommunityInv, communityRows, Filed
<1>4. Cardinality(Filed) \in Nat /\ Cardinality(Unfiled) \in Nat /\ MaxTickets \in Nat
  BY <1>3, FiledIsFinite
<1>5. TicketsGood'
  BY <1>2, <1>3, <1>4 DEF TicketsGood
<1> QED BY <1>5, CommunityRowsStay

LEMMA CommunitySurvivesFaults ==
  ASSUME CommunityInv, Shaped, UNCHANGED communityRows, faults' = faults + 1, NEW a \in Actors,
         End(a)
  PROVE  CommunityInv'
<1>1. session'[a].op = "IDLE" /\ OthersStay(a) /\ \A o \in Operators : o \in Actors
  BY EndEffect DEF Actors
<1>2. Unfiled' = Unfiled \ {a}
  <2>1. \A o \in Operators : o # a => (At(o, "TICKET", "opened")' <=> At(o, "TICKET", "opened"))
    BY <1>1 DEF At, OthersStay
  <2>2. ~At(a, "TICKET", "opened")'
    BY <1>1 DEF At
  <2> QED BY <2>1, <2>2 DEF Unfiled
<1>3. TicketsGood /\ ticket' = ticket /\ Filed' = Filed
  BY DEF CommunityInv, communityRows, Filed
<1>4. Cardinality(Filed) \in Nat /\ Cardinality(Unfiled) \in Nat /\ MaxTickets \in Nat
  BY <1>3, FiledIsFinite
<1>5. /\ IsFiniteSet(Unfiled \ {a})
      /\ Cardinality(Unfiled \ {a}) \in {Cardinality(Unfiled), Cardinality(Unfiled) - 1}
  BY <1>3, FS_RemoveElement DEF TicketsGood
<1>6. TicketsGood'
  <2>1. PICK k \in Nat : k = Cardinality(Filed)
    BY <1>4
  <2>2. Cardinality(Unfiled') \in {Cardinality(Unfiled), Cardinality(Unfiled) - 1}
    BY <1>2, <1>5
  <2>3. /\ k + Cardinality(Unfiled') <= ticket.channels
        /\ ticket.channels <= k + Cardinality(Unfiled') + faults'
    BY <1>3, <1>4, <2>1, <2>2 DEF TicketsGood
  <2>4. IsFiniteSet(Unfiled')
    BY <1>2, <1>5
  <2> QED BY <1>3, <2>1, <2>3, <2>4 DEF TicketsGood
<1> QED BY <1>1, <1>6, CommunityRowsStay DEF OthersStay, BotOps

LEMMA CommunityStep ==
  ASSUME CommunityInv, Shaped, (\E o \in Operators : CommunityHandler(o)) \/ RestartBot
  PROVE  CommunityInv'
<1>1. ASSUME NEW o \in Operators, CommunityHandler(o)
      PROVE  CommunityInv'
  <2>1. CASE \/ CallSetup(o) \/ CallReset(o) \/ CallPanels(o) \/ CallAccept(o) \/ CallRoles(o)
             \/ CallTicket(o) \/ CallPublish(o)
    BY <2>1, CallsGood
  <2>2. CASE PlaceItem(o) \/ CommitSetup(o)
    BY <2>2, PlaceItemGood, CommitSetupGood
  <2>3. CASE ResetPreview(o) \/ DeleteObsolete(o) \/ DeleteReplaced(o) \/ CommitReset(o)
    BY <2>3, ResetsGood
  <2>4. CASE PostPanel(o) \/ CommitPanels(o)
    BY <2>4, PanelsGood
  <2>5. CASE \/ AcceptAtOnce(o) \/ GiveRole(o) \/ CommitAccept(o) \/ ChangeRole(o)
             \/ CommitRoles(o)
    BY <2>5, MembersGood
  <2>6. CASE OpenChannel(o) \/ FileTicket(o) \/ MoveTicket(o)
    BY <2>6, OpenChannelGood, FileTicketGood, MoveTicketGood
  <2>7. CASE DraftNotice(o) \/ SendNotice(o) \/ CommitNotice(o)
    BY <2>7, NoticesGood
  <2>8. CASE CallModeration(o) \/ OpenCase(o) \/ AppealCase(o)
    BY <2>8, ModerationGood
  <2> QED BY <1>1, <2>1, <2>2, <2>3, <2>4, <2>5, <2>6, <2>7, <2>8 DEF CommunityHandler
<1> QED BY <1>1, RestartGood

LEMMA CommunityInvIsEnough == CommunityInv => RowsFollowDiscord
  BY DEF CommunityInv, SetupGood, SentGood, TicketsGood, Unfiled, ThingOf, RowsFollowDiscord

-----------------------------------------------------------------------------
(* Types: the rows and the sessions of each component.  What an actor has  *)
(* in its session is what its component put there.                         *)

AdviceTasks == {InspectMessage, ReportMessage, AdviseMessage}

AdviceKnown(a) ==
    session[a].op \in AdviceOps /\ session[a].at # "completed"
      => session[a] \in AdviceSessions /\ Carries(a, session[a])

LEMMA ReportNumbers ==
  ASSUME qualityReports \subseteq QualityReport
  PROVE  LatestReport \in 0..MaxReports /\ NewestCompleted \in 0..MaxInspections
<1>1. ASSUME NEW n \in Nat, NEW S \in SUBSET (0..n), S # {}
      PROVE  Max(S) \in 0..n
  <2>1. \E r \in S : \A q \in S : r >= q
    BY <1>1, GreatestNumber
  <2>2. Max(S) \in S
    BY <2>1 DEF Max
  <2> QED BY <1>1, <2>2
<1>2. MaxReports \in Nat /\ MaxInspections \in Nat
  BY AdviceAssumption, RetentionAssumption
<1>3. {r.version : r \in qualityReports} \cup {0} \in SUBSET (0..MaxReports)
  BY <1>2 DEF QualityReport
<1>4. {v \in Inspections : inspection[v] = "COMPLETED"} \cup {0} \in SUBSET (0..MaxInspections)
  BY <1>2 DEF Inspections
<1> QED BY <1>1, <1>2, <1>3, <1>4 DEF LatestReport, NewestCompleted

LEMMA AdvisingPuts ==
  ASSUME NEW m \in {NoMessage, ReportMessage, AdviseMessage}, NEW about \in {"PROJECT", "CLIP"},
         NEW statuses
  PROVE  Advising(m, about, statuses) \in AdviceSessions /\ Advising(m, about, statuses).message = m
<1>1. Advised(about, statuses) \in BOOLEAN
  BY DEF Advised
<1> QED BY <1>1 DEF Advising, AdviceSessions

LEMMA ReportingPuts ==
  ASSUME qualityReports \subseteq QualityReport,
         NEW m \in {NoMessage, ReportMessage, InspectMessage},
         NEW op \in {"REPORT", "QUALITY", "INSPECTED"}, m = InspectMessage => op = "INSPECTED"
  PROVE  Reporting(op, m) \in AdviceSessions /\ Reporting(op, m).message = m
  BY ReportNumbers DEF Reporting, AdviceSessions

(* A session at one of the places of a report. *)
LEMMA ReporterIs ==
  ASSUME NEW s \in AdviceSessions, s.op \in {"REPORT", "QUALITY", "INSPECTED"}
  PROVE  /\ s.message \in {NoMessage, ReportMessage, InspectMessage}
         /\ s.message = InspectMessage => s.op = "INSPECTED"
         /\ s.at = "unreported" => s.latest \in 0..MaxReports
         /\ s.at = "reported" => /\ s.latest \in 0..(MaxReports - 1)
                                 /\ s.inspection \in 0..MaxInspections
  BY DEF AdviceSessions

LEMMA AfterReportPuts ==
  ASSUME Shaped, NEW a \in Actors, AfterReport(a), UNCHANGED lost, Carries(a, session[a]),
         session[a].message \in {NoMessage, ReportMessage, AdviseMessage} \/ session[a].op # "REPORT"
  PROVE  Puts(a, AdviceSessions)
<1>1. CASE session[a].op = "REPORT"
  <2>1. PICK s : s = Advising(session[a].message, "CLIP", AdviceStatuses)
    OBVIOUS
  <2>2. s \in AdviceSessions /\ s.message = session[a].message
    BY <1>1, <2>1, AdvisingPuts
  <2>3. Carries(a, s) /\ Begin(a, s)
    BY <1>1, <2>1, <2>2 DEF AfterReport, Carries
  <2> QED BY <2>2, <2>3, BeginPuts
<1>2. CASE session[a].op # "REPORT"
  BY <1>2, EndPuts DEF AfterReport
<1> QED BY <1>1, <1>2

LEMMA ReadEvidencePuts ==
  ASSUME Shaped, NEW a \in Actors, ReadEvidence(a), AdviceKnown(a),
         qualityReports \subseteq QualityReport
  PROVE  Puts(a, AdviceSessions)
<1>1. PICK s : s = session[a]
  OBVIOUS
<1>2. /\ s \in AdviceSessions /\ Carries(a, s)
      /\ s.op \in {"REPORT", "QUALITY", "INSPECTED"} /\ s.at = "unreported" /\ UNCHANGED lost
  BY <1>1 DEF ReadEvidence, AdviceKnown, AdviceOps
<1>3. /\ s.message \in {NoMessage, ReportMessage, InspectMessage} /\ s.latest \in 0..MaxReports
      /\ s.message = InspectMessage => s.op = "INSPECTED"
  BY <1>2, ReporterIs
<1>4. CASE AfterReport(a)
  BY <1>1, <1>2, <1>3, <1>4, AfterReportPuts
<1>5. CASE End(a)
  BY <1>2, <1>5, EndPuts
<1>6. CASE ~AfterReport(a) /\ ~End(a)
  <2>1. PICK t : t = [op |-> s.op, at |-> "reported", message |-> s.message,
                      latest |-> s.latest, inspection |-> NewestCompleted]
    OBVIOUS
  <2>2. Begin(a, t) /\ ~(s.latest > 0 /\ ~Again(s)) /\ ~(s.latest = MaxReports /\ Again(s))
    BY <1>1, <1>6, <2>1 DEF ReadEvidence
  <2>3. s.latest \in 0..(MaxReports - 1)
    BY <1>3, <2>2, AdviceAssumption DEF Again
  <2>4. t \in AdviceSessions /\ Carries(a, t)
    BY <1>2, <1>3, <2>1, <2>3, ReportNumbers DEF AdviceSessions, Carries
  <2> QED BY <1>2, <2>2, <2>4, BeginPuts
<1> QED BY <1>4, <1>5, <1>6

LEMMA CommitReportKeepsTypes ==
  ASSUME Shaped, NEW a \in Actors, CommitReport(a), AdviceKnown(a),
         qualityReports \subseteq QualityReport
  PROVE  qualityReports' \subseteq QualityReport /\ Puts(a, AdviceSessions)
<1>1. PICK s : s = session[a]
  OBVIOUS
<1>2. /\ s \in AdviceSessions /\ Carries(a, s)
      /\ s.op \in {"REPORT", "QUALITY", "INSPECTED"} /\ s.at = "reported"
  BY <1>1 DEF CommitReport, AdviceKnown, AdviceOps
<1>3. /\ s.message \in {NoMessage, ReportMessage, InspectMessage}
      /\ s.message = InspectMessage => s.op = "INSPECTED"
      /\ s.latest \in 0..(MaxReports - 1) /\ s.inspection \in 0..MaxInspections
  BY <1>2, ReporterIs
<1>4. CASE VersionTaken(s)
  BY <1>1, <1>2, <1>4, ExceptionPuts DEF CommitReport
<1>5. CASE ~VersionTaken(s)
  <2>1. [version |-> s.latest + 1, inspection |-> s.inspection] \in QualityReport
    BY <1>3, AdviceAssumption DEF QualityReport
  <2>2. AfterReport(a) /\ UNCHANGED lost
    BY <1>1, <1>5 DEF CommitReport
  <2> QED BY <1>1, <1>2, <1>3, <1>5, <2>1, <2>2, AfterReportPuts DEF CommitReport
<1> QED BY <1>4, <1>5

LEMMA AdviceKeepsTypes ==
  ASSUME Shaped, NEW a \in Actors, AdviceKnown(a), qualityReports \subseteq QualityReport,
         advice \in [AdviceIds -> Recommendation], AdviceTasks \subseteq Messages,
         \/ a \in Operators /\ AdviceHandler(a)
         \/ a \in Workers /\ (Advise(a) \/ TakeReport(a) \/ TakeAdvice(a))
  PROVE  qualityReports' \subseteq QualityReport /\ Puts(a, AdviceSessions)
<1>1. CASE CommitReport(a)
  BY <1>1, CommitReportKeepsTypes
<1>2. CASE ReadEvidence(a)
  BY <1>2, ReadEvidencePuts DEF ReadEvidence, adviceRows
<1>3. CASE CommitAdvice(a) \/ SaveAdvice(a)
  BY <1>3, EndPuts DEF CommitAdvice, SaveAdvice
<1>4. /\ InspectMessage \notin {NoMessage, ReportMessage}
      /\ InspectMessage \in Messages /\ ReportMessage \in Messages /\ AdviseMessage \in Messages
  BY CeleryAssumption DEF AdviceTasks, InspectMessage, ReportMessage
<1>5. CASE a \in Operators /\ (CallReport(a) \/ CallAdvice(a))
  <2>1. ASSUME NEW s, Begin(a, s), s \in AdviceSessions, s.message = NoMessage
        PROVE  qualityReports' \subseteq QualityReport /\ Puts(a, AdviceSessions)
    BY <1>5, <2>1, CallPuts DEF CallReport, CallAdvice, adviceRows
  <2>2. CASE CallAdvice(a)
    BY <2>1, <2>2, AdvisingPuts DEF CallAdvice
  <2>3. CASE CallReport(a)
    <3>1. PICK op \in {"REPORT", "QUALITY"} : Begin(a, Reporting(op, NoMessage))
      BY <2>3 DEF CallReport
    <3>2. Reporting(op, NoMessage) \in AdviceSessions /\ Reporting(op, NoMessage).message = NoMessage
      BY <1>4, ReportingPuts
    <3> QED BY <2>1, <3>1, <3>2
  <2> QED BY <1>5, <2>2, <2>3
<1>6. CASE LoadAdvice(a) /\ a \in Operators
  <2>1. PICK i \in AdviceIds, op \in {"NOTE", "ENDORSE", "DECLINE"} :
           Begin(a, [op |-> op, at |-> "advised", message |-> NoMessage, id |-> i, copy |-> advice[i]])
    BY <1>6 DEF LoadAdvice
  <2>2. PICK s : s = [op |-> op, at |-> "advised", message |-> NoMessage, id |-> i, copy |-> advice[i]]
    OBVIOUS
  <2>3. s \in AdviceSessions /\ s.message = NoMessage
    BY <2>2 DEF AdviceSessions
  <2> QED BY <1>6, <2>1, <2>2, <2>3, CallPuts DEF LoadAdvice, adviceRows
<1>7. CASE a \in Workers /\ (TakeReport(a) \/ TakeAdvice(a))
  <2>1. Reporting("REPORT", ReportMessage) \in AdviceSessions
        /\ Reporting("REPORT", ReportMessage).message = ReportMessage
    BY <1>4, ReportingPuts
  <2>2. Advising(AdviseMessage, "PROJECT", {"PENDING"}) \in AdviceSessions
        /\ Advising(AdviseMessage, "PROJECT", {"PENDING"}).message = AdviseMessage
    BY AdvisingPuts
  <2> QED BY <1>4, <1>7, <2>1, <2>2, ReceivePuts DEF TakeReport, TakeAdvice, adviceRows
<1>8. CASE a \in Workers /\ ReportInspection(a)
  <2>1. Reporting("INSPECTED", InspectMessage) \in AdviceSessions
        /\ Reporting("INSPECTED", InspectMessage).message = InspectMessage
    BY ReportingPuts
  <2> QED BY <1>4, <1>8, <2>1, BeginPuts DEF ReportInspection, adviceRows, Carries
<1> QED BY <1>1, <1>2, <1>3, <1>5, <1>6, <1>7, <1>8 DEF AdviceHandler, Advise

(* Posts. *)
LEMMA PostsPut ==
  ASSUME Shaped, NEW o \in Operators, PostsHandler(o), PackagesTypeOK, PostsTypeOK,
         session[o].op \in PostOps => session[o] \in PostSessions
  PROVE  Puts(o, PostSessions)
<1>1. ASSUME NEW s, Begin(o, s), s \in PostSessions, UNCHANGED lost
      PROVE  Puts(o, PostSessions)
  <2>1. s.message = NoMessage
    BY <1>1 DEF PostSessions
  <2> QED BY <1>1, <2>1, CallPuts
<1>2. o \in Actors
  BY DEF Actors
<1>3. CASE RecordPost(o) \/ CommitMetrics(o) \/ UpdateCheckpoint(o)
  BY <1>2, <1>3, EndPuts DEF RecordPost, CommitMetrics, UpdateCheckpoint
<1>4. CASE LoadForPost(o)
  <2>1. PICK u \in Posts, g \in Generations :
           Begin(o, [op |-> "POST", at |-> "loaded", message |-> NoMessage,
                     url |-> u, latest |-> g, copy |-> package[g]])
    BY <1>4 DEF LoadForPost
  <2>2. package[g] \in Package
    BY DEF PackagesTypeOK
  <2> QED BY <1>1, <1>4, <2>1, <2>2 DEF LoadForPost, PostSessions
<1>5. CASE LoadMetrics(o)
  <2>1. PICK u \in Posts, n \in Marks :
           Begin(o, [op |-> "METRICS", at |-> "loaded", message |-> NoMessage, url |-> u,
                     marks |-> {m \in 1..n : checkpoint[u][m] = "DUE"}])
    BY <1>5 DEF LoadMetrics
  <2>2. PICK done : done = {m \in 1..n : checkpoint[u][m] = "DUE"}
    OBVIOUS
  <2>3. done \in SUBSET Marks
    <3>1. Cardinality(Marks) \in Nat
      BY PostsAssumption, FS_CardinalityType
    <3>2. PICK k \in Nat : Marks = 1..k
      BY <3>1, PostsAssumption
    <3> QED BY <2>2, <3>2
  <2> QED BY <1>1, <1>5, <2>1, <2>2, <2>3 DEF LoadMetrics, PostSessions
<1>6. CASE LoadCheckpoint(o)
  <2>1. PICK u \in Posts, m \in Marks :
           Begin(o, [op |-> "CHECKPOINT", at |-> "loaded", message |-> NoMessage, url |-> u,
                     mark |-> m, status |-> checkpoint[u][m]])
    BY <1>6 DEF LoadCheckpoint
  <2>2. checkpoint[u][m] \in CheckpointStatuses
    BY DEF PostsTypeOK
  <2> QED BY <1>1, <1>6, <2>1, <2>2 DEF LoadCheckpoint, PostSessions
<1> QED BY <1>3, <1>4, <1>5, <1>6 DEF PostsHandler

(* Discovery. *)
DiscoveryKnown(a) ==
    session[a].op \in DiscoveryOps => session[a] \in DiscoverySessions /\ Carries(a, session[a])

LEMMA AfterPollPuts ==
  ASSUME Shaped, NEW a \in Actors, NEW result, AfterPoll(a, result), UNCHANGED lost,
         session[a].op = "DISCOVER", DiscoveryKnown(a)
  PROVE  Puts(a, DiscoverySessions)
<1>1. PICK s : s = session[a]
  OBVIOUS
<1>2. s.message \in {NoMessage, DiscoverMessage} /\ s.todo \in SUBSET Channels /\ Carries(a, s)
  BY <1>1 DEF DiscoveryKnown, DiscoveryOps, DiscoverySessions
<1>3. PICK t : t = Polling(s.todo, s.message)
  OBVIOUS
<1>4. t \in DiscoverySessions /\ Carries(a, t)
  BY <1>2, <1>3 DEF Polling, DiscoverySessions, Carries
<1>5. End(a) \/ Begin(a, t)
  BY <1>1, <1>3 DEF AfterPoll
<1> QED BY <1>4, <1>5, EndPuts, BeginPuts

LEMMA DiscoveryPuts ==
  ASSUME Shaped, NEW a \in Actors, DiscoveryKnown(a), DiscoveryTypeOK, DiscoverMessage \in Messages,
         \/ a \in Operators /\ DiscoveryHandler(a)
         \/ a \in Workers /\ (Discover(a) \/ TakeDiscovery(a))
  PROVE  Puts(a, DiscoverySessions)
<1>1. PICK s : s = session[a]
  OBVIOUS
<1>2. s.op \in DiscoveryOps => s \in DiscoverySessions /\ Carries(a, s)
  BY <1>1 DEF DiscoveryKnown
<1>3. ASSUME NEW t, Begin(a, t), t \in DiscoverySessions, t.message = NoMessage, UNCHANGED lost,
             a \in Operators
      PROVE  Puts(a, DiscoverySessions)
  BY <1>3, CallPuts
<1>4. ASSUME NEW place, Goto(a, place), UNCHANGED lost, s.op \in {"TAKE", "MAKE"},
             place = "making" \/ (place = "linking" /\ s.op = "TAKE")
      PROVE  Puts(a, DiscoverySessions)
  <2>1. PICK t : t = [s EXCEPT !.at = place]
    OBVIOUS
  <2>2. t \in DiscoverySessions /\ t.message = s.message
    BY <1>2, <1>4, <2>1 DEF DiscoverySessions, DiscoveryOps
  <2> QED BY <1>1, <1>2, <1>4, <2>1, <2>2, GotoPuts DEF Carries, DiscoveryOps
<1>5. CASE EnableChannel(a)
  BY <1>5, StayPuts DEF EnableChannel
<1>6. CASE CallPoll(a) /\ a \in Operators
  <2>1. PICK c \in Channels : Begin(a, Polling({c}, NoMessage))
    BY <1>6 DEF CallPoll
  <2>2. Polling({c}, NoMessage) \in DiscoverySessions /\ Polling({c}, NoMessage).message = NoMessage
    BY DEF Polling, DiscoverySessions
  <2> QED BY <1>3, <1>6, <2>1, <2>2 DEF CallPoll
<1>7. CASE LoadFinding(a) /\ a \in Operators
  <2>1. PICK c \in Channels, v \in Videos, op \in {"TAKE", "LEAVE"} :
           Begin(a, [op |-> op, at |-> "loaded", message |-> NoMessage, video |-> v,
                     channel |-> c, status |-> media[c][v].status])
    BY <1>7 DEF LoadFinding
  <2>2. media[c][v].status \in MediaStatuses
    BY DEF DiscoveryTypeOK, Media
  <2>3. PICK t : t = [op |-> op, at |-> "loaded", message |-> NoMessage, video |-> v,
                      channel |-> c, status |-> media[c][v].status]
    OBVIOUS
  <2>4. t \in DiscoverySessions /\ t.message = NoMessage
    BY <2>2, <2>3 DEF DiscoverySessions
  <2> QED BY <1>3, <1>7, <2>1, <2>3, <2>4 DEF LoadFinding
<1>8. CASE CallProject(a) /\ a \in Operators
  <2>1. PICK v \in Videos :
           Begin(a, [op |-> "MAKE", at |-> "loaded", message |-> NoMessage, video |-> v])
    BY <1>8 DEF CallProject
  <2> QED BY <1>3, <1>8, <2>1 DEF CallProject, DiscoverySessions
<1>9. CASE LookForProject(a) \/ MakeProject(a)
  <2>1. s.op \in {"TAKE", "MAKE"} /\ UNCHANGED lost
    BY <1>1, <1>9 DEF LookForProject, MakeProject
  <2>2. CASE Return(a)
    BY <1>1, <1>4, <2>1, <2>2, EndPuts DEF Return
  <2> QED BY <1>4, <1>9, <2>1, <2>2 DEF LookForProject, MakeProject
<1>10. CASE ProjectCollides(a) \/ InsertCollides(a)
  BY <1>1, <1>2, <1>10, ExceptionPuts DEF ProjectCollides, InsertCollides, At, DiscoveryOps
<1>11. CASE ApproveMedia(a) \/ RejectMedia(a)
  BY <1>11, EndPuts DEF ApproveMedia, RejectMedia
<1>12. CASE StartPoll(a)
  <2>1. PICK c \in s.todo :
           Begin(a, [op |-> "DISCOVER", at |-> "polling", message |-> s.message,
                     todo |-> s.todo \ {c}, found |-> {}, channel |-> c])
    BY <1>1, <1>12 DEF StartPoll
  <2>2. /\ s.message \in {NoMessage, DiscoverMessage} /\ s.todo \in SUBSET Channels
        /\ Carries(a, s) /\ UNCHANGED lost
    BY <1>1, <1>2, <1>12 DEF StartPoll, At, DiscoveryOps, DiscoverySessions
  <2>3. PICK t : t = [op |-> "DISCOVER", at |-> "polling", message |-> s.message,
                      todo |-> s.todo \ {c}, found |-> {}, channel |-> c]
    OBVIOUS
  <2>4. t \in DiscoverySessions /\ Carries(a, t)
    BY <2>2, <2>3 DEF DiscoverySessions, Carries
  <2> QED BY <2>1, <2>2, <2>3, <2>4, BeginPuts
<1>13. CASE PollAnswers(a)
  <2>1. PICK items \in SUBSET Videos :
           session' = [session EXCEPT ![a].at = "inserting", ![a].found = {v \in items : ~Exact(v)}]
    BY <1>13 DEF PollAnswers
  <2>2. PICK found \in SUBSET Videos : found = {v \in items : ~Exact(v)}
    OBVIOUS
  <2>3. PICK t : t = [s EXCEPT !.at = "inserting", !.found = found]
    OBVIOUS
  <2>4. s \in DiscoverySessions /\ s.op = "DISCOVER" /\ s.at = "polling" /\ Carries(a, s)
    BY <1>1, <1>2, <1>13 DEF PollAnswers, At, DiscoveryOps
  <2>5. t \in DiscoverySessions /\ t.message = s.message
    BY <2>3, <2>4 DEF DiscoverySessions
  <2>6. session'[a] = t
    BY <1>1, <2>1, <2>2, <2>3 DEF Shaped
  <2> QED BY <1>13, <2>4, <2>5, <2>6 DEF Puts, PollAnswers, Carries
<1>14. CASE InsertFound(a) \/ PollFails(a)
  BY <1>1, <1>14, AfterPollPuts DEF InsertFound, PollFails, At
<1>15. CASE TakeDiscovery(a) /\ a \in Workers
  <2>1. PICK t : t = Polling(due, DiscoverMessage)
    OBVIOUS
  <2>2. t \in DiscoverySessions /\ t.message = DiscoverMessage
    BY <2>1 DEF Polling, DiscoverySessions, DiscoveryTypeOK
  <2>3. Receive(a, DiscoverMessage, t) \/ UNCHANGED <<session, lost>>
    BY <1>15, <2>1 DEF TakeDiscovery
  <2> QED BY <1>15, <2>2, <2>3, ReceivePuts, StayPuts
<1> QED BY <1>5, <1>6, <1>7, <1>8, <1>9, <1>10, <1>11, <1>12, <1>13, <1>14, <1>15
    DEF DiscoveryHandler, Discover

(* Operations. *)
OperationKnown(a) ==
    session[a].op \in OperationOps => session[a] \in OperationSessions /\ Carries(a, session[a])

OperationRows ==
    /\ reviewTask \in [open : BOOLEAN, done : BOOLEAN]
    /\ raised \subseteq Concerns
    /\ posted \in [Reports -> 0..MaxPosts]

LEMMA HealthIs ==
  ASSUME OperationRows, NEW m \in {NoMessage, RefreshMessage}, NEW s \in Health(m)
  PROVE  s \in OperationSessions /\ s.message = m
<1>1. \A undecided \in ClipsUndecided : AwaitsReview(undecided) \in BOOLEAN
  BY DEF AwaitsReview, ClipsUndecided
<1>2. PICK seen \in SeenConcerns, undecided \in ClipsUndecided :
         s = [op |-> "REFRESH", at |-> "loaded", message |-> m,
              pending |-> AwaitsReview(undecided), task |-> reviewTask, concerns |-> seen,
              raised |-> raised]
  BY DEF Health
<1>3. seen \in SUBSET Concerns /\ raised \in SUBSET Concerns
  BY DEF SeenConcerns, OperationRows
<1> QED BY <1>1, <1>2, <1>3 DEF OperationSessions, OperationRows

LEMMA OperationsKeepTypes ==
  ASSUME Shaped, NEW a \in Actors, OperationKnown(a), OperationRows, ReportsInv,
         RefreshMessage \in Messages,
         \/ a \in Operators /\ OperationsHandler(a)
         \/ Operate(a)
         \/ a \in Workers /\ TakeRefresh(a)
  PROVE  OperationRows' /\ Puts(a, OperationSessions)
<1>1. PICK s : s = session[a]
  OBVIOUS
<1>2. s.op \in OperationOps => s \in OperationSessions /\ Carries(a, s)
  BY <1>1 DEF OperationKnown
<1>3. ASSUME UNCHANGED operationsRows
      PROVE  OperationRows'
  BY <1>3 DEF operationsRows, OperationRows
<1>4. CASE CallRefresh(a) /\ a \in Operators
  <2>1. PICK t \in Health(NoMessage) : Begin(a, t)
    BY <1>4 DEF CallRefresh
  <2>2. t \in OperationSessions /\ t.message = NoMessage
    BY HealthIs
  <2> QED BY <1>3, <1>4, <2>1, <2>2, CallPuts DEF CallRefresh
<1>5. CASE TakeRefresh(a) /\ a \in Workers
  <2>1. PICK t \in Health(RefreshMessage) : Receive(a, RefreshMessage, t)
    BY <1>5 DEF TakeRefresh
  <2>2. t \in OperationSessions /\ t.message = RefreshMessage
    BY HealthIs
  <2> QED BY <1>3, <1>5, <2>1, <2>2, ReceivePuts DEF TakeRefresh
<1>6. CASE LeaveQuiet(a) \/ PostFails(a)
  BY <1>3, <1>6, EndPuts DEF LeaveQuiet, PostFails
<1>7. CASE RefreshFails(a)
  BY <1>1, <1>2, <1>3, <1>7, ExceptionPuts DEF RefreshFails, At, OperationOps
<1>8. CASE CreateReports(a)
  BY <1>8, EndPuts DEF CreateReports, OperationRows
<1>9. CASE Refresh(a)
  <2>1. s \in OperationSessions /\ Carries(a, s) /\ s.op = "REFRESH" /\ s.at = "loaded"
    BY <1>1, <1>2, <1>9 DEF Refresh, At, OperationOps
  <2>2. s.concerns \in SUBSET Concerns
    BY <2>1 DEF OperationSessions
  <2>3. reviewTask' \in [open : BOOLEAN, done : BOOLEAN]
    <3>1. \/ reviewTask' = [reviewTask EXCEPT !.open = TRUE]
          \/ reviewTask' = [open |-> FALSE, done |-> TRUE]
          \/ reviewTask' = reviewTask
      BY <1>9 DEF Refresh
    <3>2. PICK row \in [open : BOOLEAN, done : BOOLEAN] : row = reviewTask
      BY DEF OperationRows
    <3>3. [row EXCEPT !.open = TRUE] \in [open : BOOLEAN, done : BOOLEAN]
      BY Zenon
    <3>4. [open |-> FALSE, done |-> TRUE] \in [open : BOOLEAN, done : BOOLEAN]
      OBVIOUS
    <3> QED BY <3>1, <3>2, <3>3, <3>4
  <2>4. OperationRows'
    BY <1>1, <1>9, <2>2, <2>3 DEF Refresh, OperationRows
  <2>5. CASE End(a)
    BY <1>9, <2>4, <2>5, EndPuts DEF Refresh
  <2>6. CASE Goto(a, "refreshed")
    <3>1. PICK t : t = [s EXCEPT !.at = "refreshed"]
      OBVIOUS
    <3>2. t \in OperationSessions /\ t.message = s.message
      BY <2>1, <3>1 DEF OperationSessions
    <3> QED BY <1>1, <1>9, <2>1, <2>4, <2>6, <3>1, <3>2, GotoPuts DEF Refresh, Carries
  <2> QED BY <1>9, <2>5, <2>6 DEF Refresh
<1>10. CASE LoadReports(a) /\ a \in Operators
  <2>1. PICK t : t = [op |-> "DELIVER", at |-> "posting", message |-> NoMessage,
                      reports |-> PendingReports]
    OBVIOUS
  <2>2. PendingReports \in SUBSET Reports
    BY DEF PendingReports
  <2>3. t \in OperationSessions /\ t.message = NoMessage
    BY <2>1, <2>2 DEF OperationSessions
  <2> QED BY <1>3, <1>10, <2>1, <2>3, CallPuts DEF LoadReports
<1>11. CASE PostReport(a)
  <2>1. s \in OperationSessions /\ Carries(a, s) /\ s.op = "DELIVER" /\ s.at = "posting"
    BY <1>1, <1>2, <1>11 DEF PostReport, At, OperationOps
  <2>2. NextReport(s) \in Reports
    BY <1>1, <2>1, NextIsLoaded DEF ReportsInv, DeliveryFine, Delivering
  <2>3. posted' \in [Reports -> 0..MaxPosts]
    <3>1. PICK r \in Reports : r = NextReport(s)
      BY <2>2
    <3>2. posted[r] < MaxPosts /\ posted' = [posted EXCEPT ![r] = @ + 1]
      BY <1>1, <1>11, <3>1 DEF PostReport
    <3>3. posted[r] + 1 \in 0..MaxPosts
      BY <3>2, OperationsAssumption DEF OperationRows
    <3> QED BY <3>2, <3>3 DEF OperationRows
  <2>4. PICK t : t = [s EXCEPT !.at = "posted"]
    OBVIOUS
  <2>5. t \in OperationSessions /\ t.message = s.message
    BY <2>1, <2>4 DEF OperationSessions
  <2>6. Puts(a, OperationSessions)
    BY <1>1, <1>11, <2>1, <2>4, <2>5, GotoPuts DEF PostReport, Carries
  <2> QED BY <1>11, <2>3, <2>6 DEF PostReport, OperationRows
<1>12. CASE MarkDelivered(a)
  <2>1. s \in OperationSessions /\ Carries(a, s) /\ s.op = "DELIVER" /\ s.at = "posted"
    BY <1>1, <1>2, <1>12 DEF MarkDelivered, At, OperationOps
  <2>2. PICK rest : rest = s.reports \ {NextReport(s)}
    OBVIOUS
  <2>3. PICK t : t = [s EXCEPT !.at = "posting", !.reports = rest]
    OBVIOUS
  <2>4. t \in OperationSessions /\ t.message = s.message
    <3>1. s.reports \in SUBSET Reports
      BY <2>1 DEF OperationSessions
    <3> QED BY <2>1, <2>2, <2>3, <3>1 DEF OperationSessions
  <2>5. End(a) \/ session' = [session EXCEPT ![a].at = "posting", ![a].reports = rest]
    BY <1>1, <1>12, <2>2 DEF MarkDelivered
  <2>6. OperationRows'
    BY <1>12 DEF MarkDelivered, OperationRows
  <2>7. CASE session' = [session EXCEPT ![a].at = "posting", ![a].reports = rest]
    <3>1. session'[a] = t
      BY <1>1, <2>3, <2>7 DEF Shaped
    <3> QED BY <1>12, <2>1, <2>4, <2>6, <3>1 DEF MarkDelivered, Puts, Carries
  <2> QED BY <1>12, <2>5, <2>6, <2>7, EndPuts DEF MarkDelivered
<1> QED BY <1>4, <1>5, <1>6, <1>7, <1>8, <1>9, <1>10, <1>11, <1>12 DEF OperationsHandler, Operate

(* The autopilot. *)
AutopilotKnown(a) ==
    session[a].op \in AutopilotOps => session[a] \in AutopilotSessions /\ Carries(a, session[a])

LEMMA DecidingIs ==
  ASSUME policy \in Policy, NEW purpose \in Purposes, NEW object \in Objects,
         NEW time \in Times \cup {None}, NEW m \in {NoMessage, AdvanceMessage, DueMessage}
  PROVE  /\ Deciding(purpose, object, time, m) \in AutopilotSessions
         /\ Deciding(purpose, object, time, m).message = m
  BY DEF Deciding, AutopilotSessions

LEMMA AutopilotPuts ==
  ASSUME Shaped, NEW a \in Actors, AutopilotKnown(a), AutopilotTypeOK,
         \/ a \in Operators /\ AutopilotHandler(a)
         \/ Advance(a)
         \/ a \in Workers /\ \E m \in Messages \cap {AdvanceMessage, DueMessage} : TakeTick(a, m)
  PROVE  Puts(a, AutopilotSessions)
<1>1. PICK s : s = session[a]
  OBVIOUS
<1>2. s.op \in AutopilotOps => s \in AutopilotSessions /\ Carries(a, s)
  BY <1>1 DEF AutopilotKnown
<1>3. ASSUME NEW place \in {"allowed", "reserving"}, Goto(a, place), UNCHANGED lost,
             s.op \in Purposes, s.at # "policy"
      PROVE  Puts(a, AutopilotSessions)
  <2>1. PICK t : t = [s EXCEPT !.at = place]
    OBVIOUS
  <2>2. t \in AutopilotSessions /\ t.message = s.message
    BY <1>2, <1>3, <2>1 DEF AutopilotSessions, AutopilotOps, Purposes
  <2> QED BY <1>1, <1>2, <1>3, <2>1, <2>2, GotoPuts DEF Carries, AutopilotOps
<1>4. CASE (LoadControl(a) \/ LoadPolicy(a)) /\ a \in Operators
  <2>1. PICK t, u : /\ t = [op |-> "CONTROL", at |-> "loaded", message |-> NoMessage, copy |-> control]
                    /\ u = [op |-> "POLICY", at |-> "loaded", message |-> NoMessage, copy |-> policy]
    OBVIOUS
  <2>2. {t, u} \subseteq AutopilotSessions /\ t.message = NoMessage /\ u.message = NoMessage
    BY <2>1 DEF AutopilotSessions, AutopilotTypeOK
  <2>3. UNCHANGED lost /\ (Begin(a, t) \/ Begin(a, u))
    BY <1>4, <2>1 DEF LoadControl, LoadPolicy
  <2> QED BY <1>4, <2>2, <2>3, CallPuts
<1>5. CASE CommitControl(a) \/ CommitPolicy(a) \/ ReserveSlot(a)
  BY <1>5, EndPuts DEF CommitControl, CommitPolicy, ReserveSlot
<1>6. CASE CallDecision(a) /\ a \in Operators
  <2>1. PICK object \in Items, time \in Times, purpose \in {"SCHEDULE", "PREVIEW"} :
           Begin(a, Deciding(purpose, object, time, NoMessage))
    BY <1>6 DEF CallDecision
  <2>2. /\ Deciding(purpose, object, time, NoMessage) \in AutopilotSessions
        /\ Deciding(purpose, object, time, NoMessage).message = NoMessage
    BY DecidingIs DEF AutopilotTypeOK, Purposes, Objects
  <2> QED BY <1>6, <2>1, <2>2, CallPuts DEF CallDecision
<1>7. CASE Consider(a)
  <2>1. s \in AutopilotSessions /\ Carries(a, s) /\ s.op \in Purposes /\ UNCHANGED lost
    BY <1>1, <1>2, <1>7 DEF Consider, AutopilotOps
  <2>2. /\ s.message \in {NoMessage, AdvanceMessage, DueMessage} /\ s.object \in Objects
        /\ s.time \in Times \cup {None} /\ s.copy \in Policy
    BY <2>1 DEF AutopilotSessions, Purposes
  <2>3. PICK t : t = [op |-> s.op, at |-> "considered", message |-> s.message,
                      object |-> s.object, time |-> s.time, copy |-> s.copy,
                      allowed |-> Allows(s), known |-> s.object \in exceptions]
    OBVIOUS
  <2>4. Allows(s) \in BOOLEAN
    BY DEF Allows
  <2>5. t \in AutopilotSessions /\ t.message = s.message
    BY <2>1, <2>2, <2>3, <2>4 DEF AutopilotSessions
  <2> QED BY <1>1, <1>7, <2>1, <2>3, <2>5, BeginPuts DEF Consider, Carries
<1>8. CASE EnterDecision(a)
  <2>1. s.op \in Purposes /\ s.at = "considered" /\ UNCHANGED lost /\ (Goto(a, "allowed") \/ End(a))
    BY <1>1, <1>8 DEF EnterDecision
  <2> QED BY <1>3, <2>1, EndPuts
<1>9. CASE DecisionCollides(a)
  BY <1>1, <1>2, <1>9, ExceptionPuts DEF DecisionCollides, AutopilotOps
<1>10. CASE LookForSlot(a)
  <2>1. /\ s.op \in Purposes /\ s.at = "allowed" /\ UNCHANGED lost
        /\ Goto(a, "reserving") \/ End(a)
    BY <1>1, <1>10 DEF LookForSlot, At, Purposes
  <2> QED BY <1>3, <2>1, EndPuts
<1>11. ASSUME a \in Workers, NEW m \in Messages \cap {AdvanceMessage, DueMessage}, TakeTick(a, m)
       PROVE  Puts(a, AutopilotSessions)
  <2>1. CASE UNCHANGED <<session, lost>>
    BY <2>1, StayPuts
  <2>2. ASSUME NEW purpose \in Purposes, NEW object \in Objects,
               Receive(a, m, Deciding(purpose, object, None, m))
        PROVE  Puts(a, AutopilotSessions)
    <3>1. /\ Deciding(purpose, object, None, m) \in AutopilotSessions
          /\ Deciding(purpose, object, None, m).message = m
      BY DecidingIs DEF AutopilotTypeOK
    <3> QED BY <1>11, <2>2, <3>1, ReceivePuts
  <2> QED BY <1>11, <2>1, <2>2 DEF TakeTick, Purposes, Objects
<1> QED BY <1>4, <1>5, <1>6, <1>7, <1>8, <1>9, <1>10, <1>11 DEF AutopilotHandler, Advance

(* Ingestion. *)
IngestionKnown(a) ==
    session[a].op \in IngestionOps => session[a] \in IngestionSessions /\ Carries(a, session[a])

LEMMA IngestionPuts ==
  ASSUME Shaped, NEW o \in Operators, IngestionKnown(o), ItemsFine, feed \in Feed,
         IngestionHandler(o)
  PROVE  Puts(o, IngestionSessions)
<1>1. PICK s : s = session[o]
  OBVIOUS
<1>2. s.op \in IngestionOps => s \in IngestionSessions /\ s.message = NoMessage
  <2>1. o \in Actors /\ o \notin Workers
    BY CeleryAssumption DEF Actors
  <2> QED BY <1>1, <2>1 DEF IngestionKnown, Carries
<1>3. ASSUME NEW t, Begin(o, t), t \in IngestionSessions, t.message = NoMessage, UNCHANGED lost
      PROVE  Puts(o, IngestionSessions)
  BY <1>3, CallPuts
<1>4. ASSUME NEW t, t = [session[o] EXCEPT !.at = t.at], Goto(o, t.at), t \in IngestionSessions,
             t.message = NoMessage, UNCHANGED lost
      PROVE  Puts(o, IngestionSessions)
  BY <1>3, <1>4 DEF Begin, Goto
<1>5. CASE SubmitUrl(o)
  <2>1. PICK k \in Keys, l \in Links :
           Begin(o, [op |-> "URL", at |-> "submitted", message |-> NoMessage,
                     key |-> k, thing |-> l])
    BY <1>5 DEF SubmitUrl
  <2> QED BY <1>3, <1>5, <2>1 DEF SubmitUrl, IngestionSessions
<1>6. CASE SubmitUpload(o)
  <2>1. CASE UNCHANGED session
    BY <1>6, <2>1, StayPuts DEF SubmitUpload
  <2>2. ASSUME NEW k \in Keys, NEW f \in Files,
               Begin(o, [op |-> "UPLOAD", at |-> "receiving", message |-> NoMessage,
                         key |-> k, thing |-> f])
        PROVE  Puts(o, IngestionSessions)
    BY <1>3, <1>6, <2>2 DEF SubmitUpload, IngestionSessions
  <2> QED BY <1>6, <2>1, <2>2 DEF SubmitUpload
<1>7. CASE CheckUrl(o) \/ ReceiveUpload(o)
  <2>1. CASE End(o)
    BY <1>7, <2>1, EndPuts DEF CheckUrl, ReceiveUpload, Actors
  <2>2. ASSUME NEW place \in {"fetching", "finalized"}, Goto(o, place), s.op \in {"URL", "UPLOAD"}
        PROVE  Puts(o, IngestionSessions)
    <3>1. PICK t : t = [s EXCEPT !.at = place]
      OBVIOUS
    <3>2. t \in IngestionSessions /\ t.message = NoMessage /\ t.at = place
      BY <1>2, <2>2, <3>1 DEF IngestionSessions, IngestionOps
    <3> QED BY <1>1, <1>4, <1>7, <2>2, <3>1, <3>2 DEF CheckUrl, ReceiveUpload
  <2> QED BY <1>1, <1>7, <2>1, <2>2 DEF CheckUrl, ReceiveUpload, At
<1>8. CASE FetchUrl(o)
  <2>1. CASE End(o)
    BY <1>8, <2>1, EndPuts DEF FetchUrl, Actors
  <2>2. ASSUME NEW final \in Links, Begin(o, [s EXCEPT !.at = "storing", !.thing = final])
        PROVE  Puts(o, IngestionSessions)
    <3>1. PICK t : t = [s EXCEPT !.at = "storing", !.thing = final]
      OBVIOUS
    <3>2. s \in IngestionSessions /\ s.op = "URL" /\ UNCHANGED lost
      BY <1>1, <1>2, <1>8 DEF FetchUrl, At, IngestionOps
    <3>3. t \in IngestionSessions /\ t.message = NoMessage
      BY <3>1, <3>2 DEF IngestionSessions
    <3> QED BY <1>3, <2>2, <3>1, <3>2, <3>3
  <2> QED BY <1>1, <1>8, <2>1, <2>2 DEF FetchUrl
<1>9. CASE \/ StoreUrl(o) \/ StoreUpload(o) \/ FinishRegistration(o) \/ FinishValidation(o)
           \/ CommitFeedStatus(o) \/ FinishRun(o) \/ RunFails(o) \/ CommitTransition(o)
  BY <1>9, EndPuts
  DEF StoreUrl, StoreUpload, FinishRegistration, FinishValidation, CommitFeedStatus, FinishRun,
      RunFails, CommitTransition, Actors
<1>10. CASE RegisterFeed(o)
  BY <1>3, <1>10 DEF RegisterFeed, IngestionSessions
<1>11. CASE LoadFeed(o)
  <2>1. PICK op \in {"VALIDATE", "ACTIVATE", "PAUSE", "BLOCK", "POLL"} :
           Begin(o, [op |-> op, at |-> "loaded", message |-> NoMessage, feed |-> feed])
    BY <1>11 DEF LoadFeed
  <2>2. PICK t : t = [op |-> op, at |-> "loaded", message |-> NoMessage, feed |-> feed]
    OBVIOUS
  <2>3. t \in IngestionSessions /\ t.message = NoMessage
    BY <2>2 DEF IngestionSessions
  <2> QED BY <1>3, <1>11, <2>1, <2>2, <2>3 DEF LoadFeed
<1>12. CASE StartRun(o)
  <2>1. s \in IngestionSessions /\ s.op = "POLL" /\ UNCHANGED lost
    BY <1>1, <1>2, <1>12 DEF StartRun, At, IngestionOps
  <2>2. PICK row \in Feed : row = s.feed
    BY <2>1 DEF IngestionSessions
  <2>3. PICK leased : leased = [row EXCEPT !.leased = TRUE]
    OBVIOUS
  <2>4. leased \in Feed
    BY <2>3, Zenon DEF Feed
  <2>5. PICK t : t = [s EXCEPT !.at = "fetching", !.feed = leased]
    OBVIOUS
  <2>6. t \in IngestionSessions /\ t.message = NoMessage
    BY <1>2, <2>1, <2>4, <2>5 DEF IngestionSessions, IngestionOps
  <2>7. [s EXCEPT !.at = "fetching", !.feed.leased = TRUE] = t
    BY <2>1, <2>2, <2>3, <2>5 DEF IngestionSessions
  <2> QED BY <1>1, <1>3, <1>12, <2>1, <2>6, <2>7 DEF StartRun
<1>13. CASE LoadItem(o)
  <2>1. PICK w \in Ways :
           /\ content[w] # NoItem
           /\ Begin(o, [op |-> "TRANSITION", at |-> "loaded", message |-> NoMessage,
                        way |-> w, status |-> content[w].status])
    BY <1>13 DEF LoadItem
  <2>2. content[w].status \in ItemStatuses
    BY <2>1 DEF ItemsFine
  <2>3. PICK t : t = [op |-> "TRANSITION", at |-> "loaded", message |-> NoMessage,
                      way |-> w, status |-> content[w].status]
    OBVIOUS
  <2>4. t \in IngestionSessions /\ t.message = NoMessage
    BY <2>2, <2>3 DEF IngestionSessions
  <2> QED BY <1>3, <1>13, <2>1, <2>3, <2>4 DEF LoadItem
<1> QED BY <1>5, <1>6, <1>7, <1>8, <1>9, <1>10, <1>11, <1>12, <1>13 DEF IngestionHandler

LEMMA FeedKeepsType ==
  ASSUME ItemsFine, feed \in Feed,
         FeedTime \/ \E o \in Operators : IngestionHandler(o)
  PROVE  feed' \in Feed
<1>1. PICK row \in Feed : row = feed
  OBVIOUS
<1>2. published \in SUBSET Entries
  BY DEF ItemsFine
<1>3. ASSUME NEW status \in {"ACTIVE", "FAILING", "PAUSED", "BLOCKED"}, NEW t
      PROVE  [row EXCEPT !.status = StatusOf(t, status)] \in Feed
  <2>1. StatusOf(t, status) \in {"ABSENT", "ACTIVE", "FAILING", "PAUSED", "BLOCKED"}
    BY <1>1 DEF StatusOf, Updated, Feed
  <2> QED BY <2>1, Zenon DEF Feed
<1>4. ASSUME NEW status \in {"ACTIVE", "FAILING", "PAUSED", "BLOCKED"}, NEW soon \in BOOLEAN,
             NEW leased \in BOOLEAN, NEW etag \in SUBSET Entries
      PROVE  /\ [row EXCEPT !.due = soon] \in Feed /\ [row EXCEPT !.leased = leased] \in Feed
             /\ [row EXCEPT !.leased = leased, !.run = "RUNNING"] \in Feed
             /\ [row EXCEPT !.etag = etag, !.leased = FALSE, !.due = FALSE, !.run = "SUCCEEDED"] \in Feed
  BY Zenon DEF Feed
<1>5. ASSUME FeedTime PROVE feed' \in Feed
  BY <1>1, <1>4, <1>5 DEF FeedTime
<1>6. ASSUME NEW o \in Operators, IngestionHandler(o) PROVE feed' \in Feed
  <2>1. PICK s : s = session[o]
    OBVIOUS
  <2>2. CASE FinishRegistration(o)
    BY <1>2, <2>2 DEF FinishRegistration, NoFeed, Feed
  <2>3. CASE FinishValidation(o)
    <3>1. PICK status : status = StatusOf(s, "ACTIVE")
      OBVIOUS
    <3>2. status \in {"ABSENT", "ACTIVE", "FAILING", "PAUSED", "BLOCKED"}
      BY <1>1, <3>1 DEF StatusOf, Updated, Feed
    <3>3. [row EXCEPT !.status = status, !.etag = published] \in Feed
      BY <1>2, <3>2, Zenon DEF Feed
    <3> QED BY <1>1, <1>3, <2>1, <2>3, <3>1, <3>3 DEF FinishValidation
  <2>4. CASE CommitFeedStatus(o)
    <3>1. PICK status, leased : status = StatusOf(s, "BLOCKED") /\ leased = Updated(row.leased, s.feed.leased, FALSE)
      OBVIOUS
    <3>2. status \in {"ABSENT", "ACTIVE", "FAILING", "PAUSED", "BLOCKED"} /\ leased \in BOOLEAN
      BY <1>1, <3>1 DEF StatusOf, Updated, Feed
    <3>3. [row EXCEPT !.status = status, !.leased = leased] \in Feed
      BY <3>2, Zenon DEF Feed
    <3>4. NoFeed \in Feed
      BY DEF NoFeed, Feed
    <3>5. [row EXCEPT !.status = StatusOf(s, "BLOCKED"), !.leased = Updated(@, s.feed.leased, FALSE)] \in Feed
      BY <3>1, <3>3
    <3> QED BY <1>1, <1>3, <2>1, <2>4, <3>4, <3>5 DEF CommitFeedStatus
  <2>5. CASE StartRun(o)
    BY <1>1, <1>4, <2>5 DEF StartRun
  <2>6. CASE FinishRun(o)
    <3>1. PICK etag : etag = Updated(row.etag, s.feed.etag, published)
      OBVIOUS
    <3>2. etag \in SUBSET Entries
      BY <1>1, <1>2, <3>1 DEF Updated, Feed
    <3>3. [row EXCEPT !.etag = etag, !.leased = FALSE, !.due = FALSE, !.run = "SUCCEEDED"] \in Feed
      BY <1>4, <3>2
    <3> QED BY <1>1, <2>1, <2>6, <3>1, <3>3 DEF FinishRun
  <2>7. CASE RunFails(o)
    <3>1. PICK status : status = StatusOf(s, "FAILING")
      OBVIOUS
    <3>2. status \in {"ABSENT", "ACTIVE", "FAILING", "PAUSED", "BLOCKED"}
      BY <1>1, <3>1 DEF StatusOf, Updated, Feed
    <3>3. [row EXCEPT !.status = status, !.leased = FALSE, !.run = "FAILED"] \in Feed
      BY <3>2, Zenon DEF Feed
    <3> QED BY <1>1, <2>1, <2>7, <3>1, <3>3 DEF RunFails
  <2>8. CASE \/ SubmitUrl(o) \/ CheckUrl(o) \/ FetchUrl(o) \/ StoreUrl(o) \/ SubmitUpload(o)
             \/ ReceiveUpload(o) \/ StoreUpload(o) \/ RegisterFeed(o) \/ LoadFeed(o)
             \/ LoadItem(o) \/ CommitTransition(o)
    <3>1. UNCHANGED feed
      BY <2>8
      DEF SubmitUrl, CheckUrl, FetchUrl, StoreUrl, SubmitUpload, ReceiveUpload,
          StoreUpload, RegisterFeed, LoadFeed, LoadItem, CommitTransition, ingestionRows
    <3> QED BY <3>1
  <2> QED BY <1>6, <2>2, <2>3, <2>4, <2>5, <2>6, <2>7, <2>8 DEF IngestionHandler
<1> QED BY <1>5, <1>6

(* The Discord community. *)
BotKnown(o) == session[o].op \in BotOps => session[o] \in BotSessions

LEMMA FoundIsKnown ==
  ASSUME CommunityTypeOK, NEW i \in Layout
  PROVE  Found(i) \in 0..MaxThings
<1>1. registry[i] \in 0..MaxThings /\ 0 \in 0..MaxThings
  BY CommunityAssumption DEF CommunityTypeOK
<1>2. Named(i) \subseteq 0..MaxThings
  BY CommunityAssumption DEF CommunityTypeOK, Named
<1> QED BY <1>1, <1>2 DEF Found

LEMMA EnterPuts ==
  ASSUME Shaped, NEW o \in Operators, NEW s, Enter(o, s), UNCHANGED lost,
         \A at \in {s.at, "waiting"}, i \in BOOLEAN :
            [op |-> s.op, at |-> at, message |-> NoMessage, inserts |-> i, more |-> s.more]
                \in BotSessions
  PROVE  Puts(o, BotSessions)
<1>1. PICK at \in {s.at, "waiting"}, i \in BOOLEAN :
         Begin(o, [op |-> s.op, at |-> at, message |-> NoMessage, inserts |-> i, more |-> s.more])
  BY DEF Enter
<1>2. PICK t : t = [op |-> s.op, at |-> at, message |-> NoMessage, inserts |-> i, more |-> s.more]
  OBVIOUS
<1>3. t \in BotSessions /\ t.message = NoMessage
  BY <1>2
<1> QED BY <1>1, <1>2, <1>3, CallPuts

LEMMA BotPuts ==
  ASSUME Shaped, NEW o \in Operators, BotKnown(o), CommunityTypeOK, CommunityInv,
         CommunityHandler(o)
  PROVE  Puts(o, BotSessions)
<1>1. PICK s : s = session[o]
  OBVIOUS
<1>2. s.op \in BotOps => s \in BotSessions
  BY <1>1 DEF BotKnown
<1>3. o \in Actors /\ o \notin Workers
  BY CeleryAssumption DEF Actors
<1>4. ASSUME NEW t \in BotSessions, session'[o] = t, UNCHANGED lost
      PROVE  Puts(o, BotSessions)
  <2>1. t.message = NoMessage
    BY DEF BotSessions
  <2> QED BY <1>3, <1>4, <2>1 DEF Puts, Carries
<1>5. ASSUME NEW place, Goto(o, place), UNCHANGED lost, s.op \in BotOps,
             [s EXCEPT !.at = place] \in BotSessions
      PROVE  Puts(o, BotSessions)
  BY <1>1, <1>3, <1>4, <1>5, GotoEffect
<1>6. 1 \in Layout /\ 0 \in 0..MaxThings /\ Cardinality(Layout) \in Nat
      /\ Layout = 1..Cardinality(Layout) /\ MaxThings \in Nat
  BY LayoutIsInterval, CommunityAssumption
<1>7. CASE CallSetup(o)
  <2>1. PICK panels \in BOOLEAN :
           Enter(o, [op |-> "SETUP", at |-> "placing",
                     more |-> Placing(1, [i \in Layout |-> 0], {}, panels)])
    BY <1>7 DEF CallSetup
  <2>2. PICK more : more = Placing(1, [i \in Layout |-> 0], {}, panels)
    OBVIOUS
  <2>3. more \in [item : Layout, found : 0..MaxThings, ids : [Layout -> 0..MaxThings],
                  absent : SUBSET Layout, panels : BOOLEAN]
    BY <1>6, <2>2, FoundIsKnown DEF Placing
  <2>4. \A at \in {"placing", "waiting"}, i \in BOOLEAN :
           [op |-> "SETUP", at |-> at, message |-> NoMessage, inserts |-> i, more |-> more]
               \in BotSessions
    BY <2>3 DEF BotSessions
  <2> QED BY <1>7, <2>1, <2>2, <2>4, EnterPuts DEF CallSetup
<1>8. CASE PlaceItem(o)
  <2>1. s.op = "SETUP" /\ s.at = "placing" /\ s \in BotSessions /\ UNCHANGED lost
    BY <1>1, <1>2, <1>8 DEF PlaceItem, Resumes, At, BotOps
  <2>2. PICK m \in [item : Layout, found : 0..MaxThings, ids : [Layout -> 0..MaxThings],
                    absent : SUBSET Layout, panels : BOOLEAN] : m = s.more
    BY <2>1 DEF BotSessions
  <2>3. PICK id : id = IF m.found # 0 THEN m.found ELSE Len(server) + 1
    OBVIOUS
  <2>4. id \in 0..MaxThings
    BY <1>1, <1>8, <2>2, <2>3 DEF PlaceItem, CommunityTypeOK
  <2>5. PICK ids : ids = [m.ids EXCEPT ![m.item] = id]
    OBVIOUS
  <2>6. PICK absent : absent = m.absent \cup {i \in {m.item} : registry[i] = 0}
    OBVIOUS
  <2>7. ids \in [Layout -> 0..MaxThings] /\ absent \in SUBSET Layout
    BY <2>2, <2>4, <2>5, <2>6
  <2>8. CASE m.item < Cardinality(Layout)
    <3>1. PICK next : next = Placing(m.item + 1, ids, absent, m.panels)
      OBVIOUS
    <3>2. m.item + 1 \in Layout
      BY <1>6, <2>2, <2>8
    <3>3. next \in [item : Layout, found : 0..MaxThings, ids : [Layout -> 0..MaxThings],
                    absent : SUBSET Layout, panels : BOOLEAN]
      BY <2>2, <2>7, <3>1, <3>2, FoundIsKnown DEF Placing
    <3>4. session' = [session EXCEPT ![o].more = next]
      BY <1>1, <1>8, <2>2, <2>3, <2>5, <2>6, <2>8, <3>1 DEF PlaceItem
    <3>5. PICK t : t = [s EXCEPT !.more = next]
      OBVIOUS
    <3>6. session'[o] = t
      BY <1>1, <1>3, <3>4, <3>5 DEF Shaped
    <3>7. t \in BotSessions
      BY <2>1, <3>3, <3>5 DEF BotSessions
    <3> QED BY <1>4, <2>1, <3>6, <3>7
  <2>9. CASE ~(m.item < Cardinality(Layout))
    <3>1. session' = [session EXCEPT ![o].at = "placed", ![o].more.ids = ids,
                                     ![o].more.absent = absent]
      BY <1>1, <1>8, <2>2, <2>3, <2>5, <2>6, <2>9 DEF PlaceItem
    <3>2. PICK next : next = [m EXCEPT !.ids = ids, !.absent = absent]
      OBVIOUS
    <3>3. next \in [item : Layout, found : 0..MaxThings, ids : [Layout -> 0..MaxThings],
                    absent : SUBSET Layout, panels : BOOLEAN]
      BY <2>2, <2>7, <3>2, Zenon
    <3>4. PICK t : t = [s EXCEPT !.at = "placed", !.more = next]
      OBVIOUS
    <3>5. session'[o] = t
      BY <1>1, <1>3, <2>1, <2>2, <3>1, <3>2, <3>4 DEF Shaped, BotSessions
    <3>6. t \in BotSessions
      BY <2>1, <3>3, <3>4 DEF BotSessions
    <3> QED BY <1>4, <2>1, <3>5, <3>6
  <2> QED BY <2>8, <2>9
<1>9. CASE CommitSetup(o)
  <2>1. CASE EndInException(o)
    BY <1>1, <1>2, <1>3, <1>9, <2>1, ExceptionPuts
    DEF CommitSetup, Resumes, At, BotOps, BotSessions, Carries
  <2>2. CASE End(o) /\ UNCHANGED lost
    BY <1>3, <2>2, EndPuts
  <2>3. PICK t : t = [op |-> "PANELS", at |-> "posting", message |-> NoMessage,
                      inserts |-> FALSE, more |-> panel.saved]
    OBVIOUS
  <2>4. t \in BotSessions
    BY <2>3 DEF BotSessions, CommunityTypeOK
  <2>5. CASE Begin(o, t) /\ UNCHANGED lost
    BY <1>3, <1>4, <2>4, <2>5, BeginEffect
  <2> QED BY <1>9, <2>1, <2>2, <2>3, <2>5 DEF CommitSetup
<1>10. CASE CallReset(o)
  <2>1. \A at \in {"obsolete", "waiting"}, i \in BOOLEAN :
           [op |-> "RESET", at |-> at, message |-> NoMessage, inserts |-> i, more |-> 0]
               \in BotSessions
    BY DEF BotSessions
  <2> QED BY <1>10, <2>1, EnterPuts DEF CallReset
<1>11. CASE DeleteObsolete(o) \/ DeleteReplaced(o)
  <2>1. s.op = "RESET" /\ s \in BotSessions /\ UNCHANGED lost
        /\ \E place \in {"replaced", "deleted"} : Goto(o, place)
    BY <1>1, <1>2, <1>11 DEF DeleteObsolete, DeleteReplaced, Resumes, At, BotOps
  <2>2. \A place \in {"replaced", "deleted"} : [s EXCEPT !.at = place] \in BotSessions
    BY <2>1 DEF BotSessions
  <2> QED BY <1>5, <2>1, <2>2 DEF BotOps
<1>12. CASE CommitReset(o) \/ CommitNotice(o) \/ OpenCase(o)
  BY <1>3, <1>12, EndPuts DEF CommitReset, CommitNotice, OpenCase
<1>13. CASE ResetPreview(o) \/ AcceptAtOnce(o) \/ MoveTicket(o) \/ DraftNotice(o) \/ AppealCase(o)
  BY <1>13, StayPuts DEF ResetPreview, AcceptAtOnce, MoveTicket, DraftNotice, AppealCase
<1>14. CASE CallPanels(o)
  <2>1. \A at \in {"posting", "waiting"}, i \in BOOLEAN :
           [op |-> "PANELS", at |-> at, message |-> NoMessage, inserts |-> i,
            more |-> panel.saved] \in BotSessions
    BY DEF BotSessions, CommunityTypeOK
  <2> QED BY <1>14, <2>1, EnterPuts DEF CallPanels
<1>15. CASE PostPanel(o)
  <2>1. s.op = "PANELS" /\ s.at = "posting" /\ s \in BotSessions /\ UNCHANGED lost
    BY <1>1, <1>2, <1>15 DEF PostPanel, Resumes, At, BotOps
  <2>2. PICK known \in 0..MaxThings : known = s.more
    BY <2>1 DEF BotSessions
  <2>3. PICK id : id = IF known # 0 THEN known ELSE panel.sent + 1
    OBVIOUS
  <2>4. panel.sent \in 0..MaxThings /\ id <= MaxThings
        /\ session' = [session EXCEPT ![o].at = "posted",
                                      ![o].more = [id |-> id, absent |-> panel.saved = 0]]
    BY <1>1, <1>15, <2>2, <2>3 DEF PostPanel, CommunityTypeOK
  <2>5. PICK next : next = [id |-> id, absent |-> panel.saved = 0]
    OBVIOUS
  <2>6. next \in [id : 0..MaxThings, absent : BOOLEAN]
    BY <1>6, <2>2, <2>3, <2>4, <2>5
  <2>7. PICK t : t = [s EXCEPT !.at = "posted", !.more = next]
    OBVIOUS
  <2>8. t \in BotSessions
    BY <2>1, <2>6, <2>7 DEF BotSessions
  <2>9. session'[o] = t
    BY <1>1, <1>3, <2>4, <2>5, <2>7 DEF Shaped
  <2> QED BY <1>4, <2>1, <2>8, <2>9
<1>16. CASE CommitPanels(o) \/ CommitAccept(o) \/ CommitRoles(o) \/ FileTicket(o)
  <2>1. Carries(o, s) /\ (EndInException(o) \/ (End(o) /\ UNCHANGED lost))
    BY <1>1, <1>2, <1>3, <1>16
    DEF CommitPanels, CommitAccept, CommitRoles, FileTicket, Resumes, At, BotOps, BotSessions, Carries
  <2> QED BY <1>1, <1>3, <2>1, EndPuts, ExceptionPuts
<1>17. CASE CallAccept(o)
  <2>1. \A at \in {"giving", "waiting"}, i \in BOOLEAN :
           [op |-> "RULES", at |-> at, message |-> NoMessage, inserts |-> i,
            more |-> member.accepted] \in BotSessions
    BY DEF BotSessions, CommunityTypeOK
  <2> QED BY <1>17, <2>1, EnterPuts DEF CallAccept
<1>18. CASE GiveRole(o)
  <2>1. s.op = "RULES" /\ s \in BotSessions /\ UNCHANGED lost /\ Goto(o, "given")
    BY <1>1, <1>2, <1>18 DEF GiveRole, Resumes, At, BotOps
  <2>2. [s EXCEPT !.at = "given"] \in BotSessions
    BY <2>1 DEF BotSessions
  <2> QED BY <1>5, <2>1, <2>2 DEF BotOps
<1>19. CASE CallRoles(o)
  <2>1. PICK selected \in SUBSET Badges :
           \E todo : /\ todo = (selected \ member.badges) \cup (member.badges \ selected)
                     /\ Enter(o, [op |-> "ROLES", at |-> "changing",
                                  more |-> [selected |-> selected, todo |-> todo, old |-> <<>>]])
    BY <1>19 DEF CallRoles
  <2>2. PICK todo :
           /\ todo = (selected \ member.badges) \cup (member.badges \ selected)
           /\ Enter(o, [op |-> "ROLES", at |-> "changing",
                        more |-> [selected |-> selected, todo |-> todo, old |-> <<>>]])
    BY <2>1
  <2>3. PICK more : more = [selected |-> selected, todo |-> todo, old |-> <<>>]
    OBVIOUS
  <2>4. todo \in SUBSET Badges
    BY <2>2 DEF CommunityTypeOK
  <2>5. more \in [selected : SUBSET Badges, todo : SUBSET Badges,
                  old : Seq([badge : Badges, was : GrantStatuses])]
    BY <2>3, <2>4
  <2>6. \A at \in {"changing", "waiting"}, i \in BOOLEAN :
           [op |-> "ROLES", at |-> at, message |-> NoMessage, inserts |-> i, more |-> more]
               \in BotSessions
    BY <2>5 DEF BotSessions
  <2> QED BY <1>19, <2>2, <2>3, <2>6, EnterPuts DEF CallRoles
<1>20. CASE ChangeRole(o)
  <2>1. s.op = "ROLES" /\ s.at = "changing" /\ s \in BotSessions /\ UNCHANGED lost
    BY <1>1, <1>2, <1>20 DEF ChangeRole, Resumes, At, BotOps
  <2>2. PICK m \in [selected : SUBSET Badges, todo : SUBSET Badges,
                    old : Seq([badge : Badges, was : GrantStatuses])] : m = s.more
    BY <2>1 DEF BotSessions
  <2>3. PICK badge : badge = CHOOSE b \in m.todo : \A c \in m.todo : b <= c
    OBVIOUS
  <2>4. badge \in Badges
    <3>1. m.todo \in SUBSET Nat /\ m.todo # {}
      <4>1. Badges \subseteq Nat
        BY CommunityAssumption, FS_CardinalityType
      <4> QED BY <1>1, <1>20, <2>2, <4>1 DEF ChangeRole
    <3>2. \E b \in m.todo : \A c \in m.todo : b <= c
      BY <3>1, LeastNumber
    <3> QED BY <2>2, <2>3, <3>2
  <2>5. PICK had : had = [badge |-> badge, was |-> member.grants[badge]]
    OBVIOUS
  <2>6. had \in [badge : Badges, was : GrantStatuses]
    BY <2>4, <2>5 DEF CommunityTypeOK
  <2>7. session' = [session EXCEPT ![o].more.todo = @ \ {badge}, ![o].more.old = Append(@, had)]
    BY <1>1, <1>20, <2>2, <2>3, <2>5 DEF ChangeRole
  <2>8. PICK next : next = [m EXCEPT !.todo = @ \ {badge}, !.old = Append(@, had)]
    OBVIOUS
  <2>9. next \in [selected : SUBSET Badges, todo : SUBSET Badges,
                  old : Seq([badge : Badges, was : GrantStatuses])]
    <3>1. m.todo \ {badge} \in SUBSET Badges
      BY <2>2
    <3>2. Append(m.old, had) \in Seq([badge : Badges, was : GrantStatuses])
      BY <2>2, <2>6
    <3>3. next = [m EXCEPT !.todo = m.todo \ {badge}, !.old = Append(m.old, had)]
      BY <2>2, <2>8
    <3> QED BY <2>2, <3>1, <3>2, <3>3, Zenon
  <2>10. PICK t : t = [s EXCEPT !.more = next]
    OBVIOUS
  <2>11. t \in BotSessions
    BY <2>1, <2>9, <2>10 DEF BotSessions
  <2>12. session'[o] = t
    BY <1>1, <1>3, <2>1, <2>2, <2>7, <2>8, <2>10 DEF Shaped, BotSessions
  <2> QED BY <1>4, <2>1, <2>11, <2>12
<1>21. CASE CallTicket(o)
  <2>1. Cardinality(Filed) + 1 \in 1..(MaxTickets + 1)
    <3>1. Cardinality(Filed) \in Nat /\ Cardinality(Filed) <= MaxTickets
      <4>1. IsFiniteSet(Tickets) /\ Cardinality(Tickets) = MaxTickets /\ MaxTickets \in Nat
        BY CommunityAssumption, FS_Interval DEF Tickets
      <4>2. Filed \subseteq Tickets
        BY DEF Filed
      <4> QED BY <4>1, <4>2, FS_Subset, FS_CardinalityType
    <3> QED BY <3>1, CommunityAssumption
  <2>2. \A at \in {"opening", "waiting"}, i \in BOOLEAN :
           [op |-> "TICKET", at |-> at, message |-> NoMessage, inserts |-> i,
            more |-> Cardinality(Filed) + 1] \in BotSessions
    BY <2>1 DEF BotSessions
  <2> QED BY <1>21, <2>2, EnterPuts DEF CallTicket
<1>22. CASE OpenChannel(o)
  <2>1. s.op = "TICKET" /\ s \in BotSessions /\ UNCHANGED lost /\ Goto(o, "opened")
    BY <1>1, <1>2, <1>22 DEF OpenChannel, Resumes, At, BotOps
  <2>2. [s EXCEPT !.at = "opened"] \in BotSessions
    BY <2>1 DEF BotSessions
  <2> QED BY <1>5, <2>1, <2>2 DEF BotOps
<1>23. CASE CallPublish(o)
  <2>1. \A at \in {"sending", "waiting"}, i \in BOOLEAN :
           [op |-> "ANNOUNCE", at |-> at, message |-> NoMessage, inserts |-> i, more |-> 0]
               \in BotSessions
    BY DEF BotSessions
  <2> QED BY <1>23, <2>1, EnterPuts DEF CallPublish
<1>24. CASE SendNotice(o)
  <2>1. s.op = "ANNOUNCE" /\ s \in BotSessions /\ UNCHANGED lost /\ Goto(o, "sent")
    BY <1>1, <1>2, <1>24 DEF SendNotice, Resumes, At, BotOps
  <2>2. [s EXCEPT !.at = "sent"] \in BotSessions
    BY <2>1 DEF BotSessions
  <2> QED BY <1>5, <2>1, <2>2 DEF BotOps
<1>25. CASE CallModeration(o)
  <2>1. PICK t : t = [op |-> "MODERATE", at |-> "deleting", message |-> NoMessage,
                      inserts |-> FALSE, more |-> 0]
    OBVIOUS
  <2>2. t \in BotSessions
    BY <2>1 DEF BotSessions
  <2> QED BY <1>3, <1>4, <1>25, <2>1, <2>2, BeginEffect DEF CallModeration
<1> QED BY <1>7, <1>8, <1>9, <1>10, <1>11, <1>12, <1>13, <1>14, <1>15, <1>16, <1>17, <1>18, <1>19,
           <1>20, <1>21, <1>22, <1>23, <1>24, <1>25
    DEF CommunityHandler

LEMMA TicketsMoveOn ==
  ASSUME NEW status \in TicketStatuses
  PROVE  TicketTransitions[status] \subseteq TicketStatuses
  BY DEF TicketTransitions, TicketStatuses

LEMMA CommunityKeepsTypes ==
  ASSUME Shaped, NEW o \in Operators, BotKnown(o), CommunityTypeOK, CommunityHandler(o)
  PROVE  CommunityTypeOK'
<1> DEFINE Ids == 0..MaxThings
<1>1. PICK s : s = session[o]
  OBVIOUS
<1>2. s.op \in BotOps => s \in BotSessions
  BY <1>1 DEF BotKnown
<1>3. MaxThings \in Nat /\ MaxTickets \in Nat
  BY CommunityAssumption
<1>4. CASE /\ UNCHANGED communityRows
  BY <1>4 DEF communityRows, CommunityTypeOK
<1>5. CASE PlaceItem(o)
  <2>1. s.op = "SETUP" /\ s.at = "placing" /\ s \in BotSessions
    BY <1>1, <1>2, <1>5 DEF PlaceItem, Resumes, At, BotOps
  <2>2. PICK m \in [item : Layout, found : Ids, ids : [Layout -> Ids],
                    absent : SUBSET Layout, panels : BOOLEAN] : m = s.more
    BY <2>1 DEF BotSessions
  <2>3. PICK row \in ServerThings : row = [item |-> m.item, fits |-> TRUE, alive |-> TRUE]
    BY DEF ServerThings
  <2>4. server' = server \/ (server' = Append(server, row) /\ Len(server) + 1 <= MaxThings)
    BY <1>1, <1>5, <2>2, <2>3 DEF PlaceItem
  <2>5. server' \in Seq(ServerThings) /\ Len(server') <= MaxThings
    <3>1. server \in Seq(ServerThings) /\ Len(server) <= MaxThings
      BY DEF CommunityTypeOK
    <3>2. Append(server, row) \in Seq(ServerThings) /\ Len(Append(server, row)) = Len(server) + 1
      BY <3>1
    <3> QED BY <2>4, <3>1, <3>2
  <2>6. UNCHANGED <<registry, obsolete, guild, panel, member, ticket, notice, cases>>
    BY <1>5 DEF PlaceItem, NoItemYet
  <2> QED BY <2>5, <2>6 DEF CommunityTypeOK
<1>6. CASE CommitSetup(o)
  <2>1. s.op = "SETUP" /\ s.at = "placed" /\ s \in BotSessions
    BY <1>1, <1>2, <1>6 DEF CommitSetup, Resumes, At, BotOps
  <2>2. s.more.ids \in [Layout -> Ids]
    BY <2>1 DEF BotSessions
  <2>3. registry' \in [Layout -> Ids]
    BY <1>1, <1>6, <2>2 DEF CommitSetup, CommunityTypeOK
  <2>4. guild' \in [row : BOOLEAN, state : {"PREVIEW", "APPLIED"}]
    <3>1. guild' = guild \/ guild' = [row |-> TRUE, state |-> "APPLIED"]
      BY <1>6 DEF CommitSetup
    <3>2. [row |-> TRUE, state |-> "APPLIED"] \in [row : BOOLEAN, state : {"PREVIEW", "APPLIED"}]
      OBVIOUS
    <3> QED BY <3>1, <3>2 DEF CommunityTypeOK
  <2>5. UNCHANGED <<server, obsolete, panel, member, ticket, notice, cases>>
    BY <1>6 DEF CommitSetup
  <2> QED BY <2>3, <2>4, <2>5 DEF CommunityTypeOK
<1>7. CASE ResetPreview(o) \/ AcceptAtOnce(o)
  <2>1. PICK g \in [row : BOOLEAN, state : {"PREVIEW", "APPLIED"}] : g = guild
    BY DEF CommunityTypeOK
  <2>2. PICK m \in [role : BOOLEAN, accepted : BOOLEAN, badges : SUBSET Badges,
                    grants : [Badges -> GrantStatuses]] : m = member
    BY DEF CommunityTypeOK
  <2>3. /\ [g EXCEPT !.state = "PREVIEW"] \in [row : BOOLEAN, state : {"PREVIEW", "APPLIED"}]
        /\ [g EXCEPT !.row = TRUE] \in [row : BOOLEAN, state : {"PREVIEW", "APPLIED"}]
        /\ [m EXCEPT !.accepted = TRUE] \in
              [role : BOOLEAN, accepted : BOOLEAN, badges : SUBSET Badges,
               grants : [Badges -> GrantStatuses]]
    BY Zenon
  <2>4. UNCHANGED <<server, obsolete, registry, panel, ticket, notice, cases>>
    BY <1>7 DEF ResetPreview, AcceptAtOnce
  <2>5. guild' = [g EXCEPT !.state = "PREVIEW"] \/ guild' = [g EXCEPT !.row = TRUE]
    BY <1>7, <2>1 DEF ResetPreview, AcceptAtOnce
  <2>6. member' = m \/ member' = [m EXCEPT !.accepted = TRUE]
    BY <1>7, <2>2 DEF ResetPreview, AcceptAtOnce
  <2> QED BY <2>2, <2>3, <2>4, <2>5, <2>6 DEF CommunityTypeOK
<1>8. CASE DeleteObsolete(o) \/ CommitReset(o)
  <2>1. PICK r \in [row : BOOLEAN, alive : BOOLEAN] : r = obsolete
    BY DEF CommunityTypeOK
  <2>2. /\ [r EXCEPT !.alive = FALSE] \in [row : BOOLEAN, alive : BOOLEAN]
        /\ [r EXCEPT !.row = FALSE] \in [row : BOOLEAN, alive : BOOLEAN]
    BY Zenon
  <2>3. UNCHANGED <<server, registry, panel, member, ticket, notice, cases>>
    BY <1>8 DEF DeleteObsolete, CommitReset
  <2>4. obsolete' = [r EXCEPT !.alive = FALSE] \/ obsolete' = [r EXCEPT !.row = FALSE]
    BY <1>8, <2>1 DEF DeleteObsolete, CommitReset
  <2>5. guild' = guild \/ guild' = [row |-> TRUE, state |-> "APPLIED"]
    BY <1>8 DEF DeleteObsolete, CommitReset
  <2>6. [row |-> TRUE, state |-> "APPLIED"] \in [row : BOOLEAN, state : {"PREVIEW", "APPLIED"}]
    OBVIOUS
  <2>7. guild' \in [row : BOOLEAN, state : {"PREVIEW", "APPLIED"}]
    BY <2>5, <2>6 DEF CommunityTypeOK
  <2>8. obsolete' \in [row : BOOLEAN, alive : BOOLEAN]
    BY <2>2, <2>4
  <2> QED BY <2>3, <2>7, <2>8 DEF CommunityTypeOK
<1>9. CASE DeleteReplaced(o)
  <2>1. server \in Seq(ServerThings) /\ Len(server) <= MaxThings
    BY DEF CommunityTypeOK
  <2>2. server' = [id \in DOMAIN server |-> [server[id] EXCEPT !.alive = @ /\ ~Replaced(id)]]
    BY <1>9 DEF DeleteReplaced
  <2>3. ASSUME NEW id \in DOMAIN server PROVE server'[id] \in ServerThings
    <3>1. PICK thing \in ServerThings : thing = server[id]
      BY <2>1
    <3>2. PICK still \in BOOLEAN : server'[id] = [thing EXCEPT !.alive = still]
      <4>1. (thing.alive /\ ~Replaced(id)) \in BOOLEAN
        OBVIOUS
      <4> QED BY <2>2, <3>1, <4>1
    <3> QED BY <3>2, Zenon DEF ServerThings
  <2>4. DOMAIN server' = DOMAIN server /\ DOMAIN server = 1..Len(server) /\ Len(server) \in Nat
    BY <2>1, <2>2
  <2>5. server' \in [1..Len(server) -> ServerThings]
    <3>1. server' = [id \in 1..Len(server) |-> server'[id]]
      BY <2>2, <2>4
    <3> QED BY <2>3, <2>4, <3>1
  <2>6. server' \in Seq(ServerThings) /\ Len(server') <= MaxThings
    BY <2>1, <2>4, <2>5
  <2>7. UNCHANGED <<obsolete, guild, registry, panel, member, ticket, notice, cases>>
    BY <1>9 DEF DeleteReplaced
  <2> QED BY <2>6, <2>7 DEF CommunityTypeOK
<1>10. CASE PostPanel(o) \/ CommitPanels(o)
  <2>1. s.op = "PANELS" /\ s \in BotSessions /\ s.at \in {"posting", "posted"}
        /\ (PostPanel(o) => s.at = "posting") /\ (CommitPanels(o) => s.at = "posted")
    BY <1>1, <1>2, <1>10 DEF PostPanel, CommitPanels, Resumes, At, BotOps
  <2>2. PICK p \in [sent : Ids, saved : Ids] : p = panel
    BY DEF CommunityTypeOK
  <2>3. \A id \in Ids : /\ [p EXCEPT !.sent = id] \in [sent : Ids, saved : Ids]
                        /\ [p EXCEPT !.saved = id] \in [sent : Ids, saved : Ids]
    BY Zenon
  <2>4. CASE PostPanel(o)
    <3>1. PICK known \in Ids : known = s.more
      BY <2>1, <2>4 DEF BotSessions
    <3>2. PICK id : id = IF known # 0 THEN known ELSE p.sent + 1
      OBVIOUS
    <3>3. PICK sent : sent = IF known # 0 THEN p.sent ELSE id
      OBVIOUS
    <3>4. panel' = [p EXCEPT !.sent = sent] /\ id <= MaxThings
      BY <1>1, <2>2, <2>4, <3>1, <3>2, <3>3 DEF PostPanel
    <3>5. sent \in Ids
      BY <1>3, <2>2, <3>1, <3>2, <3>3, <3>4
    <3> QED BY <2>3, <2>4, <3>4, <3>5 DEF PostPanel, CommunityTypeOK
  <2>5. CASE CommitPanels(o)
    <3>1. s.more.id \in Ids
      BY <2>1, <2>5 DEF BotSessions
    <3>2. panel' = p \/ panel' = [p EXCEPT !.saved = s.more.id]
      BY <1>1, <2>2, <2>5 DEF CommitPanels
    <3>3. panel' \in [sent : Ids, saved : Ids]
      BY <2>3, <3>1, <3>2
    <3> QED BY <2>5, <3>3 DEF CommitPanels, CommunityTypeOK
  <2> QED BY <1>10, <2>4, <2>5
<1>11. CASE GiveRole(o) \/ CommitAccept(o) \/ ChangeRole(o) \/ CommitRoles(o)
  <2> DEFINE Rows == [role : BOOLEAN, accepted : BOOLEAN, badges : SUBSET Badges,
                      grants : [Badges -> GrantStatuses]]
  <2>1. PICK m \in Rows : m = member
    BY DEF CommunityTypeOK
  <2>2. [m EXCEPT !.role = TRUE] \in Rows /\ [m EXCEPT !.accepted = TRUE] \in Rows
    BY Zenon
  <2>3. CASE GiveRole(o) \/ CommitAccept(o)
    <3>1. UNCHANGED <<server, obsolete, guild, registry, panel, ticket, notice, cases>>
      BY <2>3 DEF GiveRole, CommitAccept, setupRows
    <3>2. member' = m \/ member' = [m EXCEPT !.role = TRUE] \/ member' = [m EXCEPT !.accepted = TRUE]
      BY <2>1, <2>3 DEF GiveRole, CommitAccept
    <3> QED BY <2>2, <3>1, <3>2 DEF CommunityTypeOK
  <2>4. ChangeRole(o) \/ CommitRoles(o) =>
           s.op = "ROLES" /\ s.at = "changing" /\ s \in BotSessions
    BY <1>1, <1>2 DEF ChangeRole, CommitRoles, Resumes, At, BotOps
  <2>5. CASE ChangeRole(o)
    <3>1. PICK badge : badge = CHOOSE b \in s.more.todo : \A c \in s.more.todo : b <= c
      OBVIOUS
    <3>2. s.more.selected \in SUBSET Badges
      BY <2>4, <2>5 DEF BotSessions
    <3>3. PICK badges : badges = IF badge \in s.more.selected THEN m.badges \cup {badge}
                                                              ELSE m.badges \ {badge}
      OBVIOUS
    <3>4. badges \in SUBSET Badges
      BY <3>2, <3>3
    <3>5. [m EXCEPT !.badges = badges] \in Rows
      BY <3>4, Zenon
    <3>6. member' = [m EXCEPT !.badges = badges]
      BY <1>1, <2>1, <2>5, <3>1, <3>3 DEF ChangeRole
    <3> QED BY <2>5, <3>5, <3>6 DEF ChangeRole, CommunityTypeOK, setupRows
  <2>6. CASE CommitRoles(o)
    <3>1. CASE UNCHANGED member
      BY <2>6, <3>1 DEF CommitRoles, CommunityTypeOK, setupRows
    <3>2. CASE ~ UNCHANGED member
      <4> DEFINE old == {s.more.old[n] : n \in DOMAIN s.more.old}
                 Chosen(b) == IF b \in s.more.selected THEN "ACTIVE" ELSE "REMOVED"
      <4>1. PICK grants : grants = [b \in Badges |->
                                      IF \E g \in old : g.badge = b /\ g.was # Chosen(b)
                                      THEN Chosen(b) ELSE m.grants[b]]
        OBVIOUS
      <4>2. member' = [m EXCEPT !.grants = grants]
        BY <1>1, <2>1, <2>6, <3>2, <4>1 DEF CommitRoles
      <4>3. grants \in [Badges -> GrantStatuses]
        BY <4>1 DEF GrantStatuses
      <4>4. [m EXCEPT !.grants = grants] \in Rows
        BY <4>3, Zenon
      <4> QED BY <2>6, <4>2, <4>4 DEF CommitRoles, CommunityTypeOK, setupRows
    <3> QED BY <3>1, <3>2
  <2> QED BY <1>11, <2>3, <2>5, <2>6
<1>12. CASE OpenChannel(o) \/ FileTicket(o) \/ MoveTicket(o)
  <2> DEFINE Rows == [Tickets -> TicketStatuses \cup {"ABSENT"}]
  <2>1. PICK t \in [rows : Rows, channels : 0..MaxTickets] : t = ticket
    BY DEF CommunityTypeOK
  <2>2. \A n \in 0..MaxTickets : [t EXCEPT !.channels = n] \in [rows : Rows, channels : 0..MaxTickets]
    BY Zenon
  <2>3. CASE OpenChannel(o)
    <3>1. PICK n \in 0..MaxTickets : n = t.channels + 1
      BY <1>3, <2>1, <2>3 DEF OpenChannel
    <3>2. ticket' = [t EXCEPT !.channels = n]
      BY <2>1, <2>3, <3>1 DEF OpenChannel
    <3> QED BY <2>2, <2>3, <3>2 DEF OpenChannel, CommunityTypeOK, setupRows
  <2>4. ASSUME NEW n, NEW status \in TicketStatuses, ticket' = [ticket EXCEPT !.rows[n] = status]
        PROVE  ticket' \in [rows : Rows, channels : 0..MaxTickets]
    <3>1. PICK tr : tr = [t.rows EXCEPT ![n] = status]
      OBVIOUS
    <3>2. tr \in Rows
      BY <2>4, <3>1
    <3>3. [t EXCEPT !.rows = tr] \in [rows : Rows, channels : 0..MaxTickets]
      BY <3>2, Zenon
    <3> QED BY <2>1, <2>4, <3>1, <3>3
  <2>5. CASE FileTicket(o)
    <3>1. ticket' = ticket \/ \E n : ticket' = [ticket EXCEPT !.rows[n] = "NEW"]
      BY <2>5 DEF FileTicket
    <3>2. ticket' \in [rows : Rows, channels : 0..MaxTickets]
      BY <2>1, <2>4, <3>1 DEF TicketStatuses
    <3> QED BY <2>5, <3>2 DEF FileTicket, CommunityTypeOK, setupRows
  <2>6. CASE MoveTicket(o)
    <3>1. PICK n \in Filed :
             \E status \in TicketTransitions[ticket.rows[n]]
                           \cup (IF ticket.rows[n] = "NEW" THEN {"WAITING_FOR_STAFF"} ELSE {})
                           \cup {"WAITING_FOR_CUSTOMER"} :
                ticket' = [ticket EXCEPT !.rows[n] = status]
      BY <2>6 DEF MoveTicket
    <3>2. ticket.rows[n] \in TicketStatuses
      BY <2>1, <3>1 DEF Filed
    <3>3. PICK status \in TicketStatuses : ticket' = [ticket EXCEPT !.rows[n] = status]
      BY <3>1, <3>2, TicketsMoveOn DEF TicketStatuses
    <3>4. ticket' \in [rows : Rows, channels : 0..MaxTickets]
      BY <2>4, <3>3
    <3> QED BY <2>6, <3>4 DEF MoveTicket, CommunityTypeOK, setupRows
  <2> QED BY <1>12, <2>3, <2>5, <2>6
<1>13. CASE DraftNotice(o) \/ SendNotice(o) \/ CommitNotice(o)
  <2> DEFINE Rows == [status : {"ABSENT", "DRAFT", "PUBLISHED"}, sent : Ids]
  <2>1. PICK r \in Rows : r = notice
    BY DEF CommunityTypeOK
  <2>2. /\ [r EXCEPT !.status = "DRAFT"] \in Rows /\ [r EXCEPT !.status = "PUBLISHED"] \in Rows
        /\ \A n \in Ids : [r EXCEPT !.sent = n] \in Rows
    BY Zenon
  <2>3. CASE SendNotice(o)
    <3>1. PICK n \in Ids : n = r.sent + 1
      BY <1>3, <2>1, <2>3 DEF SendNotice
    <3>2. notice' = [r EXCEPT !.sent = n]
      BY <2>1, <2>3, <3>1 DEF SendNotice
    <3> QED BY <2>2, <2>3, <3>2 DEF SendNotice, CommunityTypeOK, setupRows
  <2>4. CASE DraftNotice(o) \/ CommitNotice(o)
    BY <2>1, <2>2, <2>4 DEF DraftNotice, CommitNotice, CommunityTypeOK, setupRows
  <2> QED BY <1>13, <2>3, <2>4
<1>14. CASE OpenCase(o) \/ AppealCase(o)
  <2>1. cases' \in [Tickets -> {"ABSENT", "OPEN", "APPEALED"}]
    BY <1>14 DEF OpenCase, AppealCase, CommunityTypeOK
  <2> QED BY <1>14, <2>1 DEF OpenCase, AppealCase, CommunityTypeOK, setupRows
<1>15. CASE \/ CallSetup(o) \/ CallReset(o) \/ CallPanels(o) \/ CallAccept(o) \/ CallRoles(o)
            \/ CallTicket(o) \/ CallPublish(o) \/ CallModeration(o)
  BY <1>4, <1>15
  DEF CallSetup, CallReset, CallPanels, CallAccept, CallRoles, CallTicket, CallPublish,
      CallModeration
<1> QED BY <1>5, <1>6, <1>7, <1>8, <1>9, <1>10, <1>11, <1>12, <1>13, <1>14, <1>15
    DEF CommunityHandler

(* The TikTok connection. *)
ConnectionKnown(a) ==
    session[a].op \in ConnectionOps => session[a] \in ConnectionSessions /\ Carries(a, session[a])

LEMMA ConnectingIs ==
  ASSUME ConnectionsTypeOK, NEW op \in ConnectionOps, NEW m \in {NoMessage, TokensMessage},
         NEW place \in {"loaded", "revoking", "touch"}, NEW reference \in 0..MaxTokens
  PROVE  /\ Connecting(op, place, m, reference) \in ConnectionSessions
         /\ Connecting(op, place, m, reference).message = m
<1>1. 0 \in 0..MaxTokens /\ NoFile \in CredentialFile
  BY ConnectionsAssumption DEF NoFile, CredentialFile
<1> QED BY <1>1 DEF Connecting, ConnectionSessions, ConnectionsTypeOK

LEMMA ConnectionsKeepTypes ==
  ASSUME Shaped, NEW a \in Actors, ConnectionKnown(a), ConnectionsTypeOK,
         TokensMessage \in Messages,
         \/ a \in Operators /\ ConnectionsHandler(a)
         \/ Connect(a)
         \/ a \in Workers /\ TakeTokens(a)
  PROVE  ConnectionsTypeOK' /\ Puts(a, ConnectionSessions)
<1> DEFINE Account == [active : BOOLEAN, reference : 0..MaxTokens]
           Issuer == [issued : 0..MaxTokens, spent : SUBSET Tokens, spoilt : BOOLEAN]
<1>1. PICK s : s = session[a]
  OBVIOUS
<1>2. s.op \in ConnectionOps => s \in ConnectionSessions /\ Carries(a, s)
  BY <1>1 DEF ConnectionKnown
<1>3. MaxTokens \in Nat /\ 0 \in 0..MaxTokens /\ NoFile \in CredentialFile
  BY ConnectionsAssumption DEF NoFile, CredentialFile
<1>4. PICK r \in Account, i \in Issuer : r = account /\ i = tiktok
  BY DEF ConnectionsTypeOK
<1>5. ASSUME UNCHANGED connectionRows PROVE ConnectionsTypeOK'
  BY <1>5 DEF connectionRows, ConnectionsTypeOK
<1>6. ASSUME NEW t \in ConnectionSessions, session'[a] = t, t.message = s.message, UNCHANGED lost,
             s.op \in ConnectionOps
      PROVE  Puts(a, ConnectionSessions)
  BY <1>2, <1>6 DEF Puts, Carries
<1>7. ASSUME NEW place, Goto(a, place), UNCHANGED lost, s.op \in ConnectionOps,
             place \in {"drop", "recording"}
      PROVE  Puts(a, ConnectionSessions)
  <2>1. PICK t : t = [s EXCEPT !.at = place]
    OBVIOUS
  <2>2. t \in ConnectionSessions /\ t.message = s.message
    BY <1>2, <1>7, <2>1 DEF ConnectionSessions
  <2> QED BY <1>1, <1>6, <1>7, <2>1, <2>2, GotoEffect
<1>8. ASSUME NEW state \in ConnectionStates, Records(a, state)
      PROVE  connection' \in ConnectionStates
  BY <1>8 DEF Records, Updated, ConnectionsTypeOK
<1>9. ASSUME Degrade(a) PROVE connection' \in ConnectionStates /\ End(a)
  BY <1>8, <1>9 DEF Degrade, ConnectionStates
<1>10. CASE OpenFile(a) /\ s.op \in ConnectionOps
  <2>1. UNCHANGED <<account, store, tiktok, oauth, lost>>
    BY <1>10 DEF OpenFile
  <2>2. CASE Degrade(a)
    BY <1>9, <2>1, <2>2, EndPuts DEF ConnectionsTypeOK
  <2>3. CASE ~Degrade(a)
    <3>1. UNCHANGED connection /\ s.at \in {"put", "drop", "touch"}
          /\ session' = [session EXCEPT ![a].file = store,
                             ![a].at = [put |-> "putting", drop |-> "dropping",
                                        touch |-> "touching"][s.at]]
      BY <1>1, <1>10, <2>3 DEF OpenFile
    <3>2. PICK place \in {"putting", "dropping", "touching"} :
             place = [put |-> "putting", drop |-> "dropping", touch |-> "touching"][s.at]
      BY <3>1
    <3>3. PICK t : t = [s EXCEPT !.file = store, !.at = place]
      OBVIOUS
    <3>4. session'[a] = t
      BY <1>1, <3>1, <3>2, <3>3 DEF Shaped
    <3>5. t \in ConnectionSessions /\ t.message = s.message
      BY <1>2, <1>10, <3>3 DEF ConnectionSessions, ConnectionsTypeOK
    <3>6. ConnectionsTypeOK'
      BY <2>1, <3>1 DEF ConnectionsTypeOK
    <3> QED BY <1>6, <1>10, <2>1, <3>4, <3>5, <3>6
  <2> QED BY <2>2, <2>3
<1>11. CASE WriteFile(a) /\ s.op \in ConnectionOps
  <2>1. s.at \in {"putting", "dropping", "touching"} /\ UNCHANGED <<account, connection, oauth, lost>>
    BY <1>1, <1>11 DEF WriteFile
  <2>2. s.file \in CredentialFile /\ s.token \in 0..MaxTokens
    BY <1>2, <1>11 DEF ConnectionSessions
  <2>3. store' \in CredentialFile
    <3>1. store' = InFile(s)
      BY <1>1, <1>11 DEF WriteFile
    <3> QED BY <1>3, <2>1, <2>2, <3>1 DEF InFile, CredentialFile
  <2>4. tiktok' \in Issuer
    <3>1. PICK spoilt \in BOOLEAN : spoilt = (i.spoilt \/ store # s.file)
      BY <1>4
    <3>2. [i EXCEPT !.spoilt = spoilt] \in Issuer
      BY Zenon
    <3>3. tiktok' = [i EXCEPT !.spoilt = spoilt]
      BY <1>1, <1>4, <1>11, <3>1 DEF WriteFile
    <3> QED BY <3>2, <3>3
  <2>5. PICK place \in {"recording", "verifying", "exchanging"} :
           /\ s.op = "TOKENS" => place # "exchanging"
           /\ session' = [session EXCEPT ![a].at = place, ![a].file = NoFile]
    <3> DEFINE Following ==
                 [TOKENS |-> "recording", DISCONNECT |-> "recording", AUTHORIZE |-> "recording",
                  CALLBACK |-> [putting |-> "verifying", dropping |-> "recording",
                                touching |-> "exchanging"][s.at]][s.op]
    <3>1. /\ Following \in {"recording", "verifying", "exchanging"}
          /\ s.op = "TOKENS" => Following # "exchanging"
      BY <1>11, <2>1 DEF ConnectionOps
    <3>2. session' = [session EXCEPT ![a].at = Following, ![a].file = NoFile]
      BY <1>1, <1>11 DEF WriteFile
    <3> QED BY <3>1, <3>2
  <2>6. PICK t : t = [s EXCEPT !.at = place, !.file = NoFile]
    OBVIOUS
  <2>7. session'[a] = t
    BY <1>1, <2>5, <2>6 DEF Shaped
  <2>8. t \in ConnectionSessions /\ t.message = s.message
    BY <1>2, <1>3, <1>11, <2>5, <2>6 DEF ConnectionSessions
  <2>9. ConnectionsTypeOK'
    BY <2>1, <2>3, <2>4 DEF ConnectionsTypeOK
  <2> QED BY <1>6, <1>11, <2>1, <2>7, <2>8, <2>9
<1>12. CASE TakeTokens(a) /\ a \in Workers
  <2>1. PICK reference \in 0..MaxTokens :
           Receive(a, TokensMessage, Connecting("TOKENS", "loaded", TokensMessage, reference))
    <3>1. account.reference \in 0..MaxTokens
      BY <1>4
    <3> QED BY <1>3, <1>12, <3>1 DEF TakeTokens
  <2>2. /\ Connecting("TOKENS", "loaded", TokensMessage, reference) \in ConnectionSessions
        /\ Connecting("TOKENS", "loaded", TokensMessage, reference).message = TokensMessage
    BY ConnectingIs DEF ConnectionOps
  <2> QED BY <1>5, <1>12, <2>1, <2>2, ReceivePuts DEF TakeTokens
<1>13. CASE (AskForTokens(a) \/ CallDisconnect(a) \/ CallAuthorize(a) \/ CallCallback(a))
            /\ a \in Operators
  <2>1. PICK op \in ConnectionOps, place \in {"loaded", "revoking", "touch"},
             reference \in 0..MaxTokens : Begin(a, Connecting(op, place, NoMessage, reference))
    <3>1. account.reference \in 0..MaxTokens
      BY <1>4
    <3> QED BY <1>3, <1>13, <3>1
        DEF AskForTokens, CallDisconnect, CallAuthorize, CallCallback, ConnectionOps
  <2>2. /\ Connecting(op, place, NoMessage, reference) \in ConnectionSessions
        /\ Connecting(op, place, NoMessage, reference).message = NoMessage
    BY ConnectingIs
  <2>3. ConnectionsTypeOK'
    <3>1. UNCHANGED <<account, connection, store, tiktok>>
          /\ (UNCHANGED oauth \/ (oauth > 0 /\ oauth' = oauth - 1))
      BY <1>13 DEF AskForTokens, CallDisconnect, CallAuthorize, CallCallback, connectionRows
    <3> QED BY <3>1 DEF ConnectionsTypeOK
  <2> QED BY <1>13, <2>1, <2>2, <2>3, CallPuts
      DEF AskForTokens, CallDisconnect, CallAuthorize, CallCallback
<1>14. CASE NoRefresh(a)
  BY <1>5, <1>14, EndPuts DEF NoRefresh
<1>15. CASE LockAccount(a)
  <2>1. s.op = "TOKENS" /\ s.reference # 0 /\ s \in ConnectionSessions
        /\ UNCHANGED <<account, store, tiktok, oauth, lost>>
    BY <1>1, <1>2, <1>15 DEF LockAccount, At, ConnectionOps
  <2>2. CASE store[s.reference] = 0
    <3>1. End(a) /\ connection' = "DEGRADED"
      BY <1>1, <1>15, <2>2 DEF LockAccount
    <3> QED BY <2>1, <3>1, EndPuts DEF ConnectionsTypeOK, ConnectionStates
  <2>3. CASE store[s.reference] # 0
    <3>1. UNCHANGED connection
          /\ session' = [session EXCEPT ![a].at = "exchanging", ![a].state = connection,
                                        ![a].token = store[s.reference]]
      BY <1>1, <1>15, <2>3 DEF LockAccount
    <3>2. store[s.reference] \in 0..MaxTokens
      BY <1>3, <2>1 DEF ConnectionSessions, ConnectionsTypeOK, CredentialFile, Tokens
    <3>3. PICK t : t = [s EXCEPT !.at = "exchanging", !.state = connection,
                                 !.token = store[s.reference]]
      OBVIOUS
    <3>4. session'[a] = t
      BY <1>1, <3>1, <3>3 DEF Shaped
    <3>5. t \in ConnectionSessions /\ t.message = s.message
      BY <2>1, <2>3, <3>2, <3>3 DEF ConnectionSessions, ConnectionsTypeOK
    <3>6. ConnectionsTypeOK'
      BY <2>1, <3>1 DEF ConnectionsTypeOK
    <3> QED BY <1>6, <2>1, <3>4, <3>5, <3>6 DEF ConnectionOps
  <2> QED BY <2>2, <2>3
<1>16. CASE ExchangeTokens(a)
  <2>1. s.op = "TOKENS" /\ s.at = "exchanging" /\ tiktok.issued < MaxTokens
        /\ UNCHANGED <<account, store, oauth, lost>>
    BY <1>1, <1>16 DEF ExchangeTokens, At
  <2>2. s \in ConnectionSessions /\ s.token \in Tokens
    BY <1>2, <1>3, <2>1 DEF ConnectionOps, ConnectionSessions, Tokens
  <2>3. PICK n \in 0..MaxTokens : n = i.issued + 1
    BY <1>3, <1>4, <2>1
  <2>4. PICK spent \in SUBSET Tokens : spent = i.spent \cup {s.token}
    BY <1>4, <2>2
  <2>5. [i EXCEPT !.issued = n, !.spent = spent] \in Issuer
        /\ [i EXCEPT !.spent = spent, !.spoilt = TRUE] \in Issuer
    BY Zenon
  <2>6. CASE Degrade(a)
    <3>1. tiktok' = [i EXCEPT !.issued = n, !.spent = spent]
          \/ tiktok' = [i EXCEPT !.spent = spent, !.spoilt = TRUE]
      BY <1>1, <1>4, <1>16, <2>3, <2>4 DEF ExchangeTokens
    <3>2. ConnectionsTypeOK'
      BY <1>9, <2>1, <2>5, <2>6, <3>1 DEF ConnectionsTypeOK
    <3> QED BY <1>9, <2>1, <2>6, <3>2, EndPuts
  <2>7. CASE ~Degrade(a)
    <3>1. session' = [session EXCEPT ![a].at = "put", ![a].token = n]
          /\ tiktok' = [i EXCEPT !.issued = n, !.spent = spent] /\ UNCHANGED connection
      BY <1>1, <1>4, <1>16, <2>3, <2>4, <2>7 DEF ExchangeTokens
    <3>2. PICK t : t = [s EXCEPT !.at = "put", !.token = n]
      OBVIOUS
    <3>3. session'[a] = t
      BY <1>1, <3>1, <3>2 DEF Shaped
    <3>4. t \in ConnectionSessions /\ t.message = s.message
      BY <2>2, <3>2 DEF ConnectionSessions
    <3>5. ConnectionsTypeOK'
      BY <2>1, <2>5, <3>1 DEF ConnectionsTypeOK
    <3> QED BY <1>6, <2>1, <3>3, <3>4, <3>5 DEF ConnectionOps
  <2> QED BY <2>6, <2>7
<1>17. CASE ExchangeFails(a)
  BY <1>9, <1>17, EndPuts DEF ExchangeFails, ConnectionsTypeOK
<1>18. CASE RecordRefresh(a)
  <2>1. connection' \in ConnectionStates
    BY <1>8, <1>18 DEF RecordRefresh, ConnectionStates
  <2> QED BY <1>18, <2>1, EndPuts DEF RecordRefresh, ConnectionsTypeOK
<1>19. CASE RevokeTokens(a)
  <2>1. s.op = "DISCONNECT" /\ UNCHANGED <<account, store, tiktok, oauth, lost>>
    BY <1>1, <1>19 DEF RevokeTokens, At
  <2>2. CASE Degrade(a)
    BY <1>9, <2>1, <2>2, EndPuts DEF ConnectionsTypeOK
  <2>3. CASE Goto(a, "drop") /\ UNCHANGED connection
    BY <1>7, <2>1, <2>3 DEF ConnectionsTypeOK, ConnectionOps
  <2> QED BY <1>19, <2>2, <2>3 DEF RevokeTokens
<1>20. CASE RecordDisconnect(a)
  <2>1. connection' \in ConnectionStates
    BY <1>8, <1>20 DEF RecordDisconnect, ConnectionStates
  <2>2. account' \in Account
    <3>1. [r EXCEPT !.active = FALSE] \in Account
      BY Zenon
    <3> QED BY <1>4, <1>20, <3>1 DEF RecordDisconnect
  <2> QED BY <1>20, <2>1, <2>2, EndPuts DEF RecordDisconnect, ConnectionsTypeOK
<1>21. CASE RecordState(a)
  BY <1>21, EndPuts DEF RecordState, ConnectionsTypeOK
<1>22. CASE ExchangeCode(a)
  <2>1. s.op = "CALLBACK" /\ UNCHANGED <<account, connection, store, oauth, lost>>
    BY <1>1, <1>22 DEF ExchangeCode, At
  <2>2. CASE End(a) /\ UNCHANGED tiktok
    BY <2>1, <2>2, EndPuts DEF ConnectionsTypeOK
  <2>3. CASE ~(End(a) /\ UNCHANGED tiktok)
    <3>1. tiktok.issued < MaxTokens
          /\ tiktok' = [tiktok EXCEPT !.issued = @ + 1]
          /\ session' = [session EXCEPT ![a].at = "put", ![a].state = connection,
                           ![a].reference = tiktok.issued + 1, ![a].token = tiktok.issued + 1]
      BY <1>22, <2>3 DEF ExchangeCode
    <3>2. PICK n \in 0..MaxTokens : n = i.issued + 1
      BY <1>3, <1>4, <3>1
    <3>3. tiktok' = [i EXCEPT !.issued = n]
      BY <1>4, <3>1, <3>2
    <3>4. [i EXCEPT !.issued = n] \in Issuer
      BY Zenon
    <3>5. PICK t : t = [s EXCEPT !.at = "put", !.state = connection, !.reference = n, !.token = n]
      OBVIOUS
    <3>6. session'[a] = t
      BY <1>1, <1>4, <3>1, <3>2, <3>5 DEF Shaped
    <3>7. t \in ConnectionSessions /\ t.message = s.message
      BY <1>2, <2>1, <3>5 DEF ConnectionSessions, ConnectionOps, ConnectionsTypeOK
    <3>8. ConnectionsTypeOK'
      BY <2>1, <3>3, <3>4 DEF ConnectionsTypeOK
    <3> QED BY <1>6, <2>1, <3>6, <3>7, <3>8 DEF ConnectionOps
  <2> QED BY <2>2, <2>3
<1>23. CASE VerifyConnection(a)
  <2>1. s.op = "CALLBACK" /\ UNCHANGED <<connectionRows, lost>>
    BY <1>1, <1>23 DEF VerifyConnection, At
  <2>2. CASE Goto(a, "recording")
    BY <1>5, <1>7, <2>1, <2>2 DEF ConnectionOps
  <2>3. CASE session' = [session EXCEPT ![a].at = "drop", ![a].token = 0]
    <3>1. PICK t : t = [s EXCEPT !.at = "drop", !.token = 0]
      OBVIOUS
    <3>2. session'[a] = t
      BY <1>1, <2>3, <3>1 DEF Shaped
    <3>3. t \in ConnectionSessions /\ t.message = s.message
      BY <1>2, <1>3, <2>1, <3>1 DEF ConnectionSessions, ConnectionOps
    <3> QED BY <1>5, <1>6, <2>1, <3>2, <3>3 DEF ConnectionOps
  <2> QED BY <1>23, <2>2, <2>3 DEF VerifyConnection
<1>24. CASE RecordCallback(a)
  <2>1. s \in ConnectionSessions
    BY <1>1, <1>2, <1>24 DEF RecordCallback, At, ConnectionOps
  <2>2. connection' \in ConnectionStates
    BY <1>8, <1>24 DEF RecordCallback, ConnectionStates
  <2>3. account' \in Account
    <3>1. PICK n \in 0..MaxTokens : n = s.reference
      BY <2>1 DEF ConnectionSessions
    <3>2. [r EXCEPT !.reference = n] \in Account
      BY Zenon
    <3> QED BY <1>1, <1>4, <1>24, <3>1, <3>2 DEF RecordCallback
  <2> QED BY <1>24, <2>2, <2>3, EndPuts DEF RecordCallback, ConnectionsTypeOK
<1> QED BY <1>1, <1>10, <1>11, <1>12, <1>13, <1>14, <1>15, <1>16, <1>17, <1>18, <1>19, <1>20,
           <1>21, <1>22, <1>23, <1>24
    DEF ConnectionsHandler, Connect
=============================================================================
