----------------------------- MODULE MCPipeline -----------------------------
(***************************************************************************)
(* Pipeline for TLC.  What people do in one behaviour is confined to one   *)
(* part of the system, focus, and to a number of calls; the workers carry  *)
(* the project through all stages.  A behaviour starts where its part of   *)
(* the work does.  The second worker is employed for content packages only *)
(* (the production deployment has one).  How the windows are found that    *)
(* clips are suggested for is looked at by itself, in the part WINDOWS.    *)
(***************************************************************************)
EXTENDS Console, ClipWindows

CONSTANTS
    Focuses,            \* the parts to look at
    FirstWorker,        \* the worker that there is in every part
    MaxSourceCalls, MaxAnalysisCalls, MaxReviewCalls,
    MaxPackageCalls, MaxMediaCalls, MaxPlanCalls,
    MaxOperationsCalls, MaxAutopilotCalls, MaxIntakeCalls,
    MaxDiscoveryCalls, MaxPostCalls, MaxCommunityCalls, MaxConnectCalls,
    MaxAdviceCalls  \* bounds: handler calls

VARIABLES focus, calls

MaxCalls == [SOURCE |-> MaxSourceCalls, ANALYSIS |-> MaxAnalysisCalls,
             REVIEW |-> MaxReviewCalls, PACKAGE |-> MaxPackageCalls,
             MEDIA |-> MaxMediaCalls, CORRECTION |-> MaxPlanCalls,
             OPERATIONS |-> MaxOperationsCalls, AUTOPILOT |-> MaxAutopilotCalls,
             INTAKE |-> MaxIntakeCalls, DISCOVERY |-> MaxDiscoveryCalls,
             POSTS |-> MaxPostCalls, COMMUNITY |-> MaxCommunityCalls,
             CONNECT |-> MaxConnectCalls, ADVICE |-> MaxAdviceCalls, WINDOWS |-> 0]

AllOpportunities == (1..MaxGenerations) \X Moments

Downloaded == [status |-> "SOURCE_READY", selected |-> CHOOSE s \in Sources : TRUE,
               key |-> CHOOSE s \in Sources : TRUE, error |-> FALSE]
Analysed == [status |-> "COMPLETED", transcript |-> 1, whole |-> TRUE]

(* A clip that is being published, or was rejected while a grant lasts.    *)
ReviewedInit ==
    /\ \/ grant = "NONE" /\ approval = "APPROVED" /\ publishing = "PROTECTED"
       \/ grant = "ACTIVE" /\ approval = "REJECTED" /\ publishing = "NONE"
    /\ asset = [kept |-> TRUE, due |-> FALSE, hold |-> "NONE"] /\ file = TRUE
    /\ behind = {}
    /\ inspection = [v \in Inspections |-> "ABSENT"]

(* A clip that was inspected, and for which a plan was drawn up.           *)
PlannedInit ==
    /\ grant = "NONE" /\ approval = "PENDING" /\ publishing = "NONE"
    /\ asset = [kept |-> TRUE, due |-> FALSE, hold |-> "NONE"] /\ file = TRUE
    /\ behind = {}
    /\ inspection = [v \in Inspections |-> IF v = 1 THEN "COMPLETED" ELSE "ABSENT"]
    /\ plan = [p \in Plans |-> [status |-> IF p = 1 THEN "DRAFT" ELSE "ABSENT",
                                selected |-> p = 1, result |-> 0]]
    /\ revisions = [p \in Plans |-> {}] /\ reinspected = {}

(* A package that awaits its review.                                       *)
WrittenInit ==
    /\ package = [g \in Generations |-> IF g = 1 THEN Written([copy |-> QueuedPackage])
                                                 ELSE NoPackage]
    /\ packageVersions = [g \in Generations |-> IF g = 1
                             THEN {[version |-> v, fields |-> IF v = 1 THEN 0 ELSE 2,
                                    status |-> IF v = 1 THEN "QUEUED" ELSE "PENDING"]
                                     : v \in {1, 2}}
                             ELSE {}]

(* A feed that was registered when it had no entry, or one.                *)
RegisteredInit ==
    /\ content = [w \in Ways |-> NoItem] /\ job = [k \in Keys |-> NoJob]
    /\ storage = [k \in Keys |-> "NONE"]
    /\ published \in {{}, {1}}
    /\ feed = [NoFeed EXCEPT !.status = "ACTIVE", !.etag = published, !.due = TRUE]

(* Two channels that were polled, and found every video.                   *)
PolledInit ==
    /\ poll = [c \in Channels |-> "SUCCEEDED"] /\ due = {}
    /\ media = [c \in Channels |->
                   [v \in Videos |-> [status |-> "NEEDS_REVIEW", project |-> FALSE]]]
    /\ made = [v \in Videos |-> 0]

(* A server that was set up when the forum was a text channel, with a      *)
(* draft to announce.                                                      *)
SettledInit ==
    /\ server = [i \in Layout |-> [item |-> i, fits |-> i # Forum, alive |-> TRUE]]
    /\ obsolete = [row |-> TRUE, alive |-> TRUE]
    /\ guild = [row |-> TRUE, state |-> "APPLIED"] /\ registry = [i \in Layout |-> i]
    /\ panel = [sent |-> 1, saved |-> 1]
    /\ member = [role |-> FALSE, accepted |-> FALSE, badges |-> {},
                 grants |-> [b \in Badges |-> "NONE"]]
    /\ ticket = [rows |-> [n \in Tickets |-> "ABSENT"], channels |-> 0]
    /\ notice = [status |-> "DRAFT", sent |-> 0]
    /\ cases = [n \in Tickets |-> "ABSENT"]

(* A destination that was connected.                                       *)
ConnectedInit ==
    /\ account = [active |-> TRUE, reference |-> 1] /\ connection = "CONNECTED"
    /\ store = [t \in Tokens |-> IF t = 1 THEN 1 ELSE 0]
    /\ tiktok = [issued |-> 1, spent |-> {}, spoilt |-> FALSE] /\ oauth = 0

(* Advice on a project that was analysed, and on a clip that was rendered. *)
AdvisedInit ==
    /\ messages = [m \in Messages |-> IF m \in {AdviseMessage, ReportMessage} THEN 1 ELSE 0]
    /\ session = [a \in Actors |-> Idle] /\ lost = {} /\ faults = 0

(* A clip that has been inspected has its report.                          *)
ReportedInit ==
    /\ qualityReports = {[version |-> v, inspection |-> v] :
                            v \in {v \in {1} : inspection[v] = "COMPLETED"}}
    /\ advice = [i \in AdviceIds |-> Unwritten]

Accepted == [status |-> "SOURCE_ACCEPTED", selected |-> CHOOSE s \in Sources : TRUE,
             key |-> None, error |-> FALSE]

MCInit ==
    /\ OpportunitiesInit /\ OperationsInit /\ AutopilotInit
    /\ clips = <<>>
    /\ focus \in Focuses
    /\ IF focus = "ADVICE" THEN AdvisedInit ELSE CeleryInit
    /\ CASE focus = "SOURCE" -> ProductionInit
         [] focus = "AUTOPILOT" -> project = Accepted
         [] OTHER -> project = Downloaded
    /\ IF focus \in {"SOURCE", "ANALYSIS", "AUTOPILOT"} THEN AnalysisInit
                                                       ELSE analysis = Analysed
    /\ CASE focus = "MEDIA" -> ReviewedInit /\ CorrectionsInit
         [] focus = "CORRECTION" -> PlannedInit
         [] OTHER -> MediaInit /\ CorrectionsInit
    /\ IF focus \in {"CORRECTION", "OPERATIONS", "POSTS"} THEN WrittenInit ELSE PackagesInit
    /\ ReportedInit
    /\ IngestionInit \/ (focus = "INTAKE" /\ RegisteredInit)
    /\ PostsInit
    /\ CommunityInit \/ (focus = "COMMUNITY" /\ SettledInit)
    /\ ConnectionsInit \/ (focus = "CONNECT" /\ ConnectedInit)
    /\ WindowsInit /\ (focus # "WINDOWS" => \A d \in Durations : duration <= d)
    /\ \/ DiscoveryInit /\ calls = 0
       \/ focus = "DISCOVERY" /\ PolledInit /\ calls = 1

(* A crash counts as a call, but for media; so do a second suggestion and  *)
(* a lost answer or write of tokens.                                       *)
Suggestions(g) == {m \in Moments : opportunity[<<g, m>>].review_status # "ABSENT"}
Spent == calls + (IF focus = "MEDIA" THEN 0 ELSE faults)
               + (IF \E g \in 1..MaxGenerations : Cardinality(Suggestions(g)) > 1 THEN 1 ELSE 0)
               + (IF tiktok.spoilt THEN 1 ELSE 0)
Left == Spent < MaxCalls[focus]

PackageReview(o) == PackageHandler(o) /\ session'[o].op # "PACKAGE"

InspectionHandler(o) ==
    ClipHandler(o) /\ session'[o] # session[o] /\ session'[o].op # "CLEANUP"

(* Handlers are interchangeable: a call takes the first that is free.      *)
People(o) ==
    /\ Free(o) => Left /\ \A p \in Operators : p < o => ~Free(p)
    /\ \/ focus = "SOURCE" /\ SourceHandler(o)
       \/ focus = "ANALYSIS" /\ VideoHandler(o)
       \/ focus = "REVIEW" /\ ReviewHandler(o)
       \/ focus = "PACKAGE" /\ PackageHandler(o)
       \/ focus = "MEDIA" /\ ClipHandler(o)
       \/ focus = "CORRECTION" /\ CorrectionHandler(o)
       \/ focus = "OPERATIONS" /\ (DayHandler(o) \/ PackageReview(o))
       \/ focus = "AUTOPILOT" /\ PolicyHandler(o)
       \/ focus = "INTAKE" /\ IntakeHandler(o)
       \/ focus = "DISCOVERY" /\ ScoutHandler(o)
       \/ focus = "COMMUNITY" /\ BotHandler(o)
       \/ focus = "CONNECT" /\ OwnerHandler(o)
       \/ focus = "ADVICE" /\ (AdviserHandler(o) \/ InspectionHandler(o))
       \/ focus = "POSTS" /\ (PostHandler(o) \/ PackageHandler(o))
    /\ calls' = IF Free(o) THEN calls + 1 ELSE calls

Employed(w) == w = FirstWorker \/ focus = "PACKAGE"

Pipelined ==
    /\ \/ /\ \/ \E m \in {m \in Messages : messages[m] > 0} :
                   \E w \in Workers : Employed(w) /\ Deliver(w, m)
             \/ \E a \in {a \in Actors : ~Free(a)} :
                   Work(a) \/ ((focus = "MEDIA" \/ Left) /\ Fault(a))
             \/ focus = "MEDIA" /\ (CleanupBeat \/ ClipTime)
             \/ focus = "INTAKE" /\ FeedTimes
             \/ focus = "OPERATIONS" /\ OperationsBeat
             \/ focus = "AUTOPILOT" /\ AutopilotBeat
             \/ focus = "COMMUNITY" /\ Restart
             \/ focus = "CONNECT" /\ TokensBeat
             \/ focus = "DISCOVERY" /\ (DiscoveryBeat \/ ScoutTime)
          /\ UNCHANGED calls
       \/ \E o \in Operators : People(o)
    /\ UNCHANGED <<focus, windowRows>>
    /\ Spent' <= MaxCalls[focus]

MCNext ==
    \/ Pipelined
    \/ focus = "WINDOWS" /\ FindWindows /\ UNCHANGED <<vars, focus, calls>>

(* Of the messages, those that the liveness properties are about.          *)
MCFairness ==
    /\ \A w \in Workers : WF_vars(Work(w))
    /\ \A m \in ClipMessages : SF_vars(\E w \in Workers : Employed(w) /\ Deliver(w, m))
    /\ WF_vars(focus = "MEDIA" /\ CleanupBeat)
    /\ WF_vars(focus = "MEDIA" /\ GrantEnds /\ UNCHANGED NotMedia)

MCSpec == MCInit /\ [][MCNext]_<<vars, windowRows, focus, calls>> /\ MCFairness
=============================================================================
