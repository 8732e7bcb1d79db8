-------------------------- MODULE ClipOpportunities --------------------------
(***************************************************************************)
(* Clip opportunities: detected in a completed analysis, decided on by     *)
(* reviewers, rendered once approved; detected again on request, which     *)
(* supersedes those nobody has decided on.                                 *)
(*                                                                         *)
(* Source: app/opportunities/service.py, render_clip_window of             *)
(* app/production/service.py, generate_clip_opportunities and              *)
(* render_approved_opportunity of app/worker.py, and the opportunity       *)
(* endpoints of app/api.py and app/discord_bot.py.                         *)
(*                                                                         *)
(* Nothing but the unique constraints of the tables keeps a stale copy     *)
(* from being written back: (opportunity_id, version) of the history,      *)
(* (project_id, clip_number) of the clips and (analysis_id,                *)
(* generation_version) of the runs.                                        *)
(***************************************************************************)
EXTENDS VideoAnalysis

CONSTANTS
    Moments,        \* bound: rows that one generation inserts
    MaxGenerations, \* bound: generation runs of the analysis
    MaxVersions     \* bound: review versions that reviewers bring about

ASSUME OpportunitiesAssumption ==
    /\ Opportunities = (1..MaxGenerations) \X Moments
    /\ MaxGenerations \in Nat \ {0} /\ MaxVersions \in Nat
    /\ IsFiniteSet(Moments)

VARIABLES
    run,            \* opportunity_generation_runs by generation_version
    opportunity,    \* clip_opportunities
    versions        \* clip_opportunity_versions, by opportunity

RunStatuses == {"ABSENT", "QUEUED", "RUNNING", "COMPLETED", "FAILED"}
ReviewStatuses == {"ABSENT", "PENDING", "APPROVED", "REJECTED", "STALE"}

(* generated_clip is the number of the clip, 0 while it is null.           *)
Opportunity == [review_status : ReviewStatuses, review_version : 0..(MaxVersions + 2),
                generated_clip : 0..MaxClips]

VersionRow == [version : 1..(MaxVersions + 2), review : ReviewStatuses, generated : BOOLEAN]

OpportunitiesTypeOK ==
    /\ run \in [1..MaxGenerations -> RunStatuses]
    /\ opportunity \in [Opportunities -> Opportunity]
    /\ \A o \in Opportunities : versions[o] \subseteq VersionRow

RenderMessage(o) == [task |-> "render_approved_opportunity", id |-> o]

PipelineMessages ==
    {FetchMessage, AnalyseMessage, DetectMessage} \cup {RenderMessage(o) : o \in Opportunities}

upstream == <<project, analysis>>
rows == <<project, clips, analysis, run, opportunity, versions>>

(* The insert of the next row of a history: an error if another session    *)
(* has committed that version.                                             *)
Taken(o, version) == \E row \in versions[o] : row.version = version
Row(copy) == [version |-> copy.review_version, review |-> copy.review_status,
              generated |-> copy.generated_clip # 0]

(* What the handlers and tasks here have in their sessions.                *)
OpportunitySessions ==
    [op : {"DETECT"}, at : {"loaded", "requested"}, message : {NoMessage},
     latest : 0..MaxGenerations, status : RunStatuses, rerun : BOOLEAN]
    \cup [op : {"GENERATE"}, at : {"loaded", "detecting"}, message : {DetectMessage},
          latest : 0..MaxGenerations, status : RunStatuses, analysis : AnalysisStatuses]
    \cup [op : {"GENERATE"}, at : {"detected"}, message : {DetectMessage},
          latest : 1..MaxGenerations, old : SUBSET Opportunities]
    \cup [op : {"DECIDE"}, at : {"loaded"}, message : {NoMessage}, id : Opportunities,
          approved : BOOLEAN, copy : {copy \in Opportunity : copy.review_version < MaxVersions}]
    \cup [op : {"DECIDE"}, at : {"decided"}, message : {NoMessage},
          id : Opportunities, approved : BOOLEAN, copy : Opportunity]
    \cup [op : {"RENDER"}, at : {"loaded"},
          message : {NoMessage} \cup {RenderMessage(o) : o \in Opportunities},
          id : Opportunities, copy : Opportunity]
    \cup [op : {"RENDER"}, at : {"rendering", "rendered"},
          message : {NoMessage} \cup {RenderMessage(o) : o \in Opportunities},
          id : Opportunities, copy : Opportunity, number : 1..MaxClips]

-----------------------------------------------------------------------------
(* Detection.                                                              *)

Latest == CHOOSE g \in 0..MaxGenerations :
             /\ g > 0 => run[g] # "ABSENT"
             /\ \A h \in (g + 1)..MaxGenerations : run[h] = "ABSENT"

(* The handler finds a completed analysis and, in                          *)
(* request_opportunity_generation, the latest run.  What it queues is read *)
(* off that copy; a run that is running is returned, or refused when the   *)
(* request is to detect again.                                             *)
LoadForDetection(o, rerun) ==
    /\ Free(o)
    /\ analysis.status = "COMPLETED"
    /\ rerun /\ Latest # 0 => run[Latest] # "RUNNING" /\ Latest < MaxGenerations
    /\ Begin(o, [op |-> "DETECT", at |-> "loaded", message |-> NoMessage, latest |-> Latest,
                 status |-> IF Latest = 0 THEN "ABSENT" ELSE run[Latest], rerun |-> rerun])
    /\ UNCHANGED <<rows, messages, lost, faults>>

Target(s) == IF s.latest = 0 \/ s.rerun THEN s.latest + 1 ELSE s.latest

RequestGeneration(o) ==
    LET s == session[o] IN
    /\ At(o, "DETECT", "loaded")
    /\ IF s.rerun \/ s.latest = 0
       THEN /\ run[Target(s)] = "ABSENT"
            /\ run' = [run EXCEPT ![Target(s)] = "QUEUED"]
       ELSE run' = IF s.status = "FAILED" THEN [run EXCEPT ![s.latest] = "QUEUED"] ELSE run
    /\ Goto(o, "requested")
    /\ UNCHANGED <<upstream, clips, opportunity, versions, messages, lost, faults>>

(* Another handler has inserted that generation.                           *)
GenerationExists(o) ==
    LET s == session[o] IN
    /\ At(o, "DETECT", "loaded")
    /\ s.rerun \/ s.latest = 0
    /\ run[Target(s)] # "ABSENT"
    /\ End(o)
    /\ UNCHANGED <<rows, messages, lost, faults>>

SendGeneration(o) ==
    /\ At(o, "DETECT", "requested")
    /\ messages' = Queued(DetectMessage)
    /\ End(o)
    /\ UNCHANGED <<rows, lost, faults>>

(* The run a task takes up, and whether it may.  (Mutants: order_by        *)
(* forgotten; the analysis not asked whether it is complete.)              *)
FirstRun == IF Latest = 0 THEN 0 ELSE 1
TakenUp == Latest
AnyAnalysis(status) == TRUE
Detectable(status) == status = "COMPLETED"

(* generate_clip_opportunities: the task takes up the latest run, or       *)
(* requests the first.                                                     *)
TakeDetection(w) ==
    /\ Receive(w, DetectMessage,
               [op |-> "GENERATE", at |-> "loaded", message |-> DetectMessage,
                latest |-> TakenUp, status |-> IF Latest = 0 THEN "ABSENT" ELSE run[TakenUp],
                analysis |-> analysis.status])
    /\ UNCHANGED rows

(* Nothing to do, or the analysis is not complete (an error that leaves    *)
(* the run as it is).                                                      *)
LeaveGeneration(w) ==
    LET s == session[w] IN
    /\ At(w, "GENERATE", "loaded")
    /\ s.status \in {"RUNNING", "COMPLETED"} \/ ~Detectable(s.analysis)
    /\ End(w)
    /\ UNCHANGED <<rows, messages, lost, faults>>

FirstGeneration(w) ==
    LET s == session[w] IN
    /\ At(w, "GENERATE", "loaded")
    /\ s.status = "ABSENT" /\ Detectable(s.analysis)
    /\ IF run[1] = "ABSENT"
       THEN /\ run' = [run EXCEPT ![1] = "QUEUED"]
            /\ session' = [session EXCEPT ![w].latest = 1, ![w].status = "QUEUED"]
       ELSE End(w) /\ UNCHANGED run
    /\ UNCHANGED <<upstream, clips, opportunity, versions, messages, lost, faults>>

StartGeneration(w) ==
    LET s == session[w] IN
    /\ At(w, "GENERATE", "loaded")
    /\ s.status \in {"QUEUED", "FAILED"} /\ Detectable(s.analysis)
    /\ run' = [run EXCEPT ![s.latest] = "RUNNING"]
    /\ Goto(w, "detecting")
    /\ UNCHANGED <<upstream, clips, opportunity, versions, messages, lost, faults>>

(* The facts are read, the moments found, and what the run will supersede  *)
(* is selected: the older opportunities that are pending now.              *)
Detect(w) ==
    LET s == session[w] IN
    /\ At(w, "GENERATE", "detecting")
    /\ Begin(w, [op |-> "GENERATE", at |-> "detected", message |-> DetectMessage,
                 latest |-> s.latest,
                 old |-> {o \in Opportunities : o[1] < s.latest
                            /\ opportunity[o].review_status = "PENDING"}])
    /\ UNCHANGED <<rows, messages, lost, faults>>

(* One commit: the new opportunities with the first row of their history,  *)
(* those beyond opportunity_max_count (at least 1) marked STALE after it   *)
(* was written, and the superseded ones.                                   *)
Insertable(g) ==
    {o \in Opportunities : o[1] = g /\ opportunity[o].review_status = "ABSENT"}
New == [review_status |-> "PENDING", review_version |-> 1, generated_clip |-> 0]
Superseded(copy) == [copy EXCEPT !.review_status = "STALE", !.review_version = @ + 1]

CommitGeneration(w) ==
    LET s == session[w] IN
    /\ At(w, "GENERATE", "detected")
    /\ \A o \in s.old : ~Taken(o, 2)
    /\ \E kept, excess \in SUBSET Insertable(s.latest) :
          LET Proposed(o) == CASE o \in kept -> New
                               [] o \in excess -> [New EXCEPT !.review_status = "STALE"]
                               [] o \in s.old -> Superseded(opportunity[o])
                               [] OTHER -> opportunity[o]
          IN /\ kept \cap excess = {} /\ (kept = {} => excess = {})
             /\ opportunity' = [o \in Opportunities |-> Proposed(o)]
             /\ versions' = [o \in Opportunities |->
                               CASE o \in kept \cup excess -> versions[o] \cup {Row(New)}
                                 [] o \in s.old -> versions[o] \cup {Row(Superseded(opportunity[o]))}
                                 [] OTHER -> versions[o]]
    /\ run' = [run EXCEPT ![s.latest] = "COMPLETED"]
    /\ End(w)
    /\ UNCHANGED <<upstream, clips, messages, lost, faults>>

(* An error of the provider, or a decision committed since the selection:  *)
(* rollback, FAILED.                                                       *)
GenerationFails(w) ==
    LET s == session[w] IN
    /\ At(w, "GENERATE", "detecting") \/ At(w, "GENERATE", "detected")
    /\ run' = [run EXCEPT ![s.latest] = "FAILED"]
    /\ End(w)
    /\ UNCHANGED <<upstream, clips, opportunity, versions, messages, lost, faults>>

-----------------------------------------------------------------------------
(* Decisions.                                                              *)

LoadForReview(a, o, approved) ==
    /\ Free(a)
    /\ opportunity[o].review_status \in {"PENDING", "APPROVED", "REJECTED"}
    /\ opportunity[o].review_version < MaxVersions
    /\ Begin(a, [op |-> "DECIDE", at |-> "loaded", message |-> NoMessage, id |-> o,
                 approved |-> approved, copy |-> opportunity[o]])
    /\ UNCHANGED <<rows, messages, lost, faults>>

Decision(s) == IF s.approved THEN "APPROVED" ELSE "REJECTED"
Decided(s) == [s.copy EXCEPT !.review_status = Decision(s), !.review_version = @ + 1]

(* decide_opportunity: a decision that is made already stands.  Otherwise  *)
(* the row and its history are written from the copy, and the insert fails *)
(* if the copy is out of date.                                             *)
DecideOpportunity(a) ==
    LET s == session[a]
        o == session[a].id
    IN
    /\ At(a, "DECIDE", "loaded")
    /\ IF s.copy.review_status = Decision(s)
       THEN /\ Goto(a, "decided")
            /\ UNCHANGED <<opportunity, versions>>
       ELSE /\ ~Taken(o, Decided(s).review_version)
            /\ opportunity' = [opportunity EXCEPT ![o].review_status = Decision(s),
                                                  ![o].review_version = Decided(s).review_version]
            /\ versions' = [versions EXCEPT ![o] = @ \cup {Row(Decided(s))}]
            /\ session' = [session EXCEPT ![a].at = "decided", ![a].copy = Decided(s)]
    /\ UNCHANGED <<upstream, clips, run, messages, lost, faults>>

DecisionIsStale(a) ==
    LET s == session[a] IN
    /\ At(a, "DECIDE", "loaded")
    /\ s.copy.review_status # Decision(s)
    /\ Taken(s.id, Decided(s).review_version)
    /\ End(a)
    /\ UNCHANGED <<rows, messages, lost, faults>>

(* A rejection ends the call.  After an approval the bot sends the         *)
(* rendering to a worker; the API renders in the same call.                *)
EndReview(a) ==
    /\ At(a, "DECIDE", "decided")
    /\ IF session[a].approved
       THEN messages' = Queued(RenderMessage(session[a].id))
       ELSE UNCHANGED messages
    /\ End(a)
    /\ UNCHANGED <<rows, lost, faults>>

RenderInCall(a) ==
    /\ At(a, "DECIDE", "decided")
    /\ session[a].approved
    /\ Begin(a, [op |-> "RENDER", at |-> "loaded", message |-> NoMessage,
                 id |-> session[a].id, copy |-> session[a].copy])
    /\ UNCHANGED <<rows, messages, lost, faults>>

-----------------------------------------------------------------------------
(* Rendering: generate_approved_opportunity, in a worker or in a call.     *)

TakeRender(w, o) ==
    /\ Receive(w, RenderMessage(o),
               [op |-> "RENDER", at |-> "loaded", message |-> RenderMessage(o), id |-> o,
                copy |-> opportunity[o]])
    /\ UNCHANGED rows

(* Not approved, or rendered already.                                      *)
LeaveRender(a) ==
    LET copy == session[a].copy IN
    /\ At(a, "RENDER", "loaded")
    /\ copy.review_status # "APPROVED" \/ copy.generated_clip # 0
    /\ End(a)
    /\ UNCHANGED <<rows, messages, lost, faults>>

(* render_clip_window: the project, loaded now, must have its source; the  *)
(* clip number is read, and rendering takes its time.                      *)
StartRender(a) ==
    LET s == session[a] IN
    /\ At(a, "RENDER", "loaded")
    /\ s.copy.review_status = "APPROVED" /\ s.copy.generated_clip = 0
    /\ IF Renderable(project)
       THEN /\ NextNumber <= MaxClips
            /\ Begin(a, [op |-> "RENDER", at |-> "rendering", message |-> s.message,
                         id |-> s.id, copy |-> s.copy, number |-> NextNumber])
       ELSE End(a)
    /\ UNCHANGED <<rows, messages, lost, faults>>

(* The first commit, of the clip.                                          *)
CommitClip(a) ==
    LET s == session[a] IN
    /\ At(a, "RENDER", "rendering")
    /\ \E ok \in BOOLEAN : InsertClip(s.number, s.id, ok)
    /\ Goto(a, "rendered")
    /\ UNCHANGED <<upstream, run, opportunity, versions, messages, lost, faults>>

(* The second commit, of the opportunity: generated_clip_id and the next   *)
(* version, from the copy loaded before rendering.  (Mutant: from a row    *)
(* refreshed after it.)                                                    *)
LinkedAfresh(s) ==
    [opportunity[s.id] EXCEPT !.generated_clip = s.number, !.review_version = @ + 1]
Linked(s) == [s.copy EXCEPT !.generated_clip = s.number, !.review_version = @ + 1]

LinkClip(a) ==
    LET s == session[a]
        o == session[a].id
    IN
    /\ At(a, "RENDER", "rendered")
    /\ ~Taken(o, Linked(s).review_version)
    /\ opportunity' = [opportunity EXCEPT ![o].generated_clip = s.number,
                                          ![o].review_version = Linked(s).review_version]
    /\ versions' = [versions EXCEPT ![o] = @ \cup {Row(Linked(s))}]
    /\ End(a)
    /\ UNCHANGED <<upstream, clips, run, messages, lost, faults>>

(* A constraint refuses the clip or the version; nobody catches that.      *)
RenderConflicts(a) ==
    LET s == session[a] IN
    /\ \/ At(a, "RENDER", "rendering") /\ s.number # NextNumber
       \/ At(a, "RENDER", "rendered") /\ Taken(s.id, Linked(s).review_version)
    /\ EndInException(a)
    /\ UNCHANGED <<rows, messages, faults>>

-----------------------------------------------------------------------------
OpportunitiesInit ==
    /\ run = [g \in 1..MaxGenerations |-> "ABSENT"]
    /\ opportunity = [o \in Opportunities |->
                        [review_status |-> "ABSENT", review_version |-> 0, generated_clip |-> 0]]
    /\ versions = [o \in Opportunities |-> {}]

OpportunitiesHandler(a) ==
    \/ \E rerun \in BOOLEAN : LoadForDetection(a, rerun)
    \/ RequestGeneration(a) \/ GenerationExists(a) \/ SendGeneration(a)
    \/ \E o \in Opportunities, approved \in BOOLEAN : LoadForReview(a, o, approved)
    \/ DecideOpportunity(a) \/ DecisionIsStale(a) \/ EndReview(a) \/ RenderInCall(a)

Render(a) ==
    \/ LeaveRender(a) \/ StartRender(a) \/ CommitClip(a) \/ LinkClip(a) \/ RenderConflicts(a)

Generate(w) ==
    \/ LeaveGeneration(w) \/ FirstGeneration(w) \/ StartGeneration(w)
    \/ Detect(w) \/ CommitGeneration(w) \/ GenerationFails(w)

(* However often an analysis is run, cancelled, lost and run again, its    *)
(* facts are stored once, and detection reads whole facts: those of one    *)
(* run, not what a lost or a later run has left half-written.              *)
DetectsInWholeFacts ==
    /\ analysis.transcript <= 1
    /\ \A w \in Workers : At(w, "GENERATE", "detecting") => analysis.whole

(* What became of reviews, clips and histories is what OpportunityReview   *)
(* promises: decisions are never overwritten by older ones, STALE is       *)
(* final, and a clip is generated once and while approved.                 *)
Review == INSTANCE OpportunityReview WITH
    review <- [o \in Opportunities |-> opportunity[o].review_status],
    clip <- [o \in Opportunities |-> opportunity[o].generated_clip],
    history <- versions

ImplementsReview == Review!Spec

(* A message to detect takes the queued run out of QUEUED, unless a later  *)
(* run is requested or the analysis is requested again first.              *)
QueuedIsDetected ==
    \A g \in 1..MaxGenerations :
        messages[DetectMessage] > 0 /\ Latest = g /\ run[g] = "QUEUED"
            ~> \/ run[g] # "QUEUED" \/ Latest # g
               \/ analysis.status # "COMPLETED"
               \/ DetectMessage \in lost

(* A message to render gives the approved opportunity its clip, unless the *)
(* approval is withdrawn or the project is not ready to be cut any more.   *)
ApprovedIsRendered ==
    \A o \in Opportunities :
        messages[RenderMessage(o)] > 0
            ~> \/ opportunity[o].generated_clip # 0
               \/ opportunity[o].review_status # "APPROVED"
               \/ ~Renderable(project)
               \/ RenderMessage(o) \in lost
=============================================================================
