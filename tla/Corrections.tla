---------------------------- MODULE Corrections ----------------------------
(***************************************************************************)
(* Corrections of the rendered clip: a plan is drawn up from a completed   *)
(* inspection, submitted, confirmed, rendered as a new clip by a worker,   *)
(* inspected, and chosen in place of the original.                         *)
(*                                                                         *)
(* Source: app/corrections/service.py, render_corrected_clip and the end   *)
(* of inspect_rendered_media of app/worker.py, the correction-plan         *)
(* endpoints of app/api.py and the bot's correction view.                  *)
(*                                                                         *)
(* The version that an operator sends is compared with the copy that the   *)
(* handler loads; it stands for the operator's having seen that copy and   *)
(* is not kept.  A commit writes status over the row as it is by then.     *)
(* Which clip is_current_operator_selection is not kept either: nothing    *)
(* reads it.                                                               *)
(***************************************************************************)
EXTENDS ClipOpportunities, ContentPackages, MediaRetention

CONSTANT MaxPlans       \* bound: correction plans of the clip

ASSUME CorrectionsAssumption == MaxPlans \in Nat \ {0}

VARIABLES
    plan,           \* clip_correction_plans of the clip by plan_version
    revisions,      \* the clips with a plan's correction_plan_id, by number
    reinspected     \* the plans whose revision has a completed inspection

Plans == 1..MaxPlans

PlanStatuses == {"ABSENT", "DRAFT", "AWAITING_CONFIRMATION", "QUEUED", "RENDERING",
                 "REINSPECTING", "COMPLETED", "CANCELLED", "FAILED"}

(* selected: some action that the renderer supports is selected; result is *)
(* the number of result_clip_id, 0 while it is null.                       *)
Plan == [status : PlanStatuses, selected : BOOLEAN, result : 0..MaxClips]

CorrectionsTypeOK ==
    /\ plan \in [Plans -> Plan]
    /\ revisions \in [Plans -> SUBSET (1..MaxClips)]
    /\ reinspected \subseteq Plans

CorrectMessage(p) == [task |-> "render_corrected_clip", plan |-> p]
ReinspectMessage(p) == [task |-> "inspect_rendered_media", plan |-> p]

planRows == <<plan, revisions, reinspected>>

(* What the handlers and tasks here have in their sessions.                *)
PlanSessions ==
    [op : {"PLAN"}, at : {"loaded"}, message : {NoMessage}, latest : 0..MaxPlans]
    \cup [op : {"TICK", "SUBMIT", "CONFIRM", "WITHDRAW", "COMPARE", "ADOPT"},
          at : {"plan", "confirmed"}, message : {NoMessage}, id : Plans, plan : Plan]
    \cup [op : {"CORRECT"}, at : {"loaded", "correcting", "corrected"},
          message : {CorrectMessage(p) : p \in Plans}, id : Plans, plan : Plan]
    \cup [op : {"REINSPECT"}, at : {"loaded", "reinspected"},
          message : {ReinspectMessage(p) : p \in Plans}, id : Plans]

-----------------------------------------------------------------------------
(* What operators do with plans.                                           *)

LatestPlan == CHOOSE p \in 0..MaxPlans :
                 /\ p > 0 => plan[p].status # "ABSENT"
                 /\ \A q \in (p + 1)..MaxPlans : plan[q].status = "ABSENT"

(* create_plan finds a completed inspection and the highest version.       *)
LoadForPlan(o) ==
    /\ Free(o)
    /\ LatestPlan < MaxPlans
    /\ \E v \in Inspections : inspection[v] = "COMPLETED"
    /\ Begin(o, [op |-> "PLAN", at |-> "loaded", message |-> NoMessage,
                 latest |-> LatestPlan])
    /\ UNCHANGED <<planRows, clips, messages, lost, faults>>

(* It inserts the next plan, with the actions that the issues suggest,     *)
(* unless another handler has (unique source_clip_id, plan_version).       *)
CreatePlan(o) ==
    LET p == session[o].latest + 1 IN
    /\ At(o, "PLAN", "loaded")
    /\ IF plan[p].status = "ABSENT"
       THEN \E selected \in BOOLEAN :
               plan' = [plan EXCEPT ![p] =
                          [status |-> "DRAFT", selected |-> selected, result |-> 0]]
       ELSE UNCHANGED plan
    /\ End(o)
    /\ UNCHANGED <<revisions, reinspected, clips, messages, lost, faults>>

(* What each operation asks of the copy.                                   *)
Permitted(op, copy) ==
    \/ op \in {"TICK", "SUBMIT"} /\ copy.status = "DRAFT"
    \/ op = "CONFIRM" /\ copy.status = "AWAITING_CONFIRMATION"
    \/ op = "WITHDRAW" /\ copy.status \in {"DRAFT", "AWAITING_CONFIRMATION", "QUEUED"}
    \/ op \in {"COMPARE", "ADOPT"} /\ copy.result # 0

LoadPlan(o, p, op) ==
    /\ Free(o)
    /\ Permitted(op, plan[p])
    /\ Begin(o, [op |-> op, at |-> "plan", message |-> NoMessage, id |-> p,
                 plan |-> plan[p]])
    /\ UNCHANGED <<planRows, clips, messages, lost, faults>>

SetStatus(p, status) == plan' = [plan EXCEPT ![p].status = status]

(* set_action_selected writes one action.                                  *)
SelectAction(o) ==
    /\ At(o, "TICK", "plan")
    /\ \E selected \in BOOLEAN : plan' = [plan EXCEPT ![session[o].id].selected = selected]
    /\ End(o)
    /\ UNCHANGED <<revisions, reinspected, clips, messages, lost, faults>>

(* submit_for_confirmation, cancel_plan.                                   *)
SubmitPlan(o) ==
    /\ At(o, "SUBMIT", "plan")
    /\ SetStatus(session[o].id, "AWAITING_CONFIRMATION")
    /\ End(o)
    /\ UNCHANGED <<revisions, reinspected, clips, messages, lost, faults>>

CancelPlan(o) ==
    /\ At(o, "WITHDRAW", "plan")
    /\ SetStatus(session[o].id, "CANCELLED")
    /\ End(o)
    /\ UNCHANGED <<revisions, reinspected, clips, messages, lost, faults>>

(* confirm_plan; then the API or the bot sends the task.                   *)
ConfirmPlan(o) ==
    /\ At(o, "CONFIRM", "plan")
    /\ SetStatus(session[o].id, "QUEUED")
    /\ Goto(o, "confirmed")
    /\ UNCHANGED <<revisions, reinspected, clips, messages, lost, faults>>

SendCorrection(o) ==
    /\ At(o, "CONFIRM", "confirmed")
    /\ messages' = Queued(CorrectMessage(session[o].id))
    /\ End(o)
    /\ UNCHANGED <<planRows, clips, lost, faults>>

(* comparison completes the plan if its revision has been inspected.       *)
ComparePlan(o) ==
    LET p == session[o].id IN
    /\ At(o, "COMPARE", "plan")
    /\ IF p \in reinspected /\ session[o].plan.status # "COMPLETED"
       THEN SetStatus(p, "COMPLETED")
       ELSE UNCHANGED plan
    /\ End(o)
    /\ UNCHANGED <<revisions, reinspected, clips, messages, lost, faults>>

(* select_revision, for the revision (or for the original, which changes   *)
(* nothing that is kept here): the packages of the original become STALE.  *)
AdoptRevision(o) ==
    /\ At(o, "ADOPT", "plan")
    /\ package' \in {package, Outdated}
    /\ End(o)
    /\ UNCHANGED <<planRows, packageVersions, clips, messages, lost, faults>>

-----------------------------------------------------------------------------
(* render_corrected_clip, in a worker.                                     *)

TakeCorrection(w, p) ==
    /\ Receive(w, CorrectMessage(p),
               [op |-> "CORRECT", at |-> "loaded", message |-> CorrectMessage(p), id |-> p,
                plan |-> plan[p]])
    /\ UNCHANGED <<planRows, clips>>

(* What has a revision already is not rendered again, its inspection is    *)
(* asked for once more.  (Mutant: result_clip_id not looked at.)           *)
NeverRendered(copy) == FALSE
Rendered(copy) == copy.result # 0

LeaveCorrection(w) ==
    /\ At(w, "CORRECT", "loaded")
    /\ Rendered(session[w].plan)
    /\ messages' = Queued(ReinspectMessage(session[w].id))
    /\ End(w)
    /\ UNCHANGED <<planRows, clips, lost, faults>>

(* Not confirmed, or nothing to render is selected now.                    *)
RefuseCorrection(w) ==
    /\ At(w, "CORRECT", "loaded")
    /\ ~Rendered(session[w].plan)
    /\ session[w].plan.status # "QUEUED" \/ ~plan[session[w].id].selected
    /\ End(w)
    /\ UNCHANGED <<planRows, clips, messages, lost, faults>>

StartCorrection(w) ==
    LET p == session[w].id IN
    /\ At(w, "CORRECT", "loaded")
    /\ ~Rendered(session[w].plan)
    /\ session[w].plan.status = "QUEUED" /\ plan[p].selected
    /\ SetStatus(p, "RENDERING")
    /\ Goto(w, "correcting")
    /\ UNCHANGED <<revisions, reinspected, clips, messages, lost, faults>>

(* One commit: the new clip, under the next number as it is after          *)
(* rendering, and the plan's result.                                       *)
RenderRevision(w) ==
    LET p == session[w].id IN
    /\ At(w, "CORRECT", "correcting")
    /\ file /\ NextNumber <= MaxClips
    /\ InsertClip(NextNumber, None, TRUE)
    /\ revisions' = [revisions EXCEPT ![p] = @ \cup {NextNumber}]
    /\ plan' = [plan EXCEPT ![p].status = "REINSPECTING", ![p].result = NextNumber]
    /\ Goto(w, "corrected")
    /\ UNCHANGED <<reinspected, messages, lost, faults>>

(* An I/O error, the deleted file of the original among them, or ffmpeg.   *)
CorrectionFails(w) ==
    /\ At(w, "CORRECT", "correcting")
    /\ SetStatus(session[w].id, "FAILED")
    /\ End(w)
    /\ UNCHANGED <<revisions, reinspected, clips, messages, lost, faults>>

SendReinspection(w) ==
    /\ At(w, "CORRECT", "corrected")
    /\ messages' = Queued(ReinspectMessage(session[w].id))
    /\ End(w)
    /\ UNCHANGED <<planRows, clips, lost, faults>>

-----------------------------------------------------------------------------
(* inspect_rendered_media of the revision, of which only the end matters   *)
(* here: a completed inspection completes the plan, in a commit of its own.*)

TakeReinspection(w, p) ==
    /\ Receive(w, ReinspectMessage(p),
               [op |-> "REINSPECT", at |-> "loaded", message |-> ReinspectMessage(p), id |-> p])
    /\ UNCHANGED <<planRows, clips>>

InspectRevision(w) ==
    /\ At(w, "REINSPECT", "loaded")
    /\ \/ reinspected' = reinspected \cup {session[w].id} /\ Goto(w, "reinspected")
       \/ reinspected' = reinspected /\ End(w)
    /\ UNCHANGED <<plan, revisions, clips, messages, lost, faults>>

CompletePlan(w) ==
    /\ At(w, "REINSPECT", "reinspected")
    /\ SetStatus(session[w].id, "COMPLETED")
    /\ End(w)
    /\ UNCHANGED <<revisions, reinspected, clips, messages, lost, faults>>

-----------------------------------------------------------------------------
CorrectionsInit ==
    /\ plan = [p \in Plans |-> [status |-> "ABSENT", selected |-> FALSE, result |-> 0]]
    /\ revisions = [p \in Plans |-> {}]
    /\ reinspected = {}

PlanHandler(o) ==
    \/ LoadForPlan(o) \/ CreatePlan(o)
    \/ \E p \in Plans, op \in {"TICK", "SUBMIT", "CONFIRM", "WITHDRAW", "COMPARE", "ADOPT"} :
          LoadPlan(o, p, op)
    \/ SelectAction(o) \/ SubmitPlan(o) \/ CancelPlan(o) \/ ConfirmPlan(o)
    \/ SendCorrection(o) \/ ComparePlan(o)

Correct(w) ==
    \/ LeaveCorrection(w) \/ RefuseCorrection(w) \/ StartCorrection(w)
    \/ RenderRevision(w) \/ CorrectionFails(w) \/ SendReinspection(w)
    \/ InspectRevision(w) \/ CompletePlan(w)

(* A plan is rendered once, and the clip that it names as its result is    *)
(* the one clip rendered for it, however often it is confirmed, delivered  *)
(* or cut off (CLIP_CORRECTION_OPERATOR_GUIDE.md: confirming "queues one   *)
(* immutable revision").                                                   *)
OneRevision ==
    \A p \in Plans :
        revisions[p] = IF plan[p].result = 0 THEN {} ELSE {plan[p].result}
=============================================================================
