--------------------------- MODULE MediaRetention ---------------------------
(***************************************************************************)
(* The media of a rendered clip: shared by grants, inspected by a worker,  *)
(* kept while somebody needs it and deleted by the retention pass.         *)
(*                                                                         *)
(* Source: app/media_preview/service.py, app/rendered_media/service.py,    *)
(* inspect_rendered_media and cleanup_expired_media_task of app/worker.py, *)
(* the media and inspection endpoints of app/api.py and the bot's          *)
(* inspection buttons.                                                     *)
(*                                                                         *)
(* MediaAsset has a version column (version_id_col): an UPDATE from a copy *)
(* that is older than the row is refused with a StaleDataError, which no   *)
(* code catches.  A handler that loads, writes and commits in one go is    *)
(* therefore one step here; had the row changed in between, nothing would  *)
(* have happened.  Inspections have no such column.                        *)
(***************************************************************************)
EXTENDS CeleryWorkers

CONSTANT MaxInspections     \* bound: inspections of the clip

ASSUME RetentionAssumption == MaxInspections \in Nat \ {0}

VARIABLES
    asset,          \* the media_assets row of the rendered clip
    file,           \* whether the file is in storage
    grant,          \* the latest preview or download grant
    approval,       \* approval_status of the clip
    publishing,     \* what its publish request, if there is one, has come to
    inspection,     \* rendered_media_inspections, their status by version
    behind          \* actors whose copy of the asset is older than the row

(* kept is lifecycle_state # DELETED; due is a retention_deadline that has *)
(* passed; administrative_hold is hold # "NONE", and hold says whose it is *)
(* besides: BOTH is an inspection's hold on which an operator, to whom the *)
(* column shows no difference, has placed a hold of their own.             *)
Asset == [kept : BOOLEAN, due : BOOLEAN,
          hold : {"NONE", "OPERATOR", "INSPECTION", "BOTH"}]

Inspections == 1..MaxInspections

InspectionStatuses ==
    {"ABSENT", "QUEUED", "RUNNING", "COMPLETED", "FAILED", "CANCELLED", "STALE"}
Terminal == {"COMPLETED", "FAILED", "CANCELLED", "STALE"}

MediaTypeOK ==
    /\ asset \in Asset /\ file \in BOOLEAN
    /\ grant \in {"NONE", "ACTIVE", "EXPIRED"}
    /\ approval \in {"PENDING", "APPROVED", "REJECTED"}
    /\ publishing \in {"NONE", "PROTECTED", "SUCCEEDED", "FAILED"}
    /\ inspection \in [Inspections -> InspectionStatuses]
    /\ behind \subseteq Actors

InspectMessage == [task |-> "inspect_rendered_media"]
CleanupMessage == [task |-> "cleanup_expired_media"]

mediaRows == <<asset, file, grant, approval, publishing, inspection, behind>>
clipRows == <<grant, approval, publishing>>

(* A retention pass has a copy of the asset, and an inspection that has    *)
(* begun.  An UPDATE of the row puts every other copy behind.  (Mutant: no *)
(* version column.)                                                        *)
HasCopy(a) ==
    \/ session[a].op = "CLEANUP"
    \/ session[a].op = "INSPECT" /\ session[a].at \notin {"loaded", "requested"}
Write(a, row) == asset' = row /\ behind' = {b \in Actors \ {a} : HasCopy(b)}
Reload(a) == behind' = behind \ {a}
AnyCopy(a) == TRUE
Current(a) == a \notin behind

(* What the handlers and tasks here have in their sessions; a task that    *)
(* has requested an inspection has one.                                    *)
MediaSessions ==
    [op : {"CLEANUP"}, at : {"loaded", "deleting", "recording"},
     message : {NoMessage, CleanupMessage}, asset : Asset]
    \cup [op : {"INSPECTION"}, at : {"loaded", "requested"}, message : {NoMessage},
          latest : 0..MaxInspections, status : InspectionStatuses, rerun : BOOLEAN]
    \cup {s \in [op : {"INSPECT"}, at : {"loaded", "requested"}, message : {InspectMessage},
                 latest : 0..MaxInspections, status : InspectionStatuses, rerun : {FALSE}] :
            s.latest = 0 => s.at = "loaded" /\ s.status = "ABSENT"}
    \cup [op : {"UNINSPECT"}, at : {"loaded"}, message : {NoMessage}, latest : Inspections]
    \cup [op : {"INSPECT"},
          at : {"starting", "opening", "sampling", "reporting", "completing", "releasing",
                "aborting"},
          message : {InspectMessage}, latest : Inspections, held : BOOLEAN]
    \cup [op : {"INSPECTED"}, at : {"completed"}, message : {InspectMessage}]

-----------------------------------------------------------------------------
(* What people and time do.                                                *)

(* issue_preview and issue_full_quality_download; revoke_grants and        *)
(* revoke_download_grants, or the grant's time is over.                    *)
IssueGrant(o) ==
    /\ Free(o)
    /\ grant # "ACTIVE"
    /\ grant' = "ACTIVE"
    /\ UNCHANGED <<asset, file, approval, publishing, inspection, behind, session,
                   messages, lost, faults>>

GrantEnds ==
    /\ grant = "ACTIVE"
    /\ grant' = "EXPIRED"
    /\ UNCHANGED <<asset, file, approval, publishing, inspection, behind, session,
                   messages, lost, faults>>

(* validate_grant and validate_download_grant count the access and enter   *)
(* its time in the asset's row.                                            *)
AccessMedia(o) ==
    /\ Free(o)
    /\ grant = "ACTIVE" /\ asset.kept
    /\ Write(o, asset)
    /\ UNCHANGED <<file, clipRows, inspection, session, messages, lost, faults>>

(* extend_retention, and the new deadline passes.                          *)
ExtendRetention(o) ==
    /\ Free(o)
    /\ Write(o, [asset EXCEPT !.due = FALSE])
    /\ UNCHANGED <<file, clipRows, inspection, session, messages, lost, faults>>

DeadlinePasses ==
    /\ ~asset.due
    /\ asset' = [asset EXCEPT !.due = TRUE]
    /\ UNCHANGED <<file, clipRows, inspection, behind, session, messages, lost, faults>>

(* set_hold accepts every call and enters it in the audit log.  One that   *)
(* gives the column the value it has is no UPDATE: nobody's copy is behind,*)
(* and an operator's hold on top of an inspection's changes no row.        *)
SetHold(o, enabled) ==
    /\ Free(o)
    /\ \/ /\ enabled /\ asset.hold = "NONE"
          /\ Write(o, [asset EXCEPT !.hold = "OPERATOR"])
       \/ /\ enabled /\ asset.hold = "INSPECTION"
          /\ asset' = [asset EXCEPT !.hold = "BOTH"] /\ UNCHANGED behind
       \/ /\ ~enabled /\ asset.hold # "NONE"
          /\ Write(o, [asset EXCEPT !.hold = "NONE"])
    /\ UNCHANGED <<file, clipRows, inspection, session, messages, lost, faults>>

(* decide_clip, as far as retention looks at it.                           *)
DecideClip(o) ==
    /\ Free(o)
    /\ approval' \in {"APPROVED", "REJECTED"} \ {approval}
    /\ UNCHANGED <<asset, file, grant, publishing, inspection, behind, session,
                   messages, lost, faults>>

(* A publish request: in a state that _publish_protects lists, then over.  *)
PublishingMoves ==
    /\ \/ publishing = "NONE" /\ approval = "APPROVED" /\ publishing' = "PROTECTED"
       \/ publishing = "PROTECTED" /\ publishing' \in {"SUCCEEDED", "FAILED"}
    /\ UNCHANGED <<asset, file, grant, approval, inspection, behind, session,
                   messages, lost, faults>>

-----------------------------------------------------------------------------
(* The retention pass: the beat task in a worker, or the cleanup endpoint  *)
(* in a handler, of which one runs at a time (_cleanup_lock).              *)

BeatCleanup ==
    /\ messages' = Queued(CleanupMessage)
    /\ UNCHANGED <<mediaRows, session, lost, faults>>

Pass(m) == [op |-> "CLEANUP", at |-> "loaded", message |-> m, asset |-> asset]

TakeCleanup(w) ==
    /\ Receive(w, CleanupMessage, Pass(CleanupMessage))
    /\ Reload(w)
    /\ UNCHANGED <<asset, file, clipRows, inspection>>

CallCleanup(o) ==
    /\ Free(o)
    /\ \A p \in Operators : session[p].op # "CLEANUP"
    /\ Begin(o, Pass(NoMessage))
    /\ Reload(o)
    /\ UNCHANGED <<asset, file, clipRows, inspection, messages, lost, faults>>

(* retention_reason: the pass's copy of the asset must be kept, due and    *)
(* not held; the grants, the publish requests and the clip are asked now.  *)
(* (Mutant: a grant that has expired protects all the same.)               *)
Deletable(copy) == copy.kept /\ copy.due /\ copy.hold = "NONE"
EverGranted == grant # "NONE"
Granted == grant = "ACTIVE"

Elapsed ==
    /\ publishing # "PROTECTED"
    /\ approval = "REJECTED" \/ publishing = "SUCCEEDED"

Judge(a) ==
    /\ At(a, "CLEANUP", "loaded")
    /\ IF Deletable(session[a].asset) /\ ~Granted /\ Elapsed
       THEN Goto(a, "deleting") /\ UNCHANGED behind
       ELSE End(a) /\ Reload(a)
    /\ UNCHANGED <<asset, file, clipRows, inspection, messages, lost, faults>>

(* The file goes first, one that is missing is no error, then the row.     *)
DeleteFile(a) ==
    /\ At(a, "CLEANUP", "deleting")
    /\ file' = FALSE
    /\ Goto(a, "recording")
    /\ UNCHANGED <<asset, clipRows, inspection, behind, messages, lost, faults>>

DeletionFails(a) ==
    /\ At(a, "CLEANUP", "deleting")
    /\ faults < MaxFaults /\ faults' = faults + 1
    /\ IF Current(a)
       THEN Write(a, asset) /\ End(a) /\ UNCHANGED lost
       ELSE EndInException(a) /\ Reload(a) /\ UNCHANGED asset
    /\ UNCHANGED <<file, clipRows, inspection, messages>>

RecordDeletion(a) ==
    /\ At(a, "CLEANUP", "recording")
    /\ IF Current(a)
       THEN Write(a, [asset EXCEPT !.kept = FALSE]) /\ End(a) /\ UNCHANGED lost
       ELSE EndInException(a) /\ Reload(a) /\ UNCHANGED asset
    /\ UNCHANGED <<file, clipRows, inspection, messages, faults>>

-----------------------------------------------------------------------------
(* Inspections are requested, and cancelled, in a handler.                 *)

LatestInspection == CHOOSE v \in 0..MaxInspections :
                       /\ v > 0 => inspection[v] # "ABSENT"
                       /\ \A u \in (v + 1)..MaxInspections : inspection[u] = "ABSENT"

Inspected(v) == IF v = 0 THEN "ABSENT" ELSE inspection[v]

(* request_inspection returns what is on its way or complete, unless it is *)
(* to be run again; otherwise it adds the next one, and what was on its    *)
(* way is STALE.  Its insert fails if the next one is there already; more  *)
(* than MaxInspections are not looked at.                                  *)
Returns(s) == ~s.rerun /\ s.status \in {"QUEUED", "RUNNING", "COMPLETED"}

Requesting(op, m, rerun) ==
    [op |-> op, at |-> "loaded", message |-> m, latest |-> LatestInspection,
     status |-> Inspected(LatestInspection), rerun |-> rerun]

AddInspection(s) ==
    /\ s.latest < MaxInspections /\ inspection[s.latest + 1] = "ABSENT"
    /\ inspection' = [v \in Inspections |->
                        CASE v = s.latest + 1 -> "QUEUED"
                          [] v = s.latest /\ s.status \notin Terminal -> "STALE"
                          [] OTHER -> inspection[v]]

Exists(s) == s.latest < MaxInspections /\ inspection[s.latest + 1] # "ABSENT"

LoadForInspection(o, rerun) ==
    /\ Free(o)
    /\ LatestInspection < MaxInspections
    /\ Begin(o, Requesting("INSPECTION", NoMessage, rerun))
    /\ UNCHANGED <<mediaRows, messages, lost, faults>>

RequestInspection(o) ==
    LET s == session[o] IN
    /\ At(o, "INSPECTION", "loaded")
    /\ IF Returns(s) THEN UNCHANGED inspection ELSE AddInspection(s)
    /\ session' = [session EXCEPT ![o].at = "requested",
                     ![o].status = IF Returns(s) THEN @ ELSE "QUEUED"]
    /\ UNCHANGED <<asset, file, clipRows, behind, messages, lost, faults>>

InspectionExists(o) ==
    LET s == session[o] IN
    /\ At(o, "INSPECTION", "loaded")
    /\ ~Returns(s) /\ Exists(s)
    /\ End(o)
    /\ UNCHANGED <<mediaRows, messages, lost, faults>>

(* The task is sent for what is queued.                                    *)
SendInspection(o) ==
    /\ At(o, "INSPECTION", "requested")
    /\ messages' = IF session[o].status = "QUEUED" THEN Queued(InspectMessage) ELSE messages
    /\ End(o)
    /\ UNCHANGED <<mediaRows, lost, faults>>

(* cancel_inspection, of the latest.                                       *)
LoadForCancelling(o) ==
    /\ Free(o)
    /\ Inspected(LatestInspection) \notin Terminal \cup {"ABSENT"}
    /\ Begin(o, [op |-> "UNINSPECT", at |-> "loaded", message |-> NoMessage,
                 latest |-> LatestInspection])
    /\ UNCHANGED <<mediaRows, messages, lost, faults>>

CancelInspection(o) ==
    /\ At(o, "UNINSPECT", "loaded")
    /\ inspection' = [inspection EXCEPT ![session[o].latest] = "CANCELLED"]
    /\ End(o)
    /\ UNCHANGED <<asset, file, clipRows, behind, messages, lost, faults>>

-----------------------------------------------------------------------------
(* inspect_rendered_media, in a worker.  It requests the inspection once   *)
(* more, and runs what it gets.                                            *)

(* One that is complete is not run again, but reported again.              *)
Completed == [op |-> "INSPECTED", at |-> "completed", message |-> InspectMessage]

TakeInspection(w) ==
    /\ Receive(w, InspectMessage, Requesting("INSPECT", InspectMessage, FALSE))
    /\ UNCHANGED mediaRows

RequestInTask(w) ==
    LET s == session[w] IN
    /\ At(w, "INSPECT", "loaded")
    /\ \/ /\ Returns(s)
          /\ CASE s.status = "QUEUED"    -> Goto(w, "requested")
               [] s.status = "COMPLETED" -> Begin(w, Completed)
               [] OTHER                  -> End(w)
          /\ UNCHANGED <<inspection, lost>>
       \/ /\ ~Returns(s)
          /\ AddInspection(s)
          /\ session' = [session EXCEPT ![w].at = "requested", ![w].latest = @ + 1]
          /\ UNCHANGED lost
       \/ /\ ~Returns(s) /\ Exists(s)
          /\ EndInException(w)
          /\ UNCHANGED inspection
       \/ /\ ~Returns(s) /\ s.latest = MaxInspections
          /\ End(w)
          /\ UNCHANGED <<inspection, lost>>
    /\ UNCHANGED <<asset, file, clipRows, behind, messages, faults>>

(* execute_inspection loads the asset and remembers whether it is held.    *)
WasHeld == asset.hold # "NONE"

LoadMedia(w) ==
    /\ At(w, "INSPECT", "requested")
    /\ Begin(w, [op |-> "INSPECT", at |-> "starting", message |-> InspectMessage,
                 latest |-> session[w].latest, held |-> WasHeld])
    /\ Reload(w)
    /\ UNCHANGED <<asset, file, clipRows, inspection, messages, lost, faults>>

(* One commit: RUNNING, and the hold, unless the copy has one.             *)
StartInspection(w) ==
    LET s == session[w] IN
    /\ At(w, "INSPECT", "starting")
    /\ IF s.held \/ Current(w)
       THEN /\ inspection' = [inspection EXCEPT ![s.latest] = "RUNNING"]
            /\ IF s.held THEN UNCHANGED <<asset, behind>>
                         ELSE Write(w, [asset EXCEPT !.hold = "INSPECTION"])
            /\ Goto(w, "opening")
            /\ UNCHANGED lost
       ELSE EndInException(w) /\ Reload(w) /\ UNCHANGED <<inspection, asset>>
    /\ UNCHANGED <<file, clipRows, messages, faults>>

(* The file is copied first; one that is missing, or an I/O error, is not  *)
(* an inspection error: the hold is released on the way out, and the       *)
(* inspection stays RUNNING.                                               *)
OpenMedia(w) ==
    /\ At(w, "INSPECT", "opening")
    /\ \E place \in {"sampling", "aborting"} :
          (place = "sampling" => file) /\ Goto(w, place)
    /\ UNCHANGED <<mediaRows, messages, lost, faults>>

(* _stage: a refreshed copy, and nothing more to do if it is cancelled.    *)
Stage(w) ==
    /\ At(w, "INSPECT", "sampling")
    /\ Goto(w, IF inspection[session[w].latest] = "CANCELLED" THEN "releasing" ELSE "reporting")
    /\ UNCHANGED <<mediaRows, messages, lost, faults>>

(* The outcome, which is written over whatever the row says by then.       *)
EndInspection(w, outcome) ==
    /\ \/ At(w, "INSPECT", "reporting")
       \/ At(w, "INSPECT", "sampling") /\ outcome = "FAILED"
    /\ inspection' = [inspection EXCEPT ![session[w].latest] = outcome]
    /\ Goto(w, IF outcome = "COMPLETED" THEN "completing" ELSE "releasing")
    /\ UNCHANGED <<asset, file, clipRows, behind, messages, lost, faults>>

(* The finally clause: the column is cleared unless it was set before the  *)
(* inspection, so a hold that was placed meanwhile goes too.  The task goes*)
(* on to report what it has completed.                                     *)
Release(w) ==
    LET s == session[w]
        refused == ~s.held /\ ~Current(w)
    IN
    /\ s.op = "INSPECT" /\ s.at \in {"completing", "releasing", "aborting"}
    /\ IF s.held \/ refused THEN Reload(w) /\ UNCHANGED asset
                            ELSE Write(w, [asset EXCEPT !.hold = "NONE"])
    /\ IF refused \/ s.at = "aborting"
       THEN EndInException(w)
       ELSE /\ IF s.at = "completing" THEN Begin(w, Completed) ELSE End(w)
            /\ UNCHANGED lost
    /\ UNCHANGED <<file, clipRows, inspection, messages, faults>>

-----------------------------------------------------------------------------
MediaInit ==
    /\ asset = [kept |-> TRUE, due |-> FALSE, hold |-> "NONE"]
    /\ file = TRUE
    /\ grant = "NONE" /\ approval = "PENDING" /\ publishing = "NONE"
    /\ inspection = [v \in Inspections |-> "ABSENT"]
    /\ behind = {}

MediaHandler(o) ==
    \/ IssueGrant(o) \/ AccessMedia(o) \/ ExtendRetention(o) \/ DecideClip(o)
    \/ \E enabled \in BOOLEAN : SetHold(o, enabled)
    \/ CallCleanup(o)
    \/ \E rerun \in BOOLEAN : LoadForInspection(o, rerun)
    \/ RequestInspection(o) \/ InspectionExists(o) \/ SendInspection(o)
    \/ LoadForCancelling(o) \/ CancelInspection(o)

MediaTime == GrantEnds \/ DeadlinePasses \/ PublishingMoves

CleanUp(a) == Judge(a) \/ DeleteFile(a) \/ DeletionFails(a) \/ RecordDeletion(a)

Inspect(w) ==
    \/ RequestInTask(w) \/ LoadMedia(w) \/ StartInspection(w) \/ OpenMedia(w)
    \/ Stage(w) \/ \E outcome \in {"COMPLETED", "FAILED"} : EndInspection(w, outcome)
    \/ Release(w)

(* Media is never recorded as deleted while it is held, whoever placed the *)
(* hold and however long ago the pass looked.  A hold that an operator     *)
(* placed on media nobody held ends only when an operator ends it, whatever*)
(* inspection or pass overlaps it.  The exception is the hold that was     *)
(* accepted while an inspection held the media: it goes with that          *)
(* inspection, which had found none, but with nothing else.                *)
HoldsAreKept ==
    [][/\ asset.kept /\ ~asset'.kept => asset.hold = "NONE"
       /\ asset.hold = "OPERATOR" /\ asset'.hold # "OPERATOR"
            => \E o \in Operators : SetHold(o, FALSE)
       /\ asset.hold = "BOTH" /\ asset'.hold # "BOTH"
            => \/ \E o \in Operators : SetHold(o, FALSE)
               \/ \E w \in Workers : Release(w) /\ ~session[w].held]_asset

(* The media of a clip that is rejected, or published, is deleted once its *)
(* deadline has passed and nothing protects it, whatever grants there were *)
(* and whatever pass was cut off or refused.                               *)
ExpiredIsReclaimed ==
    asset.kept /\ asset.due /\ Elapsed ~> ~asset.kept \/ asset.hold # "NONE"
                                           \/ ~asset.due \/ ~Elapsed

(* RENDERED_MEDIA_QUALITY_LIMITATIONS.md: "Retention holds protect the     *)
(* authoritative asset only while inspection is running".                  *)
HeldOnlyWhileInspected ==
    asset.hold = "INSPECTION" => \E w \in Workers : session[w].op = "INSPECT"
=============================================================================
