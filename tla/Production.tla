----------------------------- MODULE Production -----------------------------
(***************************************************************************)
(* A production project: its source is chosen and judged, downloaded, and  *)
(* cut into clips.                                                         *)
(*                                                                         *)
(* Source: app/production/service.py, the project endpoints of app/api.py, *)
(* the same operations of app/discord_bot.py, and process_accepted_source  *)
(* of app/worker.py up to the download.                                    *)
(*                                                                         *)
(* A handler or a task decides on the copy of the project it loaded; its   *)
(* commit writes the columns it changed in that copy over the row as it    *)
(* is by then.                                                             *)
(***************************************************************************)
EXTENDS CeleryWorkers, Sequences

CONSTANTS
    Sources,        \* the candidates the resolver finds for the project
    Doubtful,       \* those whose quality status asks for a review
    Opportunities,  \* the moments a clip can be rendered for
    MaxClips,       \* bound: clips of the project
    None            \* no source, no opportunity

ASSUME ProductionAssumption ==
    /\ Doubtful \subseteq Sources
    /\ None \notin Sources \cup Opportunities
    /\ MaxClips \in Nat \ {0}

VARIABLES
    project,    \* the production_projects row
    clips       \* its production_clips rows by clip_number

ProjectStatuses == {"ABSENT", "CREATED", "SOURCE_REVIEW_REQUIRED", "SOURCE_RESOLVED",
                    "SOURCE_ACCEPTED", "SOURCE_REJECTED", "DOWNLOADING",
                    "DOWNLOAD_FAILED", "SOURCE_READY", "CLIPS_READY"}

(* selected is selected_source_id; key is source_storage_key, by the       *)
(* source whose video that file is; error is whether last_error is set.    *)
Project == [status : ProjectStatuses, selected : Sources \cup {None},
            key : Sources \cup {None}, error : BOOLEAN]

(* A clip: the opportunity it was rendered for, if any, and whether        *)
(* render_status is SUCCEEDED.                                             *)
Clip == [opportunity : Opportunities \cup {None}, rendered : BOOLEAN]

ProductionTypeOK ==
    /\ project \in Project
    /\ clips \in Seq(Clip) /\ Len(clips) <= MaxClips

FetchMessage == [task |-> "process_accepted_source", id |-> None]

(* A session that has loaded the project.                                  *)
Loaded(op, place, message) ==
    [op |-> op, at |-> place, message |-> message, project |-> project]

(* What choose_source and resolve_project_sources make of a selection.     *)
Judged(s) == IF s \in Doubtful THEN "SOURCE_REVIEW_REQUIRED" ELSE "SOURCE_RESOLVED"

(* What the handlers and tasks here have in their sessions.                *)
ProductionSessions ==
    [op : {"CREATE"}, at : {"created"}, message : {NoMessage}]
    \cup [op : {"ACCEPT", "REJECT", "CHOOSE", "FETCH", "CLIPS"},
          at : {"loaded", "accepted", "downloading", "fetched", "requested", "rendering"},
          message : {NoMessage, FetchMessage}, project : Project]

-----------------------------------------------------------------------------
(* Decisions on the source.                                                *)

(* create_project commits a CREATED row and resolves its sources later in  *)
(* the same call: resolve_project_sources selects the best candidate.  A   *)
(* project that exists already is returned as it is.                       *)
CreateProject(o) ==
    /\ Free(o)
    /\ project.status = "ABSENT"
    /\ project' = [project EXCEPT !.status = "CREATED"]
    /\ Begin(o, [op |-> "CREATE", at |-> "created", message |-> NoMessage])
    /\ UNCHANGED <<clips, messages, lost, faults>>

ResolveSources(o) ==
    /\ At(o, "CREATE", "created")
    /\ \E s \in Sources, status \in {"SOURCE_REVIEW_REQUIRED", "SOURCE_RESOLVED"} :
          project' = [project EXCEPT !.selected = s, !.status = status]
    /\ End(o)
    /\ UNCHANGED <<clips, messages, lost, faults>>

(* accept_source; the bot then sends process_accepted_source, the API      *)
(* sends nothing.                                                          *)
LoadForDecision(o, op) ==
    /\ Free(o)
    /\ op = "ACCEPT" => project.selected # None
    /\ project.status \notin {"ABSENT", "SOURCE_REJECTED"}
    /\ Begin(o, Loaded(op, "loaded", NoMessage))
    /\ UNCHANGED <<project, clips, messages, lost, faults>>

AcceptSource(o) ==
    /\ At(o, "ACCEPT", "loaded")
    /\ project' = IF session[o].project.status = "SOURCE_ACCEPTED"
                  THEN project
                  ELSE [project EXCEPT !.status = "SOURCE_ACCEPTED"]
    /\ Goto(o, "accepted")
    /\ UNCHANGED <<clips, messages, lost, faults>>

SendAccepted(o) ==
    /\ At(o, "ACCEPT", "accepted")
    /\ messages' \in {messages, Queued(FetchMessage)}
    /\ End(o)
    /\ UNCHANGED <<project, clips, lost, faults>>

(* reject_source: from any other status.                                   *)
RejectSource(o) ==
    /\ At(o, "REJECT", "loaded")
    /\ project' = [project EXCEPT !.status = "SOURCE_REJECTED"]
    /\ End(o)
    /\ UNCHANGED <<clips, messages, lost, faults>>

(* choose_source, by an operator who has seen the decision version of the  *)
(* copy: not after the download, and not once there are clips.             *)
LoadForChoice(o) ==
    /\ Free(o)
    /\ project.selected # None /\ project.key = None
    /\ Begin(o, Loaded("CHOOSE", "loaded", NoMessage))
    /\ UNCHANGED <<project, clips, messages, lost, faults>>

ChooseSource(o, s) ==
    /\ At(o, "CHOOSE", "loaded")
    /\ s # session[o].project.selected
    /\ clips = <<>>
    /\ project' = [project EXCEPT !.selected = s,
                     !.status = IF session[o].project.status = Judged(s)
                                THEN @ ELSE Judged(s)]
    /\ End(o)
    /\ UNCHANGED <<clips, messages, lost, faults>>

-----------------------------------------------------------------------------
(* The download: process_accepted_source in a worker, and the download     *)
(* endpoint and button, in a handler.                                      *)

(* The states download_project takes up, one that a crash cut off among    *)
(* them.  (Mutant: without it.)                                            *)
DownloadableAfresh == {"SOURCE_RESOLVED", "SOURCE_ACCEPTED", "DOWNLOAD_FAILED"}
Downloadable == {"SOURCE_RESOLVED", "SOURCE_ACCEPTED", "DOWNLOADING", "DOWNLOAD_FAILED"}

LoadForDownload(o) ==
    /\ Free(o)
    /\ project.status # "ABSENT"
    /\ Begin(o, Loaded("FETCH", "loaded", NoMessage))
    /\ UNCHANGED <<project, clips, messages, lost, faults>>

TakeFetch(w) ==
    /\ Receive(w, FetchMessage, Loaded("FETCH", "loaded", FetchMessage))
    /\ UNCHANGED <<project, clips>>

(* download_project refuses; a file that is there is not fetched again.    *)
RefuseDownload(a) ==
    /\ At(a, "FETCH", "loaded")
    /\ session[a].project.key = None
    /\ session[a].project.status \notin Downloadable
    /\ End(a)
    /\ UNCHANGED <<project, clips, messages, lost, faults>>

(* A worker does nothing for a source that is rejected.                    *)
SkipRejected(w) ==
    /\ w \in Workers
    /\ At(w, "FETCH", "loaded")
    /\ session[w].project.status = "SOURCE_REJECTED"
    /\ End(w)
    /\ UNCHANGED <<project, clips, messages, lost, faults>>

AlreadyFetched(a) ==
    /\ At(a, "FETCH", "loaded")
    /\ session[a].project.key # None
    /\ a \in Workers => session[a].project.status # "SOURCE_REJECTED"
    /\ Goto(a, "fetched")
    /\ UNCHANGED <<project, clips, messages, lost, faults>>

StartDownload(a) ==
    LET copy == session[a].project IN
    /\ At(a, "FETCH", "loaded")
    /\ copy.key = None /\ copy.status \in Downloadable
    /\ project' = IF copy.status = "DOWNLOADING"
                  THEN project
                  ELSE [project EXCEPT !.status = "DOWNLOADING"]
    /\ session' = [session EXCEPT ![a].at = "downloading",
                                  ![a].project.status = "DOWNLOADING"]
    /\ UNCHANGED <<clips, messages, lost, faults>>

(* The end of a download: attach_authorized_mp4 stores the video and the   *)
(* row becomes SOURCE_READY, or a ProductionError makes it failed.         *)
AttachSource(a) ==
    /\ At(a, "FETCH", "downloading")
    /\ project' = [project EXCEPT !.status = "SOURCE_READY",
                                  !.key = session[a].project.selected]
    /\ session' = [session EXCEPT ![a].at = "fetched",
                     ![a].project.status = "SOURCE_READY",
                     ![a].project.key = session[a].project.selected]
    /\ UNCHANGED <<clips, messages, lost, faults>>

DownloadFails(a) ==
    /\ At(a, "FETCH", "downloading")
    /\ project' = [project EXCEPT !.status = "DOWNLOAD_FAILED", !.error = TRUE]
    /\ End(a)
    /\ UNCHANGED <<clips, messages, lost, faults>>

(* A handler is done with the download; a worker goes on to the analysis.  *)
ReturnDownload(o) ==
    /\ o \in Operators
    /\ At(o, "FETCH", "fetched")
    /\ End(o)
    /\ UNCHANGED <<project, clips, messages, lost, faults>>

-----------------------------------------------------------------------------
(* Clips.                                                                  *)

Renderable(p) == p.status \in {"SOURCE_READY", "CLIPS_READY"} /\ p.key # None

(* generate_clips, in a handler: the first clips of a project, numbered    *)
(* from 1 (one clip stands for them); a number that is taken is an error.  *)
LoadForClips(o) ==
    /\ Free(o)
    /\ project.status = "SOURCE_READY" /\ project.key # None
    /\ clips = <<>>
    /\ Begin(o, Loaded("CLIPS", "rendering", NoMessage))
    /\ UNCHANGED <<project, clips, messages, lost, faults>>

GenerateClips(o) ==
    /\ At(o, "CLIPS", "rendering")
    /\ IF clips = <<>>
       THEN /\ \E ok \in BOOLEAN :
                  clips' = <<[opportunity |-> None, rendered |-> ok]>>
            /\ project' = [project EXCEPT !.status = "CLIPS_READY"]
       ELSE UNCHANGED <<project, clips>>
    /\ End(o)
    /\ UNCHANGED <<messages, lost, faults>>

(* render_clip_window: the number it will use is read before it renders.   *)
(* (Mutant: numbers from 0.)                                               *)
NumberFromZero == Len(clips)
NextNumber == Len(clips) + 1

(* Its flush inserts the clip under that number, unless another session    *)
(* has committed one (unique project_id, clip_number).                     *)
InsertClip(n, o, ok) ==
    /\ n = NextNumber
    /\ clips' = Append(clips, [opportunity |-> o, rendered |-> ok])

-----------------------------------------------------------------------------
ProductionInit ==
    /\ project = [status |-> "ABSENT", selected |-> None, key |-> None, error |-> FALSE]
    /\ clips = <<>>

ProductionHandler(o) ==
    \/ CreateProject(o) \/ ResolveSources(o)
    \/ \E op \in {"ACCEPT", "REJECT"} : LoadForDecision(o, op)
    \/ AcceptSource(o) \/ SendAccepted(o) \/ RejectSource(o)
    \/ LoadForChoice(o) \/ \E s \in Sources : ChooseSource(o, s)
    \/ LoadForDownload(o) \/ ReturnDownload(o)
    \/ LoadForClips(o) \/ GenerateClips(o)

Download(a) ==
    \/ RefuseDownload(a) \/ SkipRejected(a) \/ AlreadyFetched(a)
    \/ StartDownload(a) \/ AttachSource(a) \/ DownloadFails(a)

(* The message that accepting a source sends is answered: the video        *)
(* arrives, or the download fails, or the source is open to decisions      *)
(* again, also when the worker dies on the way; only an exception the task *)
(* does not catch leaves it unanswered.                                    *)
AcceptedIsFetched ==
    messages[FetchMessage] > 0
        ~> \/ project.key # None
           \/ project.status \in {"SOURCE_REVIEW_REQUIRED", "SOURCE_RESOLVED",
                                  "SOURCE_REJECTED", "DOWNLOAD_FAILED"}
           \/ FetchMessage \in lost
=============================================================================
