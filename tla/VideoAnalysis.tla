---------------------------- MODULE VideoAnalysis ----------------------------
(***************************************************************************)
(* The analysis of a project's video: requested, run in stages by a        *)
(* worker, cancelled and requested again.                                  *)
(*                                                                         *)
(* Source: app/analysis/service.py (request_analysis, cancel_analysis,     *)
(* execute_analysis), run_video_analysis and the end of                    *)
(* process_accepted_source of app/worker.py, and the analysis endpoints of *)
(* app/api.py and app/discord_bot.py.                                      *)
(*                                                                         *)
(* The row of one analysis version is modelled, with the facts that hang   *)
(* on it.  A worker refreshes its copy between the stages, and only then   *)
(* sees a cancellation.                                                    *)
(***************************************************************************)
EXTENDS Production

CONSTANT MaxCopies      \* bound: copies of the facts of a stage

ASSUME AnalysisAssumption == MaxCopies \in Nat \ {0}

VARIABLE analysis       \* the video_analyses row and its facts

AnalysisStatuses == {"ABSENT", "QUEUED", "RUNNING", "COMPLETED", "CANCELLED", "FAILED"}

(* transcript: how many times the transcript is stored, which stands for   *)
(* all facts that stages add.  whole is not a column: the facts are those  *)
(* of one run that went through all stages.                                *)
Analysis == [status : AnalysisStatuses, transcript : 0..MaxCopies, whole : BOOLEAN]

AnalysisTypeOK == analysis \in Analysis

AnalyseMessage == [task |-> "run_video_analysis", id |-> None]
DetectMessage == [task |-> "generate_clip_opportunities", id |-> None]

(* What the handlers and tasks here have in their sessions.                *)
AnalysisSessions ==
    [op : {"ANALYSE", "REANALYSE", "CANCEL", "RUN"},
     at : {"loaded", "requested", "analysing", "timeline", "transcription", "text", "completing",
           "completed"},
     message : {NoMessage, AnalyseMessage}, status : AnalysisStatuses]

-----------------------------------------------------------------------------
(* Requests and cancellations, in a handler with the copy it loaded.       *)

LoadForAnalysis(o, op) ==
    /\ Free(o)
    /\ op = "ANALYSE" => analysis.status # "ABSENT" \/ project.key # None
    /\ op = "REANALYSE" => analysis.status # "RUNNING" /\ project.key # None
    /\ op = "CANCEL" => analysis.status \notin {"ABSENT", "COMPLETED", "CANCELLED"}
    /\ Begin(o, [op |-> op, at |-> "loaded", message |-> NoMessage,
                 status |-> analysis.status])
    /\ UNCHANGED <<project, clips, analysis, messages, lost, faults>>

(* request_analysis on a copy of the row: it queues what does not exist or *)
(* what is to be run again, and returns anything else.  Two first requests *)
(* at once: the second violates (project_id, analysis_version).            *)
Requested(copy, rerun) ==
    IF rerun \/ copy = "ABSENT" THEN [analysis EXCEPT !.status = "QUEUED"] ELSE analysis

RequestAnalysis(o) ==
    /\ At(o, "ANALYSE", "loaded") \/ At(o, "REANALYSE", "loaded")
    /\ session[o].status = "ABSENT" => analysis.status = "ABSENT"
    /\ analysis' = IF session[o].op = "REANALYSE" /\ session[o].status = "QUEUED"
                   THEN analysis
                   ELSE Requested(session[o].status, session[o].op = "REANALYSE")
    /\ Goto(o, "requested")
    /\ UNCHANGED <<project, clips, messages, lost, faults>>

AlreadyRequested(o) ==
    /\ At(o, "ANALYSE", "loaded") \/ At(o, "REANALYSE", "loaded")
    /\ session[o].status = "ABSENT" /\ analysis.status # "ABSENT"
    /\ End(o)
    /\ UNCHANGED <<project, clips, analysis, messages, lost, faults>>

SendAnalysis(o) ==
    /\ At(o, "ANALYSE", "requested") \/ At(o, "REANALYSE", "requested")
    /\ messages' = Queued(AnalyseMessage)
    /\ End(o)
    /\ UNCHANGED <<project, clips, analysis, lost, faults>>

CancelAnalysis(o) ==
    /\ At(o, "CANCEL", "loaded")
    /\ analysis' = [analysis EXCEPT !.status = "CANCELLED"]
    /\ End(o)
    /\ UNCHANGED <<project, clips, messages, lost, faults>>

(* process_accepted_source after the download: it requests the analysis    *)
(* and sends the message, also when the analysis is there already.         *)
FetchedRequestsAnalysis(w) ==
    /\ w \in Workers
    /\ At(w, "FETCH", "fetched")
    /\ analysis' = Requested(analysis.status, FALSE)
    /\ Goto(w, "requested")
    /\ UNCHANGED <<project, clips, messages, lost, faults>>

FetchedSendsAnalysis(w) ==
    /\ At(w, "FETCH", "requested")
    /\ messages' = Queued(AnalyseMessage)
    /\ End(w)
    /\ UNCHANGED <<project, clips, analysis, lost, faults>>

-----------------------------------------------------------------------------
(* run_video_analysis.  The task finds the row or requests it; the stages  *)
(* go on from place to place.                                              *)

AnalysisUnchanged == UNCHANGED <<project, clips, analysis, lost, faults>>

TakeAnalysis(w) ==
    /\ Receive(w, AnalyseMessage,
               [op |-> "RUN", at |-> "loaded", message |-> AnalyseMessage,
                status |-> analysis.status])
    /\ UNCHANGED <<project, clips, analysis>>

(* A row that runs, is cancelled or completed is left alone; for one that  *)
(* is completed the detection is sent for all the same.                    *)
LeaveAnalysis(w) ==
    /\ At(w, "RUN", "loaded")
    /\ session[w].status \in {"RUNNING", "CANCELLED"}
    /\ End(w)
    /\ UNCHANGED messages /\ AnalysisUnchanged

FindCompleted(w) ==
    /\ At(w, "RUN", "loaded")
    /\ session[w].status = "COMPLETED"
    /\ Goto(w, "completed")
    /\ UNCHANGED messages /\ AnalysisUnchanged

StartAnalysis(w) ==
    /\ At(w, "RUN", "loaded")
    /\ session[w].status \in {"QUEUED", "FAILED"}
    /\ analysis' = [analysis EXCEPT !.status = "RUNNING"]
    /\ Goto(w, "analysing")
    /\ UNCHANGED <<project, clips, messages, lost, faults>>

(* _cancelled: the copy is refreshed after each stage, and a cancelled     *)
(* analysis is left where it is.                                           *)
GoOnUnlessCancelled(w, place) ==
    IF analysis.status = "CANCELLED" THEN End(w) ELSE Goto(w, place)

(* The stages, with their commits.  The timeline replaces what an earlier  *)
(* run has stored; a failure to transcribe or to read text is recorded and *)
(* does not end the analysis.                                              *)
AnalyseVideo(w) ==
    /\ At(w, "RUN", "analysing")
    /\ GoOnUnlessCancelled(w, "timeline")
    /\ UNCHANGED messages /\ AnalysisUnchanged

WriteTimeline(w) ==
    /\ At(w, "RUN", "timeline")
    /\ analysis' = [analysis EXCEPT !.transcript = 0, !.whole = FALSE]
    /\ GoOnUnlessCancelled(w, "transcription")
    /\ UNCHANGED <<project, clips, messages, lost, faults>>

WriteTranscript(w) ==
    /\ At(w, "RUN", "transcription")
    /\ \E n \in {analysis.transcript, analysis.transcript + 1} :
          n <= MaxCopies /\ analysis' = [analysis EXCEPT !.transcript = n]
    /\ GoOnUnlessCancelled(w, "text")
    /\ UNCHANGED <<project, clips, messages, lost, faults>>

WriteText(w) ==
    /\ At(w, "RUN", "text")
    /\ analysis' = [analysis EXCEPT !.whole = TRUE]
    /\ GoOnUnlessCancelled(w, "completing")
    /\ UNCHANGED <<project, clips, messages, lost, faults>>

CompleteAnalysis(w) ==
    /\ At(w, "RUN", "completing")
    /\ analysis' = [analysis EXCEPT !.status = "COMPLETED"]
    /\ Goto(w, "completed")
    /\ UNCHANGED <<project, clips, messages, lost, faults>>

SendDetection(w) ==
    /\ At(w, "RUN", "completed")
    /\ messages' = Queued(DetectMessage)
    /\ End(w)
    /\ AnalysisUnchanged

(* Anything else that goes wrong on the way: rollback, FAILED.             *)
AnalysisFails(w) ==
    /\ session[w].op = "RUN"
    /\ session[w].at \in {"analysing", "timeline", "completing"}
    /\ analysis' = [analysis EXCEPT !.status = "FAILED"]
    /\ End(w)
    /\ UNCHANGED <<project, clips, messages, lost, faults>>

-----------------------------------------------------------------------------
AnalysisInit == analysis = [status |-> "ABSENT", transcript |-> 0, whole |-> FALSE]

AnalysisHandler(o) ==
    \/ \E op \in {"ANALYSE", "REANALYSE", "CANCEL"} : LoadForAnalysis(o, op)
    \/ RequestAnalysis(o) \/ AlreadyRequested(o) \/ SendAnalysis(o) \/ CancelAnalysis(o)

Analyse(w) ==
    \/ FetchedRequestsAnalysis(w) \/ FetchedSendsAnalysis(w)
    \/ LeaveAnalysis(w) \/ FindCompleted(w) \/ StartAnalysis(w)
    \/ AnalyseVideo(w) \/ WriteTimeline(w) \/ WriteTranscript(w) \/ WriteText(w)
    \/ CompleteAnalysis(w) \/ SendDetection(w) \/ AnalysisFails(w)
=============================================================================
