--------------------------- MODULE ProducerAdvice ---------------------------
(***************************************************************************)
(* The AI Producer: quality reports on a rendered clip, numbered and each  *)
(* with the inspection it looks at, and recommendations on a project or a  *)
(* clip, which operators annotate, approve or reject.                      *)
(*                                                                         *)
(* Source: app/producer/service.py and models.py, their endpoints in       *)
(* app/api.py, the Producer views of app/discord_bot.py, and               *)
(* generate_producer_recommendations, generate_clip_quality_report and the *)
(* end of inspect_rendered_media in app/worker.py.                         *)
(*                                                                         *)
(* The clip is that of MediaRetention, and it is rendered.  Of what a      *)
(* report says only the inspection is kept, and nothing of what is         *)
(* recommended.  A recommendation is approved or rejected by nobody but    *)
(* these handlers, and no other component reads it.                        *)
(***************************************************************************)
EXTENDS MediaRetention, FiniteSetsExt

CONSTANTS
    MaxReports,     \* bound: quality reports of the clip
    MaxAdvice,      \* bound: recommendations
    MaxNotes        \* bound: versions of a recommendation

ASSUME AdviceAssumption ==
    MaxReports \in Nat \ {0} /\ MaxAdvice \in Nat /\ MaxNotes \in Nat \ {0}

VARIABLES
    qualityReports,     \* clip_quality_reports
    advice              \* producer_recommendations, numbered as they are written

adviceRows == <<qualityReports, advice>>

QualityReport == [version : 1..MaxReports, inspection : 0..MaxInspections]

AdviceIds == 1..MaxAdvice
AdviceStatuses == {"PENDING", "APPROVED", "REJECTED"}
Recommendation ==
    [about : {"NOTHING", "PROJECT", "CLIP"}, status : AdviceStatuses, version : 1..MaxNotes]
Unwritten == [about |-> "NOTHING", status |-> "PENDING", version |-> 1]

AdviceTypeOK ==
    /\ qualityReports \subseteq QualityReport
    /\ advice \in [AdviceIds -> Recommendation]

AdviseMessage == [task |-> "generate_producer_recommendations"]
ReportMessage == [task |-> "generate_clip_quality_report"]

(* What the handlers and tasks here have in their sessions.                *)
AdviceSessions ==
    {s \in [op : {"REPORT", "QUALITY", "INSPECTED"}, at : {"unreported"},
            message : {NoMessage, ReportMessage, InspectMessage}, latest : 0..MaxReports]
          \cup [op : {"REPORT", "QUALITY", "INSPECTED"}, at : {"reported"},
                message : {NoMessage, ReportMessage, InspectMessage},
                latest : 0..(MaxReports - 1), inspection : 0..MaxInspections] :
        s.message = InspectMessage => s.op = "INSPECTED"}
    \cup [op : {"ADVISE"}, at : {"unadvised"}, message : {NoMessage, ReportMessage, AdviseMessage},
          about : {"PROJECT", "CLIP"}, known : BOOLEAN]
    \cup [op : {"NOTE", "ENDORSE", "DECLINE"}, at : {"advised"}, message : {NoMessage},
          id : AdviceIds, copy : Recommendation]

-----------------------------------------------------------------------------
(* generate_clip_quality_report, called by the API, which goes on to the   *)
(* clip's recommendations, by the bot, by its task, which goes on too, and *)
(* by the task that has completed an inspection.                           *)

LatestReport == Max({r.version : r \in qualityReports} \cup {0})
NewestCompleted == Max({v \in Inspections : inspection[v] = "COMPLETED"} \cup {0})

Reporting(op, m) == [op |-> op, at |-> "unreported", message |-> m, latest |-> LatestReport]

CallReport(o) ==
    /\ Free(o)
    /\ \E op \in {"REPORT", "QUALITY"} : Begin(o, Reporting(op, NoMessage))
    /\ UNCHANGED <<adviceRows, messages, lost, faults>>

TakeReport(w) ==
    /\ Receive(w, ReportMessage, Reporting("REPORT", ReportMessage))
    /\ UNCHANGED adviceRows

ReportInspection(w) ==
    /\ At(w, "INSPECTED", "completed")
    /\ Begin(w, Reporting("INSPECTED", InspectMessage))
    /\ UNCHANGED <<adviceRows, messages, lost, faults>>

(* What follows a report: generate_clip_recommendations, which looks for   *)
(* those of the clip that are there, or nothing.                           *)
Advised(about, statuses) ==
    \E i \in AdviceIds : advice[i].about = about /\ advice[i].status \in statuses

Advising(m, about, statuses) ==
    [op |-> "ADVISE", at |-> "unadvised", message |-> m, about |-> about,
     known |-> Advised(about, statuses)]

AfterReport(a) ==
    IF session[a].op = "REPORT"
    THEN Begin(a, Advising(session[a].message, "CLIP", AdviceStatuses))
    ELSE End(a)

(* rerun: only the inspection asks for another report.  (Mutant: nobody    *)
(* does.)                                                                  *)
NeverAgain(s) == FALSE
Again(s) == s.op = "INSPECTED"

(* The evidence is read after the latest report, and the inspection is the *)
(* newest that is complete.  More than MaxReports are not looked at.       *)
ReadEvidence(a) ==
    LET s == session[a] IN
    /\ s.op \in {"REPORT", "QUALITY", "INSPECTED"} /\ s.at = "unreported"
    /\ CASE s.latest > 0 /\ ~Again(s) -> AfterReport(a)
         [] s.latest = MaxReports /\ Again(s) -> End(a)
         [] OTHER -> Begin(a, [op |-> s.op, at |-> "reported", message |-> s.message,
                               latest |-> s.latest, inspection |-> NewestCompleted])
    /\ UNCHANGED <<adviceRows, messages, lost, faults>>

(* uq_clip_quality_report_version refuses a second report of a number.     *)
VersionTaken(s) == \E r \in qualityReports : r.version = s.latest + 1

CommitReport(a) ==
    LET s == session[a] IN
    /\ s.op \in {"REPORT", "QUALITY", "INSPECTED"} /\ s.at = "reported"
    /\ IF VersionTaken(s)
       THEN EndInException(a) /\ UNCHANGED qualityReports
       ELSE /\ qualityReports' = qualityReports \cup
                 {[version |-> s.latest + 1, inspection |-> s.inspection]}
            /\ AfterReport(a) /\ UNCHANGED lost
    /\ UNCHANGED <<advice, messages, faults>>

-----------------------------------------------------------------------------
(* generate_project_recommendations, in the API, the bot or a task: what   *)
(* is pending is returned, otherwise the project is advised anew.          *)

CallAdvice(o) ==
    /\ Free(o)
    /\ Begin(o, Advising(NoMessage, "PROJECT", {"PENDING"}))
    /\ UNCHANGED <<adviceRows, messages, lost, faults>>

TakeAdvice(w) ==
    /\ Receive(w, AdviseMessage, Advising(AdviseMessage, "PROJECT", {"PENDING"}))
    /\ UNCHANGED adviceRows

(* One commit.  A clip has two recommendations, and a project two or more, *)
(* of which two are looked at.  No constraint tells them from others.      *)
NextAdvice ==
    {i \in AdviceIds : /\ advice[i] = Unwritten
                       /\ Cardinality({j \in 1..i : advice[j] = Unwritten}) <= 2}

CommitAdvice(a) ==
    LET s == session[a] IN
    /\ At(a, "ADVISE", "unadvised")
    /\ IF s.known THEN UNCHANGED advice
       ELSE /\ Cardinality(NextAdvice) = 2
            /\ advice' = [i \in AdviceIds |-> IF i \in NextAdvice
                            THEN [Unwritten EXCEPT !.about = s.about] ELSE advice[i]]
    /\ End(a)
    /\ UNCHANGED <<qualityReports, messages, lost, faults>>

-----------------------------------------------------------------------------
(* decide_recommendation and edit_recommendation.  The version that an     *)
(* operator has seen must be that of the copy; what is decided that way is *)
(* returned, or refused.                                                   *)

LoadAdvice(o) ==
    /\ Free(o)
    /\ \E i \in AdviceIds, op \in {"NOTE", "ENDORSE", "DECLINE"} :
          /\ advice[i] # Unwritten /\ advice[i].status = "PENDING"
          /\ advice[i].version < MaxNotes
          /\ Begin(o, [op |-> op, at |-> "advised", message |-> NoMessage, id |-> i,
                       copy |-> advice[i]])
    /\ UNCHANGED <<adviceRows, messages, lost, faults>>

Verdict(s) ==
    CASE s.op = "ENDORSE" -> "APPROVED" [] s.op = "DECLINE" -> "REJECTED"
      [] OTHER -> s.copy.status

SaveAdvice(o) ==
    LET s == session[o] IN
    /\ s.op \in {"NOTE", "ENDORSE", "DECLINE"} /\ s.at = "advised"
    /\ advice' = [advice EXCEPT
                    ![s.id].status = Updated(@, s.copy.status, Verdict(s)),
                    ![s.id].version = s.copy.version + 1]
    /\ End(o)
    /\ UNCHANGED <<qualityReports, messages, lost, faults>>

-----------------------------------------------------------------------------
AdviceInit ==
    /\ qualityReports = {}
    /\ advice = [i \in AdviceIds |-> Unwritten]

AdviceHandler(o) ==
    \/ CallReport(o) \/ CallAdvice(o) \/ LoadAdvice(o) \/ SaveAdvice(o)
    \/ ReadEvidence(o) \/ CommitReport(o) \/ CommitAdvice(o)

Advise(w) ==
    \/ ReportInspection(w) \/ ReadEvidence(w) \/ CommitReport(w) \/ CommitAdvice(w)

(* When the latest inspection has completed and the task is over, the      *)
(* newest quality report looks at it, whatever other reports were asked    *)
(* for meanwhile and wherever the task was cut off; unless it ended in an  *)
(* exception.                                                              *)
InspectionIsReported ==
    LET v == LatestInspection IN
    /\ v > 0 /\ Inspected(v) = "COMPLETED"
    /\ messages[InspectMessage] = 0 /\ InspectMessage \notin lost
    /\ \A w \in Workers : session[w].op \notin {"INSPECT", "INSPECTED"}
    /\ LatestReport < MaxReports
    => \E r \in qualityReports : r.version = LatestReport /\ r.inspection = v

(* What was decided is never pending again, though a note on the version   *)
(* before is saved after the decision.                                     *)
AdviceStaysDecided ==
    [][\A i \in AdviceIds :
          advice[i].status # "PENDING" => advice'[i].status # "PENDING"]_advice
=============================================================================
