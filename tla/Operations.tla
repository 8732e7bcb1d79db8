----------------------------- MODULE Operations -----------------------------
(***************************************************************************)
(* Operations: a tick looks at what waits for a decision or has failed,    *)
(* keeps operator tasks and alerts up to date and writes the reports of    *)
(* the day, which the bot posts.                                           *)
(*                                                                         *)
(* Source: app/operations/service.py, the refresh endpoint of app/api.py,  *)
(* the bot's summary and delivery loop, refresh_operations_state and       *)
(* generate_autopilot_briefings of app/worker.py.                          *)
(*                                                                         *)
(* Tasks, alerts and reports are told apart by unique constraints, tasks   *)
(* by (brand, dedupe_key, status): one OPEN and one COMPLETED of a kind.   *)
(***************************************************************************)
EXTENDS ClipOpportunities, ContentPackages, Discovery

CONSTANTS
    Concerns,       \* what opens a task or an alert that nothing closes
    Reports,        \* reports of a type and a date, numbered as they are written
    MaxPosts        \* bound: posts of one report

ASSUME OperationsAssumption ==
    /\ Concerns \subseteq {"RETRY_FAILED", "CONNECT_DESTINATION", "BRAND_HEALTH"}
    /\ Reports \subseteq Nat /\ MaxPosts \in Nat \ {0}

VARIABLES
    reviewTask,     \* the REVIEW_CONTENT rows of operator_tasks
    raised,         \* the other OPEN tasks and alerts
    report,         \* operations_reports
    posted          \* how often Discord has a report

OperationsTypeOK ==
    /\ reviewTask \in [open : BOOLEAN, done : BOOLEAN]
    /\ raised \subseteq Concerns
    /\ report \in [Reports -> {"ABSENT", "PENDING_DELIVERY", "DELIVERED"}]
    /\ posted \in [Reports -> 0..MaxPosts]

RefreshMessage == [task |-> "refresh_operations_state"]

operationsRows == <<reviewTask, raised, report, posted>>

(* What the handlers and tasks here have in their sessions.                *)
OperationSessions ==
    [op : {"REFRESH"}, at : {"loaded", "refreshed"}, message : {NoMessage, RefreshMessage},
     pending : BOOLEAN, task : [open : BOOLEAN, done : BOOLEAN], concerns : SUBSET Concerns,
     raised : SUBSET Concerns]
    \cup [op : {"DELIVER"}, at : {"posting", "posted"}, message : {NoMessage},
          reports : SUBSET Reports]

-----------------------------------------------------------------------------
(* refresh_operational_state, in the tick, an endpoint or the bot.         *)

(* Which clips are decided is not in these modules: one that was rendered  *)
(* may be, or not.                                                         *)
ClipsUndecided ==
    {undecided \in BOOLEAN : undecided => \E n \in DOMAIN clips : clips[n].rendered}

(* review_inbox_counts and queue_metrics.                                  *)
AwaitsReview(undecided) ==
    \/ project.status = "SOURCE_REVIEW_REQUIRED"
    \/ \E o \in Opportunities : opportunity[o].review_status = "PENDING"
    \/ undecided
    \/ \E g \in Generations : package[g].status = "PENDING"
    \/ \E c \in Channels, v \in Videos : media[c][v].status = "NEEDS_REVIEW"

SeenConcerns ==
    {seen \in SUBSET Concerns :
        "RETRY_FAILED" \in seen => project.status = "DOWNLOAD_FAILED"}

Health(message) ==
    {[op |-> "REFRESH", at |-> "loaded", message |-> message,
      pending |-> AwaitsReview(undecided), task |-> reviewTask, concerns |-> seen,
      raised |-> raised] : seen \in SeenConcerns, undecided \in ClipsUndecided}

CallRefresh(o) ==
    /\ Free(o)
    /\ \E s \in Health(NoMessage) : Begin(o, s)
    /\ UNCHANGED <<operationsRows, messages, lost, faults>>

BeatRefresh ==
    /\ messages' = Queued(RefreshMessage)
    /\ UNCHANGED <<operationsRows, session, lost, faults>>

TakeRefresh(w) ==
    /\ \E s \in Health(RefreshMessage) : Receive(w, RefreshMessage, s)
    /\ UNCHANGED operationsRows

(* run_due_operations leaves a brand alone in quiet hours and pauses.      *)
LeaveQuiet(w) ==
    /\ w \in Workers /\ At(w, "REFRESH", "loaded")
    /\ End(w)
    /\ UNCHANGED <<operationsRows, messages, lost, faults>>

(* _open_task and _complete_task decide on what they have read.            *)
Opens(s) == s.pending /\ ~s.task.open
Completes(s) == ~s.pending /\ s.task.open

(* One commit; a constraint refuses all of it.  The COMPLETED row of an    *)
(* earlier round stays, and the second can never be completed.             *)
RefreshCollides(s) ==
    \/ Opens(s) /\ reviewTask.open
    \/ Completes(s) /\ s.task.done
    \/ (s.concerns \ s.raised) \cap raised # {}

Refresh(a) ==
    LET s == session[a] IN
    /\ At(a, "REFRESH", "loaded")
    /\ ~RefreshCollides(s)
    /\ reviewTask' = CASE Opens(s) -> [reviewTask EXCEPT !.open = TRUE]
                       [] Completes(s) /\ ~reviewTask.done -> [open |-> FALSE, done |-> TRUE]
                       [] OTHER -> reviewTask
    /\ raised' = raised \cup s.concerns
    /\ IF a \in Workers THEN Goto(a, "refreshed") ELSE End(a)
    /\ UNCHANGED <<report, posted, messages, lost, faults>>

RefreshFails(a) ==
    /\ At(a, "REFRESH", "loaded")
    /\ RefreshCollides(session[a])
    /\ EndInException(a)
    /\ UNCHANGED <<operationsRows, messages, faults>>

(* create_due_reports: those of the hour that are not there yet.           *)
CreateReports(w) ==
    /\ At(w, "REFRESH", "refreshed")
    /\ \E ready \in SUBSET {r \in Reports : report[r] = "ABSENT"} :
          report' = [r \in Reports |-> IF r \in ready THEN "PENDING_DELIVERY" ELSE report[r]]
    /\ End(w)
    /\ UNCHANGED <<reviewTask, raised, posted, messages, lost, faults>>

-----------------------------------------------------------------------------
(* _deliver_operations_reports: the bot's one loop posts what is pending   *)
(* and enters each delivery.  What goes wrong ends the round.              *)

PendingReports == {r \in Reports : report[r] = "PENDING_DELIVERY"}

LoadReports(o) ==
    /\ Free(o)
    /\ \A p \in Operators : session[p].op # "DELIVER"
    /\ PendingReports # {}
    /\ Begin(o, [op |-> "DELIVER", at |-> "posting", message |-> NoMessage,
                 reports |-> PendingReports])
    /\ UNCHANGED <<operationsRows, messages, lost, faults>>

NextReport(s) == CHOOSE r \in s.reports : \A q \in s.reports : r <= q

PostReport(o) ==
    LET r == NextReport(session[o]) IN
    /\ At(o, "DELIVER", "posting")
    /\ posted[r] < MaxPosts
    /\ posted' = [posted EXCEPT ![r] = @ + 1]
    /\ Goto(o, "posted")
    /\ UNCHANGED <<reviewTask, raised, report, messages, lost, faults>>

PostFails(o) ==
    /\ At(o, "DELIVER", "posting")
    /\ End(o)
    /\ UNCHANGED <<operationsRows, messages, lost, faults>>

(* mark_report_delivered, in a session of its own.  (Mutant: it enters the *)
(* delivery of all that the loop has read.)                                *)
AllLoaded(s) == s.reports
Delivered(s) == {NextReport(s)}

MarkDelivered(o) ==
    LET s == session[o]
        rest == s.reports \ {NextReport(s)}
    IN
    /\ At(o, "DELIVER", "posted")
    /\ report' = [r \in Reports |-> IF r \in Delivered(s) THEN "DELIVERED" ELSE report[r]]
    /\ IF rest = {} THEN End(o)
       ELSE session' = [session EXCEPT ![o].at = "posting", ![o].reports = rest]
    /\ UNCHANGED <<reviewTask, raised, posted, messages, lost, faults>>

-----------------------------------------------------------------------------
OperationsInit ==
    /\ reviewTask = [open |-> FALSE, done |-> FALSE]
    /\ raised = {}
    /\ report = [r \in Reports |-> "ABSENT"]
    /\ posted = [r \in Reports |-> 0]

OperationsHandler(o) ==
    \/ CallRefresh(o) \/ LoadReports(o) \/ PostReport(o) \/ PostFails(o) \/ MarkDelivered(o)

Operate(a) == LeaveQuiet(a) \/ Refresh(a) \/ RefreshFails(a) \/ CreateReports(a)

(* What reads DELIVERED was posted, and a report is posted again only if   *)
(* something went wrong between the post and its entry.                    *)
ReportsArePosted ==
    \A r \in Reports :
        /\ report[r] = "DELIVERED" => posted[r] > 0
        /\ posted[r] <= 1 + faults
=============================================================================
