------------------------------- MODULE Console -------------------------------
(***************************************************************************)
(* What the Discord console reads of the database: the dashboard of a      *)
(* project with the controls it offers, the button of the guided card and  *)
(* that of the home page.  Nothing is written here: what a control does    *)
(* when it is pressed is an action of the component it belongs to.         *)
(*                                                                         *)
(* Source: app/discord_bot.py, ProductionRepository.dashboard and          *)
(* control_center, ProjectDashboardView, GuidedProjectView and             *)
(* OperatorWorkspaceView.                                                  *)
(*                                                                         *)
(* Nobody decides on the clips of this project in Pipeline, so decided,    *)
(* their approval_status by clip_number, is a parameter: what is said is   *)
(* said whatever was decided.                                              *)
(***************************************************************************)
EXTENDS Pipeline

(* What a chain of conditions arrives at: the first of order that is in S. *)
FirstOf(order, S) ==
    order[CHOOSE i \in DOMAIN order :
             order[i] \in S /\ \A j \in 1..(i - 1) : order[j] \notin S]

-----------------------------------------------------------------------------
(* The lists the console reads.                                            *)

(* opportunities, opportunity_state: those of the latest generation that   *)
(* are not STALE can be looked at.                                         *)
LatestOpportunities ==
    {o \in ({Latest} \X Moments) \cap Opportunities : opportunity[o].review_status # "ABSENT"}
Viewable == {o \in LatestOpportunities : opportunity[o].review_status # "STALE"}
Suggested(O) == {o \in O : opportunity[o].review_status = "PENDING"}

(* review_state: the clips that were rendered.                             *)
Finished == {n \in DOMAIN clips : clips[n].rendered}
Unreviewed(decided) == {n \in Finished : decided[n] = "PENDING"}

(* decide_clip takes no decision on a clip that was not rendered.          *)
Decisions ==
    {decided \in [DOMAIN clips -> {"PENDING", "APPROVED", "REJECTED"}] :
        \A n \in DOMAIN clips \ Finished : decided[n] = "PENDING"}

-----------------------------------------------------------------------------
(* The dashboard of the project.                                           *)

Approved(decided) == Cardinality({n \in DOMAIN clips : decided[n] = "APPROVED"})

Dashboard(decided) ==
    [status |-> project.status, downloaded |-> project.key # None,
     analysis |-> analysis.status,
     total |-> Len(clips), approved |-> Approved(decided),
     opportunities |-> Cardinality(LatestOpportunities),
     pending |-> Cardinality(Suggested(LatestOpportunities))]

(* ProjectDashboardView.apply_state: the buttons that are not disabled.    *)
(* (Mutant: an analysis that failed is not offered again.)                 *)
NeverAnalysed(status) == status \in {"ABSENT", "CANCELLED"}
Analysable(status) == status \notin {"QUEUED", "RUNNING", "COMPLETED"}

Enabled(d) ==
    {c \in {"REVIEW"} : d.status = "SOURCE_REVIEW_REQUIRED"}
    \cup {c \in {"DOWNLOAD"} :
            ~d.downloaded /\ d.status \in {"SOURCE_RESOLVED", "SOURCE_ACCEPTED", "SOURCE_READY"}}
    \cup {c \in {"ANALYSE"} : d.downloaded /\ Analysable(d.analysis)}
    \cup {c \in {"DETECT"} : d.analysis = "COMPLETED" /\ d.opportunities = 0}
    \cup {c \in {"SUGGESTIONS"} : d.opportunities > 0}
    \cup {c \in {"PREPARE"} : d.status = "SOURCE_READY" /\ d.total = 0}
    \cup {c \in {"CLIPS"} : d.total > 0}

(* The first of them is shown.                                             *)
Offered(d) ==
    FirstOf(<<"REVIEW", "DOWNLOAD", "ANALYSE", "DETECT", "SUGGESTIONS", "PREPARE", "CLIPS",
              "REFRESH">>,
            Enabled(d) \cup {"REFRESH"})

(* Pressing a control leads on: the handler does not refuse, and what it   *)
(* asks of a worker is not left alone there.                               *)
LeadsOn(c) ==
    \/ c = "REVIEW" /\ project.selected # None
    \/ c = "DOWNLOAD" /\ project.status \in Downloadable
    \/ c = "ANALYSE" /\ analysis.status \notin {"RUNNING", "CANCELLED"}
    \/ c = "DETECT" /\ (Latest = 0 \/ run[Latest] \in {"QUEUED", "FAILED"})
    \/ c = "SUGGESTIONS" /\ Viewable # {}
    \/ c = "PREPARE" /\ project.key # None /\ clips = <<>>
    \/ c = "CLIPS" /\ clips[1].rendered

-----------------------------------------------------------------------------
(* The button of the guided card and that of the home page.                *)

(* What waits for a decision: on the source, a suggested clip, a clip.     *)
Waiting(suggested, decided) ==
    {x \in {"SOURCE"} : project.status = "SOURCE_REVIEW_REQUIRED"}
    \cup {x \in {"SUGGESTION"} : suggested # {}}
    \cup {x \in {"CLIP"} : Unreviewed(decided) # {}}

(* continue_working reads the dashboard again.  It goes to a suggestion,   *)
(* says that the approved clip is being rendered or that none was chosen,  *)
(* goes to a clip, or on to package and queue.  (Mutant: the approved clip *)
(* is spoken of first.)                                                    *)
ClipAwaitedFirst == <<"SOURCE", "AWAITED", "SUGGESTION", "CLIP", "LATER">>
SuggestionFirst == <<"SOURCE", "SUGGESTION", "AWAITED", "CLIP", "LATER">>

Continue(d, decided) ==
    FirstOf(SuggestionFirst,
        {x \in {"SOURCE"} : d.status = "SOURCE_REVIEW_REQUIRED"}
        \cup {x \in {"SUGGESTION"} : d.pending > 0}
        \cup {x \in {"AWAITED"} : d.opportunities > 0 /\ d.total = 0}
        \cup {x \in {"CLIP"} : d.total > 0 /\ d.approved < d.total /\ Unreviewed(decided) # {}}
        \cup {"LATER"})

(* GuidedProjectView.apply_state: the label the button is drawn with.      *)
Label(d) ==
    FirstOf(<<"ISSUE", "SOURCE", "SUGGESTION", "CLIP", "LATER">>,
        {x \in {"ISSUE"} : project.error}
        \cup {x \in {"SOURCE"} : d.status = "SOURCE_REVIEW_REQUIRED"}
        \cup {x \in {"SUGGESTION"} : d.pending > 0}
        \cup {x \in {"CLIP"} : d.total > 0 /\ d.approved < d.total}
        \cup {"LATER"})

(* control_center counts, and _open_next opens, the suggestions of every   *)
(* generation.                                                             *)
ControlCenter(decided) ==
    [suggestions |-> Cardinality(Suggested(Opportunities)),
     clips |-> Cardinality(Unreviewed(decided))]

OpenNext(decided) ==
    FirstOf(<<"SOURCE", "SUGGESTION", "CLIP", "LATER">>,
            Waiting(Suggested(Opportunities), decided) \cup {"LATER"})

-----------------------------------------------------------------------------
(* Where a project may stop: its source was rejected, or could not be      *)
(* downloaded; its analysis was cancelled; nothing was found in it.        *)
Over ==
    \/ project.status \in {"ABSENT", "SOURCE_REJECTED"}
    \/ project.status = "DOWNLOAD_FAILED" /\ project.key = None
    \/ analysis.status = "CANCELLED"
    \/ Latest # 0 /\ run[Latest] = "COMPLETED" /\ Viewable = {}

Quiet ==
    /\ faults = 0 /\ lost = {}
    /\ \A m \in Messages : messages[m] = 0
    /\ \A a \in Actors : Free(a)

(* However requests, cancellations, downloads, runs and reruns have met:   *)
(* when nothing is under way any more, the control that the dashboard      *)
(* offers brings the project on, unless it may stop there.                 *)
DashboardLeadsOn ==
    Quiet /\ ~Over => \A decided \in Decisions : LeadsOn(Offered(Dashboard(decided)))

(* A decision that waits is not hidden: the guided card's button opens     *)
(* one, as its label says; and unless a run is to come, which supersedes   *)
(* older suggestions, the home page counts and opens the same.             *)
NoDecisionHidden ==
    \A decided \in Decisions :
        LET d == Dashboard(decided)
            here == Waiting(Suggested(LatestOpportunities), decided)
        IN
        /\ here # {} => Continue(d, decided) \in here
        /\ Label(d) \in {"SOURCE", "SUGGESTION"} => Continue(d, decided) = Label(d)
        /\ Latest # 0 /\ run[Latest] = "COMPLETED" =>
              /\ ControlCenter(decided).suggestions = d.pending
              /\ here # {} => OpenNext(decided) = Continue(d, decided)
=============================================================================
