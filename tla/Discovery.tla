----------------------------- MODULE Discovery -----------------------------
(***************************************************************************)
(* Discovery: channels that are polled for videos, the items that a poll   *)
(* finds, their review, and the production project that an approved item   *)
(* is given.                                                               *)
(*                                                                         *)
(* Source: app/discovery/service.py and models.py, create_project in       *)
(* app/production/service.py, discovery_poll_due_sources in app/worker.py, *)
(* the discovery endpoints of app/api.py and DiscoveryRepository in        *)
(* app/discord_bot.py.                                                     *)
(*                                                                         *)
(* A provider returns any videos it likes.  NEEDS_REVIEW stands for the    *)
(* statuses that the relevance score gives to a new item (LOW_RELEVANCE    *)
(* and DUPLICATE too): decisions treat them alike.  review_version is left *)
(* out: it is compared with the loaded copy and nothing else, so a         *)
(* decision that it refuses changes nothing.  Of a project it matters here *)
(* only that it is.                                                        *)
(***************************************************************************)
EXTENDS CeleryWorkers

CONSTANTS
    Channels,   \* discovery_sources
    Videos      \* canonical URLs, with the provider's item id

VARIABLES
    media,      \* discovered_media, by channel and video
    poll,       \* the status of a channel's latest discovery_run
    due,        \* the channels whose next_poll_at is past
    made        \* how many production projects a video's URL has

discoveryRows == <<media, poll, due, made>>

MediaStatuses == {"ABSENT", "NEEDS_REVIEW", "REJECTED", "PROJECT_CREATED"}
Media == [status : MediaStatuses, project : BOOLEAN]
NoMedia == [status |-> "ABSENT", project |-> FALSE]

DiscoveryTypeOK ==
    /\ media \in [Channels -> [Videos -> Media]]
    /\ poll \in [Channels -> {"ABSENT", "NONE", "RUNNING", "SUCCEEDED", "FAILED"}]
    /\ due \subseteq Channels
    /\ made \in [Videos -> 0..2]

DiscoverMessage == [task |-> "discovery_poll_due_sources"]

Known(c, v) == media[c][v].status # "ABSENT"

(* What the handlers and tasks here have in their sessions.                *)
DiscoverySessions ==
    [op : {"DISCOVER"}, at : {"next"}, message : {NoMessage, DiscoverMessage},
     todo : SUBSET Channels, found : {{}}]
    \cup [op : {"DISCOVER"}, at : {"polling", "inserting"},
          message : {NoMessage, DiscoverMessage}, todo : SUBSET Channels,
          found : SUBSET Videos, channel : Channels]
    \cup [op : {"TAKE", "LEAVE"}, at : {"loaded", "making", "linking"}, message : {NoMessage},
          video : Videos, channel : Channels, status : MediaStatuses]
    \cup [op : {"MAKE"}, at : {"loaded", "making"}, message : {NoMessage}, video : Videos]

-----------------------------------------------------------------------------
(* Polls.                                                                  *)

(* A channel is registered once (public_url is unique), and due.  It is    *)
(* not disabled again here, so no poll is refused for that.                *)
EnableChannel(o) ==
    /\ Free(o)
    /\ \E c \in Channels :
          /\ poll[c] = "ABSENT"
          /\ poll' = [poll EXCEPT ![c] = "NONE"]
          /\ due' = due \cup {c}
    /\ UNCHANGED <<media, made, session, messages, lost, faults>>

Polling(todo, message) ==
    [op |-> "DISCOVER", at |-> "next", message |-> message, todo |-> todo, found |-> {}]

CallPoll(o) ==
    /\ Free(o)
    /\ \E c \in Channels : poll[c] # "ABSENT" /\ Begin(o, Polling({c}, NoMessage))
    /\ UNCHANGED <<discoveryRows, messages, lost, faults>>

BeatDiscovery ==
    /\ messages' = Queued(DiscoverMessage)
    /\ UNCHANGED <<discoveryRows, session, lost, faults>>

(* The tick loads what is due (discovery_provider_concurrency, its limit,  *)
(* is not below the number of channels here), and polls one after another. *)
TakeDiscovery(w) ==
    /\ IF due # {} THEN Receive(w, DiscoverMessage, Polling(due, DiscoverMessage))
       ELSE /\ Free(w) /\ messages[DiscoverMessage] > 0
            /\ messages' = [messages EXCEPT ![DiscoverMessage] = @ - 1]
            /\ UNCHANGED <<session, lost, faults>>
    /\ UNCHANGED discoveryRows

(* The run is committed before the provider is asked.                      *)
StartPoll(a) ==
    /\ At(a, "DISCOVER", "next")
    /\ \E c \in session[a].todo :
          /\ poll' = [poll EXCEPT ![c] = "RUNNING"]
          /\ Begin(a, [op |-> "DISCOVER", at |-> "polling", message |-> session[a].message,
                       todo |-> session[a].todo \ {c}, found |-> {}, channel |-> c])
    /\ UNCHANGED <<media, due, made, messages, lost, faults>>

(* duplicate_status: an item of this channel, or of any with the same URL. *)
Exact(v) == \E c \in Channels : Known(c, v)

PollAnswers(a) ==
    /\ At(a, "DISCOVER", "polling")
    /\ \E items \in SUBSET Videos :
          session' = [session EXCEPT ![a].at = "inserting",
                                     ![a].found = {v \in items : ~Exact(v)}]
    /\ UNCHANGED <<discoveryRows, messages, lost, faults>>

AfterPoll(a, result) ==
    LET s == session[a] IN
    /\ poll' = [poll EXCEPT ![s.channel] = result]
    /\ due' = due \ {s.channel}
    /\ IF s.todo = {} THEN End(a) ELSE Begin(a, Polling(s.todo, s.message))

(* One commit: the items and the end of the run.                           *)
InsertFound(a) ==
    LET s == session[a] IN
    /\ At(a, "DISCOVER", "inserting")
    /\ \A v \in s.found : ~Known(s.channel, v)
    /\ media' = [media EXCEPT ![s.channel] = [v \in Videos |->
                    IF v \in s.found THEN [status |-> "NEEDS_REVIEW", project |-> FALSE]
                    ELSE @[v]]]
    /\ AfterPoll(a, "SUCCEEDED")
    /\ UNCHANGED <<made, messages, lost, faults>>

(* Another run has inserted one of them: the constraint's error is caught  *)
(* by nobody, and the run keeps reading RUNNING.                           *)
InsertCollides(a) ==
    LET s == session[a] IN
    /\ At(a, "DISCOVER", "inserting")
    /\ \E v \in s.found : Known(s.channel, v)
    /\ EndInException(a)
    /\ UNCHANGED <<discoveryRows, messages, faults>>

(* A ProviderError; the next poll is put off.                              *)
PollFails(a) ==
    /\ At(a, "DISCOVER", "polling")
    /\ AfterPoll(a, "FAILED")
    /\ UNCHANGED <<media, made, messages, lost, faults>>

(* next_poll_at passes.                                                    *)
PollTime ==
    /\ \E c \in Channels : poll[c] # "ABSENT" /\ due' = due \cup {c}
    /\ UNCHANGED <<media, poll, made, session, messages, lost, faults>>

-----------------------------------------------------------------------------
(* Decisions, and projects that people ask for without an item.            *)

LoadFinding(o) ==
    /\ Free(o)
    /\ \E c \in Channels, v \in Videos, op \in {"TAKE", "LEAVE"} :
          /\ Known(c, v)
          /\ op = "TAKE" => media[c][v].status \notin {"PROJECT_CREATED", "REJECTED"}
          /\ Begin(o, [op |-> op, at |-> "loaded", message |-> NoMessage, video |-> v,
                       channel |-> c, status |-> media[c][v].status])
    /\ UNCHANGED <<discoveryRows, messages, lost, faults>>

CallProject(o) ==
    /\ Free(o)
    /\ \E v \in Videos :
          Begin(o, [op |-> "MAKE", at |-> "loaded", message |-> NoMessage, video |-> v])
    /\ UNCHANGED <<discoveryRows, messages, lost, faults>>

(* What create_project returns to.                                         *)
Return(o) == IF session[o].op = "TAKE" THEN Goto(o, "linking") ELSE End(o)

LookForProject(o) ==
    LET s == session[o] IN
    /\ s.op \in {"TAKE", "MAKE"} /\ s.at = "loaded"
    /\ IF made[s.video] > 0 THEN Return(o) ELSE Goto(o, "making")
    /\ UNCHANGED <<discoveryRows, messages, lost, faults>>

(* source_url is unique.  (Mutant: it is not.)                             *)
NeverUnique(v) == FALSE
HasProject(v) == made[v] > 0

(* The insert of create_project; resolve_project_sources, which follows,   *)
(* is in Production.                                                       *)
MakeProject(o) ==
    LET v == session[o].video IN
    /\ session[o].op \in {"TAKE", "MAKE"} /\ session[o].at = "making"
    /\ ~HasProject(v)
    /\ made' = [made EXCEPT ![v] = @ + 1]
    /\ Return(o)
    /\ UNCHANGED <<media, poll, due, messages, lost, faults>>

ProjectCollides(o) ==
    /\ session[o].op \in {"TAKE", "MAKE"} /\ session[o].at = "making"
    /\ HasProject(session[o].video)
    /\ EndInException(o)
    /\ UNCHANGED <<discoveryRows, messages, faults>>

(* approve_media links the item in a commit of its own, whatever has been  *)
(* decided since it was loaded.                                            *)
ApproveMedia(o) ==
    LET s == session[o] IN
    /\ At(o, "TAKE", "linking")
    /\ media' = [media EXCEPT ![s.channel][s.video] =
                    [status |-> "PROJECT_CREATED", project |-> TRUE]]
    /\ End(o)
    /\ UNCHANGED <<poll, due, made, messages, lost, faults>>

(* reject_media, of any item.                                              *)
RejectMedia(o) ==
    LET s == session[o] IN
    /\ At(o, "LEAVE", "loaded")
    /\ media' = [media EXCEPT ![s.channel][s.video].status = Updated(@, s.status, "REJECTED")]
    /\ End(o)
    /\ UNCHANGED <<poll, due, made, messages, lost, faults>>

-----------------------------------------------------------------------------
DiscoveryInit ==
    /\ media = [c \in Channels |-> [v \in Videos |-> NoMedia]]
    /\ poll = [c \in Channels |-> "ABSENT"] /\ due = {}
    /\ made = [v \in Videos |-> 0]

Discover(a) ==
    StartPoll(a) \/ PollAnswers(a) \/ InsertFound(a) \/ InsertCollides(a) \/ PollFails(a)

DiscoveryHandler(o) ==
    \/ EnableChannel(o) \/ CallPoll(o) \/ Discover(o)
    \/ LoadFinding(o) \/ CallProject(o) \/ LookForProject(o) \/ MakeProject(o)
    \/ ProjectCollides(o) \/ ApproveMedia(o) \/ RejectMedia(o)

(* However often and by whomever a video is approved or asked for, again   *)
(* after a crash between the project and the link, or from two channels,   *)
(* it has one project, and each item that reads PROJECT_CREATED is linked  *)
(* to it.                                                                  *)
OneProjectPerVideo ==
    \A v \in Videos :
        /\ made[v] <= 1
        /\ \A c \in Channels :
              media[c][v].status = "PROJECT_CREATED" => media[c][v].project /\ made[v] = 1
=============================================================================
