------------------------------ MODULE Ingestion ------------------------------
(***************************************************************************)
(* How content items come in, by a submitted link, an uploaded file or a   *)
(* feed, and the lifecycle that people take them through.                  *)
(*                                                                         *)
(* Source: app/ingestion/service.py, app/ingestion/upload.py,              *)
(* app/ingestion/feeds.py, app/ingestion/storage.py,                       *)
(* app/content/lifecycle.py and their endpoints in app/api.py.             *)
(*                                                                         *)
(* Uploads and feeds are coroutines of the one event loop of the API, with *)
(* database calls that block it: nothing of another coroutine happens      *)
(* between two awaits, and no call is accepted.  Links and transitions are *)
(* worked on in threads beside it.                                         *)
(***************************************************************************)
EXTENDS CeleryWorkers

CONSTANTS
    Keys,       \* idempotency keys of links and uploads
    Links, Files,   \* what is submitted: normalized URLs, files by checksum
    Entries,    \* the entries that the publisher of the feed adds, in order
    Limit       \* max_items_per_run

ASSUME IngestionAssumption ==
    /\ Entries = 1..Cardinality(Entries) /\ 1 \in Entries /\ Limit \in Nat \ {0}
    /\ Keys \cap Entries = {} /\ Links \cap Files = {} /\ Files \cap Entries = {}
    /\ 0 \notin Links \cup Files

VARIABLES
    content,    \* content_items, by the key or the feed entry they came by
    job,        \* ingestion_jobs of links and uploads, by key
    storage,    \* the file that an upload has written, by key
    feed,       \* the row of feed_subscriptions
    published   \* the entries in the publisher's document (external)

ingestionRows == <<content, job, storage, feed, published>>

Things == Links \cup Files \cup Entries
Ways == Keys \cup Entries

ItemStatuses ==
    {"SOURCE_VERIFICATION_REQUIRED", "RIGHTS_REVIEW_REQUIRED", "MODERATION_REQUIRED",
     "READY_FOR_RANKING", "RANKED", "PROCESSING_QUEUED", "PROCESSING", "REVIEW_REQUIRED",
     "REJECTED", "BLOCKED", "ARCHIVED"}

NoItem == [thing |-> 0, status |-> "ABSENT"]
Incoming(thing) == [thing |-> thing, status |-> "SOURCE_VERIFICATION_REQUIRED"]
NoJob == [status |-> "ABSENT", content |-> 0]
NoFeed == [status |-> "ABSENT", etag |-> {}, leased |-> FALSE, due |-> FALSE, run |-> "NONE"]

Feed == [status : {"ABSENT", "ACTIVE", "FAILING", "PAUSED", "BLOCKED"},
         etag : SUBSET Entries, leased : BOOLEAN, due : BOOLEAN,
         run : {"NONE", "RUNNING", "SUCCEEDED", "FAILED"}]

IngestionTypeOK ==
    /\ content \in [Ways -> [thing : Things, status : ItemStatuses] \cup {NoItem}]
    /\ job \in [Keys -> [status : {"ABSENT", "RUNNING", "RETRY_SCHEDULED", "FAILED", "SUCCEEDED"},
                         content : Ways \cup {0}]]
    /\ storage \in [Keys -> {"NONE", "TEMPORARY", "FINAL"}]
    /\ feed \in Feed
    /\ published \subseteq Entries

(* The API takes up a call, or goes on with a coroutine, when its loop is  *)
(* not in the middle of something.                                         *)
LoopFree ==
    \A p \in Operators : /\ ~At(p, "UPLOAD", "finalized") /\ ~At(p, "POLL", "loaded")
                         /\ ~At(p, "REGISTER", "blocked")
Accepts(o) == Free(o) /\ LoopFree

SetJob(k, status, c) == job' = [job EXCEPT ![k] = [status |-> status, content |-> c]]

(* What the handlers and tasks here have in their sessions.                *)
IngestionSessions ==
    [op : {"URL", "UPLOAD"}, at : {"submitted", "fetching", "storing", "receiving", "finalized"},
     message : {NoMessage}, key : Keys, thing : Links \cup Files]
    \cup [op : {"REGISTER"}, at : {"fetching", "blocked"}, message : {NoMessage}]
    \cup [op : {"VALIDATE", "ACTIVATE", "PAUSE", "BLOCK", "POLL"}, at : {"loaded", "fetching"},
          message : {NoMessage}, feed : Feed]
    \cup [op : {"TRANSITION"}, at : {"loaded"}, message : {NoMessage}, way : Ways,
          status : ItemStatuses]

-----------------------------------------------------------------------------
(* submit_url: a key that has a job returns it, and nothing is done.  The  *)
(* job is committed before the network is used.                            *)

SubmitUrl(o) ==
    /\ Accepts(o)
    /\ \E k \in Keys, l \in Links :
          /\ job[k] = NoJob
          /\ SetJob(k, "RUNNING", 0)
          /\ Begin(o, [op |-> "URL", at |-> "submitted", message |-> NoMessage,
                       key |-> k, thing |-> l])
    /\ UNCHANGED <<content, storage, feed, published, messages, lost, faults>>

(* _duplicate_content: an item that came from the same address.            *)
Duplicates(l) == {w \in Ways : content[w].thing = l}

(* The policy refuses, the link is known, or it has to be fetched.         *)
CheckUrl(o) ==
    LET s == session[o] IN
    /\ At(o, "URL", "submitted")
    /\ \/ SetJob(s.key, "FAILED", 0) /\ End(o)
       \/ \E d \in Duplicates(s.thing) : SetJob(s.key, "SUCCEEDED", d) /\ End(o)
       \/ Duplicates(s.thing) = {} /\ Goto(o, "fetching") /\ UNCHANGED job
    /\ UNCHANGED <<content, storage, feed, published, messages, lost, faults>>

(* The fetch fails, or ends at an address that the page may call canonical:*)
(* only then it is compared with the items there are.                      *)
FetchUrl(o) ==
    LET s == session[o] IN
    /\ At(o, "URL", "fetching")
    /\ \/ \E status \in {"FAILED", "RETRY_SCHEDULED"} : SetJob(s.key, status, 0) /\ End(o)
       \/ \E final \in Links :
             \/ \E d \in Duplicates(final) : SetJob(s.key, "SUCCEEDED", d) /\ End(o)
             \/ /\ Begin(o, [s EXCEPT !.at = "storing", !.thing = final])
                /\ UNCHANGED job
    /\ UNCHANGED <<content, storage, feed, published, messages, lost, faults>>

StoreUrl(o) ==
    LET s == session[o] IN
    /\ At(o, "URL", "storing")
    /\ content' = [content EXCEPT ![s.key] = Incoming(s.thing)]
    /\ SetJob(s.key, "SUCCEEDED", s.key)
    /\ End(o)
    /\ UNCHANGED <<storage, feed, published, messages, lost, faults>>

-----------------------------------------------------------------------------
(* submit_upload: the job is committed, the chunks are awaited, and the    *)
(* rest happens at once.                                                   *)

SubmitUpload(o) ==
    /\ Accepts(o)
    /\ \E k \in Keys, f \in Files :
          /\ job[k] = NoJob
          /\ \/ SetJob(k, "FAILED", 0) /\ UNCHANGED <<storage, session>>
             \/ /\ SetJob(k, "RUNNING", 0)
                /\ storage' = [storage EXCEPT ![k] = "TEMPORARY"]
                /\ Begin(o, [op |-> "UPLOAD", at |-> "receiving", message |-> NoMessage,
                             key |-> k, thing |-> f])
    /\ UNCHANGED <<content, feed, published, messages, lost, faults>>

(* The asset with the file's checksum.                                     *)
WithChecksum(f) == {k \in Keys : content[k].thing = f}

(* An error or a duplicate deletes the temporary file.                     *)
ReceiveUpload(o) ==
    LET s == session[o]
        Discard == storage' = [storage EXCEPT ![s.key] = "NONE"] IN
    /\ At(o, "UPLOAD", "receiving") /\ LoopFree
    /\ \/ SetJob(s.key, "FAILED", 0) /\ Discard /\ End(o)
       \/ \E d \in WithChecksum(s.thing) : SetJob(s.key, "SUCCEEDED", d) /\ Discard /\ End(o)
       \/ /\ WithChecksum(s.thing) = {}
          /\ storage' = [storage EXCEPT ![s.key] = "FINAL"]
          /\ Goto(o, "finalized")
          /\ UNCHANGED job
    /\ UNCHANGED <<content, feed, published, messages, lost, faults>>

StoreUpload(o) ==
    LET s == session[o] IN
    /\ At(o, "UPLOAD", "finalized")
    /\ content' = [content EXCEPT ![s.key] = Incoming(s.thing)]
    /\ SetJob(s.key, "SUCCEEDED", s.key)
    /\ End(o)
    /\ UNCHANGED <<storage, feed, published, messages, lost, faults>>

-----------------------------------------------------------------------------
(* The feed.  An etag is the document that it was sent with.               *)

(* register_feed inserts the row, which is not committed before the feed   *)
(* was fetched: who registers the same URL then waits for the row's        *)
(* transaction, and the loop with him.                                     *)
RegisterFeed(o) ==
    /\ Accepts(o)
    /\ feed.status = "ABSENT"
    /\ Begin(o, [op |-> "REGISTER", message |-> NoMessage,
                 at |-> IF \E p \in Operators : At(p, "REGISTER", "fetching")
                        THEN "blocked" ELSE "fetching"])
    /\ UNCHANGED <<ingestionRows, messages, lost, faults>>

FinishRegistration(o) ==
    /\ At(o, "REGISTER", "fetching") /\ LoopFree
    /\ feed' \in {[NoFeed EXCEPT !.status = "ACTIVE", !.etag = published, !.due = TRUE],
                  [NoFeed EXCEPT !.status = "FAILING", !.due = TRUE]}
    /\ End(o)
    /\ UNCHANGED <<content, job, storage, published, messages, lost, faults>>

LoadFeed(o) ==
    /\ Accepts(o)
    /\ feed.status # "ABSENT"
    /\ \E op \in {"VALIDATE", "ACTIVATE", "PAUSE", "BLOCK", "POLL"} :
          /\ op = "POLL" => feed.status = "ACTIVE" /\ feed.due /\ ~feed.leased
          /\ op = "ACTIVATE" => feed.status # "BLOCKED"
          /\ Begin(o, [op |-> op, at |-> "loaded", message |-> NoMessage, feed |-> feed])
    /\ UNCHANGED <<ingestionRows, messages, lost, faults>>

StatusOf(s, status) == Updated(feed.status, s.feed.status, status)

(* validate_feed keeps the etag and drops the entries.                     *)
FinishValidation(o) ==
    LET s == session[o] IN
    /\ At(o, "VALIDATE", "loaded") /\ LoopFree
    /\ \/ feed' = [feed EXCEPT !.status = StatusOf(s, "ACTIVE"), !.etag = published]
       \/ feed' = [feed EXCEPT !.status = StatusOf(s, "FAILING")]
    /\ End(o)
    /\ UNCHANGED <<content, job, storage, published, messages, lost, faults>>

(* change_feed_status, in a thread.                                        *)
CommitFeedStatus(o) ==
    LET s == session[o] IN
    /\ feed' = CASE At(o, "ACTIVATE", "loaded") -> [feed EXCEPT !.status = StatusOf(s, "ACTIVE")]
                 [] At(o, "PAUSE", "loaded") -> [feed EXCEPT !.status = StatusOf(s, "PAUSED")]
                 [] At(o, "BLOCK", "loaded") ->
                        [feed EXCEPT !.status = StatusOf(s, "BLOCKED"),
                                     !.leased = Updated(@, s.feed.leased, FALSE)]
                 [] OTHER -> NoFeed
    /\ feed' # NoFeed
    /\ End(o)
    /\ UNCHANGED <<content, job, storage, published, messages, lost, faults>>

(* run_feed takes the lease and fetches.                                   *)
StartRun(o) ==
    LET s == session[o] IN
    /\ At(o, "POLL", "loaded")
    /\ feed' = [feed EXCEPT !.leased = TRUE, !.run = "RUNNING"]
    /\ Begin(o, [s EXCEPT !.at = "fetching", !.feed.leased = TRUE])
    /\ UNCHANGED <<content, job, storage, published, messages, lost, faults>>

(* What an entry is known by.  (Mutant: by its position in the document.)  *)
PositionOf(e) == Cardinality({d \in published : d > e}) + 1
Identity(e) == e

(* Of the document, newest first, those within the limit that have no row  *)
(* of feed_entries yet.                                                    *)
NewEntries ==
    {e \in published : /\ Cardinality({d \in published : d > e}) < Limit
                       /\ content[Identity(e)] = NoItem}

(* One commit: the entries, the etag and the end of the lease; if the      *)
(* document is still the one of the etag, nothing is imported.             *)
FinishRun(o) ==
    LET s == session[o] IN
    /\ At(o, "POLL", "fetching") /\ LoopFree
    /\ IF s.feed.etag = published THEN UNCHANGED content
       ELSE content' = [w \in Ways |->
                IF \E e \in NewEntries : Identity(e) = w
                THEN Incoming(CHOOSE e \in NewEntries : Identity(e) = w) ELSE content[w]]
    /\ feed' = [feed EXCEPT !.etag = Updated(@, s.feed.etag, published),
                            !.leased = FALSE, !.due = FALSE, !.run = "SUCCEEDED"]
    /\ End(o)
    /\ UNCHANGED <<job, storage, published, messages, lost, faults>>

RunFails(o) ==
    LET s == session[o] IN
    /\ At(o, "POLL", "fetching") /\ LoopFree
    /\ feed' = [feed EXCEPT !.status = StatusOf(s, "FAILING"), !.leased = FALSE, !.run = "FAILED"]
    /\ End(o)
    /\ UNCHANGED <<content, job, storage, published, messages, lost, faults>>

(* The publisher adds an entry (external), the polling interval passes,    *)
(* and a lease of five minutes ends whose run is dead (a fetch ends in     *)
(* less).                                                                  *)
FeedTime ==
    /\ \/ /\ \E e \in Entries : /\ e = Cardinality(published) + 1
                                /\ published' = published \cup {e}
          /\ UNCHANGED feed
       \/ /\ \/ ~feed.due /\ feed' = [feed EXCEPT !.due = TRUE]
             \/ /\ feed.leased /\ \A o \in Operators : ~At(o, "POLL", "fetching")
                /\ feed' = [feed EXCEPT !.leased = FALSE]
          /\ feed.status # "ABSENT"
          /\ UNCHANGED published
    /\ UNCHANGED <<content, job, storage, messages, session, lost, faults>>

-----------------------------------------------------------------------------
(* The lifecycle.  APPROVED and what follows it need evidence of rights    *)
(* and moderation, for which no code of the application inserts a row.     *)

Transitions ==
    [s \in ItemStatuses |->
        CASE s = "SOURCE_VERIFICATION_REQUIRED" -> {"RIGHTS_REVIEW_REQUIRED", "BLOCKED"}
          [] s = "RIGHTS_REVIEW_REQUIRED" -> {"MODERATION_REQUIRED", "BLOCKED"}
          [] s = "MODERATION_REQUIRED" -> {"READY_FOR_RANKING", "BLOCKED"}
          [] s = "READY_FOR_RANKING" -> {"RANKED", "BLOCKED"}
          [] s = "RANKED" -> {"PROCESSING_QUEUED", "ARCHIVED", "BLOCKED"}
          [] s = "PROCESSING_QUEUED" -> {"PROCESSING", "BLOCKED"}
          [] s = "PROCESSING" -> {"REVIEW_REQUIRED", "BLOCKED"}
          [] s = "REVIEW_REQUIRED" -> {"REJECTED", "BLOCKED"}
          [] s \in {"REJECTED", "BLOCKED"} -> {"ARCHIVED"}
          [] s = "ARCHIVED" -> {}]

LoadItem(o) ==
    /\ Accepts(o)
    /\ \E w \in Ways :
          /\ content[w] # NoItem
          /\ Begin(o, [op |-> "TRANSITION", at |-> "loaded", message |-> NoMessage,
                       way |-> w, status |-> content[w].status])
    /\ UNCHANGED <<ingestionRows, messages, lost, faults>>

(* No status comes back, so it stands for version_id.  (Mutant: without    *)
(* the version column.)                                                    *)
Unversioned(s) == TRUE
Unchanged(s) == content[s.way].status = s.status

CommitTransition(o) ==
    LET s == session[o] IN
    /\ At(o, "TRANSITION", "loaded")
    /\ IF Unchanged(s)
       THEN \E target \in Transitions[s.status] :
               content' = [content EXCEPT ![s.way].status = target]
       ELSE UNCHANGED content
    /\ End(o)
    /\ UNCHANGED <<job, storage, feed, published, messages, lost, faults>>

-----------------------------------------------------------------------------
IngestionInit ==
    /\ content = [w \in Ways |-> NoItem] /\ job = [k \in Keys |-> NoJob]
    /\ storage = [k \in Keys |-> "NONE"]
    /\ feed = NoFeed /\ published = {1}

IngestionHandler(o) ==
    \/ SubmitUrl(o) \/ CheckUrl(o) \/ FetchUrl(o) \/ StoreUrl(o)
    \/ SubmitUpload(o) \/ ReceiveUpload(o) \/ StoreUpload(o)
    \/ RegisterFeed(o) \/ FinishRegistration(o) \/ LoadFeed(o) \/ FinishValidation(o)
    \/ CommitFeedStatus(o) \/ StartRun(o) \/ FinishRun(o) \/ RunFails(o)
    \/ LoadItem(o) \/ CommitTransition(o)

(* No entry of the feed and no file comes in twice, although the etag, the *)
(* lease and the feed's status are written by runs, validations and        *)
(* operators at once; the item of a file has its file, and a job that      *)
(* succeeded its item.                                                     *)
IngestedOnce ==
    /\ \A d, e \in Entries : d # e /\ content[d] # NoItem => content[d].thing # content[e].thing
    /\ \A k \in Keys : content[k].thing \in Files =>
          /\ storage[k] = "FINAL"
          /\ \A m \in Keys \ {k} : content[m].thing # content[k].thing
    /\ \A k \in Keys : job[k].status = "SUCCEEDED" => content[job[k].content] # NoItem

(* Whatever two people decide at once about an item, it goes through the   *)
(* lifecycle's transitions only, and remains the same content.             *)
ContentFollowsLifecycle ==
    [][\A w \in Ways : content[w] # NoItem =>
          /\ content'[w].thing = content[w].thing
          /\ \/ content'[w].status = content[w].status
             \/ content'[w].status \in Transitions[content[w].status]]_content
=============================================================================
