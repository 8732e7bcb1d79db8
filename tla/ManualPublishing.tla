-------------------------- MODULE ManualPublishing --------------------------
(***************************************************************************)
(* Posts that people make by hand: the record of a post, with the package  *)
(* version it used, and the checkpoints at which they are asked for its    *)
(* metrics.                                                                *)
(*                                                                         *)
(* Source: app/manual_publishing/service.py and models.py, their endpoints *)
(* in app/api.py and record_manual_post in app/discord_bot.py.             *)
(*                                                                         *)
(* The package is that of ContentPackages.  The metrics themselves are     *)
(* rows that are only added, and left out; the media asset and the URL's   *)
(* platform are taken to be right (else nothing changes).                  *)
(***************************************************************************)
EXTENDS ContentPackages

CONSTANTS
    Posts,  \* public URLs of posts
    Marks   \* CHECKPOINTS, by their order in time

ASSUME PostsAssumption == IsFiniteSet(Marks) /\ Marks = 1..Cardinality(Marks)

VARIABLES
    post,       \* manual_publications by URL: the package and its version
    checkpoint  \* manual_analytics_checkpoints by URL and mark

postRows == <<post, checkpoint>>

NoPost == [generation |-> 0, version |-> 0]
CheckpointStatuses == {"ABSENT", "DUE", "COMPLETED", "SKIPPED"}

PostsTypeOK ==
    /\ post \in [Posts -> [generation : 0..MaxPackages, version : Nat]]
    /\ checkpoint \in [Posts -> [Marks -> CheckpointStatuses]]

(* What the handlers and tasks here have in their sessions.                *)
PostSessions ==
    [op : {"POST"}, at : {"loaded"}, message : {NoMessage}, url : Posts, latest : Generations,
     copy : Package]
    \cup [op : {"METRICS"}, at : {"loaded"}, message : {NoMessage}, url : Posts,
          marks : SUBSET Marks]
    \cup [op : {"CHECKPOINT"}, at : {"loaded"}, message : {NoMessage}, url : Posts,
          mark : Marks, status : CheckpointStatuses]

Posted(u) == post[u] # NoPost

(* The package has to be approved when it is loaded.                       *)
LoadForPost(o) ==
    /\ Free(o)
    /\ \E u \in Posts, g \in Generations :
          /\ package[g].status = "APPROVED" /\ ~Posted(u)
          /\ Begin(o, [op |-> "POST", at |-> "loaded", message |-> NoMessage,
                       url |-> u, latest |-> g, copy |-> package[g]])
    /\ UNCHANGED <<postRows, messages, lost, faults>>

(* The version that is recorded.  (Mutant: the one that the package has by *)
(* then.)                                                                  *)
CurrentVersion(s) == package[s.latest].review_version
VersionOf(s) == s.copy.review_version

(* One commit: the post and its checkpoints, or the URL is taken, which    *)
(* the look-up finds, or, of a post recorded since, the unique constraint: *)
(* that one is an exception that nobody catches, but all is rolled back.   *)
RecordPost(o) ==
    LET s == session[o] IN
    /\ At(o, "POST", "loaded")
    /\ IF Posted(s.url) THEN UNCHANGED postRows
       ELSE /\ post' = [post EXCEPT ![s.url] =
                           [generation |-> s.latest, version |-> VersionOf(s)]]
            /\ checkpoint' = [checkpoint EXCEPT ![s.url] = [m \in Marks |-> "DUE"]]
    /\ End(o)
    /\ UNCHANGED <<messages, lost, faults>>

(* add_manual_metrics completes the checkpoints that were due at a time,   *)
(* that is up to a mark.                                                   *)
LoadMetrics(o) ==
    /\ Free(o)
    /\ \E u \in Posts, n \in Marks :
          /\ Posted(u)
          /\ Begin(o, [op |-> "METRICS", at |-> "loaded", message |-> NoMessage, url |-> u,
                       marks |-> {m \in 1..n : checkpoint[u][m] = "DUE"}])
    /\ UNCHANGED <<postRows, messages, lost, faults>>

CommitMetrics(o) ==
    LET s == session[o] IN
    /\ At(o, "METRICS", "loaded")
    /\ checkpoint' = [checkpoint EXCEPT ![s.url] = [m \in Marks |->
                         IF m \in s.marks THEN "COMPLETED" ELSE @[m]]]
    /\ End(o)
    /\ UNCHANGED <<post, messages, lost, faults>>

(* update_checkpoint; SNOOZE makes any checkpoint due again.               *)
LoadCheckpoint(o) ==
    /\ Free(o)
    /\ \E u \in Posts, m \in Marks :
          /\ Posted(u)
          /\ Begin(o, [op |-> "CHECKPOINT", at |-> "loaded", message |-> NoMessage, url |-> u,
                       mark |-> m, status |-> checkpoint[u][m]])
    /\ UNCHANGED <<postRows, messages, lost, faults>>

UpdateCheckpoint(o) ==
    LET s == session[o] IN
    /\ At(o, "CHECKPOINT", "loaded")
    /\ \E status \in {"COMPLETED", "SKIPPED", "DUE"} :
          checkpoint' = [checkpoint EXCEPT ![s.url][s.mark] = Updated(@, s.status, status)]
    /\ End(o)
    /\ UNCHANGED <<post, messages, lost, faults>>

PostsInit ==
    /\ post = [u \in Posts |-> NoPost]
    /\ checkpoint = [u \in Posts |-> [m \in Marks |-> "ABSENT"]]

PostsHandler(o) ==
    \/ LoadForPost(o) \/ RecordPost(o) \/ LoadMetrics(o) \/ CommitMetrics(o)
    \/ LoadCheckpoint(o) \/ UpdateCheckpoint(o)

(* A recorded post names the version of a package that a reviewer has      *)
(* approved, although the package may be edited, replaced or made STALE    *)
(* while the post is recorded, and it has all its checkpoints.             *)
PostsTraceable ==
    \A u \in Posts : Posted(u) =>
        /\ \E v \in packageVersions[post[u].generation] :
              v.version = post[u].version /\ v.status = "APPROVED"
        /\ \A m \in Marks : checkpoint[u][m] # "ABSENT"
=============================================================================
