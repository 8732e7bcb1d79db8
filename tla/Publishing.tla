----------------------------- MODULE Publishing -----------------------------
(***************************************************************************)
(* YouTube publishing: publish requests, the operators who confirm and     *)
(* cancel them, and the Celery workers that upload them.                   *)
(*                                                                         *)
(* Source: app/publishing/service.py, app/publishing/models.py and the     *)
(* publishing tasks of app/worker.py.                                      *)
(*                                                                         *)
(* What makes it hard.  A handler or a task loads the request row into its *)
(* own session and goes on using that copy: sessions are built with        *)
(* expire_on_commit=False (app/common/db.py:17), session.get answers from  *)
(* the identity map, publish_requests has no version column and no row is  *)
(* locked.  An UPDATE writes the attributes that the copy changed, over    *)
(* whatever was committed since.  The one thing that stops two workers is  *)
(* the unique constraint on (publish_request_id, attempt_number).          *)
(***************************************************************************)
EXTENDS Integers, FiniteSets

CONSTANTS
    Requests,       \* publish requests, one per idempotency key
    Clips,          \* rendered clips
    ClipOf,         \* the clip a request is made for
    Operators,      \* API and Discord handlers, each with its own session
    Workers,        \* Celery worker processes
    MaxAttempts,    \* settings.publishing_max_attempts
    TickLimit,      \* rows the due tick selects (10 in the code)
    MaxRuns,        \* bound: attempts per request that are explored
    MaxMessages,    \* bound: undelivered execute messages per request
    MaxCrashes,     \* bound: worker crashes
    None            \* no request

ASSUME PublishingAssumption ==
    /\ ClipOf \in [Requests -> Clips]
    /\ MaxAttempts \in Nat \ {0} /\ TickLimit \in Nat \ {0}
    /\ MaxRuns \in Nat /\ MaxMessages \in Nat /\ MaxCrashes \in Nat
    /\ None \notin Requests

VARIABLES
    row,        \* publish_requests
    attempts,   \* publish_attempts, by request and attempt_number
    published,  \* production_clips.publication_status = PUBLISHED
    cleared,    \* what _assert_preconditions answers for the clip now
    messages,   \* undelivered viralforge.execute_publish_request messages
    hand,       \* what each operator's handler is doing, on which request
    task,       \* each worker's task
    crashes,    \* worker crashes so far
    posts       \* YouTube: the attempts whose upload became a video

vars == <<row, attempts, published, cleared, messages, hand, task, crashes, posts>>

(* PublishRequestStatus, as far as a YouTube request goes; ABSENT is a     *)
(* request that has not been created.                                      *)
Statuses == {"ABSENT", "AWAITING_CONFIRMATION", "SCHEDULED", "QUEUED",
             "UPLOADING", "SUCCEEDED", "FAILED", "CANCELLED"}

(* A point of time kept in a row, as the tick's comparisons see it.        *)
Times == {"NONE", "LATER", "DUE"}

(* The columns of a request that decide what happens to it.  A request     *)
(* without scheduled_for is a MANUAL decision; remote_post_id is the       *)
(* attempt that made the post, 0 while it is null.                         *)
PublishRequest ==
    [status : Statuses, scheduled_for : Times, confirmed : BOOLEAN,
     cancelled_before_upload : BOOLEAN, attempt_count : 0..MaxRuns,
     next_attempt_at : Times, remote_post_id : 0..MaxRuns]

(* _failure_category, cut to what the retry rule asks of it: RATE_LIMIT    *)
(* and TRANSIENT_NETWORK are RETRYABLE, every other category is TERMINAL.  *)
Failures == {"RETRYABLE", "TERMINAL"}

(* PublishAttempt.status; a FAILED row is named by its failure_category,   *)
(* NONE is an attempt number without a row.                                *)
PublishAttempt == {"NONE", "STARTED", "SUCCEEDED"} \cup Failures

(* A task: where it is, the requests it has still to execute, the one it   *)
(* is executing, the session's copy of every row it has loaded, and the    *)
(* message it holds until it ends (task_acks_late).                        *)
Phases == {"idle", "loop", "start", "upload", "accepted"}
Copies == [status : Statuses, count : 0..MaxRuns]
Tasks == [phase : Phases, todo : SUBSET Requests, cur : Requests \cup {None},
          copy : [Requests -> Copies], held : Requests \cup {None}]

NoCopy == [status |-> "ABSENT", count |-> 0]
Idle == [phase |-> "idle", todo |-> {}, cur |-> None,
         copy |-> [r \in Requests |-> NoCopy], held |-> None]

NoHand == [op |-> "IDLE", request |-> None]

TypeOK ==
    /\ row \in [Requests -> PublishRequest]
    /\ attempts \in [Requests -> [1..MaxRuns -> PublishAttempt]]
    /\ published \in [Clips -> BOOLEAN]
    /\ cleared \in [Clips -> BOOLEAN]
    /\ crashes \in 0..MaxCrashes
    /\ messages \in [Requests -> 0..(MaxMessages + crashes)]
    /\ hand \in [Operators -> {NoHand} \cup
                  [op : {"CONFIRM", "CANCEL", "SEND"}, request : Requests]]
    /\ task \in [Workers -> Tasks]
    /\ posts \in [Requests -> SUBSET (1..MaxRuns)]

Init ==
    /\ row = [r \in Requests |->
                [status |-> "ABSENT", scheduled_for |-> "NONE", confirmed |-> FALSE,
                 cancelled_before_upload |-> FALSE, attempt_count |-> 0,
                 next_attempt_at |-> "NONE", remote_post_id |-> 0]]
    /\ attempts = [r \in Requests |-> [n \in 1..MaxRuns |-> "NONE"]]
    /\ published = [c \in Clips |-> FALSE]
    /\ cleared \in [Clips -> BOOLEAN]
    /\ messages = [r \in Requests |-> 0]
    /\ hand = [o \in Operators |-> NoHand]
    /\ task = [w \in Workers |-> Idle]
    /\ crashes = 0
    /\ posts = [r \in Requests |-> {}]

-----------------------------------------------------------------------------
(* Operators: api.py publishing endpoints and discord_bot.py               *)
(* PublishConfirmationView.                                                *)

(* request.status as request_publish leaves it: the column's default.      *)
SkipsConfirmation(time) ==
    IF time = "NONE" THEN "AWAITING_CONFIRMATION" ELSE "SCHEDULED"
InitialStatus(time) == "AWAITING_CONFIRMATION"

(* request_publish.  The row appears with its idempotency key; a second    *)
(* call with the key returns the row or IDEMPOTENCY_CONFLICT, and changes  *)
(* nothing.  Only a SCHEDULED decision carries a future time.              *)
RequestPublish(r) ==
    /\ row[r].status = "ABSENT"
    /\ cleared[ClipOf[r]]
    /\ \E time \in {"NONE", "LATER"} :
          row' = [row EXCEPT ![r].status = InitialStatus(time),
                             ![r].scheduled_for = time]
    /\ UNCHANGED <<attempts, published, cleared, messages, hand, task, crashes, posts>>

(* A reviewer changes what _assert_preconditions answers: set_review_gate  *)
(* with another moderation or rights disposition, an edit or regeneration  *)
(* of the package.                                                         *)
ReviewDecision(c) ==
    /\ cleared' = [cleared EXCEPT ![c] = ~@]
    /\ UNCHANGED <<row, attempts, published, messages, hand, task, crashes, posts>>

(* A handler takes up a request, and is done with it.                      *)
Hold(o, what, r) == hand' = [hand EXCEPT ![o] = [op |-> what, request |-> r]]
Release(o) == hand' = [hand EXCEPT ![o] = NoHand]

(* confirm_publish's guards.                                               *)
ConfirmableUnlessStarted(r) == row[r].status \in {"AWAITING_CONFIRMATION", "CANCELLED"}
Confirmable(r) ==
    /\ row[r].status = "AWAITING_CONFIRMATION"
    /\ ~row[r].cancelled_before_upload

(* The status a confirmation gives.                                        *)
MisspeltStatus(r) == IF row[r].scheduled_for = "NONE" THEN "CONFIRMED" ELSE "SCHEDULED"
ConfirmedStatus(r) == IF row[r].scheduled_for = "NONE" THEN "QUEUED" ELSE "SCHEDULED"

(* The confirm endpoint loads the row.  confirm_publish returns a row that *)
(* is not AWAITING_CONFIRMATION as it is, and the endpoint sends the task  *)
(* again for one that is QUEUED; it refuses a cancelled one.               *)
LoadForConfirm(o, r) ==
    /\ hand[o] = NoHand
    /\ \/ Confirmable(r) /\ Hold(o, "CONFIRM", r)
       \/ row[r].status = "QUEUED" /\ Hold(o, "SEND", r)
    /\ UNCHANGED <<row, attempts, published, cleared, messages, task, crashes, posts>>

(* confirm_publish writes the decision over the row as it is now.          *)
CommitConfirm(o) ==
    LET r == hand[o].request
    IN  /\ hand[o].op = "CONFIRM"
        /\ row' = [row EXCEPT ![r].confirmed = TRUE,
                              ![r].status = ConfirmedStatus(r)]
        /\ IF ConfirmedStatus(r) = "QUEUED" THEN Hold(o, "SEND", r) ELSE Release(o)
    /\ UNCHANGED <<attempts, published, cleared, messages, task, crashes, posts>>

(* celery_app.send_task, after the commit.                                 *)
SendTask(o) ==
    LET r == hand[o].request
    IN  /\ hand[o].op = "SEND"
        /\ messages[r] < MaxMessages
        /\ messages' = [messages EXCEPT ![r] = @ + 1]
        /\ Release(o)
    /\ UNCHANGED <<row, attempts, published, cleared, task, crashes, posts>>

(* cancel_publish refuses a started or finalized request on the copy it    *)
(* loaded; cancelling a cancelled request changes nothing.                 *)
LoadForCancel(o, r) ==
    /\ hand[o] = NoHand
    /\ row[r].status \in {"AWAITING_CONFIRMATION", "QUEUED", "SCHEDULED"}
    /\ Hold(o, "CANCEL", r)
    /\ UNCHANGED <<row, attempts, published, cleared, messages, task, crashes, posts>>

CommitCancel(o) ==
    LET r == hand[o].request
    IN  /\ hand[o].op = "CANCEL"
        /\ row' = [row EXCEPT ![r].status = "CANCELLED",
                              ![r].cancelled_before_upload = TRUE]
        /\ Release(o)
    /\ UNCHANGED <<attempts, published, cleared, messages, task, crashes, posts>>

(* The handler ends early: the process dies, or the broker refuses the     *)
(* message after the confirmation was committed.                           *)
HandlerFails(o) ==
    /\ hand[o] # NoHand
    /\ Release(o)
    /\ UNCHANGED <<row, attempts, published, cleared, messages, task, crashes, posts>>

(* scheduled_for or next_attempt_at is reached.                            *)
TimePasses(r) ==
    /\ \/ /\ row[r].scheduled_for = "LATER"
          /\ row' = [row EXCEPT ![r].scheduled_for = "DUE"]
       \/ /\ row[r].next_attempt_at = "LATER"
          /\ row' = [row EXCEPT ![r].next_attempt_at = "DUE"]
    /\ UNCHANGED <<attempts, published, cleared, messages, hand, task, crashes, posts>>

-----------------------------------------------------------------------------
(* Workers.                                                                *)

Startable == {"QUEUED", "SCHEDULED", "FAILED"}

(* Requests the exploration bound still lets a task load.                  *)
Explored == {r \in Requests : row[r].attempt_count < MaxRuns}

(* A task begins with the rows of batch in its session.                    *)
BeginTask(w, batch, message) ==
    task' = [task EXCEPT ![w] =
        [phase |-> "loop", todo |-> batch, cur |-> None, held |-> message,
         copy |-> [r \in Requests |->
                     IF r \in batch
                     THEN [status |-> row[r].status, count |-> row[r].attempt_count]
                     ELSE NoCopy]]]

(* The task is over and its message acknowledged.                          *)
EndTask(w) == task' = [task EXCEPT ![w] = Idle]

(* execute_publish returned for r: on to the next row, or the task ends.   *)
NextRequest(w, r) ==
    IF task[w].todo = {r}
    THEN EndTask(w)
    ELSE task' = [task EXCEPT ![w].phase = "loop", ![w].todo = @ \ {r},
                              ![w].cur = None, ![w].copy[r] = NoCopy]

(* Task execute_publish_request: the message is delivered and the row      *)
(* loaded.                                                                 *)
Deliver(w, r) ==
    /\ task[w] = Idle
    /\ messages[r] > 0
    /\ r \in Explored
    /\ messages' = [messages EXCEPT ![r] = @ - 1]
    /\ BeginTask(w, {r}, r)
    /\ UNCHANGED <<row, attempts, published, cleared, hand, crashes, posts>>

(* Rows execute_due_publish_requests selects: scheduled requests that are  *)
(* due, and failed ones whose next_attempt_at is past.                     *)
Retries == {r \in Explored : /\ row[r].status = "FAILED"
                             /\ row[r].next_attempt_at = "DUE"}
NotYetDue == {r \in Explored : /\ row[r].status = "SCHEDULED"
                               /\ row[r].scheduled_for = "LATER"}
Scheduled == {r \in Explored : /\ row[r].status = "SCHEDULED"
                               /\ row[r].scheduled_for = "DUE"}

(* The first TickLimit of them.  next_attempt_at orders first and is null  *)
(* for a scheduled request, so retries come before scheduled requests.     *)
Batches ==
    {batch \in SUBSET (Retries \cup Scheduled) :
        /\ batch # {}
        /\ Cardinality(batch) <= TickLimit
        /\ batch # Retries \cup Scheduled => Cardinality(batch) = TickLimit
        /\ Retries \subseteq batch \/ batch \subseteq Retries}

(* Task execute_due_publish_requests.                                      *)
StartTick(w) ==
    /\ task[w] = Idle
    /\ \E batch \in Batches : BeginTask(w, batch, None)
    /\ UNCHANGED <<row, attempts, published, cleared, messages, hand, crashes, posts>>

(* The loop reaches r, in the order of the query.                          *)
Reaches(w, r) ==
    /\ task[w].phase = "loop"
    /\ r \in task[w].todo
    /\ \/ task[w].copy[r].status = "FAILED"
       \/ \A q \in task[w].todo : task[w].copy[q].status # "FAILED"

(* execute_publish returns at once for a request that, by its copy, is     *)
(* finished or in flight, and for one whose time has not come.             *)
QueuedIsInFlight(w, r) ==
    \/ task[w].copy[r].status \in {"SUCCEEDED", "CANCELLED", "UPLOADING", "QUEUED"}
    \/ task[w].copy[r].status = "SCHEDULED" /\ row[r].scheduled_for = "LATER"
NothingToDo(w, r) ==
    \/ task[w].copy[r].status \in {"SUCCEEDED", "CANCELLED", "UPLOADING"}
    \/ task[w].copy[r].status = "SCHEDULED" /\ row[r].scheduled_for = "LATER"

Skip(w, r) ==
    /\ Reaches(w, r)
    /\ NothingToDo(w, r)
    /\ NextRequest(w, r)
    /\ UNCHANGED <<row, attempts, published, cleared, messages, hand, crashes, posts>>

(* A PublishingError before the attempt: the request is not confirmed or   *)
(* its preconditions no longer hold.  The single task reports it; the tick *)
(* has no handler for it, and the rest of its batch is dropped.            *)
Refuse(w, r) ==
    /\ Reaches(w, r)
    /\ ~NothingToDo(w, r)
    /\ task[w].copy[r].status \notin Startable \/ ~cleared[ClipOf[r]]
    /\ EndTask(w)
    /\ UNCHANGED <<row, attempts, published, cleared, messages, hand, crashes, posts>>

PassPreconditions(w, r) ==
    /\ Reaches(w, r)
    /\ ~NothingToDo(w, r)
    /\ task[w].copy[r].status \in Startable
    /\ cleared[ClipOf[r]]
    /\ task' = [task EXCEPT ![w].phase = "start", ![w].cur = r]
    /\ UNCHANGED <<row, attempts, published, cleared, messages, hand, crashes, posts>>

(* Unique constraint uq_publish_attempt_number.                            *)
NoConstraint(r, n) == TRUE
NumberFree(r, n) == attempts[r][n] = "NONE"

(* The attempt count in a worker's copy of the request it is executing.    *)
Count(w) == task[w].copy[task[w].cur].count

(* The commit that opens the attempt: status, count and the new row go     *)
(* together.  The row's number is one more than the copy's count, and the  *)
(* commit fails when the table has it already.                             *)
StartAttempt(w) ==
    LET r == task[w].cur
        n == Count(w) + 1
    IN  /\ task[w].phase = "start"
        /\ NumberFree(r, n)
        /\ attempts' = [attempts EXCEPT ![r][n] = "STARTED"]
        /\ row' = [row EXCEPT ![r].status = "UPLOADING", ![r].attempt_count = n]
        /\ task' = [task EXCEPT ![w].phase = "upload",
                       ![w].copy[r] = [status |-> "UPLOADING", count |-> n]]
    /\ UNCHANGED <<published, cleared, messages, hand, crashes, posts>>

(* IntegrityError ends the task, a single one or a tick, with nothing      *)
(* written.                                                                *)
AttemptExists(w) ==
    /\ task[w].phase = "start"
    /\ ~NumberFree(task[w].cur, Count(w) + 1)
    /\ EndTask(w)
    /\ UNCHANGED <<row, attempts, published, cleared, messages, hand, crashes, posts>>

(* YouTube has the whole file and creates the video.                       *)
YouTubeAccepts(w) ==
    /\ task[w].phase = "upload"
    /\ posts' = [posts EXCEPT ![task[w].cur] = @ \cup {Count(w)}]
    /\ task' = [task EXCEPT ![w].phase = "accepted"]
    /\ UNCHANGED <<row, attempts, published, cleared, messages, hand, crashes>>

(* A PublishingError after the attempt was opened: media validation or the *)
(* provider, also when the answer to an accepted upload is lost.           *)
UploadFails(w, category) ==
    LET r == task[w].cur
        n == Count(w)
        retry == category = "RETRYABLE" /\ n < MaxAttempts
    IN  /\ task[w].phase \in {"upload", "accepted"}
        /\ row' = [row EXCEPT ![r].status = "FAILED",
                     ![r].next_attempt_at = IF retry THEN "LATER" ELSE @]
        /\ attempts' = [attempts EXCEPT ![r][n] = category]
        /\ NextRequest(w, r)
    /\ UNCHANGED <<published, cleared, messages, hand, crashes, posts>>

(* The provider returns a result once YouTube has answered with an id.     *)
SessionOpened(w) == task[w].phase \in {"upload", "accepted"}
VideoReturned(w) == task[w].phase = "accepted"

UploadSucceeds(w) ==
    LET r == task[w].cur
        n == Count(w)
    IN  /\ VideoReturned(w)
        /\ row' = [row EXCEPT ![r].status = "SUCCEEDED", ![r].remote_post_id = n]
        /\ attempts' = [attempts EXCEPT ![r][n] = "SUCCEEDED"]
        /\ published' = [published EXCEPT ![ClipOf[r]] = TRUE]
        /\ NextRequest(w, r)
    /\ UNCHANGED <<cleared, messages, hand, crashes, posts>>

(* The worker dies, or an exception that is not a PublishingError escapes. *)
(* With late acknowledgement a single task's message comes back when the   *)
(* whole worker is lost, and is gone when only the task is.                *)
Crash(w) ==
    /\ task[w] # Idle
    /\ crashes < MaxCrashes
    /\ crashes' = crashes + 1
    /\ \/ UNCHANGED messages
       \/ /\ task[w].held # None
          /\ messages' = [messages EXCEPT ![task[w].held] = @ + 1]
    /\ EndTask(w)
    /\ UNCHANGED <<row, attempts, published, cleared, hand, posts>>

-----------------------------------------------------------------------------
OperatorStep(o) ==
    \/ \E r \in Requests : LoadForConfirm(o, r) \/ LoadForCancel(o, r)
    \/ CommitConfirm(o) \/ SendTask(o) \/ CommitCancel(o) \/ HandlerFails(o)

(* What a worker does once it has begun a task. *)
TaskStep(w) ==
    \/ \E r \in Requests : Skip(w, r) \/ Refuse(w, r) \/ PassPreconditions(w, r)
    \/ StartAttempt(w) \/ AttemptExists(w)
    \/ YouTubeAccepts(w) \/ UploadSucceeds(w)
    \/ \E category \in Failures : UploadFails(w, category)

WorkerStep(w) ==
    \/ \E r \in Requests : Deliver(w, r)
    \/ StartTick(w) \/ TaskStep(w) \/ Crash(w)

Next ==
    \/ \E r \in Requests : RequestPublish(r) \/ TimePasses(r)
    \/ \E c \in Clips : ReviewDecision(c)
    \/ \E o \in Operators : OperatorStep(o)
    \/ \E w \in Workers : WorkerStep(w)

Spec == Init /\ [][Next]_vars

(* Every HTTP call a task makes has a timeout, so a task that has begun    *)
(* goes on; the broker delivers what it holds; beat enqueues the tick every*)
(* minute, and time passes.  Nothing obliges a person to act.              *)
Fairness ==
    /\ \A w \in Workers : WF_vars(TaskStep(w)) /\ SF_vars(StartTick(w))
    /\ \A w \in Workers, r \in Requests : SF_vars(Deliver(w, r))
    /\ \A o \in Operators : WF_vars(CommitConfirm(o) \/ SendTask(o) \/ CommitCancel(o))
    /\ \A r \in Requests : WF_vars(TimePasses(r))

FairSpec == Spec /\ Fairness

-----------------------------------------------------------------------------
(* What must hold.                                                         *)

Uploading(w) == task[w].phase \in {"upload", "accepted"}

(* The attempt rows of a request are numbered 1 to attempt_count without a *)
(* gap, although attempt_count is written from copies that may be stale.   *)
AttemptLedger ==
    \A r \in Requests, n \in 1..MaxRuns :
        attempts[r][n] # "NONE" <=> n <= row[r].attempt_count

(* No task acts on an unconfirmed request: whatever a worker's copy says,  *)
(* an attempt is preceded by a person's confirmation.                      *)
ConfirmedBeforeAttempt ==
    \A r \in Requests : row[r].attempt_count > 0 => row[r].confirmed

(* Two workers never upload under one attempt number, so every outcome is  *)
(* written to the row of the worker that had it.                           *)
OneWorkerPerAttempt ==
    \A v, w \in Workers :
        Uploading(v) /\ Uploading(w) /\ v # w /\ task[v].cur = task[w].cur
            => Count(v) # Count(w)

(* A video exists only for a recorded attempt, and a request that reads    *)
(* SUCCEEDED points at a video that exists, by an attempt recorded as      *)
(* SUCCEEDED, on a clip marked as published.                               *)
SuccessIsReal ==
    \A r \in Requests :
        /\ \A n \in posts[r] : attempts[r][n] # "NONE"
        /\ row[r].status = "SUCCEEDED" =>
             /\ row[r].remote_post_id \in posts[r]
             /\ attempts[r][row[r].remote_post_id] = "SUCCEEDED"
             /\ published[ClipOf[r]]

(* The attempt history is append-only: a finished row keeps its outcome.   *)
AttemptRowsAreFinal ==
    [][\A r \in Requests, n \in 1..MaxRuns :
          attempts[r][n] \in {"SUCCEEDED"} \cup Failures
              => attempts'[r][n] = attempts[r][n]]_vars

(* A cancelled request that no session still holds in an earlier state.    *)
Settled(r) ==
    /\ row[r].status = "CANCELLED"
    /\ \A o \in Operators : hand[o] # [op |-> "CONFIRM", request |-> r]
    /\ \A w \in Workers : task[w].copy[r].status \notin Startable \cup {"UPLOADING"}

(* Once no session is left that loaded the request before it was           *)
(* cancelled, a cancellation is for good.                                  *)
CancellationHolds == [][\A r \in Requests : Settled(r) => Settled(r)']_vars

(* No two workers upload one request at a time, and none uploads it after  *)
(* an attempt that is recorded as SUCCEEDED.  A confirmation that is       *)
(* committed after the first attempt spoils it: it puts UPLOADING back to  *)
(* QUEUED.  One operator, as in the run, has none.                         *)
ExclusiveUpload ==
    \A w \in Workers : Uploading(w) =>
        /\ \A v \in Workers : Uploading(v) /\ task[v].cur = task[w].cur => v = w
        /\ \A n \in 1..MaxRuns : attempts[task[w].cur][n] # "SUCCEEDED"

AllCleared == \A c \in Clips : cleared[c]

(* Work the due tick has to pick up: a scheduled request, and a failed one *)
(* with next_attempt_at set.                                               *)
Planned(r) ==
    /\ r \in Explored
    /\ \/ row[r].status = "SCHEDULED"
       \/ row[r].status = "FAILED" /\ row[r].next_attempt_at # "NONE"

(* When reviewers end by leaving the clips cleared, planned work does not  *)
(* stay planned, however often a tick has refused it before.               *)
PlannedWorkStarts ==
    <>[]AllCleared => \A r \in Requests : Planned(r) ~> ~Planned(r)

Sent(r) == r \in Explored /\ row[r].status = "QUEUED" /\ messages[r] > 0

(* A queued request whose message was sent does not stay queued while the  *)
(* clips stay cleared.  A refusal in between drops the only message: the   *)
(* request then waits for another confirmation.                            *)
SentWorkStarts ==
    \A r \in Requests : (Sent(r) /\ []AllCleared) ~> row[r].status # "QUEUED"

-----------------------------------------------------------------------------
(* What is left of publishing when rows, sessions, messages and workers    *)
(* are forgotten.                                                          *)
Ledger == INSTANCE PublishLedger WITH confirmed <- {r \in Requests : row[r].confirmed}

(* Publishing implements that ledger: whatever stale copies, redelivered   *)
(* messages and crashes do, attempts are opened one number after the other *)
(* for confirmed requests only, a video appears only under an open attempt,*)
(* and an attempt is closed once, as SUCCEEDED only if its video exists.   *)
ImplementsLedger == Ledger!Spec

-----------------------------------------------------------------------------
(* What the documentation says and the code does not keep.                 *)

(* PUBLISHING_FOUNDATION_IMPLEMENTATION_REPORT.md:19, cancellation "cannot *)
(* result in a later upload".                                              *)
CancelledNeverUploads ==
    [][\A r \in Requests :
          row[r].cancelled_before_upload
              => row'[r].attempt_count = row[r].attempt_count]_vars

(* UNATTENDED_VPS_OPERATIONS_GUIDE.md:7, "Ambiguous external outcomes are  *)
(* reconciled rather than retried blindly": a request makes one video.     *)
AtMostOnePost == \A r \in Requests : Cardinality(posts[r]) <= 1

(* UNATTENDED_VPS_OPERATIONS_GUIDE.md:7, "safe to restart because [...]    *)
(* provider requests are persisted": an upload in flight comes to an end.  *)
UploadsEnd ==
    \A r \in Requests : row[r].status = "UPLOADING" ~> row[r].status # "UPLOADING"
=============================================================================
