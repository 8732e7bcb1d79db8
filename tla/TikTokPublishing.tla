--------------------------- MODULE TikTokPublishing ---------------------------
(***************************************************************************)
(* TikTok publishing: a confirmed request is transferred to TikTok, which  *)
(* decides later what becomes of it; status polls, and for a draft an      *)
(* operator, bring the outcome back.                                       *)
(*                                                                         *)
(* Source: app/publishing/service.py (confirm_publish, cancel_publish, and *)
(* from _tiktok_settings on), app/publishing/tiktok.py, the TikTok tasks   *)
(* of app/worker.py and the TikTok endpoints of app/api.py.                *)
(*                                                                         *)
(* As in Publishing, a handler, a task or a poll decides on the copy of    *)
(* the row it loaded, and its commit writes the columns it assigned over   *)
(* the row as it is then.  Here a lost answer is an outcome of its own,    *)
(* UNKNOWN_REMOTE_OUTCOME, that must not lead to a second transfer.        *)
(***************************************************************************)
EXTENDS Integers, FiniteSets

CONSTANTS
    Requests,       \* TikTok publish requests
    Operators,      \* API and Discord handlers
    Workers,        \* Celery worker processes, one transfer each
    Pollers,        \* status refreshes: the beat task's and the endpoint's
    MaxStatusPolls, \* settings.tiktok_max_status_poll_attempts
    MaxRuns,        \* bound: attempts per request that are explored
    MaxMessages,    \* bound: undelivered execute messages per request
    MaxCrashes,     \* bound: worker crashes
    None            \* no request

ASSUME TikTokAssumption ==
    /\ MaxStatusPolls \in Nat \ {0}
    /\ MaxRuns \in Nat /\ MaxMessages \in Nat /\ MaxCrashes \in Nat
    /\ None \notin Requests

VARIABLES
    row,        \* publish_requests
    attempts,   \* publish_attempts, by request and attempt_number
    remote,     \* TikTok: what became of the transfer an attempt initialized
    cleared,    \* what _assert_preconditions answers for the request now
    messages,   \* undelivered viralforge.execute_tiktok_publish_request
    hand,       \* what each operator's handler is doing, on which request
    task,       \* each worker's transfer, with its copy of the request
    poll,       \* each status refresh, with its copy of the request
    crashes     \* worker crashes so far

vars == <<row, attempts, remote, cleared, messages, hand, task, poll, crashes>>

Modes == {"DRAFT_UPLOAD", "DIRECT_POST"}

(* PublishRequestStatus for a TikTok request.  DRAFT_READY is declared but *)
(* never assigned; TikTok requests are never SCHEDULED.                    *)
Statuses == {"ABSENT", "AWAITING_CONFIRMATION", "QUEUED", "INITIALIZING",
             "TRANSFERRING", "PROCESSING", "OPERATOR_COMPLETION_REQUIRED",
             "UNKNOWN_REMOTE_OUTCOME", "MANUAL_RECONCILIATION_REQUIRED",
             "SUCCEEDED", "FAILED", "CANCELLED"}

(* remote_post_id is the attempt whose publish_id it holds, 0 while null.  *)
(* posted is operator_completion_state = POSTED.                           *)
PublishRequest ==
    [status : Statuses, provider_mode : Modes, confirmed : BOOLEAN,
     cancelled_before_upload : BOOLEAN, attempt_count : 0..MaxRuns,
     remote_post_id : 0..MaxRuns, posted : BOOLEAN]

PublishAttempt == {"NONE", "STARTED", "FAILED", "UNKNOWN_REMOTE_OUTCOME",
                   "DRAFT_TRANSFERRED", "PROCESSING"}

(* A transfer at TikTok: initialized, wholly received, and decided.        *)
Remote == {"NONE", "OPEN", "RECEIVED", "COMPLETE", "FAILED"}

Phases == {"loaded", "start", "init", "transfer", "received"}
Idle == [phase |-> "idle"]
Transfers == [phase : Phases, request : Requests, status : Statuses, count : 0..MaxRuns]

(* What refresh_due_tiktok_publish_requests selects; the endpoint also     *)
(* refreshes a request that waits for manual reconciliation.               *)
ProcessingOnly == {"PROCESSING"}
Due == {"PROCESSING", "UNKNOWN_REMOTE_OUTCOME"}
Refreshable == {"PROCESSING", "UNKNOWN_REMOTE_OUTCOME", "MANUAL_RECONCILIATION_REQUIRED"}

NoPoll == [answer |-> "IDLE"]
Polls == [answer : Remote \cup {"UNASKED"}, request : Requests,
          id : 1..MaxRuns, status : Refreshable, count : 0..MaxRuns]

NoHand == [op |-> "IDLE", request |-> None]
Hands == [op : {"CONFIRM", "SEND", "CANCEL", "POSTED", "REJECTED"}, request : Requests]

TypeOK ==
    /\ row \in [Requests -> PublishRequest]
    /\ attempts \in [Requests -> [1..MaxRuns -> PublishAttempt]]
    /\ remote \in [Requests -> [1..MaxRuns -> Remote]]
    /\ cleared \in [Requests -> BOOLEAN]
    /\ crashes \in 0..MaxCrashes
    /\ messages \in [Requests -> 0..(MaxMessages + crashes)]
    /\ hand \in [Operators -> {NoHand} \cup Hands]
    /\ task \in [Workers -> {Idle} \cup Transfers]
    /\ poll \in [Pollers -> {NoPoll} \cup Polls]
    /\ \A r \in Requests, n \in 1..MaxRuns :
          attempts[r][n] # "NONE" <=> n <= row[r].attempt_count

Init ==
    /\ \E mode \in [Requests -> Modes] :
          row = [r \in Requests |->
                   [status |-> "ABSENT", provider_mode |-> mode[r], confirmed |-> FALSE,
                    cancelled_before_upload |-> FALSE, attempt_count |-> 0,
                    remote_post_id |-> 0, posted |-> FALSE]]
    /\ attempts = [r \in Requests |-> [n \in 1..MaxRuns |-> "NONE"]]
    /\ remote = [r \in Requests |-> [n \in 1..MaxRuns |-> "NONE"]]
    /\ cleared \in [Requests -> BOOLEAN]
    /\ messages = [r \in Requests |-> 0]
    /\ hand = [o \in Operators |-> NoHand]
    /\ task = [w \in Workers |-> Idle]
    /\ poll = [p \in Pollers |-> NoPoll]
    /\ crashes = 0

-----------------------------------------------------------------------------
(* Operators.                                                              *)

(* request_tiktok_publish.  The duplicate, daily, pending-draft and        *)
(* interval limits only refuse requests; a request may stay unmade here.   *)
RequestTikTokPublish(r) ==
    /\ row[r].status = "ABSENT"
    /\ cleared[r]
    /\ row' = [row EXCEPT ![r].status = "AWAITING_CONFIRMATION"]
    /\ UNCHANGED <<attempts, remote, cleared, messages, hand, task, poll, crashes>>

(* A reviewer changes what _assert_preconditions answers.                  *)
ReviewDecision(r) ==
    /\ cleared' = [cleared EXCEPT ![r] = ~@]
    /\ UNCHANGED <<row, attempts, remote, messages, hand, task, poll, crashes>>

Hold(o, what, r) == hand' = [hand EXCEPT ![o] = [op |-> what, request |-> r]]
Release(o) == hand' = [hand EXCEPT ![o] = NoHand]

(* What a handler may go on to do with the request it loaded: confirm it   *)
(* or send the task again, cancel it unless a transfer is under way or it  *)
(* is finalized, record what became of a draft.                            *)
Allowed(what, r) ==
    \/ what = "CONFIRM" /\ row[r].status = "AWAITING_CONFIRMATION"
    \/ what = "SEND" /\ row[r].status = "QUEUED"
    \/ /\ what = "CANCEL"
       /\ row[r].status \notin {"ABSENT", "INITIALIZING", "TRANSFERRING", "PROCESSING",
                                "SUCCEEDED", "FAILED", "CANCELLED"}
    \/ /\ what \in {"POSTED", "REJECTED"}
       /\ row[r].provider_mode = "DRAFT_UPLOAD"
       /\ row[r].status = "OPERATOR_COMPLETION_REQUIRED"

Load(o, r) ==
    /\ hand[o] = NoHand
    /\ \E h \in Hands : h.request = r /\ Allowed(h.op, r) /\ Hold(o, h.op, r)
    /\ UNCHANGED <<row, attempts, remote, cleared, messages, task, poll, crashes>>

CommitConfirm(o) ==
    LET r == hand[o].request
    IN  /\ hand[o].op = "CONFIRM"
        /\ row' = [row EXCEPT ![r].confirmed = TRUE, ![r].status = "QUEUED"]
        /\ Hold(o, "SEND", r)
    /\ UNCHANGED <<attempts, remote, cleared, messages, task, poll, crashes>>

SendTask(o) ==
    LET r == hand[o].request
    IN  /\ hand[o].op = "SEND"
        /\ messages[r] < MaxMessages
        /\ messages' = [messages EXCEPT ![r] = @ + 1]
        /\ Release(o)
    /\ UNCHANGED <<row, attempts, remote, cleared, task, poll, crashes>>

CommitCancel(o) ==
    LET r == hand[o].request
    IN  /\ hand[o].op = "CANCEL"
        /\ row' = [row EXCEPT ![r].status = "CANCELLED",
                              ![r].cancelled_before_upload = TRUE]
        /\ Release(o)
    /\ UNCHANGED <<attempts, remote, cleared, messages, task, poll, crashes>>

(* complete_tiktok_draft: POSTED, or REJECTED and ABANDONED alike.         *)
CompleteDraft(o) ==
    LET r == hand[o].request
        posted == hand[o].op = "POSTED"
    IN  /\ hand[o].op \in {"POSTED", "REJECTED"}
        /\ row' = [row EXCEPT ![r].posted = posted,
                     ![r].status = IF posted THEN "SUCCEEDED" ELSE "CANCELLED"]
        /\ Release(o)
    /\ UNCHANGED <<attempts, remote, cleared, messages, task, poll, crashes>>

(* The handler ends early, or the broker refuses the message.              *)
HandlerFails(o) ==
    /\ hand[o] # NoHand
    /\ Release(o)
    /\ UNCHANGED <<row, attempts, remote, cleared, messages, task, poll, crashes>>

-----------------------------------------------------------------------------
(* Workers: execute_tiktok_publish.                                        *)

EndTask(w) == task' = [task EXCEPT ![w] = Idle]

Deliver(w, r) ==
    /\ task[w] = Idle
    /\ messages[r] > 0
    /\ row[r].attempt_count < MaxRuns
    /\ messages' = [messages EXCEPT ![r] = @ - 1]
    /\ task' = [task EXCEPT ![w] =
          [phase |-> "loaded", request |-> r,
           status |-> row[r].status, count |-> row[r].attempt_count]]
    /\ UNCHANGED <<row, attempts, remote, cleared, hand, poll, crashes>>

(* The statuses a transfer may start from.                                 *)
AlsoUncertain == {"QUEUED", "FAILED", "UNKNOWN_REMOTE_OUTCOME"}
Startable == {"QUEUED", "FAILED"}

(* A request that is finished, waiting or in flight by the task's copy is  *)
(* returned or refused; one whose preconditions do not hold is refused.    *)
TurnAway(w) ==
    /\ task[w].phase = "loaded"
    /\ task[w].status \notin Startable \/ ~cleared[task[w].request]
    /\ EndTask(w)
    /\ UNCHANGED <<row, attempts, remote, cleared, messages, hand, poll, crashes>>

PassPreconditions(w) ==
    /\ task[w].phase = "loaded"
    /\ task[w].status \in Startable /\ cleared[task[w].request]
    /\ task' = [task EXCEPT ![w].phase = "start"]
    /\ UNCHANGED <<row, attempts, remote, cleared, messages, hand, poll, crashes>>

(* Unique constraint uq_publish_attempt_number.                            *)
NoConstraint(r, n) == TRUE
NumberFree(r, n) == attempts[r][n] = "NONE"

StartAttempt(w) ==
    LET r == task[w].request
        n == task[w].count + 1
    IN  /\ task[w].phase = "start"
        /\ NumberFree(r, n)
        /\ attempts' = [attempts EXCEPT ![r][n] = "STARTED"]
        /\ row' = [row EXCEPT ![r].status = "INITIALIZING", ![r].attempt_count = n]
        /\ task' = [task EXCEPT ![w] = [phase |-> "init", request |-> r,
                                        status |-> "INITIALIZING", count |-> n]]
    /\ UNCHANGED <<remote, cleared, messages, hand, poll, crashes>>

AttemptExists(w) ==
    /\ task[w].phase = "start"
    /\ ~NumberFree(task[w].request, task[w].count + 1)
    /\ EndTask(w)
    /\ UNCHANGED <<row, attempts, remote, cleared, messages, hand, poll, crashes>>

(* TikTok answers initialize with a publish_id, which is committed.  When  *)
(* the answer is lost the transfer stays open at TikTok and nothing is     *)
(* ever sent to it.                                                        *)
Initialize(w) ==
    LET r == task[w].request
        n == task[w].count
    IN  /\ task[w].phase = "init"
        /\ remote' = [remote EXCEPT ![r][n] = "OPEN"]
        /\ row' = [row EXCEPT ![r].status = "TRANSFERRING", ![r].remote_post_id = n]
        /\ task' = [task EXCEPT ![w].phase = "transfer", ![w].status = "TRANSFERRING"]
    /\ UNCHANGED <<attempts, cleared, messages, hand, poll, crashes>>

(* The last chunk arrives.                                                 *)
TikTokReceives(w) ==
    LET r == task[w].request
        n == task[w].count
    IN  /\ task[w].phase = "transfer"
        /\ remote[r][n] = "OPEN"
        /\ remote' = [remote EXCEPT ![r][n] = "RECEIVED"]
        /\ task' = [task EXCEPT ![w].phase = "received"]
    /\ UNCHANGED <<row, attempts, cleared, messages, hand, poll, crashes>>

(* What an error can be taken for: before the transfer it is a failure,    *)
(* during the transfer a rejected chunk is a failure and a lost connection *)
(* an unknown outcome, and once TikTok has the last chunk only an unknown  *)
(* outcome is left (no answer, or a server error).                         *)
AlwaysFailed(phase) == {"FAILED"}
ErrorOutcomes(phase) ==
    CASE phase = "init" -> {"FAILED"}
      [] phase = "transfer" -> {"FAILED", "UNKNOWN_REMOTE_OUTCOME"}
      [] phase = "received" -> {"UNKNOWN_REMOTE_OUTCOME"}

TransferFails(w) ==
    LET r == task[w].request
    IN  /\ task[w].phase \in {"init", "transfer", "received"}
        /\ \E outcome \in ErrorOutcomes(task[w].phase) :
              /\ row' = [row EXCEPT ![r].status = outcome]
              /\ attempts' = [attempts EXCEPT ![r][task[w].count] = outcome]
        /\ EndTask(w)
    /\ UNCHANGED <<remote, cleared, messages, hand, poll, crashes>>

(* The status a complete transfer gives the request.                       *)
DraftReady(mode) == IF mode = "DRAFT_UPLOAD" THEN "DRAFT_READY" ELSE "PROCESSING"
Transferred(mode) ==
    IF mode = "DRAFT_UPLOAD" THEN "OPERATOR_COMPLETION_REQUIRED" ELSE "PROCESSING"

TransferSucceeds(w) ==
    LET r == task[w].request
        mode == row[r].provider_mode
    IN  /\ task[w].phase = "received"
        /\ row' = [row EXCEPT ![r].status = Transferred(mode)]
        /\ attempts' = [attempts EXCEPT ![r][task[w].count] =
              IF mode = "DRAFT_UPLOAD" THEN "DRAFT_TRANSFERRED" ELSE "PROCESSING"]
        /\ EndTask(w)
    /\ UNCHANGED <<remote, cleared, messages, hand, poll, crashes>>

(* The worker is lost and its message comes back, or an exception other    *)
(* than PublishingError ends the task.                                     *)
Crash(w) ==
    /\ task[w] # Idle
    /\ crashes < MaxCrashes
    /\ crashes' = crashes + 1
    /\ \/ UNCHANGED messages
       \/ messages' = [messages EXCEPT ![task[w].request] = @ + 1]
    /\ EndTask(w)
    /\ UNCHANGED <<row, attempts, remote, cleared, hand, poll>>

-----------------------------------------------------------------------------
(* Status polls: refresh_tiktok_status.                                    *)

BeginPoll(p, r) ==
    /\ poll[p] = NoPoll
    /\ row[r].remote_post_id # 0
    /\ poll' = [poll EXCEPT ![p] =
          [answer |-> "UNASKED", request |-> r, id |-> row[r].remote_post_id,
           status |-> row[r].status, count |-> row[r].attempt_count]]
    /\ UNCHANGED <<row, attempts, remote, cleared, messages, hand, task, crashes>>

(* The tick takes ten due rows, those that were written longest ago.       *)
TickPoll(p, r) == row[r].status \in Due /\ BeginPoll(p, r)
RefreshRequest(p, r) == row[r].status \in Refreshable /\ BeginPoll(p, r)

AskTikTok(p) ==
    /\ poll[p].answer = "UNASKED"
    /\ poll' = [poll EXCEPT ![p].answer = remote[poll[p].request][poll[p].id]]
    /\ UNCHANGED <<row, attempts, remote, cleared, messages, hand, task, crashes>>

(* No answer, or the handler ends: nothing is written.                     *)
PollFails(p) ==
    /\ poll[p] # NoPoll
    /\ poll' = [poll EXCEPT ![p] = NoPoll]
    /\ UNCHANGED <<row, attempts, remote, cleared, messages, hand, task, crashes>>

(* The status an answer gives a request; an undecided transfer is given up *)
(* when the attempt count, which polls do not change, is at the poll limit.*)
NotFailedIsComplete(answer, count, status) ==
    IF answer = "FAILED" THEN "FAILED" ELSE "SUCCEEDED"
Answered(answer, count, status) ==
    CASE answer = "COMPLETE" -> "SUCCEEDED"
      [] answer = "FAILED" -> "FAILED"
      [] OTHER -> IF count >= MaxStatusPolls
                  THEN "MANUAL_RECONCILIATION_REQUIRED" ELSE status

(* Only a status that differs from the copy's is written.                  *)
CommitPoll(p) ==
    LET r == poll[p].request
        status == Answered(poll[p].answer, poll[p].count, poll[p].status)
    IN  /\ poll[p].answer \in Remote
        /\ row' = IF status = poll[p].status THEN row
                  ELSE [row EXCEPT ![r].status = status]
        /\ poll' = [poll EXCEPT ![p] = NoPoll]
    /\ UNCHANGED <<attempts, remote, cleared, messages, hand, task, crashes>>

(* TikTok drops a transfer that is never finished, and decides on one it   *)
(* has received; for a draft the creator decides in the app.               *)
TikTokDecides(r, n) ==
    /\ \/ remote[r][n] = "OPEN" /\ remote' = [remote EXCEPT ![r][n] = "FAILED"]
       \/ /\ remote[r][n] = "RECEIVED"
          /\ \E outcome \in {"COMPLETE", "FAILED"} :
                remote' = [remote EXCEPT ![r][n] = outcome]
    /\ UNCHANGED <<row, attempts, cleared, messages, hand, task, poll, crashes>>

-----------------------------------------------------------------------------
OperatorStep(o) ==
    \/ \E r \in Requests : Load(o, r)
    \/ CommitConfirm(o) \/ SendTask(o) \/ CommitCancel(o) \/ CompleteDraft(o)
    \/ HandlerFails(o)

TaskStep(w) ==
    \/ TurnAway(w) \/ PassPreconditions(w) \/ StartAttempt(w) \/ AttemptExists(w)
    \/ Initialize(w) \/ TikTokReceives(w) \/ TransferFails(w) \/ TransferSucceeds(w)

WorkerStep(w) ==
    \/ \E r \in Requests : Deliver(w, r)
    \/ TaskStep(w) \/ Crash(w)

PollStep(p) ==
    \/ \E r \in Requests : TickPoll(p, r) \/ RefreshRequest(p, r)
    \/ AskTikTok(p) \/ PollFails(p) \/ CommitPoll(p)

Next ==
    \/ \E r \in Requests : RequestTikTokPublish(r) \/ ReviewDecision(r)
    \/ \E r \in Requests, n \in 1..MaxRuns : TikTokDecides(r, n)
    \/ \E o \in Operators : OperatorStep(o)
    \/ \E w \in Workers : WorkerStep(w)
    \/ \E p \in Pollers : PollStep(p)

Spec == Init /\ [][Next]_vars

(* Beat starts a poll of what is due every minute, and TikTok answers      *)
(* sooner or later.  TikTok need not decide, and nobody else need act.     *)
(* Every request has its turn: that is so while no more than ten are due.  *)
Fairness ==
    \A p \in Pollers :
        /\ \A r \in Requests : SF_vars(TickPoll(p, r))
        /\ SF_vars(AskTikTok(p)) /\ SF_vars(CommitPoll(p))

FairSpec == Spec /\ Fairness

-----------------------------------------------------------------------------
(* What must hold.                                                         *)

(* A transfer that is, or may still become, a video.                       *)
Delivered(r) == {n \in 1..MaxRuns : remote[r][n] \in {"RECEIVED", "COMPLETE"}}

(* What a request says of its videos is true.  It never delivers two,      *)
(* however often its message comes and whatever answers are lost; one that *)
(* reads FAILED, which another message would transfer again, has delivered *)
(* none; and SUCCEEDED is what TikTok said of the transfer the request     *)
(* points at, or what an operator said of a draft that TikTok has.  It is  *)
(* so until a confirmation is committed after the first attempt, or a      *)
(* poll's answer after the attempt it is about (NoLateWrite in             *)
(* TikTokProofs); with one operator and one poll neither can happen.       *)
VideoAsRecorded ==
    \A r \in Requests :
        LET id == row[r].remote_post_id IN
        /\ Cardinality(Delivered(r)) <= IF row[r].status = "FAILED" THEN 0 ELSE 1
        /\ row[r].status = "SUCCEEDED" =>
              /\ id # 0
              /\ \/ remote[r][id] = "COMPLETE"
                 \/ row[r].posted /\ attempts[r][id] = "DRAFT_TRANSFERRED"

(* An uncertain outcome is resolved, never transferred again, as long as   *)
(* there are no such late writes.                                          *)
UncertainIsNotRetried ==
    [][\A r \in Requests :
          row[r].status \in {"UNKNOWN_REMOTE_OUTCOME", "MANUAL_RECONCILIATION_REQUIRED"}
              => row'[r].attempt_count = row[r].attempt_count]_vars

(* What TikTok decided on a transfer that is polled reaches the request.   *)
Undecided(r) ==
    /\ row[r].status \in {"PROCESSING", "UNKNOWN_REMOTE_OUTCOME"}
    /\ remote[r][row[r].remote_post_id] \in {"COMPLETE", "FAILED"}
DecisionArrives == \A r \in Requests : Undecided(r) ~> ~Undecided(r)

-----------------------------------------------------------------------------
(* What the documentation says and the code does not keep.                 *)

(* TIKTOK_RECONCILIATION_GUIDE.md:5, "For Direct Post, ViralForge performs *)
(* bounded official status refreshes": a request leaves PROCESSING.        *)
PollingEnds ==
    \A r \in Requests : row[r].status = "PROCESSING" ~> row[r].status # "PROCESSING"
=============================================================================
