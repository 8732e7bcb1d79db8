-------------------------- MODULE PublishingProofs --------------------------
(***************************************************************************)
(* Proofs about Publishing, for any number of requests, operators and      *)
(* workers and any bounds.                                                 *)
(*                                                                         *)
(* The argument.  No row is locked, so every claim about the row has to    *)
(* survive a worker that writes from an old copy.  What carries it is that *)
(* a copy is never ahead of the row (CopiesLag): with the attempt table    *)
(* gapless, the row numbered one more than a stale count is always there,  *)
(* and the unique constraint turns the stale worker away.  A worker that   *)
(* got its row therefore owns it (RowsAreOwned) until it writes the        *)
(* outcome.                                                                *)
(***************************************************************************)
EXTENDS Publishing, TLAPS

(* What a task knows: an idle worker knows nothing, the request it executes*)
(* is one of its batch, and the copies are those of the batch.             *)
TaskFine(w) ==
    /\ task[w].phase = "idle" => task[w] = Idle
    /\ task[w].phase \in {"start", "upload", "accepted"} =>
         task[w].cur \in task[w].todo
    /\ task[w].phase = "start" => task[w].copy[task[w].cur].status \in Startable
    /\ Uploading(w) => /\ Count(w) # 0
                       /\ task[w].copy[task[w].cur].status = "UPLOADING"
    /\ \A r \in task[w].todo :
         \/ Uploading(w) /\ r = task[w].cur
         \/ task[w].copy[r].count < MaxRuns

TaskOK == \A w \in Workers : TaskFine(w)

(* A copy is never ahead of the row.                                       *)
CopiesLag ==
    \A w \in Workers, r \in Requests : task[w].copy[r].count <= row[r].attempt_count

(* Statuses that a request cannot have before it is confirmed.             *)
Later == {"SCHEDULED", "QUEUED", "UPLOADING", "SUCCEEDED", "FAILED"}

ConfirmedInv ==
    /\ ConfirmedBeforeAttempt
    /\ \A r \in Requests : row[r].status \in Later => row[r].confirmed
    /\ \A w \in Workers, r \in Requests :
         task[w].copy[r].status \in Later => row[r].confirmed

(* An uploading worker owns the row of its attempt.                        *)
RowsAreOwned ==
    /\ OneWorkerPerAttempt
    /\ \A w \in Workers : Uploading(w) => attempts[task[w].cur][Count(w)] = "STARTED"
    /\ \A w \in Workers : task[w].phase = "accepted" => Count(w) \in posts[task[w].cur]

(* remote_post_id, once set, is a recorded success.                        *)
RemoteFine(r) ==
    /\ row[r].status = "SUCCEEDED" => row[r].remote_post_id # 0
    /\ row[r].remote_post_id # 0 =>
         /\ row[r].remote_post_id \in posts[r]
         /\ attempts[r][row[r].remote_post_id] = "SUCCEEDED"
         /\ published[ClipOf[r]]
    /\ \A n \in posts[r] : attempts[r][n] # "NONE"

RemoteIsReal == \A r \in Requests : RemoteFine(r)

(* The inductive invariant. *)
TypeInv == TypeOK /\ TaskOK
LedgerInv == AttemptLedger /\ CopiesLag
IInv == TypeInv /\ LedgerInv /\ ConfirmedInv /\ RowsAreOwned /\ RemoteIsReal

-----------------------------------------------------------------------------
(* Types, and what a worker's helpers do to its task.                      *)

LEMMA IdleIsTask == Idle \in Tasks
  BY PublishingAssumption DEF Idle, NoCopy, Tasks, Phases, Copies, Statuses

(* What the helpers of the tasks do to the worker, and that they leave the *)
(* other workers alone.                                                    *)
OthersKeep(w) == \A v \in Workers \ {w} : task'[v] = task[v]

LEMMA EndTaskEffect ==
  ASSUME task \in [Workers -> Tasks], NEW w \in Workers, EndTask(w)
  PROVE  task' \in [Workers -> Tasks] /\ OthersKeep(w) /\ task'[w] = Idle
  BY IdleIsTask DEF EndTask, OthersKeep

LEMMA BeginTaskEffect ==
  ASSUME TypeOK, NEW w \in Workers, NEW batch \in SUBSET Requests,
         NEW message \in Requests \cup {None}, BeginTask(w, batch, message)
  PROVE  /\ task' \in [Workers -> Tasks]
         /\ OthersKeep(w)
         /\ task'[w].phase = "loop"
         /\ task'[w].todo = batch
         /\ \A r \in Requests : task'[w].copy[r] =
              IF r \in batch THEN [status |-> row[r].status, count |-> row[r].attempt_count]
              ELSE NoCopy
<1> DEFINE c == [r \in Requests |->
                   IF r \in batch
                   THEN [status |-> row[r].status, count |-> row[r].attempt_count]
                   ELSE NoCopy]
           t == [phase |-> "loop", todo |-> batch, cur |-> None, held |-> message, copy |-> c]
<1>1. c \in [Requests -> Copies]
  BY PublishingAssumption DEF TypeOK, PublishRequest, Copies, NoCopy, Statuses
<1>2. t \in Tasks
  BY <1>1 DEF Tasks, Phases
<1>3. task' = [task EXCEPT ![w] = t]
  BY DEF BeginTask
<1>4. task \in [Workers -> Tasks]
  BY DEF TypeOK
<1> QED BY <1>2, <1>3, <1>4 DEF OthersKeep

LEMMA NextRequestEffect ==
  ASSUME task \in [Workers -> Tasks], NEW w \in Workers, NEW r \in Requests, NextRequest(w, r)
  PROVE  /\ task' \in [Workers -> Tasks]
         /\ OthersKeep(w)
         /\ \/ task'[w] = Idle
            \/ /\ task'[w].phase = "loop"
               /\ task'[w].todo = task[w].todo \ {r}
               /\ \A q \in Requests :
                    task'[w].copy[q] = IF q = r THEN NoCopy ELSE task[w].copy[q]
<1>1. CASE task[w].todo = {r}
  BY <1>1, EndTaskEffect DEF NextRequest
<1>2. CASE task[w].todo # {r}
  <2> DEFINE t == [phase |-> "loop", todo |-> task[w].todo \ {r}, cur |-> None,
                   held |-> task[w].held, copy |-> [task[w].copy EXCEPT ![r] = NoCopy]]
  <2>1. task' = [task EXCEPT ![w] = t]
    BY <1>2 DEF NextRequest, Tasks
  <2>2. NoCopy \in Copies
    BY PublishingAssumption DEF NoCopy, Copies, Statuses
  <2>3. t \in Tasks
    BY <2>2 DEF Tasks, Phases
  <2> QED BY <2>1, <2>2, <2>3 DEF OthersKeep, Tasks
<1> QED BY <1>1, <1>2

LEMMA InitTypeInv == Init => TypeInv
  BY PublishingAssumption, IdleIsTask
  DEF Init, TypeInv, TypeOK, TaskOK, TaskFine, Idle, NoHand, NoCopy, PublishRequest, Statuses, Times,
      PublishAttempt, Uploading

LEMMA NextTypeOK == TypeInv /\ [Next]_vars => TypeOK'
<1> SUFFICES ASSUME TypeInv, [Next]_vars PROVE TypeOK'
  OBVIOUS
<1>0. row \in [Requests -> PublishRequest]
  BY DEF TypeInv, TypeOK
<1>1. ASSUME NEW r \in Requests, RequestPublish(r) PROVE TypeOK'
  <2>1. row' \in [Requests -> PublishRequest]
    <3>1. PICK time \in {"NONE", "LATER"} :
            row' = [row EXCEPT ![r].status = "AWAITING_CONFIRMATION", ![r].scheduled_for = time]
      BY <1>1 DEF RequestPublish, InitialStatus
    <3> QED BY <1>0, <3>1 DEF PublishRequest, Statuses, Times
  <2> QED BY <1>1, <2>1 DEF RequestPublish, TypeInv, TypeOK
<1>2. ASSUME NEW r \in Requests, TimePasses(r) PROVE TypeOK'
  <2>1. row' \in [Requests -> PublishRequest]
    <3>1. CASE row' = [row EXCEPT ![r].scheduled_for = "DUE"]
      BY <1>0, <3>1 DEF PublishRequest, Times
    <3>2. CASE row' = [row EXCEPT ![r].next_attempt_at = "DUE"]
      BY <1>0, <3>2 DEF PublishRequest, Times
    <3> QED BY <1>2, <3>1, <3>2 DEF TimePasses
  <2> QED BY <1>2, <2>1 DEF TimePasses, TypeInv, TypeOK
<1>3. ASSUME NEW c \in Clips, ReviewDecision(c) PROVE TypeOK'
  BY <1>3 DEF ReviewDecision, TypeInv, TypeOK
<1>4. ASSUME NEW o \in Operators, OperatorStep(o) PROVE TypeOK'
  <2> DEFINE Hands == {NoHand} \cup [op : {"CONFIRM", "CANCEL", "SEND"}, request : Requests]
  <2>0. hand \in [Operators -> Hands]
    BY DEF TypeInv, TypeOK
  <2>a. hand[o].op \in {"CONFIRM", "CANCEL", "SEND"} => hand[o].request \in Requests
    BY <2>0 DEF NoHand
  <2>b. ASSUME Release(o) PROVE hand' \in [Operators -> Hands]
    BY <2>0, <2>b DEF Release
  <2>c. ASSUME NEW what \in {"CONFIRM", "CANCEL", "SEND"}, NEW r \in Requests, Hold(o, what, r)
        PROVE hand' \in [Operators -> Hands]
    BY <2>0, <2>c DEF Hold
  <2>1. ASSUME NEW r \in Requests, LoadForConfirm(o, r) PROVE TypeOK'
    BY <2>1, <2>c DEF LoadForConfirm, TypeInv, TypeOK
  <2>2. ASSUME NEW r \in Requests, LoadForCancel(o, r) PROVE TypeOK'
    BY <2>2, <2>c DEF LoadForCancel, TypeInv, TypeOK
  <2>3. CASE CommitConfirm(o)
    <3>1. row' \in [Requests -> PublishRequest]
      BY <1>0, <2>3, <2>a DEF CommitConfirm, ConfirmedStatus, PublishRequest, Statuses
    <3>2. hand' \in [Operators -> Hands]
      BY <2>3, <2>a, <2>b, <2>c DEF CommitConfirm
    <3> QED BY <2>3, <3>1, <3>2 DEF CommitConfirm, TypeInv, TypeOK
  <2>4. CASE SendTask(o)
    <3>1. messages' \in [Requests -> 0..(MaxMessages + crashes)]
      BY PublishingAssumption, <2>4, <2>a DEF SendTask, TypeInv, TypeOK
    <3> QED BY <2>4, <2>b, <3>1 DEF SendTask, TypeInv, TypeOK
  <2>5. CASE CommitCancel(o)
    <3>1. row' \in [Requests -> PublishRequest]
      BY <1>0, <2>5, <2>a DEF CommitCancel, PublishRequest, Statuses
    <3> QED BY <2>5, <2>b, <3>1 DEF CommitCancel, TypeInv, TypeOK
  <2>6. CASE HandlerFails(o)
    BY <2>6, <2>b DEF HandlerFails, TypeInv, TypeOK
  <2> QED BY <1>4, <2>1, <2>2, <2>3, <2>4, <2>5, <2>6 DEF OperatorStep
<1>5. ASSUME NEW w \in Workers, WorkerStep(w) PROVE TypeOK'
  <2>0. task \in [Workers -> Tasks] /\ task[w] \in Tasks
    BY DEF TypeInv, TypeOK
  <2>a. task[w].phase \in {"start", "upload", "accepted"} =>
          /\ task[w].cur \in Requests
          /\ Count(w) \in 0..MaxRuns
          /\ task[w].phase = "start" => Count(w) < MaxRuns
          /\ task[w].phase # "start" => Count(w) \in 1..MaxRuns
    BY PublishingAssumption, <2>0 DEF TypeInv, TaskOK, TaskFine, Tasks, Copies, Count, Uploading
  <2>1. ASSUME NEW r \in Requests, Deliver(w, r) PROVE TypeOK'
    <3>1. task' \in [Workers -> Tasks]
      BY <2>1, BeginTaskEffect DEF Deliver, TypeInv
    <3>2. messages' \in [Requests -> 0..(MaxMessages + crashes)]
      BY PublishingAssumption, <2>1 DEF Deliver, TypeInv, TypeOK
    <3> QED BY <2>1, <3>1, <3>2 DEF Deliver, TypeInv, TypeOK
  <2>2. CASE StartTick(w)
    <3>1. PICK batch \in Batches : BeginTask(w, batch, None)
      BY <2>2 DEF StartTick
    <3>2. batch \in SUBSET Requests
      BY DEF Batches, Retries, Scheduled, Explored
    <3>3. task' \in [Workers -> Tasks]
      BY <3>1, <3>2, BeginTaskEffect DEF TypeInv
    <3> QED BY <2>2, <3>3 DEF StartTick, TypeInv, TypeOK
  <2>3. ASSUME NEW r \in Requests, Skip(w, r) PROVE TypeOK'
    <3>1. task' \in [Workers -> Tasks]
      BY <2>0, <2>3, NextRequestEffect DEF Skip
    <3> QED BY <2>3, <3>1 DEF Skip, TypeInv, TypeOK
  <2>4. ASSUME NEW r \in Requests, Refuse(w, r) PROVE TypeOK'
    <3>1. task' \in [Workers -> Tasks]
      BY <2>0, <2>4, EndTaskEffect DEF Refuse
    <3> QED BY <2>4, <3>1 DEF Refuse, TypeInv, TypeOK
  <2>5. ASSUME NEW r \in Requests, PassPreconditions(w, r) PROVE TypeOK'
    <3>1. task' \in [Workers -> Tasks]
      BY <2>0, <2>5 DEF PassPreconditions, Tasks, Phases
    <3> QED BY <2>5, <3>1 DEF PassPreconditions, TypeInv, TypeOK
  <2>6. CASE StartAttempt(w)
    <3> DEFINE r == task[w].cur
               n == Count(w) + 1
    <3>0. r \in Requests /\ n \in 1..MaxRuns
      BY PublishingAssumption, <2>6, <2>a DEF StartAttempt
    <3> HIDE DEF r, n
    <3>1. row' \in [Requests -> PublishRequest]
      <4>1. row' = [row EXCEPT ![r].status = "UPLOADING", ![r].attempt_count = n]
        BY <2>6 DEF StartAttempt, r, n
      <4>2. n \in 0..MaxRuns
        BY <3>0
      <4> QED BY <1>0, <3>0, <4>1, <4>2 DEF PublishRequest, Statuses
    <3>2. attempts' \in [Requests -> [1..MaxRuns -> PublishAttempt]]
      <4>1. attempts' = [attempts EXCEPT ![r][n] = "STARTED"]
        BY <2>6 DEF StartAttempt, r, n
      <4> QED BY <3>0, <4>1 DEF PublishAttempt, TypeInv, TypeOK
    <3>3. task' \in [Workers -> Tasks]
      <4>1. task' = [task EXCEPT ![w].phase = "upload",
                       ![w].copy[r] = [status |-> "UPLOADING", count |-> n]]
        BY <2>6 DEF StartAttempt, r, n
      <4>2. [status |-> "UPLOADING", count |-> n] \in Copies
        BY <3>0 DEF Copies, Statuses
      <4> QED BY <2>0, <3>0, <4>1, <4>2 DEF Tasks, Phases
    <3> QED BY <2>6, <3>1, <3>2, <3>3 DEF StartAttempt, TypeInv, TypeOK
  <2>7. CASE AttemptExists(w)
    <3>1. task' \in [Workers -> Tasks]
      BY <2>0, <2>7, EndTaskEffect DEF AttemptExists
    <3> QED BY <2>7, <3>1 DEF AttemptExists, TypeInv, TypeOK
  <2>8. CASE YouTubeAccepts(w)
    <3>1. task' \in [Workers -> Tasks]
      BY <2>0, <2>8 DEF YouTubeAccepts, Tasks, Phases
    <3>2. task[w].cur \in Requests /\ Count(w) \in 1..MaxRuns
      BY <2>8, <2>a DEF YouTubeAccepts
    <3>3. posts' \in [Requests -> SUBSET (1..MaxRuns)]
      BY <2>8, <3>2 DEF YouTubeAccepts, TypeInv, TypeOK
    <3> QED BY <2>8, <3>1, <3>3 DEF YouTubeAccepts, TypeInv, TypeOK
  <2>9. ASSUME NEW category \in Failures, UploadFails(w, category) PROVE TypeOK'
    <3> DEFINE r == task[w].cur
               n == Count(w)
               retry == category = "RETRYABLE" /\ n < MaxAttempts
    <3>0. r \in Requests /\ n \in 0..MaxRuns /\ row[r].next_attempt_at \in Times
      BY <1>0, <2>9, <2>a DEF UploadFails, PublishRequest
    <3> HIDE DEF r, n, retry
    <3>1. row' \in [Requests -> PublishRequest]
      <4>1. PICK t \in Times :
              row' = [row EXCEPT ![r].status = "FAILED", ![r].next_attempt_at = t]
        <5>1. row' = [row EXCEPT ![r].status = "FAILED",
                        ![r].next_attempt_at = IF retry THEN "LATER" ELSE @]
          BY <2>9 DEF UploadFails, r, n, retry
        <5>2. CASE retry
          BY <5>1, <5>2 DEF Times
        <5>3. CASE ~retry
          BY <3>0, <5>1, <5>3
        <5> QED BY <5>2, <5>3
      <4> QED BY <1>0, <3>0, <4>1 DEF PublishRequest, Statuses
    <3>2. attempts' \in [Requests -> [1..MaxRuns -> PublishAttempt]]
      <4>1. attempts' = [attempts EXCEPT ![r][n] = category]
        BY <2>9 DEF UploadFails, r, n
      <4> QED BY <3>0, <4>1 DEF PublishAttempt, TypeInv, TypeOK
    <3>3. task' \in [Workers -> Tasks]
      BY <2>0, <2>9, <3>0, NextRequestEffect DEF UploadFails, r
    <3> QED BY <2>9, <3>1, <3>2, <3>3 DEF UploadFails, TypeInv, TypeOK
  <2>10. CASE UploadSucceeds(w)
    <3> DEFINE r == task[w].cur
               n == Count(w)
    <3>0. r \in Requests /\ n \in 0..MaxRuns /\ ClipOf[r] \in Clips
      BY PublishingAssumption, <2>10, <2>a DEF UploadSucceeds, VideoReturned
    <3> HIDE DEF r, n
    <3>1. row' \in [Requests -> PublishRequest]
      <4>1. row' = [row EXCEPT ![r].status = "SUCCEEDED", ![r].remote_post_id = n]
        BY <2>10 DEF UploadSucceeds, r, n
      <4> QED BY <1>0, <3>0, <4>1 DEF PublishRequest, Statuses
    <3>2. attempts' \in [Requests -> [1..MaxRuns -> PublishAttempt]]
      <4>1. attempts' = [attempts EXCEPT ![r][n] = "SUCCEEDED"]
        BY <2>10 DEF UploadSucceeds, r, n
      <4> QED BY <3>0, <4>1 DEF PublishAttempt, TypeInv, TypeOK
    <3>3. task' \in [Workers -> Tasks]
      BY <2>0, <2>10, <3>0, NextRequestEffect DEF UploadSucceeds, r
    <3>4. published' \in [Clips -> BOOLEAN]
      BY <2>10, <3>0 DEF UploadSucceeds, TypeInv, TypeOK, r
    <3> QED BY <2>10, <3>1, <3>2, <3>3, <3>4 DEF UploadSucceeds, TypeInv, TypeOK
  <2>11. CASE Crash(w)
    <3>1. task' \in [Workers -> Tasks]
      BY <2>0, <2>11, EndTaskEffect DEF Crash
    <3>2. crashes' \in 0..MaxCrashes /\ crashes' = crashes + 1
      BY PublishingAssumption, <2>11 DEF Crash, TypeInv, TypeOK
    <3>3. messages' \in [Requests -> 0..(MaxMessages + crashes')]
      <4>1. messages \in [Requests -> 0..(MaxMessages + crashes)] /\ crashes \in Nat
        BY PublishingAssumption DEF TypeInv, TypeOK
      <4>2. CASE UNCHANGED messages
        BY PublishingAssumption, <3>2, <4>1, <4>2
      <4>3. CASE /\ task[w].held # None
                 /\ messages' = [messages EXCEPT ![task[w].held] = @ + 1]
        <5>1. task[w].held \in Requests
          BY <2>0, <4>3 DEF Tasks
        <5> QED BY PublishingAssumption, <3>2, <4>1, <4>3, <5>1
      <4> QED BY <2>11, <4>2, <4>3 DEF Crash
    <3> QED BY <2>11, <3>1, <3>2, <3>3 DEF Crash, TypeInv, TypeOK
  <2> QED BY <1>5, <2>1, <2>2, <2>3, <2>4, <2>5, <2>6, <2>7, <2>8, <2>9, <2>10, <2>11
          DEF WorkerStep, TaskStep
<1>6. CASE UNCHANGED vars
  BY <1>6 DEF vars, TypeInv, TypeOK
<1> QED BY <1>1, <1>2, <1>3, <1>4, <1>5, <1>6 DEF Next

(* A step of a worker leaves the others alone and its own task well formed.*)
LEMMA WorkerTaskFine ==
  ASSUME TypeInv, NEW w \in Workers, WorkerStep(w)
  PROVE  OthersKeep(w) /\ TaskFine(w)'
<1>0. /\ task \in [Workers -> Tasks] /\ task[w] \in Tasks /\ TypeOK /\ TaskFine(w)
      /\ row \in [Requests -> PublishRequest]
  BY DEF TypeInv, TypeOK, TaskOK
<1>a. ASSUME NEW batch \in SUBSET Explored, NEW message \in Requests \cup {None},
             BeginTask(w, batch, message)
      PROVE  OthersKeep(w) /\ TaskFine(w)'
  <2>1. batch \in SUBSET Requests /\ \A r \in batch : row[r].attempt_count < MaxRuns
    BY DEF Explored
  <2>2. /\ OthersKeep(w)
        /\ task'[w].phase = "loop"
        /\ task'[w].todo = batch
        /\ \A r \in Requests : task'[w].copy[r] =
             IF r \in batch THEN [status |-> row[r].status, count |-> row[r].attempt_count]
             ELSE NoCopy
    BY <1>0, <1>a, <2>1, BeginTaskEffect
  <2>3. ASSUME NEW r \in batch PROVE task'[w].copy[r].count < MaxRuns
    <3>1. task'[w].copy[r] = [status |-> row[r].status, count |-> row[r].attempt_count]
      BY <2>1, <2>2
    <3> QED BY <2>1, <3>1
  <2> QED BY <2>2, <2>3 DEF TaskFine, Uploading, Count
<1>b. ASSUME task'[w] = Idle PROVE TaskFine(w)'
  BY <1>b DEF TaskFine, Idle, Uploading, Count
<1>c. ASSUME NEW r \in Requests, NextRequest(w, r),
             \/ task[w].phase = "loop"
             \/ Uploading(w) /\ r = task[w].cur
      PROVE  OthersKeep(w) /\ TaskFine(w)'
  <2>1. CASE task'[w] = Idle
    BY <1>0, <1>b, <1>c, <2>1, NextRequestEffect
  <2>2. CASE /\ task'[w].phase = "loop"
             /\ task'[w].todo = task[w].todo \ {r}
             /\ \A q \in Requests :
                  task'[w].copy[q] = IF q = r THEN NoCopy ELSE task[w].copy[q]
    <3>1. \A q \in task[w].todo \ {r} : q \in Requests /\ task[w].copy[q].count < MaxRuns
      BY <1>0, <1>c DEF TaskFine, Tasks, Uploading
    <3>2. OthersKeep(w)
      BY <1>0, <1>c, NextRequestEffect
    <3> QED BY <2>2, <3>1, <3>2 DEF TaskFine, Uploading, Count
  <2> QED BY <1>0, <1>c, <2>1, <2>2, NextRequestEffect
<1>1. ASSUME NEW r \in Requests, Deliver(w, r) PROVE OthersKeep(w) /\ TaskFine(w)'
  BY <1>1, <1>a DEF Deliver
<1>2. CASE StartTick(w)
  BY <1>2, <1>a DEF StartTick, Batches, Retries, Scheduled
<1>3. ASSUME NEW r \in Requests, Skip(w, r) PROVE OthersKeep(w) /\ TaskFine(w)'
  BY <1>3, <1>c DEF Skip, Reaches
<1>4. ASSUME NEW r \in Requests, Refuse(w, r) PROVE OthersKeep(w) /\ TaskFine(w)'
  BY <1>0, <1>4, <1>b, EndTaskEffect DEF Refuse
<1>5. ASSUME NEW r \in Requests, PassPreconditions(w, r) PROVE OthersKeep(w) /\ TaskFine(w)'
  <2>1. task'[w] = [task[w] EXCEPT !.phase = "start", !.cur = r] /\ OthersKeep(w)
    BY <1>0, <1>5 DEF PassPreconditions, OthersKeep, Tasks
  <2>2. /\ task[w].phase = "loop" /\ r \in task[w].todo
        /\ task[w].copy[r].status \in Startable
    BY <1>5 DEF PassPreconditions, Reaches
  <2> QED BY <1>0, <2>1, <2>2 DEF TaskFine, Uploading, Count, Tasks
<1>6. CASE StartAttempt(w)
  <2> DEFINE r == task[w].cur
             n == Count(w) + 1
             t == [task[w] EXCEPT !.phase = "upload",
                     !.copy[r] = [status |-> "UPLOADING", count |-> n]]
  <2>1. task'[w] = t /\ OthersKeep(w)
    BY <1>0, <1>6 DEF StartAttempt, OthersKeep, Tasks
  <2>2. /\ r \in task[w].todo /\ r \in Requests /\ n # 0
        /\ \A q \in task[w].todo : task[w].copy[q].count < MaxRuns
    BY PublishingAssumption, <1>0, <1>6 DEF StartAttempt, TaskFine, Tasks, Copies, Count, Uploading
  <2>3. /\ t.phase = "upload" /\ t.cur = r /\ t.todo = task[w].todo
        /\ t.copy[r].count = n /\ t.copy[r].status = "UPLOADING"
        /\ \A q \in Requests \ {r} : t.copy[q] = task[w].copy[q]
    BY <1>0, <2>2 DEF Tasks
  <2>4. \A q \in task[w].todo : q \in Requests
    BY <1>0 DEF Tasks
  <2> HIDE DEF r, n, t
  <2> QED BY <2>1, <2>2, <2>3, <2>4 DEF TaskFine, Uploading, Count
<1>7. CASE AttemptExists(w)
  BY <1>0, <1>7, <1>b, EndTaskEffect DEF AttemptExists
<1>8. CASE YouTubeAccepts(w)
  <2>1. task'[w] = [task[w] EXCEPT !.phase = "accepted"] /\ OthersKeep(w)
    BY <1>0, <1>8 DEF YouTubeAccepts, OthersKeep, Tasks
  <2> QED BY <1>0, <1>8, <2>1 DEF YouTubeAccepts, TaskFine, Uploading, Count, Tasks
<1>9. ASSUME NEW category \in Failures, UploadFails(w, category)
      PROVE  OthersKeep(w) /\ TaskFine(w)'
  BY <1>0, <1>9, <1>c DEF UploadFails, TaskFine, Tasks, Uploading
<1>10. CASE UploadSucceeds(w)
  BY <1>0, <1>10, <1>c DEF UploadSucceeds, VideoReturned, TaskFine, Tasks, Uploading
<1>11. CASE Crash(w)
  BY <1>0, <1>11, <1>b, EndTaskEffect DEF Crash
<1> QED BY <1>1, <1>2, <1>3, <1>4, <1>5, <1>6, <1>7, <1>8, <1>9, <1>10, <1>11
        DEF WorkerStep, TaskStep

(* What does not touch the tasks.                                          *)
LEMMA TasksKept ==
  ASSUME [Next]_vars, \A w \in Workers : ~WorkerStep(w)
  PROVE  UNCHANGED <<task, attempts, posts, published>>
<1>1. ASSUME NEW o \in Operators, OperatorStep(o)
      PROVE  UNCHANGED <<task, attempts, posts, published>>
  BY <1>1 DEF OperatorStep, LoadForConfirm, LoadForCancel, CommitConfirm, SendTask,
              CommitCancel, HandlerFails
<1> QED BY <1>1 DEF Next, RequestPublish, TimePasses, ReviewDecision, vars

LEMMA NextTaskOK == TypeInv /\ [Next]_vars => TaskOK'
<1> SUFFICES ASSUME TypeInv, [Next]_vars, NEW v \in Workers PROVE TaskFine(v)'
  BY DEF TaskOK
<1>1. TaskFine(v)
  BY DEF TypeInv, TaskOK
<1>2. ASSUME task'[v] = task[v] PROVE TaskFine(v)'
  BY <1>1, <1>2 DEF TaskFine, Uploading, Count
<1>3. ASSUME NEW w \in Workers, WorkerStep(w) PROVE TaskFine(v)'
  BY <1>2, <1>3, WorkerTaskFine DEF OthersKeep
<1> QED BY <1>2, <1>3, TasksKept

-----------------------------------------------------------------------------
(* What a row looks like to a session that loads it now.                   *)
Fresh(r) == [status |-> row[r].status, count |-> row[r].attempt_count]

(* A worker's copy of a row changes only when it opens an attempt, loads   *)
(* the row or is done with it; an upload goes on with the copy it has.     *)
LEMMA CopyEffect ==
  ASSUME TypeInv, NEW w \in Workers, WorkerStep(w), ~StartAttempt(w)
  PROVE  /\ \A r \in Requests : task'[w].copy[r] \in {task[w].copy[r], NoCopy, Fresh(r)}
         /\ Uploading(w)' => /\ Uploading(w) /\ task'[w].cur = task[w].cur
                             /\ task'[w].copy = task[w].copy
<1> DEFINE CopiesOK == \A r \in Requests :
                         task'[w].copy[r] \in {task[w].copy[r], NoCopy, Fresh(r)}
           UploadOK == Uploading(w)' => /\ Uploading(w) /\ task'[w].cur = task[w].cur
                                        /\ task'[w].copy = task[w].copy
<1>0. task \in [Workers -> Tasks] /\ task[w] \in Tasks /\ TypeOK /\ TaskFine(w)
  BY DEF TypeInv, TypeOK, TaskOK
<1>a. ASSUME NEW batch \in SUBSET Requests, NEW message \in Requests \cup {None},
             BeginTask(w, batch, message)
      PROVE  CopiesOK /\ UploadOK
  <2>1. /\ task'[w].phase = "loop"
        /\ \A r \in Requests : task'[w].copy[r] =
             IF r \in batch THEN [status |-> row[r].status, count |-> row[r].attempt_count]
             ELSE NoCopy
    BY <1>0, <1>a, BeginTaskEffect
  <2>2. ASSUME NEW r \in Requests
        PROVE  task'[w].copy[r] \in {task[w].copy[r], NoCopy, Fresh(r)}
    <3>1. CASE r \in batch
      BY <2>1, <3>1 DEF Fresh
    <3>2. CASE r \notin batch
      BY <2>1, <3>2
    <3> QED BY <3>1, <3>2
  <2> QED BY <2>1, <2>2 DEF Uploading
<1>b. ASSUME task'[w] = Idle PROVE CopiesOK /\ UploadOK
  BY <1>b DEF Idle, Uploading
<1>c. ASSUME NEW r \in Requests, NextRequest(w, r) PROVE CopiesOK /\ UploadOK
  BY <1>0, <1>b, <1>c, NextRequestEffect DEF Uploading
<1>1. ASSUME NEW r \in Requests, Deliver(w, r) PROVE CopiesOK /\ UploadOK
  BY <1>1, <1>a DEF Deliver
<1>2. CASE StartTick(w)
  BY <1>2, <1>a DEF StartTick, Batches, Retries, Scheduled, Explored
<1>3. ASSUME NEW r \in Requests, Skip(w, r) PROVE CopiesOK /\ UploadOK
  BY <1>3, <1>c DEF Skip
<1>4. ASSUME NEW r \in Requests, Refuse(w, r) PROVE CopiesOK /\ UploadOK
  BY <1>0, <1>4, <1>b, EndTaskEffect DEF Refuse
<1>5. ASSUME NEW r \in Requests, PassPreconditions(w, r) PROVE CopiesOK /\ UploadOK
  <2>1. task'[w] = [task[w] EXCEPT !.phase = "start", !.cur = r]
    BY <1>0, <1>5 DEF PassPreconditions
  <2> QED BY <1>0, <2>1 DEF Tasks, Uploading
<1>6. CASE AttemptExists(w)
  BY <1>0, <1>6, <1>b, EndTaskEffect DEF AttemptExists
<1>7. CASE YouTubeAccepts(w)
  <2>1. task'[w] = [task[w] EXCEPT !.phase = "accepted"]
    BY <1>0, <1>7 DEF YouTubeAccepts
  <2> QED BY <1>0, <1>7, <2>1 DEF YouTubeAccepts, Tasks, Uploading
<1>8. ASSUME NEW category \in Failures, UploadFails(w, category)
      PROVE  CopiesOK /\ UploadOK
  BY <1>0, <1>8, <1>c DEF UploadFails, TaskFine, Tasks
<1>9. CASE UploadSucceeds(w)
  BY <1>0, <1>9, <1>c DEF UploadSucceeds, VideoReturned, TaskFine, Tasks
<1>10. CASE Crash(w)
  BY <1>0, <1>10, <1>b, EndTaskEffect DEF Crash
<1> QED BY <1>1, <1>2, <1>3, <1>4, <1>5, <1>6, <1>7, <1>8, <1>9, <1>10
        DEF WorkerStep, TaskStep

Finished == {"SUCCEEDED"} \cup Failures

(* The end of an upload: worker w writes the outcome of its attempt, and   *)
(* nothing else, to the request and to the attempt's row.                  *)
WritesOutcome(w, r, n) ==
    /\ Uploading(w) /\ ~Uploading(w)'
    /\ r \in Requests /\ n \in 1..MaxRuns
    /\ \A q \in Requests : /\ row'[q].attempt_count = row[q].attempt_count
                          /\ row'[q].confirmed = row[q].confirmed
    /\ \A q \in Requests \ {r} : row'[q] = row[q] /\ attempts'[q] = attempts[q]
    /\ attempts'[r][n] \in Finished
    /\ \A m \in 1..MaxRuns \ {n} : attempts'[r][m] = attempts[r][m]
    /\ \/ /\ row'[r].status = "FAILED" /\ row'[r].remote_post_id = row[r].remote_post_id
          /\ attempts'[r][n] \in Failures
       \/ /\ task[w].phase = "accepted"
          /\ row'[r].status = "SUCCEEDED" /\ row'[r].remote_post_id = n
          /\ attempts'[r][n] = "SUCCEEDED" /\ published'[ClipOf[r]]
    /\ \A c \in Clips : published[c] => published'[c]
    /\ UNCHANGED <<posts, hand>>

EndsUpload(w) ==
    UploadSucceeds(w) \/ \E category \in Failures : UploadFails(w, category)

LEMMA OutcomeEffect ==
  ASSUME TypeInv, NEW w \in Workers, EndsUpload(w)
  PROVE  WritesOutcome(w, task[w].cur, Count(w))
<1> DEFINE r == task[w].cur
           n == Count(w)
<1>1. /\ Uploading(w) /\ NextRequest(w, r)
      /\ row \in [Requests -> PublishRequest]
      /\ attempts \in [Requests -> [1..MaxRuns -> PublishAttempt]]
      /\ published \in [Clips -> BOOLEAN]
      /\ task \in [Workers -> Tasks] /\ task[w] \in Tasks /\ TaskFine(w)
      /\ UNCHANGED <<posts, hand>>
  BY DEF EndsUpload, UploadSucceeds, UploadFails, VideoReturned, Uploading, TypeInv, TypeOK,
         TaskOK
<1>2. r \in Requests /\ n \in 1..MaxRuns /\ ClipOf[r] \in Clips
  BY PublishingAssumption, <1>1 DEF TaskFine, Tasks, Copies, Uploading, Count
<1>3. ~Uploading(w)'
  <2>1. task'[w] = Idle \/ task'[w].phase = "loop"
    BY <1>1, <1>2, NextRequestEffect
  <2> QED BY <2>1 DEF Uploading, Idle
<1>4. CASE UploadSucceeds(w)
  <2>1. /\ attempts' = [attempts EXCEPT ![r][n] = "SUCCEEDED"]
        /\ row' = [row EXCEPT ![r].status = "SUCCEEDED", ![r].remote_post_id = n]
        /\ published' = [published EXCEPT ![ClipOf[r]] = TRUE]
        /\ task[w].phase = "accepted"
    BY <1>4 DEF UploadSucceeds, VideoReturned
  <2> HIDE DEF r, n
  <2>2. /\ \A q \in Requests : /\ row'[q].attempt_count = row[q].attempt_count
                               /\ row'[q].confirmed = row[q].confirmed
        /\ \A q \in Requests \ {r} : row'[q] = row[q]
        /\ row'[r].status = "SUCCEEDED" /\ row'[r].remote_post_id = n
    BY <1>1, <1>2, <2>1 DEF PublishRequest
  <2>3. /\ \A q \in Requests \ {r} : attempts'[q] = attempts[q]
        /\ attempts'[r][n] = "SUCCEEDED"
        /\ \A m \in 1..MaxRuns \ {n} : attempts'[r][m] = attempts[r][m]
    BY <1>1, <1>2, <2>1
  <2>4. published'[ClipOf[r]] /\ \A c \in Clips : published[c] => published'[c]
    BY <1>1, <1>2, <2>1
  <2>5. WritesOutcome(w, r, n)
    BY <1>1, <1>2, <1>3, <2>1, <2>2, <2>3, <2>4 DEF WritesOutcome, Finished
  <2> QED BY <2>5 DEF r, n
<1>5. ASSUME NEW category \in Failures, UploadFails(w, category)
      PROVE  WritesOutcome(w, r, n)
  <2> DEFINE retry == category = "RETRYABLE" /\ n < MaxAttempts
  <2>1. /\ attempts' = [attempts EXCEPT ![r][n] = category]
        /\ row' = [row EXCEPT ![r].status = "FAILED",
                      ![r].next_attempt_at = IF retry THEN "LATER" ELSE @]
        /\ UNCHANGED published
    BY <1>5 DEF UploadFails
  <2> HIDE DEF r, n, retry
  <2>2. PICK t : row' = [row EXCEPT ![r].status = "FAILED", ![r].next_attempt_at = t]
    <3>1. CASE retry
      BY <2>1, <3>1
    <3>2. CASE ~retry
      BY <1>1, <1>2, <2>1, <3>2
    <3> QED BY <3>1, <3>2
  <2>3. /\ \A q \in Requests : /\ row'[q].attempt_count = row[q].attempt_count
                               /\ row'[q].confirmed = row[q].confirmed
        /\ \A q \in Requests \ {r} : row'[q] = row[q]
        /\ row'[r].status = "FAILED" /\ row'[r].remote_post_id = row[r].remote_post_id
    BY <1>1, <1>2, <2>2 DEF PublishRequest
  <2>4. /\ \A q \in Requests \ {r} : attempts'[q] = attempts[q]
        /\ attempts'[r][n] = category
        /\ \A m \in 1..MaxRuns \ {n} : attempts'[r][m] = attempts[r][m]
    BY <1>1, <1>2, <2>1
  <2> QED BY <1>1, <1>2, <1>3, <2>1, <2>3, <2>4 DEF WritesOutcome, Finished
<1> QED BY <1>4, <1>5 DEF EndsUpload

(* The start of an attempt: number n was free, and is one more than the    *)
(* count of a copy that the worker had as Startable.                       *)
OpensAttempt(w, r, n) ==
    /\ r \in Requests /\ n \in 1..MaxRuns
    /\ NumberFree(r, n)
    /\ task[w].copy[r].status \in Startable
    /\ task[w].copy[r].count = n - 1
    /\ row'[r].attempt_count = n /\ row'[r].status = "UPLOADING"
    /\ row'[r].confirmed = row[r].confirmed
    /\ row'[r].remote_post_id = row[r].remote_post_id
    /\ \A q \in Requests \ {r} : row'[q] = row[q] /\ attempts'[q] = attempts[q]
    /\ attempts'[r][n] = "STARTED"
    /\ \A m \in 1..MaxRuns \ {n} : attempts'[r][m] = attempts[r][m]
    /\ task'[w].phase = "upload" /\ task'[w].cur = r /\ Count(w)' = n
    /\ task'[w].copy[r] = [status |-> "UPLOADING", count |-> n]
    /\ \A q \in Requests \ {r} : task'[w].copy[q] = task[w].copy[q]
    /\ OthersKeep(w)
    /\ UNCHANGED <<posts, published, hand>>

LEMMA StartEffect ==
  ASSUME TypeInv, NEW w \in Workers, StartAttempt(w)
  PROVE  OpensAttempt(w, task[w].cur, Count(w) + 1)
<1> DEFINE r == task[w].cur
           n == Count(w) + 1
<1>1. /\ row \in [Requests -> PublishRequest]
      /\ attempts \in [Requests -> [1..MaxRuns -> PublishAttempt]]
      /\ task \in [Workers -> Tasks] /\ task[w] \in Tasks
      /\ task[w].phase = "start" /\ TaskFine(w)
  BY DEF TypeInv, TypeOK, TaskOK, StartAttempt
<1>2. /\ r \in Requests /\ n \in 1..MaxRuns /\ task[w].copy[r].count = n - 1
      /\ task[w].copy[r].status \in Startable
  BY PublishingAssumption, <1>1 DEF TaskFine, Tasks, Copies, Count, Uploading
<1>3. /\ NumberFree(r, n)
      /\ attempts' = [attempts EXCEPT ![r][n] = "STARTED"]
      /\ row' = [row EXCEPT ![r].status = "UPLOADING", ![r].attempt_count = n]
      /\ task' = [task EXCEPT ![w].phase = "upload",
                     ![w].copy[r] = [status |-> "UPLOADING", count |-> n]]
      /\ UNCHANGED <<posts, published, hand>>
  BY DEF StartAttempt
<1>4. task[w].cur = r
  OBVIOUS
<1> HIDE DEF r, n
<1>5. /\ row'[r].attempt_count = n /\ row'[r].status = "UPLOADING"
      /\ row'[r].confirmed = row[r].confirmed
      /\ row'[r].remote_post_id = row[r].remote_post_id
      /\ \A q \in Requests \ {r} : row'[q] = row[q]
  BY <1>1, <1>2, <1>3 DEF PublishRequest
<1>6. /\ \A q \in Requests \ {r} : attempts'[q] = attempts[q]
      /\ attempts'[r][n] = "STARTED"
      /\ \A m \in 1..MaxRuns \ {n} : attempts'[r][m] = attempts[r][m]
  BY <1>1, <1>2, <1>3
<1>7. /\ task'[w].phase = "upload" /\ task'[w].cur = r
      /\ task'[w].copy[r] = [status |-> "UPLOADING", count |-> n]
      /\ \A q \in Requests \ {r} : task'[w].copy[q] = task[w].copy[q]
      /\ OthersKeep(w)
  BY <1>1, <1>2, <1>3, <1>4 DEF Tasks, OthersKeep
<1>8. Count(w)' = n
  BY <1>7 DEF Count
<1>9. OpensAttempt(w, r, n)
  BY <1>2, <1>3, <1>5, <1>6, <1>7, <1>8 DEF OpensAttempt
<1> QED BY <1>9 DEF r, n

(* What every other step leaves of a request.  A confirmation is never     *)
(* taken back, and only a confirming step gives a later status.            *)
RowKept(r) ==
    /\ row'[r].attempt_count = row[r].attempt_count
    /\ row'[r].remote_post_id = row[r].remote_post_id
    /\ row[r].confirmed => row'[r].confirmed
    /\ \/ row'[r].status = row[r].status
       \/ row[r].status = "ABSENT" /\ row'[r].status = "AWAITING_CONFIRMATION"
       \/ /\ row'[r].confirmed /\ row'[r].status \in {"QUEUED", "SCHEDULED"}
          /\ \E o \in Operators :
                CommitConfirm(o) /\ hand[o] = [op |-> "CONFIRM", request |-> r]
       \/ row'[r].status = "CANCELLED"

LEMMA RowEffect ==
  ASSUME TypeInv, [Next]_vars, \A w \in Workers : ~StartAttempt(w) /\ ~EndsUpload(w)
  PROVE  UNCHANGED <<attempts, published>> /\ \A r \in Requests : RowKept(r)
<1>0. row \in [Requests -> PublishRequest]
  BY DEF TypeInv, TypeOK
<1>a. ASSUME UNCHANGED <<row, attempts, published>>
      PROVE  UNCHANGED <<attempts, published>> /\ \A r \in Requests : RowKept(r)
  BY <1>a DEF RowKept
<1>1. ASSUME NEW r \in Requests, RequestPublish(r) PROVE \A q \in Requests : RowKept(q)
  <2>1. PICK time \in {"NONE", "LATER"} :
          row' = [row EXCEPT ![r].status = "AWAITING_CONFIRMATION", ![r].scheduled_for = time]
    BY <1>1 DEF RequestPublish, InitialStatus
  <2>2. row[r].status = "ABSENT"
    BY <1>1 DEF RequestPublish
  <2> QED BY <1>0, <2>1, <2>2 DEF PublishRequest, RowKept
<1>2. ASSUME NEW r \in Requests, TimePasses(r) PROVE \A q \in Requests : RowKept(q)
  <2>1. CASE row' = [row EXCEPT ![r].scheduled_for = "DUE"]
    BY <1>0, <2>1 DEF PublishRequest, RowKept
  <2>2. CASE row' = [row EXCEPT ![r].next_attempt_at = "DUE"]
    BY <1>0, <2>2 DEF PublishRequest, RowKept
  <2> QED BY <1>2, <2>1, <2>2 DEF TimePasses
<1>3. ASSUME NEW o \in Operators, CommitConfirm(o) PROVE \A q \in Requests : RowKept(q)
  <2> DEFINE r == hand[o].request
             s == ConfirmedStatus(r)
  <2>1. hand[o] = [op |-> "CONFIRM", request |-> r] /\ r \in Requests
    BY <1>3 DEF CommitConfirm, TypeInv, TypeOK, NoHand
  <2>2. row' = [row EXCEPT ![r].confirmed = TRUE, ![r].status = s]
    BY <1>3 DEF CommitConfirm
  <2>3. s \in {"QUEUED", "SCHEDULED"}
    BY DEF ConfirmedStatus
  <2> HIDE DEF r, s
  <2>4. /\ row'[r].attempt_count = row[r].attempt_count
        /\ row'[r].remote_post_id = row[r].remote_post_id
        /\ row'[r].confirmed /\ row'[r].status = s
        /\ \A q \in Requests \ {r} : row'[q] = row[q]
    BY <1>0, <2>1, <2>2 DEF PublishRequest
  <2> QED BY <1>3, <2>1, <2>3, <2>4 DEF RowKept
<1>4. ASSUME NEW o \in Operators, CommitCancel(o) PROVE \A q \in Requests : RowKept(q)
  <2>1. hand[o].request \in Requests
    BY <1>4 DEF CommitCancel, TypeInv, TypeOK, NoHand
  <2>2. row' = [row EXCEPT ![hand[o].request].status = "CANCELLED",
                           ![hand[o].request].cancelled_before_upload = TRUE]
    BY <1>4 DEF CommitCancel
  <2> QED BY <1>0, <2>1, <2>2 DEF PublishRequest, RowKept
<1>5. ASSUME NEW o \in Operators, OperatorStep(o)
      PROVE  UNCHANGED <<attempts, published>> /\ \A q \in Requests : RowKept(q)
  BY <1>a, <1>3, <1>4, <1>5 DEF OperatorStep, LoadForConfirm, LoadForCancel, CommitConfirm,
     SendTask, CommitCancel, HandlerFails
<1>6. ASSUME NEW w \in Workers, WorkerStep(w)
      PROVE  UNCHANGED <<row, attempts, published>>
  BY <1>6 DEF WorkerStep, TaskStep, EndsUpload, Deliver, StartTick, Skip, Refuse,
              PassPreconditions, AttemptExists, YouTubeAccepts, Crash
<1> QED BY <1>a, <1>1, <1>2, <1>5, <1>6 DEF Next, RequestPublish, TimePasses,
           ReviewDecision, vars

(* The copies that a worker without a new attempt has after any step.      *)
TaskKept(w) ==
    /\ \A r \in Requests : task'[w].copy[r] \in {task[w].copy[r], NoCopy, Fresh(r)}
    /\ Uploading(w)' => /\ Uploading(w) /\ task'[w].cur = task[w].cur
                        /\ task'[w].copy = task[w].copy

LEMMA TaskEffect ==
  ASSUME TypeInv, [Next]_vars, NEW w \in Workers, ~StartAttempt(w)
  PROVE  TaskKept(w)
<1>1. CASE task'[w] = task[w]
  BY <1>1 DEF TaskKept, Uploading
<1>2. CASE WorkerStep(w)
  BY <1>2, CopyEffect DEF TaskKept
<1>3. ASSUME NEW v \in Workers \ {w}, WorkerStep(v) PROVE task'[w] = task[w]
  BY <1>3, WorkerTaskFine DEF OthersKeep
<1> QED BY <1>1, <1>2, <1>3, TasksKept

LEMMA Counts ==
  ASSUME TypeInv
  PROVE  /\ MaxRuns \in Nat
         /\ \A r \in Requests : row[r].attempt_count \in 0..MaxRuns
         /\ \A w \in Workers, r \in Requests : task[w].copy[r].count \in 0..MaxRuns
  BY PublishingAssumption DEF TypeInv, TypeOK, PublishRequest, Tasks, Copies

-----------------------------------------------------------------------------
(* The attempt table.                                                      *)

LEMMA LedgerStep == TypeInv /\ LedgerInv /\ [Next]_vars => LedgerInv'
<1> SUFFICES ASSUME TypeInv, LedgerInv, [Next]_vars PROVE LedgerInv'
  OBVIOUS
<1>0. /\ MaxRuns \in Nat
      /\ \A r \in Requests : row[r].attempt_count \in 0..MaxRuns
      /\ \A w \in Workers, r \in Requests : task[w].copy[r].count \in 0..MaxRuns
  BY Counts
<1>1. ASSUME NEW w \in Workers, StartAttempt(w) PROVE LedgerInv'
  <2>1. PICK r, n : OpensAttempt(w, r, n)
    BY <1>1, StartEffect
  <2>2. n = row[r].attempt_count + 1 /\ row[r].attempt_count \in Nat
    BY <1>0, <2>1 DEF OpensAttempt, NumberFree, LedgerInv, AttemptLedger, CopiesLag
  <2>3. AttemptLedger'
    <3>1. ASSUME NEW m \in 1..MaxRuns
          PROVE  attempts'[r][m] # "NONE" <=> m <= row'[r].attempt_count
      BY <2>1, <2>2 DEF OpensAttempt, LedgerInv, AttemptLedger
    <3>2. ASSUME NEW q \in Requests \ {r}, NEW m \in 1..MaxRuns
          PROVE  attempts'[q][m] # "NONE" <=> m <= row'[q].attempt_count
      BY <2>1 DEF OpensAttempt, LedgerInv, AttemptLedger
    <3> QED BY <2>1, <3>1, <3>2 DEF AttemptLedger, OpensAttempt
  <2>4. ASSUME NEW v \in Workers, NEW q \in Requests
        PROVE  task'[v].copy[q].count <= row'[q].attempt_count
    <3>1. row[q].attempt_count <= row'[q].attempt_count
      BY <1>0, <2>1, <2>2 DEF OpensAttempt
    <3>2. CASE v = w /\ q = r
      <4>1. task'[w].copy[r].count = n
        BY <2>1 DEF OpensAttempt
      <4> QED BY <2>1, <2>2, <3>2, <4>1 DEF OpensAttempt
    <3>3. CASE v # w \/ q # r
      <4>1. task'[v].copy[q] = task[v].copy[q]
        BY <2>1, <3>3 DEF OpensAttempt, OthersKeep
      <4>2. row'[q].attempt_count \in Nat
        BY <1>0, <2>1, <2>2 DEF OpensAttempt
      <4> QED BY <1>0, <3>1, <4>1, <4>2 DEF LedgerInv, CopiesLag
    <3> QED BY <3>2, <3>3
  <2> QED BY <2>3, <2>4 DEF LedgerInv, CopiesLag
<1>2. CASE \A w \in Workers : ~StartAttempt(w)
  <2>1. \A r \in Requests : row'[r].attempt_count = row[r].attempt_count
    BY <1>2, OutcomeEffect, RowEffect DEF WritesOutcome, RowKept
  <2>2. \A r \in Requests, m \in 1..MaxRuns : attempts'[r][m] # "NONE" <=> attempts[r][m] # "NONE"
    <3>1. ASSUME NEW w \in Workers, EndsUpload(w)
          PROVE  \A r \in Requests, m \in 1..MaxRuns :
                   attempts'[r][m] # "NONE" <=> attempts[r][m] # "NONE"
      <4> DEFINE r == task[w].cur
                 n == Count(w)
      <4>1. WritesOutcome(w, r, n)
        BY <3>1, OutcomeEffect
      <4>2. n <= row[r].attempt_count
        BY <4>1 DEF WritesOutcome, Count, LedgerInv, CopiesLag
      <4>3. attempts[r][n] # "NONE"
        BY <4>1, <4>2 DEF WritesOutcome, LedgerInv, AttemptLedger
      <4> HIDE DEF r, n
      <4> QED BY <4>1, <4>3 DEF WritesOutcome, Finished, Failures
    <3> QED BY <1>2, <3>1, RowEffect
  <2>3. \A w \in Workers, r \in Requests : task'[w].copy[r].count <= row'[r].attempt_count
    <3>1. ASSUME NEW w \in Workers, NEW r \in Requests
          PROVE  task'[w].copy[r].count <= row[r].attempt_count
      BY <1>0, <1>2, TaskEffect DEF TaskKept, NoCopy, Fresh, LedgerInv, CopiesLag
    <3> QED BY <2>1, <3>1
  <2> QED BY <2>1, <2>2, <2>3 DEF LedgerInv, AttemptLedger, CopiesLag
<1> QED BY <1>1, <1>2

-----------------------------------------------------------------------------
(* Confirmation.                                                           *)

LEMMA ConfirmedStep == TypeInv /\ ConfirmedInv /\ [Next]_vars => ConfirmedInv'
<1> SUFFICES ASSUME TypeInv, ConfirmedInv, [Next]_vars PROVE ConfirmedInv'
  OBVIOUS
<1>1. ASSUME NEW w \in Workers, StartAttempt(w) PROVE ConfirmedInv'
  <2>1. PICK r, n : OpensAttempt(w, r, n)
    BY <1>1, StartEffect
  <2>2. \A q \in Requests : row'[q].confirmed = row[q].confirmed
    BY <2>1 DEF OpensAttempt
  <2>3. r \in Requests /\ row[r].confirmed
    BY <2>1 DEF OpensAttempt, ConfirmedInv, Startable, Later
  <2>4. \A q \in Requests \ {r} : row'[q] = row[q]
    BY <2>1 DEF OpensAttempt
  <2>5. ASSUME NEW v \in Workers, NEW q \in Requests, task'[v].copy[q].status \in Later
        PROVE  row'[q].confirmed
    <3>1. CASE q = r
      BY <2>2, <2>3, <3>1
    <3>2. CASE q # r
      <4>1. task'[v].copy[q] = task[v].copy[q]
        BY <2>1, <3>2 DEF OpensAttempt, OthersKeep
      <4> QED BY <2>2, <2>5, <4>1 DEF ConfirmedInv
    <3> QED BY <3>1, <3>2
  <2> QED BY <2>2, <2>3, <2>4, <2>5 DEF ConfirmedInv, ConfirmedBeforeAttempt
<1>2. CASE \A w \in Workers : ~StartAttempt(w)
  <2> DEFINE RowOK(r) == /\ row'[r].attempt_count = row[r].attempt_count
                         /\ row[r].confirmed => row'[r].confirmed
                         /\ row'[r].status \in Later => row'[r].confirmed
  <2>1. ASSUME NEW r \in Requests PROVE RowOK(r)
    <3>1. ASSUME NEW w \in Workers, EndsUpload(w) PROVE RowOK(r)
      <4>1. WritesOutcome(w, task[w].cur, Count(w))
        BY <3>1, OutcomeEffect
      <4>2. row[task[w].cur].confirmed
        BY <4>1 DEF WritesOutcome, TypeInv, TaskOK, TaskFine, ConfirmedInv, Later
      <4> QED BY <4>1, <4>2 DEF WritesOutcome, ConfirmedInv
    <3>2. ASSUME RowKept(r) PROVE RowOK(r)
      BY <3>2 DEF RowKept, ConfirmedInv, Later
    <3> QED BY <1>2, <3>1, <3>2, RowEffect
  <2>2. ASSUME NEW w \in Workers, NEW r \in Requests, task'[w].copy[r].status \in Later
        PROVE  row[r].confirmed
    BY <1>2, <2>2, TaskEffect DEF TaskKept, NoCopy, Fresh, ConfirmedInv, Later
  <2> QED BY <2>1, <2>2 DEF ConfirmedInv, ConfirmedBeforeAttempt
<1> QED BY <1>1, <1>2

-----------------------------------------------------------------------------
(* Ownership of an attempt's row.                                          *)

(* What YouTube accepts is kept, comes from an upload, and is known to the *)
(* worker that goes on.                                                    *)
LEMMA PostEffect ==
  ASSUME TypeInv, [Next]_vars
  PROVE  /\ \A r \in Requests : posts[r] \subseteq posts'[r]
         /\ \A r \in Requests, n \in 1..MaxRuns : n \in posts'[r] \ posts[r] =>
              /\ UNCHANGED <<row, attempts, published>>
              /\ \E w \in Workers : Uploading(w) /\ task[w].cur = r /\ Count(w) = n
         /\ \A w \in Workers : task'[w].phase = "accepted" =>
              task[w].phase = "accepted" \/ Count(w) \in posts'[task[w].cur]
<1> DEFINE Goal ==
      /\ \A r \in Requests : posts[r] \subseteq posts'[r]
      /\ \A r \in Requests, n \in 1..MaxRuns : n \in posts'[r] \ posts[r] =>
           /\ UNCHANGED <<row, attempts, published>>
           /\ \E w \in Workers : Uploading(w) /\ task[w].cur = r /\ Count(w) = n
      /\ \A w \in Workers : task'[w].phase = "accepted" =>
           task[w].phase = "accepted" \/ Count(w) \in posts'[task[w].cur]
<1>0. posts \in [Requests -> SUBSET (1..MaxRuns)] /\ task \in [Workers -> Tasks]
  BY DEF TypeInv, TypeOK
<1>1. ASSUME NEW w \in Workers, YouTubeAccepts(w) PROVE Goal
  <2>1. task[w].cur \in Requests /\ Uploading(w)
    BY <1>0, <1>1 DEF YouTubeAccepts, Uploading, TypeInv, TaskOK, TaskFine, Tasks
  <2>2. /\ posts' = [posts EXCEPT ![task[w].cur] = @ \cup {Count(w)}]
        /\ UNCHANGED <<row, attempts, published>>
        /\ \A v \in Workers \ {w} : task'[v] = task[v]
    BY <1>0, <1>1 DEF YouTubeAccepts
  <2> QED BY <1>0, <2>1, <2>2
<1>2. ASSUME UNCHANGED posts,
             \A w \in Workers : task'[w].phase = "accepted" => task[w].phase = "accepted"
      PROVE  Goal
  BY <1>2
<1>3. ASSUME NEW w \in Workers, WorkerStep(w), ~YouTubeAccepts(w)
      PROVE  UNCHANGED posts /\ task'[w].phase # "accepted"
  <2>1. ASSUME NEW r \in Requests, NextRequest(w, r) PROVE task'[w].phase # "accepted"
    BY <1>0, <2>1, NextRequestEffect DEF Idle
  <2>2. ASSUME EndTask(w) PROVE task'[w].phase # "accepted"
    BY <1>0, <2>2, EndTaskEffect DEF Idle
  <2>3. ASSUME NEW batch, NEW message, BeginTask(w, batch, message)
        PROVE  task'[w].phase # "accepted"
    BY <1>0, <2>3 DEF BeginTask
  <2>4. Uploading(w) => task[w].cur \in Requests
    BY <1>0 DEF TypeInv, TaskOK, TaskFine, Tasks, Uploading
  <2>5. StartAttempt(w) => UNCHANGED posts /\ task'[w].phase # "accepted"
    BY StartEffect DEF OpensAttempt
  <2>6. ASSUME NEW r \in Requests, PassPreconditions(w, r) PROVE task'[w].phase # "accepted"
    BY <1>0, <2>6 DEF PassPreconditions
  <2> QED BY <1>3, <2>1, <2>2, <2>3, <2>4, <2>5, <2>6
          DEF WorkerStep, TaskStep, Deliver, StartTick, Skip, Refuse, PassPreconditions,
              AttemptExists, UploadFails, UploadSucceeds, VideoReturned, Crash, Uploading
<1>4. ASSUME NEW w \in Workers, WorkerStep(w), ~YouTubeAccepts(w) PROVE Goal
  BY <1>2, <1>3, <1>4, WorkerTaskFine DEF OthersKeep
<1> QED BY <1>1, <1>2, <1>4, TasksKept

LEMMA OwnedStep == TypeInv /\ RowsAreOwned /\ [Next]_vars => RowsAreOwned'
<1> SUFFICES ASSUME TypeInv, RowsAreOwned, [Next]_vars PROVE RowsAreOwned'
  OBVIOUS
<1>0. \A w \in Workers : Uploading(w) => task[w].cur \in Requests /\ Count(w) \in 1..MaxRuns
  BY PublishingAssumption
  DEF TypeInv, TypeOK, TaskOK, TaskFine, Tasks, Copies, Uploading, Count
<1>a. \A w \in Workers : task[w].phase = "accepted" => Uploading(w)
  BY DEF Uploading
<1>1. ASSUME NEW w \in Workers, StartAttempt(w) PROVE RowsAreOwned'
  <2>1. PICK r, n : OpensAttempt(w, r, n)
    BY <1>1, StartEffect
  <2>2. /\ r \in Requests /\ n \in 1..MaxRuns /\ attempts[r][n] = "NONE"
        /\ task'[w].cur = r /\ Count(w)' = n /\ task'[w].phase = "upload"
    BY <2>1 DEF OpensAttempt, NumberFree
  <2>3. ASSUME NEW v \in Workers \ {w}, Uploading(v)'
        PROVE  /\ task'[v] = task[v] /\ Uploading(v) /\ Count(v)' = Count(v)
               /\ task[v].cur # r \/ Count(v) # n
    <3>1. task'[v] = task[v]
      BY <2>1 DEF OpensAttempt, OthersKeep
    <3>2. Uploading(v) /\ Count(v)' = Count(v)
      BY <2>3, <3>1 DEF Uploading, Count
    <3>3. attempts[task[v].cur][Count(v)] = "STARTED"
      BY <3>2 DEF RowsAreOwned
    <3> QED BY <2>2, <3>1, <3>2, <3>3
  <2>4. ASSUME NEW v \in Workers, NEW u \in Workers, Uploading(v)', Uploading(u)', v # u,
               task'[v].cur = task'[u].cur
        PROVE  Count(v)' # Count(u)'
    BY <2>2, <2>3, <2>4 DEF RowsAreOwned, OneWorkerPerAttempt
  <2>5. ASSUME NEW v \in Workers, Uploading(v)'
        PROVE  attempts'[task'[v].cur][Count(v)'] = "STARTED"
    <3>1. CASE v = w
      BY <2>1, <2>2, <3>1 DEF OpensAttempt
    <3>2. CASE v # w
      BY <1>0, <2>1, <2>3, <2>5, <3>2 DEF OpensAttempt, RowsAreOwned
    <3> QED BY <3>1, <3>2
  <2>6. ASSUME NEW v \in Workers, task'[v].phase = "accepted"
        PROVE  Count(v)' \in posts'[task'[v].cur]
    <3>1. v # w
      BY <2>2, <2>6
    <3>2. task'[v] = task[v] /\ Count(v)' = Count(v)
      BY <2>1, <3>1 DEF OpensAttempt, OthersKeep, Count
    <3>3. UNCHANGED posts
      BY <2>1 DEF OpensAttempt
    <3> QED BY <2>6, <3>2, <3>3 DEF RowsAreOwned
  <2> QED BY <2>4, <2>5, <2>6 DEF RowsAreOwned, OneWorkerPerAttempt
<1>2. CASE \A w \in Workers : ~StartAttempt(w)
  <2>1. ASSUME NEW v \in Workers, Uploading(v)'
        PROVE  Uploading(v) /\ task'[v].cur = task[v].cur /\ Count(v)' = Count(v)
    <3>1. Uploading(v) /\ task'[v].cur = task[v].cur /\ task'[v].copy = task[v].copy
      BY <1>2, <2>1, TaskEffect DEF TaskKept
    <3> QED BY <3>1 DEF Count
  <2>2. OneWorkerPerAttempt'
    BY <2>1 DEF RowsAreOwned, OneWorkerPerAttempt
  <2>3. ASSUME NEW v \in Workers, Uploading(v)'
        PROVE  attempts'[task'[v].cur][Count(v)'] = "STARTED"
    <3>1. attempts[task[v].cur][Count(v)] = "STARTED"
      BY <2>1, <2>3 DEF RowsAreOwned
    <3>2. ASSUME NEW w \in Workers, EndsUpload(w)
          PROVE  attempts'[task[v].cur][Count(v)] = attempts[task[v].cur][Count(v)]
      <4>1. WritesOutcome(w, task[w].cur, Count(w))
        BY <3>2, OutcomeEffect
      <4>2. v # w /\ Uploading(w)
        BY <2>3, <4>1 DEF WritesOutcome
      <4>3. task[v].cur # task[w].cur \/ Count(v) # Count(w)
        BY <2>1, <2>3, <4>2 DEF RowsAreOwned, OneWorkerPerAttempt
      <4> QED BY <1>0, <2>1, <2>3, <4>1, <4>3 DEF WritesOutcome
    <3> QED BY <1>2, <2>1, <2>3, <3>1, <3>2, RowEffect
  <2>4. ASSUME NEW v \in Workers, task'[v].phase = "accepted"
        PROVE  Count(v)' \in posts'[task'[v].cur]
    <3>1. Uploading(v)'
      BY <2>4 DEF Uploading
    <3>2. task[v].phase = "accepted" => Count(v) \in posts[task[v].cur]
      BY DEF RowsAreOwned
    <3> QED BY <1>0, <2>1, <2>4, <3>1, <3>2, PostEffect
  <2> QED BY <2>2, <2>3, <2>4 DEF RowsAreOwned
<1> QED BY <1>1, <1>2

-----------------------------------------------------------------------------
(* A recorded success.                                                     *)

LEMMA RemoteStep == TypeInv /\ RowsAreOwned /\ RemoteIsReal /\ [Next]_vars => RemoteIsReal'
<1> SUFFICES ASSUME TypeInv, RowsAreOwned, RemoteIsReal, [Next]_vars, NEW r \in Requests
             PROVE  RemoteFine(r)'
  BY DEF RemoteIsReal
<1> DEFINE p == row[r].remote_post_id
<1>0. /\ p \in 0..MaxRuns /\ ClipOf[r] \in Clips
      /\ posts[r] \subseteq 1..MaxRuns /\ posts'[r] \subseteq 1..MaxRuns
  <2>1. TypeOK'
    BY NextTypeOK
  <2> QED BY PublishingAssumption, <2>1 DEF TypeInv, TypeOK, PublishRequest
<1>1. /\ row[r].status = "SUCCEEDED" => p # 0
      /\ p # 0 => p \in posts[r] /\ attempts[r][p] = "SUCCEEDED" /\ published[ClipOf[r]]
      /\ \A n \in posts[r] : attempts[r][n] # "NONE"
  BY DEF RemoteIsReal, RemoteFine
<1>2. posts[r] \subseteq posts'[r]
  BY PostEffect
<1> HIDE DEF p
<1>3. ASSUME NEW w \in Workers, StartAttempt(w) PROVE RemoteFine(r)'
  <2>1. PICK q, n : OpensAttempt(w, q, n)
    BY <1>3, StartEffect
  <2>2. /\ row'[r].remote_post_id = p /\ UNCHANGED <<posts, published>>
        /\ row'[r].status = "SUCCEEDED" => row[r].status = "SUCCEEDED"
    BY <2>1 DEF OpensAttempt, p
  <2>3. ASSUME NEW m \in 1..MaxRuns, attempts[r][m] # "NONE"
        PROVE  attempts'[r][m] = attempts[r][m]
    BY <2>1, <2>3 DEF OpensAttempt, NumberFree
  <2>4. p # 0 => p \in 1..MaxRuns
    BY <1>0, <1>1
  <2> QED BY <1>0, <1>1, <2>2, <2>3, <2>4 DEF RemoteFine
<1>4. ASSUME NEW w \in Workers, EndsUpload(w) PROVE RemoteFine(r)'
  <2> DEFINE q == task[w].cur
             n == Count(w)
  <2>1. WritesOutcome(w, q, n)
    BY <1>4, OutcomeEffect
  <2>2. /\ attempts[q][n] = "STARTED"
        /\ task[w].phase = "accepted" => n \in posts[q]
    BY <2>1 DEF WritesOutcome, RowsAreOwned
  <2> HIDE DEF q, n
  <2>3. posts'[r] = posts[r] /\ (published[ClipOf[r]] => published'[ClipOf[r]])
    BY <1>0, <2>1 DEF WritesOutcome
  <2>4. ASSUME NEW m \in 1..MaxRuns, attempts[r][m] # "NONE"
        PROVE  /\ attempts'[r][m] # "NONE"
               /\ attempts[r][m] = "SUCCEEDED" => attempts'[r][m] = "SUCCEEDED"
    BY <2>1, <2>2, <2>4 DEF WritesOutcome, Finished, Failures
  <2>5. p # 0 => p \in 1..MaxRuns
    BY <1>0, <1>1
  <2>6. CASE /\ row'[r].remote_post_id = p
             /\ row'[r].status = "SUCCEEDED" => row[r].status = "SUCCEEDED"
    BY <1>0, <1>1, <2>3, <2>4, <2>5, <2>6 DEF RemoteFine
  <2>7. CASE r = q /\ row'[r].status = "SUCCEEDED"
    <3>1. /\ row'[r].remote_post_id = n /\ n \in posts'[r] /\ n # 0
          /\ attempts'[r][n] = "SUCCEEDED" /\ published'[ClipOf[r]]
      BY <2>1, <2>2, <2>3, <2>7 DEF WritesOutcome
    <3> QED BY <1>0, <1>1, <2>3, <2>4, <3>1 DEF RemoteFine
  <2> QED BY <2>1, <2>6, <2>7 DEF WritesOutcome, p
<1>5. CASE \A w \in Workers : ~StartAttempt(w) /\ ~EndsUpload(w)
  <2>1. /\ row'[r].remote_post_id = p /\ UNCHANGED <<attempts, published>>
        /\ row'[r].status = "SUCCEEDED" => row[r].status = "SUCCEEDED"
    BY <1>5, RowEffect DEF RowKept, p
  <2>2. \A n \in posts'[r] : attempts[r][n] # "NONE"
    BY <1>0, <1>1, PostEffect DEF RowsAreOwned
  <2> QED BY <1>1, <1>2, <2>1, <2>2 DEF RemoteFine
<1> QED BY <1>3, <1>4, <1>5

-----------------------------------------------------------------------------
(* The theorems.                                                           *)

(* The inductive invariant holds of every execution of the publishing code *)
(* that the model has.                                                     *)
THEOREM IInvHolds == Spec => []IInv
<1>1. Init => IInv
  <2>1. Init => LedgerInv
    BY PublishingAssumption DEF Init, LedgerInv, AttemptLedger, CopiesLag, Idle, NoCopy
  <2>2. Init => ConfirmedInv
    BY DEF Init, ConfirmedInv, ConfirmedBeforeAttempt, Idle, NoCopy, Later
  <2>3. Init => RowsAreOwned /\ RemoteIsReal
    BY DEF Init, RowsAreOwned, OneWorkerPerAttempt, Idle, Uploading, RemoteIsReal, RemoteFine
  <2> QED BY <2>1, <2>2, <2>3, InitTypeInv DEF IInv
<1>2. IInv /\ [Next]_vars => IInv'
  BY NextTypeOK, NextTaskOK, LedgerStep, ConfirmedStep, OwnedStep, RemoteStep
  DEF IInv, TypeInv
<1> QED BY <1>1, <1>2, PTL DEF Spec

(* Every variable keeps its type.  It is not inductive by itself: that an  *)
(* attempt opened by execute_publish gets a number within the table, and   *)
(* that its outcome is written to a request, needs TaskOK.                 *)
THEOREM TypeCorrect == Spec => []TypeOK
<1>1. IInv => TypeOK
  BY DEF IInv, TypeInv
<1> QED BY <1>1, IInvHolds, PTL

(* The attempts of a request are numbered 1 to attempt_count without a gap,*)
(* whatever workers write from old copies.  A copy is never ahead of the   *)
(* row, so a number that the unique constraint leaves free to a worker is  *)
(* the next one: execute_publish's count + 1 is never a lost update.       *)
THEOREM LedgerHolds == Spec => []AttemptLedger
<1>1. IInv => AttemptLedger
  BY DEF IInv, LedgerInv
<1> QED BY <1>1, IInvHolds, PTL

(* No attempt without a confirmation: execute_publish never opens an       *)
(* attempt for a request that nobody confirmed, from whatever copy it      *)
(* works, because every status it starts from was given by a confirmation  *)
(* and a confirmation is never taken back.                                 *)
THEOREM ConfirmedHolds == Spec => []ConfirmedBeforeAttempt
<1>1. IInv => ConfirmedBeforeAttempt
  BY DEF IInv, ConfirmedInv
<1> QED BY <1>1, IInvHolds, PTL

(* Two workers never upload under one attempt number: the row that the     *)
(* unique constraint gave to one of them is STARTED until that worker ends,*)
(* so the other's commit of the same number fails before it uploads.       *)
THEOREM OneWorkerHolds == Spec => []OneWorkerPerAttempt
<1>1. IInv => OneWorkerPerAttempt
  BY DEF IInv, RowsAreOwned
<1> QED BY <1>1, IInvHolds, PTL

(* SUCCEEDED is never claimed falsely: whatever is retried, redelivered or *)
(* written from an old copy, a request that reads SUCCEEDED has the id of a*)
(* video that exists, by an attempt recorded as SUCCEEDED, and its clip is *)
(* marked as published; and no video exists without an attempt's row.      *)
THEOREM SuccessHolds == Spec => []SuccessIsReal
<1>1. IInv => SuccessIsReal
  BY DEF IInv, RemoteIsReal, RemoteFine, SuccessIsReal
<1> QED BY <1>1, IInvHolds, PTL

(* A finished attempt row is never rewritten, neither by a worker with an  *)
(* old copy nor by a redelivered message: only the worker that owns a      *)
(* STARTED row writes to it.                                               *)
THEOREM AttemptRowsFinal == Spec => AttemptRowsAreFinal
<1> DEFINE Kept == \A r \in Requests, n \in 1..MaxRuns :
             attempts[r][n] \in {"SUCCEEDED"} \cup Failures
                 => attempts'[r][n] = attempts[r][n]
<1>1. IInv /\ [Next]_vars => [Kept]_vars
  <2> SUFFICES ASSUME TypeInv, RowsAreOwned, [Next]_vars PROVE Kept
    BY DEF IInv
  <2>1. ASSUME NEW w \in Workers, StartAttempt(w) PROVE Kept
    <3>1. PICK r, n : OpensAttempt(w, r, n)
      BY <2>1, StartEffect
    <3> QED BY <3>1 DEF OpensAttempt, NumberFree, Failures
  <2>2. ASSUME NEW w \in Workers, EndsUpload(w) PROVE Kept
    <3>1. WritesOutcome(w, task[w].cur, Count(w))
      BY <2>2, OutcomeEffect
    <3>2. attempts[task[w].cur][Count(w)] = "STARTED"
      BY <3>1 DEF WritesOutcome, RowsAreOwned
    <3> QED BY <3>1, <3>2 DEF WritesOutcome, Failures
  <2>3. CASE \A w \in Workers : ~StartAttempt(w) /\ ~EndsUpload(w)
    BY <2>3, RowEffect
  <2> QED BY <2>1, <2>2, <2>3
<1> QED BY <1>1, IInvHolds, PTL DEF Spec, AttemptRowsAreFinal

(* A cancellation holds once the sessions that loaded the request before   *)
(* it are gone: confirm_publish and execute_publish, which decide by their *)
(* copies, have none left to decide by.                                    *)
THEOREM CancellationIsFinal == Spec => CancellationHolds
<1>1. TypeInv /\ [Next]_vars => [\A r \in Requests : Settled(r) => Settled(r)']_vars
  <2> SUFFICES ASSUME TypeInv, [Next]_vars, NEW r \in Requests, Settled(r)
               PROVE  Settled(r)'
    OBVIOUS
  <2>0. /\ row[r].status = "CANCELLED"
        /\ \A o \in Operators : hand[o] # [op |-> "CONFIRM", request |-> r]
        /\ \A w \in Workers : task[w].copy[r].status \notin Startable \cup {"UPLOADING"}
    BY DEF Settled
  <2>1. ASSUME NEW w \in Workers, StartAttempt(w) PROVE Settled(r)'
    <3>1. PICK q, n : OpensAttempt(w, q, n)
      BY <2>1, StartEffect
    <3>2. q # r
      BY <2>0, <3>1 DEF OpensAttempt
    <3>3. \A v \in Workers : task'[v].copy[r] = task[v].copy[r]
      BY <3>1, <3>2 DEF OpensAttempt, OthersKeep
    <3>4. row'[r] = row[r] /\ UNCHANGED hand
      BY <3>1, <3>2 DEF OpensAttempt
    <3> QED BY <2>0, <3>3, <3>4 DEF Settled
  <2>2. CASE \A w \in Workers : ~StartAttempt(w)
    <3>1. row'[r].status = "CANCELLED"
      <4>1. ASSUME NEW w \in Workers, EndsUpload(w) PROVE row'[r] = row[r]
        <5>1. WritesOutcome(w, task[w].cur, Count(w))
          BY <4>1, OutcomeEffect
        <5>2. task[w].cur # r
          BY <2>0, <5>1 DEF WritesOutcome, TypeInv, TaskOK, TaskFine
        <5> QED BY <5>1, <5>2 DEF WritesOutcome
      <4> QED BY <2>0, <2>2, <4>1, RowEffect DEF RowKept
    <3>2. ASSUME NEW w \in Workers
          PROVE  task'[w].copy[r].status \notin Startable \cup {"UPLOADING"}
      BY <2>0, <2>2, TaskEffect DEF TaskKept, NoCopy, Fresh, Startable
    <3>3. ASSUME NEW o \in Operators PROVE hand'[o] # [op |-> "CONFIRM", request |-> r]
      <4>1. ASSUME NEW u \in Operators, OperatorStep(u)
            PROVE  hand'[o] # [op |-> "CONFIRM", request |-> r]
        <5>1. hand \in [Operators -> {NoHand} \cup
                          [op : {"CONFIRM", "CANCEL", "SEND"}, request : Requests]]
          BY DEF TypeInv, TypeOK
        <5>2. ASSUME Release(u) PROVE hand'[o] # [op |-> "CONFIRM", request |-> r]
          BY <2>0, <5>1, <5>2 DEF Release, NoHand
        <5>3. ASSUME NEW what, NEW q, Hold(u, what, q), what # "CONFIRM" \/ q # r
              PROVE  hand'[o] # [op |-> "CONFIRM", request |-> r]
          BY <2>0, <5>1, <5>3 DEF Hold
        <5> QED BY <2>0, <4>1, <5>2, <5>3 DEF OperatorStep, LoadForConfirm, Confirmable,
                LoadForCancel, CommitConfirm, SendTask, CommitCancel, HandlerFails
      <4>2. ASSUME NEW w \in Workers, WorkerStep(w) PROVE UNCHANGED hand
        BY <4>2 DEF WorkerStep, TaskStep, Deliver, StartTick, Skip, Refuse, PassPreconditions,
           StartAttempt, AttemptExists, YouTubeAccepts, UploadFails, UploadSucceeds, Crash
      <4> QED BY <2>0, <4>1, <4>2 DEF Next, RequestPublish, TimePasses, ReviewDecision, vars
    <3> QED BY <3>1, <3>2, <3>3 DEF Settled
  <2> QED BY <2>1, <2>2
<1>2. Spec => []TypeInv
  BY IInvHolds, PTL DEF IInv
<1> QED BY <1>1, <1>2, PTL DEF Spec, CancellationHolds

-----------------------------------------------------------------------------
(* What a late confirmation spoils, and nothing else does.                 *)

(* A confirmation that loaded the request when nothing had been attempted, *)
(* and is committed when something has: another handler confirmed it in    *)
(* between, and a worker took it up.  It puts the row back to QUEUED or    *)
(* SCHEDULED over whatever has become of it.                               *)
LateConfirmation(o) == CommitConfirm(o) /\ row[hand[o].request].attempt_count > 0

NoLateConfirmation == [][\A o \in Operators : ~LateConfirmation(o)]_vars

NoSuccess(r) == \A n \in 1..MaxRuns : attempts[r][n] # "SUCCEEDED"

(* Nothing was attempted before a request is taken up, and what reads      *)
(* FAILED has only failed.                                                 *)
RowTells(r) ==
    /\ row[r].status \in {"ABSENT", "AWAITING_CONFIRMATION", "QUEUED", "SCHEDULED"}
          => row[r].attempt_count = 0
    /\ row[r].status = "FAILED" => NoSuccess(r)

(* An upload has the latest number.                                        *)
UploadTells(w) ==
    Uploading(w) =>
        LET r == task[w].cur
        IN  /\ Count(w) = row[r].attempt_count
            /\ row[r].status \in {"UPLOADING", "CANCELLED"}
            /\ NoSuccess(r)

(* A copy with which a worker could still open an attempt: the request is  *)
(* neither uploaded by anybody nor was it.                                 *)
CopyTells(w, r) ==
    task[w].copy[r].status \in Startable /\ task[w].copy[r].count = row[r].attempt_count =>
        /\ row[r].status \in Startable \cup {"CANCELLED"}
        /\ NoSuccess(r)
        /\ \A v \in Workers : Uploading(v) => task[v].cur # r

ExclusiveInv ==
    /\ \A r \in Requests : RowTells(r)
    /\ \A w \in Workers : UploadTells(w)
    /\ \A w \in Workers, r \in Requests : CopyTells(w, r)

(* What a session learns that loads a request now.                         *)
LEMMA FreshTells ==
  ASSUME TypeInv, LedgerInv, ExclusiveInv, NEW r \in Requests, row[r].status \in Startable
  PROVE  NoSuccess(r) /\ \A v \in Workers : Uploading(v) => task[v].cur # r
<1>1. CASE row[r].status = "FAILED"
  BY <1>1 DEF ExclusiveInv, RowTells, UploadTells
<1>2. CASE row[r].status # "FAILED"
  <2>1. row[r].attempt_count = 0
    BY <1>2 DEF Startable, ExclusiveInv, RowTells
  <2>2. NoSuccess(r)
    BY <2>1, Counts DEF NoSuccess, LedgerInv, AttemptLedger
  <2> QED BY <1>2, <2>2 DEF ExclusiveInv, UploadTells, Startable
<1> QED BY <1>1, <1>2

(* The start of an attempt: the copy it comes from says that nobody        *)
(* uploads the request, and nobody's copy allows another one.              *)
LEMMA ExclusiveStart ==
  ASSUME TypeInv, LedgerInv, ExclusiveInv, [Next]_vars,
         NEW w \in Workers, StartAttempt(w)
  PROVE  ExclusiveInv'
<1>0. /\ MaxRuns \in Nat
      /\ \A q \in Requests : row[q].attempt_count \in 0..MaxRuns
      /\ \A v \in Workers, q \in Requests : task[v].copy[q].count \in 0..MaxRuns
  BY Counts
<1>1. PICK r, n : OpensAttempt(w, r, n)
  BY StartEffect
<1>2. r \in Requests /\ n \in 1..MaxRuns /\ n = row[r].attempt_count + 1
  BY <1>0, <1>1 DEF OpensAttempt, NumberFree, LedgerInv, AttemptLedger, CopiesLag
<1>3. /\ row[r].status \in Startable \cup {"CANCELLED"}
      /\ NoSuccess(r)
      /\ \A v \in Workers : Uploading(v) => task[v].cur # r
  BY <1>0, <1>1, <1>2 DEF OpensAttempt, ExclusiveInv, CopyTells
<1>4. /\ row'[r].status = "UPLOADING" /\ row'[r].attempt_count = n
      /\ \A q \in Requests \ {r} : row'[q] = row[q] /\ (NoSuccess(q) => NoSuccess(q)')
      /\ NoSuccess(r)'
  BY <1>1, <1>3 DEF OpensAttempt, NoSuccess
<1>5. /\ Uploading(w)' /\ task'[w].cur = r /\ Count(w)' = n
      /\ \A v \in Workers \ {w} : task'[v] = task[v]
      /\ task'[w].copy[r].status = "UPLOADING"
      /\ \A q \in Requests \ {r} : task'[w].copy[q] = task[w].copy[q]
  BY <1>1 DEF OpensAttempt, OthersKeep, Uploading
<1>6. ASSUME NEW q \in Requests PROVE RowTells(q)'
  BY <1>4 DEF RowTells, ExclusiveInv
<1>7. ASSUME NEW v \in Workers PROVE UploadTells(v)'
  <2>1. CASE v = w
    BY <1>4, <1>5, <2>1 DEF UploadTells
  <2>2. ASSUME v # w, Uploading(v)' PROVE UploadTells(v)'
    <3>1. Uploading(v) /\ task'[v] = task[v]
      BY <1>5, <2>2 DEF Uploading
    <3>2. task[v].cur \in Requests \ {r}
      BY <1>3, <3>1 DEF TypeInv, TypeOK, TaskOK, TaskFine, Tasks, Uploading
    <3>3. UploadTells(v)
      BY DEF ExclusiveInv
    <3> QED BY <1>4, <3>1, <3>2, <3>3 DEF UploadTells, Count
  <2> QED BY <2>1, <2>2 DEF UploadTells
<1>8. ASSUME NEW v \in Workers, NEW q \in Requests PROVE CopyTells(v, q)'
  <2>1. CASE q = r
    <3>1. CASE v = w
      BY <1>5, <2>1, <3>1 DEF CopyTells, Startable
    <3>2. CASE v # w
      <4>1. task[v].copy[r].count <= row[r].attempt_count
        BY <1>2 DEF LedgerInv, CopiesLag
      <4>2. task'[v].copy[r].count # n
        BY <1>0, <1>2, <1>5, <3>2, <4>1
      <4> QED BY <1>4, <2>1, <4>2 DEF CopyTells
    <3> QED BY <3>1, <3>2
  <2>2. CASE q # r
    <3>1. task'[v].copy[q] = task[v].copy[q] /\ row'[q] = row[q] /\ (NoSuccess(q) => NoSuccess(q)')
      BY <1>4, <1>5, <2>2
    <3>2. ASSUME NEW u \in Workers, Uploading(u)', task'[u].cur = q
          PROVE  Uploading(u) /\ task[u].cur = q
      BY <1>5, <2>2, <3>2 DEF Uploading
    <3>3. CopyTells(v, q)
      BY DEF ExclusiveInv
    <3> QED BY <3>1, <3>2, <3>3 DEF CopyTells
  <2> QED BY <2>1, <2>2
<1> QED BY <1>6, <1>7, <1>8 DEF ExclusiveInv

(* The end of an upload: whoever uploads is the only one.                  *)
LEMMA ExclusiveEnd ==
  ASSUME TypeInv, LedgerInv, RowsAreOwned, ExclusiveInv, [Next]_vars,
         NEW w \in Workers, EndsUpload(w)
  PROVE  ExclusiveInv'
<1>0. \A v \in Workers : ~StartAttempt(v)
  <2>1. Uploading(w) /\ attempts'[task[w].cur][Count(w)] # "STARTED"
    BY OutcomeEffect DEF WritesOutcome, Finished, Failures
  <2>2. attempts[task[w].cur][Count(w)] = "STARTED"
    BY <2>1 DEF RowsAreOwned
  <2>3. ASSUME NEW v \in Workers, StartAttempt(v)
        PROVE  attempts'[task[w].cur][Count(w)] = "STARTED"
    <3>1. PICK r, n : OpensAttempt(v, r, n)
      BY <2>3, StartEffect
    <3>2. task[w].cur \in Requests /\ Count(w) \in 1..MaxRuns
      BY OutcomeEffect DEF WritesOutcome
    <3> QED BY <2>2, <3>1, <3>2 DEF OpensAttempt
  <2> QED BY <2>1, <2>3
<1>a. PICK r, n : r = task[w].cur /\ n = Count(w)
  OBVIOUS
<1>1. WritesOutcome(w, r, n)
  BY <1>a, OutcomeEffect
<1>2. /\ r \in Requests /\ Uploading(w) /\ ~Uploading(w)'
      /\ n = row[r].attempt_count
      /\ row[r].status \in {"UPLOADING", "CANCELLED"}
      /\ NoSuccess(r)
  BY <1>1, <1>a DEF WritesOutcome, ExclusiveInv, UploadTells
<1>3. /\ \A q \in Requests : row'[q].attempt_count = row[q].attempt_count
      /\ \A q \in Requests \ {r} : row'[q] = row[q] /\ (NoSuccess(q) => NoSuccess(q)')
      /\ row'[r].status \in {"SUCCEEDED", "FAILED"}
      /\ row'[r].status = "FAILED" => NoSuccess(r)'
      /\ UNCHANGED hand
  <2>1. row'[r].status = "FAILED" => attempts'[r][n] \in Failures
    BY <1>1 DEF WritesOutcome
  <2>2. \A q \in Requests \ {r} : row'[q] = row[q] /\ (NoSuccess(q) => NoSuccess(q)')
    BY <1>1 DEF WritesOutcome, NoSuccess
  <2>3. row'[r].status = "FAILED" => NoSuccess(r)'
    <3>1. \A m \in 1..MaxRuns \ {n} : attempts'[r][m] = attempts[r][m]
      BY <1>1 DEF WritesOutcome
    <3> QED BY <1>2, <2>1, <3>1 DEF NoSuccess, Failures
  <2>4. /\ \A q \in Requests : row'[q].attempt_count = row[q].attempt_count
        /\ row'[r].status \in {"SUCCEEDED", "FAILED"}
        /\ UNCHANGED hand
    BY <1>1 DEF WritesOutcome
  <2> QED BY <2>2, <2>3, <2>4
<1>4. ASSUME NEW v \in Workers
      PROVE  /\ \A q \in Requests : task'[v].copy[q] \in {task[v].copy[q], NoCopy, Fresh(q)}
             /\ Uploading(v)' => /\ Uploading(v) /\ task'[v].cur = task[v].cur
                                 /\ task'[v].copy = task[v].copy
  BY <1>0, TaskEffect DEF TaskKept
<1>5. ASSUME NEW v \in Workers, Uploading(v), v # w PROVE task[v].cur # r
  <2>1. UploadTells(v)
    BY DEF ExclusiveInv
  <2>2. task[v].cur = r => Count(v) = n
    BY <1>2, <1>5, <2>1 DEF UploadTells
  <2> QED BY <1>2, <1>5, <1>a, <2>2 DEF RowsAreOwned, OneWorkerPerAttempt
<1>6. ASSUME NEW q \in Requests PROVE RowTells(q)'
  <2>1. CASE q = r
    BY <1>3, <2>1 DEF RowTells
  <2>2. CASE q # r
    BY <1>3, <2>2 DEF RowTells, ExclusiveInv
  <2> QED BY <2>1, <2>2
<1>7. ASSUME NEW v \in Workers, Uploading(v)' PROVE UploadTells(v)'
  <2>1. v # w /\ Uploading(v) /\ task'[v].cur = task[v].cur /\ task'[v].copy = task[v].copy
    BY <1>2, <1>4, <1>7
  <2>2. task[v].cur \in Requests \ {r}
    BY <1>5, <1>a, <2>1 DEF TypeInv, TypeOK, TaskOK, TaskFine, Tasks, Uploading
  <2>3. UploadTells(v)
    BY DEF ExclusiveInv
  <2> QED BY <1>3, <2>1, <2>2, <2>3 DEF UploadTells, Count
<1>8. ASSUME NEW v \in Workers, NEW q \in Requests PROVE CopyTells(v, q)'
  <2>1. CASE q = r
    <3>1. CopyTells(v, r) /\ Uploading(w)
      BY <1>2 DEF ExclusiveInv
    <3>2. task'[v].copy[r] \in {task[v].copy[r], NoCopy, Fresh(r)}
      BY <1>2, <1>4
    <3>3. ~ (/\ task'[v].copy[r].status \in Startable
             /\ task'[v].copy[r].count = row'[r].attempt_count)
      BY <1>2, <1>3, <1>a, <3>1, <3>2 DEF CopyTells, Fresh, NoCopy, Startable
    <3> QED BY <2>1, <3>3 DEF CopyTells
  <2>2. CASE q # r
    <3>1. row'[q] = row[q] /\ (NoSuccess(q) => NoSuccess(q)')
      BY <1>3, <2>2
    <3>2. ASSUME NEW u \in Workers, Uploading(u)', task'[u].cur = q
          PROVE  Uploading(u) /\ task[u].cur = q
      BY <1>4, <3>2
    <3>3. CASE task'[v].copy[q] = task[v].copy[q]
      <4>1. CopyTells(v, q)
        BY DEF ExclusiveInv
      <4> QED BY <3>1, <3>2, <3>3, <4>1 DEF CopyTells
    <3>4. CASE task'[v].copy[q] = NoCopy
      BY <3>4 DEF CopyTells, NoCopy, Startable
    <3>5. CASE task'[v].copy[q] = Fresh(q)
      BY <3>1, <3>2, <3>5, FreshTells DEF CopyTells, Fresh
    <3> QED BY <1>4, <3>3, <3>4, <3>5
  <2> QED BY <2>1, <2>2
<1> QED BY <1>6, <1>7, <1>8 DEF ExclusiveInv, UploadTells

(* Every other step.  A confirmation that is not late finds a request that *)
(* nobody has uploaded or uploads.                                         *)
LEMMA ExclusiveElse ==
  ASSUME TypeInv, LedgerInv, ExclusiveInv, [Next]_vars,
         \A o \in Operators : ~LateConfirmation(o),
         \A w \in Workers : ~StartAttempt(w) /\ ~EndsUpload(w)
  PROVE  ExclusiveInv'
<1>0. \A q \in Requests : MaxRuns \in Nat /\ row[q].attempt_count \in 0..MaxRuns
  BY Counts
<1>1. /\ \A q \in Requests : NoSuccess(q) => NoSuccess(q)'
      /\ \A q \in Requests : RowKept(q)
  BY RowEffect DEF NoSuccess
<1>2. ASSUME NEW q \in Requests
      PROVE  /\ row'[q].attempt_count = row[q].attempt_count
             /\ \/ row'[q].status = row[q].status
                \/ row[q].status = "ABSENT" /\ row'[q].status = "AWAITING_CONFIRMATION"
                \/ row[q].attempt_count = 0 /\ row'[q].status \in {"QUEUED", "SCHEDULED"}
                \/ row'[q].status = "CANCELLED"
  <2>1. ASSUME NEW o \in Operators, CommitConfirm(o),
               hand[o] = [op |-> "CONFIRM", request |-> q]
        PROVE  row[q].attempt_count = 0
    BY <1>0, <2>1 DEF LateConfirmation
  <2> QED BY <1>1, <2>1 DEF RowKept
<1>3. ASSUME NEW v \in Workers
      PROVE  /\ \A q \in Requests : task'[v].copy[q] \in {task[v].copy[q], NoCopy, Fresh(q)}
             /\ Uploading(v)' => /\ Uploading(v) /\ task'[v].cur = task[v].cur
                                 /\ task'[v].copy = task[v].copy
  BY TaskEffect DEF TaskKept
<1>a. ASSUME NEW q \in Requests, row[q].attempt_count = 0
      PROVE  NoSuccess(q) /\ \A v \in Workers : Uploading(v) => task[v].cur # q
  <2>1. NoSuccess(q)
    BY <1>0, <1>a DEF NoSuccess, LedgerInv, AttemptLedger
  <2>2. ASSUME NEW v \in Workers, Uploading(v) PROVE task[v].cur # q
    BY <1>a, <2>2 DEF ExclusiveInv, UploadTells, TypeInv, TaskOK, TaskFine
  <2> QED BY <2>1, <2>2
<1>4. ASSUME NEW q \in Requests PROVE RowTells(q)'
  <2>1. RowTells(q)
    BY DEF ExclusiveInv
  <2> QED BY <1>1, <1>2, <2>1 DEF RowTells
<1>5. ASSUME NEW v \in Workers, Uploading(v)' PROVE UploadTells(v)'
  <2>1. Uploading(v) /\ task'[v].cur = task[v].cur /\ task'[v].copy = task[v].copy
    BY <1>3, <1>5
  <2>2. task[v].cur \in Requests
    BY <2>1 DEF TypeInv, TypeOK, TaskOK, TaskFine, Tasks, Uploading
  <2>3. UploadTells(v) /\ row[task[v].cur].attempt_count # 0
    BY <1>a, <2>1, <2>2 DEF ExclusiveInv
  <2> QED BY <1>1, <1>2, <2>1, <2>2, <2>3 DEF UploadTells, Count
<1>6. ASSUME NEW v \in Workers, NEW q \in Requests PROVE CopyTells(v, q)'
  <2>1. ASSUME NEW u \in Workers, Uploading(u)', task'[u].cur = q
        PROVE  Uploading(u) /\ task[u].cur = q
    BY <1>3, <2>1
  <2>2. row[q].status \in Startable \cup {"CANCELLED"}
           => row'[q].status \in Startable \cup {"CANCELLED"}
    BY <1>2 DEF Startable
  <2>3. CASE task'[v].copy[q] = task[v].copy[q]
    <3>1. CopyTells(v, q)
      BY DEF ExclusiveInv
    <3> QED BY <1>1, <1>2, <2>1, <2>2, <2>3, <3>1 DEF CopyTells
  <2>4. CASE task'[v].copy[q] = NoCopy
    BY <2>4 DEF CopyTells, NoCopy, Startable
  <2>5. CASE task'[v].copy[q] = Fresh(q)
    BY <1>1, <2>1, <2>2, <2>5, FreshTells DEF CopyTells, Fresh
  <2> QED BY <1>3, <2>3, <2>4, <2>5
<1> QED BY <1>4, <1>5, <1>6 DEF ExclusiveInv, UploadTells

(* Whatever handlers run side by side, messages are redelivered, ticks     *)
(* overlap and workers crash: a request is uploaded by one worker at a     *)
(* time, and never again after a recorded success, unless a late           *)
(* confirmation puts it back.  An upload has the latest attempt number, so *)
(* it excludes every copy with which execute_publish could open the next   *)
(* one.                                                                    *)
THEOREM UploadIsExclusive == Spec /\ NoLateConfirmation => []ExclusiveUpload
<1>1. Init => ExclusiveInv
  BY DEF Init, ExclusiveInv, RowTells, UploadTells, CopyTells, Idle, NoCopy, Startable, Uploading
<1>2. /\ IInv /\ ExclusiveInv /\ [Next]_vars
      /\ [\A o \in Operators : ~LateConfirmation(o)]_vars
      => ExclusiveInv'
  <2>1. CASE UNCHANGED vars
    BY <2>1 DEF vars, ExclusiveInv, RowTells, NoSuccess, UploadTells, CopyTells, Uploading, Count
  <2> QED BY <2>1, ExclusiveStart, ExclusiveEnd, ExclusiveElse DEF IInv
<1>3. IInv /\ ExclusiveInv => ExclusiveUpload
  <2> SUFFICES ASSUME IInv, ExclusiveInv, NEW w \in Workers, Uploading(w)
               PROVE  /\ \A v \in Workers : Uploading(v) /\ task[v].cur = task[w].cur => v = w
                      /\ NoSuccess(task[w].cur)
    BY DEF ExclusiveUpload, NoSuccess
  <2> QED BY DEF IInv, RowsAreOwned, OneWorkerPerAttempt, ExclusiveInv, UploadTells
<1> QED BY <1>1, <1>2, <1>3, IInvHolds, PTL DEF Spec, NoLateConfirmation

-----------------------------------------------------------------------------
(* The refinement.                                                         *)

LEMMA LedgerInit == Init => Ledger!Init
  BY DEF Init, Ledger!Init

(* A step that touches neither the attempts nor the posts nor a            *)
(* confirmation is a stuttering step of the ledger.                        *)
LEMMA LedgerStutter ==
  ASSUME UNCHANGED <<attempts, posts>>,
         \A r \in Requests : row'[r].confirmed = row[r].confirmed
  PROVE  UNCHANGED Ledger!vars
  BY DEF Ledger!vars

LEMMA LedgerOpens ==
  ASSUME TypeInv, LedgerInv, ConfirmedInv, NEW w \in Workers, StartAttempt(w)
  PROVE  Ledger!Open(task[w].cur, Count(w) + 1) /\ task[w].cur \in Requests
                                               /\ Count(w) + 1 \in 1..MaxRuns
<1> DEFINE r == task[w].cur
           n == Count(w) + 1
<1>1. OpensAttempt(w, r, n)
  BY StartEffect
<1>2. /\ attempts' = [attempts EXCEPT ![r][n] = "STARTED"]
      /\ UNCHANGED posts
  BY DEF StartAttempt
<1> HIDE DEF r, n
<1>3. row[r].confirmed /\ r \in Requests /\ n \in 1..MaxRuns
  BY <1>1 DEF OpensAttempt, ConfirmedInv, Startable, Later
<1>4. n = row[r].attempt_count + 1 /\ row[r].attempt_count \in Nat /\ MaxRuns \in Nat
  BY <1>1, Counts DEF OpensAttempt, NumberFree, LedgerInv, AttemptLedger, CopiesLag
<1>5. \A m \in 1..MaxRuns : attempts[r][m] = "NONE" <=> m >= n
  BY <1>3, <1>4 DEF LedgerInv, AttemptLedger
<1>6. \A q \in Requests : row'[q].confirmed = row[q].confirmed
  BY <1>1 DEF OpensAttempt
<1>7. Ledger!Open(r, n)
  BY <1>2, <1>3, <1>5, <1>6 DEF Ledger!Open
<1> QED BY <1>3, <1>7 DEF r, n

LEMMA LedgerCloses ==
  ASSUME TypeInv, RowsAreOwned, NEW w \in Workers, EndsUpload(w)
  PROVE  Ledger!Close(task[w].cur, Count(w)) /\ task[w].cur \in Requests
                                            /\ Count(w) \in 1..MaxRuns
<1> DEFINE r == task[w].cur
           n == Count(w)
<1>1. WritesOutcome(w, r, n)
  BY OutcomeEffect
<1>2. /\ attempts[r][n] = "STARTED"
      /\ task[w].phase = "accepted" => n \in posts[r]
  BY <1>1 DEF WritesOutcome, RowsAreOwned
<1>3. \E outcome \in Failures \cup {"SUCCEEDED"} :
         /\ outcome = "SUCCEEDED" => n \in posts[r]
         /\ attempts' = [attempts EXCEPT ![r][n] = outcome]
  <2>1. CASE UploadSucceeds(w)
    BY <1>2, <2>1 DEF UploadSucceeds, VideoReturned
  <2>2. ASSUME NEW category \in Failures, UploadFails(w, category)
        PROVE  \E outcome \in Failures \cup {"SUCCEEDED"} :
                 /\ outcome = "SUCCEEDED" => n \in posts[r]
                 /\ attempts' = [attempts EXCEPT ![r][n] = outcome]
    BY <2>2 DEF UploadFails, Failures
  <2> QED BY <2>1, <2>2 DEF EndsUpload
<1> HIDE DEF r, n
<1>4. r \in Requests /\ n \in 1..MaxRuns /\ UNCHANGED posts
      /\ \A q \in Requests : row'[q].confirmed = row[q].confirmed
  BY <1>1 DEF WritesOutcome
<1>5. Ledger!Close(r, n)
  BY <1>2, <1>3, <1>4 DEF Ledger!Close
<1> QED BY <1>4, <1>5 DEF r, n

LEMMA LedgerPosts ==
  ASSUME TypeInv, RowsAreOwned, NEW w \in Workers, YouTubeAccepts(w)
  PROVE  Ledger!Post(task[w].cur, Count(w)) /\ task[w].cur \in Requests
                                           /\ Count(w) \in 1..MaxRuns
<1>1. Uploading(w)
  BY DEF YouTubeAccepts, Uploading
<1>2. task[w].cur \in Requests /\ Count(w) \in 1..MaxRuns
  BY PublishingAssumption, <1>1
  DEF TypeInv, TypeOK, TaskOK, TaskFine, Tasks, Copies, Uploading, Count
<1>3. attempts[task[w].cur][Count(w)] = "STARTED"
  BY <1>1 DEF RowsAreOwned
<1> QED BY <1>2, <1>3 DEF YouTubeAccepts, Ledger!Post

(* What an operator does is a confirmation or nothing to the ledger.       *)
LEMMA LedgerConfirms ==
  ASSUME TypeInv, NEW o \in Operators, OperatorStep(o)
  PROVE  (\E r \in Requests : Ledger!Confirm(r)) \/ UNCHANGED Ledger!vars
<1>0. row \in [Requests -> PublishRequest]
  BY DEF TypeInv, TypeOK
<1>1. CASE CommitConfirm(o)
  <2> DEFINE r == hand[o].request
             s == ConfirmedStatus(r)
  <2>1. r \in Requests
    BY <1>1 DEF CommitConfirm, TypeInv, TypeOK, NoHand
  <2>2. /\ row' = [row EXCEPT ![r].confirmed = TRUE, ![r].status = s]
        /\ UNCHANGED <<attempts, posts>>
    BY <1>1 DEF CommitConfirm
  <2> HIDE DEF r, s
  <2>3. row'[r].confirmed /\ \A q \in Requests \ {r} : row'[q] = row[q]
    BY <1>0, <2>1, <2>2 DEF PublishRequest
  <2>4. {q \in Requests : row'[q].confirmed} = {q \in Requests : row[q].confirmed} \cup {r}
    BY <2>1, <2>3
  <2>5. \E q \in Requests : Ledger!Confirm(q)
    BY <2>1, <2>2, <2>4 DEF Ledger!Confirm
  <2> QED BY <2>5
<1>2. CASE CommitCancel(o)
  <2>1. hand[o].request \in Requests
    BY <1>2 DEF CommitCancel, TypeInv, TypeOK, NoHand
  <2>2. /\ row' = [row EXCEPT ![hand[o].request].status = "CANCELLED",
                              ![hand[o].request].cancelled_before_upload = TRUE]
        /\ UNCHANGED <<attempts, posts>>
    BY <1>2 DEF CommitCancel
  <2>3. \A r \in Requests : row'[r].confirmed = row[r].confirmed
    BY <1>0, <2>1, <2>2 DEF PublishRequest
  <2> QED BY <2>2, <2>3, LedgerStutter
<1>3. CASE UNCHANGED <<row, attempts, posts>>
  BY <1>3, LedgerStutter
<1> QED BY <1>1, <1>2, <1>3 DEF OperatorStep, LoadForConfirm, LoadForCancel, SendTask,
           HandlerFails

LEMMA LedgerStepSimulates == IInv /\ [Next]_vars => [Ledger!Next]_(Ledger!vars)
<1> SUFFICES ASSUME TypeInv, LedgerInv, ConfirmedInv, RowsAreOwned, [Next]_vars
             PROVE  Ledger!Next \/ UNCHANGED Ledger!vars
  BY DEF IInv
<1>0. row \in [Requests -> PublishRequest]
  BY DEF TypeInv, TypeOK
<1>1. ASSUME NEW r \in Requests, RequestPublish(r) PROVE UNCHANGED Ledger!vars
  <2>1. PICK time \in {"NONE", "LATER"} :
          row' = [row EXCEPT ![r].status = "AWAITING_CONFIRMATION", ![r].scheduled_for = time]
    BY <1>1 DEF RequestPublish, InitialStatus
  <2>2. \A q \in Requests : row'[q].confirmed = row[q].confirmed
    BY <1>0, <2>1 DEF PublishRequest
  <2> QED BY <1>1, <2>2, LedgerStutter DEF RequestPublish
<1>2. ASSUME NEW r \in Requests, TimePasses(r) PROVE UNCHANGED Ledger!vars
  <2>1. \A q \in Requests : row'[q].confirmed = row[q].confirmed
    <3>1. CASE row' = [row EXCEPT ![r].scheduled_for = "DUE"]
      BY <1>0, <3>1 DEF PublishRequest
    <3>2. CASE row' = [row EXCEPT ![r].next_attempt_at = "DUE"]
      BY <1>0, <3>2 DEF PublishRequest
    <3> QED BY <1>2, <3>1, <3>2 DEF TimePasses
  <2> QED BY <1>2, <2>1, LedgerStutter DEF TimePasses
<1>3. ASSUME NEW o \in Operators, OperatorStep(o)
      PROVE  Ledger!Next \/ UNCHANGED Ledger!vars
  BY <1>3, LedgerConfirms DEF Ledger!Next
<1>4. ASSUME NEW w \in Workers, WorkerStep(w) PROVE Ledger!Next \/ UNCHANGED Ledger!vars
  <2>1. CASE StartAttempt(w)
    BY <2>1, LedgerOpens DEF Ledger!Next
  <2>2. CASE EndsUpload(w)
    BY <2>2, LedgerCloses DEF Ledger!Next
  <2>3. CASE YouTubeAccepts(w)
    BY <2>3, LedgerPosts DEF Ledger!Next
  <2>4. CASE UNCHANGED <<row, attempts, posts>>
    BY <2>4, LedgerStutter
  <2> QED BY <1>4, <2>1, <2>2, <2>3, <2>4
          DEF WorkerStep, TaskStep, EndsUpload, Deliver, StartTick, Skip, Refuse,
              PassPreconditions, AttemptExists, Crash
<1>5. CASE UNCHANGED <<row, attempts, posts>>
  BY <1>5, LedgerStutter
<1> QED BY <1>1, <1>2, <1>3, <1>4, <1>5 DEF Next, ReviewDecision, vars

(* execute_publish, confirm_publish and the tasks implement the ledger:    *)
(* numbers without a gap, confirmation first, a video only under an open   *)
(* attempt and one outcome per attempt, for any number of workers and      *)
(* operators and any interleaving of their sessions.                       *)
THEOREM LedgerImplemented == Spec => ImplementsLedger
<1>1. Init => Ledger!Init
  BY LedgerInit
<1>2. IInv /\ [Next]_vars => [Ledger!Next]_(Ledger!vars)
  BY LedgerStepSimulates
<1> QED BY <1>1, <1>2, IInvHolds, PTL DEF Spec, ImplementsLedger, Ledger!Spec
=============================================================================
