---------------------------- MODULE TikTokProofs ----------------------------
(***************************************************************************)
(* Proofs about TikTokPublishing, for any number of requests, operators,   *)
(* workers and polls, any bounds, and any number of crashes and repeated   *)
(* messages.                                                               *)
(*                                                                         *)
(* The types hold whatever happens.  What a request says of its video holds*)
(* as long as no late write spoils it (NoLateWrite): a confirmation that is*)
(* committed after the first attempt, or a poll's answer after the attempt *)
(* it is about, does transfer a request twice.  Whatever else handlers,    *)
(* polls and tasks do to one request side by side is covered.  The argument*)
(* is that whoever may still open or finish an attempt excludes who else   *)
(* could: a task that still may start has the attempts as they are and a   *)
(* request that nothing was delivered for; while one sends, the request is *)
(* in a state that neither a task nor a poll takes up; and a poll that has *)
(* the last attempt has one that nobody is sending.                        *)
(***************************************************************************)
EXTENDS TikTokPublishing, FiniteSetTheorems, TLAPS

Sending == {"init", "transfer", "received"}

(* A copy is never ahead of its row; a task that has opened an attempt     *)
(* counts it, and one that has not yet leaves room for it.                 *)
TasksCount ==
    \A w \in Workers : task[w].phase \in Phases =>
        /\ task[w].count <= row[task[w].request].attempt_count
        /\ IF task[w].phase \in Sending THEN task[w].count # 0 ELSE task[w].count < MaxRuns

Types == TypeOK /\ TasksCount

LEMMA InitTypes ==
  Init => Types
  BY TikTokAssumption
  DEF Init, Types, TypeOK, TasksCount, PublishRequest, Statuses, Modes, PublishAttempt, Remote,
      Idle, NoHand, NoPoll, Phases

(* A step that writes one request's row, its status and whatever else.     *)
RowBecomes(r, status, count, id) ==
    /\ row' \in [Requests -> PublishRequest]
    /\ \A q \in Requests \ {r} : row'[q] = row[q]
    /\ row'[r].status = status
    /\ row'[r].attempt_count = count
    /\ row'[r].remote_post_id = id

LEMMA WrittenRow ==
  ASSUME row \in [Requests -> PublishRequest], NEW r \in Requests, NEW q \in PublishRequest,
         row' = [row EXCEPT ![r] = q]
  PROVE  RowBecomes(r, q.status, q.attempt_count, q.remote_post_id) /\ row'[r] = q
  BY DEF RowBecomes

LEMMA StatusWritten ==
  ASSUME row \in [Requests -> PublishRequest], NEW r \in Requests, NEW status \in Statuses,
         row' = [row EXCEPT ![r].status = status]
  PROVE  /\ RowBecomes(r, status, row[r].attempt_count, row[r].remote_post_id)
         /\ row'[r].posted = row[r].posted
<1>1. PICK q : q = [row[r] EXCEPT !.status = status]
  OBVIOUS
<1>2. q \in PublishRequest
  BY <1>1 DEF PublishRequest
<1>3. row' = [row EXCEPT ![r] = q]
  BY <1>1
<1> QED BY <1>1, <1>2, <1>3, WrittenRow DEF PublishRequest

LEMMA ConfirmWritten ==
  ASSUME row \in [Requests -> PublishRequest], NEW r \in Requests,
         row' = [row EXCEPT ![r].confirmed = TRUE, ![r].status = "QUEUED"]
  PROVE  RowBecomes(r, "QUEUED", row[r].attempt_count, row[r].remote_post_id)
<1>1. PICK q : q = [row[r] EXCEPT !.confirmed = TRUE, !.status = "QUEUED"]
  OBVIOUS
<1>2. q \in PublishRequest
  BY <1>1 DEF PublishRequest, Statuses
<1>3. row' = [row EXCEPT ![r] = q]
  BY <1>1
<1> QED BY <1>1, <1>2, <1>3, WrittenRow DEF PublishRequest

LEMMA CancelWritten ==
  ASSUME row \in [Requests -> PublishRequest], NEW r \in Requests,
         row' = [row EXCEPT ![r].status = "CANCELLED", ![r].cancelled_before_upload = TRUE]
  PROVE  RowBecomes(r, "CANCELLED", row[r].attempt_count, row[r].remote_post_id)
<1>1. PICK q : q = [row[r] EXCEPT !.status = "CANCELLED", !.cancelled_before_upload = TRUE]
  OBVIOUS
<1>2. q \in PublishRequest
  BY <1>1 DEF PublishRequest, Statuses
<1>3. row' = [row EXCEPT ![r] = q]
  BY <1>1
<1> QED BY <1>1, <1>2, <1>3, WrittenRow DEF PublishRequest

LEMMA DraftWritten ==
  ASSUME row \in [Requests -> PublishRequest], NEW r \in Requests, NEW posted \in BOOLEAN,
         NEW status \in Statuses,
         row' = [row EXCEPT ![r].posted = posted, ![r].status = status]
  PROVE  /\ RowBecomes(r, status, row[r].attempt_count, row[r].remote_post_id)
         /\ row'[r].posted = posted
<1>1. PICK q : q = [row[r] EXCEPT !.posted = posted, !.status = status]
  OBVIOUS
<1>2. q \in PublishRequest
  BY <1>1 DEF PublishRequest
<1>3. row' = [row EXCEPT ![r] = q]
  BY <1>1
<1> QED BY <1>1, <1>2, <1>3, WrittenRow DEF PublishRequest

LEMMA AttemptWritten ==
  ASSUME row \in [Requests -> PublishRequest], NEW r \in Requests, NEW n \in 0..MaxRuns,
         row' = [row EXCEPT ![r].status = "INITIALIZING", ![r].attempt_count = n]
  PROVE  RowBecomes(r, "INITIALIZING", n, row[r].remote_post_id)
<1>1. PICK q : q = [row[r] EXCEPT !.status = "INITIALIZING", !.attempt_count = n]
  OBVIOUS
<1>2. q \in PublishRequest
  BY <1>1 DEF PublishRequest, Statuses
<1>3. row' = [row EXCEPT ![r] = q]
  BY <1>1
<1> QED BY <1>1, <1>2, <1>3, WrittenRow DEF PublishRequest

LEMMA IdWritten ==
  ASSUME row \in [Requests -> PublishRequest], NEW r \in Requests, NEW n \in 0..MaxRuns,
         row' = [row EXCEPT ![r].status = "TRANSFERRING", ![r].remote_post_id = n]
  PROVE  RowBecomes(r, "TRANSFERRING", row[r].attempt_count, n)
<1>1. PICK q : q = [row[r] EXCEPT !.status = "TRANSFERRING", !.remote_post_id = n]
  OBVIOUS
<1>2. q \in PublishRequest
  BY <1>1 DEF PublishRequest, Statuses
<1>3. row' = [row EXCEPT ![r] = q]
  BY <1>1
<1> QED BY <1>1, <1>2, <1>3, WrittenRow DEF PublishRequest

-----------------------------------------------------------------------------
(* What each step that writes rows does to them.                           *)

LEMMA HandlerEffect ==
  ASSUME Types, NEW o \in Operators
  PROVE  /\ CommitConfirm(o) =>
              RowBecomes(hand[o].request, "QUEUED", row[hand[o].request].attempt_count,
                         row[hand[o].request].remote_post_id)
         /\ CommitCancel(o) =>
              RowBecomes(hand[o].request, "CANCELLED", row[hand[o].request].attempt_count,
                         row[hand[o].request].remote_post_id)
         /\ CompleteDraft(o) =>
              \E status \in {"SUCCEEDED", "CANCELLED"} :
                 /\ RowBecomes(hand[o].request, status, row[hand[o].request].attempt_count,
                               row[hand[o].request].remote_post_id)
                 /\ status = "SUCCEEDED" => row'[hand[o].request].posted
         /\ hand[o].op # "IDLE" => hand[o].request \in Requests
<1>0. row \in [Requests -> PublishRequest] /\ hand[o] \in {NoHand} \cup Hands
  BY DEF Types, TypeOK
<1>1. hand[o].op # "IDLE" => hand[o].request \in Requests
  BY <1>0 DEF NoHand, Hands
<1>2. ASSUME CommitConfirm(o)
      PROVE  RowBecomes(hand[o].request, "QUEUED", row[hand[o].request].attempt_count,
                        row[hand[o].request].remote_post_id)
  BY <1>0, <1>1, <1>2, ConfirmWritten DEF CommitConfirm
<1>3. ASSUME CommitCancel(o)
      PROVE  RowBecomes(hand[o].request, "CANCELLED", row[hand[o].request].attempt_count,
                        row[hand[o].request].remote_post_id)
  BY <1>0, <1>1, <1>3, CancelWritten DEF CommitCancel
<1>4. ASSUME CompleteDraft(o)
      PROVE  \E status \in {"SUCCEEDED", "CANCELLED"} :
                 /\ RowBecomes(hand[o].request, status, row[hand[o].request].attempt_count,
                               row[hand[o].request].remote_post_id)
                 /\ status = "SUCCEEDED" => row'[hand[o].request].posted
  <2>1. PICK r \in Requests : r = hand[o].request
    BY <1>1, <1>4 DEF CompleteDraft
  <2>2. CASE hand[o].op = "POSTED"
    <3>1. row' = [row EXCEPT ![r].posted = TRUE, ![r].status = "SUCCEEDED"]
      BY <1>4, <2>1, <2>2 DEF CompleteDraft
    <3>2. /\ RowBecomes(r, "SUCCEEDED", row[r].attempt_count, row[r].remote_post_id)
          /\ row'[r].posted
      BY <1>0, <3>1, DraftWritten DEF Statuses
    <3> QED BY <2>1, <3>2
  <2>3. CASE hand[o].op # "POSTED"
    <3>1. row' = [row EXCEPT ![r].posted = FALSE, ![r].status = "CANCELLED"]
      BY <1>4, <2>1, <2>3 DEF CompleteDraft
    <3>2. RowBecomes(r, "CANCELLED", row[r].attempt_count, row[r].remote_post_id)
      BY <1>0, <3>1, DraftWritten DEF Statuses
    <3> QED BY <2>1, <3>2
  <2> QED BY <2>2, <2>3
<1> QED BY <1>1, <1>2, <1>3, <1>4

(* A task that starts an attempt, with its copy.                           *)
LEMMA StartEffect ==
  ASSUME Types, NEW w \in Workers, StartAttempt(w)
  PROVE  \E r \in Requests, n \in 1..MaxRuns :
            /\ task[w].request = r /\ task[w].count = n - 1 /\ task[w].phase = "start"
            /\ row[r].attempt_count = n - 1
            /\ RowBecomes(r, "INITIALIZING", n, row[r].remote_post_id)
            /\ attempts' = [attempts EXCEPT ![r][n] = "STARTED"]
            /\ task' = [task EXCEPT ![w] = [phase |-> "init", request |-> r,
                                            status |-> "INITIALIZING", count |-> n]]
            /\ UNCHANGED <<remote, cleared, messages, hand, poll, crashes>>
<1>0. row \in [Requests -> PublishRequest] /\ task[w] \in {Idle} \cup Transfers
  BY DEF Types, TypeOK
<1>1. /\ task[w].request \in Requests /\ task[w].count \in 0..MaxRuns
      /\ task[w].count < MaxRuns /\ task[w].phase = "start"
      /\ task[w].count <= row[task[w].request].attempt_count
  BY <1>0 DEF StartAttempt, Types, TasksCount, Idle, Transfers, Phases, Sending
<1>2. PICK r \in Requests, n \in 1..MaxRuns : r = task[w].request /\ n = task[w].count + 1
  BY <1>1, TikTokAssumption
<1>3. row' = [row EXCEPT ![r].status = "INITIALIZING", ![r].attempt_count = n]
  BY <1>2 DEF StartAttempt
<1>4. RowBecomes(r, "INITIALIZING", n, row[r].remote_post_id)
  <2>1. n \in 0..MaxRuns
    OBVIOUS
  <2> QED BY <1>0, <1>3, <2>1, AttemptWritten
<1>5. attempts[r][n] = "NONE"
  BY <1>2 DEF StartAttempt, NumberFree
<1>6. row[r].attempt_count = n - 1
  <2>1. row[r].attempt_count \in 0..MaxRuns
    BY <1>0 DEF PublishRequest
  <2>2. ~(n <= row[r].attempt_count)
    BY <1>5 DEF Types, TypeOK
  <2>3. n - 1 <= row[r].attempt_count
    BY <1>1, <1>2
  <2> QED BY <2>1, <2>2, <2>3, TikTokAssumption
<1>7. task[w].count = n - 1
  BY <1>1, <1>2
<1>8. /\ attempts' = [attempts EXCEPT ![r][n] = "STARTED"]
      /\ task' = [task EXCEPT ![w] = [phase |-> "init", request |-> r,
                                      status |-> "INITIALIZING", count |-> n]]
      /\ UNCHANGED <<remote, cleared, messages, hand, poll, crashes>>
  BY <1>2 DEF StartAttempt
<1> QED BY <1>1, <1>2, <1>4, <1>6, <1>7, <1>8

(* The attempt a task sends.                                               *)
LEMMA Attempted ==
  ASSUME Types, NEW w \in Workers, task[w].phase \in Sending
  PROVE  /\ task[w] \in Transfers
         /\ task[w].request \in Requests /\ task[w].count \in 1..MaxRuns
         /\ task[w].count <= row[task[w].request].attempt_count
<1>1. task[w] \in {Idle} \cup Transfers
  BY DEF Types, TypeOK
<1>2. task[w] \in Transfers
  BY <1>1 DEF Idle, Sending
<1>3. /\ task[w].count \in 0..MaxRuns /\ task[w].count # 0
      /\ task[w].count <= row[task[w].request].attempt_count
  BY <1>2 DEF Transfers, Types, TasksCount, Sending, Phases
<1> QED BY <1>2, <1>3, TikTokAssumption DEF Transfers

LEMMA InitializeEffect ==
  ASSUME Types, NEW w \in Workers, Initialize(w)
  PROVE  \E r \in Requests, n \in 1..MaxRuns, t \in Transfers :
            /\ task[w].request = r /\ task[w].count = n /\ task[w].phase = "init"
            /\ RowBecomes(r, "TRANSFERRING", row[r].attempt_count, n)
            /\ remote' = [remote EXCEPT ![r][n] = "OPEN"]
            /\ t.phase = "transfer" /\ t.request = r /\ t.count = n
            /\ task' = [task EXCEPT ![w] = t]
            /\ UNCHANGED <<attempts, cleared, messages, hand, poll, crashes>>
<1>1. task[w].phase = "init"
  BY DEF Initialize
<1>2. PICK r \in Requests, n \in 1..MaxRuns : r = task[w].request /\ n = task[w].count
  BY <1>1, Attempted DEF Sending
<1>3. row' = [row EXCEPT ![r].status = "TRANSFERRING", ![r].remote_post_id = n]
  BY <1>2 DEF Initialize
<1>4. RowBecomes(r, "TRANSFERRING", row[r].attempt_count, n)
  <2>1. n \in 0..MaxRuns /\ row \in [Requests -> PublishRequest]
    BY DEF Types, TypeOK
  <2> QED BY <1>3, <2>1, IdWritten
<1>5. PICK t : t = [task[w] EXCEPT !.phase = "transfer", !.status = "TRANSFERRING"]
  OBVIOUS
<1>6. /\ t \in Transfers
      /\ t.phase = "transfer" /\ t.request = r /\ t.count = n
  <2>1. task[w] \in Transfers
    BY <1>1, Attempted DEF Sending
  <2> QED BY <1>2, <1>5, <2>1 DEF Transfers, Phases, Statuses
<1>7. task' = [task EXCEPT ![w] = t]
  BY <1>5 DEF Initialize
<1> QED BY <1>1, <1>2, <1>4, <1>6, <1>7 DEF Initialize

LEMMA ReceivesEffect ==
  ASSUME Types, NEW w \in Workers, TikTokReceives(w)
  PROVE  \E r \in Requests, n \in 1..MaxRuns, t \in Transfers :
            /\ task[w].request = r /\ task[w].count = n /\ task[w].phase = "transfer"
            /\ remote' = [remote EXCEPT ![r][n] = "RECEIVED"]
            /\ t.phase = "received" /\ t.request = r /\ t.count = n
            /\ task' = [task EXCEPT ![w] = t]
            /\ UNCHANGED <<row, attempts, cleared, messages, hand, poll, crashes>>
<1>1. task[w].phase = "transfer"
  BY DEF TikTokReceives
<1>2. PICK r \in Requests, n \in 1..MaxRuns : r = task[w].request /\ n = task[w].count
  BY <1>1, Attempted DEF Sending
<1>3. PICK t : t = [task[w] EXCEPT !.phase = "received"]
  OBVIOUS
<1>4. /\ t \in Transfers
      /\ t.phase = "received" /\ t.request = r /\ t.count = n
  <2>1. task[w] \in Transfers
    BY <1>1, Attempted DEF Sending
  <2> QED BY <1>2, <1>3, <2>1 DEF Transfers, Phases
<1>5. task' = [task EXCEPT ![w] = t] /\ remote' = [remote EXCEPT ![r][n] = "RECEIVED"]
  BY <1>2, <1>3 DEF TikTokReceives
<1> QED BY <1>1, <1>2, <1>4, <1>5 DEF TikTokReceives

(* The two ends of a transfer.                                             *)
LEMMA EndsEffect ==
  ASSUME Types, NEW w \in Workers, TransferFails(w) \/ TransferSucceeds(w)
  PROVE  \E r \in Requests, n \in 1..MaxRuns, status \in Statuses, outcome \in PublishAttempt :
            /\ task[w].request = r /\ task[w].count = n /\ task[w].phase \in Sending
            /\ outcome # "NONE"
            /\ RowBecomes(r, status, row[r].attempt_count, row[r].remote_post_id)
            /\ attempts' = [attempts EXCEPT ![r][n] = outcome]
            /\ task' = [task EXCEPT ![w] = Idle]
            /\ UNCHANGED <<remote, cleared, messages, hand, poll, crashes>>
            /\ \/ status = "FAILED" /\ task[w].phase \in {"init", "transfer"}
               \/ /\ status \in {"UNKNOWN_REMOTE_OUTCOME", "PROCESSING"}
                  /\ task[w].phase \in {"transfer", "received"}
                  /\ outcome # "DRAFT_TRANSFERRED"
               \/ /\ status = "OPERATOR_COMPLETION_REQUIRED" /\ outcome = "DRAFT_TRANSFERRED"
                  /\ task[w].phase = "received"
<1>1. task[w].phase \in Sending
  BY DEF TransferFails, TransferSucceeds, Sending
<1>2. PICK r \in Requests, n \in 1..MaxRuns : r = task[w].request /\ n = task[w].count
  BY <1>1, Attempted
<1>3. PICK status \in Statuses, outcome \in PublishAttempt :
         /\ outcome # "NONE"
         /\ row' = [row EXCEPT ![r].status = status]
         /\ attempts' = [attempts EXCEPT ![r][n] = outcome]
         /\ \/ status = "FAILED" /\ task[w].phase \in {"init", "transfer"}
            \/ /\ status \in {"UNKNOWN_REMOTE_OUTCOME", "PROCESSING"}
               /\ task[w].phase \in {"transfer", "received"}
               /\ outcome # "DRAFT_TRANSFERRED"
            \/ /\ status = "OPERATOR_COMPLETION_REQUIRED" /\ outcome = "DRAFT_TRANSFERRED"
               /\ task[w].phase = "received"
  <2>1. CASE TransferFails(w)
    <3>1. PICK outcome \in ErrorOutcomes(task[w].phase) :
             /\ row' = [row EXCEPT ![r].status = outcome]
             /\ attempts' = [attempts EXCEPT ![r][n] = outcome]
      BY <1>2, <2>1 DEF TransferFails
    <3>2. \/ outcome = "FAILED" /\ task[w].phase \in {"init", "transfer"}
          \/ outcome = "UNKNOWN_REMOTE_OUTCOME" /\ task[w].phase \in {"transfer", "received"}
      BY <1>1 DEF ErrorOutcomes, Sending
    <3> QED BY <3>1, <3>2 DEF Statuses, PublishAttempt
  <2>2. CASE TransferSucceeds(w)
    BY <1>2, <2>2 DEF TransferSucceeds, Transferred, Statuses, PublishAttempt
  <2> QED BY <2>1, <2>2
<1>4. RowBecomes(r, status, row[r].attempt_count, row[r].remote_post_id)
  <2>1. row \in [Requests -> PublishRequest]
    BY DEF Types, TypeOK
  <2> QED BY <1>3, <2>1, StatusWritten
<1>5. /\ task' = [task EXCEPT ![w] = Idle]
      /\ UNCHANGED <<remote, cleared, messages, hand, poll, crashes>>
  BY DEF TransferFails, TransferSucceeds, EndTask
<1> QED BY <1>1, <1>2, <1>3, <1>4, <1>5

LEMMA PollEffect ==
  ASSUME Types, NEW p \in Pollers, CommitPoll(p)
  PROVE  \E r \in Requests, n \in 1..MaxRuns :
            /\ poll[p] \in Polls /\ poll[p].request = r /\ poll[p].id = n
            /\ poll' = [poll EXCEPT ![p] = NoPoll]
            /\ UNCHANGED <<attempts, remote, cleared, messages, hand, task, crashes>>
            /\ \/ UNCHANGED row
               \/ \E status \in {"SUCCEEDED", "FAILED", "MANUAL_RECONCILIATION_REQUIRED"} :
                     /\ RowBecomes(r, status, row[r].attempt_count, row[r].remote_post_id)
                     /\ status = "SUCCEEDED" => poll[p].answer = "COMPLETE"
                     /\ status = "FAILED" => poll[p].answer = "FAILED"
                     /\ status = "MANUAL_RECONCILIATION_REQUIRED" =>
                           poll[p].answer \notin {"COMPLETE", "FAILED"}
<1>0. row \in [Requests -> PublishRequest] /\ poll[p] \in {NoPoll} \cup Polls
  BY DEF Types, TypeOK
<1>1. poll[p] \in Polls
  BY <1>0 DEF CommitPoll, NoPoll, Remote
<1>2. PICK r \in Requests, n \in 1..MaxRuns : r = poll[p].request /\ n = poll[p].id
  BY <1>1 DEF Polls
<1>3. PICK status : status = Answered(poll[p].answer, poll[p].count, poll[p].status)
  OBVIOUS
<1>4. /\ poll' = [poll EXCEPT ![p] = NoPoll]
      /\ UNCHANGED <<attempts, remote, cleared, messages, hand, task, crashes>>
      /\ row' = IF status = poll[p].status THEN row ELSE [row EXCEPT ![r].status = status]
  BY <1>2, <1>3 DEF CommitPoll
<1>5. CASE status = poll[p].status
  BY <1>1, <1>2, <1>4, <1>5
<1>6. CASE status # poll[p].status
  <2>1. /\ status \in {"SUCCEEDED", "FAILED", "MANUAL_RECONCILIATION_REQUIRED"}
        /\ status = "SUCCEEDED" => poll[p].answer = "COMPLETE"
        /\ status = "FAILED" => poll[p].answer = "FAILED"
        /\ status = "MANUAL_RECONCILIATION_REQUIRED" =>
              poll[p].answer \notin {"COMPLETE", "FAILED"}
    BY <1>3, <1>6 DEF Answered
  <2>2. row' = [row EXCEPT ![r].status = status]
    BY <1>4, <1>6
  <2>3. RowBecomes(r, status, row[r].attempt_count, row[r].remote_post_id)
    BY <1>0, <2>1, <2>2, StatusWritten DEF Statuses
  <2> QED BY <1>1, <1>2, <1>4, <2>1, <2>3
<1> QED BY <1>5, <1>6

-----------------------------------------------------------------------------
(* Types.                                                                  *)

LEMMA TypesFromParts ==
  ASSUME Types, row' \in [Requests -> PublishRequest],
         attempts' \in [Requests -> [1..MaxRuns -> PublishAttempt]],
         remote' \in [Requests -> [1..MaxRuns -> Remote]],
         task' \in [Workers -> {Idle} \cup Transfers],
         \A r \in Requests, n \in 1..MaxRuns :
            attempts'[r][n] # "NONE" <=> n <= row'[r].attempt_count,
         TasksCount',
         hand' \in [Operators -> {NoHand} \cup Hands],
         UNCHANGED <<cleared, messages, poll, crashes>>
  PROVE  Types'
  BY DEF Types, TypeOK

(* Rows that count as many attempts as before.                             *)
LEMMA CountsStay ==
  ASSUME Types, NEW r \in Requests, NEW status, NEW id,
         RowBecomes(r, status, row[r].attempt_count, id)
  PROVE  \A q \in Requests : row'[q].attempt_count = row[q].attempt_count
  BY DEF RowBecomes

LEMMA OperatorTypes ==
  ASSUME Types, NEW o \in Operators, OperatorStep(o)
  PROVE  Types'
<1>0. /\ row \in [Requests -> PublishRequest]
      /\ hand \in [Operators -> {NoHand} \cup Hands]
      /\ \A w \in Workers : task[w].phase \in Phases => task[w].request \in Requests
  BY DEF Types, TypeOK, Idle, Phases, Transfers
<1>a. ASSUME NEW r \in Requests, NEW status, NEW id, NEW h \in {NoHand} \cup Hands,
             RowBecomes(r, status, row[r].attempt_count, id),
             hand' = [hand EXCEPT ![o] = h],
             UNCHANGED <<attempts, remote, cleared, messages, task, poll, crashes>>
      PROVE  Types'
  <2>1. \A q \in Requests : row'[q].attempt_count = row[q].attempt_count
    BY <1>a, CountsStay
  <2>2. row' \in [Requests -> PublishRequest]
    BY <1>a DEF RowBecomes
  <2>3. TasksCount'
    BY <1>0, <1>a, <2>1 DEF Types, TasksCount
  <2>4. hand' \in [Operators -> {NoHand} \cup Hands]
    BY <1>0, <1>a
  <2>5. TypeOK'
    BY <1>a, <2>1, <2>2, <2>4 DEF Types, TypeOK
  <2> QED BY <2>3, <2>5 DEF Types
<1>1. CASE \E r \in Requests : Load(o, r)
  <2>1. PICK r \in Requests, h \in Hands : hand' = [hand EXCEPT ![o] = [op |-> h.op, request |-> r]]
    BY <1>1 DEF Load, Hold
  <2>2. [op |-> h.op, request |-> r] \in Hands
    BY DEF Hands
  <2>3. hand' \in [Operators -> {NoHand} \cup Hands]
    BY <1>0, <2>1, <2>2
  <2>4. UNCHANGED <<row, attempts, remote, cleared, messages, task, poll, crashes>>
    BY <1>1 DEF Load
  <2> QED BY <2>3, <2>4 DEF Types, TypeOK, TasksCount
<1>2. CASE CommitConfirm(o)
  <2>1. hand[o].request \in Requests
    BY <1>2, HandlerEffect DEF CommitConfirm
  <2>2. [op |-> "SEND", request |-> hand[o].request] \in Hands
    BY <2>1 DEF Hands
  <2>3. /\ hand' = [hand EXCEPT ![o] = [op |-> "SEND", request |-> hand[o].request]]
        /\ UNCHANGED <<attempts, remote, cleared, messages, task, poll, crashes>>
    BY <1>2 DEF CommitConfirm, Hold
  <2>4. RowBecomes(hand[o].request, "QUEUED", row[hand[o].request].attempt_count,
                   row[hand[o].request].remote_post_id)
    BY <1>2, HandlerEffect
  <2> QED BY <1>a, <2>1, <2>2, <2>3, <2>4
<1>3. CASE SendTask(o)
  <2>1. hand[o].request \in Requests
    BY <1>3, HandlerEffect DEF SendTask
  <2>2. messages' \in [Requests -> 0..(MaxMessages + crashes)]
    BY <1>3, <2>1, TikTokAssumption DEF SendTask, Types, TypeOK
  <2> QED BY <1>3, <2>2 DEF SendTask, Release, Types, TypeOK, TasksCount
<1>4. CASE CommitCancel(o)
  <2>1. hand[o].request \in Requests
    BY <1>4, HandlerEffect DEF CommitCancel
  <2>2. /\ hand' = [hand EXCEPT ![o] = NoHand]
        /\ UNCHANGED <<attempts, remote, cleared, messages, task, poll, crashes>>
    BY <1>4 DEF CommitCancel, Release
  <2>3. RowBecomes(hand[o].request, "CANCELLED", row[hand[o].request].attempt_count,
                   row[hand[o].request].remote_post_id)
    BY <1>4, HandlerEffect
  <2> QED BY <1>a, <2>1, <2>2, <2>3
<1>5. CASE CompleteDraft(o)
  <2>1. hand[o].request \in Requests
    BY <1>5, HandlerEffect DEF CompleteDraft
  <2>2. /\ hand' = [hand EXCEPT ![o] = NoHand]
        /\ UNCHANGED <<attempts, remote, cleared, messages, task, poll, crashes>>
    BY <1>5 DEF CompleteDraft, Release
  <2>3. PICK status \in {"SUCCEEDED", "CANCELLED"} :
           RowBecomes(hand[o].request, status, row[hand[o].request].attempt_count,
                      row[hand[o].request].remote_post_id)
    BY <1>5, HandlerEffect
  <2> QED BY <1>a, <2>1, <2>2, <2>3
<1>6. CASE HandlerFails(o)
  BY <1>6 DEF HandlerFails, Release, Types, TypeOK, TasksCount
<1> QED BY <1>1, <1>2, <1>3, <1>4, <1>5, <1>6 DEF OperatorStep

LEMMA TaskTypes ==
  ASSUME Types, NEW w \in Workers, TaskStep(w)
  PROVE  Types'
<1>0. /\ row \in [Requests -> PublishRequest]
      /\ task \in [Workers -> {Idle} \cup Transfers]
      /\ attempts \in [Requests -> [1..MaxRuns -> PublishAttempt]]
      /\ remote \in [Requests -> [1..MaxRuns -> Remote]]
      /\ hand \in [Operators -> {NoHand} \cup Hands]
      /\ \A r \in Requests, n \in 1..MaxRuns :
            attempts[r][n] # "NONE" <=> n <= row[r].attempt_count
  BY DEF Types, TypeOK
<1>1. \A v \in Workers : task[v].phase \in Phases => task[v].request \in Requests
  BY <1>0 DEF Idle, Phases, Transfers
<1>2. CASE TurnAway(w) \/ AttemptExists(w)
  <2>1. /\ task' = [task EXCEPT ![w] = Idle]
        /\ UNCHANGED <<row, attempts, remote, cleared, messages, hand, poll, crashes>>
    BY <1>2 DEF TurnAway, AttemptExists, EndTask
  <2>2. TasksCount'
    BY <1>0, <2>1 DEF Types, TasksCount, Idle, Phases
  <2>3. task' \in [Workers -> {Idle} \cup Transfers]
    BY <1>0, <2>1
  <2> QED BY <1>0, <2>1, <2>2, <2>3, TypesFromParts
<1>3. CASE PassPreconditions(w)
  <2>1. /\ task[w] \in Transfers /\ task[w].count < MaxRuns
        /\ task[w].count <= row[task[w].request].attempt_count
    BY <1>0, <1>3 DEF PassPreconditions, Idle, Types, TasksCount, Phases, Sending
  <2>2. PICK t : t = [task[w] EXCEPT !.phase = "start"]
    OBVIOUS
  <2>3. /\ t \in Transfers /\ t.phase = "start"
        /\ t.count = task[w].count /\ t.request = task[w].request
    BY <2>1, <2>2 DEF Transfers, Phases
  <2>4. /\ task' = [task EXCEPT ![w] = t]
        /\ UNCHANGED <<row, attempts, remote, cleared, messages, hand, poll, crashes>>
    BY <1>3, <2>2 DEF PassPreconditions
  <2>5. TasksCount'
    BY <1>0, <2>1, <2>3, <2>4 DEF Types, TasksCount, Sending, Phases
  <2> QED BY <1>0, <2>3, <2>4, <2>5 DEF Types, TypeOK
<1>4. CASE StartAttempt(w)
  <2>1. PICK r \in Requests, n \in 1..MaxRuns :
            /\ task[w].request = r /\ task[w].count = n - 1 /\ task[w].phase = "start"
            /\ row[r].attempt_count = n - 1
            /\ RowBecomes(r, "INITIALIZING", n, row[r].remote_post_id)
            /\ attempts' = [attempts EXCEPT ![r][n] = "STARTED"]
            /\ task' = [task EXCEPT ![w] = [phase |-> "init", request |-> r,
                                            status |-> "INITIALIZING", count |-> n]]
            /\ UNCHANGED <<remote, cleared, messages, hand, poll, crashes>>
    BY <1>4, StartEffect
  <2>2. row' \in [Requests -> PublishRequest] /\ attempts' \in [Requests -> [1..MaxRuns -> PublishAttempt]]
    BY <1>0, <2>1 DEF RowBecomes, PublishAttempt
  <2>3. task' \in [Workers -> {Idle} \cup Transfers]
    <3>1. [phase |-> "init", request |-> r, status |-> "INITIALIZING", count |-> n] \in Transfers
      BY TikTokAssumption DEF Transfers, Phases, Statuses
    <3> QED BY <1>0, <2>1, <3>1
  <2>4. \A q \in Requests : row[q].attempt_count \in 0..MaxRuns
    BY <1>0 DEF PublishRequest
  <2>5. \A q \in Requests, k \in 1..MaxRuns :
           attempts'[q][k] # "NONE" <=> k <= row'[q].attempt_count
    <3>2. ASSUME NEW k \in 1..MaxRuns
          PROVE  attempts'[r][k] # "NONE" <=> k <= row'[r].attempt_count
      <4>1. attempts'[r][k] = IF k = n THEN "STARTED" ELSE attempts[r][k]
        BY <1>0, <2>1, <3>2
      <4>2. row'[r].attempt_count = n
        BY <2>1 DEF RowBecomes
      <4>3. k <= n - 1 \/ k = n \/ k > n
        BY <3>2, TikTokAssumption
      <4> QED BY <1>0, <2>1, <3>2, <4>1, <4>2, <4>3, TikTokAssumption
    <3>3. ASSUME NEW q \in Requests \ {r}, NEW k \in 1..MaxRuns
          PROVE  attempts'[q][k] # "NONE" <=> k <= row'[q].attempt_count
      BY <1>0, <2>1, <3>3 DEF RowBecomes
    <3> QED BY <3>2, <3>3
  <2>6. TasksCount'
    <3>1. /\ task'[w] = [phase |-> "init", request |-> r, status |-> "INITIALIZING", count |-> n]
          /\ row'[r].attempt_count = n
          /\ \A q \in Requests : row[q].attempt_count <= row'[q].attempt_count
      <4>1. row'[r].attempt_count = n /\ row[r].attempt_count = n - 1
        BY <2>1 DEF RowBecomes
      <4>2. \A q \in Requests \ {r} : row'[q].attempt_count = row[q].attempt_count
        BY <2>1 DEF RowBecomes
      <4>3. \A q \in Requests : row[q].attempt_count <= row'[q].attempt_count
        BY <2>4, <4>1, <4>2, TikTokAssumption
      <4> QED BY <1>0, <2>1, <4>1, <4>3
    <3>2. ASSUME NEW v \in Workers, v # w, task[v].phase \in Phases
          PROVE  task[v].count <= row'[task[v].request].attempt_count
      <4>1. /\ task[v].count <= row[task[v].request].attempt_count
            /\ task[v] \in Transfers
        BY <1>0, <3>2 DEF Types, TasksCount, Idle, Phases
      <4>2. task[v].request \in Requests /\ task[v].count \in 0..MaxRuns
        BY <4>1 DEF Transfers
      <4>3. row'[task[v].request].attempt_count \in 0..MaxRuns
        BY <2>2, <4>2 DEF PublishRequest
      <4> QED BY <2>4, <3>1, <4>1, <4>2, <4>3, TikTokAssumption
    <3>3. \A v \in Workers \ {w} : task'[v] = task[v]
      BY <1>0, <2>1
    <3> QED BY <3>1, <3>2, <3>3, TikTokAssumption DEF Types, TasksCount, Sending
  <2> QED BY <1>0, <2>1, <2>2, <2>3, <2>5, <2>6, TypesFromParts
<1>5. CASE Initialize(w)
  <2>1. PICK r \in Requests, n \in 1..MaxRuns, t \in Transfers :
            /\ task[w].request = r /\ task[w].count = n /\ task[w].phase = "init"
            /\ RowBecomes(r, "TRANSFERRING", row[r].attempt_count, n)
            /\ remote' = [remote EXCEPT ![r][n] = "OPEN"]
            /\ t.phase = "transfer" /\ t.request = r /\ t.count = n
            /\ task' = [task EXCEPT ![w] = t]
            /\ UNCHANGED <<attempts, cleared, messages, hand, poll, crashes>>
    BY <1>5, InitializeEffect
  <2>2. \A q \in Requests : row'[q].attempt_count = row[q].attempt_count
    BY <2>1, CountsStay
  <2>3. row' \in [Requests -> PublishRequest] /\ remote' \in [Requests -> [1..MaxRuns -> Remote]]
    BY <1>0, <2>1 DEF RowBecomes, Remote
  <2>4. TasksCount'
    BY <1>0, <1>1, <2>1, <2>2 DEF Types, TasksCount, Sending, Phases
  <2>5. task' \in [Workers -> {Idle} \cup Transfers]
    BY <1>0, <2>1
  <2> QED BY <1>0, <2>1, <2>2, <2>3, <2>4, <2>5, TypesFromParts
<1>6. CASE TikTokReceives(w)
  <2>1. PICK r \in Requests, n \in 1..MaxRuns, t \in Transfers :
            /\ task[w].request = r /\ task[w].count = n /\ task[w].phase = "transfer"
            /\ remote' = [remote EXCEPT ![r][n] = "RECEIVED"]
            /\ t.phase = "received" /\ t.request = r /\ t.count = n
            /\ task' = [task EXCEPT ![w] = t]
            /\ UNCHANGED <<row, attempts, cleared, messages, hand, poll, crashes>>
    BY <1>6, ReceivesEffect
  <2>2. remote' \in [Requests -> [1..MaxRuns -> Remote]]
    BY <1>0, <2>1 DEF Remote
  <2>3. TasksCount'
    BY <1>0, <1>1, <2>1 DEF Types, TasksCount, Sending, Phases
  <2>4. task' \in [Workers -> {Idle} \cup Transfers]
    BY <1>0, <2>1
  <2> QED BY <1>0, <2>1, <2>2, <2>3, <2>4, TypesFromParts
<1>7. CASE TransferFails(w) \/ TransferSucceeds(w)
  <2>1. PICK r \in Requests, n \in 1..MaxRuns, status \in Statuses, outcome \in PublishAttempt :
            /\ task[w].request = r /\ task[w].count = n /\ task[w].phase \in Sending
            /\ outcome # "NONE"
            /\ RowBecomes(r, status, row[r].attempt_count, row[r].remote_post_id)
            /\ attempts' = [attempts EXCEPT ![r][n] = outcome]
            /\ task' = [task EXCEPT ![w] = Idle]
            /\ UNCHANGED <<remote, cleared, messages, hand, poll, crashes>>
    BY <1>7, EndsEffect
  <2>2. \A q \in Requests : row'[q].attempt_count = row[q].attempt_count
    BY <2>1, CountsStay
  <2>3. row' \in [Requests -> PublishRequest] /\ attempts' \in [Requests -> [1..MaxRuns -> PublishAttempt]]
    BY <1>0, <2>1 DEF RowBecomes
  <2>4. TasksCount'
    BY <1>0, <1>1, <2>1, <2>2 DEF Types, TasksCount, Phases, Idle
  <2>5. task' \in [Workers -> {Idle} \cup Transfers]
    BY <1>0, <2>1
  <2>6. n <= row[r].attempt_count
    BY <2>1, Attempted
  <2>7. \A q \in Requests, k \in 1..MaxRuns :
           attempts'[q][k] # "NONE" <=> k <= row'[q].attempt_count
    BY <1>0, <2>1, <2>2, <2>6
  <2> QED BY <1>0, <2>1, <2>3, <2>4, <2>5, <2>7, TypesFromParts
<1> QED BY <1>2, <1>3, <1>4, <1>5, <1>6, <1>7 DEF TaskStep

LEMMA DeliverTypes ==
  ASSUME Types, NEW w \in Workers, NEW r \in Requests, Deliver(w, r)
  PROVE  Types'
<1>1. PICK t : t = [phase |-> "loaded", request |-> r, status |-> row[r].status,
                    count |-> row[r].attempt_count]
  OBVIOUS
<1>2. row[r] \in PublishRequest /\ row[r].attempt_count < MaxRuns
  BY DEF Types, TypeOK, Deliver
<1>3. t \in Transfers /\ t.phase = "loaded" /\ t.request = r /\ t.count = row[r].attempt_count
  BY <1>1, <1>2 DEF Transfers, Phases, PublishRequest
<1>4. /\ task' = [task EXCEPT ![w] = t] /\ messages' = [messages EXCEPT ![r] = @ - 1]
      /\ messages[r] > 0 /\ UNCHANGED <<row, attempts, remote, cleared, hand, poll, crashes>>
  BY <1>1 DEF Deliver
<1>5. messages' \in [Requests -> 0..(MaxMessages + crashes)]
  BY <1>4, TikTokAssumption DEF Types, TypeOK
<1>6. task' \in [Workers -> {Idle} \cup Transfers]
  BY <1>3, <1>4 DEF Types, TypeOK
<1>7. TasksCount'
  <2>1. task \in [Workers -> {Idle} \cup Transfers] /\ row[r].attempt_count \in Int
    BY <1>2, TikTokAssumption DEF Types, TypeOK, PublishRequest
  <2> QED BY <1>2, <1>3, <1>4, <2>1 DEF Types, TasksCount, Sending
<1> QED BY <1>4, <1>5, <1>6, <1>7 DEF Types, TypeOK

LEMMA CrashTypes ==
  ASSUME Types, NEW w \in Workers, Crash(w)
  PROVE  Types'
<1>1. /\ task' = [task EXCEPT ![w] = Idle]
      /\ task[w] \in {Idle} \cup Transfers /\ task[w] # Idle
      /\ crashes' = crashes + 1 /\ crashes < MaxCrashes /\ crashes \in 0..MaxCrashes
      /\ UNCHANGED <<row, attempts, remote, cleared, hand, poll>>
  BY DEF Types, TypeOK, Crash, EndTask
<1>2. crashes' \in 0..MaxCrashes
  BY <1>1, TikTokAssumption
<1>3. PICK r \in Requests : r = task[w].request
  BY <1>1 DEF Transfers
<1>4. UNCHANGED messages \/ messages' = [messages EXCEPT ![r] = @ + 1]
  BY <1>3 DEF Crash
<1>5. messages' \in [Requests -> 0..(MaxMessages + crashes')]
  <2>1. \A q \in Requests : messages[q] \in Nat /\ messages[q] <= MaxMessages + crashes
    BY <1>1, TikTokAssumption DEF Types, TypeOK
  <2>2. messages \in [Requests -> 0..(MaxMessages + crashes)]
    BY DEF Types, TypeOK
  <2>3. \A q \in Requests : messages'[q] \in {messages[q], messages[q] + 1}
    BY <1>4, <2>2
  <2>4. \A q \in Requests : messages'[q] \in 0..(MaxMessages + crashes')
    BY <1>1, <2>1, <2>3, TikTokAssumption
  <2>5. messages' \in [Requests -> {messages'[q] : q \in Requests}]
    BY <1>4, <2>2
  <2> QED BY <2>4, <2>5
<1>6. task' \in [Workers -> {Idle} \cup Transfers]
  BY <1>1 DEF Types, TypeOK
<1>7. TasksCount'
  <2>1. task \in [Workers -> {Idle} \cup Transfers]
    BY DEF Types, TypeOK
  <2> QED BY <1>1, <2>1 DEF Types, TasksCount, Idle, Phases
<1> QED BY <1>1, <1>2, <1>5, <1>6, <1>7 DEF Types, TypeOK

LEMMA PollTypes ==
  ASSUME Types, NEW p \in Pollers, PollStep(p)
  PROVE  Types'
<1>0. /\ poll \in [Pollers -> {NoPoll} \cup Polls]
      /\ row \in [Requests -> PublishRequest]
      /\ remote \in [Requests -> [1..MaxRuns -> Remote]]
  BY DEF Types, TypeOK
<1>1. ASSUME NEW r \in Requests, TickPoll(p, r) \/ RefreshRequest(p, r)
      PROVE  Types'
  <2>1. PICK q : q = [answer |-> "UNASKED", request |-> r, id |-> row[r].remote_post_id,
                      status |-> row[r].status, count |-> row[r].attempt_count]
    OBVIOUS
  <2>2. /\ row[r].remote_post_id # 0 /\ row[r].status \in Refreshable
        /\ row[r].remote_post_id \in 0..MaxRuns /\ row[r].attempt_count \in 0..MaxRuns
    BY <1>0, <1>1 DEF TickPoll, RefreshRequest, BeginPoll, PublishRequest, Due, Refreshable
  <2>3. row[r].remote_post_id \in 1..MaxRuns
    BY <2>2, TikTokAssumption
  <2>4. q \in Polls
    BY <2>1, <2>2, <2>3 DEF Polls
  <2>5. /\ poll' = [poll EXCEPT ![p] = q]
        /\ UNCHANGED <<row, attempts, remote, cleared, messages, hand, task, crashes>>
    BY <1>1, <2>1 DEF TickPoll, RefreshRequest, BeginPoll
  <2> QED BY <1>0, <2>4, <2>5 DEF Types, TypeOK, TasksCount
<1>2. CASE AskTikTok(p)
  <2>1. poll[p] \in Polls
    BY <1>0, <1>2 DEF AskTikTok, NoPoll
  <2>2. PICK answer : answer = remote[poll[p].request][poll[p].id]
    OBVIOUS
  <2>3. answer \in Remote
    BY <1>0, <2>1, <2>2 DEF Polls
  <2>4. PICK q : q = [poll[p] EXCEPT !.answer = answer]
    OBVIOUS
  <2>5. q \in Polls
    BY <2>1, <2>3, <2>4 DEF Polls
  <2>6. /\ poll' = [poll EXCEPT ![p] = q]
        /\ UNCHANGED <<row, attempts, remote, cleared, messages, hand, task, crashes>>
    BY <1>2, <2>2, <2>4 DEF AskTikTok
  <2> QED BY <1>0, <2>5, <2>6 DEF Types, TypeOK, TasksCount
<1>3. CASE PollFails(p)
  <2>1. /\ poll' = [poll EXCEPT ![p] = NoPoll]
        /\ UNCHANGED <<row, attempts, remote, cleared, messages, hand, task, crashes>>
    BY <1>3 DEF PollFails
  <2> QED BY <1>0, <2>1 DEF Types, TypeOK, TasksCount
<1>4. CASE CommitPoll(p)
  <2>1. PICK r \in Requests :
           /\ poll' = [poll EXCEPT ![p] = NoPoll]
           /\ UNCHANGED <<attempts, remote, cleared, messages, hand, task, crashes>>
           /\ \/ UNCHANGED row
              \/ \E status : RowBecomes(r, status, row[r].attempt_count, row[r].remote_post_id)
    BY <1>4, PollEffect
  <2>2. /\ row' \in [Requests -> PublishRequest]
        /\ \A q \in Requests : row'[q].attempt_count = row[q].attempt_count
    BY <1>0, <2>1 DEF RowBecomes
  <2>3. \A v \in Workers : task[v].phase \in Phases => task[v].request \in Requests
    BY DEF Types, TypeOK, Idle, Phases, Transfers
  <2>4. TasksCount'
    BY <2>1, <2>2, <2>3 DEF Types, TasksCount
  <2>5. poll' \in [Pollers -> {NoPoll} \cup Polls]
    BY <1>0, <2>1
  <2> QED BY <2>1, <2>2, <2>4, <2>5 DEF Types, TypeOK
<1> QED BY <1>1, <1>2, <1>3, <1>4 DEF PollStep

LEMMA TypesKept ==
  ASSUME Types, [Next]_vars
  PROVE  Types'
<1>1. ASSUME NEW r \in Requests, RequestTikTokPublish(r)
      PROVE  Types'
  <2>1. row \in [Requests -> PublishRequest]
    BY DEF Types, TypeOK
  <2>2. RowBecomes(r, "AWAITING_CONFIRMATION", row[r].attempt_count, row[r].remote_post_id)
    BY <1>1, <2>1, StatusWritten DEF RequestTikTokPublish, Statuses
  <2>3. /\ row' \in [Requests -> PublishRequest]
        /\ \A q \in Requests : row'[q].attempt_count = row[q].attempt_count
    BY <2>2, CountsStay DEF RowBecomes
  <2>4. \A v \in Workers : task[v].phase \in Phases => task[v].request \in Requests
    BY DEF Types, TypeOK, Idle, Phases, Transfers
  <2>5. UNCHANGED <<attempts, remote, cleared, messages, hand, task, poll, crashes>>
    BY <1>1 DEF RequestTikTokPublish
  <2>6. TasksCount'
    BY <2>3, <2>4, <2>5 DEF Types, TasksCount
  <2> QED BY <2>3, <2>5, <2>6 DEF Types, TypeOK
<1>2. ASSUME NEW r \in Requests, ReviewDecision(r)
      PROVE  Types'
  BY <1>2 DEF ReviewDecision, Types, TypeOK, TasksCount
<1>3. ASSUME NEW r \in Requests, NEW n \in 1..MaxRuns, TikTokDecides(r, n)
      PROVE  Types'
  <2>1. PICK outcome \in Remote : remote' = [remote EXCEPT ![r][n] = outcome]
    BY <1>3 DEF TikTokDecides, Remote
  <2>2. remote' \in [Requests -> [1..MaxRuns -> Remote]]
    BY <2>1 DEF Types, TypeOK
  <2> QED BY <1>3, <2>2 DEF TikTokDecides, Types, TypeOK, TasksCount
<1>4. CASE UNCHANGED vars
  BY <1>4 DEF vars, Types, TypeOK, TasksCount
<1> QED BY <1>1, <1>2, <1>3, <1>4, OperatorTypes, TaskTypes, DeliverTypes, CrashTypes, PollTypes
    DEF Next, WorkerStep

(* Rows, attempts, transfers, messages and copies keep their types, and    *)
(* attempts are numbered without a gap (the last part of TypeOK): whoever  *)
(* acts, and however tasks, polls and handlers interleave.                 *)
THEOREM TransfersAreTyped == Spec => []TypeOK
<1>1. Init => Types
  BY InitTypes
<1>2. Types /\ [Next]_vars => Types'
  BY TypesKept
<1>3. Types => TypeOK
  BY DEF Types
<1> QED BY <1>1, <1>2, <1>3, PTL DEF Spec

-----------------------------------------------------------------------------
(* What a request says of its videos.                                      *)

(* A confirmation that loaded the request when nothing had been attempted, *)
(* and is committed when something has: it was confirmed twice.            *)
LateConfirmation(o) == CommitConfirm(o) /\ row[hand[o].request].attempt_count > 0

(* A poll that writes its answer over another attempt than it asked about, *)
(* or hands over to a person a request that is resolved by now.            *)
LateAnswer(p) ==
    LET r == poll[p].request IN
    /\ CommitPoll(p) /\ row' # row
    /\ \/ row[r].attempt_count # poll[p].count
       \/ poll[p].answer \notin {"COMPLETE", "FAILED"} /\ row[r].status \notin Refreshable

InTime == /\ \A o \in Operators : ~LateConfirmation(o)
          /\ \A p \in Pollers : ~LateAnswer(p)

NoLateWrite == [][InTime]_vars

Sends(w, r) == task[w].phase \in Sending /\ task[w].request = r

(* A task whose unique number is still free, and which has not seen that   *)
(* it must not start.                                                      *)
MayStart(w, r) ==
    /\ \/ task[w].phase = "start"
       \/ task[w].phase = "loaded" /\ task[w].status \in Startable
    /\ task[w].request = r /\ task[w].count = row[r].attempt_count

Polled(p, r) == poll[p] # NoPoll /\ poll[p].request = r

(* The statuses that only a finished transfer, or none, leaves.            *)
Transferless == {"ABSENT", "AWAITING_CONFIRMATION", "QUEUED"}
AfterTransfer == Refreshable \cup {"OPERATOR_COMPLETION_REQUIRED", "SUCCEEDED"}

(* Only the last attempt can have delivered a video, and the status tells  *)
(* of it.                                                                  *)
RequestFine(r) ==
    LET n == row[r].attempt_count IN
    /\ Delivered(r) \subseteq {n}
    /\ row[r].status \in Transferless => n = 0
    /\ row[r].status \in AfterTransfer => row[r].remote_post_id = n /\ n # 0
    /\ row[r].status = "FAILED" => Delivered(r) = {}
    /\ row[r].status \in Refreshable => attempts[r][n] # "DRAFT_TRANSFERRED"
    /\ row[r].status = "OPERATOR_COMPLETION_REQUIRED" => attempts[r][n] = "DRAFT_TRANSFERRED"
    /\ row[r].status = "SUCCEEDED" =>
          \/ remote[r][n] = "COMPLETE"
          \/ row[r].posted /\ attempts[r][n] = "DRAFT_TRANSFERRED"

(* While a task sends the last attempt, the request is in flight or has    *)
(* been cancelled, and nobody else sends.                                  *)
SendersFine(r) ==
    \A w \in Workers : Sends(w, r) =>
        /\ task[w].count = row[r].attempt_count
        /\ row[r].status \in {"INITIALIZING", "TRANSFERRING", "CANCELLED"}
        /\ task[w].phase # "received" => Delivered(r) = {}
        /\ task[w].phase # "init" => row[r].remote_post_id = row[r].attempt_count
        /\ \A v \in Workers : Sends(v, r) => v = w

(* While a task may start, nothing was delivered and nobody sends.         *)
StartersFine(r) ==
    \A w \in Workers : MayStart(w, r) =>
        /\ row[r].status \in Startable \cup {"CANCELLED"}
        /\ Delivered(r) = {}
        /\ \A v \in Workers : ~Sends(v, r)

(* What TikTok has decided stays; and while the last attempt is polled it  *)
(* is the one the request points at, no draft, and nobody sends it.        *)
PollsFine(r) ==
    \A p \in Pollers : Polled(p, r) =>
        /\ poll[p].id = poll[p].count /\ poll[p].count <= row[r].attempt_count
        /\ poll[p].answer \in {"COMPLETE", "FAILED"} => remote[r][poll[p].id] = poll[p].answer
        /\ poll[p].count = row[r].attempt_count =>
              /\ row[r].remote_post_id = row[r].attempt_count
              /\ attempts[r][poll[p].id] # "DRAFT_TRANSFERRED"
              /\ \A w \in Workers : ~Sends(w, r)

(* While handlers record what became of a draft, it is the last attempt,   *)
(* and there will be no other.                                             *)
HandsFine(r) ==
    \A o \in Operators : hand[o].request = r /\ hand[o].op \in {"POSTED", "REJECTED"} =>
        /\ row[r].status \in {"OPERATOR_COMPLETION_REQUIRED", "SUCCEEDED", "CANCELLED"}
        /\ row[r].remote_post_id = row[r].attempt_count /\ row[r].attempt_count # 0
        /\ attempts[r][row[r].attempt_count] = "DRAFT_TRANSFERRED"
        /\ \A w \in Workers : ~Sends(w, r) /\ ~MayStart(w, r)

RequestInv(r) ==
    RequestFine(r) /\ SendersFine(r) /\ StartersFine(r) /\ PollsFine(r) /\ HandsFine(r)

VideosInv == Types /\ \A r \in Requests : RequestInv(r)

LEMMA InitVideos ==
  Init => VideosInv
<1> SUFFICES ASSUME Init PROVE VideosInv
  OBVIOUS
<1>1. Types
  BY InitTypes
<1>2. ASSUME NEW r \in Requests
      PROVE  RequestInv(r)
  <2>1. row[r].status = "ABSENT" /\ row[r].attempt_count = 0 /\ Delivered(r) = {}
    BY TikTokAssumption DEF Init, Delivered
  <2>2. /\ \A w \in Workers : ~Sends(w, r) /\ ~MayStart(w, r)
        /\ \A p \in Pollers : ~Polled(p, r)
        /\ \A o \in Operators : hand[o].op = "IDLE"
    BY DEF Init, Sends, MayStart, Polled, Idle, NoHand, Sending
  <2> QED BY <2>1, <2>2
      DEF RequestInv, RequestFine, SendersFine, StartersFine, PollsFine, HandsFine,
          Transferless, AfterTransfer, Refreshable
<1> QED BY <1>1, <1>2 DEF VideosInv

(* What a step does that leaves a request alone, but for those who had to  *)
(* do with it and end.                                                     *)
Quiet(r) ==
    /\ row'[r] = row[r] /\ attempts'[r] = attempts[r] /\ remote'[r] = remote[r]
    /\ \A w \in Workers :
          task'[w] = task[w] \/ task'[w].phase \notin Phases \/ task'[w].request # r
    /\ \A p \in Pollers : poll'[p] = poll[p] \/ poll'[p] = NoPoll \/ poll'[p].request # r
    /\ \A o \in Operators : hand'[o] = hand[o] \/ hand'[o].op \in {"IDLE", "SEND"} \/ hand'[o].request # r

LEMMA QuietKeeps ==
  ASSUME NEW r \in Requests, RequestInv(r), Quiet(r)
  PROVE  RequestInv(r)'
<1>1. Delivered(r)' = Delivered(r)
  BY DEF Delivered, Quiet
<1>2. RequestFine(r)'
  BY <1>1 DEF RequestFine, RequestInv, Quiet
<1>3. \A w \in Workers : /\ Sends(w, r)' => Sends(w, r) /\ task'[w] = task[w]
                         /\ MayStart(w, r)' => MayStart(w, r) /\ task'[w] = task[w]
  BY DEF Sends, MayStart, Quiet, Sending, Phases
<1>4. \A p \in Pollers : Polled(p, r)' => Polled(p, r) /\ poll'[p] = poll[p]
  BY DEF Polled, Quiet
<1>5. SendersFine(r)'
  BY <1>1, <1>3 DEF SendersFine, RequestInv, Quiet
<1>6. StartersFine(r)'
  BY <1>1, <1>3 DEF StartersFine, RequestInv, Quiet
<1>7. PollsFine(r)'
  BY <1>3, <1>4 DEF PollsFine, RequestInv, Quiet
<1>8. HandsFine(r)'
  BY <1>3 DEF HandsFine, RequestInv, Quiet
<1> QED BY <1>2, <1>5, <1>6, <1>7, <1>8 DEF RequestInv

(* A transfer that is not recorded yet: what excludes whom.                *)
LEMMA Excluded ==
  ASSUME NEW r \in Requests, RequestInv(r), VideosInv
  PROVE  /\ row[r].attempt_count \in 0..MaxRuns
         /\ row[r].status \in Transferless => Delivered(r) = {}
         /\ row[r].status \notin {"INITIALIZING", "TRANSFERRING", "CANCELLED"} =>
              \A w \in Workers : ~Sends(w, r)
         /\ row[r].status \notin Startable \cup {"CANCELLED"} =>
              \A w \in Workers : ~MayStart(w, r)
<1>1. row[r].attempt_count \in 0..MaxRuns
  BY DEF VideosInv, Types, TypeOK, PublishRequest
<1>2. ASSUME row[r].status \in Transferless
      PROVE  Delivered(r) = {}
  <2>1. Delivered(r) \subseteq {0} /\ 0 \notin Delivered(r)
    BY <1>2 DEF RequestInv, RequestFine, Delivered
  <2> QED BY <2>1
<1>3. /\ row[r].status \notin {"INITIALIZING", "TRANSFERRING", "CANCELLED"} =>
            \A w \in Workers : ~Sends(w, r)
      /\ row[r].status \notin Startable \cup {"CANCELLED"} =>
            \A w \in Workers : ~MayStart(w, r)
  BY DEF RequestInv, SendersFine, StartersFine
<1> QED BY <1>1, <1>2, <1>3

(* A step that only writes the status of a request, and may end polls:     *)
(* nobody sends it, and who may start still may, unless it is cancelled.   *)
LEMMA StatusKeeps ==
  ASSUME VideosInv, NEW r \in Requests, NEW status,
         RowBecomes(r, status, row[r].attempt_count, row[r].remote_post_id),
         attempts'[r] = attempts[r], remote'[r] = remote[r], UNCHANGED task,
         \A p \in Pollers : poll'[p] = poll[p] \/ poll'[p] = NoPoll,
         \/ status = "CANCELLED"
         \/ /\ \A w \in Workers : ~Sends(w, r)
            /\ status \in Startable \/ \A w \in Workers : ~MayStart(w, r),
         RequestFine(r)', HandsFine(r)'
  PROVE  RequestInv(r)'
<1>1. RequestInv(r)
  BY DEF VideosInv
<1>2. /\ Delivered(r)' = Delivered(r) /\ row'[r].status = status
      /\ row'[r].attempt_count = row[r].attempt_count
      /\ row'[r].remote_post_id = row[r].remote_post_id
  BY DEF Delivered, RowBecomes
<1>3. /\ \A w \in Workers : (Sends(w, r)' <=> Sends(w, r)) /\ (MayStart(w, r)' <=> MayStart(w, r))
      /\ \A p \in Pollers : Polled(p, r)' => Polled(p, r) /\ poll'[p] = poll[p]
  BY <1>2 DEF Sends, MayStart, Polled
<1>4. SendersFine(r)'
  BY <1>1, <1>2, <1>3 DEF SendersFine, RequestInv
<1>5. StartersFine(r)'
  BY <1>1, <1>2, <1>3 DEF StartersFine, RequestInv
<1>6. PollsFine(r)'
  BY <1>1, <1>2, <1>3 DEF PollsFine, RequestInv
<1> QED BY <1>4, <1>5, <1>6 DEF RequestInv

LEMMA RequestedKeeps ==
  ASSUME VideosInv, NEW r \in Requests, RequestTikTokPublish(r)
  PROVE  RequestInv(r)'
<1>1. RequestInv(r) /\ row \in [Requests -> PublishRequest]
  BY DEF VideosInv, Types, TypeOK
<1>2. RowBecomes(r, "AWAITING_CONFIRMATION", row[r].attempt_count, row[r].remote_post_id)
  BY <1>1, StatusWritten DEF RequestTikTokPublish, Statuses
<1>3. /\ row[r].status = "ABSENT"
      /\ UNCHANGED <<attempts, remote, cleared, messages, hand, task, poll, crashes>>
  BY DEF RequestTikTokPublish
<1>4. RequestFine(r)'
  BY <1>1, <1>2, <1>3
  DEF RequestInv, RequestFine, RowBecomes, Transferless, AfterTransfer, Refreshable, Delivered
<1>5. HandsFine(r)'
  BY <1>1, <1>2, <1>3 DEF RequestInv, HandsFine, RowBecomes
<1>6. \A w \in Workers : ~Sends(w, r) /\ ~MayStart(w, r)
  BY <1>1, <1>3, Excluded DEF Startable
<1> QED BY <1>2, <1>3, <1>4, <1>5, <1>6, StatusKeeps

LEMMA DecidesKeeps ==
  ASSUME VideosInv, NEW r \in Requests, NEW n \in 1..MaxRuns, TikTokDecides(r, n)
  PROVE  \A q \in Requests : RequestInv(q)'
<1>1. /\ UNCHANGED <<row, attempts, cleared, messages, hand, task, poll, crashes>>
      /\ \A q \in Requests : RequestInv(q)
  BY DEF TikTokDecides, VideosInv
<1>2. PICK outcome \in {"COMPLETE", "FAILED"} :
         /\ remote' = [remote EXCEPT ![r][n] = outcome]
         /\ remote[r][n] \in {"OPEN", "RECEIVED"}
         /\ remote[r][n] = "OPEN" => outcome = "FAILED"
  BY DEF TikTokDecides
<1>3. remote \in [Requests -> [1..MaxRuns -> Remote]]
  BY DEF VideosInv, Types, TypeOK
<1>4. /\ remote'[r][n] = outcome
      /\ \A k \in 1..MaxRuns \ {n} : remote'[r][k] = remote[r][k]
      /\ \A q \in Requests \ {r} : remote'[q] = remote[q]
  BY <1>2, <1>3
<1>5. ASSUME NEW q \in Requests, q # r
      PROVE  RequestInv(q)'
  <2>1. Quiet(q)
    BY <1>1, <1>4, <1>5 DEF Quiet
  <2> QED BY <1>1, <2>1, QuietKeeps
<1>6. RequestInv(r)'
  <2>1. Delivered(r)' \subseteq Delivered(r)
    BY <1>2, <1>4 DEF Delivered
  <2>2. \A k \in 1..MaxRuns : remote[r][k] \in {"COMPLETE", "FAILED"} => remote'[r][k] = remote[r][k]
    BY <1>2, <1>4
  <2>3. /\ \A w \in Workers : (Sends(w, r)' <=> Sends(w, r)) /\ (MayStart(w, r)' <=> MayStart(w, r))
        /\ \A p \in Pollers : Polled(p, r)' <=> Polled(p, r)
    BY <1>1 DEF Sends, MayStart, Polled
  <2>4. row[r].attempt_count \in 0..MaxRuns
    BY <1>1, Excluded
  <2>5. RequestFine(r)'
    <3>1. row[r].status = "SUCCEEDED" => row[r].attempt_count \in 1..MaxRuns
      BY <1>1, <2>4, TikTokAssumption DEF RequestInv, RequestFine, AfterTransfer
    <3> QED BY <1>1, <2>1, <2>2, <3>1 DEF RequestInv, RequestFine
  <2>6. SendersFine(r)' /\ StartersFine(r)' /\ HandsFine(r)'
    BY <1>1, <2>1, <2>3 DEF RequestInv, SendersFine, StartersFine, HandsFine
  <2>7. PollsFine(r)'
    <3>1. \A p \in Pollers : Polled(p, r) => poll[p].id \in 1..MaxRuns
      BY DEF Polled, VideosInv, Types, TypeOK, Polls
    <3> QED BY <1>1, <2>2, <2>3, <3>1 DEF RequestInv, PollsFine
  <2> QED BY <2>5, <2>6, <2>7 DEF RequestInv
<1> QED BY <1>5, <1>6

-----------------------------------------------------------------------------
(* Handlers.                                                               *)

LEMMA LoadKeeps ==
  ASSUME VideosInv, NEW o \in Operators, NEW r \in Requests, Load(o, r)
  PROVE  \A q \in Requests : RequestInv(q)'
<1>1. /\ UNCHANGED <<row, attempts, remote, cleared, messages, task, poll, crashes>>
      /\ \A q \in Requests : RequestInv(q)
      /\ hand \in [Operators -> {NoHand} \cup Hands]
  BY DEF Load, VideosInv, Types, TypeOK
<1>2. PICK h \in Hands : Allowed(h.op, r) /\ hand' = [hand EXCEPT ![o] = [op |-> h.op, request |-> r]]
  BY DEF Load, Hold
<1>3. /\ hand'[o].op = h.op /\ hand'[o].request = r
      /\ \A p \in Operators \ {o} : hand'[p] = hand[p]
  BY <1>1, <1>2
<1>4. ASSUME NEW q \in Requests, q # r
      PROVE  RequestInv(q)'
  <2>1. Quiet(q)
    BY <1>1, <1>3, <1>4 DEF Quiet
  <2> QED BY <1>1, <2>1, QuietKeeps
<1>5. RequestInv(r)'
  <2>1. HandsFine(r)'
    <3>1. row[r].status = "OPERATOR_COMPLETION_REQUIRED" =>
             /\ row[r].remote_post_id = row[r].attempt_count /\ row[r].attempt_count # 0
             /\ attempts[r][row[r].attempt_count] = "DRAFT_TRANSFERRED"
             /\ \A w \in Workers : ~Sends(w, r) /\ ~MayStart(w, r)
      BY <1>1, Excluded DEF RequestInv, RequestFine, AfterTransfer, Startable
    <3>2. \A w \in Workers : (Sends(w, r)' <=> Sends(w, r)) /\ (MayStart(w, r)' <=> MayStart(w, r))
      BY <1>1 DEF Sends, MayStart
    <3>3. h.op \in {"POSTED", "REJECTED"} => row[r].status = "OPERATOR_COMPLETION_REQUIRED"
      BY <1>2 DEF Allowed
    <3> QED BY <1>1, <1>3, <3>1, <3>2, <3>3 DEF RequestInv, HandsFine
  <2>2. RequestFine(r)' /\ SendersFine(r)' /\ StartersFine(r)' /\ PollsFine(r)'
    BY <1>1
    DEF RequestInv, RequestFine, SendersFine, StartersFine, PollsFine, Delivered, Sends, MayStart,
        Polled
  <2> QED BY <2>1, <2>2 DEF RequestInv
<1> QED BY <1>4, <1>5

LEMMA HandlerKeeps ==
  ASSUME VideosInv, NEW o \in Operators, ~LateConfirmation(o),
         CommitConfirm(o) \/ CommitCancel(o) \/ CompleteDraft(o)
  PROVE  \A q \in Requests : RequestInv(q)'
<1>0. /\ UNCHANGED <<attempts, remote, cleared, messages, task, poll, crashes>>
      /\ \A q \in Requests : RequestInv(q)
      /\ hand \in [Operators -> {NoHand} \cup Hands] /\ Types
  BY DEF CommitConfirm, CommitCancel, CompleteDraft, VideosInv, Types, TypeOK
<1>1. PICK r \in Requests : r = hand[o].request
  BY <1>0, HandlerEffect DEF CommitConfirm, CommitCancel, CompleteDraft
<1>2. /\ hand'[o].op \in {"IDLE", "SEND"}
      /\ \A p \in Operators \ {o} : hand'[p] = hand[p]
  BY <1>0 DEF CommitConfirm, CommitCancel, CompleteDraft, Hold, Release, NoHand
<1>3. row[r].attempt_count \in 0..MaxRuns
  BY <1>0, Excluded
<1>4. PICK status \in {"QUEUED", "CANCELLED", "SUCCEEDED"} :
         /\ RowBecomes(r, status, row[r].attempt_count, row[r].remote_post_id)
         /\ status = "QUEUED" => row[r].attempt_count = 0
         /\ status = "SUCCEEDED" => row'[r].posted /\ hand[o].op \in {"POSTED", "REJECTED"}
  <2>1. CASE CommitConfirm(o)
    BY <1>0, <1>1, <1>3, <2>1, HandlerEffect DEF LateConfirmation
  <2>2. CASE CommitCancel(o)
    BY <1>0, <1>1, <2>2, HandlerEffect
  <2>3. CASE CompleteDraft(o)
    BY <1>0, <1>1, <2>3, HandlerEffect DEF CompleteDraft
  <2> QED BY <2>1, <2>2, <2>3
<1>5. ASSUME NEW q \in Requests, q # r
      PROVE  RequestInv(q)'
  <2>1. Quiet(q)
    BY <1>0, <1>2, <1>4, <1>5 DEF Quiet, RowBecomes
  <2> QED BY <1>0, <2>1, QuietKeeps
<1>6. RequestInv(r)'
  <2>1. /\ Delivered(r)' = Delivered(r) /\ row'[r].status = status
        /\ row'[r].attempt_count = row[r].attempt_count
        /\ row'[r].remote_post_id = row[r].remote_post_id
    BY <1>0, <1>4 DEF Delivered, RowBecomes
  <2>2. /\ \A w \in Workers : (Sends(w, r)' <=> Sends(w, r)) /\ (MayStart(w, r)' <=> MayStart(w, r))
    BY <1>0, <2>1 DEF Sends, MayStart
  <2>3. /\ RequestFine(r) /\ SendersFine(r) /\ HandsFine(r)
    BY <1>0 DEF RequestInv
  <2>4. status = "SUCCEEDED" =>
           /\ row[r].remote_post_id = row[r].attempt_count /\ row[r].attempt_count # 0
           /\ attempts[r][row[r].attempt_count] = "DRAFT_TRANSFERRED"
           /\ \A w \in Workers : ~Sends(w, r) /\ ~MayStart(w, r)
    BY <1>1, <1>4, <2>3 DEF HandsFine
  <2>5. RequestFine(r)'
    BY <1>0, <1>4, <2>1, <2>3, <2>4
    DEF RequestFine, Transferless, AfterTransfer, Refreshable
  <2>6. HandsFine(r)'
    BY <1>0, <1>2, <1>4, <2>1, <2>2, <2>3 DEF HandsFine
  <2>7. row[r].attempt_count = 0 => \A w \in Workers : ~Sends(w, r)
    <3>1. \A w \in Workers : Sends(w, r) => task[w].count # 0
      BY <1>0 DEF Types, TasksCount, Sends, Sending, Phases
    <3> QED BY <2>3, <3>1 DEF SendersFine
  <2>8. \/ status = "CANCELLED"
        \/ /\ \A w \in Workers : ~Sends(w, r)
           /\ status \in Startable \/ \A w \in Workers : ~MayStart(w, r)
    BY <1>4, <2>4, <2>7 DEF Startable
  <2> QED BY <1>0, <1>4, <2>5, <2>6, <2>8, StatusKeeps
<1> QED BY <1>5, <1>6

-----------------------------------------------------------------------------
(* Tasks.                                                                  *)

LEMMA DeliverKeeps ==
  ASSUME VideosInv, NEW w \in Workers, NEW r \in Requests, Deliver(w, r)
  PROVE  \A q \in Requests : RequestInv(q)'
<1>1. /\ UNCHANGED <<row, attempts, remote, cleared, hand, poll, crashes>>
      /\ \A q \in Requests : RequestInv(q)
      /\ task \in [Workers -> {Idle} \cup Transfers]
  BY DEF Deliver, VideosInv, Types, TypeOK
<1>2. /\ task'[w] = [phase |-> "loaded", request |-> r, status |-> row[r].status,
                     count |-> row[r].attempt_count]
      /\ \A v \in Workers \ {w} : task'[v] = task[v]
  BY <1>1 DEF Deliver
<1>3. ASSUME NEW q \in Requests, q # r
      PROVE  RequestInv(q)'
  <2>1. Quiet(q)
    BY <1>1, <1>2, <1>3 DEF Quiet
  <2> QED BY <1>1, <2>1, QuietKeeps
<1>4. RequestInv(r)'
  <2>1. /\ \A v \in Workers : /\ Sends(v, r)' => Sends(v, r) /\ task'[v] = task[v]
                              /\ MayStart(v, r)' => \/ MayStart(v, r)
                                                    \/ row[r].status \in Startable
        /\ Delivered(r)' = Delivered(r)
    BY <1>1, <1>2 DEF Sends, MayStart, Sending, Delivered
  <2>2. row[r].status \in Startable =>
           /\ Delivered(r) = {}
           /\ \A v \in Workers : ~Sends(v, r)
    BY <1>1, Excluded DEF Startable, Transferless, RequestInv, RequestFine
  <2>3. RequestFine(r)'
    BY <1>1, <2>1 DEF RequestInv, RequestFine
  <2>7. HandsFine(r)'
    BY <1>1, <2>1 DEF RequestInv, HandsFine, Startable
  <2>4. SendersFine(r)'
    BY <1>1, <2>1 DEF RequestInv, SendersFine
  <2>5. StartersFine(r)'
    BY <1>1, <2>1, <2>2 DEF RequestInv, StartersFine
  <2>6. PollsFine(r)'
    BY <1>1, <2>1 DEF RequestInv, PollsFine, Polled
  <2> QED BY <2>3, <2>4, <2>5, <2>6, <2>7 DEF RequestInv
<1> QED BY <1>3, <1>4

LEMMA PassKeeps ==
  ASSUME VideosInv, NEW w \in Workers, PassPreconditions(w)
  PROVE  \A r \in Requests : RequestInv(r)'
<1>1. /\ UNCHANGED <<row, attempts, remote, cleared, messages, hand, poll, crashes>>
      /\ \A q \in Requests : RequestInv(q)
      /\ task \in [Workers -> {Idle} \cup Transfers]
  BY DEF PassPreconditions, VideosInv, Types, TypeOK
<1>2. task[w] \in Transfers /\ task[w].phase = "loaded" /\ task[w].status \in Startable
  BY <1>1 DEF PassPreconditions, Idle
<1>3. /\ task'[w].phase = "start" /\ task'[w].request = task[w].request
      /\ task'[w].count = task[w].count
      /\ \A v \in Workers \ {w} : task'[v] = task[v]
  BY <1>1, <1>2 DEF PassPreconditions, Transfers
<1>4. ASSUME NEW r \in Requests
      PROVE  RequestInv(r)'
  <2>1. /\ \A v \in Workers : /\ Sends(v, r)' => Sends(v, r) /\ task'[v] = task[v]
                              /\ MayStart(v, r)' => MayStart(v, r)
        /\ \A p \in Pollers : Polled(p, r)' <=> Polled(p, r)
        /\ Delivered(r)' = Delivered(r)
    BY <1>1, <1>2, <1>3 DEF Sends, MayStart, Sending, Delivered, Polled
  <2>2. RequestFine(r)' /\ HandsFine(r)'
    BY <1>1, <2>1 DEF RequestInv, RequestFine, HandsFine
  <2>3. SendersFine(r)' /\ StartersFine(r)'
    BY <1>1, <2>1 DEF RequestInv, SendersFine, StartersFine
  <2>4. PollsFine(r)'
    BY <1>1, <2>1 DEF RequestInv, PollsFine
  <2> QED BY <2>2, <2>3, <2>4 DEF RequestInv
<1> QED BY <1>4

LEMMA StartKeeps ==
  ASSUME VideosInv, NEW w \in Workers, StartAttempt(w)
  PROVE  \A q \in Requests : RequestInv(q)'
<1>0. /\ \A q \in Requests : RequestInv(q)
      /\ task \in [Workers -> {Idle} \cup Transfers] /\ Types
  BY DEF VideosInv, Types, TypeOK
<1>1. PICK r \in Requests, n \in 1..MaxRuns :
            /\ task[w].request = r /\ task[w].count = n - 1 /\ task[w].phase = "start"
            /\ row[r].attempt_count = n - 1
            /\ RowBecomes(r, "INITIALIZING", n, row[r].remote_post_id)
            /\ attempts' = [attempts EXCEPT ![r][n] = "STARTED"]
            /\ task' = [task EXCEPT ![w] = [phase |-> "init", request |-> r,
                                            status |-> "INITIALIZING", count |-> n]]
            /\ UNCHANGED <<remote, cleared, messages, hand, poll, crashes>>
  BY <1>0, StartEffect
<1>2. /\ task'[w].phase = "init" /\ task'[w].request = r /\ task'[w].count = n
      /\ \A v \in Workers \ {w} : task'[v] = task[v]
  BY <1>0, <1>1
<1>3. ASSUME NEW q \in Requests, q # r
      PROVE  RequestInv(q)'
  <2>1. attempts'[q] = attempts[q]
    BY <1>1, <1>3 DEF VideosInv, Types, TypeOK
  <2>2. Quiet(q)
    BY <1>1, <1>2, <1>3, <2>1 DEF Quiet, RowBecomes
  <2> QED BY <1>0, <2>2, QuietKeeps
<1>4. RequestInv(r)'
  <2>1. MayStart(w, r)
    BY <1>1 DEF MayStart
  <2>2. /\ row[r].status \in Startable \cup {"CANCELLED"} /\ Delivered(r) = {}
        /\ \A v \in Workers : ~Sends(v, r)
        /\ \A o \in Operators : ~(hand[o].request = r /\ hand[o].op \in {"POSTED", "REJECTED"})
    BY <1>0, <2>1 DEF RequestInv, StartersFine, HandsFine
  <2>3. row'[r].status = "INITIALIZING" /\ row'[r].attempt_count = n /\ Delivered(r)' = {}
    BY <1>1, <2>2 DEF RowBecomes, Delivered
  <2>4. \A v \in Workers : Sends(v, r)' => v = w
    BY <1>1, <1>2, <2>2 DEF Sends
  <2>5. \A v \in Workers : ~MayStart(v, r)'
    <3>1. ASSUME NEW v \in Workers, MayStart(v, r)'
          PROVE  FALSE
      <4>1. v # w /\ task'[v] = task[v] /\ task[v].count = n /\ task[v].request = r
        BY <1>2, <2>3, <3>1 DEF MayStart
      <4>2. task[v].count <= n - 1
        BY <1>1, <3>1, <4>1 DEF VideosInv, Types, TasksCount, MayStart, Phases
      <4> QED BY <4>1, <4>2, TikTokAssumption
    <3> QED BY <3>1
  <2>6. RequestFine(r)' /\ HandsFine(r)'
    <3>1. RequestFine(r)'
      BY <2>3 DEF RequestFine, Transferless, AfterTransfer, Refreshable
    <3>2. HandsFine(r)'
      BY <1>1, <2>2 DEF HandsFine
    <3> QED BY <3>1, <3>2
  <2>7. SendersFine(r)' /\ StartersFine(r)'
    BY <1>2, <2>3, <2>4, <2>5 DEF SendersFine, StartersFine
  <2>8. PollsFine(r)'
    <3>1. ASSUME NEW p \in Pollers, Polled(p, r)'
          PROVE  /\ poll[p].id = poll[p].count /\ poll[p].count <= n /\ poll[p].count # n
                 /\ poll[p].answer \in {"COMPLETE", "FAILED"} => remote[r][poll[p].id] = poll[p].answer
      <4>1. Polled(p, r) /\ poll[p] \in Polls
        BY <1>0, <1>1, <3>1 DEF Polled, Types, TypeOK
      <4>2. /\ poll[p].id = poll[p].count /\ poll[p].count <= n - 1
            /\ poll[p].answer \in {"COMPLETE", "FAILED"} => remote[r][poll[p].id] = poll[p].answer
        BY <1>0, <1>1, <4>1 DEF RequestInv, PollsFine
      <4>3. poll[p].count \in Int /\ n \in Int
        BY <4>1, TikTokAssumption DEF Polls
      <4> QED BY <4>2, <4>3
    <3> QED BY <1>1, <2>3, <3>1 DEF PollsFine
  <2> QED BY <2>6, <2>7, <2>8 DEF RequestInv
<1> QED BY <1>3, <1>4

(* While a task sends the last attempt, who polls has an earlier one.      *)
LEMMA EarlierPolls ==
  ASSUME VideosInv, NEW r \in Requests, NEW w \in Workers, Sends(w, r),
         NEW p \in Pollers, Polled(p, r)
  PROVE  /\ poll[p].id = poll[p].count /\ poll[p].id \in 1..MaxRuns
         /\ poll[p].count <= row[r].attempt_count /\ poll[p].count # row[r].attempt_count
         /\ poll[p].answer \in {"COMPLETE", "FAILED"} => remote[r][poll[p].id] = poll[p].answer
<1>1. poll[p] \in Polls
  BY DEF VideosInv, Types, TypeOK, Polled
<1> QED BY <1>1 DEF VideosInv, RequestInv, PollsFine, Polls

LEMMA InitializeKeeps ==
  ASSUME VideosInv, NEW w \in Workers, Initialize(w)
  PROVE  \A q \in Requests : RequestInv(q)'
<1>0. /\ \A q \in Requests : RequestInv(q)
      /\ task \in [Workers -> {Idle} \cup Transfers] /\ Types
      /\ remote \in [Requests -> [1..MaxRuns -> Remote]]
  BY DEF VideosInv, Types, TypeOK
<1>1. PICK r \in Requests, n \in 1..MaxRuns, t \in Transfers :
            /\ task[w].request = r /\ task[w].count = n /\ task[w].phase = "init"
            /\ RowBecomes(r, "TRANSFERRING", row[r].attempt_count, n)
            /\ remote' = [remote EXCEPT ![r][n] = "OPEN"]
            /\ t.phase = "transfer" /\ t.request = r /\ t.count = n
            /\ task' = [task EXCEPT ![w] = t]
            /\ UNCHANGED <<attempts, cleared, messages, hand, poll, crashes>>
  BY <1>0, InitializeEffect
<1>2. /\ task'[w].phase = "transfer" /\ task'[w].request = r /\ task'[w].count = n
      /\ \A v \in Workers \ {w} : task'[v] = task[v]
  BY <1>0, <1>1
<1>3. ASSUME NEW q \in Requests, q # r
      PROVE  RequestInv(q)'
  <2>1. remote'[q] = remote[q]
    BY <1>0, <1>1, <1>3
  <2>2. Quiet(q)
    BY <1>1, <1>2, <1>3, <2>1 DEF Quiet, RowBecomes
  <2> QED BY <1>0, <2>2, QuietKeeps
<1>4. RequestInv(r)'
  <2>1. Sends(w, r)
    BY <1>1 DEF Sends, Sending
  <2>2. /\ row[r].attempt_count = n /\ Delivered(r) = {}
        /\ row[r].status \in {"INITIALIZING", "TRANSFERRING", "CANCELLED"}
        /\ \A v \in Workers : Sends(v, r) => v = w
    BY <1>0, <1>1, <2>1 DEF RequestInv, SendersFine
  <2>3. /\ row'[r].status = "TRANSFERRING" /\ row'[r].attempt_count = n
        /\ row'[r].remote_post_id = n
    BY <1>1, <2>2 DEF RowBecomes
  <2>4. Delivered(r)' = {}
    BY <1>0, <1>1, <2>2 DEF Delivered
  <2>5. /\ \A v \in Workers : Sends(v, r)' => v = w
        /\ \A v \in Workers : ~MayStart(v, r)'
    <3>1. \A v \in Workers : ~MayStart(v, r)
      BY <1>0, <2>1 DEF RequestInv, StartersFine
    <3> QED BY <1>1, <1>2, <2>2, <2>3, <3>1 DEF Sends, MayStart
  <2>6. RequestFine(r)' /\ HandsFine(r)'
    <3>1. RequestFine(r)'
      BY <2>3, <2>4 DEF RequestFine, Transferless, AfterTransfer, Refreshable
    <3>2. HandsFine(r)'
      BY <1>0, <1>1, <2>1 DEF RequestInv, HandsFine
    <3> QED BY <3>1, <3>2
  <2>7. SendersFine(r)' /\ StartersFine(r)'
    BY <1>2, <2>3, <2>4, <2>5 DEF SendersFine, StartersFine
  <2>8. PollsFine(r)'
    BY <1>0, <1>1, <2>1, <2>2, <2>3, EarlierPolls DEF PollsFine, Polled
  <2> QED BY <2>6, <2>7, <2>8 DEF RequestInv
<1> QED BY <1>3, <1>4

LEMMA ReceivesKeeps ==
  ASSUME VideosInv, NEW w \in Workers, TikTokReceives(w)
  PROVE  \A q \in Requests : RequestInv(q)'
<1>0. /\ \A q \in Requests : RequestInv(q)
      /\ task \in [Workers -> {Idle} \cup Transfers] /\ Types
      /\ remote \in [Requests -> [1..MaxRuns -> Remote]]
  BY DEF VideosInv, Types, TypeOK
<1>1. PICK r \in Requests, n \in 1..MaxRuns, t \in Transfers :
            /\ task[w].request = r /\ task[w].count = n /\ task[w].phase = "transfer"
            /\ remote' = [remote EXCEPT ![r][n] = "RECEIVED"]
            /\ t.phase = "received" /\ t.request = r /\ t.count = n
            /\ task' = [task EXCEPT ![w] = t]
            /\ UNCHANGED <<row, attempts, cleared, messages, hand, poll, crashes>>
  BY <1>0, ReceivesEffect
<1>2. /\ task'[w].phase = "received" /\ task'[w].request = r /\ task'[w].count = n
      /\ \A v \in Workers \ {w} : task'[v] = task[v]
  BY <1>0, <1>1
<1>3. ASSUME NEW q \in Requests, q # r
      PROVE  RequestInv(q)'
  <2>1. remote'[q] = remote[q]
    BY <1>0, <1>1, <1>3
  <2>2. Quiet(q)
    BY <1>1, <1>2, <1>3, <2>1 DEF Quiet
  <2> QED BY <1>0, <2>2, QuietKeeps
<1>4. RequestInv(r)'
  <2>1. Sends(w, r)
    BY <1>1 DEF Sends, Sending
  <2>2. /\ row[r].attempt_count = n /\ row[r].remote_post_id = n /\ Delivered(r) = {}
        /\ row[r].status \in {"INITIALIZING", "TRANSFERRING", "CANCELLED"}
        /\ \A v \in Workers : Sends(v, r) => v = w
        /\ \A v \in Workers : ~MayStart(v, r)
        /\ \A o \in Operators : ~(hand[o].request = r /\ hand[o].op \in {"POSTED", "REJECTED"})
    BY <1>0, <1>1, <2>1 DEF RequestInv, SendersFine, StartersFine, HandsFine
  <2>3. Delivered(r)' \subseteq {n}
    BY <1>0, <1>1, <2>2 DEF Delivered
  <2>4. /\ \A v \in Workers : Sends(v, r)' => v = w
        /\ \A v \in Workers : ~MayStart(v, r)'
    BY <1>1, <1>2, <2>2 DEF Sends, MayStart
  <2>5. RequestFine(r)' /\ HandsFine(r)'
    BY <1>0, <1>1, <2>2, <2>3
    DEF RequestInv, RequestFine, HandsFine, Transferless, AfterTransfer, Refreshable
  <2>6. SendersFine(r)' /\ StartersFine(r)'
    BY <1>1, <1>2, <2>2, <2>4 DEF SendersFine, StartersFine
  <2>7. PollsFine(r)'
    BY <1>0, <1>1, <2>1, <2>2, EarlierPolls DEF PollsFine, Polled
  <2> QED BY <2>5, <2>6, <2>7 DEF RequestInv
<1> QED BY <1>3, <1>4

LEMMA EndsKeep ==
  ASSUME VideosInv, NEW w \in Workers, TransferFails(w) \/ TransferSucceeds(w)
  PROVE  \A q \in Requests : RequestInv(q)'
<1>0. /\ \A q \in Requests : RequestInv(q)
      /\ task \in [Workers -> {Idle} \cup Transfers] /\ Types
      /\ attempts \in [Requests -> [1..MaxRuns -> PublishAttempt]]
  BY DEF VideosInv, Types, TypeOK
<1>1. PICK r \in Requests, n \in 1..MaxRuns, status \in Statuses, outcome \in PublishAttempt :
            /\ task[w].request = r /\ task[w].count = n /\ task[w].phase \in Sending
            /\ outcome # "NONE"
            /\ RowBecomes(r, status, row[r].attempt_count, row[r].remote_post_id)
            /\ attempts' = [attempts EXCEPT ![r][n] = outcome]
            /\ task' = [task EXCEPT ![w] = Idle]
            /\ UNCHANGED <<remote, cleared, messages, hand, poll, crashes>>
            /\ \/ status = "FAILED" /\ task[w].phase \in {"init", "transfer"}
               \/ /\ status \in {"UNKNOWN_REMOTE_OUTCOME", "PROCESSING"}
                  /\ task[w].phase \in {"transfer", "received"}
                  /\ outcome # "DRAFT_TRANSFERRED"
               \/ /\ status = "OPERATOR_COMPLETION_REQUIRED" /\ outcome = "DRAFT_TRANSFERRED"
                  /\ task[w].phase = "received"
  BY <1>0, EndsEffect
<1>2. task'[w].phase = "idle" /\ \A v \in Workers \ {w} : task'[v] = task[v]
  BY <1>0, <1>1 DEF Idle
<1>3. ASSUME NEW q \in Requests, q # r
      PROVE  RequestInv(q)'
  <2>1. attempts'[q] = attempts[q]
    BY <1>0, <1>1, <1>3
  <2>2. Quiet(q)
    BY <1>1, <1>2, <1>3, <2>1 DEF Quiet, RowBecomes, Phases
  <2> QED BY <1>0, <2>2, QuietKeeps
<1>4. RequestInv(r)'
  <2>1. Sends(w, r)
    BY <1>1 DEF Sends
  <2>2. /\ row[r].attempt_count = n
        /\ task[w].phase # "received" => Delivered(r) = {}
        /\ task[w].phase # "init" => row[r].remote_post_id = n
        /\ row[r].status \in {"INITIALIZING", "TRANSFERRING", "CANCELLED"}
        /\ \A v \in Workers : Sends(v, r) => v = w
        /\ \A v \in Workers : ~MayStart(v, r)
        /\ \A o \in Operators : ~(hand[o].request = r /\ hand[o].op \in {"POSTED", "REJECTED"})
        /\ Delivered(r) \subseteq {n}
    BY <1>0, <1>1, <2>1 DEF RequestInv, SendersFine, StartersFine, HandsFine, RequestFine
  <2>3. /\ row'[r].status = status /\ row'[r].attempt_count = n
        /\ row'[r].remote_post_id = row[r].remote_post_id
        /\ Delivered(r)' = Delivered(r) /\ attempts'[r][n] = outcome
    BY <1>0, <1>1, <2>2 DEF RowBecomes, Delivered
  <2>4. \A v \in Workers : ~Sends(v, r)' /\ ~MayStart(v, r)'
    BY <1>1, <1>2, <2>2, <2>3 DEF Sends, MayStart, Sending
  <2>5. RequestFine(r)'
    BY <1>1, <2>2, <2>3 DEF RequestFine, Transferless, AfterTransfer, Refreshable
  <2>6. HandsFine(r)'
    BY <1>1, <2>2 DEF HandsFine
  <2>7. SendersFine(r)' /\ StartersFine(r)'
    BY <2>4 DEF SendersFine, StartersFine
  <2>8. PollsFine(r)'
    BY <1>0, <1>1, <2>1, <2>2, <2>3, EarlierPolls DEF PollsFine, Polled
  <2> QED BY <2>5, <2>6, <2>7, <2>8 DEF RequestInv
<1> QED BY <1>3, <1>4

(* What leaves rows, attempts and transfers alone and takes up nothing.    *)
LEMMA LeavingKeeps ==
  ASSUME VideosInv,
         \/ \E w \in Workers : TurnAway(w) \/ AttemptExists(w) \/ Crash(w)
         \/ \E o \in Operators : SendTask(o) \/ HandlerFails(o)
         \/ \E p \in Pollers : PollFails(p)
         \/ \E r \in Requests : ReviewDecision(r)
         \/ UNCHANGED vars
  PROVE  \A q \in Requests : RequestInv(q)'
<1>1. /\ task \in [Workers -> {Idle} \cup Transfers]
      /\ hand \in [Operators -> {NoHand} \cup Hands] /\ poll \in [Pollers -> {NoPoll} \cup Polls]
      /\ \A q \in Requests : RequestInv(q)
  BY DEF VideosInv, Types, TypeOK
<1>2. UNCHANGED <<row, attempts, remote>>
  BY DEF TurnAway, AttemptExists, Crash, SendTask, HandlerFails, PollFails, ReviewDecision, vars
<1>3. \A w \in Workers : task'[w] = task[w] \/ task'[w].phase \notin Phases
  <2>1. UNCHANGED task \/ \E w \in Workers : task' = [task EXCEPT ![w] = Idle]
    BY DEF TurnAway, AttemptExists, Crash, SendTask, HandlerFails, PollFails, ReviewDecision, vars,
        EndTask
  <2> QED BY <1>1, <2>1 DEF Idle, Phases
<1>4. \A p \in Pollers : poll'[p] = poll[p] \/ poll'[p] = NoPoll
  <2>1. UNCHANGED poll \/ \E p \in Pollers : poll' = [poll EXCEPT ![p] = NoPoll]
    BY DEF TurnAway, AttemptExists, Crash, SendTask, HandlerFails, PollFails, ReviewDecision, vars
  <2> QED BY <1>1, <2>1
<1>5. \A o \in Operators : hand'[o] = hand[o] \/ hand'[o].op = "IDLE"
  <2>1. UNCHANGED hand \/ \E o \in Operators : hand' = [hand EXCEPT ![o] = NoHand]
    BY DEF TurnAway, AttemptExists, Crash, SendTask, HandlerFails, PollFails, ReviewDecision, vars,
        Release
  <2> QED BY <1>1, <2>1 DEF NoHand
<1>6. ASSUME NEW q \in Requests
      PROVE  RequestInv(q)'
  <2>1. Quiet(q)
    BY <1>2, <1>3, <1>4, <1>5 DEF Quiet
  <2> QED BY <1>1, <2>1, QuietKeeps
<1> QED BY <1>6

-----------------------------------------------------------------------------
(* Polls.                                                                  *)

LEMMA BeginPollKeeps ==
  ASSUME VideosInv, NEW p \in Pollers, NEW r \in Requests, TickPoll(p, r) \/ RefreshRequest(p, r)
  PROVE  \A q \in Requests : RequestInv(q)'
<1>0. /\ UNCHANGED <<row, attempts, remote, cleared, messages, hand, task, crashes>>
      /\ \A q \in Requests : RequestInv(q)
      /\ poll \in [Pollers -> {NoPoll} \cup Polls] /\ row[r].status \in Refreshable
  BY DEF TickPoll, RefreshRequest, BeginPoll, VideosInv, Types, TypeOK, Due, Refreshable
<1>1. /\ poll'[p].answer = "UNASKED" /\ poll'[p].request = r
      /\ poll'[p].id = row[r].remote_post_id /\ poll'[p].count = row[r].attempt_count
      /\ \A q \in Pollers \ {p} : poll'[q] = poll[q]
  BY <1>0 DEF TickPoll, RefreshRequest, BeginPoll
<1>2. ASSUME NEW q \in Requests, q # r
      PROVE  RequestInv(q)'
  <2>1. Quiet(q)
    BY <1>0, <1>1, <1>2 DEF Quiet
  <2> QED BY <1>0, <2>1, QuietKeeps
<1>3. RequestInv(r)'
  <2>1. /\ \A w \in Workers : ~Sends(w, r) /\ ~MayStart(w, r)
        /\ row[r].remote_post_id = row[r].attempt_count
        /\ attempts[r][row[r].attempt_count] # "DRAFT_TRANSFERRED"
        /\ row[r].attempt_count <= row[r].attempt_count
    BY <1>0, Excluded, TikTokAssumption
    DEF Refreshable, Startable, RequestInv, RequestFine, AfterTransfer
  <2>2. /\ \A w \in Workers : (Sends(w, r)' <=> Sends(w, r)) /\ (MayStart(w, r)' <=> MayStart(w, r))
        /\ Delivered(r)' = Delivered(r)
    BY <1>0 DEF Sends, MayStart, Delivered
  <2>3. RequestFine(r)' /\ HandsFine(r)' /\ SendersFine(r)' /\ StartersFine(r)'
    BY <1>0, <2>2 DEF RequestInv, RequestFine, HandsFine, SendersFine, StartersFine
  <2>4. PollsFine(r)'
    BY <1>0, <1>1, <2>1, <2>2 DEF RequestInv, PollsFine, Polled
  <2> QED BY <2>3, <2>4 DEF RequestInv
<1> QED BY <1>2, <1>3

LEMMA AskKeeps ==
  ASSUME VideosInv, NEW p \in Pollers, AskTikTok(p)
  PROVE  \A q \in Requests : RequestInv(q)'
<1>0. /\ UNCHANGED <<row, attempts, remote, cleared, messages, hand, task, crashes>>
      /\ \A q \in Requests : RequestInv(q)
      /\ poll \in [Pollers -> {NoPoll} \cup Polls]
  BY DEF AskTikTok, VideosInv, Types, TypeOK
<1>1. poll[p] \in Polls
  BY <1>0 DEF AskTikTok, NoPoll
<1>2. /\ poll'[p].answer = remote[poll[p].request][poll[p].id]
      /\ poll'[p].request = poll[p].request /\ poll'[p].id = poll[p].id
      /\ poll'[p].count = poll[p].count
      /\ \A q \in Pollers \ {p} : poll'[q] = poll[q]
  BY <1>0, <1>1 DEF AskTikTok, Polls
<1>3. ASSUME NEW r \in Requests
      PROVE  RequestInv(r)'
  <2>1. \A q \in Pollers : Polled(q, r)' => Polled(q, r)
    BY <1>1, <1>2 DEF Polled, NoPoll, Polls
  <2>2. /\ \A w \in Workers : (Sends(w, r)' <=> Sends(w, r)) /\ (MayStart(w, r)' <=> MayStart(w, r))
        /\ Delivered(r)' = Delivered(r)
    BY <1>0 DEF Sends, MayStart, Delivered
  <2>3. RequestFine(r)' /\ HandsFine(r)' /\ SendersFine(r)' /\ StartersFine(r)'
    BY <1>0, <2>2 DEF RequestInv, RequestFine, HandsFine, SendersFine, StartersFine
  <2>4. PollsFine(r)'
    BY <1>0, <1>2, <2>1, <2>2 DEF RequestInv, PollsFine, Polled
  <2> QED BY <2>3, <2>4 DEF RequestInv
<1> QED BY <1>3

LEMMA CommitPollKeeps ==
  ASSUME VideosInv, NEW p \in Pollers, ~LateAnswer(p), CommitPoll(p)
  PROVE  \A q \in Requests : RequestInv(q)'
<1>0. /\ \A q \in Requests : RequestInv(q)
      /\ poll \in [Pollers -> {NoPoll} \cup Polls] /\ Types
  BY DEF VideosInv, Types, TypeOK
<1>1. PICK r \in Requests, n \in 1..MaxRuns :
            /\ poll[p] \in Polls /\ poll[p].request = r /\ poll[p].id = n
            /\ poll' = [poll EXCEPT ![p] = NoPoll]
            /\ UNCHANGED <<attempts, remote, cleared, messages, hand, task, crashes>>
            /\ \/ UNCHANGED row
               \/ \E status \in {"SUCCEEDED", "FAILED", "MANUAL_RECONCILIATION_REQUIRED"} :
                     /\ RowBecomes(r, status, row[r].attempt_count, row[r].remote_post_id)
                     /\ status = "SUCCEEDED" => poll[p].answer = "COMPLETE"
                     /\ status = "FAILED" => poll[p].answer = "FAILED"
                     /\ status = "MANUAL_RECONCILIATION_REQUIRED" =>
                           poll[p].answer \notin {"COMPLETE", "FAILED"}
  BY <1>0, PollEffect
<1>2. \A q \in Pollers : poll'[q] = poll[q] \/ poll'[q] = NoPoll
  BY <1>0, <1>1
<1>3. ASSUME NEW q \in Requests, q # r
      PROVE  RequestInv(q)'
  <2>1. Quiet(q)
    BY <1>1, <1>2, <1>3 DEF Quiet, RowBecomes
  <2> QED BY <1>0, <2>1, QuietKeeps
<1>4. CASE UNCHANGED row
  <2>1. Quiet(r)
    BY <1>1, <1>2, <1>4 DEF Quiet
  <2> QED BY <1>0, <1>3, <2>1, QuietKeeps
<1>5. CASE ~UNCHANGED row
  <2>1. PICK status \in {"SUCCEEDED", "FAILED", "MANUAL_RECONCILIATION_REQUIRED"} :
           /\ RowBecomes(r, status, row[r].attempt_count, row[r].remote_post_id)
           /\ status = "SUCCEEDED" => poll[p].answer = "COMPLETE"
           /\ status = "FAILED" => poll[p].answer = "FAILED"
           /\ status = "MANUAL_RECONCILIATION_REQUIRED" =>
                 poll[p].answer \notin {"COMPLETE", "FAILED"}
    BY <1>1, <1>5
  <2>2. Polled(p, r)
    BY <1>1 DEF Polled, NoPoll, Polls, Remote
  <2>3. /\ row[r].attempt_count = poll[p].count
        /\ poll[p].answer \notin {"COMPLETE", "FAILED"} => row[r].status \in Refreshable
    BY <1>1, <1>5 DEF LateAnswer
  <2>4. /\ row[r].attempt_count = n /\ row[r].remote_post_id = n
        /\ poll[p].answer \in {"COMPLETE", "FAILED"} => remote[r][n] = poll[p].answer
        /\ attempts[r][n] # "DRAFT_TRANSFERRED"
        /\ \A w \in Workers : ~Sends(w, r)
        /\ Delivered(r) \subseteq {n}
    BY <1>0, <1>1, <2>2, <2>3 DEF RequestInv, PollsFine, RequestFine
  <2>5. /\ row'[r].status = status /\ row'[r].attempt_count = n /\ row'[r].remote_post_id = n
        /\ Delivered(r)' = Delivered(r)
    BY <1>1, <2>1, <2>4 DEF RowBecomes, Delivered
  <2>6. status = "FAILED" => Delivered(r) = {}
    <3>1. status = "FAILED" => n \notin Delivered(r)
      BY <2>1, <2>4 DEF Delivered
    <3> QED BY <2>4, <3>1
  <2>7. status = "SUCCEEDED" => Delivered(r) # {}
    BY <2>1, <2>4 DEF Delivered
  <2>8. status \in Startable \/ \A w \in Workers : ~MayStart(w, r)
    BY <1>0, <2>1, <2>3, <2>7, Excluded DEF RequestInv, StartersFine, Startable, Refreshable
  <2>9. RequestFine(r)'
    BY <1>1, <2>1, <2>4, <2>5, <2>6 DEF RequestFine, Transferless, AfterTransfer, Refreshable
  <2>10. HandsFine(r)'
    BY <1>0, <1>1, <2>4 DEF RequestInv, HandsFine
  <2>11. RequestInv(r)'
    BY <1>1, <1>2, <2>1, <2>4, <2>8, <2>9, <2>10, StatusKeeps
  <2> QED BY <1>3, <2>11
<1> QED BY <1>4, <1>5

-----------------------------------------------------------------------------
LEMMA VideosKept ==
  ASSUME VideosInv, [Next]_vars, [InTime]_vars
  PROVE  VideosInv'
<1>1. Types'
  BY TypesKept DEF VideosInv
<1>2. \A q \in Requests : RequestInv(q)'
  <2>1. CASE \E r \in Requests : RequestTikTokPublish(r)
    <3>1. PICK r \in Requests : RequestTikTokPublish(r)
      BY <2>1
    <3>2. /\ RowBecomes(r, "AWAITING_CONFIRMATION", row[r].attempt_count, row[r].remote_post_id)
          /\ UNCHANGED <<attempts, remote, cleared, messages, hand, task, poll, crashes>>
      BY <3>1, StatusWritten DEF RequestTikTokPublish, Statuses, VideosInv, Types, TypeOK
    <3>3. \A q \in Requests \ {r} : Quiet(q)
      BY <3>2 DEF RowBecomes, Quiet
    <3> QED BY <3>1, <3>3, QuietKeeps, RequestedKeeps DEF VideosInv
  <2>0. InTime \/ UNCHANGED vars
    OBVIOUS
  <2>2. CASE InTime /\ \E o \in Operators : OperatorStep(o)
    BY <2>2, LoadKeeps, HandlerKeeps, LeavingKeeps DEF OperatorStep, InTime
  <2>3. CASE \E w \in Workers : WorkerStep(w)
    BY <2>3, DeliverKeeps, PassKeeps, StartKeeps, InitializeKeeps, ReceivesKeeps, EndsKeep,
       LeavingKeeps DEF WorkerStep, TaskStep
  <2>4. CASE InTime /\ \E p \in Pollers : PollStep(p)
    BY <2>4, BeginPollKeeps, AskKeeps, CommitPollKeeps, LeavingKeeps DEF PollStep, InTime
  <2> QED BY <2>0, <2>1, <2>2, <2>3, <2>4, DecidesKeeps, LeavingKeeps DEF Next
<1> QED BY <1>1, <1>2 DEF VideosInv

LEMMA VideosAreRecorded ==
  ASSUME VideosInv
  PROVE  VideoAsRecorded
<1>1. ASSUME NEW r \in Requests
      PROVE  /\ Cardinality(Delivered(r)) <= IF row[r].status = "FAILED" THEN 0 ELSE 1
             /\ row[r].status = "SUCCEEDED" =>
                  /\ row[r].remote_post_id # 0
                  /\ \/ remote[r][row[r].remote_post_id] = "COMPLETE"
                     \/ /\ row[r].posted
                        /\ attempts[r][row[r].remote_post_id] = "DRAFT_TRANSFERRED"
  <2>1. RequestFine(r)
    BY DEF VideosInv, RequestInv
  <2>2. PICK n : n = row[r].attempt_count
    OBVIOUS
  <2>3. Delivered(r) = {} \/ Delivered(r) = {n}
    BY <2>1, <2>2 DEF RequestFine
  <2>4. Cardinality({}) = 0 /\ Cardinality({n}) = 1
    BY FS_EmptySet, FS_Singleton
  <2>5. Cardinality(Delivered(r)) <= IF row[r].status = "FAILED" THEN 0 ELSE 1
    BY <2>1, <2>3, <2>4 DEF RequestFine
  <2> QED BY <2>1, <2>5 DEF RequestFine, AfterTransfer
<1> QED BY <1>1 DEF VideoAsRecorded

(* What a request says of its videos is true (see VideoAsRecorded), for    *)
(* any number of requests, operators, workers, polls, messages, crashes    *)
(* and lost answers, and however they interleave, until a confirmation is  *)
(* committed after the first attempt or a poll's answer after what it is   *)
(* about: only such a late write spoils it, and it does.                   *)
THEOREM TransfersAreRecorded == Spec /\ NoLateWrite => []VideoAsRecorded
<1>1. Init => VideosInv
  BY InitVideos
<1>2. VideosInv /\ [Next]_vars /\ [InTime]_vars => VideosInv'
  BY VideosKept
<1>3. VideosInv => VideoAsRecorded
  BY VideosAreRecorded
<1> QED BY <1>1, <1>2, <1>3, PTL DEF Spec, NoLateWrite

(* As long as there is no late write, an uncertain outcome is never        *)
(* transferred again: a task that could still open an attempt excludes it. *)
THEOREM UncertainIsResolved == Spec /\ NoLateWrite => UncertainIsNotRetried
<1>1. Init => VideosInv
  BY InitVideos
<1>2. VideosInv /\ [Next]_vars /\ [InTime]_vars => VideosInv'
  BY VideosKept
<1>3. VideosInv /\ [Next]_vars =>
        [\A r \in Requests :
            row[r].status \in {"UNKNOWN_REMOTE_OUTCOME", "MANUAL_RECONCILIATION_REQUIRED"}
                => row'[r].attempt_count = row[r].attempt_count]_vars
  <2> SUFFICES ASSUME VideosInv, Next, NEW r \in Requests,
                      row[r].status \in {"UNKNOWN_REMOTE_OUTCOME", "MANUAL_RECONCILIATION_REQUIRED"}
               PROVE  row'[r].attempt_count = row[r].attempt_count
    BY DEF vars
  <2>1. row \in [Requests -> PublishRequest] /\ Types /\ RequestInv(r)
    BY DEF VideosInv, Types, TypeOK
  <2>2. CASE \E q \in Requests : RequestTikTokPublish(q)
    BY <2>1, <2>2, StatusWritten DEF RequestTikTokPublish, RowBecomes, Statuses
  <2>3. CASE \E o \in Operators : OperatorStep(o)
    <3>1. PICK o \in Operators : OperatorStep(o)
      BY <2>3
    <3>2. CASE CommitConfirm(o) \/ CommitCancel(o) \/ CompleteDraft(o)
      BY <2>1, <3>2, HandlerEffect, CountsStay DEF CommitConfirm, CommitCancel, CompleteDraft
    <3>3. CASE UNCHANGED row
      BY <3>3
    <3> QED BY <3>1, <3>2, <3>3 DEF OperatorStep, Load, SendTask, HandlerFails
  <2>4. CASE \E w \in Workers : StartAttempt(w)
    <3>1. PICK w \in Workers, q \in Requests, n \in 1..MaxRuns :
             /\ task[w].request = q /\ task[w].count = n - 1 /\ task[w].phase = "start"
             /\ row[q].attempt_count = n - 1
             /\ RowBecomes(q, "INITIALIZING", n, row[q].remote_post_id)
      BY <2>1, <2>4, StartEffect
    <3>2. MayStart(w, q)
      BY <3>1 DEF MayStart
    <3>3. q # r
      BY <2>1, <3>2 DEF RequestInv, StartersFine, Startable
    <3> QED BY <3>1, <3>3 DEF RowBecomes
  <2>5. CASE \E w \in Workers : Initialize(w) \/ TransferFails(w) \/ TransferSucceeds(w)
    BY <2>1, <2>5, InitializeEffect, EndsEffect, CountsStay
  <2>6. CASE \E p \in Pollers : CommitPoll(p)
    BY <2>1, <2>6, PollEffect, CountsStay
  <2>7. CASE UNCHANGED row
    BY <2>7
  <2>8. ASSUME NEW w \in Workers, WorkerStep(w)
        PROVE  \/ UNCHANGED row
               \/ StartAttempt(w) \/ Initialize(w) \/ TransferFails(w) \/ TransferSucceeds(w)
    BY <2>8 DEF WorkerStep, TaskStep, Deliver, Crash, TurnAway, PassPreconditions, AttemptExists,
        TikTokReceives
  <2>9. ASSUME NEW p \in Pollers, PollStep(p)
        PROVE  UNCHANGED row \/ CommitPoll(p)
    BY <2>9 DEF PollStep, TickPoll, RefreshRequest, BeginPoll, AskTikTok, PollFails
  <2> QED BY <2>2, <2>3, <2>4, <2>5, <2>6, <2>7, <2>8, <2>9
      DEF Next, ReviewDecision, TikTokDecides
<1> QED BY <1>1, <1>2, <1>3, PTL DEF Spec, NoLateWrite, UncertainIsNotRetried
=============================================================================
