---------------------------- MODULE CeleryWorkers ----------------------------
(***************************************************************************)
(* The broker, the Celery workers that run its messages one at a time, and *)
(* the handlers of the API and the Discord bot that run beside them.       *)
(*                                                                         *)
(* Source: app/worker.py (the Celery configuration and the shape that all  *)
(* tasks have) and the way app/api.py and app/discord_bot.py open one      *)
(* database session per call.                                              *)
(*                                                                         *)
(* A message is acknowledged when its task ends, also when it ends in an   *)
(* exception (task_acks_late); a worker that dies leaves it to be          *)
(* delivered again.  What a task or a handler has not committed is gone    *)
(* with its session.  The components' modules extend this one.             *)
(***************************************************************************)
EXTENDS Integers, FiniteSets

CONSTANTS
    Operators,      \* API and Discord handlers that run at one time
    Workers,        \* Celery worker processes, one task each
    Messages,       \* what .delay() sends: a task's name and its arguments
    MaxMessages,    \* bound: equal undelivered messages that are told apart
    MaxFaults,      \* bound: crashes and uncaught exceptions
    NoMessage       \* what a handler has instead of a message

ASSUME CeleryAssumption ==
    /\ Operators \cap Workers = {}
    /\ MaxMessages \in Nat \ {0} /\ MaxFaults \in Nat
    /\ NoMessage \notin Messages

VARIABLES
    messages,   \* undelivered messages in the broker, by how many
    session,    \* what each handler or worker is doing, with its copies of rows
    lost,       \* messages whose task ended in an exception it does not catch
    faults      \* crashes and uncaught exceptions so far

Actors == Operators \cup Workers

Idle == [op |-> "IDLE", at |-> "IDLE"]

(* session_factory: a handler or a task begins with a session of its own   *)
(* and ends by closing it.                                                 *)
Free(a) == session[a] = Idle
Begin(a, s) == session' = [session EXCEPT ![a] = s]
Goto(a, place) == session' = [session EXCEPT ![a].at = place]
End(a) == session' = [session EXCEPT ![a] = Idle]
At(a, op, place) == session[a].op = op /\ session[a].at = place

(* What a commit makes of a column, from the value in the row, the copy's  *)
(* and the new one: SQLAlchemy writes the columns that changed in the copy.*)
(* (Mutant: every column.)                                                 *)
Overwritten(row, copy, new) == new
Updated(row, copy, new) == IF new = copy THEN row ELSE new

(* .delay(); one more message than MaxMessages of a kind makes no odds.    *)
Queued(m) == [messages EXCEPT ![m] = IF @ < MaxMessages THEN @ + 1 ELSE @]

(* A worker receives the message, its task begins as s.                    *)
Receive(w, m, s) ==
    /\ Free(w)
    /\ messages[m] > 0
    /\ messages' = [messages EXCEPT ![m] = @ - 1]
    /\ Begin(w, s)
    /\ UNCHANGED <<lost, faults>>

(* What the broker has once the process is dead: the message of a task was *)
(* not acknowledged.  (Mutant: it was, when the task began.)               *)
AcknowledgedEarly(s) == messages
Unacknowledged(s) == IF s.message = NoMessage THEN messages ELSE Queued(s.message)

(* The process dies: a worker's message comes back, a handler's caller has *)
(* to ask again.  (A pool child that is killed alone has its message       *)
(* acknowledged: that is Uncaught.)                                        *)
Crash(a) ==
    /\ ~Free(a)
    /\ faults < MaxFaults
    /\ faults' = faults + 1
    /\ messages' = Unacknowledged(session[a])
    /\ End(a)
    /\ UNCHANGED lost

(* A task outlasts the broker's visibility timeout, and its message is     *)
(* delivered again although it goes on.                                    *)
Redeliver(w) ==
    /\ w \in Workers /\ ~Free(w)
    /\ faults < MaxFaults
    /\ faults' = faults + 1
    /\ messages' = Queued(session[w].message)
    /\ UNCHANGED <<session, lost>>

(* A task or a handler ends in an exception it does not catch: an I/O or   *)
(* database error, a violated constraint.  Its message is acknowledged.    *)
EndInException(a) ==
    /\ lost' = lost \cup ({session[a].message} \ {NoMessage})
    /\ End(a)

Uncaught(a) ==
    /\ ~Free(a)
    /\ faults < MaxFaults
    /\ faults' = faults + 1
    /\ EndInException(a)
    /\ UNCHANGED messages

CeleryTypeOK ==
    /\ messages \in [Messages -> 0..MaxMessages]
    /\ lost \subseteq Messages
    /\ faults \in 0..MaxFaults
    /\ \A a \in Operators : session[a] # Idle => session[a].message = NoMessage
    /\ \A w \in Workers : session[w] # Idle => session[w].message \in Messages

CeleryInit ==
    /\ messages = [m \in Messages |-> 0]
    /\ session = [a \in Actors |-> Idle]
    /\ lost = {}
    /\ faults = 0
=============================================================================
