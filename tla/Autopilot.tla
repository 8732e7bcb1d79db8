----------------------------- MODULE Autopilot -----------------------------
(***************************************************************************)
(* Autopilot: the global control, a brand's policy, the decisions that     *)
(* follow from them, the exceptions that refused decisions open, and the   *)
(* slots of the schedule.                                                  *)
(*                                                                         *)
(* Source: app/autopilot/service.py, the autopilot endpoints of            *)
(* app/api.py, and advance_eligible_projects and                           *)
(* execute_due_scheduled_content of app/worker.py.                         *)
(*                                                                         *)
(* The versions that operators send are compared with copies.  A session   *)
(* goes on with its copy of the policy, also after its first commit.       *)
(***************************************************************************)
EXTENDS Production

CONSTANTS
    Items,              \* posting-queue items of the brand
    Times,              \* times of the destination's schedule
    MaxPolicyVersions   \* bound: versions of the policy

ASSUME AutopilotAssumption ==
    /\ None \notin Times /\ "project" \notin Items
    /\ MaxPolicyVersions \in Nat \ {0}

VARIABLES
    control,        \* the row of autopilot_global_controls
    policy,         \* the brand's row of autopilot_policies
    policies,       \* every content that the policy has had
    decisions,      \* autopilot_decisions
    exceptions,     \* the objects with an OPEN exception and its OPEN task
    slot            \* autopilot_schedule_slots, by item

(* paused stands for the pause of the group that an action belongs to.     *)
Control == [emergency_stop : BOOLEAN, paused : BOOLEAN]

(* permits: level, configuration and is_paused let content be scheduled    *)
(* without review.                                                         *)
Policy == [permits : BOOLEAN, version : 1..MaxPolicyVersions]

Objects == Items \cup {"project"}

AutopilotTypeOK ==
    /\ control \in Control
    /\ policy \in Policy /\ policies \subseteq Policy
    /\ decisions \subseteq
          [object : Objects, allowed : BOOLEAN, policy_version : 1..MaxPolicyVersions]
    /\ exceptions \subseteq Objects
    /\ slot \in [Items -> [scheduled_for : Times \cup {None},
                           policy_version : 0..MaxPolicyVersions]]

AdvanceMessage == [task |-> "advance_eligible_projects"]
DueMessage == [task |-> "execute_due_scheduled_content"]

autopilotRows == <<control, policy, policies, decisions, exceptions, slot>>

-----------------------------------------------------------------------------
(* The controls.                                                           *)

LoadControl(o) ==
    /\ Free(o)
    /\ Begin(o, [op |-> "CONTROL", at |-> "loaded", message |-> NoMessage, copy |-> control])
    /\ UNCHANGED <<autopilotRows, messages, lost, faults>>

(* set_global_control sets the switches that the operator names, one or    *)
(* several; the others are as in the copy.                                 *)
CommitControl(o) ==
    LET copy == session[o].copy IN
    /\ At(o, "CONTROL", "loaded")
    /\ \E new \in Control :
          control' = [field \in {"emergency_stop", "paused"} |->
                         Updated(control[field], copy[field], new[field])]
    /\ End(o)
    /\ UNCHANGED <<policy, policies, decisions, exceptions, slot, messages, lost, faults>>

LoadPolicy(o) ==
    /\ Free(o)
    /\ policy.version < MaxPolicyVersions
    /\ Begin(o, [op |-> "POLICY", at |-> "loaded", message |-> NoMessage, copy |-> policy])
    /\ UNCHANGED <<autopilotRows, messages, lost, faults>>

(* update_policy, also to pause and to resume.                             *)
CommitPolicy(o) ==
    LET copy == session[o].copy IN
    /\ At(o, "POLICY", "loaded")
    /\ \E permits \in BOOLEAN :
          policy' = [permits |-> Updated(policy.permits, copy.permits, permits),
                     version |-> copy.version + 1]
    /\ policies' = policies \cup {policy'}
    /\ End(o)
    /\ UNCHANGED <<control, decisions, exceptions, slot, messages, lost, faults>>

-----------------------------------------------------------------------------
(* decide: for an operator who schedules an item or asks for a preview,    *)
(* or for the ticks.  The session has the policy; it reads the control     *)
(* and, if it refuses, whether there is an exception, and commits.         *)

Purposes == {"SCHEDULE", "PREVIEW", "ADVANCE", "TRANSFER"}

(* What the handlers and tasks here have in their sessions.                *)
AutopilotSessions ==
    [op : {"CONTROL"}, at : {"loaded"}, message : {NoMessage}, copy : Control]
    \cup [op : {"POLICY"}, at : {"loaded"}, message : {NoMessage}, copy : Policy]
    \cup [op : Purposes, at : {"policy"}, message : {NoMessage, AdvanceMessage, DueMessage},
          object : Objects, time : Times \cup {None}, copy : Policy]
    \cup [op : Purposes, at : {"considered", "allowed", "reserving"},
          message : {NoMessage, AdvanceMessage, DueMessage}, object : Objects,
          time : Times \cup {None}, copy : Policy, allowed : BOOLEAN, known : BOOLEAN]

Deciding(purpose, object, time, message) ==
    [op |-> purpose, at |-> "policy", message |-> message, object |-> object,
     time |-> time, copy |-> policy]

CallDecision(o) ==
    /\ Free(o)
    /\ \E object \in Items, time \in Times, purpose \in {"SCHEDULE", "PREVIEW"} :
          Begin(o, Deciding(purpose, object, time, NoMessage))
    /\ UNCHANGED <<autopilotRows, messages, lost, faults>>

BeatAutopilot ==
    /\ messages' \in {Queued(AdvanceMessage), Queued(DueMessage)}
    /\ UNCHANGED <<autopilotRows, session, lost, faults>>

(* advance_eligible_projects and execute_due_scheduled_content take up     *)
(* what is there (one object stands for the batch), or nothing.            *)
TakeTick(w, m) ==
    /\ \/ m = AdvanceMessage /\ project.status = "SOURCE_ACCEPTED"
          /\ Receive(w, m, Deciding("ADVANCE", "project", None, m))
       \/ \E i \in Items :
             /\ m = DueMessage /\ slot[i].scheduled_for # None
             /\ Receive(w, m, Deciding("TRANSFER", i, None, m))
       \/ /\ m = AdvanceMessage => project.status # "SOURCE_ACCEPTED"
          /\ m = DueMessage => \A i \in Items : slot[i].scheduled_for = None
          /\ Free(w) /\ messages[m] > 0
          /\ messages' = [messages EXCEPT ![m] = @ - 1]
          /\ UNCHANGED <<session, lost, faults>>
    /\ UNCHANGED autopilotRows

(* The tick says that rights are not approved, so it is never allowed to   *)
(* advance; a transfer may be allowed, and nothing follows.                *)
Allows(s) ==
    /\ s.op # "ADVANCE"
    /\ s.copy.permits
    /\ ~control.emergency_stop /\ ~control.paused

Consider(a) ==
    LET s == session[a] IN
    /\ s.op \in Purposes /\ s.at = "policy"
    /\ Begin(a, [op |-> s.op, at |-> "considered", message |-> s.message,
                 object |-> s.object, time |-> s.time, copy |-> s.copy,
                 allowed |-> Allows(s), known |-> s.object \in exceptions])
    /\ UNCHANGED <<autopilotRows, messages, lost, faults>>

(* The record, from the copy of the policy.  (Mutant: from the row.)       *)
DecidedNow(s) == [object |-> s.object, allowed |-> s.allowed,
                  policy_version |-> policy.version]
DecisionOf(s) == [object |-> s.object, allowed |-> s.allowed,
                  policy_version |-> s.copy.version]

(* A refusal opens an exception, or counts on in one that is open; two     *)
(* that open one at once: the second violates (brand, dedupe_key, status). *)
(* The key has the category too: one reason per object stands for all.     *)
EnterDecision(a) ==
    LET s == session[a] IN
    /\ s.op \in Purposes /\ s.at = "considered"
    /\ s.allowed \/ s.known \/ s.object \notin exceptions
    /\ decisions' = decisions \cup {DecisionOf(s)}
    /\ exceptions' = IF s.allowed THEN exceptions ELSE exceptions \cup {s.object}
    /\ IF s.allowed /\ s.op = "SCHEDULE" THEN Goto(a, "allowed") ELSE End(a)
    /\ UNCHANGED <<control, policy, policies, slot, messages, lost, faults>>

DecisionCollides(a) ==
    LET s == session[a] IN
    /\ s.op \in Purposes /\ s.at = "considered"
    /\ ~s.allowed /\ ~s.known /\ s.object \in exceptions
    /\ EndInException(a)
    /\ UNCHANGED <<autopilotRows, messages, faults>>

(* reserve_slot, after its decision: a slot that the item has is returned. *)
LookForSlot(o) ==
    /\ At(o, "SCHEDULE", "allowed")
    /\ IF slot[session[o].object].scheduled_for = None THEN Goto(o, "reserving") ELSE End(o)
    /\ UNCHANGED <<autopilotRows, messages, lost, faults>>

(* Otherwise one is inserted, unless the item or the time is taken by then.*)
ReserveSlot(o) ==
    LET s == session[o] IN
    /\ At(o, "SCHEDULE", "reserving")
    /\ IF \/ slot[s.object].scheduled_for # None
          \/ \E i \in Items : slot[i].scheduled_for = s.time
       THEN UNCHANGED slot
       ELSE slot' = [slot EXCEPT ![s.object] =
                       [scheduled_for |-> s.time, policy_version |-> s.copy.version]]
    /\ End(o)
    /\ UNCHANGED <<control, policy, policies, decisions, exceptions, messages, lost, faults>>

-----------------------------------------------------------------------------
AutopilotInit ==
    /\ control = [emergency_stop |-> FALSE, paused |-> FALSE]
    /\ policy = [permits |-> FALSE, version |-> 1] /\ policies = {policy}
    /\ decisions = {} /\ exceptions = {}
    /\ slot = [i \in Items |-> [scheduled_for |-> None, policy_version |-> 0]]

AutopilotHandler(o) ==
    \/ LoadControl(o) \/ CommitControl(o) \/ LoadPolicy(o) \/ CommitPolicy(o)
    \/ CallDecision(o)
    \/ Consider(o) \/ EnterDecision(o) \/ DecisionCollides(o)
    \/ LookForSlot(o) \/ ReserveSlot(o)

Advance(w) == w \in Workers /\ (Consider(w) \/ EnterDecision(w) \/ DecisionCollides(w))

(* An emergency stop is lifted only by an operator who saw it: whoever     *)
(* changes another switch from an older copy does not lift it.             *)
StopLiftedKnowingly ==
    [][control.emergency_stop /\ ~control'.emergency_stop
         => \E o \in Operators : /\ At(o, "CONTROL", "loaded")
                                 /\ session[o].copy.emergency_stop]_control

(* Every decision that allows something follows from a policy that was in  *)
(* force under the version it records, and every slot from such a decision *)
(* under the slot's version, whatever was decided and changed meanwhile.   *)
DecisionsTraceable ==
    /\ \A d \in decisions :
          d.allowed => [permits |-> TRUE, version |-> d.policy_version] \in policies
    /\ \A i \in Items :
          slot[i].scheduled_for # None =>
              [object |-> i, allowed |-> TRUE,
               policy_version |-> slot[i].policy_version] \in decisions
=============================================================================
