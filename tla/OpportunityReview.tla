-------------------------- MODULE OpportunityReview --------------------------
(***************************************************************************)
(* What the review of clip opportunities promises, once rows, sessions,    *)
(* messages and workers are forgotten.  An opportunity is proposed once;   *)
(* reviewers decide on it and may change their minds; only what is still   *)
(* pending can be superseded, and that is final; a clip is generated for   *)
(* what is approved, once.  Every change is entered in the history under   *)
(* the next version, and the history is never rewritten.                   *)
(*                                                                         *)
(* Abstracts app/opportunities/service.py; ClipOpportunities implements it.*)
(***************************************************************************)
EXTENDS Integers, FiniteSets

CONSTANT Opportunities

VARIABLES
    review,     \* what the reviewers think of an opportunity
    clip,       \* the number of the clip generated for it, 0 while there is none
    history     \* its entries [version, review, clip]

vars == <<review, clip, history>>

Entry(o, r, c) == [version |-> Cardinality(history[o]) + 1, review |-> r, generated |-> c # 0]

Init ==
    /\ review = [o \in Opportunities |-> "ABSENT"]
    /\ clip = [o \in Opportunities |-> 0]
    /\ history = [o \in Opportunities |-> {}]

Decide(o) == \E decision \in {"APPROVED", "REJECTED"} :
    /\ review[o] \in {"PENDING", "APPROVED", "REJECTED"} \ {decision}
    /\ review' = [review EXCEPT ![o] = decision]
    /\ history' = [history EXCEPT ![o] = @ \cup {Entry(o, decision, clip[o])}]
    /\ UNCHANGED clip

Generate(o) ==
    /\ review[o] = "APPROVED" /\ clip[o] = 0
    /\ clip'[o] \in Nat \ {0}
    /\ clip' = [clip EXCEPT ![o] = clip'[o]]
    /\ history' = [history EXCEPT ![o] = @ \cup {Entry(o, "APPROVED", clip'[o])}]
    /\ UNCHANGED review

Having(status) == {o \in Opportunities : review[o] = status}

(* A generation proposes new opportunities, those beyond the permitted     *)
(* number as superseded at once, and supersedes pending ones.              *)
Propose(new, excess, old) ==
    /\ review' = [o \in Opportunities |->
                    CASE o \in new -> "PENDING"
                      [] o \in excess \cup old -> "STALE"
                      [] OTHER -> review[o]]
    /\ history' = [o \in Opportunities |->
                     CASE o \in new \cup excess -> {Entry(o, "PENDING", 0)}
                       [] o \in old -> history[o] \cup {Entry(o, "STALE", clip[o])}
                       [] OTHER -> history[o]]
    /\ UNCHANGED clip

Next ==
    \/ \E o \in Opportunities : Decide(o) \/ Generate(o)
    \/ /\ review' # review
       /\ \E new \in SUBSET Having("ABSENT"), old \in SUBSET Having("PENDING") :
             \E excess \in SUBSET (Having("ABSENT") \ new) : Propose(new, excess, old)

Spec == Init /\ [][Next]_vars
=============================================================================
