---------------------------- MODULE ReviewProofs ----------------------------
(***************************************************************************)
(* Proofs about clip opportunities: what reviewers, generations and        *)
(* renderings do with stale copies implements OpportunityReview.           *)
(*                                                                         *)
(* The argument is the one of the history table: the versions in it are    *)
(* those from 1 to the row's review_version, and everything that changes a *)
(* row enters the next.  A copy can therefore only be written back, under  *)
(* a version that is not taken, while it still is the row.                 *)
(*                                                                         *)
(* And what a generation reads of the analysis: with one worker an         *)
(* analysis has all of its facts from when its task has written the last   *)
(* of them, and no other task empties them before the detection has read.  *)
(*                                                                         *)
(* Then what a reader of the rows may conclude: what the project's row has *)
(* when its status says so, that what a row calls under way is seen to     *)
(* unless something failed, and which runs' suggestions may still wait.    *)
(***************************************************************************)
EXTENDS ClipOpportunities, WorkersProofs, FiniteSetTheorems

OpportunityRow == [review_status : ReviewStatuses, review_version : Nat, generated_clip : Nat]
HistoryRow == [version : Nat, review : ReviewStatuses, generated : BOOLEAN]

(* The history has the versions up to that of the row, each once.          *)
Counted(o) ==
    /\ IsFiniteSet(versions[o])
    /\ Cardinality(versions[o]) = opportunity[o].review_version
    /\ {row.version : row \in versions[o]} = 1..opportunity[o].review_version

Standing(o) ==
    /\ opportunity[o].review_status = "ABSENT" <=> opportunity[o].review_version = 0
    /\ opportunity[o].review_status = "PENDING" => opportunity[o].review_version = 1
    /\ opportunity[o].review_status \in {"ABSENT", "PENDING"} => opportunity[o].generated_clip = 0

ReviewRows ==
    /\ opportunity \in [Opportunities -> OpportunityRow]
    /\ versions \in [Opportunities -> SUBSET HistoryRow]
    /\ \A o \in Opportunities : Counted(o) /\ Standing(o)

(* A copy is the row, unless the row has a later version by now.           *)
CopyOf(o, copy) ==
    /\ copy \in OpportunityRow
    /\ copy.review_version <= opportunity[o].review_version
    /\ copy.review_version = opportunity[o].review_version => copy = opportunity[o]

(* What was pending when it was selected still is, or has a later version. *)
PendingOrLater(o) ==
    /\ opportunity[o].review_version >= 1
    /\ opportunity[o].review_version = 1 => opportunity[o].review_status = "PENDING"

Informed(s) ==
    /\ s.op \in {"DECIDE", "RENDER"} => s.id \in Opportunities /\ CopyOf(s.id, s.copy)
    /\ s.op = "DECIDE" => /\ s.copy.review_status \in {"PENDING", "APPROVED", "REJECTED"}
                          /\ "copy" \in DOMAIN s
    /\ s.op = "RENDER" /\ s.at \in {"rendering", "rendered"} =>
          /\ s.number \in Nat \ {0}
          /\ s.copy.review_status = "APPROVED" /\ s.copy.generated_clip = 0
    /\ s.op = "GENERATE" /\ s.at = "detected" =>
          s.old \subseteq Opportunities /\ \A o \in s.old : PendingOrLater(o)

(* The inductive invariant. *)
ReviewInv ==
    /\ ReviewRows
    /\ clips \in Seq(Clip)
    /\ \A a \in Actors : Informed(session[a])

LEMMA ReviewInitially ==
  ASSUME OpportunitiesInit, clips = <<>>, \A a \in Actors : session[a] = Idle
  PROVE  ReviewInv /\ Review!Init
<1>1. PICK none : none = [review_status |-> "ABSENT", review_version |-> 0, generated_clip |-> 0]
  OBVIOUS
<1>2. none \in OpportunityRow
  BY <1>1 DEF OpportunityRow, ReviewStatuses
<1>3. opportunity = [o \in Opportunities |-> none] /\ versions = [o \in Opportunities |-> {}]
  BY <1>1 DEF OpportunitiesInit
<1>4. \A o \in Opportunities : Counted(o)
  BY <1>1, <1>3, FS_EmptySet DEF Counted
<1>5. \A o \in Opportunities : Standing(o)
  BY <1>1, <1>3 DEF Standing
<1>6. ReviewRows
  BY <1>2, <1>3, <1>4, <1>5 DEF ReviewRows
<1>7. \A a \in Actors : Informed(session[a])
  BY DEF Informed, Idle
<1>8. Review!Init
  BY <1>1, <1>3 DEF Review!Init
<1> QED BY <1>6, <1>7, <1>8 DEF ReviewInv

-----------------------------------------------------------------------------
(* Copies. *)

(* Every change of a row makes a later version of it.                      *)
Advancing ==
    \A o \in Opportunities :
        \/ opportunity'[o] = opportunity[o]
        \/ opportunity'[o].review_version > opportunity[o].review_version

(* What the sessions know stays true.                                      *)
LEMMA KnowledgeStays ==
  ASSUME ReviewRows, ReviewRows', Advancing, NEW s, Informed(s)
  PROVE  Informed(s)'
<1>1. \A o \in Opportunities : /\ opportunity[o].review_version \in Nat
                               /\ opportunity'[o].review_version \in Nat
  BY DEF ReviewRows, OpportunityRow
<1>2. ASSUME NEW o \in Opportunities, NEW copy, CopyOf(o, copy)
      PROVE  CopyOf(o, copy)'
  <2>1. copy.review_version \in Nat
    BY <1>2 DEF CopyOf, OpportunityRow
  <2> QED BY <1>1, <1>2, <2>1 DEF CopyOf, Advancing
<1>3. ASSUME NEW o \in Opportunities, PendingOrLater(o)
      PROVE  PendingOrLater(o)'
  BY <1>1, <1>3 DEF PendingOrLater, Advancing
<1>4. s.op \in {"DECIDE", "RENDER"} => s.id \in Opportunities /\ CopyOf(s.id, s.copy)'
  BY <1>2 DEF Informed
<1>5. s.op = "GENERATE" /\ s.at = "detected" =>
         s.old \subseteq Opportunities /\ \A o \in s.old : PendingOrLater(o)'
  BY <1>3 DEF Informed
<1> QED BY <1>4, <1>5 DEF Informed

(* The step of one actor. *)
LEMMA ReviewStepKeeps ==
  ASSUME ReviewInv, ReviewRows', Advancing, clips' \in Seq(Clip),
         NEW a \in Actors, OthersStay(a), NEW s, session'[a] = s, Informed(s)'
  PROVE  ReviewInv'
<1>1. ASSUME NEW b \in Actors
      PROVE  Informed(session[b])'
  <2>1. PICK t : t = session'[b]
    OBVIOUS
  <2>2. CASE b = a
    BY <2>2
  <2>3. CASE b # a
    <3>1. Informed(t)
      BY <2>1, <2>3 DEF OthersStay, ReviewInv
    <3> QED BY <2>1, <3>1, KnowledgeStays DEF ReviewInv
  <2> QED BY <2>2, <2>3
<1> QED BY <1>1 DEF ReviewInv

(* A step that leaves the rows. *)
LEMMA RowsLeft ==
  ASSUME ReviewInv, UNCHANGED <<opportunity, versions>>
  PROVE  ReviewRows' /\ Advancing /\ UNCHANGED Review!vars
<1>1. ReviewRows'
  BY DEF ReviewInv, ReviewRows, Counted, Standing
<1>2. Advancing
  BY DEF Advancing
<1> QED BY <1>1, <1>2 DEF Review!vars

LEMMA LeavingKeeps ==
  ASSUME ReviewInv, UNCHANGED <<opportunity, versions>>, clips' \in Seq(Clip),
         NEW a \in Actors, OthersStay(a), NEW s, session'[a] = s, Informed(s)
  PROVE  ReviewInv' /\ UNCHANGED Review!vars
  BY RowsLeft, KnowledgeStays, ReviewStepKeeps DEF ReviewInv

LEMMA ReviewUntouched ==
  ASSUME ReviewInv, UNCHANGED <<opportunity, versions>>, clips' \in Seq(Clip),
         NEW Ops, Confined(Ops), (Ops \cup {"IDLE"}) \cap {"GENERATE", "DECIDE", "RENDER"} = {}
  PROVE  ReviewInv' /\ UNCHANGED Review!vars
<1>1. ASSUME NEW a \in Actors
      PROVE  Informed(session[a])'
  <2>1. PICK s : s = session'[a]
    OBVIOUS
  <2>2. s = session[a] \/ s.op \notin {"GENERATE", "DECIDE", "RENDER"}
    BY <2>1 DEF Confined
  <2>3. Informed(s)
    BY <2>2 DEF ReviewInv, Informed
  <2> QED BY <2>1, <2>3, RowsLeft, KnowledgeStays DEF ReviewInv
<1> QED BY <1>1, RowsLeft DEF ReviewInv

(* What is written under a version that is not taken is the row's.         *)
LEMMA FreshCopy ==
  ASSUME ReviewRows, NEW o \in Opportunities, NEW copy, CopyOf(o, copy),
         ~Taken(o, copy.review_version + 1)
  PROVE  copy = opportunity[o]
<1>1. copy.review_version \in Nat /\ opportunity[o].review_version \in Nat
  BY DEF CopyOf, ReviewRows, OpportunityRow
<1>2. copy.review_version + 1 \notin 1..opportunity[o].review_version
  BY <1>1 DEF ReviewRows, Counted, Taken
<1> QED BY <1>1, <1>2 DEF CopyOf

-----------------------------------------------------------------------------
(* The history. *)

LEMMA CountedNext ==
  ASSUME NEW o, Counted(o), opportunity[o].review_version \in Nat,
         NEW row, row.version = opportunity[o].review_version + 1,
         versions'[o] = versions[o] \cup {row},
         opportunity'[o].review_version = opportunity[o].review_version + 1
  PROVE  Counted(o)'
<1>1. row \notin versions[o]
  <2>1. row.version \notin 1..opportunity[o].review_version
    OBVIOUS
  <2> QED BY <2>1 DEF Counted
<1>2. /\ IsFiniteSet(versions'[o])
      /\ Cardinality(versions'[o]) = Cardinality(versions[o]) + 1
  BY <1>1, FS_AddElement DEF Counted
<1>3. {r.version : r \in versions'[o]} = 1..(opportunity[o].review_version + 1)
  <2>1. {r.version : r \in versions'[o]} = {r.version : r \in versions[o]} \cup {row.version}
    OBVIOUS
  <2>2. 1..(opportunity[o].review_version + 1)
          = (1..opportunity[o].review_version) \cup {opportunity[o].review_version + 1}
    OBVIOUS
  <2> QED BY <2>1, <2>2 DEF Counted
<1> QED BY <1>2, <1>3 DEF Counted

LEMMA RowsAreHistory ==
  ASSUME NEW copy \in OpportunityRow
  PROVE  /\ Row(copy) \in HistoryRow /\ Row(copy).version = copy.review_version
  BY DEF OpportunityRow, HistoryRow, Row

(* One row is decided on, linked or superseded. *)
LEMMA OneEntered ==
  ASSUME ReviewInv, NEW o \in Opportunities, NEW new \in OpportunityRow,
         new.review_version = opportunity[o].review_version + 1,
         new.review_status \notin {"ABSENT", "PENDING"},
         opportunity' = [opportunity EXCEPT ![o] = new],
         versions' = [versions EXCEPT ![o] = @ \cup {Row(new)}]
  PROVE  /\ ReviewRows' /\ Advancing
         /\ opportunity'[o] = new
         /\ \A p \in Opportunities \ {o} : opportunity'[p] = opportunity[p]
<1>1. opportunity[o].review_version \in Nat
  BY DEF ReviewInv, ReviewRows, OpportunityRow
<1>2. /\ opportunity' \in [Opportunities -> OpportunityRow]
      /\ opportunity'[o] = new /\ \A p \in Opportunities \ {o} : opportunity'[p] = opportunity[p]
  BY DEF ReviewInv, ReviewRows
<1>3. /\ versions' \in [Opportunities -> SUBSET HistoryRow]
      /\ versions'[o] = versions[o] \cup {Row(new)}
      /\ \A p \in Opportunities \ {o} : versions'[p] = versions[p]
  BY RowsAreHistory DEF ReviewInv, ReviewRows
<1>4. Counted(o)'
  BY <1>1, <1>2, <1>3, RowsAreHistory, CountedNext DEF ReviewInv, ReviewRows
<1>5. Standing(o)'
  BY <1>1, <1>2 DEF Standing
<1>6. \A p \in Opportunities \ {o} : Counted(p)' /\ Standing(p)'
  BY <1>2, <1>3 DEF ReviewInv, ReviewRows, Counted, Standing
<1>7. Advancing
  BY <1>1, <1>2 DEF Advancing
<1> QED BY <1>2, <1>3, <1>4, <1>5, <1>6, <1>7 DEF ReviewRows

-----------------------------------------------------------------------------
(* What the steps of OpportunityReview say of the rows. *)

LEMMA SameCount ==
  ASSUME NEW S
  PROVE Review!Cardinality(S) = Cardinality(S)
  BY DEF Review!Cardinality, Cardinality

LEMMA Decides ==
  ASSUME NEW o \in Opportunities, NEW decision \in {"APPROVED", "REJECTED"},
         opportunity[o].review_status \in {"PENDING", "APPROVED", "REJECTED"} \ {decision},
         [p \in Opportunities |-> opportunity'[p].review_status]
            = [[p \in Opportunities |-> opportunity[p].review_status] EXCEPT ![o] = decision],
         [p \in Opportunities |-> opportunity'[p].generated_clip]
            = [p \in Opportunities |-> opportunity[p].generated_clip],
         NEW row,
         row = [version |-> Cardinality(versions[o]) + 1, review |-> decision,
                generated |-> opportunity[o].generated_clip # 0],
         versions' = [versions EXCEPT ![o] = @ \cup {row}]
  PROVE  Review!Decide(o)
<1>1. [p \in Opportunities |-> opportunity[p].review_status][o] \in {"PENDING", "APPROVED", "REJECTED"} \ {decision}
  OBVIOUS
<1>2. row = Review!Entry(o, decision, [p \in Opportunities |-> opportunity[p].generated_clip][o])
  BY SameCount DEF Review!Entry
<1>3. versions' = [versions EXCEPT ![o] = versions[o] \cup {Review!Entry(o, decision, [p \in Opportunities |-> opportunity[p].generated_clip][o])}]
  BY <1>2
<1> QED BY <1>1, <1>3 DEF Review!Decide

LEMMA Generates ==
  ASSUME NEW o \in Opportunities, NEW number \in Nat \ {0},
         opportunity[o].review_status = "APPROVED", opportunity[o].generated_clip = 0,
         [p \in Opportunities |-> opportunity'[p].review_status]
            = [p \in Opportunities |-> opportunity[p].review_status],
         opportunity'[o].generated_clip = number,
         [p \in Opportunities |-> opportunity'[p].generated_clip]
            = [[p \in Opportunities |-> opportunity[p].generated_clip] EXCEPT ![o] = number],
         NEW row,
         row = [version |-> Cardinality(versions[o]) + 1, review |-> "APPROVED",
                generated |-> TRUE],
         versions' = [versions EXCEPT ![o] = @ \cup {row}]
  PROVE  Review!Generate(o)
<1>1. PICK clip : clip = [p \in Opportunities |-> opportunity[p].generated_clip]
  OBVIOUS
<1>2. PICK review : review = [p \in Opportunities |-> opportunity[p].review_status]
  OBVIOUS
<1>3. PICK after : after = [p \in Opportunities |-> opportunity'[p].generated_clip]
  OBVIOUS
<1>4. review[o] = "APPROVED" /\ clip[o] = 0 /\ after[o] = number
  BY <1>1, <1>2, <1>3
<1>5. row = Review!Entry(o, "APPROVED", after[o])
  <2>1. row = [version |-> Review!Cardinality(versions[o]) + 1, review |-> "APPROVED",
               generated |-> after[o] # 0]
    BY <1>4, SameCount
  <2> QED BY <2>1 DEF Review!Entry
<1>6. versions' = [versions EXCEPT ![o] = versions[o] \cup {Review!Entry(o, "APPROVED", after[o])}]
  BY <1>5
<1>7. after = [clip EXCEPT ![o] = after[o]]
  BY <1>1, <1>3, <1>4
<1> QED BY <1>1, <1>2, <1>3, <1>4, <1>6, <1>7 DEF Review!Generate

LEMMA Proposes ==
  ASSUME NEW new, NEW excess, NEW old, new \subseteq Opportunities,
         excess \subseteq Opportunities, old \subseteq Opportunities,
         new \cap excess = {},
         \A o \in new \cup excess : opportunity[o].review_status = "ABSENT",
         \A o \in old : opportunity[o].review_status = "PENDING",
         [o \in Opportunities |-> opportunity'[o].review_status]
            = [o \in Opportunities |-> CASE o \in new -> "PENDING"
                                         [] o \in excess \cup old -> "STALE"
                                         [] OTHER -> opportunity[o].review_status],
         [o \in Opportunities |-> opportunity'[o].generated_clip]
            = [o \in Opportunities |-> opportunity[o].generated_clip],
         versions' = [o \in Opportunities |->
            CASE o \in new \cup excess ->
                    {[version |-> Cardinality(versions[o]) + 1, review |-> "PENDING",
                      generated |-> FALSE]}
              [] o \in old ->
                    versions[o] \cup {[version |-> Cardinality(versions[o]) + 1, review |-> "STALE",
                                       generated |-> opportunity[o].generated_clip # 0]}
              [] OTHER -> versions[o]]
  PROVE  Review!Propose(new, excess, old)
         /\ new \in SUBSET Review!Having("ABSENT") /\ old \in SUBSET Review!Having("PENDING")
         /\ excess \in SUBSET (Review!Having("ABSENT") \ new)
<1>1. PICK clip : clip = [p \in Opportunities |-> opportunity[p].generated_clip]
  OBVIOUS
<1>2. PICK review : review = [p \in Opportunities |-> opportunity[p].review_status]
  OBVIOUS
<1>3. /\ new \in SUBSET Review!Having("ABSENT") /\ old \in SUBSET Review!Having("PENDING")
      /\ excess \in SUBSET (Review!Having("ABSENT") \ new)
  BY DEF Review!Having
<1>4. [o \in Opportunities |-> opportunity'[o].review_status]
         = [o \in Opportunities |-> CASE o \in new -> "PENDING"
                                      [] o \in excess \cup old -> "STALE"
                                      [] OTHER -> review[o]]
  BY <1>2
<1>5. versions' = [o \in Opportunities |->
            CASE o \in new \cup excess -> {Review!Entry(o, "PENDING", 0)}
              [] o \in old -> versions[o] \cup {Review!Entry(o, "STALE", clip[o])}
              [] OTHER -> versions[o]]
  BY <1>1, SameCount DEF Review!Entry
<1> QED BY <1>1, <1>2, <1>3, <1>4, <1>5 DEF Review!Propose

-----------------------------------------------------------------------------
(* Decisions and renderings. *)

LEMMA DecidedIsNext ==
  ASSUME NEW s, s.copy \in OpportunityRow
  PROVE  /\ Decided(s) \in OpportunityRow
         /\ Decided(s).review_status = Decision(s)
         /\ Decided(s).review_version = s.copy.review_version + 1
         /\ Decided(s).generated_clip = s.copy.generated_clip
         /\ Decision(s) \in {"APPROVED", "REJECTED"}
<1>1. PICK copy \in OpportunityRow : copy = s.copy
  OBVIOUS
<1>2. PICK once : once = [copy EXCEPT !.review_status = Decision(s)]
  OBVIOUS
<1>3. once \in OpportunityRow /\ once.review_version = copy.review_version
      /\ once.review_status = Decision(s) /\ once.generated_clip = copy.generated_clip
  BY <1>2 DEF OpportunityRow, ReviewStatuses, Decision
<1>4. Decided(s) = [once EXCEPT !.review_version = copy.review_version + 1]
  BY <1>1, <1>2 DEF Decided, OpportunityRow
<1>5. copy.review_version + 1 \in Nat
  BY DEF OpportunityRow
<1> QED BY <1>1, <1>3, <1>4, <1>5 DEF OpportunityRow, Decision

LEMMA DecisionImplements ==
  ASSUME ReviewInv, Shaped, NEW a \in Actors, DecideOpportunity(a)
  PROVE  /\ ReviewInv'
         /\ UNCHANGED Review!vars \/ \E o \in Opportunities : Review!Decide(o)
<1>1. PICK s : s = session[a]
  OBVIOUS
<1>2. PICK o : o = s.id
  OBVIOUS
<1>3. /\ s.op = "DECIDE" /\ o \in Opportunities /\ CopyOf(o, s.copy) /\ Informed(s)
      /\ s.copy.review_status \in {"PENDING", "APPROVED", "REJECTED"}
      /\ clips' \in Seq(Clip)
  BY <1>1, <1>2 DEF DecideOpportunity, At, ReviewInv, Informed
<1>4. s.copy \in OpportunityRow
  BY <1>3 DEF CopyOf
<1>5. CASE s.copy.review_status = Decision(s)
  <2>1. Goto(a, "decided") /\ UNCHANGED <<opportunity, versions>>
    BY <1>1, <1>5 DEF DecideOpportunity
  <2>2. PICK t : t = [s EXCEPT !.at = "decided"]
    OBVIOUS
  <2>3. session'[a] = t /\ OthersStay(a)
    BY <1>1, <2>1, <2>2, GotoEffect
  <2>4. t.op = "DECIDE" /\ t.id = s.id /\ t.copy = s.copy
    BY <1>3, <2>2
  <2>5. Informed(t)
    BY <1>3, <2>2, <2>4 DEF Informed
  <2> QED BY <1>3, <2>1, <2>3, <2>5, LeavingKeeps
<1>6. CASE s.copy.review_status # Decision(s)
  <2>1. PICK new : new = Decided(s)
    OBVIOUS
  <2>2. /\ new \in OpportunityRow
        /\ new.review_status = Decision(s) /\ Decision(s) \in {"APPROVED", "REJECTED"}
        /\ new.review_version = s.copy.review_version + 1
        /\ new.generated_clip = s.copy.generated_clip
    BY <1>4, <2>1, DecidedIsNext
  <2>3. /\ ~Taken(o, new.review_version)
        /\ opportunity' = [opportunity EXCEPT ![o].review_status = Decision(s),
                                              ![o].review_version = new.review_version]
        /\ versions' = [versions EXCEPT ![o] = @ \cup {Row(new)}]
        /\ session' = [session EXCEPT ![a].at = "decided", ![a].copy = new]
    BY <1>1, <1>2, <1>6, <2>1 DEF DecideOpportunity
  <2>4. s.copy = opportunity[o]
    BY <1>3, <2>2, <2>3, FreshCopy DEF ReviewInv
  <2>5. opportunity' = [opportunity EXCEPT ![o] = new]
    <3>1. PICK once : once = [opportunity[o] EXCEPT !.review_status = Decision(s)]
      OBVIOUS
    <3>2. new = [once EXCEPT !.review_version = new.review_version]
      BY <2>1, <2>2, <2>4, <3>1 DEF Decided, OpportunityRow
    <3> QED BY <1>3, <2>3, <3>1, <3>2 DEF ReviewInv, ReviewRows
  <2>6. new.review_version = opportunity[o].review_version + 1
    BY <2>2, <2>4
  <2>7. new.review_status \notin {"ABSENT", "PENDING"}
    BY <2>2
  <2>8. /\ ReviewRows' /\ Advancing /\ opportunity'[o] = new
        /\ \A p \in Opportunities \ {o} : opportunity'[p] = opportunity[p]
    BY <1>3, <2>2, <2>3, <2>5, <2>6, <2>7, OneEntered
  <2>9. PICK t : t = session'[a]
    OBVIOUS
  <2>10. /\ OthersStay(a) /\ "copy" \in DOMAIN t
         /\ t.op = "DECIDE" /\ t.at = "decided" /\ t.id = o /\ t.copy = new
    <3>1. PICK u : u = [s EXCEPT !.at = "decided"]
      OBVIOUS
    <3>2. t = [u EXCEPT !.copy = new]
      BY <1>1, <2>3, <2>9, <3>1 DEF Shaped
    <3>3. OthersStay(a)
      BY <2>3 DEF OthersStay, Shaped
    <3>4. "copy" \in DOMAIN s
      BY <1>3 DEF Informed
    <3> QED BY <1>2, <1>3, <3>1, <3>2, <3>3, <3>4
  <2>11. Informed(t)'
    BY <1>3, <2>2, <2>8, <2>10 DEF Informed, CopyOf, OpportunityRow
  <2>12. ReviewInv'
    BY <1>3, <2>8, <2>9, <2>10, <2>11, ReviewStepKeeps
  <2>13. Review!Decide(o)
    <3>1. s.copy.review_status \in {"PENDING", "APPROVED", "REJECTED"} \ {Decision(s)}
      BY <1>3, <1>6
    <3>2. [p \in Opportunities |-> opportunity'[p].review_status]
             = [[p \in Opportunities |-> opportunity[p].review_status] EXCEPT ![o] = Decision(s)]
      BY <1>3, <2>2, <2>8
    <3>3. [p \in Opportunities |-> opportunity'[p].generated_clip]
             = [p \in Opportunities |-> opportunity[p].generated_clip]
      BY <1>3, <2>2, <2>4, <2>8
    <3>4. Row(new) = [version |-> Cardinality(versions[o]) + 1, review |-> Decision(s),
                      generated |-> opportunity[o].generated_clip # 0]
      BY <1>3, <2>2, <2>4, <2>6 DEF Row, ReviewInv, ReviewRows, Counted
    <3>5. PICK row : row = Row(new)
      OBVIOUS
    <3>6. PICK decision : decision = Decision(s)
      OBVIOUS
    <3> QED BY <1>3, <2>2, <2>3, <2>4, <3>1, <3>2, <3>3, <3>4, <3>5, <3>6, Decides
  <2> QED BY <1>3, <2>12, <2>13
<1> QED BY <1>5, <1>6

LEMMA LinkedIsNext ==
  ASSUME NEW s, s.copy \in OpportunityRow, s.number \in Nat
  PROVE  /\ Linked(s) \in OpportunityRow
         /\ Linked(s).review_status = s.copy.review_status
         /\ Linked(s).review_version = s.copy.review_version + 1
         /\ Linked(s).generated_clip = s.number
<1>1. PICK copy \in OpportunityRow : copy = s.copy
  OBVIOUS
<1>2. PICK once : once = [copy EXCEPT !.generated_clip = s.number]
  OBVIOUS
<1>3. once \in OpportunityRow /\ once.review_version = copy.review_version
      /\ once.review_status = copy.review_status /\ once.generated_clip = s.number
  BY <1>2 DEF OpportunityRow
<1>4. Linked(s) = [once EXCEPT !.review_version = copy.review_version + 1]
  BY <1>1, <1>2 DEF Linked, OpportunityRow
<1>5. copy.review_version + 1 \in Nat
  BY DEF OpportunityRow
<1> QED BY <1>1, <1>3, <1>4, <1>5 DEF OpportunityRow

LEMMA LinkImplements ==
  ASSUME ReviewInv, Shaped, NEW a \in Actors, LinkClip(a)
  PROVE  /\ ReviewInv'
         /\ UNCHANGED Review!vars \/ \E o \in Opportunities : Review!Generate(o)
<1>1. PICK s : s = session[a]
  OBVIOUS
<1>2. PICK o : o = s.id
  OBVIOUS
<1>3. /\ o \in Opportunities /\ CopyOf(o, s.copy) /\ s.copy \in OpportunityRow
      /\ s.number \in Nat \ {0}
      /\ s.copy.review_status = "APPROVED" /\ s.copy.generated_clip = 0
      /\ clips' \in Seq(Clip)
  BY <1>1, <1>2 DEF LinkClip, At, ReviewInv, Informed, CopyOf
<1>4. PICK new : new = Linked(s)
  OBVIOUS
<1>5. /\ new \in OpportunityRow
      /\ new.review_status = "APPROVED" /\ new.generated_clip = s.number
      /\ new.review_version = s.copy.review_version + 1
  BY <1>3, <1>4, LinkedIsNext
<1>6. /\ ~Taken(o, new.review_version)
      /\ opportunity' = [opportunity EXCEPT ![o].generated_clip = s.number,
                                            ![o].review_version = new.review_version]
      /\ versions' = [versions EXCEPT ![o] = @ \cup {Row(new)}]
      /\ End(a)
  BY <1>1, <1>2, <1>4 DEF LinkClip
<1>7. s.copy = opportunity[o]
  BY <1>3, <1>5, <1>6, FreshCopy DEF ReviewInv
<1>8. opportunity' = [opportunity EXCEPT ![o] = new]
  <2>1. PICK once : once = [opportunity[o] EXCEPT !.generated_clip = s.number]
    OBVIOUS
  <2>2. new = [once EXCEPT !.review_version = new.review_version]
    BY <1>4, <1>5, <1>7, <2>1 DEF Linked, OpportunityRow
  <2> QED BY <1>3, <1>6, <2>1, <2>2 DEF ReviewInv, ReviewRows
<1>9. new.review_version = opportunity[o].review_version + 1
  BY <1>5, <1>7
<1>10. /\ ReviewRows' /\ Advancing /\ opportunity'[o] = new
       /\ \A p \in Opportunities \ {o} : opportunity'[p] = opportunity[p]
  BY <1>3, <1>5, <1>6, <1>8, <1>9, OneEntered
<1>11. OthersStay(a) /\ session'[a] = Idle
  BY <1>6, EndEffect
<1>12. Informed(Idle)'
  BY DEF Informed, Idle
<1>13. ReviewInv'
  BY <1>3, <1>10, <1>11, <1>12, ReviewStepKeeps
<1>14. Review!Generate(o)
  <2>1. [p \in Opportunities |-> opportunity'[p].review_status]
           = [p \in Opportunities |-> opportunity[p].review_status]
    BY <1>3, <1>5, <1>7, <1>10
  <2>2. [p \in Opportunities |-> opportunity'[p].generated_clip]
           = [[p \in Opportunities |-> opportunity[p].generated_clip] EXCEPT ![o] = s.number]
    BY <1>3, <1>5, <1>10
  <2>3. PICK row : row = Row(new)
    OBVIOUS
  <2>4. row = [version |-> Cardinality(versions[o]) + 1, review |-> "APPROVED",
               generated |-> TRUE]
    BY <1>3, <1>5, <1>9, <2>3 DEF Row, ReviewInv, ReviewRows, Counted
  <2>5. PICK number \in Nat \ {0} : number = s.number
    BY <1>3
  <2>6. /\ opportunity[o].review_status = "APPROVED" /\ opportunity[o].generated_clip = 0
        /\ opportunity'[o].generated_clip = number
        /\ versions' = [versions EXCEPT ![o] = @ \cup {row}]
    BY <1>3, <1>5, <1>6, <1>7, <1>10, <2>3, <2>5
  <2> QED BY <1>3, <2>1, <2>2, <2>4, <2>5, <2>6, Generates
<1> QED BY <1>3, <1>13, <1>14

-----------------------------------------------------------------------------
(* Generations. *)

LEMMA CommitImplements ==
  ASSUME ReviewInv, Shaped, NEW w \in Actors, CommitGeneration(w)
  PROVE  /\ ReviewInv'
         /\ UNCHANGED Review!vars \/ Review!Next
<1>1. PICK s : s = session[w]
  OBVIOUS
<1>2. PICK old : old = s.old
  OBVIOUS
<1>3. /\ old \subseteq Opportunities /\ \A o \in old : PendingOrLater(o) /\ ~Taken(o, 2)
      /\ clips' \in Seq(Clip) /\ End(w)
  BY <1>1, <1>2 DEF CommitGeneration, At, ReviewInv, Informed
<1>4. \A o \in Opportunities : /\ opportunity[o] \in OpportunityRow
                               /\ opportunity[o].review_version \in Nat
                               /\ versions[o] \subseteq HistoryRow
                               /\ Counted(o) /\ Standing(o)
  BY DEF ReviewInv, ReviewRows, OpportunityRow
<1>5. \A o \in old : opportunity[o].review_version = 1 /\ opportunity[o].review_status = "PENDING"
  <2>1. SUFFICES ASSUME NEW o \in old
                 PROVE  opportunity[o].review_version = 1
    BY <1>3 DEF PendingOrLater
  <2>2. 2 \notin 1..opportunity[o].review_version
    BY <1>3, <1>4 DEF Counted, Taken
  <2> QED BY <1>3, <1>4, <2>2 DEF PendingOrLater
<1>6. PICK kept \in SUBSET Insertable(session[w].latest),
           excess \in SUBSET Insertable(session[w].latest) :
         /\ kept \cap excess = {}
         /\ opportunity' = [o \in Opportunities |->
                              CASE o \in kept -> New
                                [] o \in excess -> [New EXCEPT !.review_status = "STALE"]
                                [] o \in session[w].old -> Superseded(opportunity[o])
                                [] OTHER -> opportunity[o]]
         /\ versions' = [o \in Opportunities |->
                           CASE o \in kept \cup excess -> versions[o] \cup {Row(New)}
                             [] o \in session[w].old ->
                                  versions[o] \cup {Row(Superseded(opportunity[o]))}
                             [] OTHER -> versions[o]]
  BY Zenon DEF CommitGeneration
<1>7. /\ kept \subseteq Opportunities /\ excess \subseteq Opportunities
      /\ \A o \in kept \cup excess : opportunity[o].review_status = "ABSENT"
  BY DEF Insertable
<1>8. PICK new : new = New
  OBVIOUS
<1>9. PICK surplus : surplus = [New EXCEPT !.review_status = "STALE"]
  OBVIOUS
<1>10. /\ new \in OpportunityRow /\ surplus \in OpportunityRow
       /\ new.review_status = "PENDING" /\ new.review_version = 1 /\ new.generated_clip = 0
       /\ surplus.review_status = "STALE" /\ surplus.review_version = 1
       /\ surplus.generated_clip = 0
       /\ Row(New) = [version |-> 1, review |-> "PENDING", generated |-> FALSE]
  BY <1>8, <1>9 DEF New, OpportunityRow, ReviewStatuses, Row
<1>11. ASSUME NEW o \in kept \cup excess
       PROVE  /\ opportunity[o].review_version = 0 /\ opportunity[o].generated_clip = 0
              /\ versions[o] = {} /\ Cardinality(versions[o]) = 0 /\ o \notin old
  <2>1. opportunity[o].review_version = 0 /\ opportunity[o].generated_clip = 0
    BY <1>4, <1>7 DEF Standing
  <2>2. Cardinality(versions[o]) = 0 /\ versions[o] = {}
    BY <1>4, <1>7, <2>1, FS_EmptySet DEF Counted
  <2> QED BY <1>5, <1>7, <2>1, <2>2
<1>12. ASSUME NEW o \in old
       PROVE  /\ Superseded(opportunity[o]) \in OpportunityRow
              /\ Superseded(opportunity[o]).review_status = "STALE"
              /\ Superseded(opportunity[o]).review_version = 2
              /\ Superseded(opportunity[o]).generated_clip = opportunity[o].generated_clip
              /\ opportunity[o].generated_clip = 0
              /\ Row(Superseded(opportunity[o]))
                   = [version |-> 2, review |-> "STALE", generated |-> FALSE]
              /\ Cardinality(versions[o]) = 1
  <2>1. PICK row \in OpportunityRow : row = opportunity[o]
    BY <1>3, <1>4
  <2>2. PICK once : once = [row EXCEPT !.review_status = "STALE"]
    OBVIOUS
  <2>3. PICK twice : twice = [once EXCEPT !.review_version = 2]
    OBVIOUS
  <2>4. row.review_version = 1 /\ row.generated_clip = 0
    BY <1>3, <1>4, <1>5, <2>1 DEF Standing
  <2>5. once \in OpportunityRow /\ once.review_status = "STALE" /\ once.generated_clip = 0
    BY <2>2, <2>4 DEF OpportunityRow, ReviewStatuses
  <2>6. twice \in OpportunityRow /\ twice.review_status = "STALE" /\ twice.generated_clip = 0
        /\ twice.review_version = 2
    BY <2>3, <2>5 DEF OpportunityRow
  <2>7. Superseded(opportunity[o]) = twice
    BY <2>1, <2>2, <2>3, <2>4 DEF Superseded, OpportunityRow
  <2>8. Cardinality(versions[o]) = 1
    BY <1>3, <1>4, <1>5 DEF Counted
  <2> QED BY <2>1, <2>4, <2>6, <2>7, <2>8 DEF Row
<1>13. /\ \A o \in kept : opportunity'[o] = new
       /\ \A o \in excess : opportunity'[o] = surplus
       /\ \A o \in old : opportunity'[o] = Superseded(opportunity[o])
       /\ \A o \in Opportunities \ (kept \cup excess \cup old) : opportunity'[o] = opportunity[o]
  BY <1>1, <1>2, <1>3, <1>6, <1>7, <1>8, <1>9, <1>11
<1>14. /\ \A o \in kept \cup excess : versions'[o] = versions[o] \cup {Row(New)}
       /\ \A o \in old : versions'[o] = versions[o] \cup {Row(Superseded(opportunity[o]))}
       /\ \A o \in Opportunities \ (kept \cup excess \cup old) : versions'[o] = versions[o]
  <2>1. ASSUME NEW o \in kept \cup excess
        PROVE  versions'[o] = versions[o] \cup {Row(New)}
    <3>1. o \in Opportunities
      BY <1>7
    <3>2. versions'[o] = CASE o \in kept \cup excess -> versions[o] \cup {Row(New)}
                           [] o \in session[w].old ->
                                versions[o] \cup {Row(Superseded(opportunity[o]))}
                           [] OTHER -> versions[o]
      BY <1>6, <3>1
    <3>3. o \notin session[w].old
      BY <1>1, <1>2, <1>11
    <3> QED BY <3>2, <3>3
  <2>2. ASSUME NEW o \in old
        PROVE  versions'[o] = versions[o] \cup {Row(Superseded(opportunity[o]))}
    <3>1. o \notin kept \cup excess /\ o \in Opportunities /\ o \in session[w].old
      BY <1>1, <1>2, <1>3, <1>11
    <3> QED BY <1>6, <3>1
  <2>3. \A o \in Opportunities \ (kept \cup excess \cup old) : versions'[o] = versions[o]
    BY <1>1, <1>2, <1>6
  <2> QED BY <2>1, <2>2, <2>3
<1>15. ASSUME NEW o \in kept \cup excess \cup old
       PROVE  /\ opportunity'[o] \in OpportunityRow
              /\ versions'[o] \subseteq HistoryRow
              /\ Counted(o)' /\ Standing(o)'
              /\ opportunity'[o].review_version > opportunity[o].review_version
  <2>1. CASE o \in kept \cup excess
    <3>1. /\ opportunity'[o] \in OpportunityRow /\ opportunity'[o].review_version = 1
          /\ opportunity'[o].review_status \in {"PENDING", "STALE"}
          /\ opportunity'[o].generated_clip = 0
      BY <1>10, <1>13, <2>1
    <3>2. PICK row : row = Row(New)
      OBVIOUS
    <3>3. row.version = 1 /\ row \in HistoryRow /\ versions'[o] = versions[o] \cup {row}
      BY <1>10, <1>14, <2>1, <3>2 DEF HistoryRow, ReviewStatuses
    <3>4. o \in Opportunities /\ opportunity[o].review_version = 0 /\ versions[o] = {}
      BY <1>7, <1>11, <2>1
    <3>5. Counted(o)'
      BY <1>4, <3>1, <3>3, <3>4, CountedNext
    <3>6. Standing(o)'
      BY <3>1 DEF Standing
    <3> QED BY <3>1, <3>3, <3>4, <3>5, <3>6
  <2>2. CASE o \in old
    <3>1. /\ opportunity'[o] \in OpportunityRow /\ opportunity'[o].review_version = 2
          /\ opportunity'[o].review_status = "STALE"
      BY <1>12, <1>13, <2>2
    <3>2. PICK row : row = Row(Superseded(opportunity[o]))
      OBVIOUS
    <3>3. row.version = 2 /\ row \in HistoryRow /\ versions'[o] = versions[o] \cup {row}
      <4>1. row = [version |-> 2, review |-> "STALE", generated |-> FALSE]
        BY <1>12, <2>2, <3>2
      <4>2. versions'[o] = versions[o] \cup {row}
        BY <1>14, <2>2, <3>2
      <4> QED BY <4>1, <4>2 DEF HistoryRow, ReviewStatuses
    <3>4. /\ o \in Opportunities /\ opportunity[o].review_version = 1
          /\ versions[o] \subseteq HistoryRow
      BY <1>3, <1>4, <1>5, <2>2
    <3>5. Counted(o)'
      BY <1>4, <3>1, <3>3, <3>4, CountedNext
    <3>6. Standing(o)'
      BY <3>1 DEF Standing
    <3> QED BY <3>1, <3>3, <3>4, <3>5, <3>6
  <2> QED BY <2>1, <2>2
<1>16. ReviewRows' /\ Advancing
  <2>1. \A o \in Opportunities \ (kept \cup excess \cup old) : Counted(o)' /\ Standing(o)'
    BY <1>4, <1>13, <1>14 DEF Counted, Standing
  <2>2. opportunity' \in [Opportunities -> OpportunityRow]
    <3>1. \A o \in Opportunities : opportunity'[o] \in OpportunityRow
      BY <1>4, <1>13, <1>15
    <3>2. PICK f : f = opportunity'
      OBVIOUS
    <3>3. \E e \in [Opportunities -> OpportunityRow] : TRUE
      BY DEF ReviewInv, ReviewRows
    <3>4. f = [o \in Opportunities |-> f[o]]
      BY <1>6, <3>2
    <3> QED BY <3>1, <3>2, <3>4
  <2>3. versions' \in [Opportunities -> SUBSET HistoryRow]
    <3>1. \A o \in Opportunities : versions'[o] \in SUBSET HistoryRow
      BY <1>4, <1>14, <1>15
    <3>2. PICK f : f = versions'
      OBVIOUS
    <3>3. f = [o \in Opportunities |-> f[o]]
      BY <1>6, <3>2
    <3> QED BY <3>1, <3>2, <3>3
  <2>4. Advancing
    BY <1>13, <1>15 DEF Advancing
  <2> QED BY <1>15, <2>1, <2>2, <2>3, <2>4 DEF ReviewRows
<1>17. ReviewInv'
  <2>1. OthersStay(w) /\ session'[w] = Idle
    BY <1>3, EndEffect
  <2>2. Informed(Idle)'
    BY DEF Informed, Idle
  <2> QED BY <1>3, <1>16, <2>1, <2>2, ReviewStepKeeps
<1>18. /\ Review!Propose(kept, excess, old)
       /\ kept \in SUBSET Review!Having("ABSENT") /\ old \in SUBSET Review!Having("PENDING")
       /\ excess \in SUBSET (Review!Having("ABSENT") \ kept)
  <2>1. [o \in Opportunities |-> opportunity'[o].review_status]
           = [o \in Opportunities |-> CASE o \in kept -> "PENDING"
                                        [] o \in excess \cup old -> "STALE"
                                        [] OTHER -> opportunity[o].review_status]
    <3>1. ASSUME NEW o \in Opportunities
          PROVE  opportunity'[o].review_status
                   = CASE o \in kept -> "PENDING"
                       [] o \in excess \cup old -> "STALE"
                       [] OTHER -> opportunity[o].review_status
      BY <1>1, <1>2, <1>6, <1>10, <1>11, <1>12, <1>13
    <3> QED BY <3>1
  <2>2. [o \in Opportunities |-> opportunity'[o].generated_clip]
           = [o \in Opportunities |-> opportunity[o].generated_clip]
    <3>1. ASSUME NEW o \in Opportunities
          PROVE  opportunity'[o].generated_clip = opportunity[o].generated_clip
      BY <1>10, <1>11, <1>12, <1>13
    <3> QED BY <3>1
  <2>3. versions' = [o \in Opportunities |->
            CASE o \in kept \cup excess ->
                    {[version |-> Cardinality(versions[o]) + 1, review |-> "PENDING",
                      generated |-> FALSE]}
              [] o \in old ->
                    versions[o] \cup {[version |-> Cardinality(versions[o]) + 1, review |-> "STALE",
                                       generated |-> opportunity[o].generated_clip # 0]}
              [] OTHER -> versions[o]]
    <3>1. PICK f : f = versions'
      OBVIOUS
    <3>2. ASSUME NEW o \in kept \cup excess
          PROVE  f[o] = {[version |-> Cardinality(versions[o]) + 1, review |-> "PENDING",
                          generated |-> FALSE]}
      BY <1>10, <1>11, <1>14, <3>1
    <3>3. ASSUME NEW o \in old
          PROVE  f[o] = versions[o] \cup {[version |-> Cardinality(versions[o]) + 1,
                                           review |-> "STALE",
                                           generated |-> opportunity[o].generated_clip # 0]}
      <4>1. PICK row : row = Row(Superseded(opportunity[o]))
        OBVIOUS
      <4>2. row = [version |-> 2, review |-> "STALE", generated |-> FALSE]
        BY <1>12, <4>1
      <4>3. f[o] = versions[o] \cup {row}
        BY <1>14, <3>1, <4>1
      <4>4. Cardinality(versions[o]) + 1 = 2 /\ (opportunity[o].generated_clip # 0) = FALSE
        BY <1>12
      <4> QED BY <4>2, <4>3, <4>4
    <3>4. \A o \in Opportunities \ (kept \cup excess \cup old) : f[o] = versions[o]
      BY <1>14, <3>1
    <3>5. f = [o \in Opportunities |-> f[o]]
      BY <1>6, <3>1
    <3>6. \A o \in old : o \notin kept \cup excess
      BY <1>11
    <3>7. ASSUME NEW o \in Opportunities
          PROVE f[o] = CASE o \in kept \cup excess ->
                    {[version |-> Cardinality(versions[o]) + 1, review |-> "PENDING",
                      generated |-> FALSE]}
              [] o \in old ->
                    versions[o] \cup {[version |-> Cardinality(versions[o]) + 1, review |-> "STALE",
                                       generated |-> opportunity[o].generated_clip # 0]}
              [] OTHER -> versions[o]
      BY <3>2, <3>3, <3>4, <3>6
    <3> QED BY <3>1, <3>5, <3>7
  <2>4. old \subseteq Opportunities /\ kept \cap excess = {}
        /\ \A o \in old : opportunity[o].review_status = "PENDING"
    BY <1>3, <1>5, <1>6
  <2> QED BY <1>7, <2>1, <2>2, <2>3, <2>4, Proposes
<1>19. CASE kept \cup excess \cup old = {}
  <2>1. \A o \in Opportunities : opportunity'[o] = opportunity[o] /\ versions'[o] = versions[o]
    BY <1>13, <1>14, <1>19
  <2>2. opportunity' = opportunity /\ versions' = versions
    BY <1>16, <2>1 DEF ReviewInv, ReviewRows
  <2> QED BY <1>17, <2>2 DEF Review!vars
<1>20. ASSUME NEW o \in kept \cup excess \cup old
       PROVE  Review!Next
  <2>1. o \in Opportunities /\ opportunity'[o].review_status # opportunity[o].review_status
    BY <1>3, <1>5, <1>7, <1>10, <1>12, <1>13
  <2>2. [p \in Opportunities |-> opportunity'[p].review_status]
           # [p \in Opportunities |-> opportunity[p].review_status]
    <3>1. PICK f : f = [p \in Opportunities |-> opportunity[p].review_status]
      OBVIOUS
    <3>2. PICK g : g = [p \in Opportunities |-> opportunity'[p].review_status]
      OBVIOUS
    <3>3. f[o] # g[o]
      BY <2>1, <3>1, <3>2
    <3> QED BY <3>1, <3>2, <3>3
  <2> QED BY <1>18, <2>2 DEF Review!Next
<1> QED BY <1>17, <1>19, <1>20

-----------------------------------------------------------------------------
(* What leaves the rows of opportunities. *)

(* A session that begins, goes on or ends.                                 *)
LEMMA BeginningKeeps ==
  ASSUME ReviewInv, Shaped, UNCHANGED <<opportunity, versions>>, clips' \in Seq(Clip),
         NEW a \in Actors, NEW s, Begin(a, s), Informed(s)
  PROVE  ReviewInv' /\ UNCHANGED Review!vars
  BY BeginEffect, LeavingKeeps

LEMMA GoingOnKeeps ==
  ASSUME ReviewInv, Shaped, UNCHANGED <<opportunity, versions>>, clips' \in Seq(Clip),
         NEW a \in Actors, NEW place, Goto(a, place),
         place \notin {"rendering", "rendered", "detected"}
  PROVE  ReviewInv' /\ UNCHANGED Review!vars
<1>1. PICK s : s = session[a]
  OBVIOUS
<1>2. PICK t : t = [s EXCEPT !.at = place]
  OBVIOUS
<1>3. session'[a] = t /\ OthersStay(a) /\ {"op", "at"} \subseteq DOMAIN s /\ Informed(s)
  BY <1>1, <1>2, GotoEffect DEF Shaped, ReviewInv
<1>4. t.op = s.op /\ t.at = place /\ t.id = s.id /\ t.copy = s.copy /\ DOMAIN t = DOMAIN s
  BY <1>2, <1>3
<1>5. Informed(t)
  BY <1>3, <1>4 DEF Informed
<1> QED BY <1>3, <1>5, LeavingKeeps

LEMMA EndingSessionKeeps ==
  ASSUME ReviewInv, Shaped, UNCHANGED <<opportunity, versions>>, clips' \in Seq(Clip),
         NEW a \in Actors, End(a)
  PROVE  ReviewInv' /\ UNCHANGED Review!vars
<1>1. Informed(Idle)
  BY DEF Informed, Idle
<1> QED BY <1>1, EndEffect, LeavingKeeps

(* A row read now is a copy of it.                                         *)
LEMMA ReadNow ==
  ASSUME ReviewInv, NEW o \in Opportunities
  PROVE  CopyOf(o, opportunity[o]) /\ opportunity[o].review_version \in Nat
  BY DEF ReviewInv, ReviewRows, CopyOf, OpportunityRow

LEMMA RequestsKeep ==
  ASSUME ReviewInv, Shaped, NEW o \in Actors,
         \/ \E rerun \in BOOLEAN : LoadForDetection(o, rerun)
         \/ RequestGeneration(o) \/ GenerationExists(o) \/ SendGeneration(o)
  PROVE  ReviewInv' /\ UNCHANGED Review!vars
<1>1. ASSUME NEW rerun \in BOOLEAN, LoadForDetection(o, rerun)
      PROVE  ReviewInv' /\ UNCHANGED Review!vars
  <2>1. PICK s : s = [op |-> "DETECT", at |-> "loaded", message |-> NoMessage,
                      latest |-> Latest, rerun |-> rerun,
                      status |-> IF Latest = 0 THEN "ABSENT" ELSE run[Latest]]
    OBVIOUS
  <2>2. Begin(o, s) /\ UNCHANGED <<opportunity, versions, clips>>
    BY <1>1, <2>1 DEF LoadForDetection, rows
  <2>3. Informed(s)
    BY <2>1 DEF Informed
  <2> QED BY <2>2, <2>3, BeginningKeeps DEF ReviewInv
<1>2. ASSUME RequestGeneration(o)
      PROVE  ReviewInv' /\ UNCHANGED Review!vars
  <2>1. Goto(o, "requested") /\ UNCHANGED <<opportunity, versions, clips>>
    BY <1>2 DEF RequestGeneration
  <2> QED BY <2>1, GoingOnKeeps DEF ReviewInv
<1>3. ASSUME GenerationExists(o) \/ SendGeneration(o)
      PROVE  ReviewInv' /\ UNCHANGED Review!vars
  <2>1. End(o) /\ UNCHANGED <<opportunity, versions, clips>>
    BY <1>3 DEF GenerationExists, SendGeneration, rows
  <2> QED BY <2>1, EndingSessionKeeps DEF ReviewInv
<1> QED BY <1>1, <1>2, <1>3

LEMMA GeneratingKeeps ==
  ASSUME ReviewInv, Shaped, NEW w \in Actors,
         \/ TakeDetection(w) \/ LeaveGeneration(w) \/ FirstGeneration(w) \/ StartGeneration(w)
         \/ Detect(w) \/ GenerationFails(w)
  PROVE  ReviewInv' /\ UNCHANGED Review!vars
<1>1. ASSUME TakeDetection(w)
      PROVE  ReviewInv' /\ UNCHANGED Review!vars
  <2>1. PICK s : s = [op |-> "GENERATE", at |-> "loaded", message |-> DetectMessage,
                latest |-> TakenUp, status |-> IF Latest = 0 THEN "ABSENT" ELSE run[TakenUp],
                analysis |-> analysis.status]
    OBVIOUS
  <2>2. Begin(w, s) /\ UNCHANGED <<opportunity, versions, clips>>
    BY <1>1, <2>1 DEF TakeDetection, Receive, rows
  <2>3. Informed(s)
    BY <2>1 DEF Informed
  <2> QED BY <2>2, <2>3, BeginningKeeps DEF ReviewInv
<1>2. ASSUME FirstGeneration(w)
      PROVE  ReviewInv' /\ UNCHANGED Review!vars
  <2>1. UNCHANGED <<opportunity, versions, clips>>
    BY <1>2 DEF FirstGeneration
  <2>2. CASE End(w)
    BY <2>1, <2>2, EndingSessionKeeps DEF ReviewInv
  <2>3. CASE ~End(w)
    <3>1. /\ session' = [session EXCEPT ![w].latest = 1, ![w].status = "QUEUED"]
          /\ session[w].op = "GENERATE" /\ session[w].at = "loaded"
      BY <1>2, <2>3 DEF FirstGeneration, At
    <3>2. PICK s : s = session[w]
      OBVIOUS
    <3>3. PICK u : u = [s EXCEPT !.latest = 1]
      OBVIOUS
    <3>4. PICK t : t = [u EXCEPT !.status = "QUEUED"]
      OBVIOUS
    <3>5. session'[w] = t /\ OthersStay(w) /\ {"op", "at"} \subseteq DOMAIN s
      BY <3>1, <3>2, <3>3, <3>4 DEF Shaped, OthersStay
    <3>6. t.op = "GENERATE" /\ t.at = "loaded"
      BY <3>1, <3>2, <3>3, <3>4, <3>5
    <3>7. Informed(t)
      BY <3>6 DEF Informed
    <3> QED BY <2>1, <3>5, <3>7, LeavingKeeps DEF ReviewInv
  <2> QED BY <2>2, <2>3
<1>3. ASSUME StartGeneration(w)
      PROVE  ReviewInv' /\ UNCHANGED Review!vars
  <2>1. Goto(w, "detecting") /\ UNCHANGED <<opportunity, versions, clips>>
    BY <1>3 DEF StartGeneration
  <2> QED BY <2>1, GoingOnKeeps DEF ReviewInv
<1>4. ASSUME Detect(w)
      PROVE  ReviewInv' /\ UNCHANGED Review!vars
  <2>1. PICK s : s = [op |-> "GENERATE", at |-> "detected", message |-> DetectMessage,
                 latest |-> session[w].latest,
                 old |-> {o \in Opportunities : o[1] < session[w].latest
                            /\ opportunity[o].review_status = "PENDING"}]
    OBVIOUS
  <2>2. Begin(w, s) /\ UNCHANGED <<opportunity, versions, clips>>
    BY <1>4, <2>1 DEF Detect, rows
  <2>3. \A o \in Opportunities : opportunity[o].review_status = "PENDING" => PendingOrLater(o)
    BY ReadNow DEF PendingOrLater, ReviewInv, ReviewRows, Standing
  <2>4. Informed(s)
    BY <2>1, <2>3 DEF Informed
  <2> QED BY <2>2, <2>4, BeginningKeeps DEF ReviewInv
<1>5. ASSUME LeaveGeneration(w) \/ GenerationFails(w)
      PROVE  ReviewInv' /\ UNCHANGED Review!vars
  <2>1. End(w) /\ UNCHANGED <<opportunity, versions, clips>>
    BY <1>5 DEF LeaveGeneration, GenerationFails, rows
  <2> QED BY <2>1, EndingSessionKeeps DEF ReviewInv
<1> QED BY <1>1, <1>2, <1>3, <1>4, <1>5

LEMMA ReviewingKeeps ==
  ASSUME ReviewInv, Shaped, NEW a \in Actors,
         \/ \E o \in Opportunities, approved \in BOOLEAN : LoadForReview(a, o, approved)
         \/ DecisionIsStale(a) \/ EndReview(a) \/ RenderInCall(a)
  PROVE  ReviewInv' /\ UNCHANGED Review!vars
<1>1. ASSUME NEW o \in Opportunities, NEW approved \in BOOLEAN, LoadForReview(a, o, approved)
      PROVE  ReviewInv' /\ UNCHANGED Review!vars
  <2>1. PICK s : s = [op |-> "DECIDE", at |-> "loaded", message |-> NoMessage, id |-> o,
                      approved |-> approved, copy |-> opportunity[o]]
    OBVIOUS
  <2>2. /\ Begin(a, s) /\ UNCHANGED <<opportunity, versions, clips>>
        /\ opportunity[o].review_status \in {"PENDING", "APPROVED", "REJECTED"}
    BY <1>1, <2>1 DEF LoadForReview, rows
  <2>3. Informed(s)
    BY <2>1, <2>2, ReadNow DEF Informed
  <2> QED BY <2>2, <2>3, BeginningKeeps DEF ReviewInv
<1>2. ASSUME DecisionIsStale(a) \/ EndReview(a)
      PROVE  ReviewInv' /\ UNCHANGED Review!vars
  <2>1. End(a) /\ UNCHANGED <<opportunity, versions, clips>>
    BY <1>2 DEF DecisionIsStale, EndReview, rows
  <2> QED BY <2>1, EndingSessionKeeps DEF ReviewInv
<1>3. ASSUME RenderInCall(a)
      PROVE  ReviewInv' /\ UNCHANGED Review!vars
  <2>1. PICK s : s = [op |-> "RENDER", at |-> "loaded", message |-> NoMessage,
                      id |-> session[a].id, copy |-> session[a].copy]
    OBVIOUS
  <2>2. /\ Begin(a, s) /\ UNCHANGED <<opportunity, versions, clips>>
        /\ session[a].op = "DECIDE"
    BY <1>3, <2>1 DEF RenderInCall, At, rows
  <2>3. Informed(s)
    BY <2>1, <2>2 DEF Informed, ReviewInv
  <2> QED BY <2>2, <2>3, BeginningKeeps DEF ReviewInv
<1> QED BY <1>1, <1>2, <1>3

LEMMA RenderingKeeps ==
  ASSUME ReviewInv, Shaped, NEW a \in Actors,
         \/ \E o \in Opportunities : TakeRender(a, o)
         \/ LeaveRender(a) \/ StartRender(a) \/ CommitClip(a) \/ RenderConflicts(a)
  PROVE  ReviewInv' /\ UNCHANGED Review!vars
<1>1. ASSUME NEW o \in Opportunities, TakeRender(a, o)
      PROVE  ReviewInv' /\ UNCHANGED Review!vars
  <2>1. PICK s : s = [op |-> "RENDER", at |-> "loaded", message |-> RenderMessage(o), id |-> o,
                      copy |-> opportunity[o]]
    OBVIOUS
  <2>2. Begin(a, s) /\ UNCHANGED <<opportunity, versions, clips>>
    BY <1>1, <2>1 DEF TakeRender, Receive, rows
  <2>3. Informed(s)
    BY <2>1, ReadNow DEF Informed
  <2> QED BY <2>2, <2>3, BeginningKeeps DEF ReviewInv
<1>2. ASSUME StartRender(a)
      PROVE  ReviewInv' /\ UNCHANGED Review!vars
  <2>1. UNCHANGED <<opportunity, versions, clips>>
    BY <1>2 DEF StartRender, rows
  <2>2. CASE End(a)
    BY <2>1, <2>2, EndingSessionKeeps DEF ReviewInv
  <2>3. CASE ~End(a)
    <3>1. PICK s : s = [op |-> "RENDER", at |-> "rendering", message |-> session[a].message,
                        id |-> session[a].id, copy |-> session[a].copy, number |-> NextNumber]
      OBVIOUS
    <3>2. /\ Begin(a, s) /\ session[a].op = "RENDER"
          /\ session[a].copy.review_status = "APPROVED" /\ session[a].copy.generated_clip = 0
      BY <1>2, <2>3, <3>1 DEF StartRender, At
    <3>3. NextNumber \in Nat \ {0}
      <4>1. Len(clips) \in Nat
        BY DEF ReviewInv
      <4> QED BY <4>1 DEF NextNumber
    <3>4. Informed(s)
      BY <3>1, <3>2, <3>3 DEF Informed, ReviewInv
    <3> QED BY <2>1, <3>2, <3>4, BeginningKeeps DEF ReviewInv
  <2> QED BY <2>2, <2>3
<1>3. ASSUME CommitClip(a)
      PROVE  ReviewInv' /\ UNCHANGED Review!vars
  <2>1. PICK s : s = session[a]
    OBVIOUS
  <2>2. PICK ok \in BOOLEAN : InsertClip(s.number, s.id, ok)
    BY <1>3, <2>1 DEF CommitClip
  <2>3. /\ Goto(a, "rendered") /\ UNCHANGED <<opportunity, versions>>
        /\ s.op = "RENDER" /\ s.at = "rendering"
    BY <1>3, <2>1 DEF CommitClip, At
  <2>4. s.id \in Opportunities /\ Informed(s)
    BY <2>1, <2>3 DEF ReviewInv, Informed
  <2>5. clips' \in Seq(Clip)
    <3>1. PICK row : row = [opportunity |-> s.id, rendered |-> ok]
      OBVIOUS
    <3>2. row \in Clip
      BY <2>4, <3>1 DEF Clip
    <3>3. clips' = Append(clips, row)
      BY <2>2, <3>1 DEF InsertClip
    <3> QED BY <3>2, <3>3 DEF ReviewInv
  <2>6. PICK t : t = [s EXCEPT !.at = "rendered"]
    OBVIOUS
  <2>7. session'[a] = t /\ OthersStay(a) /\ {"op", "at"} \subseteq DOMAIN s
    BY <2>1, <2>3, <2>6, GotoEffect DEF Shaped
  <2>8. t.op = "RENDER" /\ t.id = s.id /\ t.copy = s.copy /\ t.number = s.number
    BY <2>3, <2>6, <2>7
  <2>9. Informed(t)
    BY <2>3, <2>4, <2>8 DEF Informed
  <2> QED BY <2>3, <2>5, <2>7, <2>9, LeavingKeeps
<1>4. ASSUME LeaveRender(a) \/ RenderConflicts(a)
      PROVE  ReviewInv' /\ UNCHANGED Review!vars
  <2>1. End(a) /\ UNCHANGED <<opportunity, versions, clips>>
    BY <1>4 DEF LeaveRender, RenderConflicts, EndInException, rows
  <2> QED BY <2>1, EndingSessionKeeps DEF ReviewInv
<1> QED BY <1>1, <1>2, <1>3, <1>4

-----------------------------------------------------------------------------
(* Every step of ClipOpportunities keeps the invariant and is a step of    *)
(* OpportunityReview, or none.                                             *)
LEMMA OpportunitiesImplement ==
  ASSUME ReviewInv, Shaped, NEW a \in Actors,
         \/ OpportunitiesHandler(a) \/ Generate(a) \/ Render(a) \/ TakeDetection(a)
         \/ \E o \in Opportunities : TakeRender(a, o)
  PROVE  ReviewInv' /\ (UNCHANGED Review!vars \/ Review!Next)
<1>1. CASE DecideOpportunity(a)
  BY <1>1, DecisionImplements DEF Review!Next
<1>2. CASE LinkClip(a)
  BY <1>2, LinkImplements DEF Review!Next
<1>3. CASE CommitGeneration(a)
  BY <1>3, CommitImplements
<1>4. CASE \/ \E rerun \in BOOLEAN : LoadForDetection(a, rerun)
           \/ RequestGeneration(a) \/ GenerationExists(a) \/ SendGeneration(a)
  BY <1>4, RequestsKeep
<1>5. CASE \/ TakeDetection(a) \/ LeaveGeneration(a) \/ FirstGeneration(a) \/ StartGeneration(a)
           \/ Detect(a) \/ GenerationFails(a)
  BY <1>5, GeneratingKeeps
<1>6. CASE \/ \E o \in Opportunities, approved \in BOOLEAN : LoadForReview(a, o, approved)
           \/ DecisionIsStale(a) \/ EndReview(a) \/ RenderInCall(a)
  BY <1>6, ReviewingKeeps
<1>7. CASE \/ \E o \in Opportunities : TakeRender(a, o)
           \/ LeaveRender(a) \/ StartRender(a) \/ CommitClip(a) \/ RenderConflicts(a)
  BY <1>7, RenderingKeeps
<1> QED BY <1>1, <1>2, <1>3, <1>4, <1>5, <1>6, <1>7 DEF OpportunitiesHandler, Generate, Render

-----------------------------------------------------------------------------
(* What a generation reads of the analysis. *)

AnalysisRow == [status : AnalysisStatuses, transcript : Nat, whole : BOOLEAN]
Stages == {"analysing", "timeline", "transcription", "text", "completing"}

(* What a task that analyses, or detects, may rely on.                     *)
Analysing(a, s) ==
    /\ s.op \in {"RUN", "GENERATE"} => a \in Workers
    /\ s.op = "RUN" /\ s.at \in Stages => analysis.status # "COMPLETED"
    /\ s.op = "RUN" /\ s.at = "transcription" => analysis.transcript = 0
    /\ s.op = "RUN" /\ s.at = "completing" => analysis.whole
    /\ s.op = "GENERATE" /\ s.at = "loaded" /\ s.analysis = "COMPLETED" => analysis.whole
    /\ s.op = "GENERATE" /\ s.at = "detecting" => analysis.whole

FactsInv ==
    /\ analysis \in AnalysisRow
    /\ analysis.transcript <= 1
    /\ analysis.status = "COMPLETED" => analysis.whole
    /\ \A a \in Actors : Analysing(a, session[a])

LEMMA FactsInitially ==
  ASSUME AnalysisInit, \A a \in Actors : session[a] = Idle
  PROVE  FactsInv
  BY DEF AnalysisInit, FactsInv, AnalysisRow, AnalysisStatuses, Analysing, Idle

LEMMA FactsInvIsEnough ==
  ASSUME FactsInv
  PROVE  DetectsInWholeFacts
  BY DEF FactsInv, DetectsInWholeFacts, Analysing, At, Actors

(* While the facts stay, and the status does not become COMPLETED, every   *)
(* session knows what it knew.                                             *)
FactsStay ==
    \/ UNCHANGED analysis
    \/ \E status \in AnalysisStatuses \ {"COMPLETED"} :
          analysis' = [analysis EXCEPT !.status = status]

LEMMA StayingFacts ==
  ASSUME FactsInv, FactsStay
  PROVE  /\ analysis' \in AnalysisRow
         /\ analysis'.transcript = analysis.transcript /\ analysis'.whole = analysis.whole
         /\ analysis'.status = analysis.status
              \/ analysis'.status \in AnalysisStatuses \ {"COMPLETED"}
  BY DEF FactsInv, FactsStay, AnalysisRow

LEMMA FactsKept ==
  ASSUME FactsInv, FactsStay,
         \A a \in Actors : session'[a] = session[a] \/ Analysing(a, session'[a])
  PROVE  FactsInv'
<1>1. ASSUME NEW a \in Actors
      PROVE  Analysing(a, session[a])'
  <2>1. PICK s : s = session'[a]
    OBVIOUS
  <2>2. Analysing(a, s)
    BY <2>1 DEF FactsInv
  <2>3. Analysing(a, s)'
    BY <2>2, StayingFacts DEF Analysing
  <2> QED BY <2>1, <2>3 DEF Analysing
<1>2. analysis'.status = "COMPLETED" => analysis'.whole
  BY StayingFacts DEF FactsInv
<1>3. analysis'.transcript <= 1
  BY StayingFacts DEF FactsInv
<1> QED BY <1>1, <1>2, <1>3, StayingFacts DEF FactsInv

LEMMA FactsUntouched ==
  ASSUME FactsInv, FactsStay, NEW a \in Actors, OthersStay(a),
         session'[a].op \notin {"RUN", "GENERATE"}
  PROVE  FactsInv'
<1>1. ASSUME NEW b \in Actors
      PROVE  session'[b] = session[b] \/ Analysing(b, session'[b])
  BY DEF OthersStay, Analysing
<1> QED BY <1>1, FactsKept

(* The one worker writes what nobody else relies on.                       *)
LEMMA WorkerWrites ==
  ASSUME FactsInv, OneWorker, NEW w \in Workers, OthersStay(w), analysis' \in AnalysisRow,
         analysis'.transcript <= 1, analysis'.status = "COMPLETED" => analysis'.whole,
         Analysing(w, session[w])'
  PROVE  FactsInv'
<1>1. ASSUME NEW b \in Actors
      PROVE  Analysing(b, session[b])'
  <2>1. CASE b = w
    BY <2>1
  <2>2. CASE b # w
    <3>1. PICK s : s = session[b]
      OBVIOUS
    <3>2. s.op \notin {"RUN", "GENERATE"}
      BY <2>2, <3>1 DEF FactsInv, Analysing, OneWorker
    <3>3. session'[b] = s
      BY <2>2, <3>1 DEF OthersStay
    <3>4. Analysing(b, s)'
      BY <3>2 DEF Analysing
    <3> QED BY <3>3, <3>4 DEF Analysing
  <2> QED BY <2>1, <2>2
<1> QED BY <1>1 DEF FactsInv

LEMMA StatusesStay ==
  ASSUME FactsInv, NEW status \in AnalysisStatuses \ {"COMPLETED"},
         analysis' = [analysis EXCEPT !.status = status] \/ UNCHANGED analysis
  PROVE  FactsStay
  BY DEF FactsStay

LEMMA AnalysisKeepsFacts ==
  ASSUME FactsInv, Shaped, OneWorker, NEW a \in Actors,
         AnalysisHandler(a) \/ Analyse(a) \/ (a \in Workers /\ TakeAnalysis(a))
  PROVE  FactsInv'
<1>0. {"QUEUED", "RUNNING", "FAILED", "CANCELLED"} \subseteq AnalysisStatuses \ {"COMPLETED"}
  BY DEF AnalysisStatuses
<1>1. ASSUME NEW op \in {"ANALYSE", "REANALYSE", "CANCEL"}, LoadForAnalysis(a, op)
      PROVE  FactsInv'
  <2>1. session'[a].op = op /\ OthersStay(a)
    BY <1>1, BeginEffect DEF LoadForAnalysis
  <2>2. FactsStay
    BY <1>1 DEF LoadForAnalysis, FactsStay
  <2> QED BY <2>1, <2>2, FactsUntouched
<1>2. CASE \/ AlreadyRequested(a) \/ SendAnalysis(a) \/ CancelAnalysis(a)
           \/ FetchedSendsAnalysis(a) \/ LeaveAnalysis(a) \/ SendDetection(a)
           \/ AnalysisFails(a)
  <2>1. session'[a].op = "IDLE" /\ OthersStay(a)
    BY <1>2, EndEffect
    DEF AlreadyRequested, SendAnalysis, CancelAnalysis, FetchedSendsAnalysis, LeaveAnalysis,
        SendDetection, AnalysisFails
  <2>2. FactsStay
    BY <1>0, <1>2, StatusesStay
    DEF AlreadyRequested, SendAnalysis, CancelAnalysis, FetchedSendsAnalysis, LeaveAnalysis,
        SendDetection, AnalysisFails, AnalysisUnchanged
  <2> QED BY <2>1, <2>2, FactsUntouched
<1>3. CASE RequestAnalysis(a) \/ FetchedRequestsAnalysis(a)
  <2>1. session'[a].op \in {"ANALYSE", "REANALYSE", "FETCH"} /\ OthersStay(a)
    BY <1>3, GotoPlace DEF RequestAnalysis, FetchedRequestsAnalysis, At, Shaped
  <2>2. FactsStay
    BY <1>0, <1>3, StatusesStay DEF RequestAnalysis, FetchedRequestsAnalysis, Requested
  <2> QED BY <2>1, <2>2, FactsUntouched
<1>4. CASE a \in Workers /\ TakeAnalysis(a)
  <2>1. session'[a].op = "RUN" /\ session'[a].at = "loaded" /\ OthersStay(a)
    BY <1>4, BeginEffect DEF TakeAnalysis, Receive
  <2>2. Analysing(a, session'[a])
    BY <1>4, <2>1 DEF Analysing, Stages
  <2>3. FactsStay
    BY <1>4 DEF TakeAnalysis, FactsStay
  <2> QED BY <2>1, <2>2, <2>3, FactsKept DEF OthersStay
<1>5. CASE FindCompleted(a)
  <2>1. /\ session'[a].op = "RUN" /\ session'[a].at = "completed" /\ OthersStay(a)
        /\ session[a].op = "RUN"
    BY <1>5, GotoPlace DEF FindCompleted, At, Shaped
  <2>2. Analysing(a, session'[a])
    BY <2>1 DEF FactsInv, Analysing, Stages
  <2>3. FactsStay
    BY <1>5 DEF FindCompleted, AnalysisUnchanged, FactsStay
  <2> QED BY <2>1, <2>2, <2>3, FactsKept DEF OthersStay
<1>6. ASSUME session[a].op = "RUN"
      PROVE  a \in Workers
  BY <1>6 DEF FactsInv, Analysing
<1>7. CASE StartAnalysis(a)
  <2>1. /\ session'[a].op = "RUN" /\ session'[a].at = "analysing" /\ OthersStay(a)
        /\ session[a].op = "RUN"
    BY <1>7, GotoPlace DEF StartAnalysis, At, Shaped
  <2>2. analysis' = [analysis EXCEPT !.status = "RUNNING"]
    BY <1>7 DEF StartAnalysis
  <2>3. /\ analysis' \in AnalysisRow /\ analysis'.status = "RUNNING"
        /\ analysis'.transcript <= 1
    BY <1>0, <2>2 DEF FactsInv, AnalysisRow
  <2>4. Analysing(a, session[a])'
    BY <1>6, <2>1, <2>3 DEF Analysing
  <2> QED BY <1>6, <2>1, <2>3, <2>4, WorkerWrites
<1>8. CASE AnalyseVideo(a)
  <2>1. session[a].op = "RUN" /\ session[a].at = "analysing"
    BY <1>8 DEF AnalyseVideo, At
  <2>2. /\ OthersStay(a) /\ session'[a].op \in {"RUN", "IDLE"}
        /\ session'[a].op = "RUN" => session'[a].at = "timeline"
    BY <1>8, <2>1, GotoPlace, EndEffect DEF AnalyseVideo, GoOnUnlessCancelled, Shaped
  <2>3. Analysing(a, session'[a])
    BY <2>1, <2>2 DEF FactsInv, Analysing, Stages
  <2>4. FactsStay
    BY <1>8 DEF AnalyseVideo, AnalysisUnchanged, FactsStay
  <2> QED BY <2>2, <2>3, <2>4, FactsKept DEF OthersStay
<1>9. CASE WriteTimeline(a)
  <2>1. session[a].op = "RUN" /\ session[a].at = "timeline"
    BY <1>9 DEF WriteTimeline, At
  <2>2. /\ OthersStay(a) /\ session'[a].op \in {"RUN", "IDLE"}
        /\ session'[a].op = "RUN" => session'[a].at = "transcription"
    BY <1>9, <2>1, GotoPlace, EndEffect DEF WriteTimeline, GoOnUnlessCancelled, Shaped
  <2>3. analysis.status # "COMPLETED"
    BY <2>1 DEF FactsInv, Analysing, Stages
  <2>4. /\ analysis' \in AnalysisRow /\ analysis'.status = analysis.status
        /\ analysis'.transcript = 0
    BY <1>9 DEF WriteTimeline, FactsInv, AnalysisRow
  <2>5. Analysing(a, session[a])'
    BY <1>6, <2>1, <2>2, <2>3, <2>4 DEF Analysing
  <2> QED BY <1>6, <2>1, <2>2, <2>3, <2>4, <2>5, WorkerWrites
<1>10. CASE WriteTranscript(a)
  <2>1. session[a].op = "RUN" /\ session[a].at = "transcription"
    BY <1>10 DEF WriteTranscript, At
  <2>2. /\ OthersStay(a) /\ session'[a].op \in {"RUN", "IDLE"}
        /\ session'[a].op = "RUN" => session'[a].at = "text"
    BY <1>10, <2>1, GotoPlace, EndEffect DEF WriteTranscript, GoOnUnlessCancelled, Shaped
  <2>3. analysis.status # "COMPLETED" /\ analysis.transcript = 0
    BY <2>1 DEF FactsInv, Analysing, Stages
  <2>4. PICK n \in {analysis.transcript, analysis.transcript + 1} :
           analysis' = [analysis EXCEPT !.transcript = n]
    BY <1>10 DEF WriteTranscript
  <2>5. n \in {0, 1}
    BY <2>3, <2>4
  <2>6. /\ analysis' \in AnalysisRow /\ analysis'.status = analysis.status
        /\ analysis'.transcript <= 1
    BY <2>4, <2>5 DEF FactsInv, AnalysisRow
  <2>7. Analysing(a, session[a])'
    BY <1>6, <2>1, <2>2, <2>3, <2>6 DEF Analysing
  <2> QED BY <1>6, <2>1, <2>2, <2>3, <2>6, <2>7, WorkerWrites
<1>11. CASE WriteText(a)
  <2>1. session[a].op = "RUN" /\ session[a].at = "text"
    BY <1>11 DEF WriteText, At
  <2>2. /\ OthersStay(a) /\ session'[a].op \in {"RUN", "IDLE"}
        /\ session'[a].op = "RUN" => session'[a].at = "completing"
    BY <1>11, <2>1, GotoPlace, EndEffect DEF WriteText, GoOnUnlessCancelled, Shaped
  <2>3. analysis.status # "COMPLETED"
    BY <2>1 DEF FactsInv, Analysing, Stages
  <2>4. /\ analysis' \in AnalysisRow /\ analysis'.status = analysis.status
        /\ analysis'.transcript <= 1 /\ analysis'.whole
    BY <1>11 DEF WriteText, FactsInv, AnalysisRow
  <2>5. Analysing(a, session[a])'
    BY <1>6, <2>1, <2>2, <2>3, <2>4 DEF Analysing
  <2> QED BY <1>6, <2>1, <2>2, <2>3, <2>4, <2>5, WorkerWrites
<1>12. CASE CompleteAnalysis(a)
  <2>1. session[a].op = "RUN" /\ session[a].at = "completing"
    BY <1>12 DEF CompleteAnalysis, At
  <2>2. OthersStay(a) /\ session'[a].op = "RUN" /\ session'[a].at = "completed"
    BY <1>12, <2>1, GotoPlace DEF CompleteAnalysis, Shaped
  <2>3. analysis.whole
    BY <2>1 DEF FactsInv, Analysing
  <2>4. analysis' \in AnalysisRow /\ analysis'.transcript <= 1 /\ analysis'.whole
    BY <1>12, <2>3 DEF CompleteAnalysis, FactsInv, AnalysisRow, AnalysisStatuses
  <2>5. Analysing(a, session[a])'
    BY <1>6, <2>1, <2>2 DEF Analysing, Stages
  <2> QED BY <1>6, <2>1, <2>2, <2>4, <2>5, WorkerWrites
<1> QED BY <1>1, <1>2, <1>3, <1>4, <1>5, <1>7, <1>8, <1>9, <1>10, <1>11, <1>12
        DEF AnalysisHandler, Analyse

LEMMA DetectionKeepsFacts ==
  ASSUME FactsInv, Shaped, NEW a \in Actors,
         \/ OpportunitiesHandler(a) \/ Generate(a) \/ Render(a)
         \/ a \in Workers /\ TakeDetection(a)
         \/ \E o \in Opportunities : TakeRender(a, o)
  PROVE  FactsInv'
<1>0. CASE UNCHANGED analysis /\ OthersStay(a) /\ Analysing(a, session'[a])
  BY <1>0, FactsKept DEF OthersStay, FactsStay
<1>1. CASE UNCHANGED analysis /\ OthersStay(a) /\ session'[a].op \notin {"RUN", "GENERATE"}
  BY <1>1, FactsUntouched DEF FactsStay
<1>2. ASSUME NEW rerun \in BOOLEAN, LoadForDetection(a, rerun)
      PROVE  FactsInv'
  BY <1>1, <1>2, BeginEffect DEF LoadForDetection, rows
<1>3. ASSUME NEW o \in Opportunities, NEW approved \in BOOLEAN, LoadForReview(a, o, approved)
      PROVE  FactsInv'
  BY <1>1, <1>3, BeginEffect DEF LoadForReview, rows
<1>4. ASSUME NEW o \in Opportunities, TakeRender(a, o)
      PROVE  FactsInv'
  BY <1>1, <1>4, BeginEffect DEF TakeRender, Receive, rows
<1>5. CASE \/ GenerationExists(a) \/ SendGeneration(a) \/ LeaveGeneration(a)
           \/ CommitGeneration(a) \/ GenerationFails(a) \/ DecisionIsStale(a) \/ EndReview(a)
           \/ LeaveRender(a) \/ LinkClip(a) \/ RenderConflicts(a)
  <2>1. OthersStay(a) /\ session'[a].op = "IDLE"
    BY <1>5, EndEffect
    DEF GenerationExists, SendGeneration, LeaveGeneration, CommitGeneration, GenerationFails,
        DecisionIsStale, EndReview, LeaveRender, LinkClip, RenderConflicts, EndInException
  <2>2. UNCHANGED analysis
    BY <1>5
    DEF GenerationExists, SendGeneration, LeaveGeneration, CommitGeneration, GenerationFails,
        DecisionIsStale, EndReview, LeaveRender, LinkClip, RenderConflicts, rows, upstream
  <2> QED BY <1>1, <2>1, <2>2
<1>6. CASE RequestGeneration(a) \/ CommitClip(a)
  <2>1. OthersStay(a) /\ session'[a].op \in {"DETECT", "RENDER"}
    BY <1>6, GotoPlace DEF RequestGeneration, CommitClip, At, Shaped
  <2>2. UNCHANGED analysis
    BY <1>6 DEF RequestGeneration, CommitClip, upstream
  <2> QED BY <1>1, <2>1, <2>2
<1>7. CASE DecideOpportunity(a)
  <2>1. OthersStay(a) /\ session'[a].op = "DECIDE"
    BY <1>7 DEF DecideOpportunity, At, Shaped, Goto, OthersStay
  <2>2. UNCHANGED analysis
    BY <1>7 DEF DecideOpportunity, upstream
  <2> QED BY <1>1, <2>1, <2>2
<1>8. CASE RenderInCall(a)
  BY <1>1, <1>8, BeginEffect DEF RenderInCall, rows
<1>9. CASE StartRender(a)
  <2>1. OthersStay(a) /\ session'[a].op \in {"RENDER", "IDLE"}
    BY <1>9, BeginEffect, EndEffect DEF StartRender
  <2> QED BY <1>1, <1>9, <2>1 DEF StartRender, rows
<1>10. CASE a \in Workers /\ TakeDetection(a)
  <2>1. PICK s : s = session'[a]
    OBVIOUS
  <2>2. /\ OthersStay(a) /\ s.op = "GENERATE" /\ s.at = "loaded"
        /\ s.analysis = analysis.status
    BY <1>10, <2>1, BeginEffect DEF TakeDetection, Receive
  <2>3. Analysing(a, s)
    BY <1>10, <2>2 DEF FactsInv, Analysing
  <2> QED BY <1>0, <1>10, <2>1, <2>2, <2>3 DEF TakeDetection, rows
<1>11. ASSUME session[a].op = "GENERATE"
       PROVE  a \in Workers
  BY <1>11 DEF FactsInv, Analysing
<1>12. CASE FirstGeneration(a)
  <2>1. session[a].op = "GENERATE" /\ session[a].at = "loaded"
    BY <1>12 DEF FirstGeneration, At
  <2>2. UNCHANGED analysis
    BY <1>12 DEF FirstGeneration, upstream
  <2>3. CASE run[1] # "ABSENT"
    BY <1>1, <1>12, <2>2, <2>3, EndEffect DEF FirstGeneration
  <2>4. CASE run[1] = "ABSENT"
    <3>1. PICK s : s = session'[a]
      OBVIOUS
    <3>2. PICK t : t = [session[a] EXCEPT !.latest = 1]
      OBVIOUS
    <3>3. OthersStay(a) /\ s = [t EXCEPT !.status = "QUEUED"]
      BY <1>12, <2>4, <3>1, <3>2 DEF FirstGeneration, Shaped, OthersStay
    <3>4. s.op = session[a].op /\ s.at = session[a].at
      BY <3>2, <3>3 DEF Shaped
    <3>5. session[a].analysis = "COMPLETED"
      BY <1>12 DEF FirstGeneration, Detectable
    <3>6. Analysing(a, s)
      BY <2>1, <3>4, <3>5 DEF FactsInv, Analysing
    <3> QED BY <1>0, <2>2, <3>1, <3>3, <3>6
  <2> QED BY <2>3, <2>4
<1>13. CASE StartGeneration(a)
  <2>1. session[a].op = "GENERATE" /\ session[a].at = "loaded" /\ session[a].analysis = "COMPLETED"
    BY <1>13 DEF StartGeneration, At, Detectable
  <2>2. OthersStay(a) /\ session'[a].op = "GENERATE" /\ session'[a].at = "detecting"
    BY <1>13, <2>1, GotoPlace DEF StartGeneration, Shaped
  <2>3. Analysing(a, session'[a])
    BY <2>1, <2>2 DEF FactsInv, Analysing
  <2> QED BY <1>0, <1>13, <2>2, <2>3 DEF StartGeneration, upstream
<1>14. CASE Detect(a)
  <2>1. session[a].op = "GENERATE"
    BY <1>14 DEF Detect, At
  <2>2. OthersStay(a) /\ session'[a].op = "GENERATE" /\ session'[a].at = "detected"
    BY <1>14, BeginEffect DEF Detect
  <2>3. Analysing(a, session'[a])
    BY <1>11, <2>1, <2>2 DEF Analysing
  <2> QED BY <1>0, <1>14, <2>2, <2>3 DEF Detect, rows
<1> QED BY <1>2, <1>3, <1>4, <1>5, <1>6, <1>7, <1>8, <1>9, <1>10, <1>12, <1>13, <1>14
        DEF OpportunitiesHandler, Generate, Render

(* A step that leaves the analysis, and comes to sessions of other         *)
(* operations only.                                                        *)
LEMMA FactsLeft ==
  ASSUME FactsInv, UNCHANGED analysis, NEW Ops, Confined(Ops),
         (Ops \cup {"IDLE"}) \cap {"RUN", "GENERATE"} = {}
  PROVE  FactsInv'
<1>1. ASSUME NEW a \in Actors
      PROVE  session'[a] = session[a] \/ Analysing(a, session'[a])
  BY DEF Confined, Analysing
<1> QED BY <1>1, FactsKept DEF FactsStay
-----------------------------------------------------------------------------
(* The source of the project: what was selected and fetched stays there.   *)

Unresolved == {"ABSENT", "CREATED", "SOURCE_REJECTED"}
Sourced(p) == p.selected = None => p.status \in Unresolved /\ p.key = None

KnowsSource(s) ==
    /\ s.op = "ACCEPT" => project.selected # None
    /\ s.op = "CLIPS" => project.key # None
    /\ s.op = "FETCH" => /\ s.project \in Project /\ Sourced(s.project)
                         /\ s.project.selected # None => project.selected # None
                         /\ s.at = "downloading" => s.project.selected # None

SourceInv ==
    /\ project \in Project /\ Sourced(project)
    /\ project.status \in {"SOURCE_READY", "CLIPS_READY"} => project.key # None
    /\ \A a \in Actors : KnowsSource(session[a])

LEMMA SourceInitially ==
  ASSUME ProductionInit, \A a \in Actors : session[a] = Idle
  PROVE  SourceInv
  BY DEF ProductionInit, SourceInv, Project, ProjectStatuses, Sourced, Unresolved, KnowsSource,
         Idle

(* What becomes of the row in a step of production.                        *)
SourceGoesOn ==
    /\ project' \in Project /\ Sourced(project)'
    /\ project'.status \in {"SOURCE_READY", "CLIPS_READY"} => project'.key # None
    /\ project.selected # None => project'.selected # None
    /\ project.key # None => project'.key # None

LEMMA SourceStep ==
  ASSUME SourceInv, SourceGoesOn, NEW a \in Actors, OthersStay(a),
         NEW s, session'[a] = s, KnowsSource(s)'
  PROVE  SourceInv'
<1>1. ASSUME NEW b \in Actors
      PROVE  KnowsSource(session[b])'
  <2>1. PICK t : t = session[b]
    OBVIOUS
  <2>2. KnowsSource(t)'
    BY <2>1 DEF SourceInv, SourceGoesOn, KnowsSource, Sourced
  <2>3. CASE b = a
    BY <2>3
  <2>4. CASE b # a
    <3>1. session'[b] = t
      BY <2>1, <2>4 DEF OthersStay
    <3> QED BY <2>2, <3>1
  <2> QED BY <2>3, <2>4
<1> QED BY <1>1 DEF SourceInv, SourceGoesOn

LEMMA SourceLeft ==
  ASSUME SourceInv, UNCHANGED project
  PROVE  SourceGoesOn
  BY DEF SourceInv, SourceGoesOn, Sourced

(* A session that is no download, acceptance or cutting knows nothing.     *)
LEMMA SourceUntouched ==
  ASSUME SourceInv, SourceGoesOn, NEW a \in Actors, OthersStay(a),
         session'[a].op \notin {"ACCEPT", "CLIPS", "FETCH"}
  PROVE  SourceInv'
<1>1. PICK s : s = session'[a]
  OBVIOUS
<1>2. KnowsSource(s)'
  BY <1>1 DEF KnowsSource
<1> QED BY <1>1, <1>2, SourceStep

(* The copy that is loaded now.                                            *)
LEMMA LoadedKnows ==
  ASSUME SourceInv, UNCHANGED project, NEW a \in Actors, Shaped,
         NEW op, NEW message, Begin(a, Loaded(op, "loaded", message)),
         op = "ACCEPT" => project.selected # None, op # "CLIPS"
  PROVE  SourceInv'
<1>1. PICK s : s = Loaded(op, "loaded", message)
  OBVIOUS
<1>2. s.op = op /\ s.at = "loaded" /\ s.project = project
  BY <1>1 DEF Loaded
<1>3. KnowsSource(s)
  BY <1>2 DEF SourceInv, KnowsSource
<1>4. session'[a] = s /\ OthersStay(a)
  BY <1>1, BeginEffect
<1>5. KnowsSource(s)'
  BY <1>3 DEF KnowsSource, Sourced
<1> QED BY <1>4, <1>5, SourceLeft, SourceStep

LEMMA StatusSet ==
  ASSUME SourceInv, NEW status \in ProjectStatuses,
         project' = [project EXCEPT !.status = status],
         project.selected # None \/ status \in Unresolved,
         status \in {"SOURCE_READY", "CLIPS_READY"} => project.key # None
  PROVE  SourceGoesOn
  BY DEF SourceInv, SourceGoesOn, Project, Sourced

LEMMA FetchingKnows ==
  ASSUME SourceInv, NEW a \in Actors, session[a].op = "FETCH"
  PROVE  /\ session[a].project \in Project
         /\ session[a].project.status \notin Unresolved => session[a].project.selected # None
         /\ session[a].project.selected # None => project.selected # None
         /\ session[a].at = "downloading" => session[a].project.selected # None
  BY DEF SourceInv, KnowsSource, Sourced

LEMMA DownloadKeepsSource ==
  ASSUME SourceInv, Shaped, NEW a \in Actors, StartDownload(a) \/ AttachSource(a)
  PROVE  SourceInv'
<1>1. PICK s : s = session[a]
  OBVIOUS
<1>2. PICK t : t = session'[a]
  OBVIOUS
<1>3. /\ s.op = "FETCH" /\ s.project \in Project
      /\ s.project.status \notin Unresolved => s.project.selected # None
      /\ s.project.selected # None => project.selected # None
  BY <1>1, FetchingKnows DEF StartDownload, AttachSource, At
<1>4. PICK copy : copy = s.project
  OBVIOUS
<1>5. {"DOWNLOADING", "SOURCE_READY"} \subseteq ProjectStatuses
  BY DEF ProjectStatuses
<1>6. CASE StartDownload(a)
  <2>1. copy.selected # None /\ project.selected # None
    BY <1>1, <1>3, <1>4, <1>6 DEF StartDownload, Downloadable, Unresolved
  <2>2. SourceGoesOn
    BY <1>5, <1>6, <2>1, StatusSet, SourceLeft DEF StartDownload
  <2>3. PICK u : u = [s EXCEPT !.at = "downloading"]
    OBVIOUS
  <2>4. PICK row : row = [copy EXCEPT !.status = "DOWNLOADING"]
    OBVIOUS
  <2>5. OthersStay(a) /\ t = [u EXCEPT !.project = row]
    BY <1>1, <1>2, <1>4, <1>6, <2>3, <2>4 DEF StartDownload, Shaped, OthersStay
  <2>6. row \in Project /\ row.selected = copy.selected
    BY <1>3, <1>4, <1>5, <2>4 DEF Project
  <2>7. t.op = "FETCH" /\ t.project = row
    BY <1>1, <1>3, <2>3, <2>5 DEF Shaped
  <2>8. KnowsSource(t)'
    BY <2>1, <2>2, <2>6, <2>7 DEF SourceGoesOn, KnowsSource, Sourced
  <2> QED BY <1>2, <2>2, <2>5, <2>8, SourceStep
<1>7. CASE AttachSource(a)
  <2>1. copy.selected # None /\ copy \in Project /\ project.selected # None
    BY <1>1, <1>3, <1>4, <1>7, FetchingKnows DEF AttachSource, At
  <2>2. PICK fetched : fetched = copy.selected
    OBVIOUS
  <2>3. fetched \in Sources \cup {None}
    BY <2>1, <2>2 DEF Project
  <2>4. project' = [project EXCEPT !.status = "SOURCE_READY", !.key = fetched]
    BY <1>1, <1>4, <1>7, <2>2 DEF AttachSource
  <2>5. SourceGoesOn
    BY <1>5, <2>1, <2>2, <2>3, <2>4 DEF SourceInv, SourceGoesOn, Project, Sourced
  <2>6. PICK u : u = [s EXCEPT !.at = "fetched"]
    OBVIOUS
  <2>7. PICK row : row = [copy EXCEPT !.status = "SOURCE_READY", !.key = fetched]
    OBVIOUS
  <2>8. OthersStay(a) /\ t = [u EXCEPT !.project = row]
    BY <1>1, <1>2, <1>4, <1>7, <2>1, <2>2, <2>6, <2>7
    DEF AttachSource, Shaped, OthersStay, Project
  <2>9. row \in Project /\ row.selected = copy.selected
    BY <1>5, <2>1, <2>3, <2>7 DEF Project
  <2>10. t.op = "FETCH" /\ t.project = row
    BY <1>1, <1>3, <2>6, <2>8 DEF Shaped
  <2>11. KnowsSource(t)'
    BY <2>1, <2>5, <2>9, <2>10 DEF SourceGoesOn, KnowsSource, Sourced
  <2> QED BY <1>2, <2>5, <2>8, <2>11, SourceStep
<1> QED BY <1>6, <1>7

LEMMA ProductionKeepsSource ==
  ASSUME SourceInv, Shaped, NEW a \in Actors,
         ProductionHandler(a) \/ Download(a) \/ TakeFetch(a)
  PROVE  SourceInv'
<1>0. {"CREATED", "SOURCE_REJECTED", "SOURCE_ACCEPTED", "CLIPS_READY", "DOWNLOADING",
       "DOWNLOAD_FAILED", "SOURCE_READY", "SOURCE_REVIEW_REQUIRED", "SOURCE_RESOLVED"}
         \subseteq ProjectStatuses
  BY DEF ProjectStatuses
<1>1. CASE CreateProject(a)
  <2>1. SourceGoesOn
    BY <1>0, <1>1, StatusSet DEF CreateProject, Unresolved
  <2>2. session'[a].op = "CREATE" /\ OthersStay(a)
    BY <1>1, BeginEffect DEF CreateProject
  <2> QED BY <2>1, <2>2, SourceUntouched
<1>2. CASE ResolveSources(a)
  <2>1. PICK s \in Sources, status \in {"SOURCE_REVIEW_REQUIRED", "SOURCE_RESOLVED"} :
           project' = [project EXCEPT !.selected = s, !.status = status]
    BY <1>2 DEF ResolveSources
  <2>2. s # None
    BY ProductionAssumption
  <2>3. SourceGoesOn
    BY <1>0, <2>1, <2>2 DEF SourceInv, SourceGoesOn, Project, Sourced
  <2>4. session'[a].op = "IDLE" /\ OthersStay(a)
    BY <1>2, EndEffect DEF ResolveSources
  <2> QED BY <2>3, <2>4, SourceUntouched
<1>3. ASSUME NEW op \in {"ACCEPT", "REJECT"}, LoadForDecision(a, op)
      PROVE  SourceInv'
  BY <1>3, LoadedKnows DEF LoadForDecision
<1>4. CASE AcceptSource(a)
  <2>1. session[a].op = "ACCEPT" /\ project.selected # None
    BY <1>4 DEF AcceptSource, At, SourceInv, KnowsSource
  <2>2. SourceGoesOn
    BY <1>0, <1>4, <2>1, StatusSet, SourceLeft DEF AcceptSource
  <2>3. session'[a].op = "ACCEPT" /\ OthersStay(a)
    BY <1>4, <2>1, GotoPlace DEF AcceptSource
  <2>4. PICK s : s = session'[a]
    OBVIOUS
  <2>5. KnowsSource(s)'
    BY <2>1, <2>2, <2>3, <2>4 DEF SourceGoesOn, KnowsSource
  <2> QED BY <2>2, <2>3, <2>4, <2>5, SourceStep
<1>5. CASE SendAccepted(a) \/ ReturnDownload(a) \/ RefuseDownload(a) \/ SkipRejected(a)
  <2>1. SourceGoesOn
    BY <1>5, SourceLeft DEF SendAccepted, ReturnDownload, RefuseDownload, SkipRejected
  <2>2. session'[a].op = "IDLE" /\ OthersStay(a)
    BY <1>5, EndEffect DEF SendAccepted, ReturnDownload, RefuseDownload, SkipRejected
  <2> QED BY <2>1, <2>2, SourceUntouched
<1>6. CASE RejectSource(a)
  <2>1. SourceGoesOn
    BY <1>0, <1>6, StatusSet DEF RejectSource, Unresolved
  <2>2. session'[a].op = "IDLE" /\ OthersStay(a)
    BY <1>6, EndEffect DEF RejectSource
  <2> QED BY <2>1, <2>2, SourceUntouched
<1>7. CASE LoadForChoice(a) \/ LoadForDownload(a) \/ TakeFetch(a)
  BY <1>7, LoadedKnows DEF LoadForChoice, LoadForDownload, TakeFetch, Receive
<1>8. ASSUME NEW s \in Sources, ChooseSource(a, s)
      PROVE  SourceInv'
  <2>1. PICK status \in {project.status, "SOURCE_REVIEW_REQUIRED", "SOURCE_RESOLVED"} :
           project' = [project EXCEPT !.selected = s, !.status = status]
    BY <1>8 DEF ChooseSource, Judged
  <2>2. s # None
    BY ProductionAssumption
  <2>3. SourceGoesOn
    BY <1>0, <2>1, <2>2 DEF SourceInv, SourceGoesOn, Project, Sourced
  <2>4. session'[a].op = "IDLE" /\ OthersStay(a)
    BY <1>8, EndEffect DEF ChooseSource
  <2> QED BY <2>3, <2>4, SourceUntouched
<1>9. CASE LoadForClips(a)
  <2>1. PICK s : s = Loaded("CLIPS", "rendering", NoMessage)
    OBVIOUS
  <2>2. session'[a] = s /\ OthersStay(a)
    BY <1>9, <2>1, BeginEffect DEF LoadForClips
  <2>3. KnowsSource(s)'
    BY <1>9, <2>1 DEF LoadForClips, Loaded, KnowsSource
  <2>4. SourceGoesOn
    BY <1>9, SourceLeft DEF LoadForClips
  <2> QED BY <2>2, <2>3, <2>4, SourceStep
<1>10. CASE GenerateClips(a)
  <2>1. project.key # None /\ project.selected # None
    BY <1>10 DEF GenerateClips, At, SourceInv, KnowsSource, Sourced
  <2>2. SourceGoesOn
    BY <1>0, <1>10, <2>1, StatusSet, SourceLeft DEF GenerateClips
  <2>3. session'[a].op = "IDLE" /\ OthersStay(a)
    BY <1>10, EndEffect DEF GenerateClips
  <2> QED BY <2>2, <2>3, SourceUntouched
<1>11. CASE AlreadyFetched(a)
  <2>1. PICK s : s = session[a]
    OBVIOUS
  <2>2. PICK t : t = [s EXCEPT !.at = "fetched"]
    OBVIOUS
  <2>3. session'[a] = t /\ OthersStay(a)
    BY <1>11, <2>1, <2>2, GotoEffect DEF AlreadyFetched
  <2>4. t.op = "FETCH" /\ t.at = "fetched" /\ t.project = s.project /\ s.op = "FETCH"
    BY <1>11, <2>1, <2>2 DEF AlreadyFetched, At, Shaped
  <2>5. KnowsSource(t)
    BY <2>1, <2>4 DEF SourceInv, KnowsSource
  <2>6. UNCHANGED project
    BY <1>11 DEF AlreadyFetched
  <2>7. KnowsSource(t)'
    BY <2>5, <2>6 DEF KnowsSource, Sourced
  <2> QED BY <2>3, <2>6, <2>7, SourceLeft, SourceStep
<1>12. CASE DownloadFails(a)
  <2>1. project.selected # None
    BY <1>12, FetchingKnows DEF DownloadFails, At
  <2>2. project' = [project EXCEPT !.status = "DOWNLOAD_FAILED", !.error = TRUE]
    BY <1>12 DEF DownloadFails
  <2>3. SourceGoesOn
    BY <1>0, <2>1, <2>2 DEF SourceInv, SourceGoesOn, Project, Sourced
  <2>4. session'[a].op = "IDLE" /\ OthersStay(a)
    BY <1>12, EndEffect DEF DownloadFails
  <2> QED BY <2>3, <2>4, SourceUntouched
<1>13. CASE StartDownload(a) \/ AttachSource(a)
  BY <1>13, DownloadKeepsSource
<1> QED BY <1>1, <1>2, <1>3, <1>4, <1>5, <1>6, <1>7, <1>8, <1>9, <1>10, <1>11, <1>12, <1>13
        DEF ProductionHandler, Download

-----------------------------------------------------------------------------
(* What is under way is in somebody's hands, unless there was a fault: the *)
(* project that waits for its sources, and the download.                   *)

Creating(s) == s.op = "CREATE"
Downloading(s) == s.op = "FETCH" /\ s.at = "downloading"

DownloadsGoOn ==
    \/ faults > 0
    \/ /\ project.status = "CREATED" => \E a \in Actors : Creating(session[a])
       /\ project.status = "DOWNLOADING" => \E a \in Actors : Downloading(session[a])

(* A step of an actor keeps that if it leaves the statuses of which it is  *)
(* no witness, and is one of what it brings about.                         *)
DownloadsHandedOn(a) ==
    /\ project'.status = "CREATED" =>
          Creating(session'[a]) \/ (project.status = "CREATED" /\ ~Creating(session[a]))
    /\ project'.status = "DOWNLOADING" =>
          Downloading(session'[a]) \/ (project.status = "DOWNLOADING" /\ ~Downloading(session[a]))

LEMMA HandedOnDownloads ==
  ASSUME DownloadsGoOn, NEW a \in Actors, OthersStay(a), DownloadsHandedOn(a),
         UNCHANGED faults
  PROVE  DownloadsGoOn'
<1>1. ASSUME project'.status = "CREATED", ~(faults > 0)
      PROVE  \E b \in Actors : Creating(session'[b])
  <2>1. CASE Creating(session'[a])
    BY <2>1
  <2>2. CASE ~Creating(session'[a])
    <3>1. project.status = "CREATED" /\ ~Creating(session[a])
      BY <1>1, <2>2 DEF DownloadsHandedOn
    <3>2. PICK b \in Actors : Creating(session[b])
      BY <1>1, <3>1 DEF DownloadsGoOn
    <3> QED BY <3>1, <3>2 DEF OthersStay
  <2> QED BY <2>1, <2>2
<1>2. ASSUME project'.status = "DOWNLOADING", ~(faults > 0)
      PROVE  \E b \in Actors : Downloading(session'[b])
  <2>1. CASE Downloading(session'[a])
    BY <2>1
  <2>2. CASE ~Downloading(session'[a])
    <3>1. project.status = "DOWNLOADING" /\ ~Downloading(session[a])
      BY <1>2, <2>2 DEF DownloadsHandedOn
    <3>2. PICK b \in Actors : Downloading(session[b])
      BY <1>2, <3>1 DEF DownloadsGoOn
    <3> QED BY <3>1, <3>2 DEF OthersStay
  <2> QED BY <2>1, <2>2
<1> QED BY <1>1, <1>2 DEF DownloadsGoOn, Creating, Downloading

LEMMA ProductionHandsOn ==
  ASSUME SourceInv, Shaped, NEW a \in Actors,
         ProductionHandler(a) \/ Download(a) \/ TakeFetch(a)
  PROVE  DownloadsHandedOn(a)
<1> USE DEF DownloadsHandedOn
<1>1. CASE CreateProject(a)
  <2>1. session'[a].op = "CREATE"
    BY <1>1, BeginEffect DEF CreateProject
  <2>2. project'.status = "CREATED"
    BY <1>1 DEF CreateProject, SourceInv, Project
  <2> QED BY <2>1, <2>2 DEF Creating
<1>2. ASSUME project'.status \notin {"CREATED", "DOWNLOADING"}
      PROVE  DownloadsHandedOn(a)
  BY <1>2
<1>3. CASE ResolveSources(a) \/ RejectSource(a) \/ AttachSource(a) \/ DownloadFails(a)
  BY <1>2, <1>3
  DEF ResolveSources, RejectSource, AttachSource, DownloadFails, SourceInv, Project
<1>4. ASSUME UNCHANGED project, session[a].op \notin {"CREATE", "FETCH"}
      PROVE  DownloadsHandedOn(a)
  BY <1>4 DEF Creating, Downloading
<1>5. ASSUME UNCHANGED project, session[a].op = "FETCH", session[a].at # "downloading"
      PROVE  DownloadsHandedOn(a)
  BY <1>5 DEF Creating, Downloading
<1>6. CASE LoadForChoice(a) \/ LoadForDownload(a) \/ TakeFetch(a) \/ LoadForClips(a)
  BY <1>4, <1>6
  DEF LoadForChoice, LoadForDownload, TakeFetch, LoadForClips, Receive, Free, Idle
<1>7. ASSUME NEW op \in {"ACCEPT", "REJECT"}, LoadForDecision(a, op)
      PROVE  DownloadsHandedOn(a)
  BY <1>4, <1>7 DEF LoadForDecision, Free, Idle
<1>8. CASE AcceptSource(a)
  <2>1. UNCHANGED project \/ project'.status = "SOURCE_ACCEPTED"
    BY <1>8 DEF AcceptSource, SourceInv, Project
  <2>2. session[a].op = "ACCEPT"
    BY <1>8 DEF AcceptSource, At
  <2> QED BY <1>2, <1>4, <2>1, <2>2
<1>9. CASE GenerateClips(a)
  <2>1. UNCHANGED project \/ project'.status = "CLIPS_READY"
    BY <1>9 DEF GenerateClips, SourceInv, Project
  <2>2. session[a].op = "CLIPS"
    BY <1>9 DEF GenerateClips, At
  <2> QED BY <1>2, <1>4, <2>1, <2>2
<1>10. CASE SendAccepted(a)
  BY <1>4, <1>10 DEF SendAccepted, At
<1>11. CASE ReturnDownload(a) \/ RefuseDownload(a) \/ SkipRejected(a) \/ AlreadyFetched(a)
  BY <1>5, <1>11 DEF ReturnDownload, RefuseDownload, SkipRejected, AlreadyFetched, At
<1>12. ASSUME NEW s \in Sources, ChooseSource(a, s)
       PROVE  DownloadsHandedOn(a)
  <2>1. \/ project'.status = project.status
        \/ project'.status \in {"SOURCE_REVIEW_REQUIRED", "SOURCE_RESOLVED"}
    BY <1>12 DEF ChooseSource, Judged, SourceInv, Project
  <2>2. session[a].op = "CHOOSE"
    BY <1>12 DEF ChooseSource, At
  <2> QED BY <2>1, <2>2 DEF Creating, Downloading
<1>13. CASE StartDownload(a)
  <2>1. session[a].op = "FETCH"
    BY <1>13 DEF StartDownload, At
  <2>2. session'[a].op = "FETCH" /\ session'[a].at = "downloading"
    BY <1>13, <2>1 DEF StartDownload, Shaped
  <2>3. project'.status = project.status \/ project'.status = "DOWNLOADING"
    BY <1>13 DEF StartDownload, SourceInv, Project
  <2> QED BY <2>1, <2>2, <2>3 DEF Creating, Downloading
<1> QED BY <1>1, <1>3, <1>6, <1>7, <1>8, <1>9, <1>10, <1>11, <1>12, <1>13
        DEF ProductionHandler, Download

(* The analysis that is to run, and the one that runs.                     *)
LEMMA AnalysisKeepsType ==
  ASSUME AnalysisTypeOK, NEW a \in Actors,
         AnalysisHandler(a) \/ Analyse(a) \/ TakeAnalysis(a)
  PROVE  AnalysisTypeOK'
<1>0. {"QUEUED", "RUNNING", "COMPLETED", "CANCELLED", "FAILED"} \subseteq AnalysisStatuses
  BY DEF AnalysisStatuses
<1>1. ASSUME NEW status \in AnalysisStatuses, analysis' = [analysis EXCEPT !.status = status]
      PROVE  AnalysisTypeOK'
  BY <1>1 DEF AnalysisTypeOK, Analysis
<1>2. CASE UNCHANGED analysis
  BY <1>2 DEF AnalysisTypeOK
<1>3. CASE \/ CancelAnalysis(a) \/ StartAnalysis(a) \/ CompleteAnalysis(a) \/ AnalysisFails(a)
  BY <1>0, <1>1, <1>3 DEF CancelAnalysis, StartAnalysis, CompleteAnalysis, AnalysisFails
<1>4. CASE RequestAnalysis(a) \/ FetchedRequestsAnalysis(a)
  BY <1>0, <1>1, <1>2, <1>4 DEF RequestAnalysis, FetchedRequestsAnalysis, Requested
<1>5. CASE WriteTimeline(a)
  <2>1. PICK row : row = [analysis EXCEPT !.transcript = 0]
    OBVIOUS
  <2>2. analysis' = [row EXCEPT !.whole = FALSE]
    BY <1>5, <2>1 DEF WriteTimeline
  <2>3. row \in Analysis
    BY <2>1, AnalysisAssumption DEF AnalysisTypeOK, Analysis
  <2> QED BY <2>2, <2>3 DEF AnalysisTypeOK, Analysis
<1>6. CASE WriteTranscript(a)
  <2>1. PICK n \in {analysis.transcript, analysis.transcript + 1} :
           n <= MaxCopies /\ analysis' = [analysis EXCEPT !.transcript = n]
    BY <1>6 DEF WriteTranscript
  <2>2. n \in 0..MaxCopies
    BY <2>1, AnalysisAssumption DEF AnalysisTypeOK, Analysis
  <2> QED BY <2>1, <2>2 DEF AnalysisTypeOK, Analysis
<1>7. CASE WriteText(a)
  BY <1>7 DEF WriteText, AnalysisTypeOK, Analysis
<1>8. CASE \/ AlreadyRequested(a) \/ SendAnalysis(a) \/ FetchedSendsAnalysis(a)
           \/ LeaveAnalysis(a) \/ FindCompleted(a) \/ AnalyseVideo(a) \/ SendDetection(a)
           \/ TakeAnalysis(a)
  BY <1>2, <1>8
  DEF AlreadyRequested, SendAnalysis, FetchedSendsAnalysis, LeaveAnalysis, FindCompleted,
      AnalyseVideo, SendDetection, TakeAnalysis, AnalysisUnchanged
<1>9. ASSUME NEW op \in {"ANALYSE", "REANALYSE", "CANCEL"}, LoadForAnalysis(a, op)
      PROVE  AnalysisTypeOK'
  BY <1>2, <1>9 DEF LoadForAnalysis
<1> QED BY <1>3, <1>4, <1>5, <1>6, <1>7, <1>8, <1>9 DEF AnalysisHandler, Analyse

InStages(s) == s.op = "RUN" /\ s.at \in Stages
Furthers(s) ==
    \/ s.op \in {"ANALYSE", "REANALYSE", "FETCH"} /\ s.at = "requested"
    \/ s.op = "RUN" /\ s.at = "loaded" /\ s.status \in {"QUEUED", "FAILED"}
    \/ InStages(s)

AnalysesGoOn ==
    \/ faults > 0
    \/ /\ analysis.status = "RUNNING" => \E a \in Actors : InStages(session[a])
       /\ analysis.status = "QUEUED" =>
             messages[AnalyseMessage] > 0 \/ \E a \in Actors : Furthers(session[a])

AnalysesHandedOn(a) ==
    /\ analysis'.status = "RUNNING" =>
          InStages(session'[a]) \/ (analysis.status = "RUNNING" /\ ~InStages(session[a]))
    /\ analysis'.status = "QUEUED" =>
          \/ Furthers(session'[a]) \/ messages'[AnalyseMessage] > 0
          \/ /\ analysis.status = "QUEUED" /\ ~Furthers(session[a])
             /\ messages'[AnalyseMessage] >= messages[AnalyseMessage]

LEMMA HandedOnAnalyses ==
  ASSUME AnalysesGoOn, NEW a \in Actors, OthersStay(a), AnalysesHandedOn(a), UNCHANGED faults,
         messages[AnalyseMessage] \in Nat, messages'[AnalyseMessage] \in Nat
  PROVE  AnalysesGoOn'
<1>1. ASSUME analysis'.status = "RUNNING", ~(faults > 0)
      PROVE  \E b \in Actors : InStages(session'[b])
  <2>1. CASE InStages(session'[a])
    BY <2>1
  <2>2. CASE ~InStages(session'[a])
    <3>1. analysis.status = "RUNNING" /\ ~InStages(session[a])
      BY <1>1, <2>2 DEF AnalysesHandedOn
    <3>2. PICK b \in Actors : InStages(session[b])
      BY <1>1, <3>1 DEF AnalysesGoOn
    <3> QED BY <3>1, <3>2 DEF OthersStay
  <2> QED BY <2>1, <2>2
<1>2. ASSUME analysis'.status = "QUEUED", ~(faults > 0), ~(messages'[AnalyseMessage] > 0)
      PROVE  \E b \in Actors : Furthers(session'[b])
  <2>1. CASE Furthers(session'[a])
    BY <2>1
  <2>2. CASE ~Furthers(session'[a])
    <3>1. /\ analysis.status = "QUEUED" /\ ~Furthers(session[a])
          /\ messages'[AnalyseMessage] >= messages[AnalyseMessage]
      BY <1>2, <2>2 DEF AnalysesHandedOn
    <3>2. PICK b \in Actors : Furthers(session[b])
      BY <1>2, <3>1 DEF AnalysesGoOn
    <3> QED BY <3>1, <3>2 DEF OthersStay
  <2> QED BY <2>1, <2>2
<1>3. (\E b \in Actors : InStages(session[b]))' <=> \E b \in Actors : InStages(session'[b])
  BY DEF InStages
<1>4. (\E b \in Actors : Furthers(session[b]))' <=> \E b \in Actors : Furthers(session'[b])
  BY DEF Furthers, InStages
<1> QED BY <1>1, <1>2, <1>3, <1>4 DEF AnalysesGoOn

(* What is sent makes the broker's messages no fewer.                      *)
LEMMA SendingAdds ==
  ASSUME messages \in [Messages -> Nat], NEW n \in Messages, NEW m, messages' = Queued(m)
  PROVE  messages'[n] \in Nat /\ messages'[n] >= messages[n] /\ (n = m => messages'[n] > 0)
<1>1. MaxMessages \in Nat \ {0} /\ messages[n] \in Nat
  BY CeleryAssumption
<1>2. CASE n = m
  BY <1>1, <1>2 DEF Queued
<1>3. CASE n # m
  BY <1>1, <1>3 DEF Queued
<1> QED BY <1>2, <1>3

LEMMA AnalysisHandsOn ==
  ASSUME AnalysisTypeOK, Shaped, messages \in [Messages -> Nat], AnalyseMessage \in Messages,
         NEW a \in Actors, AnalysisHandler(a) \/ Analyse(a) \/ TakeAnalysis(a)
  PROVE  AnalysesHandedOn(a)
<1> USE DEF AnalysesHandedOn
<1>1. ASSUME analysis'.status \notin {"RUNNING", "QUEUED"}
      PROVE  AnalysesHandedOn(a)
  BY <1>1
<1>2. ASSUME UNCHANGED <<analysis, messages>>, ~Furthers(session[a])
      PROVE  AnalysesHandedOn(a)
  BY <1>2 DEF Furthers
<1>3. CASE CancelAnalysis(a) \/ CompleteAnalysis(a) \/ AnalysisFails(a)
  BY <1>1, <1>3
  DEF CancelAnalysis, CompleteAnalysis, AnalysisFails, AnalysisTypeOK, Analysis
<1>4. ASSUME NEW op \in {"ANALYSE", "REANALYSE", "CANCEL"}, LoadForAnalysis(a, op)
      PROVE  AnalysesHandedOn(a)
  BY <1>2, <1>4 DEF LoadForAnalysis, Free, Idle, Furthers, InStages
<1>5. CASE AlreadyRequested(a) \/ LeaveAnalysis(a) \/ FindCompleted(a)
  <2>1. UNCHANGED <<analysis, messages>>
    BY <1>5 DEF AlreadyRequested, LeaveAnalysis, FindCompleted, AnalysisUnchanged
  <2>2. session[a].at = "loaded"
    BY <1>5 DEF AlreadyRequested, LeaveAnalysis, FindCompleted, At
  <2>3. session[a].op = "RUN" => session[a].status \notin {"QUEUED", "FAILED"}
    BY <1>5 DEF AlreadyRequested, LeaveAnalysis, FindCompleted, At
  <2> QED BY <1>2, <2>1, <2>2, <2>3 DEF Furthers, InStages, Stages
<1>6. CASE RequestAnalysis(a) \/ FetchedRequestsAnalysis(a)
  <2>1. session[a].op \in {"ANALYSE", "REANALYSE", "FETCH"}
    BY <1>6 DEF RequestAnalysis, FetchedRequestsAnalysis, At
  <2>2. Goto(a, "requested")
    BY <1>6 DEF RequestAnalysis, FetchedRequestsAnalysis
  <2>3. Furthers(session'[a]) /\ ~InStages(session[a])
    BY <2>1, <2>2, GotoPlace DEF Furthers, InStages
  <2>4. UNCHANGED analysis \/ analysis' = [analysis EXCEPT !.status = "QUEUED"]
    BY <1>6 DEF RequestAnalysis, FetchedRequestsAnalysis, Requested
  <2> QED BY <2>3, <2>4 DEF AnalysisTypeOK, Analysis
<1>7. CASE SendAnalysis(a) \/ FetchedSendsAnalysis(a)
  <2>1. session[a].op \in {"ANALYSE", "REANALYSE", "FETCH"} /\ UNCHANGED analysis
    BY <1>7 DEF SendAnalysis, FetchedSendsAnalysis, At
  <2>2. messages' = Queued(AnalyseMessage)
    BY <1>7 DEF SendAnalysis, FetchedSendsAnalysis
  <2>3. messages'[AnalyseMessage] > 0
    BY <2>2, SendingAdds
  <2> QED BY <2>1, <2>3 DEF InStages
<1>8. CASE StartAnalysis(a)
  <2>1. InStages(session'[a])
    BY <1>8, GotoPlace DEF StartAnalysis, At, InStages, Stages
  <2>2. analysis'.status = "RUNNING"
    BY <1>8 DEF StartAnalysis, AnalysisTypeOK, Analysis
  <2> QED BY <2>1, <2>2
<1>9. CASE AnalyseVideo(a) \/ WriteTimeline(a) \/ WriteTranscript(a) \/ WriteText(a)
  <2>1. analysis'.status = analysis.status
    BY <1>9 DEF AnalyseVideo, WriteTimeline, WriteTranscript, WriteText, AnalysisUnchanged,
                AnalysisTypeOK, Analysis
  <2>2. session[a].op = "RUN"
    BY <1>9 DEF AnalyseVideo, WriteTimeline, WriteTranscript, WriteText, At
  <2>3. CASE analysis.status = "CANCELLED"
    BY <1>1, <2>1, <2>3
  <2>4. CASE analysis.status # "CANCELLED"
    <3>1. \E place \in Stages : Goto(a, place)
      BY <1>9, <2>4
      DEF AnalyseVideo, WriteTimeline, WriteTranscript, WriteText, GoOnUnlessCancelled, Stages
    <3>2. InStages(session'[a])
      BY <2>2, <3>1, GotoPlace DEF InStages
    <3> QED BY <3>2 DEF Furthers
  <2> QED BY <2>3, <2>4
<1>10. CASE SendDetection(a)
  <2>1. session[a].op = "RUN" /\ session[a].at = "completed" /\ UNCHANGED analysis
    BY <1>10 DEF SendDetection, At, AnalysisUnchanged
  <2>2. messages'[AnalyseMessage] >= messages[AnalyseMessage]
    BY <1>10, SendingAdds DEF SendDetection
  <2> QED BY <2>1, <2>2 DEF Furthers, InStages, Stages
<1>11. CASE TakeAnalysis(a)
  <2>1. PICK s : s = session'[a]
    OBVIOUS
  <2>2. s.op = "RUN" /\ s.at = "loaded" /\ s.status = analysis.status
    BY <1>11, <2>1, BeginEffect DEF TakeAnalysis, Receive
  <2>3. UNCHANGED analysis /\ ~InStages(session[a])
    BY <1>11 DEF TakeAnalysis, Receive, Free, Idle, InStages
  <2> QED BY <2>1, <2>2, <2>3 DEF Furthers
<1> QED BY <1>3, <1>4, <1>5, <1>6, <1>7, <1>8, <1>9, <1>10, <1>11 DEF AnalysisHandler, Analyse

-----------------------------------------------------------------------------
(* Generations: which run is the latest, and what a commit makes of the    *)
(* reviews.                                                                *)

RunsTyped == run \in [1..MaxGenerations -> RunStatuses]

LEMMA LatestRunIsLast ==
  ASSUME RunsTyped
  PROVE  /\ Latest \in 0..MaxGenerations
         /\ Latest # 0 => run[Latest] # "ABSENT"
         /\ \A h \in 1..MaxGenerations : h > Latest => run[h] = "ABSENT"
<1> DEFINE Last(g) == /\ g > 0 => run[g] # "ABSENT"
                      /\ \A h \in (g + 1)..MaxGenerations : run[h] = "ABSENT"
<1>0. MaxGenerations \in Nat \ {0}
  BY OpportunitiesAssumption
<1>1. \E g \in 0..MaxGenerations : Last(g)
  <2>1. PICK S : S = {g \in 0..MaxGenerations :
                         \A h \in (g + 1)..MaxGenerations : run[h] = "ABSENT"}
    OBVIOUS
  <2>2. MaxGenerations \in S /\ S \in SUBSET Nat
    BY <1>0, <2>1
  <2>3. PICK r \in S : \A q \in S : r <= q
    BY <2>2, LeastNumber
  <2>4. ASSUME r > 0, run[r] = "ABSENT"
        PROVE  FALSE
    <3>1. r \in 1..MaxGenerations /\ r - 1 \in 0..MaxGenerations
      BY <1>0, <2>1, <2>4
    <3>2. \A h \in ((r - 1) + 1)..MaxGenerations : h = r \/ h \in (r + 1)..MaxGenerations
      BY <1>0, <3>1
    <3>3. \A h \in ((r - 1) + 1)..MaxGenerations : run[h] = "ABSENT"
      BY <2>1, <2>4, <3>2
    <3>4. r - 1 \in S
      BY <2>1, <3>1, <3>3
    <3> QED BY <2>3, <3>1, <3>4
  <2> QED BY <2>1, <2>4
<1>2. Latest = CHOOSE g \in 0..MaxGenerations : Last(g)
  BY DEF Latest
<1>3. Latest \in 0..MaxGenerations /\ Last(Latest)
  BY <1>1, <1>2
<1> QED BY <1>0, <1>3

(* Nothing but the commit of a generation brings about other reviews than  *)
(* decisions.                                                              *)
ReviewsStand ==
    \A o \in Opportunities :
        \/ opportunity'[o].review_status = opportunity[o].review_status
        \/ /\ opportunity[o].review_status \in {"PENDING", "APPROVED", "REJECTED"}
           /\ opportunity'[o].review_status \in {"APPROVED", "REJECTED"}

LEMMA LeftReviewsStand ==
  ASSUME UNCHANGED opportunity
  PROVE  ReviewsStand
  BY DEF ReviewsStand

LEMMA DecisionsStand ==
  ASSUME ReviewInv, NEW a \in Actors, DecideOpportunity(a)
  PROVE  ReviewsStand
<1>1. PICK s : s = session[a]
  OBVIOUS
<1>2. PICK o : o = s.id
  OBVIOUS
<1>3. /\ s.op = "DECIDE" /\ o \in Opportunities /\ CopyOf(o, s.copy)
      /\ s.copy.review_status \in {"PENDING", "APPROVED", "REJECTED"}
      /\ s.copy \in OpportunityRow
  BY <1>1, <1>2 DEF DecideOpportunity, At, ReviewInv, Informed, CopyOf
<1>4. CASE s.copy.review_status = Decision(s)
  BY <1>1, <1>4, LeftReviewsStand DEF DecideOpportunity
<1>5. CASE s.copy.review_status # Decision(s)
  <2>1. PICK version : version = Decided(s).review_version
    OBVIOUS
  <2>2. version = s.copy.review_version + 1 /\ Decision(s) \in {"APPROVED", "REJECTED"}
    BY <1>3, <2>1, DecidedIsNext
  <2>3. /\ ~Taken(o, version)
        /\ opportunity' = [opportunity EXCEPT ![o].review_status = Decision(s),
                                              ![o].review_version = version]
    BY <1>1, <1>2, <1>5, <2>1 DEF DecideOpportunity
  <2>4. s.copy = opportunity[o]
    BY <1>3, <2>2, <2>3, FreshCopy DEF ReviewInv
  <2>5. PICK once : once = [opportunity[o] EXCEPT !.review_status = Decision(s)]
    OBVIOUS
  <2>6. opportunity' = [opportunity EXCEPT ![o] = [once EXCEPT !.review_version = version]]
    BY <1>3, <2>3, <2>5 DEF ReviewInv, ReviewRows
  <2>7. once.review_status = Decision(s) /\ "review_status" \in DOMAIN once
    BY <1>3, <2>4, <2>5 DEF OpportunityRow
  <2>8. opportunity'[o].review_status = Decision(s)
    BY <1>3, <2>6, <2>7 DEF ReviewInv, ReviewRows
  <2>9. \A p \in Opportunities \ {o} : opportunity'[p] = opportunity[p]
    BY <1>3, <2>6 DEF ReviewInv, ReviewRows
  <2> QED BY <1>3, <2>2, <2>4, <2>8, <2>9 DEF ReviewsStand
<1> QED BY <1>4, <1>5

LEMMA LinksStand ==
  ASSUME ReviewInv, NEW a \in Actors, LinkClip(a)
  PROVE  ReviewsStand
<1>1. PICK s : s = session[a]
  OBVIOUS
<1>2. PICK o : o = s.id
  OBVIOUS
<1>3. o \in Opportunities
  BY <1>1, <1>2 DEF LinkClip, At, ReviewInv, Informed
<1>4. PICK row \in OpportunityRow : row = opportunity[o]
  BY <1>3 DEF ReviewInv, ReviewRows
<1>5. PICK once : once = [row EXCEPT !.generated_clip = s.number]
  OBVIOUS
<1>6. opportunity' = [opportunity EXCEPT
                        ![o] = [once EXCEPT !.review_version = Linked(s).review_version]]
  BY <1>1, <1>2, <1>3, <1>4, <1>5 DEF LinkClip, ReviewInv, ReviewRows
<1>7. once.review_status = row.review_status /\ "review_status" \in DOMAIN once
  BY <1>4, <1>5 DEF OpportunityRow
<1>8. opportunity'[o].review_status = row.review_status
  BY <1>3, <1>6, <1>7 DEF ReviewInv, ReviewRows
<1>9. \A p \in Opportunities \ {o} : opportunity'[p] = opportunity[p]
  BY <1>3, <1>6 DEF ReviewInv, ReviewRows
<1> QED BY <1>4, <1>8, <1>9 DEF ReviewsStand

CommitOutcome(s) ==
    /\ \A o \in s.old : o \in Opportunities /\ opportunity[o].review_status = "PENDING"
    /\ \E kept, excess \in SUBSET Insertable(s.latest) :
           /\ kept = {} => excess = {}
           /\ \A o \in kept : opportunity'[o].review_status = "PENDING"
           /\ \A o \in excess \cup s.old : opportunity'[o].review_status = "STALE"
           /\ \A o \in Opportunities \ (kept \cup excess \cup s.old) :
                 opportunity'[o].review_status = opportunity[o].review_status

LEMMA CommitsComeTo ==
  ASSUME ReviewInv, NEW w \in Actors, CommitGeneration(w)
  PROVE  CommitOutcome(session[w])
<1>1. PICK s : s = session[w]
  OBVIOUS
<1>2. PICK old : old = s.old
  OBVIOUS
<1>3. old \subseteq Opportunities /\ \A o \in old : PendingOrLater(o) /\ ~Taken(o, 2)
  BY <1>1, <1>2 DEF CommitGeneration, At, ReviewInv, Informed
<1>4. ASSUME NEW o \in old
      PROVE  opportunity[o].review_status = "PENDING" /\ opportunity[o] \in OpportunityRow
  <2>1. opportunity[o] \in OpportunityRow /\ opportunity[o].review_version \in Nat /\ Counted(o)
    BY <1>3 DEF ReviewInv, ReviewRows, OpportunityRow
  <2>2. 2 \notin 1..opportunity[o].review_version
    BY <1>3, <2>1 DEF Counted, Taken
  <2> QED BY <1>3, <2>1, <2>2 DEF PendingOrLater
<1>5. PICK kept \in SUBSET Insertable(session[w].latest),
           excess \in SUBSET Insertable(session[w].latest) :
         /\ kept \cap excess = {} /\ (kept = {} => excess = {})
         /\ opportunity' = [o \in Opportunities |->
                              CASE o \in kept -> New
                                [] o \in excess -> [New EXCEPT !.review_status = "STALE"]
                                [] o \in session[w].old -> Superseded(opportunity[o])
                                [] OTHER -> opportunity[o]]
  BY Zenon DEF CommitGeneration
<1>6. \A o \in kept \cup excess : o \in Opportunities /\ o \notin old
  BY <1>4, <1>5 DEF Insertable
<1>7. New.review_status = "PENDING" /\ [New EXCEPT !.review_status = "STALE"].review_status = "STALE"
  BY DEF New
<1>8. ASSUME NEW o \in kept
      PROVE  opportunity'[o].review_status = "PENDING"
  BY <1>1, <1>2, <1>5, <1>6, <1>7
<1>9. ASSUME NEW o \in excess
      PROVE  opportunity'[o].review_status = "STALE"
  BY <1>1, <1>2, <1>5, <1>6, <1>7
<1>10. ASSUME NEW o \in old
       PROVE  opportunity'[o].review_status = "STALE"
  <2>1. opportunity'[o] = Superseded(opportunity[o])
    BY <1>1, <1>2, <1>3, <1>5, <1>6
  <2>2. PICK row \in OpportunityRow : row = opportunity[o]
    BY <1>4
  <2>3. PICK once : once = [row EXCEPT !.review_status = "STALE"]
    OBVIOUS
  <2>4. once.review_status = "STALE" /\ "review_status" \in DOMAIN once
    BY <2>3 DEF OpportunityRow
  <2>5. Superseded(row) = [once EXCEPT !.review_version = row.review_version + 1]
    BY <2>3 DEF Superseded, OpportunityRow
  <2> QED BY <2>1, <2>2, <2>4, <2>5
<1>11. \A o \in Opportunities \ (kept \cup excess \cup old) : opportunity'[o] = opportunity[o]
  BY <1>1, <1>2, <1>5
<1>12. /\ kept = {} => excess = {}
       /\ \A o \in kept : opportunity'[o].review_status = "PENDING"
       /\ \A o \in excess \cup session[w].old : opportunity'[o].review_status = "STALE"
       /\ \A o \in Opportunities \ (kept \cup excess \cup session[w].old) :
             opportunity'[o].review_status = opportunity[o].review_status
  BY <1>1, <1>2, <1>5, <1>8, <1>9, <1>10, <1>11
<1>13. \A o \in session[w].old : o \in Opportunities /\ opportunity[o].review_status = "PENDING"
  BY <1>1, <1>2, <1>3, <1>4
<1> QED BY <1>12, <1>13 DEF CommitOutcome

(* The runs.  What was proposed was proposed by a run; and unless a later  *)
(* one is there, some of it can still be looked at.                        *)
Living(g) ==
    \E o \in Opportunities : o[1] = g /\ opportunity[o].review_status \notin {"ABSENT", "STALE"}
Surpassed(g) == \E h \in 1..MaxGenerations : h > g /\ run[h] # "ABSENT"

Detects(s) ==
    s.op = "GENERATE" =>
        /\ s.latest \in 0..MaxGenerations
        /\ s.latest # 0 => run[s.latest] # "ABSENT"
        /\ IF s.at = "loaded"
           THEN {"latest", "status"} \subseteq DOMAIN s /\ (s.status = "ABSENT" <=> s.latest = 0)
           ELSE s.latest # 0
        /\ s.at = "detected" => \A o \in s.old : o[1] < s.latest

RunsInv ==
    /\ RunsTyped
    /\ \A o \in Opportunities :
          opportunity[o].review_status # "ABSENT" =>
              run[o[1]] # "ABSENT" /\ (Living(o[1]) \/ Surpassed(o[1]))
    /\ \A a \in Actors : Detects(session[a])

LEMMA RunsInitially ==
  ASSUME OpportunitiesInit, \A a \in Actors : session[a] = Idle
  PROVE  RunsInv
  BY DEF OpportunitiesInit, RunsInv, RunsTyped, RunStatuses, Detects, Idle

RunsGoOn ==
    RunsTyped' /\ \A g \in 1..MaxGenerations : run[g] # "ABSENT" => run'[g] # "ABSENT"

LEMMA RunsLeft ==
  ASSUME RunsTyped, UNCHANGED run
  PROVE  RunsGoOn
  BY DEF RunsTyped, RunsGoOn

LEMMA RunSet ==
  ASSUME RunsTyped, NEW g, NEW status \in RunStatuses \ {"ABSENT"},
         run' = [run EXCEPT ![g] = status]
  PROVE  RunsGoOn
  BY DEF RunsTyped, RunsGoOn

LEMMA DetectsStill ==
  ASSUME RunsGoOn, NEW s, Detects(s)
  PROVE  Detects(s)'
<1>1. ASSUME s.op = "GENERATE", s.latest # 0
      PROVE  run'[s.latest] # "ABSENT"
  <2>1. s.latest \in 1..MaxGenerations /\ run[s.latest] # "ABSENT"
    BY <1>1, OpportunitiesAssumption DEF Detects
  <2> QED BY <2>1 DEF RunsGoOn
<1> QED BY <1>1 DEF Detects

LEMMA OthersDetect ==
  ASSUME RunsInv, RunsGoOn, NEW a \in Actors, OthersStay(a), NEW s, session'[a] = s, Detects(s)'
  PROVE  \A b \in Actors : Detects(session[b])'
<1>1. SUFFICES ASSUME NEW b \in Actors
               PROVE  Detects(session[b])'
  OBVIOUS
<1>2. PICK t : t = session[b]
  OBVIOUS
<1>3. Detects(t)'
  BY <1>2, DetectsStill DEF RunsInv
<1>4. CASE b = a
  BY <1>4
<1>5. CASE b # a
  <2>1. session'[b] = t
    BY <1>2, <1>5 DEF OthersStay
  <2> QED BY <1>3, <2>1
<1> QED BY <1>4, <1>5

LEMMA GenerationOf ==
  ASSUME NEW o \in Opportunities
  PROVE  o[1] \in 1..MaxGenerations
  BY OpportunitiesAssumption

LEMMA SurpassedStays ==
  ASSUME RunsGoOn, NEW g, Surpassed(g)
  PROVE  Surpassed(g)'
  BY DEF RunsGoOn, Surpassed

(* While the reviews stand.                                                *)
LEMMA ProposalsStand ==
  ASSUME RunsInv, RunsGoOn, ReviewsStand, NEW o \in Opportunities,
         opportunity'[o].review_status # "ABSENT"
  PROVE  run'[o[1]] # "ABSENT" /\ (Living(o[1])' \/ Surpassed(o[1])')
<1>1. opportunity[o].review_status # "ABSENT"
  BY DEF ReviewsStand
<1>2. run[o[1]] # "ABSENT" /\ (Living(o[1]) \/ Surpassed(o[1]))
  BY <1>1 DEF RunsInv
<1>3. ASSUME Living(o[1])
      PROVE  Living(o[1])'
  <2>1. PICK p \in Opportunities :
           p[1] = o[1] /\ opportunity[p].review_status \notin {"ABSENT", "STALE"}
    BY <1>3 DEF Living
  <2>2. opportunity'[p].review_status \notin {"ABSENT", "STALE"}
    BY <2>1 DEF ReviewsStand
  <2> QED BY <2>1, <2>2 DEF Living
<1> QED BY <1>2, <1>3, GenerationOf, SurpassedStays DEF RunsGoOn

LEMMA RunsStep ==
  ASSUME RunsInv, RunsGoOn, ReviewsStand, NEW a \in Actors, OthersStay(a),
         NEW s, session'[a] = s, Detects(s)'
  PROVE  RunsInv'
<1>1. \A b \in Actors : Detects(session[b])'
  BY OthersDetect
<1>2. \A o \in Opportunities :
         opportunity'[o].review_status # "ABSENT" =>
             run'[o[1]] # "ABSENT" /\ (Living(o[1])' \/ Surpassed(o[1])')
  BY ProposalsStand
<1> QED BY <1>1, <1>2 DEF RunsInv, RunsGoOn

(* The steps that are none of a generation's.                              *)
BesideDetection(a) ==
    \/ \E rerun \in BOOLEAN : LoadForDetection(a, rerun)
    \/ GenerationExists(a) \/ SendGeneration(a) \/ LeaveGeneration(a)
    \/ \E o \in Opportunities, approved \in BOOLEAN : LoadForReview(a, o, approved)
    \/ DecideOpportunity(a) \/ DecisionIsStale(a) \/ EndReview(a) \/ RenderInCall(a)
    \/ Render(a)
    \/ \E o \in Opportunities : TakeRender(a, o)

LEMMA BesidesLeave ==
  ASSUME ReviewInv, Shaped, NEW a \in Actors, BesideDetection(a)
  PROVE  /\ UNCHANGED run /\ ReviewsStand /\ OthersStay(a)
         /\ session'[a].op # "GENERATE"
         /\ session[a].op = "GENERATE" => session[a].at = "loaded"
<1> DEFINE Left == /\ UNCHANGED run /\ ReviewsStand /\ OthersStay(a)
                   /\ session'[a].op # "GENERATE"
                   /\ session[a].op = "GENERATE" => session[a].at = "loaded"
<1>1. ASSUME NEW rerun \in BOOLEAN, LoadForDetection(a, rerun)
      PROVE  Left
  BY <1>1, BeginEffect, LeftReviewsStand DEF LoadForDetection, rows, Free, Idle
<1>2. CASE GenerationExists(a) \/ SendGeneration(a) \/ LeaveGeneration(a)
  BY <1>2, EndEffect, LeftReviewsStand
  DEF GenerationExists, SendGeneration, LeaveGeneration, rows, At
<1>3. ASSUME NEW o \in Opportunities, NEW approved \in BOOLEAN, LoadForReview(a, o, approved)
      PROVE  Left
  BY <1>3, BeginEffect, LeftReviewsStand DEF LoadForReview, rows, Free, Idle
<1>4. CASE DecideOpportunity(a)
  <2>1. session[a].op = "DECIDE" /\ UNCHANGED run
    BY <1>4 DEF DecideOpportunity, At
  <2>2. session'[a].op = "DECIDE" /\ OthersStay(a)
    <3>1. CASE session[a].copy.review_status = Decision(session[a])
      BY <1>4, <2>1, <3>1, GotoPlace DEF DecideOpportunity
    <3>2. CASE session[a].copy.review_status # Decision(session[a])
      BY <1>4, <2>1, <3>2 DEF DecideOpportunity, Shaped, OthersStay
    <3> QED BY <3>1, <3>2
  <2> QED BY <1>4, <2>1, <2>2, DecisionsStand
<1>5. CASE DecisionIsStale(a) \/ EndReview(a)
  BY <1>5, EndEffect, LeftReviewsStand DEF DecisionIsStale, EndReview, rows, At
<1>6. CASE RenderInCall(a)
  BY <1>6, BeginEffect, LeftReviewsStand DEF RenderInCall, rows, At
<1>7. ASSUME NEW o \in Opportunities, TakeRender(a, o)
      PROVE  Left
  BY <1>7, BeginEffect, LeftReviewsStand DEF TakeRender, Receive, rows, Free, Idle
<1>8. CASE LeaveRender(a) \/ RenderConflicts(a)
  BY <1>8, EndEffect, LeftReviewsStand
  DEF LeaveRender, RenderConflicts, EndInException, rows, At
<1>9. CASE StartRender(a)
  <2>1. session[a].op = "RENDER" /\ UNCHANGED <<run, opportunity>>
    BY <1>9 DEF StartRender, At, rows
  <2>2. OthersStay(a) /\ session'[a].op \in {"RENDER", "IDLE"}
    BY <1>9, BeginEffect, EndEffect DEF StartRender
  <2> QED BY <2>1, <2>2, LeftReviewsStand
<1>10. CASE CommitClip(a)
  <2>1. session[a].op = "RENDER" /\ UNCHANGED <<run, opportunity>>
    BY <1>10 DEF CommitClip, At
  <2>2. OthersStay(a) /\ session'[a].op = "RENDER"
    BY <1>10, <2>1, GotoPlace DEF CommitClip
  <2> QED BY <2>1, <2>2, LeftReviewsStand
<1>11. CASE LinkClip(a)
  <2>1. session[a].op = "RENDER" /\ UNCHANGED run /\ End(a)
    BY <1>11 DEF LinkClip, At
  <2> QED BY <1>11, <2>1, EndEffect, LinksStand
<1> QED BY <1>1, <1>2, <1>3, <1>4, <1>5, <1>6, <1>7, <1>8, <1>9, <1>10, <1>11
        DEF BesideDetection, Render

(* What its steps make of the session of a generation.                     *)
LEMMA DetectionTaken ==
  ASSUME Shaped, NEW a \in Actors, TakeDetection(a), NEW s, s = session'[a]
  PROVE  /\ OthersStay(a) /\ session[a] = Idle /\ UNCHANGED <<run, opportunity>>
         /\ s.op = "GENERATE" /\ s.at = "loaded" /\ s.latest = Latest
         /\ {"latest", "status"} \subseteq DOMAIN s
         /\ s.status = IF Latest = 0 THEN "ABSENT" ELSE run[Latest]
  BY BeginEffect DEF TakeDetection, Receive, Free, TakenUp, rows

LEMMA FirstRequested ==
  ASSUME Shaped, NEW a \in Actors, Detects(session[a]), FirstGeneration(a), run[1] = "ABSENT",
         NEW s, s = session'[a]
  PROVE  /\ OthersStay(a) /\ UNCHANGED opportunity
         /\ session[a].op = "GENERATE" /\ session[a].at = "loaded"
         /\ session[a].status = "ABSENT"
         /\ run' = [run EXCEPT ![1] = "QUEUED"]
         /\ s.op = "GENERATE" /\ s.at = "loaded" /\ s.latest = 1 /\ s.status = "QUEUED"
         /\ {"latest", "status"} \subseteq DOMAIN s
<1>1. PICK t : t = session[a]
  OBVIOUS
<1>2. PICK u : u = [t EXCEPT !.latest = 1]
  OBVIOUS
<1>3. /\ UNCHANGED opportunity /\ t.op = "GENERATE" /\ t.at = "loaded" /\ t.status = "ABSENT"
      /\ run' = [run EXCEPT ![1] = "QUEUED"]
      /\ session' = [session EXCEPT ![a].latest = 1, ![a].status = "QUEUED"]
  BY <1>1 DEF FirstGeneration, At
<1>4. OthersStay(a) /\ s = [u EXCEPT !.status = "QUEUED"]
  BY <1>1, <1>2, <1>3 DEF Shaped, OthersStay
<1>5. {"op", "at", "latest", "status"} \subseteq DOMAIN t
  BY <1>1, <1>3 DEF Shaped, Detects
<1>6. {"op", "at", "latest", "status"} \subseteq DOMAIN u
  BY <1>2, <1>5
<1>7. u.op = t.op /\ u.at = t.at /\ u.latest = 1
  BY <1>2, <1>5
<1>8. s.op = u.op /\ s.at = u.at /\ s.latest = u.latest /\ s.status = "QUEUED"
  BY <1>4, <1>6
<1>9. {"latest", "status"} \subseteq DOMAIN s
  BY <1>4, <1>6
<1> QED BY <1>1, <1>3, <1>4, <1>7, <1>8, <1>9

LEMMA GenerationStarted ==
  ASSUME Shaped, NEW a \in Actors, StartGeneration(a), NEW t, t = session'[a]
  PROVE  /\ OthersStay(a) /\ UNCHANGED opportunity
         /\ session[a].op = "GENERATE" /\ session[a].at = "loaded"
         /\ session[a].status \in {"QUEUED", "FAILED"}
         /\ run' = [run EXCEPT ![session[a].latest] = "RUNNING"]
         /\ t.op = "GENERATE" /\ t.at = "detecting" /\ t.latest = session[a].latest
<1>1. PICK s : s = session[a]
  OBVIOUS
<1>2. /\ UNCHANGED opportunity /\ s.op = "GENERATE" /\ s.at = "loaded"
      /\ s.status \in {"QUEUED", "FAILED"} /\ run' = [run EXCEPT ![s.latest] = "RUNNING"]
      /\ Goto(a, "detecting")
  BY <1>1 DEF StartGeneration, At
<1>3. t = [s EXCEPT !.at = "detecting"] /\ OthersStay(a)
  BY <1>1, <1>2, GotoEffect
<1>4. {"op", "at"} \subseteq DOMAIN s
  BY <1>1 DEF Shaped
<1>5. t.op = s.op /\ t.at = "detecting" /\ t.latest = s.latest
  BY <1>3, <1>4
<1> QED BY <1>1, <1>2, <1>3, <1>5

LEMMA MomentsDetected ==
  ASSUME Shaped, NEW a \in Actors, Detect(a), NEW t, t = session'[a]
  PROVE  /\ OthersStay(a) /\ UNCHANGED <<run, opportunity>>
         /\ session[a].op = "GENERATE" /\ session[a].at = "detecting"
         /\ t.op = "GENERATE" /\ t.at = "detected" /\ t.latest = session[a].latest
         /\ t.old = {o \in Opportunities : /\ o[1] < session[a].latest
                                           /\ opportunity[o].review_status = "PENDING"}
<1>1. PICK s : s = session[a]
  OBVIOUS
<1>2. PICK old : old = {o \in Opportunities : /\ o[1] < s.latest
                                              /\ opportunity[o].review_status = "PENDING"}
  OBVIOUS
<1>3. s.op = "GENERATE" /\ s.at = "detecting" /\ UNCHANGED <<run, opportunity>>
  BY <1>1 DEF Detect, At, rows
<1>4. Begin(a, [op |-> "GENERATE", at |-> "detected", message |-> DetectMessage,
                latest |-> s.latest, old |-> old])
  BY <1>1, <1>2 DEF Detect
<1>5. OthersStay(a) /\ t = [op |-> "GENERATE", at |-> "detected", message |-> DetectMessage,
                            latest |-> s.latest, old |-> old]
  BY <1>4, BeginEffect
<1> QED BY <1>1, <1>2, <1>3, <1>5

LEMMA GenerationCommitted ==
  ASSUME Shaped, NEW a \in Actors, CommitGeneration(a)
  PROVE  /\ OthersStay(a) /\ session'[a] = Idle
         /\ session[a].op = "GENERATE" /\ session[a].at = "detected"
         /\ run' = [run EXCEPT ![session[a].latest] = "COMPLETED"]
<1>1. /\ session[a].op = "GENERATE" /\ session[a].at = "detected" /\ End(a)
      /\ run' = [run EXCEPT ![session[a].latest] = "COMPLETED"]
  BY DEF CommitGeneration, At
<1> QED BY <1>1, EndEffect

LEMMA GenerationFailed ==
  ASSUME Shaped, NEW a \in Actors, GenerationFails(a)
  PROVE  /\ OthersStay(a) /\ session'[a] = Idle /\ UNCHANGED opportunity
         /\ session[a].op = "GENERATE" /\ session[a].at \in {"detecting", "detected"}
         /\ run' = [run EXCEPT ![session[a].latest] = "FAILED"]
<1>1. /\ session[a].op = "GENERATE" /\ session[a].at \in {"detecting", "detected"} /\ End(a)
      /\ run' = [run EXCEPT ![session[a].latest] = "FAILED"] /\ UNCHANGED opportunity
  BY DEF GenerationFails, At
<1> QED BY <1>1, EndEffect

LEMMA GenerationRequested ==
  ASSUME Shaped, NEW a \in Actors, RequestGeneration(a)
  PROVE  /\ OthersStay(a) /\ UNCHANGED opportunity
         /\ session[a].op = "DETECT" /\ session'[a].op = "DETECT"
         /\ UNCHANGED run \/ \E g : run' = [run EXCEPT ![g] = "QUEUED"]
<1>1. /\ session[a].op = "DETECT" /\ Goto(a, "requested") /\ UNCHANGED opportunity
      /\ UNCHANGED run \/ \E g : run' = [run EXCEPT ![g] = "QUEUED"]
  BY DEF RequestGeneration, At
<1> QED BY <1>1, GotoPlace

LEMMA CommitKeepsRuns ==
  ASSUME RunsInv, ReviewInv, Shaped, NEW a \in Actors, CommitGeneration(a)
  PROVE  RunsInv'
<1>1. PICK s : s = session[a]
  OBVIOUS
<1>2. PICK g : g = s.latest
  OBVIOUS
<1>3. /\ s.op = "GENERATE" /\ s.at = "detected" /\ OthersStay(a) /\ session'[a] = Idle
      /\ run' = [run EXCEPT ![g] = "COMPLETED"]
  BY <1>1, <1>2, GenerationCommitted
<1>4. g \in 1..MaxGenerations /\ \A o \in s.old : o[1] < g
  BY <1>1, <1>2, <1>3, OpportunitiesAssumption DEF RunsInv, Detects
<1>5. RunsGoOn /\ run'[g] = "COMPLETED"
  BY <1>3, <1>4, RunSet DEF RunsInv, RunStatuses, RunsTyped
<1>6. CommitOutcome(s)
  BY <1>1, CommitsComeTo
<1>7. \A o \in s.old : o \in Opportunities /\ opportunity[o].review_status = "PENDING"
  BY <1>6 DEF CommitOutcome
<1>8. PICK kept \in SUBSET Insertable(g), excess \in SUBSET Insertable(g) :
        /\ kept = {} => excess = {}
        /\ \A o \in kept : opportunity'[o].review_status = "PENDING"
        /\ \A o \in excess \cup s.old : opportunity'[o].review_status = "STALE"
        /\ \A o \in Opportunities \ (kept \cup excess \cup s.old) :
              opportunity'[o].review_status = opportunity[o].review_status
  BY <1>2, <1>6, Zenon DEF CommitOutcome
<1>9. \A o \in kept \cup excess :
         o \in Opportunities /\ o[1] = g /\ opportunity[o].review_status = "ABSENT"
  BY <1>8 DEF Insertable
<1>10. ASSUME NEW o \in Opportunities, opportunity'[o].review_status # "ABSENT"
       PROVE  run'[o[1]] # "ABSENT" /\ (Living(o[1])' \/ Surpassed(o[1])')
  <2>1. CASE o \in kept \cup excess
    <3>1. PICK p \in kept : TRUE
      BY <1>8, <2>1
    <3>2. p \in Opportunities /\ p[1] = o[1] /\ opportunity'[p].review_status = "PENDING"
      BY <1>8, <1>9, <2>1, <3>1
    <3>3. Living(o[1])'
      BY <3>2 DEF Living
    <3> QED BY <1>5, <1>9, <2>1, <3>3
  <2>2. CASE o \in s.old
    <3>1. run[o[1]] # "ABSENT"
      BY <1>7, <2>2 DEF RunsInv
    <3>2. Surpassed(o[1])'
      BY <1>4, <1>5, <2>2 DEF Surpassed
    <3> QED BY <1>5, <3>1, <3>2, GenerationOf DEF RunsGoOn
  <2>3. CASE o \notin kept \cup excess \cup s.old
    <3>1. opportunity[o].review_status # "ABSENT"
      BY <1>8, <2>3, <1>10
    <3>2. run[o[1]] # "ABSENT" /\ (Living(o[1]) \/ Surpassed(o[1]))
      BY <3>1 DEF RunsInv
    <3>3. ASSUME Living(o[1])
          PROVE  Living(o[1])' \/ Surpassed(o[1])'
      <4>1. PICK p \in Opportunities :
               p[1] = o[1] /\ opportunity[p].review_status \notin {"ABSENT", "STALE"}
        BY <3>3 DEF Living
      <4>2. CASE p \in s.old
        BY <1>4, <1>5, <4>1, <4>2 DEF Surpassed
      <4>3. CASE p \notin s.old
        <5>1. opportunity'[p].review_status = opportunity[p].review_status
          BY <1>8, <1>9, <4>1, <4>3
        <5> QED BY <4>1, <5>1 DEF Living
      <4> QED BY <4>2, <4>3
    <3> QED BY <1>5, <3>2, <3>3, GenerationOf, SurpassedStays DEF RunsGoOn
  <2> QED BY <2>1, <2>2, <2>3
<1>11. Detects(Idle)'
  BY DEF Detects, Idle
<1>12. \A b \in Actors : Detects(session[b])'
  BY <1>3, <1>5, <1>11, OthersDetect
<1> QED BY <1>5, <1>10, <1>12 DEF RunsInv, RunsGoOn

(* The steps of the opportunities, parted.                                 *)
OpportunityStep(a) ==
    \/ OpportunitiesHandler(a) \/ Generate(a) \/ Render(a) \/ TakeDetection(a)
    \/ \E o \in Opportunities : TakeRender(a, o)

LEMMA OpportunitySteps ==
  ASSUME NEW a \in Actors, OpportunityStep(a)
  PROVE  \/ BesideDetection(a) \/ RequestGeneration(a) \/ TakeDetection(a) \/ FirstGeneration(a)
         \/ StartGeneration(a) \/ Detect(a) \/ CommitGeneration(a) \/ GenerationFails(a)
  BY Zenon DEF OpportunityStep, BesideDetection, OpportunitiesHandler, Generate

LEMMA FirstExists ==
  ASSUME Shaped, NEW a \in Actors, FirstGeneration(a), run[1] # "ABSENT"
  PROVE  /\ OthersStay(a) /\ UNCHANGED <<run, opportunity>> /\ session'[a] = Idle
         /\ session[a].op = "GENERATE" /\ session[a].at = "loaded"
<1>1. session[a].op = "GENERATE" /\ session[a].at = "loaded" /\ UNCHANGED <<run, opportunity>>
      /\ End(a)
  BY DEF FirstGeneration, At
<1> QED BY <1>1, EndEffect

LEMMA OpportunitiesKeepRuns ==
  ASSUME RunsInv, ReviewInv, Shaped, NEW a \in Actors, OpportunityStep(a)
  PROVE  RunsInv'
<1>1. RunsTyped /\ Detects(session[a])
  BY DEF RunsInv
<1>2. PICK s : s = session[a]
  OBVIOUS
<1>3. PICK t : t = session'[a]
  OBVIOUS
<1>4. ASSUME t.op # "GENERATE"
      PROVE  Detects(t)'
  BY <1>4 DEF Detects
<1>5. CASE BesideDetection(a)
  <2>1. UNCHANGED run /\ ReviewsStand /\ OthersStay(a) /\ t.op # "GENERATE"
    BY <1>3, <1>5, BesidesLeave
  <2> QED BY <1>1, <1>3, <1>4, <2>1, RunsLeft, RunsStep
<1>6. CASE RequestGeneration(a)
  <2>1. /\ OthersStay(a) /\ UNCHANGED opportunity /\ t.op # "GENERATE"
        /\ UNCHANGED run \/ \E g : run' = [run EXCEPT ![g] = "QUEUED"]
    BY <1>3, <1>6, GenerationRequested
  <2>2. "QUEUED" \in RunStatuses \ {"ABSENT"}
    BY DEF RunStatuses
  <2>3. RunsGoOn
    BY <1>1, <2>1, <2>2, RunsLeft, RunSet
  <2> QED BY <1>3, <1>4, <2>1, <2>3, LeftReviewsStand, RunsStep
<1>7. CASE TakeDetection(a)
  <2>1. /\ OthersStay(a) /\ UNCHANGED <<run, opportunity>>
        /\ t.op = "GENERATE" /\ t.at = "loaded" /\ t.latest = Latest
        /\ t.status = (IF Latest = 0 THEN "ABSENT" ELSE run[Latest])
        /\ {"latest", "status"} \subseteq DOMAIN t
    BY <1>3, <1>7, DetectionTaken
  <2>2. /\ t.latest \in 0..MaxGenerations
        /\ t.latest # 0 => run[t.latest] # "ABSENT"
        /\ t.status = "ABSENT" <=> t.latest = 0
    BY <1>1, <2>1, LatestRunIsLast
  <2>3. Detects(t)
    BY <2>1, <2>2 DEF Detects
  <2>4. RunsGoOn
    BY <1>1, <2>1, RunsLeft
  <2>5. Detects(t)'
    BY <2>3, <2>4, DetectsStill
  <2> QED BY <1>3, <2>1, <2>4, <2>5, LeftReviewsStand, RunsStep
<1>8. CASE FirstGeneration(a)
  <2>1. CASE run[1] = "ABSENT"
    <3>1. /\ OthersStay(a) /\ UNCHANGED opportunity
          /\ run' = [run EXCEPT ![1] = "QUEUED"]
          /\ t.op = "GENERATE" /\ t.at = "loaded" /\ t.latest = 1 /\ t.status = "QUEUED"
          /\ {"latest", "status"} \subseteq DOMAIN t
      BY <1>1, <1>3, <1>8, <2>1, FirstRequested
    <3>2. "QUEUED" \in RunStatuses \ {"ABSENT"} /\ 1 \in 1..MaxGenerations
      BY OpportunitiesAssumption DEF RunStatuses
    <3>3. RunsGoOn /\ run'[1] = "QUEUED"
      BY <1>1, <3>1, <3>2, RunSet DEF RunsTyped
    <3>4. Detects(t)'
      BY <3>1, <3>2, <3>3 DEF Detects
    <3> QED BY <1>3, <3>1, <3>3, <3>4, LeftReviewsStand, RunsStep
  <2>2. CASE run[1] # "ABSENT"
    <3>1. OthersStay(a) /\ UNCHANGED <<run, opportunity>> /\ t.op # "GENERATE"
      BY <1>3, <1>8, <2>2, FirstExists DEF Idle
    <3> QED BY <1>1, <1>3, <1>4, <3>1, LeftReviewsStand, RunsLeft, RunsStep
  <2> QED BY <2>1, <2>2
<1>9. CASE StartGeneration(a)
  <2>1. /\ OthersStay(a) /\ UNCHANGED opportunity
        /\ s.op = "GENERATE" /\ s.at = "loaded" /\ s.status \in {"QUEUED", "FAILED"}
        /\ run' = [run EXCEPT ![s.latest] = "RUNNING"]
        /\ t.op = "GENERATE" /\ t.at = "detecting" /\ t.latest = s.latest
    BY <1>2, <1>3, <1>9, GenerationStarted
  <2>2. s.latest \in 1..MaxGenerations
    BY <1>1, <1>2, <2>1, OpportunitiesAssumption DEF Detects
  <2>3. RunsGoOn /\ run'[s.latest] = "RUNNING"
    BY <1>1, <2>1, <2>2, RunSet DEF RunsTyped, RunStatuses
  <2>4. Detects(t)'
    BY <2>1, <2>2, <2>3 DEF Detects
  <2> QED BY <1>3, <2>1, <2>3, <2>4, LeftReviewsStand, RunsStep
<1>10. CASE Detect(a)
  <2>1. /\ OthersStay(a) /\ UNCHANGED <<run, opportunity>>
        /\ s.op = "GENERATE" /\ s.at = "detecting"
        /\ t.op = "GENERATE" /\ t.at = "detected" /\ t.latest = s.latest
        /\ \A o \in t.old : o[1] < s.latest
    BY <1>2, <1>3, <1>10, MomentsDetected
  <2>2. Detects(t)
    BY <1>1, <1>2, <2>1 DEF Detects
  <2>3. RunsGoOn
    BY <1>1, <2>1, RunsLeft
  <2>4. Detects(t)'
    BY <2>2, <2>3, DetectsStill
  <2> QED BY <1>3, <2>1, <2>3, <2>4, LeftReviewsStand, RunsStep
<1>11. CASE CommitGeneration(a)
  BY <1>11, CommitKeepsRuns
<1>12. CASE GenerationFails(a)
  <2>1. /\ OthersStay(a) /\ UNCHANGED opportunity /\ t.op # "GENERATE"
        /\ run' = [run EXCEPT ![s.latest] = "FAILED"]
    BY <1>2, <1>3, <1>12, GenerationFailed DEF Idle
  <2>2. "FAILED" \in RunStatuses \ {"ABSENT"}
    BY DEF RunStatuses
  <2>3. RunsGoOn
    BY <1>1, <2>1, <2>2, RunSet
  <2> QED BY <1>3, <1>4, <2>1, <2>3, LeftReviewsStand, RunsStep
<1> QED BY <1>5, <1>6, <1>7, <1>8, <1>9, <1>10, <1>11, <1>12, OpportunitySteps

LEMMA RunsUntouched ==
  ASSUME RunsInv, UNCHANGED <<run, opportunity>>,
         \A a \in Actors : session'[a] = session[a] \/ session'[a].op # "GENERATE"
  PROVE  RunsInv'
<1>1. RunsGoOn
  BY RunsLeft DEF RunsInv
<1>2. ASSUME NEW b \in Actors
      PROVE  Detects(session[b])'
  <2>1. PICK t : t = session'[b]
    OBVIOUS
  <2>2. CASE t.op # "GENERATE"
    BY <2>1, <2>2 DEF Detects
  <2>3. CASE t.op = "GENERATE"
    <3>1. Detects(t)
      BY <2>1, <2>3 DEF RunsInv
    <3>2. Detects(t)'
      BY <1>1, <3>1, DetectsStill
    <3> QED BY <2>1, <3>2
  <2> QED BY <2>2, <2>3
<1>3. \A o \in Opportunities :
         opportunity'[o].review_status # "ABSENT" =>
             run'[o[1]] # "ABSENT" /\ (Living(o[1])' \/ Surpassed(o[1])')
  BY <1>1, LeftReviewsStand, ProposalsStand
<1> QED BY <1>1, <1>2, <1>3 DEF RunsInv, RunsGoOn

(* A run that detects is in the hands of a worker.                         *)
Detecting(s, g) == s.op = "GENERATE" /\ s.at \in {"detecting", "detected"} /\ s.latest = g

GenerationsGoOn ==
    \/ faults > 0
    \/ \A g \in 1..MaxGenerations :
          run[g] = "RUNNING" => \E a \in Actors : Detecting(session[a], g)

GenerationsHandedOn(a) ==
    \A g \in 1..MaxGenerations :
        run'[g] = "RUNNING" =>
            Detecting(session'[a], g) \/ (run[g] = "RUNNING" /\ ~Detecting(session[a], g))

LEMMA HandedOnGenerations ==
  ASSUME GenerationsGoOn, NEW a \in Actors, OthersStay(a), GenerationsHandedOn(a),
         UNCHANGED faults
  PROVE  GenerationsGoOn'
<1>1. ASSUME NEW g \in 1..MaxGenerations, run'[g] = "RUNNING", ~(faults > 0)
      PROVE  \E b \in Actors : Detecting(session'[b], g)
  <2>1. CASE Detecting(session'[a], g)
    BY <2>1
  <2>2. CASE ~Detecting(session'[a], g)
    <3>1. run[g] = "RUNNING" /\ ~Detecting(session[a], g)
      BY <1>1, <2>2 DEF GenerationsHandedOn
    <3>2. PICK b \in Actors : Detecting(session[b], g)
      BY <1>1, <3>1 DEF GenerationsGoOn
    <3> QED BY <3>1, <3>2 DEF OthersStay
  <2> QED BY <2>1, <2>2
<1> QED BY <1>1 DEF GenerationsGoOn, Detecting

LEMMA OpportunitiesHandOn ==
  ASSUME RunsInv, ReviewInv, Shaped, NEW a \in Actors, OpportunityStep(a)
  PROVE  GenerationsHandedOn(a)
<1>1. RunsTyped /\ Detects(session[a])
  BY DEF RunsInv
<1>2. PICK s : s = session[a]
  OBVIOUS
<1>3. PICK t : t = session'[a]
  OBVIOUS
<1>4. ASSUME s.op = "GENERATE" => s.at = "loaded",
             \A g \in 1..MaxGenerations : run'[g] = "RUNNING" => run[g] = "RUNNING"
      PROVE  GenerationsHandedOn(a)
  BY <1>2, <1>4 DEF GenerationsHandedOn, Detecting
<1>5. ASSUME NEW status \in {"QUEUED", "COMPLETED", "FAILED"}, NEW g,
             run' = [run EXCEPT ![g] = status]
      PROVE  \A h \in 1..MaxGenerations : run'[h] = "RUNNING" => run[h] = "RUNNING" /\ h # g
  BY <1>1, <1>5 DEF RunsTyped
<1>6. CASE BesideDetection(a)
  BY <1>2, <1>4, <1>6, BesidesLeave
<1>7. CASE RequestGeneration(a)
  <2>1. /\ s.op = "DETECT"
        /\ UNCHANGED run \/ \E g : run' = [run EXCEPT ![g] = "QUEUED"]
    BY <1>2, <1>7, GenerationRequested
  <2> QED BY <1>4, <1>5, <2>1
<1>8. CASE TakeDetection(a)
  BY <1>2, <1>4, <1>8, DetectionTaken DEF Idle
<1>9. CASE FirstGeneration(a)
  <2>1. CASE run[1] = "ABSENT"
    <3>1. s.at = "loaded" /\ run' = [run EXCEPT ![1] = "QUEUED"]
      BY <1>1, <1>2, <1>9, <2>1, FirstRequested
    <3> QED BY <1>4, <1>5, <3>1
  <2>2. CASE run[1] # "ABSENT"
    BY <1>2, <1>4, <1>9, <2>2, FirstExists
  <2> QED BY <2>1, <2>2
<1>10. CASE StartGeneration(a)
  <2>1. /\ s.op = "GENERATE" /\ s.at = "loaded"
        /\ run' = [run EXCEPT ![s.latest] = "RUNNING"]
        /\ t.op = "GENERATE" /\ t.at = "detecting" /\ t.latest = s.latest
    BY <1>2, <1>3, <1>10, GenerationStarted
  <2>2. ASSUME NEW g \in 1..MaxGenerations, run'[g] = "RUNNING"
        PROVE  Detecting(t, g) \/ (run[g] = "RUNNING" /\ ~Detecting(s, g))
    BY <1>1, <2>1, <2>2 DEF RunsTyped, Detecting
  <2> QED BY <1>2, <1>3, <2>2 DEF GenerationsHandedOn
<1>11. CASE Detect(a)
  <2>1. /\ UNCHANGED run /\ s.op = "GENERATE" /\ s.at = "detecting"
        /\ t.op = "GENERATE" /\ t.at = "detected" /\ t.latest = s.latest
    BY <1>2, <1>3, <1>11, MomentsDetected
  <2> QED BY <1>2, <1>3, <2>1 DEF GenerationsHandedOn, Detecting
<1>12. CASE CommitGeneration(a) \/ GenerationFails(a)
  <2>1. \E status \in {"COMPLETED", "FAILED"} : run' = [run EXCEPT ![s.latest] = status]
    BY <1>2, <1>12, GenerationCommitted, GenerationFailed
  <2>2. \A g \in 1..MaxGenerations : run'[g] = "RUNNING" => run[g] = "RUNNING" /\ g # s.latest
    BY <1>5, <2>1
  <2> QED BY <1>2, <2>2 DEF GenerationsHandedOn, Detecting
<1> QED BY <1>6, <1>7, <1>8, <1>9, <1>10, <1>11, <1>12, OpportunitySteps

(* With one worker no generation runs beside another, and those that are   *)
(* later than the one it detects have not begun: what waits for a decision *)
(* is of the latest that completed, or later.                              *)
Superseding ==
    \A o \in Opportunities, g \in 1..MaxGenerations :
        run[g] = "COMPLETED" /\ opportunity[o].review_status = "PENDING" => o[1] >= g

Alone(a, s) ==
    s.op = "GENERATE" =>
        /\ a \in Workers
        /\ \A h \in 1..MaxGenerations : h > s.latest => run[h] \in {"ABSENT", "QUEUED"}
        /\ s.at = "detected" =>
              \A o \in Opportunities :
                  opportunity[o].review_status = "PENDING" /\ o[1] < s.latest => o \in s.old

SupersededInv == Superseding /\ \A a \in Actors : Alone(a, session[a])

LEMMA SupersededInitially ==
  ASSUME OpportunitiesInit, \A a \in Actors : session[a] = Idle
  PROVE  SupersededInv
  BY DEF OpportunitiesInit, SupersededInv, Superseding, Alone, Idle

(* While runs are at most queued, and reviews stand.                       *)
Queueing ==
    /\ \A g \in 1..MaxGenerations : run'[g] = run[g] \/ run'[g] = "QUEUED"
    /\ \A o \in Opportunities :
          opportunity'[o].review_status = "PENDING" => opportunity[o].review_status = "PENDING"

LEMMA AloneStill ==
  ASSUME Queueing, NEW a, NEW s, Alone(a, s)
  PROVE  Alone(a, s)'
  BY DEF Queueing, Alone

LEMMA QueueingKeepsSuperseded ==
  ASSUME SupersededInv, Queueing, \A a \in Actors : session'[a] = session[a] \/ Alone(a, session[a])'
  PROVE  SupersededInv'
<1>1. Superseding'
  BY DEF SupersededInv, Superseding, Queueing
<1>2. ASSUME NEW b \in Actors
      PROVE  Alone(b, session[b])'
  <2>1. PICK t : t = session[b]
    OBVIOUS
  <2>2. Alone(b, t)'
    BY <2>1, AloneStill DEF SupersededInv
  <2>3. CASE session'[b] = session[b]
    <3>1. session'[b] = t
      BY <2>1, <2>3
    <3> QED BY <2>2, <3>1
  <2> QED BY <2>3
<1> QED BY <1>1, <1>2 DEF SupersededInv

LEMMA SupersededStep ==
  ASSUME SupersededInv, Queueing, NEW a \in Actors, OthersStay(a), NEW s, session'[a] = s,
         Alone(a, s)'
  PROVE  SupersededInv'
  BY QueueingKeepsSuperseded DEF OthersStay

LEMMA SupersededUntouched ==
  ASSUME SupersededInv, UNCHANGED <<run, opportunity>>,
         \A a \in Actors : session'[a] = session[a] \/ session'[a].op # "GENERATE"
  PROVE  SupersededInv'
<1>1. Queueing
  BY DEF Queueing
<1>2. \A a \in Actors : session'[a] = session[a] \/ Alone(a, session[a])'
  BY DEF Alone
<1> QED BY <1>1, <1>2, QueueingKeepsSuperseded

(* The steps of the one worker that change a run otherwise.                *)
LEMMA SupersedingStep ==
  ASSUME OneWorker, SupersededInv, Superseding', NEW a \in Actors, session[a].op = "GENERATE",
         OthersStay(a), NEW s, session'[a] = s, Alone(a, s)'
  PROVE  SupersededInv'
<1>1. ASSUME NEW b \in Actors
      PROVE  Alone(b, session[b])'
  <2>1. CASE b = a
    BY <2>1
  <2>2. CASE b # a
    <3>1. session[b].op # "GENERATE" /\ session'[b] = session[b]
      BY <2>2 DEF SupersededInv, Alone, OneWorker, OthersStay
    <3> QED BY <3>1 DEF Alone
  <2> QED BY <2>1, <2>2
<1> QED BY <1>1 DEF SupersededInv

LEMMA CommitSupersedes ==
  ASSUME SupersededInv, RunsInv, ReviewInv, Shaped, NEW a \in Actors, CommitGeneration(a)
  PROVE  Superseding'
<1>1. PICK s : s = session[a]
  OBVIOUS
<1>2. PICK g : g = s.latest
  OBVIOUS
<1>3. s.op = "GENERATE" /\ s.at = "detected" /\ run' = [run EXCEPT ![g] = "COMPLETED"]
  BY <1>1, <1>2, GenerationCommitted
<1>4. g \in 1..MaxGenerations /\ \A o \in s.old : o[1] < g
  BY <1>1, <1>2, <1>3, OpportunitiesAssumption DEF RunsInv, Detects
<1>5. /\ \A h \in 1..MaxGenerations : h > g => run[h] \in {"ABSENT", "QUEUED"}
      /\ \A o \in Opportunities :
            opportunity[o].review_status = "PENDING" /\ o[1] < g => o \in s.old
  BY <1>1, <1>2, <1>3 DEF SupersededInv, Alone
<1>6. CommitOutcome(s)
  BY <1>1, CommitsComeTo
<1>7. PICK kept \in SUBSET Insertable(g), excess \in SUBSET Insertable(g) :
        /\ kept = {} => excess = {}
        /\ \A o \in kept : opportunity'[o].review_status = "PENDING"
        /\ \A o \in excess \cup s.old : opportunity'[o].review_status = "STALE"
        /\ \A o \in Opportunities \ (kept \cup excess \cup s.old) :
              opportunity'[o].review_status = opportunity[o].review_status
  BY <1>2, <1>6, Zenon DEF CommitOutcome
<1>8. ASSUME NEW o \in Opportunities, opportunity'[o].review_status = "PENDING",
             NEW h \in 1..MaxGenerations, run'[h] = "COMPLETED"
      PROVE  o[1] >= h
  <2>1. h = g \/ (h # g /\ run[h] = "COMPLETED")
    BY <1>3, <1>4, <1>8 DEF RunsInv, RunsTyped
  <2>2. h <= g
    BY <1>4, <1>5, <2>1
  <2>3. o[1] \in 1..MaxGenerations
    BY GenerationOf
  <2>4. CASE o \in kept
    <3>1. o[1] = g
      BY <1>7, <2>4 DEF Insertable
    <3> QED BY <2>2, <3>1, <1>4
  <2>5. CASE o \notin kept
    <3>1. o \notin s.old /\ opportunity[o].review_status = "PENDING"
      BY <1>7, <1>8, <2>5
    <3>2. o[1] >= g
      BY <1>4, <1>5, <2>3, <3>1
    <3> QED BY <1>4, <2>2, <2>3, <3>2
  <2> QED BY <2>4, <2>5
<1> QED BY <1>8 DEF Superseding

LEMMA OpportunitiesKeepSuperseded ==
  ASSUME OneWorker, SupersededInv, RunsInv, ReviewInv, Shaped, NEW a \in Actors,
         OpportunityStep(a), TakeDetection(a) => a \in Workers
  PROVE  SupersededInv'
<1>1. RunsTyped /\ Detects(session[a]) /\ Alone(a, session[a])
  BY DEF RunsInv, SupersededInv
<1>2. PICK s : s = session[a]
  OBVIOUS
<1>3. PICK t : t = session'[a]
  OBVIOUS
<1>4. ASSUME t.op # "GENERATE"
      PROVE  Alone(a, t)'
  BY <1>4 DEF Alone
<1>5. ASSUME UNCHANGED run \/ \E g : run' = [run EXCEPT ![g] = "QUEUED"],
             ReviewsStand \/ UNCHANGED opportunity
      PROVE  Queueing
  BY <1>1, <1>5 DEF RunsTyped, ReviewsStand, Queueing
<1>6. CASE BesideDetection(a)
  <2>1. UNCHANGED run /\ ReviewsStand /\ OthersStay(a) /\ t.op # "GENERATE"
    BY <1>3, <1>6, BesidesLeave
  <2> QED BY <1>3, <1>4, <1>5, <2>1, SupersededStep
<1>7. CASE RequestGeneration(a)
  <2>1. /\ OthersStay(a) /\ UNCHANGED opportunity /\ t.op # "GENERATE"
        /\ UNCHANGED run \/ \E g : run' = [run EXCEPT ![g] = "QUEUED"]
    BY <1>3, <1>7, GenerationRequested
  <2> QED BY <1>3, <1>4, <1>5, <2>1, SupersededStep
<1>8. CASE TakeDetection(a)
  <2>1. /\ OthersStay(a) /\ UNCHANGED <<run, opportunity>>
        /\ t.op = "GENERATE" /\ t.at = "loaded" /\ t.latest = Latest
    BY <1>3, <1>8, DetectionTaken
  <2>2. Alone(a, t)
    BY <1>1, <1>8, <2>1, LatestRunIsLast DEF Alone
  <2>3. Queueing
    BY <1>5, <2>1
  <2>4. Alone(a, t)'
    BY <2>2, <2>3, AloneStill
  <2> QED BY <1>3, <2>1, <2>3, <2>4, SupersededStep
<1>9. CASE FirstGeneration(a)
  <2>1. CASE run[1] = "ABSENT"
    <3>1. /\ OthersStay(a) /\ UNCHANGED opportunity
          /\ s.op = "GENERATE" /\ s.at = "loaded" /\ s.status = "ABSENT"
          /\ run' = [run EXCEPT ![1] = "QUEUED"]
          /\ t.op = "GENERATE" /\ t.at = "loaded" /\ t.latest = 1
      BY <1>1, <1>2, <1>3, <1>9, <2>1, FirstRequested
    <3>2. s.latest = 0
      BY <1>1, <1>2, <3>1 DEF Detects
    <3>3. Alone(a, t)
      BY <1>1, <1>2, <3>1, <3>2 DEF Alone
    <3>4. Queueing
      BY <1>5, <3>1
    <3>5. Alone(a, t)'
      BY <3>3, <3>4, AloneStill
    <3> QED BY <1>3, <3>1, <3>4, <3>5, SupersededStep
  <2>2. CASE run[1] # "ABSENT"
    <3>1. OthersStay(a) /\ UNCHANGED <<run, opportunity>> /\ t.op # "GENERATE"
      BY <1>3, <1>9, <2>2, FirstExists DEF Idle
    <3> QED BY <1>3, <1>4, <1>5, <3>1, SupersededStep
  <2> QED BY <2>1, <2>2
<1>10. CASE StartGeneration(a)
  <2>1. /\ OthersStay(a) /\ UNCHANGED opportunity
        /\ s.op = "GENERATE"
        /\ run' = [run EXCEPT ![s.latest] = "RUNNING"]
        /\ t.op = "GENERATE" /\ t.at = "detecting" /\ t.latest = s.latest
    BY <1>2, <1>3, <1>10, GenerationStarted
  <2>2. \A g \in 1..MaxGenerations : g # s.latest => run'[g] = run[g]
    BY <1>1, <2>1 DEF RunsTyped
  <2>3. s.latest \in 0..MaxGenerations
    BY <1>1, <1>2, <2>1 DEF Detects
  <2>4. Alone(a, t)'
    BY <1>1, <1>2, <2>1, <2>2, <2>3, OpportunitiesAssumption DEF Alone
  <2>5. Superseding'
    BY <1>1, <2>1 DEF SupersededInv, Superseding, RunsTyped
  <2> QED BY <1>2, <1>3, <2>1, <2>4, <2>5, SupersedingStep
<1>11. CASE Detect(a)
  <2>1. /\ OthersStay(a) /\ UNCHANGED <<run, opportunity>>
        /\ s.op = "GENERATE"
        /\ t.op = "GENERATE" /\ t.at = "detected" /\ t.latest = s.latest
        /\ t.old = {o \in Opportunities : /\ o[1] < s.latest
                                          /\ opportunity[o].review_status = "PENDING"}
    BY <1>2, <1>3, <1>11, MomentsDetected
  <2>2. Alone(a, t)
    BY <1>1, <1>2, <2>1 DEF Alone
  <2>3. Queueing
    BY <1>5, <2>1
  <2>4. Alone(a, t)'
    BY <2>2, <2>3, AloneStill
  <2> QED BY <1>3, <2>1, <2>3, <2>4, SupersededStep
<1>12. CASE CommitGeneration(a)
  <2>1. OthersStay(a) /\ t = Idle /\ session[a].op = "GENERATE"
    BY <1>3, <1>12, GenerationCommitted
  <2>2. Alone(a, t)'
    BY <1>4, <2>1 DEF Idle
  <2> QED BY <1>3, <1>12, <2>1, <2>2, CommitSupersedes, SupersedingStep
<1>13. CASE GenerationFails(a)
  <2>1. /\ OthersStay(a) /\ UNCHANGED opportunity /\ t = Idle /\ session[a].op = "GENERATE"
        /\ run' = [run EXCEPT ![s.latest] = "FAILED"]
    BY <1>2, <1>3, <1>13, GenerationFailed
  <2>2. Alone(a, t)'
    BY <1>4, <2>1 DEF Idle
  <2>3. Superseding'
    BY <1>1, <2>1 DEF SupersededInv, Superseding, RunsTyped
  <2> QED BY <1>3, <2>1, <2>2, <2>3, SupersedingStep
<1> QED BY <1>6, <1>7, <1>8, <1>9, <1>10, <1>11, <1>12, <1>13, OpportunitySteps

-----------------------------------------------------------------------------
(* What the three components leave of each other's.                        *)

LEMMA OpportunitiesLeaveUpstream ==
  ASSUME NEW a \in Actors, OpportunityStep(a)
  PROVE  UNCHANGED <<project, analysis>>
<1> USE DEF rows, upstream
<1>1. CASE \/ RequestGeneration(a) \/ GenerationExists(a) \/ SendGeneration(a)
           \/ DecideOpportunity(a) \/ DecisionIsStale(a) \/ EndReview(a) \/ RenderInCall(a)
  BY <1>1 DEF RequestGeneration, GenerationExists, SendGeneration, DecideOpportunity,
              DecisionIsStale, EndReview, RenderInCall
<1>2. CASE (\E rerun \in BOOLEAN : LoadForDetection(a, rerun)) \/ TakeDetection(a)
  BY <1>2 DEF LoadForDetection, TakeDetection
<1>3. CASE \/ \E o \in Opportunities, approved \in BOOLEAN : LoadForReview(a, o, approved)
           \/ \E o \in Opportunities : TakeRender(a, o)
  BY <1>3 DEF LoadForReview, TakeRender
<1>4. CASE Generate(a)
  BY <1>4 DEF Generate, LeaveGeneration, FirstGeneration, StartGeneration, Detect,
              CommitGeneration, GenerationFails
<1>5. CASE Render(a)
  BY <1>5 DEF Render, LeaveRender, StartRender, CommitClip, LinkClip, RenderConflicts
<1> QED BY <1>1, <1>2, <1>3, <1>4, <1>5 DEF OpportunityStep, OpportunitiesHandler

AnalysisStep(a) == AnalysisHandler(a) \/ Analyse(a) \/ TakeAnalysis(a)
ProductionStep(a) == ProductionHandler(a) \/ Download(a) \/ TakeFetch(a)

LEMMA AnalysisLeavesProject ==
  ASSUME NEW a \in Actors, AnalysisStep(a)
  PROVE  UNCHANGED project
<1>1. CASE \/ AlreadyRequested(a) \/ SendAnalysis(a) \/ FetchedSendsAnalysis(a)
           \/ LeaveAnalysis(a) \/ FindCompleted(a) \/ AnalyseVideo(a) \/ SendDetection(a)
           \/ TakeAnalysis(a)
  BY <1>1
  DEF AlreadyRequested, SendAnalysis, FetchedSendsAnalysis, LeaveAnalysis, FindCompleted,
      AnalyseVideo, SendDetection, TakeAnalysis, AnalysisUnchanged
<1>2. CASE \/ RequestAnalysis(a) \/ FetchedRequestsAnalysis(a) \/ CancelAnalysis(a)
           \/ StartAnalysis(a) \/ WriteTimeline(a) \/ WriteTranscript(a) \/ WriteText(a)
           \/ CompleteAnalysis(a) \/ AnalysisFails(a)
  BY <1>2
  DEF RequestAnalysis, FetchedRequestsAnalysis, CancelAnalysis, StartAnalysis, WriteTimeline,
      WriteTranscript, WriteText, CompleteAnalysis, AnalysisFails
<1>3. ASSUME NEW op \in {"ANALYSE", "REANALYSE", "CANCEL"}, LoadForAnalysis(a, op)
      PROVE  UNCHANGED project
  BY <1>3 DEF LoadForAnalysis
<1> QED BY <1>1, <1>2, <1>3 DEF AnalysisStep, AnalysisHandler, Analyse

(* A step of the analysis takes a download up once it is fetched.          *)
LEMMA AnalysisTouchesNoDownload ==
  ASSUME NEW a \in Actors, AnalysisStep(a)
  PROVE  ~Creating(session[a]) /\ ~Downloading(session[a])
<1>1. CASE \/ RequestAnalysis(a) \/ AlreadyRequested(a) \/ SendAnalysis(a) \/ CancelAnalysis(a)
           \/ FetchedRequestsAnalysis(a) \/ FetchedSendsAnalysis(a)
  BY <1>1 DEF RequestAnalysis, AlreadyRequested, SendAnalysis, CancelAnalysis,
              FetchedRequestsAnalysis, FetchedSendsAnalysis, At, Creating, Downloading
<1>2. CASE Analyse(a)
  BY <1>2 DEF Analyse, LeaveAnalysis, FindCompleted, StartAnalysis, AnalyseVideo, WriteTimeline,
              WriteTranscript, WriteText, CompleteAnalysis, SendDetection, AnalysisFails, At,
              Stages, FetchedRequestsAnalysis, FetchedSendsAnalysis, Creating, Downloading
<1>3. CASE \/ TakeAnalysis(a)
           \/ \E op \in {"ANALYSE", "REANALYSE", "CANCEL"} : LoadForAnalysis(a, op)
  BY <1>3 DEF TakeAnalysis, LoadForAnalysis, Receive, Free, Idle, Creating, Downloading
<1> QED BY <1>1, <1>2, <1>3 DEF AnalysisStep, AnalysisHandler

LEMMA SourceAside ==
  ASSUME SourceInv, UNCHANGED project,
         \A a \in Actors : \/ session'[a] = session[a]
                           \/ session'[a].op \notin {"ACCEPT", "CLIPS", "FETCH"}
  PROVE  SourceInv'
<1>1. ASSUME NEW b \in Actors
      PROVE  KnowsSource(session[b])'
  <2>1. PICK t : t = session'[b]
    OBVIOUS
  <2>2. CASE t.op \notin {"ACCEPT", "CLIPS", "FETCH"}
    BY <2>1, <2>2 DEF KnowsSource
  <2>3. CASE t = session[b]
    <3>1. KnowsSource(t)
      BY <2>3 DEF SourceInv
    <3>2. KnowsSource(t)'
      BY <3>1 DEF KnowsSource, Sourced
    <3> QED BY <2>1, <3>2
  <2> QED BY <2>1, <2>2, <2>3
<1> QED BY <1>1, SourceLeft DEF SourceInv, SourceGoesOn

LEMMA AnalysisKeepsSource ==
  ASSUME SourceInv, Shaped, NEW a \in Actors, AnalysisStep(a)
  PROVE  SourceInv'
<1>1. UNCHANGED project
  BY AnalysisLeavesProject
<1>2. ASSUME OthersStay(a), session'[a].op \notin {"ACCEPT", "CLIPS", "FETCH"}
      PROVE  SourceInv'
  BY <1>1, <1>2, SourceAside DEF OthersStay
<1>3. CASE FetchedRequestsAnalysis(a)
  <2>1. PICK s : s = session[a]
    OBVIOUS
  <2>2. PICK t : t = [s EXCEPT !.at = "requested"]
    OBVIOUS
  <2>3. session'[a] = t /\ OthersStay(a)
    BY <1>3, <2>1, <2>2, GotoEffect DEF FetchedRequestsAnalysis
  <2>4. t.op = "FETCH" /\ t.at = "requested" /\ t.project = s.project /\ s.op = "FETCH"
    BY <1>3, <2>1, <2>2 DEF FetchedRequestsAnalysis, At, Shaped
  <2>5. KnowsSource(t)
    BY <2>1, <2>4 DEF SourceInv, KnowsSource
  <2>6. KnowsSource(t)'
    BY <1>1, <2>5 DEF KnowsSource, Sourced
  <2> QED BY <1>1, <2>3, <2>6, SourceLeft, SourceStep
<1>4. CASE \/ AlreadyRequested(a) \/ SendAnalysis(a) \/ CancelAnalysis(a)
           \/ FetchedSendsAnalysis(a) \/ LeaveAnalysis(a) \/ SendDetection(a) \/ AnalysisFails(a)
  BY <1>2, <1>4, EndEffect
  DEF AlreadyRequested, SendAnalysis, CancelAnalysis, FetchedSendsAnalysis, LeaveAnalysis,
      SendDetection, AnalysisFails
<1>5. CASE \/ RequestAnalysis(a) \/ FindCompleted(a) \/ StartAnalysis(a) \/ CompleteAnalysis(a)
  BY <1>2, <1>5, GotoPlace
  DEF RequestAnalysis, FindCompleted, StartAnalysis, CompleteAnalysis, At
<1>6. CASE \/ AnalyseVideo(a) \/ WriteTimeline(a) \/ WriteTranscript(a) \/ WriteText(a)
  <2>1. session[a].op = "RUN" /\ \E place : GoOnUnlessCancelled(a, place)
    BY <1>6 DEF AnalyseVideo, WriteTimeline, WriteTranscript, WriteText, At
  <2>2. End(a) \/ \E place : Goto(a, place)
    BY <2>1 DEF GoOnUnlessCancelled
  <2> QED BY <1>2, <2>1, <2>2, EndEffect, GotoPlace
<1>7. CASE \/ TakeAnalysis(a)
           \/ \E op \in {"ANALYSE", "REANALYSE", "CANCEL"} : LoadForAnalysis(a, op)
  BY <1>2, <1>7, BeginEffect DEF TakeAnalysis, LoadForAnalysis, Receive
<1> QED BY <1>3, <1>4, <1>5, <1>6, <1>7 DEF AnalysisStep, AnalysisHandler, Analyse

LEMMA ProductionTouchesNoAnalysis ==
  ASSUME NEW a \in Actors, ProductionStep(a)
  PROVE  ~Furthers(session[a])
<1> USE DEF Furthers, InStages
<1>1. CASE \/ CreateProject(a) \/ LoadForChoice(a) \/ LoadForDownload(a) \/ LoadForClips(a)
           \/ TakeFetch(a) \/ \E op \in {"ACCEPT", "REJECT"} : LoadForDecision(a, op)
  BY <1>1 DEF CreateProject, LoadForChoice, LoadForDownload, LoadForClips, TakeFetch, Receive,
              LoadForDecision, Free, Idle
<1>2. CASE \/ ResolveSources(a) \/ AcceptSource(a) \/ SendAccepted(a) \/ RejectSource(a)
           \/ GenerateClips(a) \/ \E s \in Sources : ChooseSource(a, s)
  BY <1>2 DEF ResolveSources, AcceptSource, SendAccepted, RejectSource, GenerateClips,
              ChooseSource, At
<1>3. CASE Download(a) \/ ReturnDownload(a)
  BY <1>3 DEF Download, ReturnDownload, RefuseDownload, SkipRejected, AlreadyFetched,
              StartDownload, AttachSource, DownloadFails, At
<1> QED BY <1>1, <1>2, <1>3 DEF ProductionStep, ProductionHandler

(* What is under way stays in the hands it is in when the row is left      *)
(* alone, and so are they.                                                 *)
LEMMA DownloadsAside ==
  ASSUME DownloadsGoOn, UNCHANGED project, faults > 0 => faults' > 0,
         \A a \in Actors : Creating(session[a]) \/ Downloading(session[a])
                              => session'[a] = session[a]
  PROVE  DownloadsGoOn'
<1>1. CASE faults > 0
  BY <1>1 DEF DownloadsGoOn
<1>2. CASE ~(faults > 0)
  <2>1. (\E a \in Actors : Creating(session[a])) => \E a \in Actors : Creating(session[a])'
    BY DEF Creating
  <2>2. (\E a \in Actors : Downloading(session[a])) => \E a \in Actors : Downloading(session[a])'
    BY DEF Downloading
  <2> QED BY <1>2, <2>1, <2>2 DEF DownloadsGoOn
<1> QED BY <1>1, <1>2

LEMMA AnalysesAside ==
  ASSUME AnalysesGoOn, UNCHANGED analysis, faults > 0 => faults' > 0,
         messages[AnalyseMessage] \in Nat, messages'[AnalyseMessage] \in Nat,
         messages'[AnalyseMessage] >= messages[AnalyseMessage],
         \A a \in Actors : Furthers(session[a]) => session'[a] = session[a]
  PROVE  AnalysesGoOn'
<1>1. CASE faults > 0
  BY <1>1 DEF AnalysesGoOn
<1>2. CASE ~(faults > 0)
  <2>1. (\E a \in Actors : InStages(session[a])) => \E a \in Actors : InStages(session[a])'
    BY DEF Furthers, InStages
  <2>2. (\E a \in Actors : Furthers(session[a])) => \E a \in Actors : Furthers(session[a])'
    BY DEF Furthers, InStages
  <2>3. messages[AnalyseMessage] > 0 => messages'[AnalyseMessage] > 0
    OBVIOUS
  <2> QED BY <1>2, <2>1, <2>2, <2>3 DEF AnalysesGoOn
<1> QED BY <1>1, <1>2

LEMMA GenerationsAside ==
  ASSUME GenerationsGoOn, UNCHANGED run, faults > 0 => faults' > 0,
         \A a \in Actors : session[a].op = "GENERATE" => session'[a] = session[a]
  PROVE  GenerationsGoOn'
<1>1. CASE faults > 0
  BY <1>1 DEF GenerationsGoOn
<1>2. CASE ~(faults > 0)
  <2>1. ASSUME NEW g \in 1..MaxGenerations, \E a \in Actors : Detecting(session[a], g)
        PROVE  \E a \in Actors : Detecting(session[a], g)'
    BY <2>1 DEF Detecting
  <2> QED BY <1>2, <2>1 DEF GenerationsGoOn
<1> QED BY <1>1, <1>2

-----------------------------------------------------------------------------
(* The sessions of production, analysis and review: what their handlers    *)
(* and tasks put there is one of those their modules name.                 *)

ProductionOps == {"CREATE", "ACCEPT", "REJECT", "CHOOSE", "FETCH", "CLIPS"}
AnalysisOps == {"ANALYSE", "REANALYSE", "CANCEL", "RUN", "FETCH"}
OpportunityOps == {"DETECT", "GENERATE", "DECIDE", "RENDER"}

ProductionKnown(a) ==
    session[a].op \in ProductionOps => session[a] \in ProductionSessions /\ Carries(a, session[a])

LEMMA LoadedIsProduction ==
  ASSUME project \in Project, NEW op \in {"ACCEPT", "REJECT", "CHOOSE", "FETCH", "CLIPS"},
         NEW place \in {"loaded", "rendering"}, NEW message \in {NoMessage, FetchMessage}
  PROVE  /\ Loaded(op, place, message) \in ProductionSessions
         /\ Loaded(op, place, message).message = message
<1>1. PICK s : s = Loaded(op, place, message)
  OBVIOUS
<1>2. s.message = message
  BY <1>1 DEF Loaded
<1>3. s \in ProductionSessions
  BY <1>1 DEF Loaded, ProductionSessions
<1> QED BY <1>1, <1>2, <1>3

LEMMA ProductionPuts ==
  ASSUME Shaped, NEW a \in Actors, ProductionKnown(a), project \in Project,
         FetchMessage \in Messages,
         \/ a \in Operators /\ ProductionHandler(a)
         \/ Download(a)
         \/ a \in Workers /\ TakeFetch(a)
  PROVE  Puts(a, ProductionSessions)
<1>1. PICK s : s = session[a]
  OBVIOUS
<1>2. s.op \in ProductionOps => s \in ProductionSessions /\ Carries(a, s)
  BY <1>1 DEF ProductionKnown
<1>3. CASE a \in Operators /\ CreateProject(a)
  <2>1. PICK t : t = [op |-> "CREATE", at |-> "created", message |-> NoMessage]
    OBVIOUS
  <2>2. t \in ProductionSessions /\ t.message = NoMessage
    BY <2>1 DEF ProductionSessions
  <2> QED BY <1>3, <2>1, <2>2, CallPuts DEF CreateProject
<1>4. CASE a \in Operators /\ \E op \in {"ACCEPT", "REJECT"} : LoadForDecision(a, op)
  BY <1>4, LoadedIsProduction, CallPuts DEF LoadForDecision
<1>5. CASE a \in Operators /\ (LoadForChoice(a) \/ LoadForDownload(a) \/ LoadForClips(a))
  BY <1>5, LoadedIsProduction, CallPuts DEF LoadForChoice, LoadForDownload, LoadForClips
<1>6. CASE a \in Workers /\ TakeFetch(a)
  BY <1>6, LoadedIsProduction, ReceivePuts DEF TakeFetch
<1>7. CASE AcceptSource(a) \/ AlreadyFetched(a)
  <2>1. PICK place \in {"accepted", "fetched"} : Goto(a, place) /\ UNCHANGED lost
    BY <1>7 DEF AcceptSource, AlreadyFetched
  <2>2. PICK t : t = [s EXCEPT !.at = place]
    OBVIOUS
  <2>3. s.op \in {"ACCEPT", "FETCH"}
    BY <1>1, <1>7 DEF AcceptSource, AlreadyFetched, At
  <2>4. t \in ProductionSessions /\ t.message = s.message
    BY <1>2, <2>1, <2>2, <2>3 DEF ProductionSessions, ProductionOps
  <2> QED BY <1>1, <1>2, <2>1, <2>2, <2>3, <2>4, GotoPuts DEF Carries, ProductionOps
<1>8. CASE StartDownload(a)
  <2>1. s.op = "FETCH"
    BY <1>1, <1>8 DEF StartDownload, At
  <2>2. PICK row \in Project : row = s.project
    BY <1>2, <2>1 DEF ProductionSessions, ProductionOps
  <2>3. PICK copy : copy = [row EXCEPT !.status = "DOWNLOADING"]
    OBVIOUS
  <2>4. copy \in Project
    BY <2>2, <2>3 DEF Project, ProjectStatuses
  <2>5. PICK t : t = [s EXCEPT !.at = "downloading", !.project = copy]
    OBVIOUS
  <2>6. t \in ProductionSessions /\ t.message = s.message
    BY <1>2, <2>1, <2>4, <2>5 DEF ProductionSessions, ProductionOps
  <2>7. session'[a] = t
    BY <1>1, <1>8, <2>2, <2>3, <2>5 DEF StartDownload, Shaped
  <2> QED BY <1>2, <1>8, <2>1, <2>6, <2>7 DEF Puts, Carries, ProductionOps, StartDownload
<1>9. CASE AttachSource(a)
  <2>1. s.op = "FETCH"
    BY <1>1, <1>9 DEF AttachSource, At
  <2>2. PICK row \in Project : row = s.project
    BY <1>2, <2>1 DEF ProductionSessions, ProductionOps
  <2>3. PICK copy : copy = [row EXCEPT !.status = "SOURCE_READY", !.key = row.selected]
    OBVIOUS
  <2>4. copy \in Project
    BY <2>2, <2>3 DEF Project, ProjectStatuses
  <2>5. PICK t : t = [s EXCEPT !.at = "fetched", !.project = copy]
    OBVIOUS
  <2>6. t \in ProductionSessions /\ t.message = s.message
    BY <1>2, <2>1, <2>4, <2>5 DEF ProductionSessions, ProductionOps
  <2>7. session'[a] = t
    BY <1>1, <1>9, <2>2, <2>3, <2>5 DEF AttachSource, Shaped
  <2> QED BY <1>2, <1>9, <2>1, <2>6, <2>7 DEF Puts, Carries, ProductionOps, AttachSource
<1>10. CASE \/ ResolveSources(a) \/ SendAccepted(a) \/ RejectSource(a) \/ ReturnDownload(a)
            \/ GenerateClips(a) \/ RefuseDownload(a) \/ SkipRejected(a) \/ DownloadFails(a)
            \/ \E source \in Sources : ChooseSource(a, source)
  BY <1>10, EndPuts
  DEF ResolveSources, SendAccepted, RejectSource, ReturnDownload, GenerateClips,
      RefuseDownload, SkipRejected, DownloadFails, ChooseSource
<1> QED BY <1>3, <1>4, <1>5, <1>6, <1>7, <1>8, <1>9, <1>10 DEF ProductionHandler, Download

(* A download that goes on to the analysis keeps its session of production.*)
AnalysisKnown(a) ==
    session[a].op \in AnalysisOps \ {"FETCH"} =>
        session[a] \in AnalysisSessions /\ Carries(a, session[a])

LEMMA AnalysisPuts ==
  ASSUME Shaped, NEW a \in Actors, ProductionKnown(a), AnalysisKnown(a), AnalysisTypeOK,
         AnalyseMessage \in Messages,
         \/ a \in Operators /\ AnalysisHandler(a)
         \/ Analyse(a)
         \/ a \in Workers /\ TakeAnalysis(a)
  PROVE  Puts(a, ProductionSessions \cup AnalysisSessions)
<1>1. PICK s : s = session[a]
  OBVIOUS
<1>2. s.op \in AnalysisOps \ {"FETCH"} => s \in AnalysisSessions /\ Carries(a, s)
  BY <1>1 DEF AnalysisKnown
<1>3. analysis.status \in AnalysisStatuses
  BY DEF AnalysisTypeOK, Analysis
<1>4. CASE a \in Operators /\ \E op \in {"ANALYSE", "REANALYSE", "CANCEL"} : LoadForAnalysis(a, op)
  <2>1. PICK op \in {"ANALYSE", "REANALYSE", "CANCEL"} : LoadForAnalysis(a, op)
    BY <1>4
  <2>2. PICK t : t = [op |-> op, at |-> "loaded", message |-> NoMessage, status |-> analysis.status]
    OBVIOUS
  <2>3. t \in AnalysisSessions /\ t.message = NoMessage
    BY <1>3, <2>2 DEF AnalysisSessions
  <2> QED BY <1>4, <2>1, <2>2, <2>3, CallPuts DEF LoadForAnalysis
<1>5. CASE a \in Workers /\ TakeAnalysis(a)
  <2>1. PICK t : t = [op |-> "RUN", at |-> "loaded", message |-> AnalyseMessage,
                      status |-> analysis.status]
    OBVIOUS
  <2>2. t \in AnalysisSessions /\ t.message = AnalyseMessage
    BY <1>3, <2>1 DEF AnalysisSessions
  <2> QED BY <1>5, <2>1, <2>2, ReceivePuts DEF TakeAnalysis
<1>6. CASE FetchedRequestsAnalysis(a)
  <2>1. s.op = "FETCH" /\ Goto(a, "requested") /\ UNCHANGED lost
    BY <1>1, <1>6 DEF FetchedRequestsAnalysis, At
  <2>2. s \in ProductionSessions /\ Carries(a, s)
    BY <1>1, <2>1 DEF ProductionKnown, ProductionOps
  <2>3. PICK t : t = [s EXCEPT !.at = "requested"]
    OBVIOUS
  <2>4. t \in ProductionSessions /\ t.message = s.message
    BY <2>1, <2>2, <2>3 DEF ProductionSessions
  <2> QED BY <1>1, <2>1, <2>2, <2>3, <2>4, GotoPuts DEF Carries
<1>7. ASSUME NEW place \in {"requested", "timeline", "transcription", "text", "completing",
                            "completed", "analysing"},
             Goto(a, place), UNCHANGED lost, s.op \in AnalysisOps \ {"FETCH"}
      PROVE  Puts(a, ProductionSessions \cup AnalysisSessions)
  <2>1. PICK t : t = [s EXCEPT !.at = place]
    OBVIOUS
  <2>2. t \in AnalysisSessions /\ t.message = s.message
    BY <1>2, <1>7, <2>1 DEF AnalysisSessions
  <2> QED BY <1>1, <1>2, <1>7, <2>1, <2>2, GotoPuts DEF Carries
<1>8. CASE RequestAnalysis(a) \/ FindCompleted(a) \/ StartAnalysis(a) \/ CompleteAnalysis(a)
  BY <1>1, <1>7, <1>8
  DEF RequestAnalysis, FindCompleted, StartAnalysis, CompleteAnalysis, At, AnalysisOps,
      AnalysisUnchanged
<1>9. CASE AnalyseVideo(a) \/ WriteTimeline(a) \/ WriteTranscript(a) \/ WriteText(a)
  <2>1. s.op = "RUN" /\ UNCHANGED lost
    BY <1>1, <1>9
    DEF AnalyseVideo, WriteTimeline, WriteTranscript, WriteText, At, AnalysisUnchanged
  <2>2. End(a) \/ \E place \in {"timeline", "transcription", "text", "completing"} : Goto(a, place)
    BY <1>9
    DEF AnalyseVideo, WriteTimeline, WriteTranscript, WriteText, GoOnUnlessCancelled
  <2> QED BY <1>7, <2>1, <2>2, EndPuts DEF AnalysisOps
<1>10. CASE \/ AlreadyRequested(a) \/ SendAnalysis(a) \/ CancelAnalysis(a)
            \/ FetchedSendsAnalysis(a) \/ LeaveAnalysis(a) \/ SendDetection(a)
            \/ AnalysisFails(a)
  BY <1>10, EndPuts
  DEF AlreadyRequested, SendAnalysis, CancelAnalysis, FetchedSendsAnalysis, LeaveAnalysis,
      SendDetection, AnalysisFails, AnalysisUnchanged
<1> QED BY <1>4, <1>5, <1>6, <1>8, <1>9, <1>10 DEF AnalysisHandler, Analyse

(* The rows keep within the bounds: decisions stop short of MaxVersions,   *)
(* and after them only the clip or a later run adds a version.             *)
Bounded(o) ==
    /\ opportunity[o] \in Opportunity
    /\ opportunity[o].review_status = "APPROVED" /\ opportunity[o].generated_clip = 0 =>
          opportunity[o].review_version <= MaxVersions + 1

VersionsBounded == \A o \in Opportunities : Bounded(o)

OpportunityKnown(a) ==
    session[a].op \in OpportunityOps => session[a] \in OpportunitySessions /\ Carries(a, session[a])

LEMMA DecidesFrom ==
  ASSUME NEW a \in Actors, OpportunityKnown(a), session[a].op = "DECIDE"
  PROVE  /\ session[a].id \in Opportunities /\ session[a].copy \in Opportunity
         /\ session[a].at = "loaded" => session[a].copy.review_version < MaxVersions
<1>1. PICK s : s = session[a]
  OBVIOUS
<1>2. s \in OpportunitySessions /\ s.op = "DECIDE"
  BY <1>1 DEF OpportunityKnown, OpportunityOps
<1> QED BY <1>1, <1>2 DEF OpportunitySessions

LEMMA RendersFrom ==
  ASSUME NEW a \in Actors, OpportunityKnown(a), session[a].op = "RENDER"
  PROVE  /\ session[a].id \in Opportunities /\ session[a].copy \in Opportunity
         /\ session[a].at # "loaded" => session[a].number \in 1..MaxClips
<1>1. PICK s : s = session[a]
  OBVIOUS
<1>2. s \in OpportunitySessions /\ s.op = "RENDER"
  BY <1>1 DEF OpportunityKnown, OpportunityOps
<1> QED BY <1>1, <1>2 DEF OpportunitySessions

LEMMA DecisionsBounded ==
  ASSUME ReviewInv, VersionsBounded, NEW a \in Actors, OpportunityKnown(a), DecideOpportunity(a)
  PROVE  VersionsBounded'
<1>1. PICK s : s = session[a]
  OBVIOUS
<1>2. s.op = "DECIDE" /\ s.at = "loaded"
  BY <1>1 DEF DecideOpportunity, At
<1>3. s.copy \in Opportunity /\ s.copy.review_version < MaxVersions /\ s.copy \in OpportunityRow
  BY <1>1, <1>2, DecidesFrom DEF Opportunity, OpportunityRow
<1>4. PICK n : n = Decided(s).review_version
  OBVIOUS
<1>5. n \in 0..MaxVersions
  <2>1. n = s.copy.review_version + 1
    BY <1>3, <1>4, DecidedIsNext
  <2>2. s.copy.review_version \in Nat
    BY <1>3 DEF OpportunityRow
  <2> QED BY <1>3, <2>1, <2>2, OpportunitiesAssumption
<1>6. CASE UNCHANGED opportunity
  BY <1>6 DEF VersionsBounded, Bounded
<1>7. CASE ~UNCHANGED opportunity
  <2>1. opportunity' = [opportunity EXCEPT ![s.id].review_status = Decision(s),
                                           ![s.id].review_version = n]
    BY <1>1, <1>4, <1>7 DEF DecideOpportunity
  <2>2. ASSUME NEW o \in Opportunities
        PROVE  Bounded(o)'
    <3>1. PICK row \in Opportunity : row = opportunity[o]
      BY DEF VersionsBounded, Bounded
    <3>2. PICK next : next = [row EXCEPT !.review_status = Decision(s), !.review_version = n]
      OBVIOUS
    <3>3. n \in 0..(MaxVersions + 2) /\ n <= MaxVersions + 1 /\ Decision(s) \in ReviewStatuses
      BY <1>5, OpportunitiesAssumption DEF Decision, ReviewStatuses
    <3>4. next \in Opportunity /\ next.review_version = n
      BY <3>2, <3>3, Zenon DEF Opportunity
    <3>5. opportunity'[o] = row \/ opportunity'[o] = next
      BY <2>1, <3>1, <3>2 DEF ReviewInv, ReviewRows
    <3> QED BY <3>1, <3>3, <3>4, <3>5 DEF Bounded, VersionsBounded
  <2> QED BY <2>2 DEF VersionsBounded
<1> QED BY <1>6, <1>7

LEMMA LinksBounded ==
  ASSUME ReviewInv, VersionsBounded, NEW a \in Actors, OpportunityKnown(a), LinkClip(a)
  PROVE  VersionsBounded'
<1>1. PICK s : s = session[a]
  OBVIOUS
<1>2. /\ s.op = "RENDER" /\ s.at = "rendered" /\ CopyOf(s.id, s.copy)
      /\ s.copy.review_status = "APPROVED" /\ s.copy.generated_clip = 0
  BY <1>1 DEF LinkClip, At, ReviewInv, Informed
<1>3. s.id \in Opportunities /\ s.number \in 1..MaxClips /\ s.copy \in OpportunityRow
  BY <1>1, <1>2, RendersFrom DEF CopyOf
<1>4. s.number \in Nat
  BY <1>3, ProductionAssumption
<1>5. PICK n : n = Linked(s).review_version
  OBVIOUS
<1>6. n = s.copy.review_version + 1 /\ ~Taken(s.id, n)
  BY <1>1, <1>3, <1>4, <1>5, LinkedIsNext DEF LinkClip
<1>7. s.copy = opportunity[s.id]
  BY <1>2, <1>3, <1>6, FreshCopy DEF ReviewInv
<1>8. n \in 0..(MaxVersions + 2)
  <2>1. s.copy.review_version \in Nat
    BY <1>3 DEF OpportunityRow
  <2>2. s.copy.review_version <= MaxVersions + 1
    BY <1>2, <1>3, <1>7 DEF VersionsBounded, Bounded
  <2> QED BY <1>6, <2>1, <2>2, OpportunitiesAssumption
<1>9. opportunity' = [opportunity EXCEPT ![s.id].generated_clip = s.number,
                                         ![s.id].review_version = n]
  BY <1>1, <1>5 DEF LinkClip
<1>10. ASSUME NEW o \in Opportunities
       PROVE  Bounded(o)'
  <2>1. PICK row \in Opportunity : row = opportunity[o]
    BY DEF VersionsBounded, Bounded
  <2>2. PICK next : next = [row EXCEPT !.generated_clip = s.number, !.review_version = n]
    OBVIOUS
  <2>3. s.number \in 0..MaxClips /\ s.number # 0
    BY <1>3, ProductionAssumption
  <2>4. next \in Opportunity /\ next.generated_clip = s.number
    BY <1>8, <2>2, <2>3, Zenon DEF Opportunity
  <2>5. opportunity'[o] = row \/ opportunity'[o] = next
    BY <1>9, <2>1, <2>2 DEF ReviewInv, ReviewRows
  <2> QED BY <2>1, <2>3, <2>4, <2>5 DEF Bounded, VersionsBounded
<1> QED BY <1>10 DEF VersionsBounded

LEMMA CommitsBounded ==
  ASSUME ReviewInv, VersionsBounded, NEW w \in Actors, CommitGeneration(w)
  PROVE  VersionsBounded'
<1>1. PICK kept \in SUBSET Insertable(session[w].latest),
           excess \in SUBSET Insertable(session[w].latest) :
         opportunity' = [o \in Opportunities |->
                           CASE o \in kept -> New
                             [] o \in excess -> [New EXCEPT !.review_status = "STALE"]
                             [] o \in session[w].old -> Superseded(opportunity[o])
                             [] OTHER -> opportunity[o]]
  BY Zenon DEF CommitGeneration
<1>2. 0 \in 0..MaxClips /\ 1 \in 0..(MaxVersions + 2) /\ 1 <= MaxVersions + 1
      /\ 2 \in 0..(MaxVersions + 2)
  BY ProductionAssumption, OpportunitiesAssumption
<1>3. PICK stale : stale = [New EXCEPT !.review_status = "STALE"]
  OBVIOUS
<1>4. New \in Opportunity /\ stale \in Opportunity /\ New.review_status = "PENDING"
      /\ stale.review_status = "STALE"
  BY <1>2, <1>3 DEF New, Opportunity, ReviewStatuses
<1>5. \A o \in session[w].old : o \in Opportunities /\ opportunity[o].review_status = "PENDING"
  BY CommitsComeTo DEF CommitOutcome
<1>6. ASSUME NEW o \in Opportunities
      PROVE  Bounded(o)'
  <2>1. PICK row \in Opportunity : row = opportunity[o]
    BY DEF VersionsBounded, Bounded
  <2>2. CASE opportunity'[o] \in {New, stale, row}
    BY <1>4, <2>1, <2>2 DEF Bounded, VersionsBounded
  <2>3. CASE o \in session[w].old /\ opportunity'[o] = Superseded(row)
    <3>1. row.review_version = 1
      BY <1>5, <2>1, <2>3 DEF ReviewInv, ReviewRows, Standing
    <3>2. PICK once : once = [row EXCEPT !.review_status = "STALE"]
      OBVIOUS
    <3>3. once \in Opportunity /\ once.review_status = "STALE"
      BY <3>2 DEF Opportunity, ReviewStatuses
    <3>4. PICK next : next = [once EXCEPT !.review_version = 2]
      OBVIOUS
    <3>5. next \in Opportunity /\ next.review_status = "STALE"
      BY <1>2, <3>3, <3>4 DEF Opportunity
    <3>6. Superseded(row) = next
      BY <3>1, <3>2, <3>4 DEF Superseded, Opportunity
    <3> QED BY <2>3, <3>5, <3>6 DEF Bounded
  <2> QED BY <1>1, <1>3, <2>1, <2>2, <2>3
<1> QED BY <1>6 DEF VersionsBounded

LEMMA OpportunitiesBounded ==
  ASSUME ReviewInv, VersionsBounded, NEW a \in Actors, OpportunityKnown(a), OpportunityStep(a)
  PROVE  VersionsBounded'
<1>1. CASE UNCHANGED opportunity
  BY <1>1 DEF VersionsBounded, Bounded
<1>2. ASSUME ~UNCHANGED opportunity
      PROVE  DecideOpportunity(a) \/ LinkClip(a) \/ CommitGeneration(a)
  BY <1>2
  DEF OpportunityStep, OpportunitiesHandler, Generate, Render, LoadForDetection,
      RequestGeneration, GenerationExists, SendGeneration, LoadForReview, DecisionIsStale,
      EndReview, RenderInCall, LeaveRender, StartRender, CommitClip, RenderConflicts,
      LeaveGeneration, FirstGeneration, StartGeneration, Detect, GenerationFails,
      TakeDetection, TakeRender, rows
<1> QED BY <1>1, <1>2, DecisionsBounded, LinksBounded, CommitsBounded

(* The types of the rows of the review, from what else is known of them.   *)
LEMMA OpportunitiesAreTyped ==
  ASSUME ReviewInv, VersionsBounded, RunsInv
  PROVE  OpportunitiesTypeOK
<1>1. ASSUME NEW o \in Opportunities
      PROVE  versions[o] \subseteq VersionRow
  <2>1. opportunity[o].review_version \in 0..(MaxVersions + 2)
    BY DEF VersionsBounded, Bounded, Opportunity
  <2>2. ASSUME NEW row \in versions[o]
        PROVE  row \in VersionRow
    <3>1. row \in HistoryRow /\ row.version \in 1..opportunity[o].review_version
      BY DEF ReviewInv, ReviewRows, Counted
    <3>2. row.version \in 1..(MaxVersions + 2)
      BY <2>1, <3>1, OpportunitiesAssumption
    <3> QED BY <3>1, <3>2 DEF HistoryRow, VersionRow
  <2> QED BY <2>2
<1>2. opportunity \in [Opportunities -> Opportunity]
  BY DEF ReviewInv, ReviewRows, VersionsBounded, Bounded
<1> QED BY <1>1, <1>2 DEF OpportunitiesTypeOK, RunsInv, RunsTyped

LEMMA OpportunitiesPut ==
  ASSUME Shaped, NEW a \in Actors, OpportunityKnown(a), ReviewInv, VersionsBounded, RunsInv,
         AnalysisTypeOK, {DetectMessage} \cup {RenderMessage(o) : o \in Opportunities} \subseteq Messages,
         \/ a \in Operators /\ OpportunitiesHandler(a)
         \/ Generate(a) \/ Render(a)
         \/ a \in Workers /\ (TakeDetection(a) \/ \E o \in Opportunities : TakeRender(a, o))
  PROVE  Puts(a, OpportunitySessions)
<1>1. PICK s : s = session[a]
  OBVIOUS
<1>2. s.op \in OpportunityOps => s \in OpportunitySessions /\ Carries(a, s)
  BY <1>1 DEF OpportunityKnown
<1>3. PICK latest \in 0..MaxGenerations : latest = Latest
  BY LatestRunIsLast DEF RunsInv
<1>4. PICK status \in RunStatuses : status = IF latest = 0 THEN "ABSENT" ELSE run[latest]
  BY <1>3, OpportunitiesAssumption DEF RunsInv, RunsTyped, RunStatuses
<1>5. \A o \in Opportunities : opportunity[o] \in Opportunity
  BY DEF VersionsBounded, Bounded
<1>6. CASE a \in Operators /\ \E rerun \in BOOLEAN : LoadForDetection(a, rerun)
  <2>1. PICK rerun \in BOOLEAN : LoadForDetection(a, rerun)
    BY <1>6
  <2>2. PICK t : t = [op |-> "DETECT", at |-> "loaded", message |-> NoMessage, latest |-> latest,
                      status |-> status, rerun |-> rerun]
    OBVIOUS
  <2>3. t \in OpportunitySessions /\ t.message = NoMessage
    BY <2>2 DEF OpportunitySessions
  <2> QED BY <1>3, <1>4, <1>6, <2>1, <2>2, <2>3, CallPuts DEF LoadForDetection
<1>7. CASE /\ a \in Operators
           /\ \E o \in Opportunities, approved \in BOOLEAN : LoadForReview(a, o, approved)
  <2>1. PICK o \in Opportunities, approved \in BOOLEAN : LoadForReview(a, o, approved)
    BY <1>7
  <2>2. PICK copy : copy = opportunity[o]
    OBVIOUS
  <2>3. copy \in Opportunity /\ copy.review_version < MaxVersions
    BY <1>5, <2>1, <2>2 DEF LoadForReview
  <2>4. PICK t : t = [op |-> "DECIDE", at |-> "loaded", message |-> NoMessage, id |-> o,
                      approved |-> approved, copy |-> copy]
    OBVIOUS
  <2>5. t \in OpportunitySessions /\ t.message = NoMessage
    BY <2>3, <2>4 DEF OpportunitySessions
  <2> QED BY <1>7, <2>1, <2>2, <2>4, <2>5, CallPuts DEF LoadForReview
<1>8. CASE a \in Workers /\ TakeDetection(a)
  <2>1. PICK t : t = [op |-> "GENERATE", at |-> "loaded", message |-> DetectMessage,
                      latest |-> latest, status |-> status, analysis |-> analysis.status]
    OBVIOUS
  <2>2. analysis.status \in AnalysisStatuses
    BY DEF AnalysisTypeOK, Analysis
  <2>3. t \in OpportunitySessions /\ t.message = DetectMessage
    BY <2>1, <2>2 DEF OpportunitySessions
  <2> QED BY <1>3, <1>4, <1>8, <2>1, <2>3, ReceivePuts DEF TakeDetection, TakenUp
<1>9. CASE a \in Workers /\ \E o \in Opportunities : TakeRender(a, o)
  <2>1. PICK o \in Opportunities : TakeRender(a, o)
    BY <1>9
  <2>2. PICK t : t = [op |-> "RENDER", at |-> "loaded", message |-> RenderMessage(o), id |-> o,
                      copy |-> opportunity[o]]
    OBVIOUS
  <2>3. t \in OpportunitySessions /\ t.message = RenderMessage(o)
    BY <1>5, <2>2 DEF OpportunitySessions
  <2> QED BY <1>9, <2>1, <2>2, <2>3, ReceivePuts DEF TakeRender
<1>10. ASSUME NEW place, Goto(a, place), UNCHANGED lost, s.op \in OpportunityOps,
              \/ s.op = "DETECT" /\ place = "requested"
              \/ s.op = "GENERATE" /\ s.at = "loaded" /\ place = "detecting"
              \/ s.op = "DECIDE" /\ place = "decided"
              \/ s.op = "RENDER" /\ s.at = "rendering" /\ place = "rendered"
       PROVE  Puts(a, OpportunitySessions)
  <2>1. PICK t : t = [s EXCEPT !.at = place]
    OBVIOUS
  <2>2. t \in OpportunitySessions /\ t.message = s.message
    BY <1>2, <1>10, <2>1 DEF OpportunitySessions
  <2> QED BY <1>1, <1>2, <1>10, <2>1, <2>2, GotoPuts DEF Carries
<1>11. CASE RequestGeneration(a) \/ StartGeneration(a) \/ CommitClip(a)
  BY <1>1, <1>10, <1>11 DEF RequestGeneration, StartGeneration, CommitClip, At, OpportunityOps
<1>12. CASE FirstGeneration(a)
  <2>1. s.op = "GENERATE" /\ s.at = "loaded" /\ UNCHANGED lost
    BY <1>1, <1>12 DEF FirstGeneration, At
  <2>2. CASE End(a)
    BY <2>1, <2>2, EndPuts
  <2>3. CASE ~End(a)
    <3>1. PICK t : t = [s EXCEPT !.latest = 1, !.status = "QUEUED"]
      OBVIOUS
    <3>2. 1 \in 0..MaxGenerations /\ "QUEUED" \in RunStatuses
      BY OpportunitiesAssumption DEF RunStatuses
    <3>3. t \in OpportunitySessions /\ t.message = s.message
      BY <1>2, <2>1, <3>1, <3>2 DEF OpportunitySessions, OpportunityOps
    <3>4. session'[a] = t
      BY <1>1, <1>12, <2>3, <3>1 DEF FirstGeneration, Shaped
    <3> QED BY <1>2, <2>1, <3>3, <3>4 DEF Puts, Carries, OpportunityOps
  <2> QED BY <2>2, <2>3
<1>13. CASE Detect(a)
  <2>1. s.op = "GENERATE" /\ s.at = "detecting"
    BY <1>1, <1>13 DEF Detect, At
  <2>2. s.latest \in 1..MaxGenerations
    BY <1>1, <2>1, OpportunitiesAssumption DEF RunsInv, Detects
  <2>3. PICK old \in SUBSET Opportunities :
           old = {o \in Opportunities : o[1] < s.latest /\ opportunity[o].review_status = "PENDING"}
    OBVIOUS
  <2>4. PICK t : t = [op |-> "GENERATE", at |-> "detected", message |-> DetectMessage,
                      latest |-> s.latest, old |-> old]
    OBVIOUS
  <2>5. t \in OpportunitySessions /\ t.message = DetectMessage
    BY <2>2, <2>4 DEF OpportunitySessions
  <2>6. s.message = DetectMessage /\ Carries(a, s)
    BY <1>2, <2>1 DEF OpportunitySessions, OpportunityOps
  <2>7. Begin(a, t) /\ UNCHANGED lost
    BY <1>1, <1>13, <2>3, <2>4 DEF Detect
  <2> QED BY <2>5, <2>6, <2>7, BeginPuts DEF Carries
<1>14. CASE DecideOpportunity(a)
  <2>1. s.op = "DECIDE" /\ s.at = "loaded" /\ UNCHANGED lost
    BY <1>1, <1>14 DEF DecideOpportunity, At
  <2>2. CASE s.copy.review_status = Decision(s)
    BY <1>1, <1>10, <1>14, <2>1, <2>2 DEF DecideOpportunity, OpportunityOps
  <2>3. CASE s.copy.review_status # Decision(s)
    <3>1. s.copy \in Opportunity /\ s.copy.review_version < MaxVersions /\ s.copy \in OpportunityRow
      BY <1>1, <2>1, DecidesFrom DEF Opportunity, OpportunityRow
    <3>2. PICK copy : copy = Decided(s)
      OBVIOUS
    <3>3. copy \in Opportunity
      <4>1. /\ copy \in OpportunityRow /\ copy.review_version = s.copy.review_version + 1
            /\ copy.generated_clip = s.copy.generated_clip
        BY <3>1, <3>2, DecidedIsNext
      <4>2. s.copy.review_version \in Nat
        BY <3>1 DEF OpportunityRow
      <4>3. copy.review_version \in 0..(MaxVersions + 2)
        BY <3>1, <4>1, <4>2, OpportunitiesAssumption
      <4>4. copy.generated_clip \in 0..MaxClips
        BY <3>1, <4>1 DEF Opportunity
      <4> QED BY <4>1, <4>3, <4>4 DEF OpportunityRow, Opportunity
    <3>4. PICK t : t = [s EXCEPT !.at = "decided", !.copy = copy]
      OBVIOUS
    <3>5. t \in OpportunitySessions /\ t.message = s.message
      BY <1>2, <2>1, <3>3, <3>4 DEF OpportunitySessions, OpportunityOps
    <3>6. session'[a] = t
      BY <1>1, <1>14, <2>3, <3>2, <3>4 DEF DecideOpportunity, Shaped
    <3> QED BY <1>2, <2>1, <3>5, <3>6 DEF Puts, Carries, OpportunityOps
  <2> QED BY <2>2, <2>3
<1>15. CASE RenderInCall(a)
  <2>1. s.op = "DECIDE"
    BY <1>1, <1>15 DEF RenderInCall, At
  <2>2. s.id \in Opportunities /\ s.copy \in Opportunity
    BY <1>1, <2>1, DecidesFrom
  <2>3. PICK t : t = [op |-> "RENDER", at |-> "loaded", message |-> NoMessage, id |-> s.id,
                      copy |-> s.copy]
    OBVIOUS
  <2>4. t \in OpportunitySessions /\ t.message = NoMessage
    BY <2>2, <2>3 DEF OpportunitySessions
  <2>5. s.message = NoMessage /\ Carries(a, s)
    BY <1>2, <2>1 DEF OpportunitySessions, OpportunityOps
  <2>6. Begin(a, t) /\ UNCHANGED lost
    BY <1>1, <1>15, <2>3 DEF RenderInCall
  <2> QED BY <2>4, <2>5, <2>6, BeginPuts DEF Carries
<1>16. CASE StartRender(a)
  <2>1. s.op = "RENDER" /\ s.at = "loaded" /\ UNCHANGED lost
    BY <1>1, <1>16 DEF StartRender, At
  <2>2. CASE End(a)
    BY <2>1, <2>2, EndPuts
  <2>3. CASE ~End(a)
    <3>1. s.id \in Opportunities /\ s.copy \in Opportunity
      BY <1>1, <2>1, RendersFrom
    <3>2. NextNumber <= MaxClips
      BY <1>16, <2>3 DEF StartRender
    <3>3. Len(clips) \in Nat
      BY DEF ReviewInv
    <3>4. PICK n \in 1..MaxClips : n = NextNumber
      BY <3>2, <3>3, ProductionAssumption DEF NextNumber
    <3>5. PICK t : t = [op |-> "RENDER", at |-> "rendering", message |-> s.message, id |-> s.id,
                        copy |-> s.copy, number |-> n]
      OBVIOUS
    <3>6. s.message \in {NoMessage} \cup {RenderMessage(o) : o \in Opportunities} /\ Carries(a, s)
      BY <1>2, <2>1 DEF OpportunitySessions, OpportunityOps
    <3>7. t \in OpportunitySessions /\ t.message = s.message
      BY <3>1, <3>5, <3>6 DEF OpportunitySessions
    <3>8. Begin(a, t)
      BY <1>1, <1>16, <2>3, <3>4, <3>5 DEF StartRender
    <3> QED BY <2>1, <3>6, <3>7, <3>8, BeginPuts DEF Carries
  <2> QED BY <2>2, <2>3
<1>17. CASE \/ GenerationExists(a) \/ SendGeneration(a) \/ LeaveGeneration(a)
            \/ CommitGeneration(a) \/ GenerationFails(a) \/ DecisionIsStale(a) \/ EndReview(a)
            \/ LeaveRender(a) \/ LinkClip(a)
  BY <1>17, EndPuts
  DEF GenerationExists, SendGeneration, LeaveGeneration, CommitGeneration, GenerationFails,
      DecisionIsStale, EndReview, LeaveRender, LinkClip
<1>18. CASE RenderConflicts(a)
  <2>1. s.op = "RENDER"
    BY <1>1, <1>18 DEF RenderConflicts, At
  <2> QED BY <1>1, <1>2, <1>18, <2>1, ExceptionPuts DEF RenderConflicts, OpportunityOps
<1> QED BY <1>6, <1>7, <1>8, <1>9, <1>11, <1>12, <1>13, <1>14, <1>15, <1>16, <1>17, <1>18
    DEF OpportunitiesHandler, Generate, Render
=============================================================================
