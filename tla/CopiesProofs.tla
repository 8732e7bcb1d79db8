----------------------------- MODULE CopiesProofs -----------------------------
(***************************************************************************)
(* Proofs about the rows of a clip that operators and workers write from   *)
(* copies without a lock, content packages, media and correction plans,    *)
(* and about the reports on its inspections, for any number of operators   *)
(* and messages.                                                           *)
(*                                                                         *)
(* Packages.  A review, a request and a worker all write from a copy.      *)
(* What carries the history is that a copy's version has been entered in   *)
(* it (CopyEntered): history is gapless up to the row's version, so that   *)
(* if the next version is free the row still has the copy's version, and   *)
(* history's one entry for that version says what the row has and what the *)
(* copy had.  Only a change of status to GENERATING or STALE enters no     *)
(* version.                                                                *)
(*                                                                         *)
(* Media.  The argument is that of the version column: a session whose     *)
(* copy of the asset is not behind the row has the row's hold, so what a   *)
(* retention pass or an inspection may still write, it writes knowing the  *)
(* hold there is.                                                          *)
(*                                                                         *)
(* Reports.  Until the latest inspection that is complete is what the      *)
(* newest report is about, some task pursues it; and from then on every    *)
(* report that could be the next is about it, too.                         *)
(*                                                                         *)
(* Corrections.  With one worker nobody else gives the plan that a task    *)
(* has loaded a result before the task does.                               *)
(***************************************************************************)
EXTENDS ContentPackages, Corrections, ProducerAdvice, WorkersProofs, FiniteSetTheorems

-----------------------------------------------------------------------------
(* Content packages.                                                       *)

PackageOps == {"PACKAGE", "WRITE", "EDIT", "APPROVED", "REJECTED"}
Judgements == {"EDIT", "APPROVED", "REJECTED"}

(* The statuses that a row gets without a new version.                     *)
Passing == {"GENERATING", "STALE"}

(* An entry of history agrees with a row or a copy of its version.         *)
Agrees(v, p) ==
    /\ v.version = p.review_version /\ v.fields = p.fields
    /\ v.status = p.status \/ p.status \in Passing

(* The history H of a package whose row is p.                              *)
Gapless(p, H) ==
    /\ H \subseteq PackageVersion
    /\ \A v \in H : v.version \in 1..p.review_version
    /\ \A n \in 1..p.review_version : \E v \in H : v.version = n
    /\ \A v, w \in H : v.version = w.version => v = w

Approves(p, H) ==
    \E before, v \in H :
        /\ v.version = p.review_version /\ v.status = "APPROVED"
        /\ before.version = v.version - 1 /\ before.status = "PENDING"
        /\ before.fields = v.fields /\ v.fields = p.fields

Sound(p, H) ==
    /\ Gapless(p, H)
    /\ p.review_version > 0 => \E v \in H : Agrees(v, p)
    /\ p.status = "ABSENT" => p = NoPackage
    /\ p.status # "ABSENT" => p.review_version > 0
    /\ p.status = "APPROVED" => Approves(p, H)

(* The generations that there are, are numbered from 1.                    *)
Newest(n) == \A g \in Generations : package[g].status # "ABSENT" <=> g <= n
Numbered == \E n \in 0..MaxPackages : Newest(n)

(* What a session that will write knows: its copy's version is one that    *)
(* was entered, and a copy that is STALE is of a row that has been, and    *)
(* remains, in passing while it keeps its version.                         *)
CopyEntered(s) ==
    s.latest # 0 =>
        /\ \E v \in packageVersions[s.latest] : Agrees(v, s.copy)
        /\ /\ s.copy.status = "STALE"
           /\ package[s.latest].review_version = s.copy.review_version
           => package[s.latest].status \in Passing

RequestFine(s) ==
    /\ s \in [op : {"PACKAGE"}, at : {"loaded", "requested"}, message : {NoMessage},
              latest : 0..MaxPackages, copy : Package, rerun : BOOLEAN]
    /\ s.at = "loaded" =>
         /\ CopyEntered(s)
         /\ s.rerun => s.latest < MaxPackages /\ s.copy.status \notin {"QUEUED", "GENERATING"}

WriteFine(s) ==
    /\ s \in [op : {"WRITE"}, at : {"loaded", "writing"}, message : {PackageMessage},
              latest : 0..MaxPackages, copy : Package]
    /\ CopyEntered(s)
    /\ s.latest = 0 => s.at = "loaded" /\ s.copy = NoPackage

ReviewFine(s) ==
    /\ s \in [op : Judgements, at : {"package"}, message : {NoMessage},
              latest : Generations, copy : Package]
    /\ CopyEntered(s)
    /\ s.op = "EDIT" => s.copy.status \in {"PENDING", "APPROVED", "REJECTED"}
    /\ s.op # "EDIT" => s.copy.status = "PENDING"

SessionFine(s) ==
    /\ s.op = "PACKAGE" => RequestFine(s)
    /\ s.op = "WRITE" => WriteFine(s)
    /\ s.op \in Judgements => ReviewFine(s)

(* The inductive invariant. *)
PackagesInv ==
    /\ PackagesTypeOK
    /\ packageVersions \in [Generations -> SUBSET PackageVersion]
    /\ \A g \in Generations : Sound(package[g], packageVersions[g])
    /\ Numbered
    /\ \A a \in Actors : SessionFine(session[a])

-----------------------------------------------------------------------------
(* A row and its history.                                                  *)

(* How a row p with history H may become q with history J.                 *)
Advances(p, H, q, J) ==
    /\ H \subseteq J
    /\ \/ q.review_version > p.review_version
       \/ /\ q.review_version = p.review_version
          /\ q.status = p.status \/ q.status \in Passing

Sounder(p, H, q, J) ==
    /\ q \in Package /\ Sound(q, J)
    /\ Advances(p, H, q, J)

(* A row without versions has no history.                                  *)
LEMMA AbsentHasNoHistory ==
  ASSUME NEW H, NEW p \in Package, Sound(p, H), p.status = "ABSENT"
  PROVE  H = {} /\ p.review_version = 0
<1>1. p.review_version = 0
  BY DEF Sound, NoPackage
<1>2. \A v \in H : v.version \in 1..0
  BY <1>1 DEF Sound, Gapless
<1> QED BY <1>1, <1>2

(* A version that was entered is at most the row's.                        *)
LEMMA EnteredIsNotAhead ==
  ASSUME NEW H, NEW p \in Package, Sound(p, H), NEW c \in Package,
         NEW v \in H, Agrees(v, c)
  PROVE  /\ c.review_version \in 1..p.review_version
         /\ p.status # "ABSENT"
  BY AbsentHasNoHistory DEF Sound, Gapless, Agrees

(* The copy's next version is free only while the row has the copy's       *)
(* version; then the two agree, but for a row in passing.                  *)
LEMMA FreeMeansCurrent ==
  ASSUME NEW H, NEW p \in Package, Sound(p, H), NEW c \in Package,
         NEW v \in H, Agrees(v, c),
         \A w \in H : w.version # c.review_version + 1
  PROVE  /\ p.review_version = c.review_version
         /\ p.fields = c.fields
         /\ Agrees(v, p)
         /\ p.status # "ABSENT"
<1>1. c.review_version \in 1..p.review_version /\ p.status # "ABSENT"
  BY EnteredIsNotAhead
<1>2. p.review_version \in Nat /\ c.review_version \in Nat
  BY DEF Package
<1>3. c.review_version + 1 \notin 1..p.review_version
  BY DEF Sound, Gapless
<1>4. p.review_version = c.review_version
  BY <1>1, <1>2, <1>3
<1>5. PICK w \in H : Agrees(w, p)
  BY <1>1, <1>2 DEF Sound
<1>6. w = v
  BY <1>4, <1>5 DEF Sound, Gapless, Agrees
<1> QED BY <1>1, <1>4, <1>5, <1>6 DEF Agrees

(* The next version is entered. *)
LEMMA EnteringIsSound ==
  ASSUME NEW H, NEW p \in Package, Sound(p, H), p.status # "ABSENT",
         NEW q \in Package, NEW v \in PackageVersion,
         q.review_version = p.review_version + 1, q.status # "ABSENT", Agrees(v, q),
         q.status = "APPROVED" =>
            \E before \in H : /\ before.version = p.review_version
                             /\ before.status = "PENDING" /\ before.fields = q.fields
  PROVE  Sounder(p, H, q, H \cup {v})
<1> DEFINE J == H \cup {v}
<1>1. p.review_version \in Nat /\ q.review_version \in Nat
  BY DEF Package
<1>2. \A w \in H : w.version \in 1..p.review_version
  BY DEF Sound, Gapless
<1>3. v.version = p.review_version + 1 /\ v.fields = q.fields
  BY DEF Agrees
<1>4. Gapless(q, J)
  <2>1. J \subseteq PackageVersion
    BY DEF Sound, Gapless
  <2>2. \A w \in J : w.version \in 1..q.review_version
    BY <1>1, <1>2, <1>3
  <2>3. \A n \in 1..q.review_version : \E w \in J : w.version = n
    BY <1>1, <1>3 DEF Sound, Gapless
  <2>4. \A u, w \in J : u.version = w.version => u = w
    BY <1>1, <1>2, <1>3 DEF Sound, Gapless
  <2> QED BY <2>1, <2>2, <2>3, <2>4 DEF Gapless
<1>5. q.status = "APPROVED" => Approves(q, J)
  <2> SUFFICES ASSUME q.status = "APPROVED" PROVE Approves(q, J)
    OBVIOUS
  <2>1. PICK before \in H : /\ before.version = p.review_version
                            /\ before.status = "PENDING" /\ before.fields = q.fields
    OBVIOUS
  <2>2. v.status = "APPROVED"
    BY DEF Agrees, Passing
  <2> QED BY <1>1, <1>3, <2>1, <2>2 DEF Approves
<1>6. Sound(q, J)
  BY <1>1, <1>4, <1>5 DEF Sound
<1> QED BY <1>1, <1>6 DEF Sounder, Advances

(* The status changes in passing. *)
LEMMA PassingIsSound ==
  ASSUME NEW H, NEW p \in Package, Sound(p, H), p.status # "ABSENT",
         NEW status \in Passing
  PROVE  Sounder(p, H, [p EXCEPT !.status = status], H)
<1> DEFINE q == [p EXCEPT !.status = status]
<1>1. /\ q \in Package /\ q.status = status
      /\ q.review_version = p.review_version /\ q.fields = p.fields
  BY DEF Package, PackageStatuses, Passing
<1>2. status # "ABSENT" /\ status # "APPROVED"
  BY DEF Passing
<1>3. Sound(q, H)
  BY <1>1, <1>2 DEF Sound, Gapless, Agrees
<1> QED BY <1>1, <1>3 DEF Sounder, Advances

(* The first version of a new row. *)
LEMMA CreatingIsSound ==
  ASSUME NEW H, NEW p \in Package, Sound(p, H), p.status = "ABSENT"
  PROVE  Sounder(p, H, QueuedPackage, {[version |-> 1, status |-> "QUEUED", fields |-> 0]})
<1>1. H = {} /\ p.review_version = 0
  BY AbsentHasNoHistory
<1>2. QueuedPackage \in Package
  BY DEF QueuedPackage, Package, PackageStatuses
<1> DEFINE v == [version |-> 1, status |-> "QUEUED", fields |-> 0]
<1>3. v \in PackageVersion
  BY DEF PackageVersion, PackageStatuses
<1>4. Gapless(QueuedPackage, {v})
  BY <1>3 DEF Gapless, QueuedPackage
<1>5. Sound(QueuedPackage, {v})
  BY <1>4 DEF Sound, QueuedPackage, Agrees
<1> QED BY <1>1, <1>2, <1>5 DEF Sounder, Advances, QueuedPackage

LEMMA SameIsSound ==
  ASSUME NEW H, NEW p \in Package, Sound(p, H)
  PROVE  Sounder(p, H, p, H)
  BY DEF Sounder, Advances

-----------------------------------------------------------------------------
(* The newest package, and what one who loads it knows.                    *)

LEMMA LatestIsNewest ==
  ASSUME PackagesInv
  PROVE  /\ LatestPackage \in 0..MaxPackages
         /\ Newest(LatestPackage)
<1> DEFINE P(g) == /\ g > 0 => package[g].status # "ABSENT"
                   /\ \A h \in (g + 1)..MaxPackages : package[h].status = "ABSENT"
<1>1. PICK n \in 0..MaxPackages : Newest(n)
  BY DEF PackagesInv, Numbered
<1>2. MaxPackages \in Nat \ {0}
  BY PackagesAssumption
<1>3. P(n)
  BY <1>1, <1>2 DEF Newest, Generations
<1>4. LatestPackage \in 0..MaxPackages /\ P(LatestPackage)
  BY <1>3 DEF LatestPackage
<1>5. LatestPackage = n
  BY <1>1, <1>2, <1>4 DEF Newest, Generations
<1> QED BY <1>1, <1>5

(* A copy that is made now is of a version that was entered.               *)
LEMMA LoadedIsEntered ==
  ASSUME PackagesInv, NEW g \in Generations, package[g].status # "ABSENT",
         NEW s, s.latest = g, s.copy = package[g]
  PROVE  CopyEntered(s) /\ s.copy \in Package
<1>1. package[g] \in Package /\ Sound(package[g], packageVersions[g])
  BY DEF PackagesInv, PackagesTypeOK
<1>2. package[g].review_version > 0
  BY <1>1 DEF Sound
<1> QED BY <1>1, <1>2 DEF Sound, CopyEntered, Passing

LEMMA LatestIsEntered ==
  ASSUME PackagesInv, NEW s, s.latest = LatestPackage, s.copy = Copied(LatestPackage)
  PROVE  /\ CopyEntered(s) /\ s.copy \in Package
         /\ s.latest \in 0..MaxPackages
         /\ s.latest = 0 => s.copy = NoPackage
<1>1. LatestPackage \in 0..MaxPackages /\ Newest(LatestPackage)
  BY LatestIsNewest
<1>2. CASE LatestPackage = 0
  <2>1. NoPackage \in Package
    BY DEF NoPackage, Package, PackageStatuses
  <2> QED BY <1>1, <1>2, <2>1 DEF Copied, CopyEntered
<1>3. CASE LatestPackage # 0
  <2>1. LatestPackage \in Generations /\ package[LatestPackage].status # "ABSENT"
    BY <1>1, <1>3, PackagesAssumption DEF Newest, Generations
  <2> QED BY <1>1, <1>3, <2>1, LoadedIsEntered DEF Copied
<1> QED BY <1>2, <1>3

(* What a session knows stays true while rows advance.                     *)
RowsAdvance ==
    \A g \in Generations :
        Sounder(package[g], packageVersions[g], package'[g], packageVersions'[g])

LEMMA KnownStaysKnown ==
  ASSUME PackagesInv, RowsAdvance, NEW s, s.latest \in 0..MaxPackages,
         s.copy \in Package, CopyEntered(s)
  PROVE  CopyEntered(s)'
<1> SUFFICES ASSUME s.latest # 0
             PROVE  /\ \E v \in packageVersions'[s.latest] : Agrees(v, s.copy)
                    /\ /\ s.copy.status = "STALE"
                       /\ package'[s.latest].review_version = s.copy.review_version
                       => package'[s.latest].status \in Passing
  BY DEF CopyEntered
<1> DEFINE g == s.latest
<1>1. g \in Generations
  BY PackagesAssumption DEF Generations
<1>2. /\ Sounder(package[g], packageVersions[g], package'[g], packageVersions'[g])
      /\ package[g] \in Package /\ Sound(package[g], packageVersions[g])
  BY <1>1 DEF RowsAdvance, PackagesInv, PackagesTypeOK
<1>3. PICK v \in packageVersions[g] : Agrees(v, s.copy)
  BY DEF CopyEntered
<1>4. v \in packageVersions'[g]
  BY <1>2, <1>3 DEF Sounder, Advances
<1>5. s.copy.review_version \in 1..package[g].review_version
  BY <1>2, <1>3, EnteredIsNotAhead
<1>6. package'[g].review_version = s.copy.review_version
        => package'[g].review_version = package[g].review_version
  BY <1>2, <1>5 DEF Sounder, Advances, Package
<1>7. ASSUME s.copy.status = "STALE",
             package'[g].review_version = s.copy.review_version
      PROVE  package'[g].status \in Passing
  <2>1. package[g].status \in Passing
    BY <1>6, <1>7 DEF CopyEntered
  <2>2. ~(package'[g].review_version > package[g].review_version)
    BY <1>2, <1>6, <1>7 DEF Package, Sounder
  <2> QED BY <1>2, <2>1, <2>2 DEF Sounder, Advances
<1> QED BY <1>3, <1>4, <1>7

LEMMA SessionStaysFine ==
  ASSUME PackagesInv, RowsAdvance, NEW s, SessionFine(s)
  PROVE  SessionFine(s)'
<1>1. ASSUME s.op = "PACKAGE" PROVE RequestFine(s)'
  BY <1>1, KnownStaysKnown DEF SessionFine, RequestFine
<1>2. ASSUME s.op = "WRITE" PROVE WriteFine(s)'
  BY <1>2, KnownStaysKnown DEF SessionFine, WriteFine
<1>3. ASSUME s.op \in Judgements PROVE ReviewFine(s)'
  <2>1. ReviewFine(s) /\ s.latest \in 0..MaxPackages
    BY <1>3, PackagesAssumption DEF SessionFine, ReviewFine, Generations
  <2> QED BY <2>1, KnownStaysKnown DEF ReviewFine
<1> QED BY <1>1, <1>2, <1>3 DEF SessionFine

(* A step that advances the rows and moves one session.                    *)
LEMMA StepKeepsInv ==
  ASSUME PackagesInv, RowsAdvance, NEW a \in Actors, OthersStay(a), SessionFine(session[a])',
         package' = [g \in Generations |-> package'[g]],
         packageVersions' = [g \in Generations |-> packageVersions'[g]],
         Numbered'
  PROVE  PackagesInv'
<1>1. \A g \in Generations : /\ package'[g] \in Package
                             /\ Sound(package'[g], packageVersions'[g])
  BY DEF RowsAdvance, Sounder
<1>2. PackagesTypeOK'
  BY <1>1 DEF PackagesTypeOK, Sound, Gapless
<1>3. ASSUME NEW b \in Actors PROVE SessionFine(session[b])'
  <2>1. CASE b = a
    BY <2>1
  <2>2. CASE b # a
    <3>1. PICK s : s = session[b]
      OBVIOUS
    <3>2. session'[b] = s /\ SessionFine(s)
      BY <2>2, <3>1 DEF OthersStay, PackagesInv
    <3>3. SessionFine(s)'
      BY <3>2, SessionStaysFine
    <3> QED BY <3>2, <3>3 DEF SessionFine, RequestFine, WriteFine, ReviewFine, CopyEntered
  <2> QED BY <2>1, <2>2
<1>4. packageVersions' \in [Generations -> SUBSET PackageVersion]
  BY <1>1 DEF Sound, Gapless
<1> QED BY <1>1, <1>2, <1>3, <1>4 DEF PackagesInv

(* A step that leaves the rows alone. *)
LEMMA ReadingKeepsInv ==
  ASSUME PackagesInv, UNCHANGED packageRows, NEW a \in Actors, OthersStay(a),
         SessionFine(session[a])'
  PROVE  PackagesInv'
<1>1. package' = package /\ packageVersions' = packageVersions
  BY DEF packageRows
<1>2. RowsAdvance
  BY <1>1, SameIsSound DEF RowsAdvance, PackagesInv, PackagesTypeOK
<1>3. Numbered' /\ packageVersions' = [g \in Generations |-> packageVersions'[g]]
  BY <1>1 DEF PackagesInv, Numbered, Newest
<1>4. package' = [g \in Generations |-> package'[g]]
  BY <1>1 DEF PackagesInv, PackagesTypeOK
<1> QED BY <1>2, <1>3, <1>4, StepKeepsInv

(* A step that changes the row and the history of one package. *)
LEMMA WritingKeepsInv ==
  ASSUME PackagesInv, NEW g \in Generations, NEW q, NEW J,
         package[g].status # "ABSENT", q.status # "ABSENT",
         Sounder(package[g], packageVersions[g], q, J),
         package' = [package EXCEPT ![g] = q],
         packageVersions' = [packageVersions EXCEPT ![g] = J],
         NEW a \in Actors, OthersStay(a), RowsAdvance => SessionFine(session[a])'
  PROVE  PackagesInv'
<1>1. /\ package' = [h \in Generations |-> IF h = g THEN q ELSE package[h]]
      /\ packageVersions' = [h \in Generations |-> IF h = g THEN J ELSE packageVersions[h]]
  BY DEF PackagesInv, PackagesTypeOK
<1>2. RowsAdvance
  BY <1>1, SameIsSound DEF RowsAdvance, PackagesInv, PackagesTypeOK
<1>3. Numbered'
  BY <1>1 DEF PackagesInv, Numbered, Newest
<1> QED BY <1>1, <1>2, <1>3, StepKeepsInv

(* Sessions of other components, and ended ones. *)
LEMMA OtherIsFine ==
  ASSUME NEW a \in Actors, session'[a].op \notin PackageOps
  PROVE  SessionFine(session[a])'
  BY DEF SessionFine, PackageOps, Judgements

-----------------------------------------------------------------------------
(* The operations.                                                         *)

LEMMA LoadForPackageKeeps ==
  ASSUME PackagesInv, Shaped, NEW o \in Actors, NEW rerun \in BOOLEAN,
         LoadForPackage(o, rerun)
  PROVE  PackagesInv'
<1>0. PICK s : s = [op |-> "PACKAGE", at |-> "loaded", message |-> NoMessage,
                      latest |-> LatestPackage, copy |-> Copied(LatestPackage), rerun |-> rerun]
  OBVIOUS
<1>1. session'[o] = s /\ OthersStay(o) /\ UNCHANGED packageRows
  BY <1>0, BeginEffect DEF LoadForPackage
<1>2. CopyEntered(s) /\ s.copy \in Package /\ s.latest \in 0..MaxPackages
  BY <1>0, LatestIsEntered
<1>3. CopyEntered(s)'
  BY <1>1, <1>2 DEF CopyEntered, packageRows
<1>4. rerun => /\ s.latest < MaxPackages
               /\ s.copy.status \notin {"QUEUED", "GENERATING"}
  BY <1>0 DEF LoadForPackage
<1>5. SessionFine(session[o])'
  BY <1>0, <1>1, <1>2, <1>3, <1>4 DEF SessionFine, RequestFine, Judgements, CopyEntered
<1> QED BY <1>1, <1>5, ReadingKeepsInv

LEMMA TakePackageKeeps ==
  ASSUME PackagesInv, Shaped, NEW w \in Actors, TakePackage(w)
  PROVE  PackagesInv'
<1>0. PICK s : s = [op |-> "WRITE", at |-> "loaded", message |-> PackageMessage,
                      latest |-> LatestPackage, copy |-> Copied(LatestPackage)]
  OBVIOUS
<1>1. session'[w] = s /\ OthersStay(w) /\ UNCHANGED packageRows
  BY <1>0, BeginEffect DEF TakePackage, Receive
<1>2. /\ CopyEntered(s) /\ s.copy \in Package /\ s.latest \in 0..MaxPackages
      /\ s.latest = 0 => s.copy = NoPackage
  BY <1>0, LatestIsEntered
<1>3. CopyEntered(s)'
  BY <1>1, <1>2 DEF CopyEntered, packageRows
<1>4. SessionFine(session[w])'
  BY <1>0, <1>1, <1>2, <1>3 DEF SessionFine, WriteFine, Judgements, CopyEntered
<1> QED BY <1>1, <1>4, ReadingKeepsInv

LEMMA LoadForPackageReviewKeeps ==
  ASSUME PackagesInv, Shaped, NEW o \in Actors, NEW g \in Generations,
         NEW op \in Judgements, LoadForPackageReview(o, g, op)
  PROVE  PackagesInv'
<1>0. PICK s : s = [op |-> op, at |-> "package", message |-> NoMessage,
                      latest |-> g, copy |-> package[g]]
  OBVIOUS
<1>1. session'[o] = s /\ OthersStay(o) /\ UNCHANGED packageRows
  BY <1>0, BeginEffect DEF LoadForPackageReview
<1>2. /\ op = "EDIT" => s.copy.status \in {"PENDING", "APPROVED", "REJECTED"}
      /\ op # "EDIT" => s.copy.status = "PENDING"
  BY <1>0 DEF LoadForPackageReview, Editable, Reviewable
<1>3. CopyEntered(s) /\ s.copy \in Package
  BY <1>0, <1>2, LoadedIsEntered
<1>4. CopyEntered(s)'
  BY <1>1, <1>3 DEF CopyEntered, packageRows
<1>5. SessionFine(session[o])'
  BY <1>0, <1>1, <1>2, <1>3, <1>4 DEF SessionFine, ReviewFine, Judgements, CopyEntered
<1> QED BY <1>1, <1>5, ReadingKeepsInv

(* Operations that end a session and write nothing. *)
LEMMA EndingKeeps ==
  ASSUME PackagesInv, Shaped, NEW a \in Actors, End(a), UNCHANGED packageRows
  PROVE  PackagesInv'
  BY EndEffect, OtherIsFine, ReadingKeepsInv DEF PackageOps

LEMMA FirstPackageKeeps ==
  ASSUME PackagesInv, Shaped, NEW w \in Actors, FirstPackage(w)
  PROVE  PackagesInv'
<1> DEFINE v == [version |-> 1, status |-> "QUEUED", fields |-> 0]
<1>1. CASE package[1].status # "ABSENT"
  BY <1>1, EndingKeeps DEF FirstPackage, EndInException
<1>2. CASE package[1].status = "ABSENT"
  <2>1. 1 \in Generations
    BY PackagesAssumption DEF Generations
  <2>2. package[1] \in Package /\ Sound(package[1], packageVersions[1])
    BY <2>1 DEF PackagesInv, PackagesTypeOK
  <2>3. packageVersions[1] = {}
    BY <1>2, <2>2, AbsentHasNoHistory
  <2>4. Sounder(package[1], packageVersions[1], QueuedPackage, {v})
    BY <1>2, <2>2, CreatingIsSound
  <2>5. /\ package' = [package EXCEPT ![1] = QueuedPackage]
        /\ packageVersions' = [packageVersions EXCEPT ![1] = {v}]
    BY <1>2, <2>1, <2>3 DEF FirstPackage, RecordVersion, QueuedPackage, PackagesInv
  <2>6. /\ package' = [h \in Generations |-> IF h = 1 THEN QueuedPackage ELSE package[h]]
        /\ packageVersions' = [h \in Generations |-> IF h = 1 THEN {v} ELSE packageVersions[h]]
    BY <2>5 DEF PackagesInv, PackagesTypeOK
  <2>7. RowsAdvance
    BY <2>4, <2>6, SameIsSound DEF RowsAdvance, PackagesInv, PackagesTypeOK
  <2>8. Numbered'
    <3>1. PICK n \in 0..MaxPackages : Newest(n)
      BY DEF PackagesInv, Numbered
    <3>2. n = 0
      BY <1>2, <2>1, <3>1 DEF Newest
    <3>3. Newest(1)'
      BY <2>6, <3>1, <3>2 DEF Newest, QueuedPackage, Generations
    <3> QED BY <3>3, PackagesAssumption DEF Numbered
  <2>a. PICK s : s = [session[w] EXCEPT !.latest = 1, !.copy = QueuedPackage]
    OBVIOUS
  <2>9. session'[w] = s /\ OthersStay(w)
    BY <1>2, <2>a DEF FirstPackage, Shaped, OthersStay
  <2>10. WriteFine(session[w])
    BY DEF FirstPackage, At, PackagesInv, SessionFine
  <2>11. s \in [op : {"WRITE"}, at : {"loaded"}, message : {PackageMessage},
                latest : {1}, copy : {QueuedPackage}]
    BY <2>10, <2>a DEF WriteFine, FirstPackage, At
  <2>12. QueuedPackage \in Package /\ 1 \in 0..MaxPackages
    BY PackagesAssumption DEF QueuedPackage, Package, PackageStatuses
  <2>13. CopyEntered(s)'
    <3>1. s.latest = 1 /\ s.copy = QueuedPackage
      BY <2>11
    <3>2. v \in packageVersions'[1]
      BY <2>1, <2>6
    <3>3. Agrees(v, QueuedPackage) /\ QueuedPackage.status # "STALE"
      BY DEF Agrees, QueuedPackage
    <3> QED BY <3>1, <3>2, <3>3 DEF CopyEntered
  <2>14. SessionFine(session[w])'
    BY <2>9, <2>11, <2>12, <2>13 DEF SessionFine, WriteFine, Judgements, CopyEntered
  <2> QED BY <2>6, <2>7, <2>8, <2>9, <2>14, StepKeepsInv
<1> QED BY <1>1, <1>2

LEMMA StartPackageKeeps ==
  ASSUME PackagesInv, Shaped, NEW w \in Actors, StartPackage(w)
  PROVE  PackagesInv'
<1> DEFINE g == session[w].latest
           q == [package[g] EXCEPT !.status = "GENERATING"]
<1>1. WriteFine(session[w])
  BY DEF StartPackage, At, PackagesInv, SessionFine
<1>2. g # 0 /\ g \in Generations /\ session[w].copy \in Package
  BY <1>1, PackagesAssumption DEF WriteFine, StartPackage, NoPackage, Generations
<1>3. package[g] \in Package /\ Sound(package[g], packageVersions[g])
  BY <1>2 DEF PackagesInv, PackagesTypeOK
<1>4. package[g].status # "ABSENT"
  BY <1>1, <1>2, <1>3, EnteredIsNotAhead DEF WriteFine, CopyEntered
<1>5. Sounder(package[g], packageVersions[g], q, packageVersions[g])
  BY <1>3, <1>4, PassingIsSound DEF Passing
<1>6. /\ package' = [package EXCEPT ![g] = q]
      /\ packageVersions' = [packageVersions EXCEPT ![g] = packageVersions[g]]
  BY <1>2 DEF StartPackage, PackagesInv, PackagesTypeOK
<1>7. session'[w] = [session[w] EXCEPT !.at = "writing"] /\ OthersStay(w)
  BY GotoEffect DEF StartPackage
<1>8. ASSUME RowsAdvance PROVE SessionFine(session[w])'
  <2>1. PICK s : s = session[w]
    OBVIOUS
  <2>2. PICK t : t = session'[w]
    OBVIOUS
  <2>3. /\ t \in [op : {"WRITE"}, at : {"loaded", "writing"}, message : {PackageMessage},
                  latest : 0..MaxPackages, copy : Package]
        /\ t.latest = s.latest /\ t.copy = s.copy /\ t.op = "WRITE"
    BY <1>1, <1>7, <2>1, <2>2 DEF WriteFine
  <2>4. CopyEntered(s)'
    BY <1>1, <1>8, <2>1, KnownStaysKnown DEF WriteFine
  <2>5. CopyEntered(t)'
    BY <2>3, <2>4 DEF CopyEntered
  <2>6. WriteFine(t)'
    BY <1>2, <2>1, <2>3, <2>5 DEF WriteFine
  <2> QED BY <2>2, <2>3, <2>6 DEF SessionFine, WriteFine, CopyEntered, Judgements
<1>9. q.status # "ABSENT"
  BY <1>3 DEF Package
<1> QED BY <1>2, <1>4, <1>5, <1>6, <1>7, <1>8, <1>9, WritingKeepsInv

LEMMA WritePackageKeeps ==
  ASSUME PackagesInv, Shaped, NEW w \in Actors, WritePackage(w)
  PROVE  PackagesInv'
<1> DEFINE s == session[w]
           g == s.latest
           q == Written(s)
           v == [version |-> q.review_version, status |-> q.status, fields |-> q.fields]
<1>1. WriteFine(s)
  BY DEF WritePackage, At, PackagesInv, SessionFine
<1>2. g # 0 /\ g \in Generations /\ s.copy \in Package
  BY <1>1, PackagesAssumption DEF WriteFine, WritePackage, At, Generations
<1>3. package[g] \in Package /\ Sound(package[g], packageVersions[g])
  BY <1>2 DEF PackagesInv, PackagesTypeOK
<1>4. /\ q.status = "PENDING" /\ q.review_version = s.copy.review_version + 1
      /\ q \in Package /\ v \in PackageVersion /\ Agrees(v, q)
  BY <1>2 DEF Written, Package, PackageVersion, PackageStatuses, Agrees
<1>5. package[g].review_version = s.copy.review_version /\ package[g].status # "ABSENT"
  BY <1>1, <1>2, <1>3, <1>4, FreeMeansCurrent
  DEF WriteFine, CopyEntered, WritePackage, Recorded
<1>6. Sounder(package[g], packageVersions[g], q, packageVersions[g] \cup {v})
  BY <1>3, <1>4, <1>5, EnteringIsSound
<1>7. /\ package' = [package EXCEPT ![g] = q]
      /\ packageVersions' = [packageVersions EXCEPT ![g] = packageVersions[g] \cup {v}]
  BY <1>2 DEF WritePackage, RecordVersion, PackagesInv
<1>8. OthersStay(w) /\ SessionFine(session[w])'
  BY EndEffect, OtherIsFine DEF WritePackage, PackageOps
<1> QED BY <1>2, <1>4, <1>5, <1>6, <1>7, <1>8, WritingKeepsInv

LEMMA PackageFailsKeeps ==
  ASSUME PackagesInv, Shaped, NEW w \in Actors, PackageFails(w)
  PROVE  PackagesInv'
<1> DEFINE s == session[w]
           g == s.latest
<1>q. PICK q : q = [package[g] EXCEPT !.status = "REJECTED",
                                      !.review_version = package[g].review_version + 1]
  OBVIOUS
<1> DEFINE v == [version |-> q.review_version, status |-> q.status, fields |-> q.fields]
<1>1. WriteFine(s)
  BY DEF PackageFails, At, PackagesInv, SessionFine
<1>2. g # 0 /\ g \in Generations /\ s.copy \in Package
  BY <1>1, PackagesAssumption DEF WriteFine, PackageFails, At, Generations
<1>3. package[g] \in Package /\ Sound(package[g], packageVersions[g])
  BY <1>2 DEF PackagesInv, PackagesTypeOK
<1>a. package[g].review_version + 1 \in Nat /\ "REJECTED" \in PackageStatuses
  BY <1>3 DEF Package, PackageStatuses
<1>b. q.status = "REJECTED" /\ q.review_version = package[g].review_version + 1 /\ q \in Package
  BY <1>3, <1>a, <1>q DEF Package
<1>4. /\ q.status = "REJECTED" /\ q.review_version = package[g].review_version + 1
      /\ q \in Package /\ v \in PackageVersion /\ Agrees(v, q)
  BY <1>b DEF Package, PackageVersion, Agrees
<1>5. package[g].status # "ABSENT"
  BY <1>1, <1>2, <1>3, EnteredIsNotAhead DEF WriteFine, CopyEntered
<1>6. Sounder(package[g], packageVersions[g], q, packageVersions[g] \cup {v})
  BY <1>3, <1>4, <1>5, EnteringIsSound
<1>7. /\ package' = [package EXCEPT ![g] = q]
      /\ packageVersions' = [packageVersions EXCEPT ![g] = packageVersions[g] \cup {v}]
  BY <1>2, <1>q DEF PackageFails, RecordVersion, PackagesInv
<1>8. OthersStay(w) /\ SessionFine(session[w])'
  BY EndEffect, OtherIsFine DEF PackageFails, EndInException, PackageOps
<1> QED BY <1>2, <1>4, <1>5, <1>6, <1>7, <1>8, WritingKeepsInv

(* A decision is about the version that the reviewer has seen: its PENDING *)
(* entry is in history.  An edit of a copy that is PENDING leaves the      *)
(* row's status, which is PENDING or in passing.                           *)
LEMMA ReviewPackageKeeps ==
  ASSUME PackagesInv, Shaped, NEW o \in Actors, ReviewPackage(o)
  PROVE  PackagesInv'
<1> DEFINE s == session[o]
           g == s.latest
           p == package[g]
           H == packageVersions[g]
<1>n. PICK new : new = Reviewed(s)
  OBVIOUS
<1>q. PICK q :
        q = [p EXCEPT !.status = IF s.copy.status = new.status THEN p.status ELSE new.status,
                      !.review_version = new.review_version,
                      !.fields = IF s.op = "EDIT" THEN new.fields ELSE p.fields]
  OBVIOUS
<1> DEFINE v == [version |-> new.review_version, status |-> new.status, fields |-> new.fields]
<1>1. ReviewFine(s)
  BY DEF ReviewPackage, PackagesInv, SessionFine, Judgements
<1>2. /\ g # 0 /\ g \in Generations /\ s.copy \in Package /\ s.op \in Judgements
      /\ s.op = "EDIT" => s.copy.status \in {"PENDING", "APPROVED", "REJECTED"}
      /\ s.op # "EDIT" => s.copy.status = "PENDING"
  BY <1>1, PackagesAssumption DEF ReviewFine, Generations
<1>3. p \in Package /\ Sound(p, H)
  BY <1>2 DEF PackagesInv, PackagesTypeOK
<1>4. PICK e \in H : Agrees(e, s.copy)
  BY <1>1, <1>2 DEF ReviewFine, CopyEntered
<1>5. /\ new \in Package
      /\ new.review_version = s.copy.review_version + 1
      /\ s.op = "EDIT" => new.status = "PENDING"
      /\ s.op # "EDIT" => new.status = s.op /\ new.fields = s.copy.fields
  <2>1. s.copy.review_version + 1 \in Nat
    BY <1>2 DEF Package
  <2>2. s.op # "EDIT" => s.op \in PackageStatuses
    BY <1>2 DEF Judgements, PackageStatuses
  <2>3. CASE s.op = "EDIT"
    BY <1>n, <2>1, <2>3 DEF Reviewed, Package, PackageStatuses
  <2>4. CASE s.op # "EDIT"
    BY <1>2, <1>n, <2>1, <2>2, <2>4 DEF Reviewed, Package
  <2> QED BY <2>3, <2>4
<1>6. \A w \in H : w.version # s.copy.review_version + 1
  BY <1>5, <1>n DEF ReviewPackage, Recorded
<1>7. /\ p.review_version = s.copy.review_version /\ p.fields = s.copy.fields
      /\ Agrees(e, p) /\ p.status # "ABSENT"
  BY <1>2, <1>3, <1>4, <1>6, FreeMeansCurrent
<1>8. /\ q \in Package /\ v \in PackageVersion
      /\ q.review_version = p.review_version + 1 /\ q.fields = new.fields
      /\ q.status = IF s.copy.status = new.status THEN p.status ELSE new.status
  <2>1. /\ new.status \in PackageStatuses /\ p.status \in PackageStatuses
        /\ new.review_version \in Nat /\ new.fields \in Nat /\ p.fields \in Nat
    BY <1>3, <1>5 DEF Package
  <2>2. s.op # "EDIT" => new.fields = p.fields
    BY <1>5, <1>7
  <2>3. q \in Package /\ q.review_version = new.review_version /\ q.fields = new.fields
        /\ q.status = IF s.copy.status = new.status THEN p.status ELSE new.status
    BY <1>3, <1>q, <2>1, <2>2 DEF Package
  <2>4. v \in PackageVersion
    BY <2>1 DEF PackageVersion
  <2> QED BY <1>5, <1>7, <2>3, <2>4
<1>9. q.status = new.status \/ q.status \in Passing
  BY <1>2, <1>4, <1>7, <1>8 DEF Agrees, Passing
<1>10. Agrees(v, q) /\ q.status # "ABSENT"
  BY <1>2, <1>5, <1>7, <1>8, <1>9 DEF Agrees, Passing, Judgements
<1>11. ASSUME q.status = "APPROVED"
       PROVE  e.version = p.review_version /\ e.status = "PENDING" /\ e.fields = q.fields
  <2>1. s.op # "EDIT"
    BY <1>5, <1>9, <1>11 DEF Passing
  <2> QED BY <1>2, <1>4, <1>5, <1>7, <1>8, <2>1 DEF Agrees, Passing
<1>12. Sounder(p, H, q, H \cup {v})
  BY <1>3, <1>7, <1>8, <1>10, <1>11, EnteringIsSound
<1>13. /\ package' = [package EXCEPT ![g] = q]
       /\ packageVersions' = [packageVersions EXCEPT ![g] = H \cup {v}]
  BY <1>2, <1>n, <1>q DEF ReviewPackage, RecordVersion, PackagesInv, PackagesTypeOK
<1>14. OthersStay(o) /\ SessionFine(session[o])'
  BY EndEffect, OtherIsFine DEF ReviewPackage, PackageOps
<1> QED BY <1>2, <1>7, <1>10, <1>12, <1>13, <1>14, WritingKeepsInv

(* A request supersedes the latest package and queues the next in one      *)
(* commit.                                                                 *)
LEMMA RequestPackageKeeps ==
  ASSUME PackagesInv, Shaped, NEW o \in Actors, RequestPackage(o)
  PROVE  PackagesInv'
<1> DEFINE s == session[o]
           g == s.latest
           next == g + 1
           p == package[g]
           H == packageVersions[g]
           first == [version |-> 1, status |-> "QUEUED", fields |-> 0]
           v == [version |-> s.copy.review_version + 1, status |-> "STALE",
                 fields |-> s.copy.fields]
<1>1. RequestFine(s) /\ s.at = "loaded"
  BY DEF RequestPackage, At, PackagesInv, SessionFine
<1>2. /\ g \in 0..MaxPackages /\ s.copy \in Package /\ MaxPackages \in Nat \ {0}
      /\ CopyEntered(s)
  BY <1>1, PackagesAssumption DEF RequestFine
<1>3. CASE ~Adds(s)
  <2>1. session'[o] = [s EXCEPT !.at = "requested"] /\ OthersStay(o) /\ UNCHANGED packageRows
    BY <1>3, GotoEffect DEF RequestPackage
  <2>2. PICK t : t = session'[o]
    OBVIOUS
  <2>3. /\ t \in [op : {"PACKAGE"}, at : {"loaded", "requested"}, message : {NoMessage},
                  latest : 0..MaxPackages, copy : Package, rerun : BOOLEAN]
        /\ t.op = "PACKAGE" /\ t.at = "requested"
    BY <1>1, <2>1, <2>2 DEF RequestFine
  <2>4. SessionFine(session[o])'
    BY <2>2, <2>3 DEF SessionFine, RequestFine, Judgements
  <2> QED BY <2>1, <2>4, ReadingKeepsInv
<1>4. CASE Adds(s)
  <2>1. next \in Generations /\ next # g
    <3>1. s.rerun => g < MaxPackages
      BY <1>1 DEF RequestFine
    <3>2. g = 0 \/ g < MaxPackages
      BY <1>4, <3>1, Zenon DEF Adds
    <3> QED BY <1>2, <3>2 DEF Generations
  <2>2. g # 0 => g \in Generations
    BY <1>2 DEF Generations
  <2>3. ~Collides(s)
    BY <1>4 DEF RequestPackage
  <2>4. package[next].status = "ABSENT"
    BY <2>3 DEF Collides
  <2>5. \A h \in Generations : package[h] \in Package /\ Sound(package[h], packageVersions[h])
    BY DEF PackagesInv, PackagesTypeOK
  <2>a. package'[next] = QueuedPackage
    BY <1>4, <2>1 DEF RequestPackage
  <2>b. packageVersions'[next] = {first}
    BY <1>4, <2>1 DEF RequestPackage
  <2>c. \A h \in Generations \ {g, next} : package'[h] = package[h]
    BY <1>4 DEF RequestPackage
  <2>d. \A h \in Generations \ {g, next} : packageVersions'[h] = packageVersions[h]
    BY <1>4 DEF RequestPackage
  <2>6. /\ package'[next] = QueuedPackage /\ packageVersions'[next] = {first}
        /\ \A h \in Generations \ {g, next} :
             package'[h] = package[h] /\ packageVersions'[h] = packageVersions[h]
    BY <2>a, <2>b, <2>c, <2>d
  <2>7. /\ package' = [h \in Generations |-> package'[h]]
        /\ packageVersions' = [h \in Generations |-> packageVersions'[h]]
    BY <1>4 DEF RequestPackage
  <2>8. Sounder(package[next], packageVersions[next], package'[next], packageVersions'[next])
    BY <2>1, <2>4, <2>5, <2>6, CreatingIsSound
  <2>9. ASSUME g # 0
        PROVE  /\ Sounder(p, H, package'[g], packageVersions'[g])
               /\ p.status # "ABSENT" /\ package'[g].status # "ABSENT"
    <3>1. PICK e \in H : Agrees(e, s.copy)
      BY <1>2, <2>9 DEF CopyEntered
    <3>2. s.copy.review_version \in Nat /\ s.copy.fields \in Nat
      BY <1>2 DEF Package
    <3>3. Renewed(s).review_version = s.copy.review_version + 1
      BY <1>2 DEF Renewed, Package
    <3>4. \A w \in H : w.version # s.copy.review_version + 1
      BY <1>2, <2>3, <2>9, <3>3 DEF Collides, Recorded
    <3>5. /\ p.review_version = s.copy.review_version /\ p.fields = s.copy.fields
          /\ p.status # "ABSENT"
      BY <1>2, <2>2, <2>5, <2>9, <3>1, <3>4, FreeMeansCurrent
    <3>a. PICK st : st = IF s.copy.status = "STALE" THEN p.status ELSE "STALE"
      OBVIOUS
    <3>b. PICK n : n = s.copy.review_version + 1
      OBVIOUS
    <3>6. PICK q : q = [p EXCEPT !.status = st, !.review_version = n]
      OBVIOUS
    <3>7. package'[g] = q /\ packageVersions'[g] = H \cup {v}
      BY <1>4, <2>1, <2>2, <2>9, <3>a, <3>b, <3>3, <3>6 DEF RequestPackage
    <3>8. p \in Package /\ Sound(p, H)
      BY <2>2, <2>5, <2>9
    <3>9. s.copy.status = "STALE" => p.status \in Passing
      BY <1>2, <2>9, <3>5 DEF CopyEntered
    <3>10. /\ q \in Package /\ q.status \in Passing /\ q.fields = p.fields
           /\ q.review_version = p.review_version + 1
      <4>1. st \in Passing /\ st \in PackageStatuses
        BY <3>9, <3>a DEF Passing, PackageStatuses
      <4>2. /\ q \in Package /\ q.status = st /\ q.fields = p.fields
            /\ q.review_version = n
        <5>1. n \in Nat
          BY <3>2, <3>b
        <5> QED BY <3>6, <3>8, <4>1, <5>1 DEF Package
      <4> QED BY <3>5, <3>b, <4>1, <4>2
    <3>11. v \in PackageVersion /\ Agrees(v, q)
      BY <3>2, <3>5, <3>10 DEF PackageVersion, PackageStatuses, Agrees
    <3>12. q.status # "ABSENT" /\ q.status # "APPROVED"
      BY <3>10 DEF Passing
    <3> QED BY <3>5, <3>7, <3>8, <3>10, <3>11, <3>12, EnteringIsSound
  <2>10. RowsAdvance
    <3> SUFFICES ASSUME NEW h \in Generations
                 PROVE  Sounder(package[h], packageVersions[h],
                                package'[h], packageVersions'[h])
      BY DEF RowsAdvance
    <3>1. CASE h = next
      BY <2>8, <3>1
    <3>2. CASE h = g
      BY <1>2, <2>9, <3>2 DEF Generations
    <3>3. CASE h \notin {g, next}
      BY <2>5, <2>6, <3>3, SameIsSound
    <3> QED BY <3>1, <3>2, <3>3
  <2>11. Numbered'
    <3>1. PICK n \in 0..MaxPackages : Newest(n)
      BY DEF PackagesInv, Numbered
    <3>2. n = g
      BY <1>2, <2>1, <2>2, <2>4, <2>9, <3>1 DEF Newest, Generations
    <3>3. \A h \in Generations : package'[h].status # "ABSENT" <=> h <= next
      BY <1>2, <2>6, <2>9, <3>1, <3>2 DEF Newest, Generations, QueuedPackage
    <3> QED BY <2>1, <3>3 DEF Numbered, Newest, Generations
  <2>12. session'[o] = [s EXCEPT !.at = "requested", !.copy = QueuedPackage] /\ OthersStay(o)
    BY <1>4 DEF RequestPackage, Shaped, OthersStay
  <2>13. SessionFine(session[o])'
    <3>1. PICK t : t = session'[o]
      OBVIOUS
    <3>2. /\ t \in [op : {"PACKAGE"}, at : {"requested"}, message : {NoMessage},
                    latest : 0..MaxPackages, copy : {QueuedPackage}, rerun : BOOLEAN]
      BY <1>1, <2>12, <3>1 DEF RequestFine
    <3>3. QueuedPackage \in Package
      BY DEF QueuedPackage, Package, PackageStatuses
    <3> QED BY <3>1, <3>2, <3>3 DEF SessionFine, RequestFine, Judgements
  <2> QED BY <2>7, <2>10, <2>11, <2>12, <2>13, StepKeepsInv
<1> QED BY <1>3, <1>4

(* A corrected clip makes every package STALE under its version.           *)
LEMMA OutdatingKeeps ==
  ASSUME PackagesInv, package' = Outdated, UNCHANGED packageVersions,
         NEW a \in Actors, OthersStay(a), RowsAdvance => SessionFine(session[a])'
  PROVE  PackagesInv'
<1>1. \A g \in Generations : package[g] \in Package /\ Sound(package[g], packageVersions[g])
  BY DEF PackagesInv, PackagesTypeOK
<1>2. ASSUME NEW g \in Generations
      PROVE  /\ Sounder(package[g], packageVersions[g], package'[g], packageVersions'[g])
             /\ package'[g].status = "ABSENT" <=> package[g].status = "ABSENT"
  <2>1. CASE package[g].status = "ABSENT"
    BY <1>1, <2>1, SameIsSound DEF Outdated
  <2>2. CASE package[g].status # "ABSENT"
    <3>1. package'[g] = [package[g] EXCEPT !.status = "STALE"]
      BY <2>2 DEF Outdated
    <3>2. package'[g].status = "STALE"
      BY <1>1, <3>1 DEF Package
    <3> QED BY <1>1, <2>2, <3>1, <3>2, PassingIsSound DEF Passing
  <2> QED BY <2>1, <2>2
<1>3. RowsAdvance
  BY <1>2 DEF RowsAdvance
<1>4. Numbered'
  BY <1>2 DEF PackagesInv, Numbered, Newest
<1>5. /\ package' = [g \in Generations |-> package'[g]]
      /\ packageVersions' = [g \in Generations |-> packageVersions'[g]]
  BY DEF Outdated, PackagesInv
<1> QED BY <1>3, <1>4, <1>5, StepKeepsInv

LEMMA SelectRevisionKeeps ==
  ASSUME PackagesInv, Shaped, NEW o \in Actors, SelectRevision(o)
  PROVE  PackagesInv'
<1>1. session'[o].op \notin PackageOps /\ OthersStay(o)
  BY DEF SelectRevision, Free, Idle, PackageOps, OthersStay
<1> QED BY <1>1, OtherIsFine, OutdatingKeeps DEF SelectRevision

-----------------------------------------------------------------------------
(* The component as a whole.                                               *)

LEMMA PackagesInitially ==
  ASSUME PackagesInit, \A a \in Actors : session[a] = Idle
  PROVE  PackagesInv
<1>1. NoPackage \in Package
  BY DEF NoPackage, Package, PackageStatuses
<1>2. Sound(NoPackage, {})
  BY DEF Sound, Gapless, NoPackage
<1>3. Newest(0)
  BY DEF PackagesInit, Newest, NoPackage, Generations
<1>4. Numbered
  BY <1>3, PackagesAssumption DEF Numbered
<1>5. \A a \in Actors : SessionFine(session[a])
  BY DEF SessionFine, Idle, Judgements
<1> QED BY <1>1, <1>2, <1>4, <1>5 DEF PackagesInit, PackagesInv, PackagesTypeOK

(* Every step of the component. *)
LEMMA PackagesStep ==
  ASSUME PackagesInv, Shaped, NEW a \in Actors,
         PackagesHandler(a) \/ WriteUp(a) \/ TakePackage(a)
  PROVE  PackagesInv'
<1>1. ASSUME NEW rerun \in BOOLEAN, LoadForPackage(a, rerun) PROVE PackagesInv'
  BY <1>1, LoadForPackageKeeps
<1>2. CASE RequestPackage(a)
  BY <1>2, RequestPackageKeeps
<1>3. CASE RequestCollides(a) \/ LeavePackage(a) \/ ReviewCollides(a) \/ SendPackage(a)
  BY <1>3, EndingKeeps DEF RequestCollides, LeavePackage, ReviewCollides, SendPackage
<1>4. ASSUME NEW g \in Generations, NEW op \in Judgements, LoadForPackageReview(a, g, op)
      PROVE  PackagesInv'
  BY <1>4, LoadForPackageReviewKeeps
<1>5. CASE ReviewPackage(a)
  BY <1>5, ReviewPackageKeeps
<1>6. CASE SelectRevision(a)
  BY <1>6, SelectRevisionKeeps
<1>7. CASE FirstPackage(a)
  BY <1>7, FirstPackageKeeps
<1>8. CASE StartPackage(a)
  BY <1>8, StartPackageKeeps
<1>9. CASE WritePackage(a)
  BY <1>9, WritePackageKeeps
<1>10. CASE PackageFails(a)
  BY <1>10, PackageFailsKeeps
<1>11. CASE TakePackage(a)
  BY <1>11, TakePackageKeeps
<1> QED BY <1>1, <1>2, <1>3, <1>4, <1>5, <1>6, <1>7, <1>8, <1>9, <1>10, <1>11
        DEF PackagesHandler, WriteUp, Judgements

(* A step that leaves the rows, and begins or changes only sessions of     *)
(* other operations.                                                       *)
LEMMA PackagesUntouched ==
  ASSUME PackagesInv, UNCHANGED packageRows, NEW Ops, Confined(Ops),
         (Ops \cup {"IDLE"}) \cap PackageOps = {}
  PROVE  PackagesInv'
<1>1. package' = package /\ packageVersions' = packageVersions
  BY DEF packageRows
<1>2. ASSUME NEW a \in Actors PROVE SessionFine(session[a])'
  <2>1. CASE session'[a] = session[a]
    BY <1>1, <2>1
    DEF PackagesInv, SessionFine, RequestFine, WriteFine, ReviewFine, CopyEntered
  <2>2. CASE session'[a] # session[a]
    BY <2>2, OtherIsFine DEF Confined
  <2> QED BY <2>1, <2>2
<1> QED BY <1>1, <1>2 DEF PackagesInv, PackagesTypeOK, Numbered, Newest

(* History has as many entries as versions. *)
LEMMA GaplessIsCounted ==
  ASSUME NEW p \in Package, NEW H, Gapless(p, H)
  PROVE  /\ {v.version : v \in H} = 1..p.review_version
         /\ Cardinality(H) = p.review_version
<1> DEFINE n == p.review_version
           f == [m \in 1..n |-> CHOOSE v \in H : v.version = m]
<1>1. n \in Nat
  BY DEF Package
<1>2. \A m \in 1..n : f[m] \in H /\ f[m].version = m
  BY DEF Gapless
<1>3. \A v \in H : v.version \in 1..n /\ f[v.version] = v
  BY <1>2 DEF Gapless
<1>4. f \in Bijection(1..n, H)
  <2>1. f \in [1..n -> H]
    BY <1>2
  <2>2. \A a, b \in 1..n : f[a] = f[b] => a = b
    BY <1>2
  <2>3. \A v \in H : \E m \in 1..n : f[m] = v
    BY <1>3
  <2> HIDE DEF f
  <2> QED BY <2>1, <2>2, <2>3 DEF Bijection, Injection, Surjection, IsInjective
<1>5. IsFiniteSet(1..n) /\ Cardinality(1..n) = n
  BY <1>1, FS_Interval
<1>6. Cardinality(H) = n
  BY <1>4, <1>5, FS_Bijection DEF ExistsBijection
<1>7. {v.version : v \in H} = 1..n
  BY <1>2, <1>3
<1> QED BY <1>6, <1>7

(* The invariant implies what is claimed of packages. *)
LEMMA PackagesInvIsEnough ==
  ASSUME PackagesInv
  PROVE  PackagesTypeOK /\ PackageHistory /\ ReviewedIsApproved
<1>1. \A g \in Generations : package[g] \in Package /\ Sound(package[g], packageVersions[g])
  BY DEF PackagesInv, PackagesTypeOK
<1>2. ASSUME NEW g \in Generations
      PROVE  /\ {v.version : v \in packageVersions[g]} = 1..package[g].review_version
             /\ Cardinality(packageVersions[g]) = package[g].review_version
  BY <1>1, GaplessIsCounted DEF Sound
<1>3. ASSUME NEW g \in Generations, package[g].review_version > 0
      PROVE  \E v \in packageVersions[g] :
                /\ v.version = package[g].review_version /\ v.fields = package[g].fields
                /\ v.status = package[g].status \/ package[g].status \in {"GENERATING", "STALE"}
  BY <1>1, <1>3 DEF Sound, Agrees, Passing
<1>4. PackageHistory
  BY <1>2, <1>3 DEF PackageHistory
<1>5. ReviewedIsApproved
  BY <1>1 DEF Sound, Approves, ReviewedIsApproved
<1> QED BY <1>4, <1>5 DEF PackagesInv

-----------------------------------------------------------------------------
(* Holds on media.                                                         *)

MediaOps == {"CLEANUP", "INSPECTION", "UNINSPECT", "INSPECT", "INSPECTED"}

(* What a copy that is not behind the row tells of the hold: whether there *)
(* is one, to a pass; an inspection that found none has none until it      *)
(* starts, and its own from then on, on which an operator may have placed  *)
(* another; and a pass that deletes found none.                            *)
CopyTells(s, current) ==
    /\ s.op = "CLEANUP" =>
          /\ current => (s.asset.hold = "NONE" <=> asset.hold = "NONE")
          /\ s.at \in {"deleting", "recording"} => s.asset.hold = "NONE"
    /\ s.op = "INSPECT" /\ current /\ s.at \notin {"loaded", "requested"} =>
          \/ s.held
          \/ s.at = "starting" /\ asset.hold = "NONE"
          \/ s.at # "starting" /\ asset.hold \in {"INSPECTION", "BOTH"}

MediaInv ==
    /\ MediaTypeOK
    /\ \A a \in Actors : CopyTells(session[a], a \notin behind)

-----------------------------------------------------------------------------
(* The sessions.                                                           *)

LEMMA MediaMoves ==
  ASSUME Shaped, NEW a \in Actors,
         MediaHandler(a) \/ Inspect(a) \/ CleanUp(a) \/ TakeInspection(a) \/ TakeCleanup(a)
  PROVE  Moves(a, MediaOps)
<1>1. CASE TakeInspection(a) \/ TakeCleanup(a)
  BY <1>1, BeginMoves DEF TakeInspection, TakeCleanup, Receive, Requesting, Pass, MediaOps
<1>2. CASE CallCleanup(a) \/ LoadForCancelling(a) \/ LoadMedia(a)
  BY <1>2, BeginMoves DEF CallCleanup, Pass, LoadForCancelling, LoadMedia, MediaOps
<1>3. ASSUME NEW rerun \in BOOLEAN, LoadForInspection(a, rerun)
      PROVE  Moves(a, MediaOps)
  BY <1>3, BeginMoves DEF LoadForInspection, Requesting, MediaOps
<1>4. CASE IssueGrant(a) \/ AccessMedia(a) \/ ExtendRetention(a) \/ DecideClip(a)
           \/ \E enabled \in BOOLEAN : SetHold(a, enabled)
  BY <1>4, StayMoves DEF IssueGrant, AccessMedia, ExtendRetention, DecideClip, SetHold
<1>5. CASE \/ InspectionExists(a) \/ SendInspection(a) \/ CancelInspection(a)
           \/ DeletionFails(a) \/ RecordDeletion(a)
  BY <1>5, EndMoves
  DEF InspectionExists, SendInspection, CancelInspection, DeletionFails, RecordDeletion,
      EndInException
<1>6. CASE Judge(a) \/ DeleteFile(a)
  BY <1>6, GotoMoves, EndMoves DEF Judge, DeleteFile, At, MediaOps
<1>7. CASE RequestInspection(a)
  BY <1>7 DEF RequestInspection, At, MediaOps, Moves, Shaped, OthersStay, Confined
<1>8. CASE StartInspection(a) \/ OpenMedia(a) \/ Stage(a)
  BY <1>8, GotoMoves, EndMoves
  DEF StartInspection, OpenMedia, Stage, EndInException, At, MediaOps
<1>9. ASSUME NEW outcome \in {"COMPLETED", "FAILED"}, EndInspection(a, outcome)
      PROVE  Moves(a, MediaOps)
  BY <1>9, GotoMoves DEF EndInspection, At, MediaOps
<1>10. CASE Release(a)
  BY <1>10, BeginMoves, EndMoves DEF Release, EndInException, Completed, MediaOps
<1>11. CASE RequestInTask(a)
  <2>1. CASE End(a) \/ Goto(a, "requested") \/ Begin(a, Completed)
    BY <1>11, <2>1, BeginMoves, GotoMoves, EndMoves
    DEF RequestInTask, Completed, At, MediaOps
  <2>2. CASE session' = [session EXCEPT ![a].at = "requested", ![a].latest = @ + 1]
    BY <1>11, <2>2 DEF RequestInTask, At, MediaOps, Moves, Shaped, OthersStay, Confined
  <2> QED BY <1>11, <2>1, <2>2 DEF RequestInTask, EndInException
<1> QED BY <1>1, <1>2, <1>3, <1>4, <1>5, <1>6, <1>7, <1>8, <1>9, <1>10, <1>11
        DEF MediaHandler, Inspect, CleanUp

-----------------------------------------------------------------------------
(* What a step has to show to keep the invariant: its own copy, and that   *)
(* it puts the other copies behind, or leaves the hold alone, or places an *)
(* operator's hold on top of an inspection's.                              *)
HoldStays ==
    \/ asset'.hold = asset.hold
    \/ asset.hold = "INSPECTION" /\ asset'.hold = "BOTH"

LEMMA StepKeepsMedia ==
  ASSUME MediaInv, NEW a \in Actors, OthersStay(a), MediaTypeOK',
         CopyTells(session[a], a \notin behind)',
         \/ \E row : Write(a, row)
         \/ HoldStays /\ behind \ {a} \subseteq behind'
  PROVE  MediaInv'
<1>1. ASSUME NEW b \in Actors \ {a} PROVE CopyTells(session[b], b \notin behind)'
  <2>1. PICK s : s = session[b]
    OBVIOUS
  <2>2. session'[b] = s /\ CopyTells(s, b \notin behind)
    BY <2>1 DEF OthersStay, MediaInv
  <2>3. CASE \E row : Write(a, row)
    BY <2>1, <2>2, <2>3 DEF CopyTells, Write, HasCopy
  <2>4. CASE HoldStays /\ behind \ {a} \subseteq behind'
    BY <2>2, <2>4 DEF CopyTells, HoldStays
  <2> QED BY <2>3, <2>4
<1> QED BY <1>1 DEF MediaInv

LEMMA OtherTellsNothing ==
  ASSUME NEW a \in Actors, session'[a].op \notin {"CLEANUP", "INSPECT"}
  PROVE  CopyTells(session[a], a \notin behind)'
  BY DEF CopyTells

-----------------------------------------------------------------------------
(* The steps.                                                              *)

(* What handlers do without a session of their own.                        *)
LEMMA CallsKeepMedia ==
  ASSUME MediaInv, Shaped, NEW a \in Actors,
         \/ IssueGrant(a) \/ AccessMedia(a) \/ ExtendRetention(a) \/ DecideClip(a)
         \/ \E enabled \in BOOLEAN : SetHold(a, enabled)
  PROVE  MediaInv'
<1>1. OthersStay(a) /\ session'[a].op \notin {"CLEANUP", "INSPECT"}
  <2>1. session' = session /\ session[a] = Idle
    BY Zenon DEF IssueGrant, AccessMedia, ExtendRetention, DecideClip, SetHold, Free
  <2> QED BY <2>1 DEF Idle, OthersStay
<1>2. asset' \in Asset
  <2>1. asset \in Asset
    BY DEF MediaInv, MediaTypeOK
  <2>2. CASE IssueGrant(a) \/ AccessMedia(a) \/ ExtendRetention(a) \/ DecideClip(a)
    BY <2>1, <2>2 DEF Asset, IssueGrant, AccessMedia, ExtendRetention, DecideClip, Write
  <2>3. ASSUME NEW enabled \in BOOLEAN, SetHold(a, enabled)
        PROVE  asset' \in Asset
    <3>1. \/ asset' = [asset EXCEPT !.hold = "OPERATOR"] \/ asset' = [asset EXCEPT !.hold = "NONE"]
          \/ asset' = [asset EXCEPT !.hold = "BOTH"]
      BY <2>3 DEF SetHold, Write
    <3> QED BY <2>1, <3>1 DEF Asset
  <2> QED BY <2>2, <2>3
<1>3. MediaTypeOK'
  BY <1>2 DEF MediaInv, MediaTypeOK, IssueGrant, AccessMedia, ExtendRetention, DecideClip,
              SetHold, Write, clipRows
<1>4. \/ \E row : Write(a, row)
      \/ HoldStays /\ behind \ {a} \subseteq behind'
  <2>1. CASE IssueGrant(a) \/ AccessMedia(a) \/ ExtendRetention(a) \/ DecideClip(a)
    BY <2>1 DEF IssueGrant, AccessMedia, ExtendRetention, DecideClip, HoldStays
  <2>2. CASE asset.hold = "INSPECTION" /\ asset' = [asset EXCEPT !.hold = "BOTH"]
             /\ UNCHANGED behind
    BY <2>2 DEF MediaInv, MediaTypeOK, Asset, HoldStays
  <2> QED BY <2>1, <2>2 DEF SetHold
<1> QED BY <1>1, <1>3, <1>4, OtherTellsNothing, StepKeepsMedia

(* What begins, ends or goes on with a request for an inspection.          *)
LEMMA RequestsKeepMedia ==
  ASSUME MediaInv, Shaped, NEW a \in Actors,
         \/ RequestInspection(a) \/ InspectionExists(a) \/ SendInspection(a)
         \/ LoadForCancelling(a) \/ CancelInspection(a)
         \/ \E rerun \in BOOLEAN : LoadForInspection(a, rerun)
  PROVE  MediaInv'
<1>1. OthersStay(a)
  BY MediaMoves DEF Moves, MediaHandler
<1>2. session'[a].op \notin {"CLEANUP", "INSPECT"}
  BY DEF RequestInspection, InspectionExists, SendInspection, LoadForCancelling, CancelInspection,
         LoadForInspection, Requesting, Begin, End, Idle, At, Shaped
<1>3. inspection' \in [Inspections -> InspectionStatuses]
  BY DEF MediaInv, MediaTypeOK, RequestInspection, InspectionExists, SendInspection,
         LoadForCancelling, CancelInspection, LoadForInspection, AddInspection, mediaRows,
         InspectionStatuses
<1>4. UNCHANGED <<asset, file, clipRows, behind>>
  BY DEF RequestInspection, InspectionExists, SendInspection, LoadForCancelling, CancelInspection,
         LoadForInspection, mediaRows, clipRows
<1>5. MediaTypeOK'
  BY <1>3, <1>4 DEF MediaInv, MediaTypeOK, clipRows
<1> QED BY <1>1, <1>2, <1>4, <1>5, OtherTellsNothing, StepKeepsMedia DEF HoldStays

(* The retention pass. *)
LEMMA PassesKeepMedia ==
  ASSUME MediaInv, Shaped, NEW a \in Actors, CleanUp(a) \/ TakeCleanup(a) \/ CallCleanup(a)
  PROVE  MediaInv'
<1>1. OthersStay(a)
  BY MediaMoves DEF Moves, MediaHandler
<1>2. asset' \in Asset /\ behind' \subseteq Actors
  BY DEF MediaInv, MediaTypeOK, Asset, CleanUp, TakeCleanup, CallCleanup, Judge, DeleteFile,
         DeletionFails, RecordDeletion, Write, Reload
<1>3. MediaTypeOK'
  BY <1>2 DEF MediaInv, MediaTypeOK, CleanUp, TakeCleanup, CallCleanup, Judge, DeleteFile,
              DeletionFails, RecordDeletion, clipRows
<1>4. \/ \E row : Write(a, row)
      \/ HoldStays /\ behind \ {a} \subseteq behind'
  BY DEF CleanUp, TakeCleanup, CallCleanup, Judge, DeleteFile, DeletionFails, RecordDeletion,
         Reload, HoldStays
<1>5. CopyTells(session[a], a \notin behind)'
  <2>1. CASE TakeCleanup(a) \/ CallCleanup(a)
    BY <2>1 DEF TakeCleanup, CallCleanup, Receive, Begin, Pass, Shaped, CopyTells
  <2>2. CASE End(a)
    BY <2>2, EndEffect, OtherTellsNothing
  <2>3. CASE Judge(a) /\ ~End(a)
    <3>1. PICK s : s = session[a]
      OBVIOUS
    <3>2. /\ session'[a] = [s EXCEPT !.at = "deleting"]
          /\ s.op = "CLEANUP" /\ s.asset.hold = "NONE" /\ UNCHANGED <<asset, behind>>
      BY <2>3, <3>1 DEF Judge, Goto, Shaped, At, Deletable
    <3>3. CopyTells(s, a \notin behind)
      BY <3>1 DEF MediaInv
    <3>4. /\ session'[a].op = "CLEANUP" /\ session'[a].asset = s.asset
      BY <3>1, <3>2 DEF Shaped
    <3> QED BY <3>2, <3>3, <3>4 DEF CopyTells
  <2>4. CASE DeleteFile(a)
    <3>1. PICK s : s = session[a]
      OBVIOUS
    <3>2. /\ session'[a] = [s EXCEPT !.at = "recording"]
          /\ s.op = "CLEANUP" /\ s.at = "deleting" /\ UNCHANGED <<asset, behind>>
      BY <2>4, <3>1 DEF DeleteFile, Goto, Shaped, At
    <3>3. CopyTells(s, a \notin behind)
      BY <3>1 DEF MediaInv
    <3>4. /\ session'[a].op = "CLEANUP" /\ session'[a].asset = s.asset
      BY <3>1, <3>2 DEF Shaped
    <3> QED BY <3>2, <3>3, <3>4 DEF CopyTells
  <2>5. CASE DeletionFails(a) \/ RecordDeletion(a)
    BY <2>2, <2>5 DEF DeletionFails, RecordDeletion, EndInException
  <2> QED BY <2>1, <2>2, <2>3, <2>4, <2>5 DEF CleanUp
<1> QED BY <1>1, <1>3, <1>4, <1>5, StepKeepsMedia
(* The inspection. *)
LEMMA InspectionsKeepMedia ==
  ASSUME MediaInv, Shaped, NEW a \in Actors, Inspect(a) \/ TakeInspection(a)
  PROVE  MediaInv'
<1>1. OthersStay(a)
  BY MediaMoves DEF Moves
<1>2. asset \in Asset /\ asset' \in Asset /\ behind' \subseteq Actors
  BY DEF MediaInv, MediaTypeOK, Asset, Inspect, TakeInspection, RequestInTask, LoadMedia,
         StartInspection, OpenMedia, Stage, EndInspection, Release, Write, Reload, mediaRows
<1>3. inspection' \in [Inspections -> InspectionStatuses]
  <2>1. CASE RequestInTask(a)
    BY <2>1 DEF MediaInv, MediaTypeOK, RequestInTask, AddInspection, InspectionStatuses
  <2>2. CASE ~RequestInTask(a)
    BY <2>2
    DEF MediaInv, MediaTypeOK, Inspect, TakeInspection, LoadMedia, StartInspection, OpenMedia,
        Stage, EndInspection, Release, mediaRows, InspectionStatuses
  <2> QED BY <2>1, <2>2
<1>4. UNCHANGED <<file, clipRows>>
  BY DEF Inspect, TakeInspection, RequestInTask, LoadMedia, StartInspection, OpenMedia, Stage,
         EndInspection, Release, mediaRows, clipRows
<1>5. MediaTypeOK'
  BY <1>2, <1>3, <1>4 DEF MediaInv, MediaTypeOK, clipRows
<1>6. \/ \E row : Write(a, row)
      \/ HoldStays /\ behind \ {a} \subseteq behind'
  BY DEF Inspect, TakeInspection, RequestInTask, LoadMedia, StartInspection, OpenMedia, Stage,
         EndInspection, Release, Reload, mediaRows, HoldStays
<1>7. CopyTells(session[a], a \notin behind)'
  <2>1. PICK s : s = session[a]
    OBVIOUS
  <2>2. CopyTells(s, a \notin behind)
    BY <2>1 DEF MediaInv
  <2>3. CASE End(a)
    BY <2>3, EndEffect, OtherTellsNothing
  <2>4. CASE Begin(a, Completed)
    BY <2>4, BeginEffect, OtherTellsNothing DEF Completed
  <2>5. CASE TakeInspection(a)
    BY <2>5 DEF TakeInspection, Receive, Begin, Requesting, Shaped, CopyTells
  <2>6. CASE RequestInTask(a)
    <3>1. CASE session'[a].at = "requested" /\ session'[a].op = "INSPECT"
      BY <3>1 DEF CopyTells
    <3>2. CASE Goto(a, "requested")
      BY <2>6, <3>1, <3>2 DEF RequestInTask, Goto, At, Shaped
    <3>3. CASE session' = [session EXCEPT ![a].at = "requested", ![a].latest = @ + 1]
      BY <2>6, <3>1, <3>3 DEF RequestInTask, At, Shaped
    <3> QED BY <2>3, <2>4, <2>6, <3>2, <3>3 DEF RequestInTask, EndInException
  <2>7. CASE LoadMedia(a)
    BY <1>2, <2>7 DEF LoadMedia, Begin, Shaped, WasHeld, CopyTells, Asset
  <2>8. CASE StartInspection(a) /\ ~End(a)
    <3>1. /\ session'[a] = [s EXCEPT !.at = "opening"] /\ s.op = "INSPECT" /\ s.at = "starting"
      BY <2>1, <2>8 DEF StartInspection, EndInException, Goto, At, Shaped
    <3>2. session'[a].op = "INSPECT" /\ session'[a].at = "opening" /\ session'[a].held = s.held
      BY <2>1, <3>1 DEF Shaped
    <3>3. CASE s.held
      BY <3>2, <3>3 DEF CopyTells
    <3>4. CASE ~s.held
      <4>1. asset' = [asset EXCEPT !.hold = "INSPECTION"]
        BY <2>1, <2>8, <3>4 DEF StartInspection, EndInException, Write
      <4>2. asset'.hold = "INSPECTION"
        BY <1>2, <4>1 DEF Asset
      <4> QED BY <3>2, <4>2 DEF CopyTells
    <3> QED BY <3>3, <3>4
  <2>9. ASSUME NEW place, place \notin {"loaded", "requested", "starting"}, Goto(a, place),
               s.op = "INSPECT", s.at \notin {"loaded", "requested", "starting"},
               UNCHANGED <<asset, behind>>
        PROVE  CopyTells(session[a], a \notin behind)'
    <3>1. /\ session'[a].op = "INSPECT" /\ session'[a].at = place
          /\ session'[a].held = s.held
      BY <2>1, <2>9 DEF Goto, Shaped
    <3> QED BY <2>2, <2>9, <3>1 DEF CopyTells
  <2>10. CASE OpenMedia(a)
    BY <2>1, <2>9, <2>10 DEF OpenMedia, At, mediaRows
  <2>11. CASE Stage(a)
    BY <2>1, <2>9, <2>11 DEF Stage, At, mediaRows
  <2>12. ASSUME NEW outcome \in {"COMPLETED", "FAILED"}, EndInspection(a, outcome)
         PROVE  CopyTells(session[a], a \notin behind)'
    BY <2>1, <2>9, <2>12 DEF EndInspection, At
  <2>13. CASE StartInspection(a) \/ Release(a)
    BY <2>3, <2>4, <2>8, <2>13 DEF Release, EndInException
  <2> QED BY <2>5, <2>6, <2>7, <2>10, <2>11, <2>12, <2>13 DEF Inspect
<1> QED BY <1>1, <1>5, <1>6, <1>7, StepKeepsMedia
-----------------------------------------------------------------------------
(* The component as a whole.                                               *)

LEMMA MediaInitially ==
  ASSUME MediaInit, \A a \in Actors : session[a] = Idle
  PROVE  MediaInv
  BY DEF MediaInit, MediaInv, MediaTypeOK, Asset, InspectionStatuses, CopyTells, Idle

(* Every step of the component, and of time.                               *)
LEMMA MediaStep ==
  ASSUME MediaInv, Shaped, NEW a \in Actors,
         MediaHandler(a) \/ Inspect(a) \/ CleanUp(a) \/ TakeInspection(a) \/ TakeCleanup(a)
  PROVE  MediaInv'
  BY CallsKeepMedia, RequestsKeepMedia, PassesKeepMedia, InspectionsKeepMedia DEF MediaHandler

LEMMA MediaTimeStep ==
  ASSUME MediaInv, MediaTime
  PROVE  MediaInv'
<1>1. asset' \in Asset /\ asset'.hold = asset.hold
  <2>1. asset \in Asset
    BY DEF MediaInv, MediaTypeOK
  <2>2. asset' = asset \/ asset' = [asset EXCEPT !.due = TRUE]
    BY DEF MediaTime, GrantEnds, DeadlinePasses, PublishingMoves
  <2> QED BY <2>1, <2>2 DEF Asset
<1>2. MediaTypeOK'
  BY <1>1 DEF MediaInv, MediaTypeOK, MediaTime, GrantEnds, DeadlinePasses, PublishingMoves,
              clipRows
<1>3. UNCHANGED <<session, behind>>
  BY DEF MediaTime, GrantEnds, DeadlinePasses, PublishingMoves
<1> QED BY <1>1, <1>2, <1>3 DEF MediaInv, CopyTells

(* A process dies, or an exception ends what it was doing. *)
LEMMA MediaFault ==
  ASSUME MediaInv, Shaped, NEW a \in Actors,
         UNCHANGED <<asset, file, clipRows, inspection>>,
         \/ End(a) /\ Reload(a)
         \/ UNCHANGED <<session, behind>>
  PROVE  MediaInv'
<1>1. CASE End(a) /\ Reload(a)
  <2>1. OthersStay(a) /\ session'[a].op = "IDLE"
    BY <1>1, EndEffect
  <2>2. MediaTypeOK' /\ behind \ {a} \subseteq behind' /\ HoldStays
    BY <1>1 DEF MediaInv, MediaTypeOK, Reload, clipRows, HoldStays
  <2> QED BY <2>1, <2>2, OtherTellsNothing, StepKeepsMedia
<1>2. CASE UNCHANGED <<session, behind>>
  BY <1>2 DEF MediaInv, MediaTypeOK, CopyTells, clipRows
<1> QED BY <1>1, <1>2

(* A step that leaves the rows, and begins or changes only sessions of     *)
(* other operations.                                                       *)
LEMMA MediaUntouched ==
  ASSUME MediaInv, UNCHANGED mediaRows, NEW Ops, Confined(Ops),
         (Ops \cup {"IDLE"}) \cap {"CLEANUP", "INSPECT"} = {}
  PROVE  MediaInv'
<1>1. MediaTypeOK'
  BY DEF MediaInv, MediaTypeOK, mediaRows
<1>2. ASSUME NEW a \in Actors PROVE CopyTells(session[a], a \notin behind)'
  <2>1. CASE session'[a] = session[a]
    BY <2>1 DEF MediaInv, CopyTells, mediaRows
  <2>2. CASE session'[a] # session[a]
    BY <2>2, OtherTellsNothing DEF Confined
  <2> QED BY <2>1, <2>2
<1> QED BY <1>1, <1>2 DEF MediaInv

-----------------------------------------------------------------------------
(* What HoldsAreKept says of a step.                                       *)
HoldKept ==
    /\ asset.kept /\ ~asset'.kept => asset.hold = "NONE"
    /\ asset.hold = "OPERATOR" /\ asset'.hold # "OPERATOR"
         => \E o \in Operators : SetHold(o, FALSE)
    /\ asset.hold = "BOTH" /\ asset'.hold # "BOTH"
         => \/ \E o \in Operators : SetHold(o, FALSE)
            \/ \E w \in Workers : Release(w) /\ ~session[w].held

LEMMA HandlersKeepHolds ==
  ASSUME MediaInv, NEW o \in Operators, MediaHandler(o)
  PROVE  HoldKept
<1>1. asset \in Asset
  BY DEF MediaInv, MediaTypeOK
<1>2. ASSUME NEW enabled \in BOOLEAN, SetHold(o, enabled)
      PROVE  HoldKept
  <2>1. CASE enabled
    BY <1>1, <1>2, <2>1 DEF HoldKept, SetHold, Write, Asset
  <2>2. CASE ~enabled
    <3>1. SetHold(o, FALSE)
      BY <1>2, <2>2
    <3>2. asset'.kept = asset.kept
      BY <1>1, <3>1 DEF SetHold, Write, Asset
    <3> QED BY <3>1, <3>2 DEF HoldKept
  <2> QED BY <2>1, <2>2
<1>3. CASE ExtendRetention(o)
  BY <1>1, <1>3 DEF HoldKept, ExtendRetention, Write, Asset
<1>4. CASE \/ IssueGrant(o) \/ AccessMedia(o) \/ DecideClip(o) \/ CallCleanup(o)
           \/ \E rerun \in BOOLEAN : LoadForInspection(o, rerun)
           \/ RequestInspection(o) \/ InspectionExists(o) \/ SendInspection(o)
           \/ LoadForCancelling(o) \/ CancelInspection(o)
  <2>1. asset' = asset
    BY <1>4
    DEF IssueGrant, AccessMedia, DecideClip, CallCleanup, LoadForInspection, RequestInspection,
        InspectionExists, SendInspection, LoadForCancelling, CancelInspection, Write, mediaRows
  <2> QED BY <2>1 DEF HoldKept
<1> QED BY <1>2, <1>3, <1>4 DEF MediaHandler

LEMMA PassesKeepHolds ==
  ASSUME MediaInv, NEW a \in Actors, CleanUp(a)
  PROVE  HoldKept
<1>1. asset \in Asset
  BY DEF MediaInv, MediaTypeOK
<1>2. CASE UNCHANGED asset
  BY <1>2 DEF HoldKept
<1>3. CASE asset' = [asset EXCEPT !.kept = FALSE] /\ RecordDeletion(a) /\ Current(a)
  <2>1. CopyTells(session[a], TRUE)
    BY <1>3 DEF MediaInv, Current
  <2>2. asset.hold = "NONE"
    BY <1>3, <2>1 DEF CopyTells, RecordDeletion, At
  <2>3. asset'.hold = "NONE"
    BY <1>1, <1>3, <2>2 DEF Asset
  <2> QED BY <2>2, <2>3 DEF HoldKept
<1> QED BY <1>2, <1>3 DEF CleanUp, Judge, DeleteFile, DeletionFails, RecordDeletion, Write

LEMMA InspectionsKeepHolds ==
  ASSUME MediaInv, NEW a \in Workers, Inspect(a)
  PROVE  HoldKept
<1>1. asset \in Asset
  BY DEF MediaInv, MediaTypeOK
<1>2. CASE UNCHANGED asset
  BY <1>2 DEF HoldKept
<1>3. CASE \/ StartInspection(a) /\ ~session[a].held /\ Current(a)
           \/ Release(a) /\ ~session[a].held /\ Current(a)
  <2>1. a \in Actors
    BY DEF Actors
  <2>2. CopyTells(session[a], TRUE)
    BY <1>3, <2>1 DEF MediaInv, Current
  <2>3. asset' = [asset EXCEPT !.hold = "INSPECTION"] \/ asset' = [asset EXCEPT !.hold = "NONE"]
    BY <1>3 DEF StartInspection, Release, Write
  <2>4. asset'.kept = asset.kept
    BY <1>1, <2>3 DEF Asset
  <2>5. CASE StartInspection(a)
    BY <1>3, <2>2, <2>4, <2>5 DEF HoldKept, CopyTells, StartInspection, At
  <2>6. CASE Release(a) /\ ~session[a].held
    <3>1. asset.hold # "OPERATOR"
      BY <1>3, <2>2, <2>6 DEF CopyTells, Release
    <3> QED BY <2>4, <2>6, <3>1 DEF HoldKept
  <2> QED BY <1>3, <2>5, <2>6
<1>4. StartInspection(a) \/ Release(a) => UNCHANGED asset \/ (~session[a].held /\ Current(a))
  BY DEF StartInspection, Release
<1> QED BY <1>2, <1>3, <1>4
        DEF Inspect, RequestInTask, LoadMedia, OpenMedia, Stage, EndInspection, mediaRows

-----------------------------------------------------------------------------
(* Inspections and the quality reports about them. *)

ReportingOps == {"REPORT", "QUALITY", "INSPECTED"}
InspectingOps == {"INSPECT", "INSPECTED"}

(* The latest inspection, and it is complete. *)
CompletedLast(v) ==
    /\ v \in Inspections /\ inspection[v] = "COMPLETED"
    /\ \A u \in Inspections : u > v => inspection[u] = "ABSENT"

(* A task that will report this inspection, or end in an exception.        *)
Pursues(s, v) ==
    \/ /\ s.op = "INSPECT" /\ s.at = "loaded" /\ s.latest = v
       /\ s.status = "COMPLETED" /\ ~s.rerun
    \/ s.op = "INSPECT" /\ s.at = "completing" /\ s.latest = v
    \/ s.op = "INSPECTED" /\ s.at \in {"completed", "unreported"}
    \/ s.op = "INSPECTED" /\ s.at = "reported" /\ s.inspection = v

(* Nothing excuses that it is not reported: no exception, no message that  *)
(* is still to come, and not as many reports as are looked at.             *)
Owed == InspectMessage \notin lost /\ messages[InspectMessage] = 0 /\ LatestReport < MaxReports

(* The newest report is about it, and so is the next, if it is on its way. *)
Follows(s, v) ==
    s.op \in ReportingOps /\ s.at = "reported" /\ s.latest = LatestReport => s.inspection = v
Reported(v) ==
    /\ \E r \in qualityReports : r.version = LatestReport /\ r.inspection = v
    /\ \A a \in Actors : Follows(session[a], v)

(* Tasks are of their message, and a report's number is the next or one    *)
(* that is taken.                                                          *)
ReporterFine(a, s) ==
    /\ s.op \in InspectingOps =>
          /\ a \in Workers
          /\ "message" \in DOMAIN s /\ s.message = InspectMessage
          /\ s.op = "INSPECT" => "latest" \in DOMAIN s
    /\ s.op \in ReportingOps /\ s.at \in {"unreported", "reported"} =>
          s.latest \in Nat /\ s.latest <= LatestReport

ReportingInv ==
    /\ InspectMessage \in DOMAIN messages /\ messages[InspectMessage] \in Nat
    /\ inspection \in [Inspections -> InspectionStatuses]
    /\ LatestReport \in Nat /\ {r.version : r \in qualityReports} = 1..LatestReport
    /\ \A a \in Actors : ReporterFine(a, session[a])
    /\ \A v \in Inspections :
          CompletedLast(v) /\ Owed => Reported(v) \/ \E w \in Actors : Pursues(session[w], v)

(* The numbers that sessions remember: the latest inspection, the newest   *)
(* that is complete, and the latest report.                                *)
LEMMA LatestIsFound ==
  /\ LatestInspection \in 0..MaxInspections
  /\ LatestInspection > 0 =>
        LatestInspection \in Inspections /\ inspection[LatestInspection] # "ABSENT"
  /\ \A u \in (LatestInspection + 1)..MaxInspections : inspection[u] = "ABSENT"
<1> DEFINE Last(x) == /\ x > 0 => inspection[x] # "ABSENT"
                      /\ \A u \in (x + 1)..MaxInspections : inspection[u] = "ABSENT"
<1>1. MaxInspections \in Nat
  BY RetentionAssumption
<1>2. \E x \in 0..MaxInspections : Last(x)
  <2>1. PICK S : S = {x \in Inspections : inspection[x] # "ABSENT"}
    OBVIOUS
  <2>2. PICK x \in 0..MaxInspections :
           (x > 0 => x \in S) /\ \A u \in (x + 1)..MaxInspections : u \notin S
    BY <1>1, LastNumber
  <2>3. \A u \in (x + 1)..MaxInspections : u \in Inspections
    BY <1>1 DEF Inspections
  <2> QED BY <2>1, <2>2, <2>3
<1> HIDE DEF Last
<1>3. PICK v : v = CHOOSE x \in 0..MaxInspections : Last(x)
  OBVIOUS
<1>4. v \in 0..MaxInspections /\ Last(v)
  BY <1>2, <1>3
<1>5. v = LatestInspection
  BY <1>3 DEF Last, LatestInspection
<1>6. v > 0 => v \in Inspections
  BY <1>1, <1>4 DEF Inspections
<1> QED BY <1>4, <1>5, <1>6 DEF Last

LEMMA LatestIsLast ==
  ASSUME NEW v, CompletedLast(v)
  PROVE  LatestInspection = v
<1>1. MaxInspections \in Nat /\ v \in 1..MaxInspections
  BY RetentionAssumption DEF CompletedLast, Inspections
<1>2. PICK x \in 0..MaxInspections : x = LatestInspection
  BY LatestIsFound
<1>3. /\ x > 0 => x \in Inspections /\ inspection[x] # "ABSENT"
      /\ \A u \in (x + 1)..MaxInspections : inspection[u] = "ABSENT"
  BY <1>2, LatestIsFound
<1>4. CASE x < v
  BY <1>1, <1>3, <1>4 DEF CompletedLast
<1>5. CASE x > v
  BY <1>1, <1>3, <1>5 DEF CompletedLast
<1> QED BY <1>1, <1>2, <1>4, <1>5

LEMMA LastIsLatest ==
  ASSUME LatestInspection > 0, Inspected(LatestInspection) = "COMPLETED"
  PROVE  CompletedLast(LatestInspection)
<1>1. PICK v \in 0..MaxInspections : v = LatestInspection
  BY LatestIsFound
<1>2. v \in Inspections /\ \A u \in (v + 1)..MaxInspections : inspection[u] = "ABSENT"
  BY <1>1, LatestIsFound
<1>3. \A u \in Inspections : u > v => u \in (v + 1)..MaxInspections
  BY <1>1, RetentionAssumption DEF Inspections
<1>4. inspection[v] = "COMPLETED"
  BY <1>1 DEF Inspected
<1> QED BY <1>1, <1>2, <1>3, <1>4 DEF CompletedLast

LEMMA NewestIsLast ==
  ASSUME NEW v, CompletedLast(v)
  PROVE  NewestCompleted = v
<1>1. PICK S : S = {u \in Inspections : inspection[u] = "COMPLETED"} \cup {0}
  OBVIOUS
<1>2. MaxInspections \in Nat /\ v \in 1..MaxInspections
  BY RetentionAssumption DEF CompletedLast, Inspections
<1>3. v \in S /\ S \subseteq Nat
  BY <1>1, <1>2 DEF CompletedLast, Inspections
<1>4. \A u \in S : v >= u
  BY <1>1, <1>2 DEF CompletedLast, Inspections
<1>5. Max(S) = v
  <2>1. \A x \in S : (\A y \in S : x >= y) => x = v
    BY <1>3, <1>4
  <2> QED BY <1>3, <1>4, <2>1 DEF Max
<1> QED BY <1>1, <1>5 DEF NewestCompleted

LEMMA ReportsAreCounted ==
  ASSUME NEW n \in Nat, {r.version : r \in qualityReports} = 1..n
  PROVE  LatestReport = n
<1>1. PICK S : S = {r.version : r \in qualityReports} \cup {0}
  OBVIOUS
<1>2. S = 0..n
  BY <1>1
<1>3. Max(S) = n
  BY <1>2 DEF Max
<1> QED BY <1>1, <1>3 DEF LatestReport

(* Messages of inspections, and exceptions, are only added.                *)
StillAwaited ==
    /\ InspectMessage \in DOMAIN messages' /\ messages'[InspectMessage] \in Nat
    /\ messages'[InspectMessage] >= messages[InspectMessage]
    /\ lost \subseteq lost'

LEMMA SentWaits ==
  ASSUME ReportingInv, NEW m, messages' \in {messages, Queued(m)}, lost \subseteq lost'
  PROVE  StillAwaited
<1>1. InspectMessage \in DOMAIN messages /\ messages[InspectMessage] \in Nat
  BY DEF ReportingInv
<1>2. PICK n : n = messages[InspectMessage]
  OBVIOUS
<1>3. CASE messages' = messages
  BY <1>1, <1>3 DEF StillAwaited
<1>4. CASE messages' = Queued(m)
  <2>1. InspectMessage \in DOMAIN messages' /\ messages'[InspectMessage] \in {n, n + 1}
    BY <1>1, <1>2, <1>4 DEF Queued
  <2> QED BY <1>1, <1>2, <2>1 DEF StillAwaited
<1> QED BY <1>3, <1>4

LEMMA TakenWaits ==
  ASSUME ReportingInv, NEW m, m # InspectMessage,
         messages' = [messages EXCEPT ![m] = @ - 1], lost \subseteq lost'
  PROVE  StillAwaited
  BY DEF ReportingInv, StillAwaited

(* A completed inspection that is the latest is so because it was, or is   *)
(* what has been completed.                                                *)
LEMMA AddingIsNew ==
  ASSUME inspection \in [Inspections -> InspectionStatuses], NEW s, AddInspection(s)
  PROVE  /\ inspection' \in [Inspections -> InspectionStatuses]
         /\ \A v \in Inspections : CompletedLast(v)' => CompletedLast(v)
<1>1. \A u \in Inspections :
         /\ inspection'[u] \in InspectionStatuses
         /\ inspection'[u] \in {inspection[u], "QUEUED", "STALE"}
  BY DEF AddInspection, InspectionStatuses
<1>2. inspection' \in [Inspections -> InspectionStatuses]
  BY <1>1 DEF AddInspection
<1> QED BY <1>1, <1>2 DEF CompletedLast

LEMMA SettingIsNew ==
  ASSUME inspection \in [Inspections -> InspectionStatuses],
         NEW n, NEW status \in InspectionStatuses \ {"ABSENT"},
         inspection' = [inspection EXCEPT ![n] = status]
  PROVE  /\ inspection' \in [Inspections -> InspectionStatuses]
         /\ \A v \in Inspections :
               CompletedLast(v)' => CompletedLast(v) \/ (status = "COMPLETED" /\ v = n)
<1>1. \A u \in Inspections : inspection'[u] = IF u = n THEN status ELSE inspection[u]
  OBVIOUS
<1> QED BY <1>1 DEF CompletedLast

-----------------------------------------------------------------------------
(* What keeps the invariant: a step beside inspections and reports, a step *)
(* of one actor, its end, and its end in an exception.                     *)

LEMMA AsideKeepsReports ==
  ASSUME ReportingInv, UNCHANGED qualityReports, StillAwaited,
         inspection' \in [Inspections -> InspectionStatuses],
         \A v \in Inspections : CompletedLast(v)' => CompletedLast(v),
         \A a \in Actors :
            \/ session'[a] = session[a]
            \/ {session[a].op, session'[a].op} \cap (InspectingOps \cup ReportingOps) = {}
  PROVE  ReportingInv'
<1>1. LatestReport' = LatestReport /\ (Owed' => Owed)
  <2>1. LatestReport' = LatestReport
    BY DEF LatestReport
  <2> QED BY <2>1 DEF Owed, StillAwaited, ReportingInv
<1>2. ASSUME NEW a \in Actors
      PROVE  ReporterFine(a, session[a])'
  BY <1>1, <1>2 DEF ReportingInv, ReporterFine
<1>3. ASSUME NEW v \in Inspections, CompletedLast(v)', Owed'
      PROVE  (Reported(v) \/ \E w \in Actors : Pursues(session[w], v))'
  <2>1. CASE Reported(v)
    <3>1. \A a \in Actors : Follows(session[a], v)'
      BY <1>1, <2>1 DEF Reported, Follows
    <3> QED BY <1>1, <2>1, <3>1 DEF Reported
  <2>2. ASSUME NEW w \in Actors, Pursues(session[w], v)
        PROVE  Pursues(session[w], v)'
    <3>1. session'[w] = session[w]
      BY <2>2 DEF Pursues, InspectingOps
    <3> QED BY <2>2, <3>1 DEF Pursues
  <2> QED BY <1>1, <1>3, <2>1, <2>2 DEF ReportingInv
<1>4. {r.version : r \in qualityReports'} = 1..LatestReport' /\ LatestReport' \in Nat
  BY <1>1 DEF ReportingInv
<1> QED BY <1>2, <1>3, <1>4 DEF ReportingInv, StillAwaited

LEMMA StepKeepsReports ==
  ASSUME ReportingInv, UNCHANGED qualityReports,
         InspectMessage \in DOMAIN messages', messages'[InspectMessage] \in Nat,
         inspection' \in [Inspections -> InspectionStatuses],
         NEW a \in Actors, OthersStay(a), NEW s, session'[a] = s, ReporterFine(a, s),
         \A v \in Inspections : CompletedLast(v)' /\ Owed' =>
            \/ Pursues(s, v)
            \/ CompletedLast(v) /\ Owed /\ ~Pursues(session[a], v) /\ Follows(s, v)
  PROVE  ReportingInv'
<1>1. LatestReport' = LatestReport
  BY DEF LatestReport
<1>2. ASSUME NEW b \in Actors
      PROVE  ReporterFine(b, session[b])'
  <2>1. CASE b = a
    BY <1>1, <2>1 DEF ReporterFine
  <2>2. CASE b # a
    BY <1>1, <2>2 DEF ReportingInv, ReporterFine, OthersStay
  <2> QED BY <2>1, <2>2
<1>3. ASSUME NEW v \in Inspections, CompletedLast(v)', Owed'
      PROVE  (Reported(v) \/ \E w \in Actors : Pursues(session[w], v))'
  <2>1. CASE Pursues(s, v)
    <3>1. Pursues(session[a], v)'
      BY <2>1 DEF Pursues
    <3> QED BY <3>1
  <2>2. CASE CompletedLast(v) /\ Owed /\ ~Pursues(session[a], v) /\ Follows(s, v)
    <3>1. CASE Reported(v)
      <4>1. ASSUME NEW b \in Actors
            PROVE  Follows(session[b], v)'
        BY <1>1, <2>2, <3>1 DEF Reported, Follows, OthersStay
      <4> QED BY <1>1, <3>1, <4>1 DEF Reported
    <3>2. ASSUME NEW w \in Actors, Pursues(session[w], v)
          PROVE  Pursues(session[w], v)'
      <4>1. session'[w] = session[w]
        BY <2>2, <3>2 DEF OthersStay
      <4> QED BY <3>2, <4>1 DEF Pursues
    <3> QED BY <2>2, <3>1, <3>2 DEF ReportingInv
  <2> QED BY <1>3, <2>1, <2>2
<1>4. {r.version : r \in qualityReports'} = 1..LatestReport' /\ LatestReport' \in Nat
  BY <1>1 DEF ReportingInv
<1> QED BY <1>2, <1>3, <1>4 DEF ReportingInv

LEMMA QuietStepKeepsReports ==
  ASSUME ReportingInv, UNCHANGED <<qualityReports, messages>>, lost \subseteq lost',
         inspection' \in [Inspections -> InspectionStatuses],
         NEW a \in Actors, OthersStay(a), NEW s, session'[a] = s, ReporterFine(a, s),
         \A v \in Inspections : CompletedLast(v)' =>
            \/ Pursues(s, v)
            \/ CompletedLast(v) /\ ~Pursues(session[a], v) /\ Follows(s, v)
            \/ InspectMessage \in lost'
  PROVE  ReportingInv'
<1>1. LatestReport' = LatestReport
  BY DEF LatestReport
<1>2. Owed' => Owed /\ InspectMessage \notin lost'
  BY <1>1 DEF Owed
<1>3. InspectMessage \in DOMAIN messages' /\ messages'[InspectMessage] \in Nat
  BY DEF ReportingInv
<1>4. \A v \in Inspections : CompletedLast(v)' /\ Owed' =>
         \/ Pursues(s, v)
         \/ CompletedLast(v) /\ Owed /\ ~Pursues(session[a], v) /\ Follows(s, v)
  BY <1>2
<1> QED BY <1>3, <1>4, StepKeepsReports

LEMMA EndKeepsReports ==
  ASSUME ReportingInv, Shaped, UNCHANGED <<qualityReports, messages, inspection>>,
         lost \subseteq lost', NEW a \in Actors, End(a),
         (\A v \in Inspections : ~Pursues(session[a], v)) \/ InspectMessage \in lost'
  PROVE  ReportingInv'
<1>1. session'[a] = Idle /\ OthersStay(a)
  BY EndEffect
<1>2. ReporterFine(a, Idle) /\ \A v \in Inspections : Follows(Idle, v)
  BY DEF ReporterFine, Follows, Idle, InspectingOps, ReportingOps
<1>3. inspection' \in [Inspections -> InspectionStatuses]
  BY DEF ReportingInv
<1>4. \A v \in Inspections : CompletedLast(v)' =>
         \/ Pursues(Idle, v)
         \/ CompletedLast(v) /\ ~Pursues(session[a], v) /\ Follows(Idle, v)
         \/ InspectMessage \in lost'
  BY <1>2 DEF CompletedLast
<1> QED BY <1>1, <1>2, <1>3, <1>4, QuietStepKeepsReports

LEMMA ExceptionKeepsReports ==
  ASSUME ReportingInv, Shaped, UNCHANGED <<qualityReports, messages, inspection>>,
         InspectMessage \in Messages, NEW a \in Actors, EndInException(a)
  PROVE  ReportingInv'
<1>1. CASE session[a].op \in InspectingOps
  <2>1. session[a].message = InspectMessage
    BY <1>1 DEF ReportingInv, ReporterFine
  <2>2. InspectMessage \in lost'
    BY <2>1, CeleryAssumption DEF EndInException
  <2> QED BY <2>2, EndKeepsReports DEF EndInException
<1>2. CASE session[a].op \notin InspectingOps
  <2>1. \A v \in Inspections : ~Pursues(session[a], v)
    BY <1>2 DEF Pursues, InspectingOps
  <2> QED BY <2>1, EndKeepsReports DEF EndInException
<1> QED BY <1>1, <1>2

-----------------------------------------------------------------------------
(* The steps on the clip's media. *)

LEMMA RequestsKeepReports ==
  ASSUME ReportingInv, Shaped, NEW a \in Actors, MediaHandler(a), UNCHANGED adviceRows
  PROVE  ReportingInv'
<1> DEFINE Beside(s) == s.op \notin InspectingOps \cup ReportingOps
<1>1. UNCHANGED qualityReports /\ inspection \in [Inspections -> InspectionStatuses]
  BY DEF adviceRows, ReportingInv
<1>2. ASSUME UNCHANGED session \/ (OthersStay(a) /\ Beside(session[a]) /\ Beside(session'[a])),
             StillAwaited, inspection' \in [Inspections -> InspectionStatuses],
             \A v \in Inspections : CompletedLast(v)' => CompletedLast(v)
      PROVE  ReportingInv'
  <2>1. \A b \in Actors : \/ session'[b] = session[b]
                          \/ {session[b].op, session'[b].op} \cap (InspectingOps \cup ReportingOps) = {}
    BY <1>2 DEF OthersStay
  <2> QED BY <1>1, <1>2, <2>1, AsideKeepsReports
<1>3. UNCHANGED inspection => \A v \in Inspections : CompletedLast(v)' => CompletedLast(v)
  BY DEF CompletedLast
<1>4. UNCHANGED <<messages, lost>> => StillAwaited
  BY SentWaits
<1> USE DEF InspectingOps, ReportingOps
<1>5. Beside(Idle)
  BY DEF Idle
<1>6. CASE IssueGrant(a) \/ AccessMedia(a) \/ ExtendRetention(a) \/ DecideClip(a)
  <2>1. UNCHANGED <<session, inspection, messages, lost>>
    BY <1>6 DEF IssueGrant, AccessMedia, ExtendRetention, DecideClip
  <2> QED BY <1>1, <1>2, <1>3, <1>4, <2>1
<1>7. ASSUME NEW enabled \in BOOLEAN, SetHold(a, enabled)
      PROVE  ReportingInv'
  <2>1. UNCHANGED <<session, inspection, messages, lost>>
    BY <1>7 DEF SetHold
  <2> QED BY <1>1, <1>2, <1>3, <1>4, <2>1
<1>8. ASSUME NEW s, Beside(s), Begin(a, s), Free(a), UNCHANGED <<inspection, messages, lost>>
      PROVE  ReportingInv'
  <2>1. OthersStay(a) /\ Beside(session[a]) /\ Beside(session'[a])
    BY <1>5, <1>8, BeginEffect DEF Free
  <2> QED BY <1>1, <1>2, <1>3, <1>4, <1>8, <2>1
<1>9. CASE CallCleanup(a)
  BY <1>8, <1>9 DEF CallCleanup, Pass
<1>10. ASSUME NEW rerun \in BOOLEAN, LoadForInspection(a, rerun)
       PROVE  ReportingInv'
  BY <1>8, <1>10 DEF LoadForInspection, Requesting, mediaRows
<1>11. CASE LoadForCancelling(a)
  BY <1>8, <1>11 DEF LoadForCancelling, mediaRows
<1>12. CASE InspectionExists(a) \/ SendInspection(a)
  <2>1. session[a].op = "INSPECTION" /\ End(a) /\ UNCHANGED inspection
    BY <1>12 DEF InspectionExists, SendInspection, At, mediaRows
  <2>2. OthersStay(a) /\ Beside(session[a]) /\ Beside(session'[a])
    BY <1>5, <2>1, EndEffect
  <2>3. messages' \in {messages, Queued(InspectMessage)} /\ lost \subseteq lost'
    BY <1>12 DEF InspectionExists, SendInspection
  <2>4. StillAwaited
    BY <2>3, SentWaits
  <2> QED BY <1>1, <1>2, <1>3, <2>1, <2>2, <2>4
<1>13. CASE RequestInspection(a)
  <2>1. PICK status : session' = [session EXCEPT ![a].at = "requested", ![a].status = status]
    BY <1>13 DEF RequestInspection
  <2>2. OthersStay(a) /\ session'[a].op = session[a].op
    BY <2>1 DEF OthersStay, Shaped
  <2>3. session[a].op = "INSPECTION" /\ UNCHANGED <<messages, lost>>
    BY <1>13 DEF RequestInspection, At
  <2>4. UNCHANGED inspection \/ AddInspection(session[a])
    BY <1>13 DEF RequestInspection
  <2>5. /\ inspection' \in [Inspections -> InspectionStatuses]
        /\ \A v \in Inspections : CompletedLast(v)' => CompletedLast(v)
    BY <1>1, <1>3, <2>4, AddingIsNew
  <2> QED BY <1>2, <1>4, <2>2, <2>3, <2>5
<1>14. CASE CancelInspection(a)
  <2>1. session[a].op = "UNINSPECT" /\ End(a) /\ UNCHANGED <<messages, lost>>
    BY <1>14 DEF CancelInspection, At
  <2>2. OthersStay(a) /\ Beside(session[a]) /\ Beside(session'[a])
    BY <1>5, <2>1, EndEffect
  <2>3. PICK n : n = session[a].latest
    OBVIOUS
  <2>4. inspection' = [inspection EXCEPT ![n] = "CANCELLED"]
    BY <1>14, <2>3 DEF CancelInspection
  <2>5. "CANCELLED" \in InspectionStatuses \ {"ABSENT"}
    BY DEF InspectionStatuses
  <2>6. /\ inspection' \in [Inspections -> InspectionStatuses]
        /\ \A v \in Inspections : CompletedLast(v)' => CompletedLast(v)
    BY <1>1, <2>4, <2>5, SettingIsNew
  <2> QED BY <1>2, <1>4, <2>1, <2>2, <2>6
<1> QED BY <1>6, <1>7, <1>9, <1>10, <1>11, <1>12, <1>13, <1>14 DEF MediaHandler

LEMMA PassesKeepReports ==
  ASSUME ReportingInv, Shaped, NEW a \in Actors, CleanUp(a) \/ TakeCleanup(a),
         UNCHANGED adviceRows
  PROVE  ReportingInv'
<1>1. UNCHANGED <<qualityReports, inspection>> /\ lost \subseteq lost'
  BY DEF adviceRows, CleanUp, Judge, DeleteFile, DeletionFails, RecordDeletion, TakeCleanup,
         Receive, EndInException
<1>2. session[a].op \in {"CLEANUP", "IDLE"}
  BY DEF CleanUp, Judge, DeleteFile, DeletionFails, RecordDeletion, TakeCleanup, Receive, Free,
         Idle, At
<1>3. OthersStay(a) /\ session'[a].op \in {"CLEANUP", "IDLE"}
  <2>1. CASE TakeCleanup(a)
    BY <2>1, BeginEffect DEF TakeCleanup, Receive, Pass
  <2>2. CASE End(a)
    BY <2>2, EndEffect
  <2>3. CASE CleanUp(a) /\ ~End(a)
    <3>1. PICK place : Goto(a, place)
      BY <2>3 DEF CleanUp, Judge, DeleteFile, DeletionFails, RecordDeletion, EndInException
    <3>2. session'[a].op = session[a].op
      BY <3>1, GotoEffect DEF Shaped
    <3> QED BY <1>2, <3>1, <3>2, GotoEffect
  <2> QED BY <2>1, <2>2, <2>3
<1>4. StillAwaited
  <2>1. CASE TakeCleanup(a)
    <3>1. messages' = [messages EXCEPT ![CleanupMessage] = @ - 1]
      BY <2>1 DEF TakeCleanup, Receive
    <3>2. CleanupMessage # InspectMessage
      BY DEF CleanupMessage, InspectMessage
    <3> QED BY <1>1, <3>1, <3>2, TakenWaits
  <2>2. CASE CleanUp(a)
    <3>1. UNCHANGED messages
      BY <2>2 DEF CleanUp, Judge, DeleteFile, DeletionFails, RecordDeletion
    <3> QED BY <1>1, <3>1, SentWaits
  <2> QED BY <2>1, <2>2
<1>5. /\ inspection' \in [Inspections -> InspectionStatuses]
      /\ \A v \in Inspections : CompletedLast(v)' => CompletedLast(v)
  BY <1>1 DEF ReportingInv, CompletedLast
<1>6. \A b \in Actors : \/ session'[b] = session[b]
                        \/ {session[b].op, session'[b].op} \cap (InspectingOps \cup ReportingOps) = {}
  BY <1>2, <1>3 DEF OthersStay, InspectingOps, ReportingOps
<1> QED BY <1>1, <1>4, <1>5, <1>6, AsideKeepsReports

LEMMA TakeInspectionKeepsReports ==
  ASSUME ReportingInv, Shaped, NEW w \in Workers, TakeInspection(w), UNCHANGED adviceRows
  PROVE  ReportingInv'
<1>1. PICK s : s = Requesting("INSPECT", InspectMessage, FALSE)
  OBVIOUS
<1>2. w \in Actors
  BY DEF Actors
<1>3. session'[w] = s /\ OthersStay(w)
  BY <1>1, <1>2, BeginEffect DEF TakeInspection, Receive
<1>4. ReporterFine(w, s)
  BY <1>1 DEF Requesting, ReporterFine, InspectingOps, ReportingOps
<1>5. InspectMessage \in DOMAIN messages' /\ messages'[InspectMessage] \in Nat
  BY DEF TakeInspection, Receive, ReportingInv
<1>6. UNCHANGED <<qualityReports, inspection>>
  BY DEF TakeInspection, mediaRows, adviceRows
<1>7. ASSUME NEW v \in Inspections, CompletedLast(v)'
      PROVE  Pursues(s, v)
  <2>1. CompletedLast(v)
    BY <1>6, <1>7 DEF CompletedLast
  <2>2. LatestInspection = v /\ Inspected(v) = "COMPLETED"
    BY <2>1, LatestIsLast, RetentionAssumption DEF CompletedLast, Inspected, Inspections
  <2> QED BY <1>1, <2>2 DEF Requesting, Pursues
<1>8. inspection' \in [Inspections -> InspectionStatuses]
  BY <1>6 DEF ReportingInv
<1> QED BY <1>2, <1>3, <1>4, <1>5, <1>6, <1>7, <1>8, StepKeepsReports

(* A session of an inspection that goes on elsewhere.                      *)
LEMMA InspectingGoesOn ==
  ASSUME ReportingInv, Shaped, NEW a \in Actors, session[a].op = "INSPECT", NEW place
  PROVE  LET s == [session[a] EXCEPT !.at = place] IN
         /\ ReporterFine(a, s) /\ s.op = "INSPECT" /\ s.at = place
         /\ s.latest = session[a].latest
         /\ \A v : Follows(s, v)
<1>1. PICK s : s = [session[a] EXCEPT !.at = place]
  OBVIOUS
<1>2. {"op", "at", "message", "latest"} \subseteq DOMAIN session[a]
      /\ a \in Workers /\ session[a].message = InspectMessage
  BY DEF Shaped, ReportingInv, ReporterFine, InspectingOps
<1>3. /\ s.op = "INSPECT" /\ s.at = place /\ s.message = InspectMessage
      /\ s.latest = session[a].latest /\ DOMAIN s = DOMAIN session[a]
  BY <1>1, <1>2
<1>4. ReporterFine(a, s) /\ \A v : Follows(s, v)
  BY <1>2, <1>3 DEF ReporterFine, Follows, ReportingOps
<1> QED BY <1>1, <1>3, <1>4

LEMMA RequestInTaskKeepsReports ==
  ASSUME ReportingInv, Shaped, InspectMessage \in Messages, NEW w \in Actors, RequestInTask(w),
         UNCHANGED adviceRows
  PROVE  ReportingInv'
<1>1. PICK s : s = session[w]
  OBVIOUS
<1>2. s.op = "INSPECT" /\ s.at = "loaded" /\ UNCHANGED <<qualityReports, messages>>
  BY <1>1 DEF RequestInTask, At, adviceRows
<1>3. /\ w \in Workers /\ s.message = InspectMessage
      /\ {"op", "at", "message", "latest"} \subseteq DOMAIN s
      /\ inspection \in [Inspections -> InspectionStatuses]
  BY <1>1, <1>2 DEF Shaped, ReportingInv, ReporterFine, InspectingOps
<1>4. \A v \in Inspections : Pursues(s, v) => Returns(s) /\ s.status = "COMPLETED"
  BY <1>2 DEF Pursues, Returns
<1>5. CASE Returns(s) /\ s.status = "QUEUED" /\ Goto(w, "requested") /\ UNCHANGED <<inspection, lost>>
  <2>1. PICK t : t = [s EXCEPT !.at = "requested"]
    OBVIOUS
  <2>2. session'[w] = t /\ OthersStay(w)
    BY <1>1, <1>5, <2>1, GotoEffect
  <2>3. ReporterFine(w, t) /\ \A v : Follows(t, v)
    BY <1>1, <1>2, <2>1, InspectingGoesOn
  <2>4. \A v \in Inspections : CompletedLast(v)' =>
           CompletedLast(v) /\ ~Pursues(session[w], v) /\ Follows(t, v)
    BY <1>1, <1>4, <1>5, <2>3 DEF CompletedLast
  <2> QED BY <1>2, <1>3, <1>5, <2>2, <2>3, <2>4, QuietStepKeepsReports
<1>6. CASE Begin(w, Completed) /\ UNCHANGED <<inspection, lost>>
  <2>1. session'[w] = Completed /\ OthersStay(w)
    BY <1>6, BeginEffect
  <2>2. ReporterFine(w, Completed) /\ \A v : Pursues(Completed, v)
    BY <1>3 DEF Completed, ReporterFine, Pursues, InspectingOps, ReportingOps
  <2> QED BY <1>2, <1>3, <1>6, <2>1, <2>2, QuietStepKeepsReports
<1>7. CASE End(w) /\ UNCHANGED <<inspection, lost>> /\ ~(Returns(s) /\ s.status = "COMPLETED")
  BY <1>1, <1>2, <1>4, <1>7, EndKeepsReports
<1>8. CASE /\ ~Returns(s) /\ AddInspection(s) /\ UNCHANGED lost
           /\ session' = [session EXCEPT ![w].at = "requested", ![w].latest = @ + 1]
  <2>1. PICK one : one = [s EXCEPT !.at = "requested"]
    OBVIOUS
  <2>2. PICK t : t = [one EXCEPT !.latest = @ + 1]
    OBVIOUS
  <2>3. session'[w] = t /\ OthersStay(w)
    BY <1>1, <1>8, <2>1, <2>2 DEF Shaped, OthersStay
  <2>4. /\ t.op = "INSPECT" /\ t.at = "requested" /\ t.message = InspectMessage
        /\ {"message", "latest"} \subseteq DOMAIN t
    BY <1>2, <1>3, <2>1, <2>2
  <2>5. ReporterFine(w, t) /\ \A v : Follows(t, v)
    BY <1>3, <2>4 DEF ReporterFine, Follows, ReportingOps
  <2>6. /\ inspection' \in [Inspections -> InspectionStatuses]
        /\ \A v \in Inspections : CompletedLast(v)' => CompletedLast(v)
    BY <1>3, <1>8, AddingIsNew
  <2>7. \A v \in Inspections : CompletedLast(v)' =>
           CompletedLast(v) /\ ~Pursues(session[w], v) /\ Follows(t, v)
    BY <1>1, <1>4, <1>8, <2>5, <2>6
  <2> QED BY <1>2, <1>8, <2>3, <2>5, <2>6, <2>7, QuietStepKeepsReports
<1>9. CASE EndInException(w) /\ UNCHANGED inspection
  BY <1>2, <1>9, ExceptionKeepsReports
<1>10. CASE Returns(s)
  <2>1. \/ s.status = "QUEUED" /\ Goto(w, "requested") /\ UNCHANGED <<inspection, lost>>
        \/ Begin(w, Completed) /\ UNCHANGED <<inspection, lost>>
        \/ End(w) /\ s.status # "COMPLETED" /\ UNCHANGED <<inspection, lost>>
    BY <1>1, <1>10 DEF RequestInTask
  <2> QED BY <1>5, <1>6, <1>7, <1>10, <2>1
<1>11. CASE ~Returns(s)
  BY <1>1, <1>7, <1>8, <1>9, <1>11 DEF RequestInTask
<1> QED BY <1>10, <1>11

LEMMA InspectionsKeepReports ==
  ASSUME ReportingInv, Shaped, InspectMessage \in Messages, NEW w \in Actors, Inspect(w),
         UNCHANGED adviceRows
  PROVE  ReportingInv'
<1>1. PICK s : s = session[w]
  OBVIOUS
<1>2. UNCHANGED qualityReports /\ inspection \in [Inspections -> InspectionStatuses]
  BY DEF adviceRows, ReportingInv
<1>3. ASSUME NEW place, NEW status \in InspectionStatuses \ {"ABSENT"},
             s.op = "INSPECT", s.at \notin {"loaded", "completing"}, Goto(w, place),
             UNCHANGED <<messages, lost>>,
             \/ UNCHANGED inspection
             \/ /\ inspection' = [inspection EXCEPT ![s.latest] = status]
                /\ status = "COMPLETED" => place = "completing"
      PROVE  ReportingInv'
  <2>1. PICK t : t = [s EXCEPT !.at = place]
    OBVIOUS
  <2>2. session'[w] = t /\ OthersStay(w)
    BY <1>1, <1>3, <2>1, GotoEffect
  <2>3. ReporterFine(w, t) /\ t.op = "INSPECT" /\ t.at = place /\ t.latest = s.latest
        /\ \A v : Follows(t, v)
    BY <1>1, <1>3, <2>1, InspectingGoesOn
  <2>4. \A v : ~Pursues(s, v)
    BY <1>3 DEF Pursues
  <2>5. PICK n : n = s.latest
    OBVIOUS
  <2>6. /\ inspection' \in [Inspections -> InspectionStatuses]
        /\ \A v \in Inspections : CompletedLast(v)' =>
              CompletedLast(v) \/ (place = "completing" /\ v = n)
    <3>1. CASE UNCHANGED inspection
      BY <1>2, <3>1 DEF CompletedLast
    <3>2. CASE /\ inspection' = [inspection EXCEPT ![n] = status]
               /\ status = "COMPLETED" => place = "completing"
      BY <1>2, <3>2, SettingIsNew
    <3> QED BY <1>3, <2>5, <3>1, <3>2
  <2>7. \A v \in Inspections : v = n /\ place = "completing" => Pursues(t, v)
    BY <2>3, <2>5 DEF Pursues
  <2>8. \A v \in Inspections : CompletedLast(v)' =>
           \/ Pursues(t, v)
           \/ CompletedLast(v) /\ ~Pursues(session[w], v) /\ Follows(t, v)
    BY <1>1, <2>3, <2>4, <2>6, <2>7
  <2> QED BY <1>2, <1>3, <2>2, <2>3, <2>6, <2>8, QuietStepKeepsReports
<1>4. CASE LoadMedia(w)
  <2>1. PICK held : session' = [session EXCEPT ![w] =
           [op |-> "INSPECT", at |-> "starting", message |-> InspectMessage,
            latest |-> s.latest, held |-> held]]
    BY <1>1, <1>4 DEF LoadMedia, Begin
  <2>2. PICK t : t = [op |-> "INSPECT", at |-> "starting", message |-> InspectMessage,
                      latest |-> s.latest, held |-> held]
    OBVIOUS
  <2>3. session'[w] = t /\ OthersStay(w)
    BY <2>1, <2>2 DEF Shaped, OthersStay
  <2>4. s.op = "INSPECT" /\ s.at = "requested" /\ UNCHANGED <<inspection, messages, lost>>
    BY <1>1, <1>4 DEF LoadMedia, At
  <2>5. w \in Workers
    BY <1>1, <2>4 DEF ReportingInv, ReporterFine, InspectingOps
  <2>6. ReporterFine(w, t) /\ \A v : Follows(t, v)
    BY <2>2, <2>5 DEF ReporterFine, Follows, ReportingOps
  <2>7. \A v \in Inspections : CompletedLast(v)' =>
           CompletedLast(v) /\ ~Pursues(session[w], v) /\ Follows(t, v)
    BY <1>1, <2>4, <2>6 DEF Pursues, CompletedLast
  <2> QED BY <1>2, <2>3, <2>4, <2>6, <2>7, QuietStepKeepsReports
<1>5. CASE StartInspection(w)
  <2>1. s.op = "INSPECT" /\ s.at = "starting" /\ UNCHANGED messages
    BY <1>1, <1>5 DEF StartInspection, At
  <2>2. CASE s.held \/ Current(w)
    <3>1. /\ inspection' = [inspection EXCEPT ![s.latest] = "RUNNING"]
          /\ Goto(w, "opening") /\ UNCHANGED lost
      BY <1>1, <1>5, <2>2 DEF StartInspection
    <3>2. "RUNNING" \in InspectionStatuses \ {"ABSENT"} /\ "RUNNING" # "COMPLETED"
      BY DEF InspectionStatuses
    <3>3. s.at \notin {"loaded", "completing"}
      BY <2>1
    <3> QED BY <1>3, <2>1, <3>1, <3>2, <3>3
  <2>3. CASE ~(s.held \/ Current(w))
    <3>1. EndInException(w) /\ UNCHANGED inspection
      BY <1>1, <1>5, <2>3 DEF StartInspection
    <3> QED BY <1>2, <2>1, <3>1, ExceptionKeepsReports
  <2> QED BY <2>2, <2>3
<1>6. CASE OpenMedia(w) \/ Stage(w)
  <2>1. \E place : Goto(w, place)
    BY <1>6 DEF OpenMedia, Stage
  <2>2. /\ s.op = "INSPECT" /\ s.at \in {"opening", "sampling"}
        /\ UNCHANGED <<inspection, messages, lost>>
    BY <1>1, <1>6 DEF OpenMedia, Stage, At, mediaRows
  <2>3. "FAILED" \in InspectionStatuses \ {"ABSENT"}
    BY DEF InspectionStatuses
  <2> QED BY <1>3, <2>1, <2>2, <2>3
<1>7. ASSUME NEW outcome \in {"COMPLETED", "FAILED"}, EndInspection(w, outcome)
      PROVE  ReportingInv'
  <2>1. PICK place : /\ place = IF outcome = "COMPLETED" THEN "completing" ELSE "releasing"
                     /\ Goto(w, place)
    BY <1>7 DEF EndInspection
  <2>2. /\ s.op = "INSPECT" /\ s.at \in {"reporting", "sampling"}
        /\ UNCHANGED <<messages, lost>>
        /\ inspection' = [inspection EXCEPT ![s.latest] = outcome]
    BY <1>1, <1>7 DEF EndInspection, At
  <2>3. outcome \in InspectionStatuses \ {"ABSENT"}
    BY DEF InspectionStatuses
  <2> QED BY <1>3, <2>1, <2>2, <2>3
<1>8. CASE Release(w)
  <2>1. /\ s.op = "INSPECT" /\ s.at \in {"completing", "releasing", "aborting"}
        /\ UNCHANGED <<inspection, messages>>
    BY <1>1, <1>8 DEF Release
  <2>2. CASE EndInException(w)
    BY <1>2, <2>1, <2>2, ExceptionKeepsReports
  <2>3. CASE s.at = "completing" /\ Begin(w, Completed) /\ UNCHANGED lost
    <3>1. session'[w] = Completed /\ OthersStay(w)
      BY <2>3, BeginEffect
    <3>2. w \in Workers
      BY <1>1, <2>1 DEF ReportingInv, ReporterFine, InspectingOps
    <3>3. ReporterFine(w, Completed) /\ \A v : Pursues(Completed, v)
      BY <3>2 DEF Completed, ReporterFine, Pursues, InspectingOps, ReportingOps
    <3> QED BY <1>2, <2>1, <2>3, <3>1, <3>3, QuietStepKeepsReports
  <2>4. CASE s.at # "completing" /\ End(w) /\ UNCHANGED lost
    <3>1. \A v \in Inspections : ~Pursues(session[w], v)
      BY <1>1, <2>1, <2>4 DEF Pursues
    <3> QED BY <1>2, <2>1, <2>4, <3>1, EndKeepsReports
  <2>5. \/ EndInException(w)
        \/ s.at = "completing" /\ Begin(w, Completed) /\ UNCHANGED lost
        \/ s.at # "completing" /\ End(w) /\ UNCHANGED lost
    BY <1>1, <1>8 DEF Release
  <2> QED BY <2>2, <2>3, <2>4, <2>5
<1> QED BY <1>4, <1>5, <1>6, <1>7, <1>8, RequestInTaskKeepsReports DEF Inspect

-----------------------------------------------------------------------------
(* Quality reports. *)

LEMMA ReadEvidenceKeepsReports ==
  ASSUME ReportingInv, Shaped, NEW a \in Actors, ReadEvidence(a), UNCHANGED mediaRows
  PROVE  ReportingInv'
<1>1. PICK s : s = session[a]
  OBVIOUS
<1>2. /\ s.op \in ReportingOps /\ s.at = "unreported"
      /\ UNCHANGED <<qualityReports, messages, lost, inspection>>
  BY <1>1 DEF ReadEvidence, ReportingOps, adviceRows, mediaRows
<1>3. /\ s.latest \in Nat /\ s.latest <= LatestReport /\ LatestReport \in Nat
      /\ s.op = "INSPECTED" => a \in Workers /\ s.message = InspectMessage
      /\ inspection' \in [Inspections -> InspectionStatuses]
  BY <1>1, <1>2 DEF ReportingInv, ReporterFine, InspectingOps
<1>4. \A v \in Inspections : CompletedLast(v)' <=> CompletedLast(v)
  BY <1>2 DEF CompletedLast
<1>5. s.op # "INSPECTED" => \A v \in Inspections : ~Pursues(s, v)
  BY <1>2 DEF Pursues
<1>6. CASE s.latest > 0 /\ ~Again(s)
  <2>1. AfterReport(a) /\ s.op # "INSPECTED"
    BY <1>1, <1>6 DEF ReadEvidence, Again
  <2>2. CASE End(a)
    BY <1>1, <1>2, <1>5, <2>1, <2>2, EndKeepsReports
  <2>3. CASE \E m, about, statuses : Begin(a, Advising(m, about, statuses))
    <3>1. PICK t : t.op = "ADVISE" /\ Begin(a, t)
      BY <2>3 DEF Advising
    <3>2. session'[a] = t /\ OthersStay(a)
      BY <3>1, BeginEffect
    <3>3. ReporterFine(a, t) /\ \A v : Follows(t, v)
      BY <3>1 DEF ReporterFine, Follows, InspectingOps, ReportingOps
    <3>4. \A v \in Inspections : CompletedLast(v)' =>
             CompletedLast(v) /\ ~Pursues(session[a], v) /\ Follows(t, v)
      BY <1>1, <1>4, <1>5, <2>1, <3>3
    <3> QED BY <1>2, <1>3, <3>2, <3>3, <3>4, QuietStepKeepsReports
  <2> QED BY <2>1, <2>2, <2>3 DEF AfterReport
<1>7. CASE ~(s.latest > 0 /\ ~Again(s)) /\ s.latest = MaxReports
  <2>1. End(a)
    <3>1. Again(s)
      BY <1>7, AdviceAssumption
    <3> QED BY <1>1, <1>7, <3>1 DEF ReadEvidence
  <2>2. session'[a] = Idle /\ OthersStay(a)
    BY <2>1, EndEffect
  <2>3. ReporterFine(a, Idle)
    BY DEF ReporterFine, Idle, InspectingOps, ReportingOps
  <2>4. LatestReport' = LatestReport
    BY <1>2 DEF LatestReport
  <2>5. ~Owed'
    BY <1>3, <1>7, <2>4, AdviceAssumption DEF Owed
  <2>6. InspectMessage \in DOMAIN messages' /\ messages'[InspectMessage] \in Nat
    BY <1>2 DEF ReportingInv
  <2> QED BY <1>2, <1>3, <2>2, <2>3, <2>5, <2>6, StepKeepsReports
<1>8. CASE ~(s.latest > 0 /\ ~Again(s)) /\ s.latest # MaxReports
  <2>1. PICK t : t = [op |-> s.op, at |-> "reported", message |-> s.message,
                      latest |-> s.latest, inspection |-> NewestCompleted]
    OBVIOUS
  <2>2. Begin(a, t)
    BY <1>1, <1>8, <2>1 DEF ReadEvidence
  <2>3. session'[a] = t /\ OthersStay(a)
    BY <2>2, BeginEffect
  <2>4. ReporterFine(a, t)
    BY <1>2, <1>3, <2>1 DEF ReporterFine, InspectingOps, ReportingOps
  <2>5. ASSUME NEW v \in Inspections, CompletedLast(v)'
        PROVE  \/ Pursues(t, v)
               \/ CompletedLast(v) /\ ~Pursues(session[a], v) /\ Follows(t, v)
    <3>1. CompletedLast(v) /\ t.inspection = v
      BY <1>4, <2>1, <2>5, NewestIsLast
    <3>2. CASE s.op = "INSPECTED"
      BY <2>1, <3>1, <3>2 DEF Pursues
    <3>3. CASE s.op # "INSPECTED"
      BY <1>1, <1>5, <3>1, <3>3 DEF Follows
    <3> QED BY <3>2, <3>3
  <2> QED BY <1>2, <1>3, <2>3, <2>4, <2>5, QuietStepKeepsReports
<1> QED BY <1>6, <1>7, <1>8

LEMMA CommitReportKeepsReports ==
  ASSUME ReportingInv, Shaped, InspectMessage \in Messages, NEW a \in Actors, CommitReport(a),
         UNCHANGED mediaRows
  PROVE  ReportingInv'
<1>1. PICK s : s = session[a]
  OBVIOUS
<1>2. PICK n : n = LatestReport
  OBVIOUS
<1>3. /\ s.op \in ReportingOps /\ s.at = "reported" /\ UNCHANGED <<messages, inspection>>
      /\ n \in Nat /\ {r.version : r \in qualityReports} = 1..n
      /\ s.latest \in Nat /\ s.latest <= n
  BY <1>1, <1>2 DEF CommitReport, ReportingOps, mediaRows, ReportingInv, ReporterFine
<1>4. CASE VersionTaken(s)
  BY <1>1, <1>3, <1>4, ExceptionKeepsReports DEF CommitReport
<1>5. CASE ~VersionTaken(s)
  <2>1. PICK new : new = [version |-> s.latest + 1, inspection |-> s.inspection]
    OBVIOUS
  <2>2. qualityReports' = qualityReports \cup {new} /\ AfterReport(a) /\ UNCHANGED lost
    BY <1>1, <1>5, <2>1 DEF CommitReport
  <2>3. s.latest = n
    <3>1. s.latest + 1 \notin 1..n
      BY <1>3, <1>5 DEF VersionTaken
    <3> QED BY <1>3, <3>1
  <2>4. {r.version : r \in qualityReports'} = 1..(n + 1)
    <3>1. {r.version : r \in qualityReports'} = {r.version : r \in qualityReports} \cup {n + 1}
      BY <2>1, <2>2, <2>3
    <3> QED BY <1>3, <3>1
  <2>5. LatestReport' = n + 1
    <3>1. ASSUME NEW Q, NEW k \in Nat, {r.version : r \in Q} = 1..k
          PROVE  Max({r.version : r \in Q} \cup {0}) = k
      BY <3>1 DEF Max
    <3>2. n + 1 \in Nat
      BY <1>3
    <3> QED BY <2>4, <3>1, <3>2 DEF LatestReport
  <2>6. PICK t : session'[a] = t /\ OthersStay(a) /\ t.op \in {"ADVISE", "IDLE"}
    <3>1. CASE End(a)
      BY <3>1, EndEffect
    <3>2. ASSUME NEW m, NEW about, NEW statuses, Begin(a, Advising(m, about, statuses))
          PROVE  \E t : session'[a] = t /\ OthersStay(a) /\ t.op \in {"ADVISE", "IDLE"}
      BY <3>2, BeginEffect DEF Advising
    <3> QED BY <2>2, <3>1, <3>2 DEF AfterReport
  <2>7. ASSUME NEW b \in Actors
        PROVE  ReporterFine(b, session[b])'
    <3>1. CASE b = a
      BY <2>6, <3>1 DEF ReporterFine, InspectingOps, ReportingOps
    <3>2. CASE b # a
      <4>1. PICK u : u = session[b]
        OBVIOUS
      <4>2. session'[b] = u /\ ReporterFine(b, u)
        BY <2>6, <3>2, <4>1 DEF OthersStay, ReportingInv
      <4>3. u.latest \in Nat /\ u.latest <= n => u.latest <= n + 1
        BY <1>3
      <4> QED BY <1>2, <2>5, <4>2, <4>3 DEF ReporterFine
    <3> QED BY <3>1, <3>2
  <2>8. ASSUME NEW v \in Inspections, CompletedLast(v)', Owed'
        PROVE  (Reported(v) \/ \E w \in Actors : Pursues(session[w], v))'
    <3>1. CompletedLast(v)
      BY <1>3, <2>8 DEF CompletedLast
    <3>2. Owed
      BY <1>2, <1>3, <2>2, <2>5, <2>8, AdviceAssumption DEF Owed
    <3>3. CASE s.inspection = v
      <4>1. new \in qualityReports' /\ new.version = n + 1 /\ new.inspection = v
        BY <2>1, <2>2, <2>3, <3>3
      <4>2. ASSUME NEW b \in Actors
            PROVE  Follows(session[b], v)'
        <5>1. CASE b = a
          BY <2>6, <5>1 DEF Follows, ReportingOps
        <5>2. CASE b # a
          <6>1. PICK u : u = session[b]
            OBVIOUS
          <6>2. session'[b] = u /\ ReporterFine(b, u)
            BY <2>6, <5>2, <6>1 DEF OthersStay, ReportingInv
          <6>3. u.op \in ReportingOps /\ u.at = "reported" => u.latest # n + 1
            BY <1>2, <1>3, <6>2 DEF ReporterFine
          <6> QED BY <2>5, <6>2, <6>3 DEF Follows
        <5> QED BY <5>1, <5>2
      <4> QED BY <2>5, <4>1, <4>2 DEF Reported
    <3>4. CASE s.inspection # v
      <4>1. ~Pursues(session[a], v)
        BY <1>1, <1>3, <3>4 DEF Pursues
      <4>2. ~Reported(v)
        BY <1>1, <1>2, <1>3, <2>3, <3>4 DEF Reported, Follows
      <4>3. PICK w \in Actors : Pursues(session[w], v)
        BY <3>1, <3>2, <4>2 DEF ReportingInv
      <4>4. session'[w] = session[w]
        BY <2>6, <4>1, <4>3 DEF OthersStay
      <4> QED BY <4>3, <4>4 DEF Pursues
    <3> QED BY <3>3, <3>4
  <2>9. /\ InspectMessage \in DOMAIN messages' /\ messages'[InspectMessage] \in Nat
        /\ inspection' \in [Inspections -> InspectionStatuses]
        /\ LatestReport' \in Nat
    BY <1>3, <2>5 DEF ReportingInv
  <2> QED BY <2>4, <2>5, <2>7, <2>8, <2>9 DEF ReportingInv
<1> QED BY <1>4, <1>5

LEMMA AdviceKeepsReports ==
  ASSUME ReportingInv, Shaped, InspectMessage \in Messages, NEW a \in Actors,
         AdviceHandler(a) \/ Advise(a) \/ TakeReport(a) \/ TakeAdvice(a), UNCHANGED mediaRows
  PROVE  ReportingInv'
<1>1. inspection \in [Inspections -> InspectionStatuses] /\ UNCHANGED inspection
  BY DEF ReportingInv, mediaRows
<1>2. \A v \in Inspections : CompletedLast(v)' => CompletedLast(v)
  BY <1>1 DEF CompletedLast
<1>3. ASSUME NEW s, session'[a] = s, OthersStay(a), UNCHANGED qualityReports, StillAwaited,
             session[a].op \notin InspectingOps \cup ReportingOps,
             \/ s.op \notin InspectingOps \cup ReportingOps
             \/ s.op \in {"REPORT", "QUALITY"} /\ s.at = "unreported" /\ s.latest = LatestReport
      PROVE  ReportingInv'
  <2>1. ReporterFine(a, s) /\ \A v : Follows(s, v)
    BY <1>3 DEF ReporterFine, Follows, InspectingOps, ReportingOps, ReportingInv
  <2>2. \A v : ~Pursues(session[a], v)
    BY <1>3 DEF Pursues, InspectingOps
  <2>3. LatestReport' = LatestReport
    BY <1>3 DEF LatestReport
  <2>4. Owed' => Owed
    BY <1>3, <2>3 DEF Owed, StillAwaited, ReportingInv
  <2>5. InspectMessage \in DOMAIN messages' /\ messages'[InspectMessage] \in Nat
    BY <1>3 DEF StillAwaited
  <2>6. \A v \in Inspections : CompletedLast(v)' /\ Owed' =>
           \/ Pursues(s, v)
           \/ CompletedLast(v) /\ Owed /\ ~Pursues(session[a], v) /\ Follows(s, v)
    BY <1>2, <2>1, <2>2, <2>4
  <2>7. inspection' \in [Inspections -> InspectionStatuses]
    BY <1>1
  <2> QED BY <1>3, <2>1, <2>5, <2>6, <2>7, StepKeepsReports
<1>4. UNCHANGED <<messages, lost>> => StillAwaited
  BY SentWaits
<1>5. Idle.op \notin InspectingOps \cup ReportingOps
  BY DEF Idle, InspectingOps, ReportingOps
<1>6. CASE CallReport(a)
  <2>1. PICK op \in {"REPORT", "QUALITY"} : Begin(a, Reporting(op, NoMessage))
    BY <1>6 DEF CallReport
  <2>2. session'[a] = Reporting(op, NoMessage) /\ OthersStay(a)
    BY <2>1, BeginEffect
  <2>3. session[a] = Idle /\ UNCHANGED <<qualityReports, messages, lost>>
    BY <1>6 DEF CallReport, Free, adviceRows
  <2> QED BY <1>3, <1>4, <1>5, <2>2, <2>3 DEF Reporting
<1>7. CASE TakeReport(a)
  <2>1. /\ session'[a] = Reporting("REPORT", ReportMessage) /\ OthersStay(a)
        /\ session[a] = Idle /\ UNCHANGED qualityReports
    BY <1>7, BeginEffect DEF TakeReport, Receive, Free, adviceRows
  <2>2. messages' = [messages EXCEPT ![ReportMessage] = @ - 1] /\ lost \subseteq lost'
    BY <1>7 DEF TakeReport, Receive
  <2>3. StillAwaited
    BY <2>2, TakenWaits DEF ReportMessage, InspectMessage
  <2> QED BY <1>3, <1>5, <2>1, <2>3 DEF Reporting
<1>8. CASE TakeAdvice(a)
  <2>1. PICK s : s.op = "ADVISE" /\ Begin(a, s)
    BY <1>8 DEF TakeAdvice, Receive, Advising
  <2>2. session'[a] = s /\ OthersStay(a) /\ session[a] = Idle /\ UNCHANGED qualityReports
    BY <1>8, <2>1, BeginEffect DEF TakeAdvice, Receive, Free, adviceRows
  <2>3. messages' = [messages EXCEPT ![AdviseMessage] = @ - 1] /\ lost \subseteq lost'
    BY <1>8 DEF TakeAdvice, Receive
  <2>4. StillAwaited
    BY <2>3, TakenWaits DEF AdviseMessage, InspectMessage
  <2> QED BY <1>3, <1>5, <2>1, <2>2, <2>4 DEF InspectingOps, ReportingOps
<1>9. CASE CallAdvice(a) \/ LoadAdvice(a)
  <2>1. PICK s : s.op \in {"ADVISE", "NOTE", "ENDORSE", "DECLINE"} /\ Begin(a, s)
    <3>1. CASE CallAdvice(a)
      BY <3>1 DEF CallAdvice, Advising
    <3>2. CASE LoadAdvice(a)
      <4>1. PICK i \in AdviceIds, op \in {"NOTE", "ENDORSE", "DECLINE"} :
               Begin(a, [op |-> op, at |-> "advised", message |-> NoMessage, id |-> i,
                         copy |-> advice[i]])
        BY <3>2 DEF LoadAdvice
      <4> QED BY <4>1
    <3> QED BY <1>9, <3>1, <3>2
  <2>2. session[a] = Idle /\ UNCHANGED <<qualityReports, messages, lost>>
    BY <1>9 DEF CallAdvice, LoadAdvice, Free, adviceRows
  <2>3. session'[a] = s /\ OthersStay(a)
    BY <2>1, BeginEffect
  <2> QED BY <1>3, <1>4, <1>5, <2>1, <2>2, <2>3 DEF InspectingOps, ReportingOps
<1>10. CASE SaveAdvice(a) \/ CommitAdvice(a)
  <2>1. /\ session[a].op \in {"ADVISE", "NOTE", "ENDORSE", "DECLINE"} /\ End(a)
        /\ UNCHANGED <<qualityReports, messages, lost>>
    BY <1>10 DEF SaveAdvice, CommitAdvice, At
  <2>2. session'[a] = Idle /\ OthersStay(a)
    BY <2>1, EndEffect
  <2> QED BY <1>3, <1>4, <1>5, <2>1, <2>2 DEF InspectingOps, ReportingOps
<1>11. CASE ReportInspection(a)
  <2>1. PICK s : s = Reporting("INSPECTED", InspectMessage)
    OBVIOUS
  <2>2. session'[a] = s /\ OthersStay(a)
    BY <1>11, <2>1, BeginEffect DEF ReportInspection
  <2>3. session[a].op = "INSPECTED" /\ UNCHANGED <<qualityReports, messages, lost>>
    BY <1>11 DEF ReportInspection, At, adviceRows
  <2>4. a \in Workers
    BY <2>3 DEF ReportingInv, ReporterFine, InspectingOps
  <2>5. ReporterFine(a, s) /\ \A v : Pursues(s, v)
    BY <2>1, <2>4 DEF Reporting, ReporterFine, Pursues, InspectingOps, ReportingOps, ReportingInv
  <2> QED BY <1>1, <2>2, <2>3, <2>5, QuietStepKeepsReports
<1> QED
  BY <1>6, <1>7, <1>8, <1>9, <1>10, <1>11, ReadEvidenceKeepsReports, CommitReportKeepsReports
  DEF AdviceHandler, Advise

-----------------------------------------------------------------------------
(* The beginning, faults, and what the invariant says of the report. *)

LEMMA ReportingInitially ==
  ASSUME InspectMessage \in Messages, CeleryInit, MediaInit, AdviceInit
  PROVE  ReportingInv
<1>1. LatestReport = 0
  <2>1. {r.version : r \in qualityReports} = 1..0
    BY DEF AdviceInit
  <2> QED BY <2>1, ReportsAreCounted
<1>2. InspectMessage \in DOMAIN messages /\ messages[InspectMessage] \in Nat
  BY DEF CeleryInit
<1>3. inspection \in [Inspections -> InspectionStatuses] /\ \A v : ~CompletedLast(v)
  BY DEF MediaInit, InspectionStatuses, CompletedLast
<1>4. \A a \in Actors : ReporterFine(a, session[a])
  BY DEF CeleryInit, Idle, ReporterFine, InspectingOps, ReportingOps
<1>5. {r.version : r \in qualityReports} = 1..0
  BY DEF AdviceInit
<1> QED BY <1>1, <1>2, <1>3, <1>4, <1>5 DEF ReportingInv

LEMMA FaultKeepsReports ==
  ASSUME ReportingInv, Shaped, InspectMessage \in Messages, NEW a \in Actors,
         Crash(a) \/ Uncaught(a) \/ Redeliver(a), UNCHANGED <<inspection, qualityReports>>
  PROVE  ReportingInv'
<1>1. /\ inspection' \in [Inspections -> InspectionStatuses]
      /\ \A v \in Inspections : CompletedLast(v)' => CompletedLast(v)
  BY DEF ReportingInv, CompletedLast
<1>2. CASE Uncaught(a)
  BY <1>2, ExceptionKeepsReports DEF Uncaught
<1>3. CASE Redeliver(a)
  <2>1. PICK m : messages' = Queued(m)
    BY <1>3 DEF Redeliver
  <2>2. UNCHANGED <<session, lost>>
    BY <1>3 DEF Redeliver
  <2>3. StillAwaited
    BY <2>1, <2>2, SentWaits
  <2> QED BY <1>1, <2>2, <2>3, AsideKeepsReports
<1>4. CASE Crash(a)
  <2>1. session'[a] = Idle /\ OthersStay(a) /\ UNCHANGED lost
    BY <1>4, EndEffect DEF Crash
  <2>2. PICK m : messages' \in {messages, Queued(m)}
    BY <1>4 DEF Crash, Unacknowledged
  <2>3. StillAwaited
    BY <2>1, <2>2, SentWaits
  <2>4. CASE session[a].op \notin InspectingOps
    <3>1. \A v : ~Pursues(session[a], v)
      BY <2>4 DEF Pursues, InspectingOps
    <3>2. LatestReport' = LatestReport
      BY DEF LatestReport
    <3>3. Owed' => Owed
      BY <2>3, <3>2 DEF Owed, StillAwaited, ReportingInv
    <3>4. ReporterFine(a, Idle) /\ \A v : Follows(Idle, v)
      BY DEF ReporterFine, Follows, Idle, InspectingOps, ReportingOps
    <3>5. \A v \in Inspections : CompletedLast(v)' /\ Owed' =>
             CompletedLast(v) /\ Owed /\ ~Pursues(session[a], v) /\ Follows(Idle, v)
      BY <1>1, <3>1, <3>3, <3>4
    <3>6. InspectMessage \in DOMAIN messages' /\ messages'[InspectMessage] \in Nat
      BY <2>3 DEF StillAwaited
    <3> QED BY <1>1, <2>1, <3>4, <3>5, <3>6, StepKeepsReports
  <2>5. CASE session[a].op \in InspectingOps
    <3>1. session[a].message = InspectMessage
      BY <2>5 DEF ReportingInv, ReporterFine
    <3>2. messages' = Queued(InspectMessage)
      BY <1>4, <3>1, CeleryAssumption DEF Crash, Unacknowledged
    <3>3. PICK k : k = messages[InspectMessage]
      OBVIOUS
    <3>4. k \in Nat /\ InspectMessage \in DOMAIN messages /\ MaxMessages \in Nat \ {0}
      BY <3>3, CeleryAssumption DEF ReportingInv
    <3>5. messages'[InspectMessage] = IF k < MaxMessages THEN k + 1 ELSE k
      BY <3>2, <3>3, <3>4 DEF Queued
    <3>6. messages'[InspectMessage] \in Nat /\ messages'[InspectMessage] # 0
      BY <3>4, <3>5
    <3>7. InspectMessage \in DOMAIN messages' /\ ~Owed'
      BY <2>3, <3>6 DEF StillAwaited, Owed
    <3>8. ReporterFine(a, Idle)
      BY DEF ReporterFine, Idle, InspectingOps, ReportingOps
    <3> QED BY <1>1, <2>1, <3>6, <3>7, <3>8, StepKeepsReports
  <2> QED BY <2>4, <2>5
<1> QED BY <1>2, <1>3, <1>4

LEMMA ReportingInvIsEnough ==
  ASSUME ReportingInv
  PROVE  InspectionIsReported
<1> SUFFICES ASSUME LatestInspection > 0, Inspected(LatestInspection) = "COMPLETED",
                    messages[InspectMessage] = 0, InspectMessage \notin lost,
                    \A w \in Workers : session[w].op \notin {"INSPECT", "INSPECTED"},
                    LatestReport < MaxReports
             PROVE  \E r \in qualityReports :
                       r.version = LatestReport /\ r.inspection = LatestInspection
  BY DEF InspectionIsReported
<1>1. PICK v : v = LatestInspection
  OBVIOUS
<1>2. CompletedLast(v)
  BY <1>1, LastIsLatest
<1>3. Owed
  BY DEF Owed
<1>4. \A w \in Actors : ~Pursues(session[w], v)
  BY DEF ReportingInv, ReporterFine, Pursues, InspectingOps
<1>5. Reported(v)
  BY <1>2, <1>3, <1>4 DEF ReportingInv, CompletedLast
<1> QED BY <1>1, <1>5 DEF Reported

-----------------------------------------------------------------------------
(* Corrections. *)

PlanRow == [status : PlanStatuses, selected : BOOLEAN, result : Nat]

(* What a task that renders a correction may rely on: its plan still has   *)
(* the result of the copy, and while it renders, none.                     *)
Correcting(a, s) ==
    s.op = "CORRECT" =>
        /\ a \in Workers /\ s.id \in Plans
        /\ s.at = "loaded" => s.plan.result = plan[s.id].result
        /\ s.at = "correcting" => plan[s.id].result = 0

RevisionsInv ==
    /\ plan \in [Plans -> PlanRow]
    /\ revisions \in [Plans -> SUBSET Nat]
    /\ \A p \in Plans : plan[p].status = "ABSENT" => plan[p].result = 0
    /\ OneRevision
    /\ \A a \in Actors : Correcting(a, session[a])

LEMMA RevisionsInitially ==
  ASSUME CorrectionsInit, \A a \in Actors : session[a] = Idle
  PROVE  RevisionsInv
  BY DEF CorrectionsInit, RevisionsInv, PlanRow, PlanStatuses, OneRevision, Correcting, Idle

(* Most steps leave every plan its result.                                 *)
ResultsStay ==
    /\ plan' \in [Plans -> PlanRow]
    /\ \A p \in Plans :
          /\ plan'[p].result = plan[p].result
          /\ plan'[p].status = "ABSENT" => plan[p].status = "ABSENT"
    /\ UNCHANGED revisions

LEMMA ResultsKept ==
  ASSUME RevisionsInv, ResultsStay,
         \A a \in Actors : session'[a] = session[a] \/ Correcting(a, session'[a])
  PROVE  RevisionsInv'
<1>1. ASSUME NEW a \in Actors
      PROVE  Correcting(a, session[a])'
  <2>1. PICK s : s = session'[a]
    OBVIOUS
  <2>2. Correcting(a, s)
    BY <2>1 DEF RevisionsInv
  <2>3. Correcting(a, s)'
    BY <2>2 DEF Correcting, ResultsStay
  <2> QED BY <2>1, <2>3 DEF Correcting
<1>2. OneRevision'
  BY DEF RevisionsInv, OneRevision, ResultsStay
<1> QED BY <1>1, <1>2 DEF RevisionsInv, ResultsStay

LEMMA ResultsUntouched ==
  ASSUME RevisionsInv, ResultsStay, NEW a \in Actors, OthersStay(a),
         session'[a].op # "CORRECT"
  PROVE  RevisionsInv'
<1>1. ASSUME NEW b \in Actors
      PROVE  session'[b] = session[b] \/ Correcting(b, session'[b])
  BY DEF OthersStay, Correcting
<1> QED BY <1>1, ResultsKept

LEMMA StatusKeepsResults ==
  ASSUME RevisionsInv, NEW p, NEW status \in PlanStatuses \ {"ABSENT"}, SetStatus(p, status),
         UNCHANGED revisions
  PROVE  ResultsStay
<1>1. ASSUME NEW q \in Plans
      PROVE  /\ plan'[q] \in PlanRow /\ plan'[q].result = plan[q].result
             /\ plan'[q].status = "ABSENT" => plan[q].status = "ABSENT"
  <2>1. plan'[q] = plan[q] \/ plan'[q] = [plan[q] EXCEPT !.status = status]
    BY DEF SetStatus, RevisionsInv
  <2>2. plan[q] \in PlanRow
    BY DEF RevisionsInv
  <2> QED BY <2>1, <2>2 DEF PlanRow
<1>2. plan' = [q \in Plans |-> plan'[q]]
  BY DEF SetStatus, RevisionsInv
<1> QED BY <1>1, <1>2 DEF ResultsStay

LEMMA CorrectionsKeepRevisions ==
  ASSUME RevisionsInv, Shaped, OneWorker, NextNumber \in Nat \ {0}, NEW a \in Actors,
         \/ PlanHandler(a) \/ AdoptRevision(a) \/ Correct(a)
         \/ \E p \in Plans :
               \/ a \in Workers /\ TakeCorrection(a, p)
               \/ TakeReinspection(a, p)
  PROVE  RevisionsInv'
<1>0. CASE UNCHANGED <<plan, revisions>> /\ OthersStay(a) /\ session'[a].op # "CORRECT"
  BY <1>0, ResultsUntouched DEF ResultsStay, RevisionsInv
<1>1. CASE LoadForPlan(a)
  BY <1>0, <1>1, BeginEffect DEF LoadForPlan, planRows
<1>2. ASSUME NEW p \in Plans, LoadPlan(a, p, "TICK") \/ LoadPlan(a, p, "SUBMIT")
                                \/ LoadPlan(a, p, "CONFIRM") \/ LoadPlan(a, p, "WITHDRAW")
                                \/ LoadPlan(a, p, "COMPARE") \/ LoadPlan(a, p, "ADOPT")
      PROVE  RevisionsInv'
  BY <1>0, <1>2, BeginEffect DEF LoadPlan, planRows
<1>3. CASE CreatePlan(a)
  <2>1. PICK p : p = session[a].latest + 1
    OBVIOUS
  <2>2. OthersStay(a) /\ session'[a].op = "IDLE"
    BY <1>3, EndEffect DEF CreatePlan
  <2>3. CASE plan[p].status = "ABSENT"
    <3>1. PICK row \in PlanRow : row.result = 0 /\ plan' = [plan EXCEPT ![p] = row]
      BY <1>3, <2>1, <2>3 DEF CreatePlan, PlanRow, PlanStatuses
    <3>2. plan' \in [Plans -> PlanRow]
      BY <3>1 DEF RevisionsInv
    <3>3. \A q \in Plans : plan'[q].result = plan[q].result
      BY <2>3, <3>1 DEF RevisionsInv
    <3>4. \A q \in Plans : plan'[q].status = "ABSENT" => plan[q].status = "ABSENT"
      BY <2>3, <3>1 DEF RevisionsInv
    <3>5. UNCHANGED revisions
      BY <1>3 DEF CreatePlan
    <3> QED BY <2>2, <3>2, <3>3, <3>4, <3>5, ResultsUntouched DEF ResultsStay
  <2>4. CASE plan[p].status # "ABSENT"
    BY <1>0, <1>3, <2>1, <2>2, <2>4 DEF CreatePlan
  <2> QED BY <2>3, <2>4
<1>4. CASE SelectAction(a)
  <2>1. PICK selected \in BOOLEAN : plan' = [plan EXCEPT ![session[a].id].selected = selected]
    BY <1>4 DEF SelectAction
  <2>2. OthersStay(a) /\ session'[a].op = "IDLE" /\ UNCHANGED revisions
    BY <1>4, EndEffect DEF SelectAction
  <2>3. ASSUME NEW q \in Plans
        PROVE  /\ plan'[q] \in PlanRow /\ plan'[q].result = plan[q].result
               /\ plan'[q].status = plan[q].status
    <3>1. plan'[q] = plan[q] \/ plan'[q] = [plan[q] EXCEPT !.selected = selected]
      BY <2>1 DEF RevisionsInv
    <3>2. plan[q] \in PlanRow
      BY DEF RevisionsInv
    <3> QED BY <3>1, <3>2 DEF PlanRow
  <2>4. plan' = [q \in Plans |-> plan'[q]]
    BY <2>1 DEF RevisionsInv
  <2>5. ResultsStay
    BY <2>2, <2>3, <2>4 DEF ResultsStay
  <2> QED BY <2>2, <2>5, ResultsUntouched
<1>5. CASE SubmitPlan(a) \/ CancelPlan(a) \/ CorrectionFails(a) \/ CompletePlan(a)
  <2>1. OthersStay(a) /\ session'[a].op = "IDLE" /\ UNCHANGED revisions
    BY <1>5, EndEffect DEF SubmitPlan, CancelPlan, CorrectionFails, CompletePlan
  <2>2. PICK status \in {"AWAITING_CONFIRMATION", "CANCELLED", "FAILED", "COMPLETED"} :
           SetStatus(session[a].id, status)
    BY <1>5 DEF SubmitPlan, CancelPlan, CorrectionFails, CompletePlan
  <2>3. status \in PlanStatuses \ {"ABSENT"}
    BY DEF PlanStatuses
  <2>4. ResultsStay
    BY <2>1, <2>2, <2>3, StatusKeepsResults
  <2> QED BY <2>1, <2>4, ResultsUntouched
<1>6. CASE ConfirmPlan(a)
  <2>1. OthersStay(a) /\ session'[a].op = "CONFIRM"
    BY <1>6, GotoPlace DEF ConfirmPlan, At
  <2>2. SetStatus(session[a].id, "QUEUED") /\ UNCHANGED revisions
    BY <1>6 DEF ConfirmPlan
  <2>3. ResultsStay
    BY <2>2, StatusKeepsResults DEF PlanStatuses
  <2> QED BY <2>1, <2>3, ResultsUntouched
<1>7. CASE SendCorrection(a) \/ LeaveCorrection(a) \/ RefuseCorrection(a) \/ SendReinspection(a)
           \/ AdoptRevision(a)
  <2>1. OthersStay(a) /\ session'[a].op = "IDLE"
    BY <1>7, EndEffect
    DEF SendCorrection, LeaveCorrection, RefuseCorrection, SendReinspection, AdoptRevision
  <2>2. UNCHANGED <<plan, revisions>>
    BY <1>7
    DEF SendCorrection, LeaveCorrection, RefuseCorrection, SendReinspection, AdoptRevision,
        planRows
  <2> QED BY <1>0, <2>1, <2>2
<1>8. CASE ComparePlan(a)
  <2>1. OthersStay(a) /\ session'[a].op = "IDLE" /\ UNCHANGED revisions
    BY <1>8, EndEffect DEF ComparePlan
  <2>2. SetStatus(session[a].id, "COMPLETED") \/ UNCHANGED plan
    BY <1>8 DEF ComparePlan
  <2>3. SetStatus(session[a].id, "COMPLETED") => ResultsStay
    BY <2>1, StatusKeepsResults DEF PlanStatuses
  <2> QED BY <1>0, <2>1, <2>2, <2>3, ResultsUntouched
<1>9. ASSUME NEW p \in Plans, TakeReinspection(a, p)
      PROVE  RevisionsInv'
  BY <1>0, <1>9, BeginEffect DEF TakeReinspection, Receive, planRows
<1>10. CASE InspectRevision(a)
  <2>1. OthersStay(a) /\ session'[a].op \in {"REINSPECT", "IDLE"}
    BY <1>10, GotoPlace, EndEffect DEF InspectRevision, At
  <2> QED BY <1>0, <1>10, <2>1 DEF InspectRevision
<1>11. ASSUME NEW p \in Plans, a \in Workers, TakeCorrection(a, p)
       PROVE  RevisionsInv'
  <2>1. PICK s : s = session'[a]
    OBVIOUS
  <2>2. /\ OthersStay(a) /\ s.op = "CORRECT" /\ s.at = "loaded" /\ s.id = p
        /\ s.plan = plan[p]
    BY <1>11, <2>1, BeginEffect DEF TakeCorrection, Receive
  <2>3. Correcting(a, s)
    BY <1>11, <2>2 DEF Correcting
  <2>4. ResultsStay
    BY <1>11 DEF TakeCorrection, planRows, ResultsStay, RevisionsInv
  <2> QED BY <2>1, <2>2, <2>3, <2>4, ResultsKept DEF OthersStay
<1>12. CASE StartCorrection(a)
  <2>1. PICK s : s = session'[a]
    OBVIOUS
  <2>2. session[a].op = "CORRECT" /\ session[a].at = "loaded" /\ session[a].plan.result = 0
    BY <1>12 DEF StartCorrection, At, Rendered
  <2>3. OthersStay(a) /\ s = [session[a] EXCEPT !.at = "correcting"]
    BY <1>12, <2>1, GotoEffect DEF StartCorrection
  <2>4. s.op = "CORRECT" /\ s.at = "correcting" /\ s.id = session[a].id
    BY <2>2, <2>3 DEF Shaped
  <2>5. Correcting(a, s)
    BY <2>2, <2>4 DEF RevisionsInv, Correcting
  <2>6. ResultsStay
    BY <1>12, StatusKeepsResults DEF StartCorrection, PlanStatuses
  <2> QED BY <2>1, <2>3, <2>5, <2>6, ResultsKept DEF OthersStay
<1>13. CASE RenderRevision(a)
  <2>1. PICK p : p = session[a].id
    OBVIOUS
  <2>2. /\ session[a].op = "CORRECT" /\ session[a].at = "correcting"
        /\ a \in Workers /\ p \in Plans /\ plan[p].result = 0
    BY <1>13, <2>1 DEF RenderRevision, At, RevisionsInv, Correcting
  <2>3. PICK n \in Nat \ {0} : n = NextNumber
    OBVIOUS
  <2>4. /\ revisions' = [revisions EXCEPT ![p] = @ \cup {n}]
        /\ plan' = [plan EXCEPT ![p].status = "REINSPECTING", ![p].result = n]
        /\ Goto(a, "corrected")
    BY <1>13, <2>1, <2>3 DEF RenderRevision
  <2>5. PICK r : r = [plan[p] EXCEPT !.status = "REINSPECTING"]
    OBVIOUS
  <2>6. r \in PlanRow
    BY <2>2, <2>5 DEF RevisionsInv, PlanRow, PlanStatuses
  <2>7. PICK row : row = [r EXCEPT !.result = n]
    OBVIOUS
  <2>8. row \in PlanRow /\ row.result = n /\ row.status = "REINSPECTING"
    BY <2>2, <2>3, <2>5, <2>6, <2>7 DEF PlanRow, RevisionsInv
  <2>9. plan' = [plan EXCEPT ![p] = row]
    BY <2>2, <2>4, <2>5, <2>7 DEF RevisionsInv
  <2>10. plan' \in [Plans -> PlanRow]
    BY <2>8, <2>9 DEF RevisionsInv
  <2>11. revisions' \in [Plans -> SUBSET Nat]
    BY <2>3, <2>4 DEF RevisionsInv
  <2>12. OneRevision'
    <3>1. revisions[p] = {}
      BY <2>2 DEF RevisionsInv, OneRevision
    <3>2. revisions'[p] = {n} /\ plan'[p].result = n
      BY <2>2, <2>4, <2>8, <2>9, <3>1 DEF RevisionsInv
    <3>3. \A q \in Plans \ {p} : revisions'[q] = revisions[q] /\ plan'[q] = plan[q]
      BY <2>4, <2>9 DEF RevisionsInv
    <3> QED BY <2>3, <3>2, <3>3 DEF RevisionsInv, OneRevision
  <2>13. \A q \in Plans : plan'[q].status = "ABSENT" => plan'[q].result = 0
    BY <2>8, <2>9 DEF RevisionsInv
  <2>14. ASSUME NEW b \in Actors
         PROVE  Correcting(b, session[b])'
    <3>1. PICK s : s = session'[b]
      OBVIOUS
    <3>2. CASE b = a
      <4>1. session'[a] = [session[a] EXCEPT !.at = "corrected"]
        BY <2>4, GotoEffect
      <4>2. s.id = p /\ s.at = "corrected"
        BY <2>1, <3>1, <3>2, <4>1 DEF Shaped
      <4> QED BY <2>2, <3>1, <3>2, <4>2 DEF Correcting
    <3>3. CASE b # a
      <4>1. s = session[b]
        BY <2>4, <3>1, <3>3, GotoEffect DEF OthersStay
      <4>2. s.op # "CORRECT"
        BY <2>2, <3>3, <4>1 DEF RevisionsInv, Correcting, OneWorker
      <4> QED BY <3>1, <4>2 DEF Correcting
    <3> QED BY <3>2, <3>3
  <2> QED BY <2>10, <2>11, <2>12, <2>13, <2>14 DEF RevisionsInv
<1> QED BY <1>1, <1>2, <1>3, <1>4, <1>5, <1>6, <1>7, <1>8, <1>9, <1>10, <1>11, <1>12, <1>13
        DEF PlanHandler, Correct

LEMMA RevisionsUntouched ==
  ASSUME RevisionsInv, UNCHANGED <<plan, revisions>>, NEW Ops, Confined(Ops),
         "CORRECT" \notin Ops
  PROVE  RevisionsInv'
<1>1. ASSUME NEW a \in Actors
      PROVE  session'[a] = session[a] \/ Correcting(a, session'[a])
  BY DEF Confined, Correcting
<1>2. ResultsStay
  BY DEF ResultsStay, RevisionsInv
<1> QED BY <1>1, <1>2, ResultsKept

LEMMA RevisionsInvIsEnough ==
  ASSUME RevisionsInv
  PROVE  OneRevision
  BY DEF RevisionsInv

-----------------------------------------------------------------------------
(* What a step of packages puts into the session of its actor.             *)

LEMMA PackageSessionsAre ==
  ASSUME PackagesInv, NEW a \in Actors, session[a].op \in PackageOps
  PROVE  session[a] \in PackageSessions
<1>1. PICK s : s = session[a]
  OBVIOUS
<1>2. SessionFine(s) /\ s.op \in PackageOps
  BY <1>1 DEF PackagesInv
<1>3. s \in PackageSessions
  BY <1>2
  DEF SessionFine, RequestFine, WriteFine, ReviewFine, Judgements, PackageOps, PackageSessions
<1> QED BY <1>1, <1>3

LEMMA PackagesPut ==
  ASSUME Shaped, NEW a \in Actors, PackagesInv, PackagesInv', PackageMessage \in Messages,
         session[a].op \in PackageOps => Carries(a, session[a]),
         \/ a \in Operators /\ PackagesHandler(a)
         \/ WriteUp(a)
         \/ a \in Workers /\ TakePackage(a)
  PROVE  Puts(a, PackageSessions)
<1>1. PICK s : s = session[a]
  OBVIOUS
<1>2. s.op \in PackageOps => s \in PackageSessions /\ Carries(a, s)
  BY <1>1, PackageSessionsAre
<1>3. PICK t : t = session'[a]
  OBVIOUS
<1>4. t.op \in PackageOps => t \in PackageSessions
  <2>1. SessionFine(session[a])'
    BY DEF PackagesInv
  <2> QED
    BY <1>3, <2>1
    DEF SessionFine, RequestFine, WriteFine, ReviewFine, Judgements, PackageOps, PackageSessions
<1>5. ASSUME t.op \in PackageOps, t.message = s.message, s.op \in PackageOps, UNCHANGED lost
      PROVE  Puts(a, PackageSessions)
  BY <1>2, <1>3, <1>4, <1>5 DEF Puts, Carries
<1>6. ASSUME NEW c, Begin(a, c), a \in Operators, c.op \in PackageOps, c.message = NoMessage,
             UNCHANGED lost
      PROVE  Puts(a, PackageSessions)
  <2>1. t = c
    BY <1>3, <1>6, BeginEffect
  <2> QED BY <1>4, <1>6, <2>1, CallPuts
<1>7. ASSUME NEW place, Goto(a, place), s.op \in PackageOps, UNCHANGED lost
      PROVE  Puts(a, PackageSessions)
  <2>1. t = [s EXCEPT !.at = place]
    BY <1>1, <1>3, <1>7, GotoEffect
  <2>2. t.op = s.op /\ t.message = s.message
    BY <1>2, <1>7, <2>1 DEF PackageSessions
  <2> QED BY <1>5, <1>7, <2>2
<1>8. ASSUME EndInException(a), s.op \in PackageOps
      PROVE  Puts(a, PackageSessions)
  BY <1>1, <1>2, <1>8, ExceptionPuts
<1>9. CASE a \in Operators /\ \E rerun \in BOOLEAN : LoadForPackage(a, rerun)
  BY <1>6, <1>9 DEF LoadForPackage, PackageOps
<1>10. CASE RequestPackage(a)
  <2>1. s.op = "PACKAGE" /\ UNCHANGED lost
    BY <1>1, <1>10 DEF RequestPackage, At
  <2>2. CASE Goto(a, "requested")
    BY <1>7, <2>1, <2>2 DEF PackageOps
  <2>3. CASE session' = [session EXCEPT ![a].at = "requested", ![a].copy = QueuedPackage]
    <3>1. t = [s EXCEPT !.at = "requested", !.copy = QueuedPackage]
      BY <1>1, <1>3, <2>3 DEF Shaped
    <3>2. t.op = s.op /\ t.message = s.message
      BY <1>2, <2>1, <3>1 DEF PackageSessions, PackageOps
    <3> QED BY <1>5, <2>1, <3>2 DEF PackageOps
  <2> QED BY <1>10, <2>2, <2>3 DEF RequestPackage
<1>11. CASE RequestCollides(a) \/ SendPackage(a) \/ ReviewPackage(a) \/ ReviewCollides(a)
  BY <1>11, EndPuts DEF RequestCollides, SendPackage, ReviewPackage, ReviewCollides
<1>12. CASE a \in Operators /\ \E g \in Generations, op \in {"EDIT", "APPROVED", "REJECTED"} :
               LoadForPackageReview(a, g, op)
  BY <1>6, <1>12 DEF LoadForPackageReview, PackageOps
<1>13. CASE SelectRevision(a)
  BY <1>13, StayPuts DEF SelectRevision
<1>14. CASE a \in Workers /\ TakePackage(a)
  <2>1. PICK c : /\ c = [op |-> "WRITE", at |-> "loaded", message |-> PackageMessage,
                         latest |-> LatestPackage, copy |-> Copied(LatestPackage)]
                 /\ Receive(a, PackageMessage, c)
    BY <1>14 DEF TakePackage
  <2>2. t = c
    BY <1>3, <2>1, BeginEffect DEF Receive
  <2>3. c \in PackageSessions
    BY <1>4, <2>1, <2>2 DEF PackageOps
  <2> QED BY <1>14, <2>1, <2>3, ReceivePuts
<1>15. CASE FirstPackage(a)
  <2>1. s.op = "WRITE"
    BY <1>1, <1>15 DEF FirstPackage, At
  <2>2. CASE session' = [session EXCEPT ![a].latest = 1, ![a].copy = QueuedPackage]
             /\ UNCHANGED lost
    <3>1. t = [s EXCEPT !.latest = 1, !.copy = QueuedPackage]
      BY <1>1, <1>3, <2>2 DEF Shaped
    <3>2. t.op = s.op /\ t.message = s.message
      BY <1>2, <2>1, <3>1 DEF PackageSessions, PackageOps
    <3> QED BY <1>5, <2>1, <2>2, <3>2 DEF PackageOps
  <2>3. CASE EndInException(a)
    BY <1>8, <2>1, <2>3 DEF PackageOps
  <2> QED BY <1>15, <2>2, <2>3 DEF FirstPackage
<1>16. CASE LeavePackage(a) \/ WritePackage(a)
  BY <1>16, EndPuts DEF LeavePackage, WritePackage
<1>17. CASE StartPackage(a)
  BY <1>1, <1>7, <1>17 DEF StartPackage, At, PackageOps
<1>18. CASE PackageFails(a)
  BY <1>1, <1>8, <1>18 DEF PackageFails, At, PackageOps
<1> QED BY <1>9, <1>10, <1>11, <1>12, <1>13, <1>14, <1>15, <1>16, <1>17, <1>18
    DEF PackagesHandler, WriteUp

-----------------------------------------------------------------------------
(* And of media.                                                           *)

MediaKnown(a) ==
    session[a].op \in {"CLEANUP", "INSPECTION", "UNINSPECT", "INSPECT"}
      => session[a] \in MediaSessions /\ Carries(a, session[a])

LEMMA LatestIsTyped ==
  ASSUME inspection \in [Inspections -> InspectionStatuses]
  PROVE  /\ LatestInspection \in 0..MaxInspections
         /\ Inspected(LatestInspection) \in InspectionStatuses
         /\ LatestInspection = 0 => Inspected(LatestInspection) = "ABSENT"
         /\ Inspected(LatestInspection) # "ABSENT" => LatestInspection \in Inspections
<1>1. PICK v \in 0..MaxInspections : v = LatestInspection
  BY LatestIsFound
<1>2. v # 0 => v \in Inspections
  BY <1>1, RetentionAssumption DEF Inspections
<1> QED BY <1>1, <1>2 DEF Inspected, InspectionStatuses

LEMMA InspectionsPut ==
  ASSUME Shaped, NEW w \in Actors, MediaKnown(w), MediaTypeOK, Inspect(w)
  PROVE  Puts(w, MediaSessions)
<1>1. PICK s : s = session[w]
  OBVIOUS
<1>2. s.op = "INSPECT" /\ s \in MediaSessions /\ Carries(w, s)
  BY <1>1
  DEF MediaKnown, Inspect, RequestInTask, LoadMedia, StartInspection, OpenMedia, Stage,
      EndInspection, Release, At
<1>3. s.message = InspectMessage
  BY <1>2 DEF MediaSessions
<1>4. ASSUME NEW t \in MediaSessions, session'[w] = t, t.message = InspectMessage, UNCHANGED lost
      PROVE  Puts(w, MediaSessions)
  BY <1>2, <1>3, <1>4 DEF Puts, Carries
<1>5. ASSUME NEW t \in MediaSessions, Begin(w, t), t.message = InspectMessage, UNCHANGED lost
      PROVE  Puts(w, MediaSessions)
  BY <1>4, <1>5, BeginEffect
<1>6. ASSUME NEW place, Goto(w, place), UNCHANGED lost, s.at \notin {"loaded", "requested"},
             place \in {"opening", "sampling", "reporting", "completing", "releasing", "aborting"}
      PROVE  Puts(w, MediaSessions)
  <2>1. PICK t : t = [s EXCEPT !.at = place]
    OBVIOUS
  <2>2. t \in MediaSessions /\ t.message = InspectMessage
    BY <1>2, <1>6, <2>1 DEF MediaSessions
  <2> QED BY <1>1, <1>4, <1>6, <2>1, <2>2, GotoEffect
<1>7. EndInException(w) => Puts(w, MediaSessions)
  BY <1>1, <1>2, ExceptionPuts
<1>8. Completed \in MediaSessions /\ Completed.message = InspectMessage
  BY DEF Completed, MediaSessions
<1>9. End(w) /\ UNCHANGED lost => Puts(w, MediaSessions)
  BY EndPuts
<1>10. CASE RequestInTask(w)
  <2>1. s.at = "loaded"
    BY <1>1, <1>10 DEF RequestInTask, At
  <2>2. /\ s \in [op : {"INSPECT"}, at : {"loaded", "requested"}, message : {InspectMessage},
                  latest : 0..MaxInspections, status : InspectionStatuses, rerun : {FALSE}]
        /\ s.latest = 0 => s.status = "ABSENT"
    BY <1>2, <2>1 DEF MediaSessions
  <2>3. CASE Goto(w, "requested") /\ s.status = "QUEUED" /\ UNCHANGED lost
    <3>1. PICK t : t = [s EXCEPT !.at = "requested"]
      OBVIOUS
    <3>2. t \in MediaSessions /\ t.message = InspectMessage
      BY <2>2, <2>3, <3>1 DEF MediaSessions
    <3> QED BY <1>1, <1>4, <2>3, <3>1, <3>2, GotoEffect
  <2>4. CASE /\ session' = [session EXCEPT ![w].at = "requested", ![w].latest = @ + 1]
             /\ s.latest < MaxInspections /\ UNCHANGED lost
    <3>1. PICK n \in 1..MaxInspections : n = s.latest + 1
      BY <2>2, <2>4, RetentionAssumption
    <3>2. PICK t : t = [s EXCEPT !.at = "requested", !.latest = n]
      OBVIOUS
    <3>3. session'[w] = t
      BY <1>1, <2>4, <3>1, <3>2 DEF Shaped
    <3>4. n \in 0..MaxInspections /\ n # 0
      BY <3>1, RetentionAssumption
    <3>5. t \in [op : {"INSPECT"}, at : {"loaded", "requested"}, message : {InspectMessage},
                 latest : 0..MaxInspections, status : InspectionStatuses, rerun : {FALSE}]
      BY <2>2, <3>2, <3>4
    <3>6. t.latest # 0 /\ t.message = InspectMessage
      BY <2>2, <3>2, <3>4
    <3>7. t \in MediaSessions
      BY <3>5, <3>6 DEF MediaSessions
    <3> QED BY <1>4, <2>4, <3>3, <3>6, <3>7
  <2> QED BY <1>1, <1>5, <1>7, <1>8, <1>9, <1>10, <2>3, <2>4 DEF RequestInTask, AddInspection
<1>11. CASE LoadMedia(w)
  <2>1. s.at = "requested"
    BY <1>1, <1>11 DEF LoadMedia, At
  <2>2. s.latest \in Inspections
    <3>1. s.latest \in 0..MaxInspections /\ s.latest # 0
      BY <1>2, <2>1 DEF MediaSessions
    <3> QED BY <3>1, RetentionAssumption DEF Inspections
  <2>3. PICK t : t = [op |-> "INSPECT", at |-> "starting", message |-> InspectMessage,
                      latest |-> s.latest, held |-> WasHeld]
    OBVIOUS
  <2>4. t \in MediaSessions /\ t.message = InspectMessage
    BY <2>2, <2>3 DEF MediaSessions, WasHeld
  <2> QED BY <1>1, <1>5, <1>11, <2>3, <2>4 DEF LoadMedia
<1>12. CASE StartInspection(w)
  BY <1>1, <1>6, <1>7, <1>12 DEF StartInspection, At
<1>13. CASE OpenMedia(w)
  BY <1>1, <1>6, <1>13 DEF OpenMedia, At
<1>14. CASE Stage(w)
  BY <1>1, <1>6, <1>14 DEF Stage, At
<1>15. CASE \E outcome \in {"COMPLETED", "FAILED"} : EndInspection(w, outcome)
  BY <1>1, <1>6, <1>15 DEF EndInspection, At
<1>16. CASE Release(w)
  BY <1>5, <1>7, <1>8, <1>9, <1>16 DEF Release
<1> QED BY <1>10, <1>11, <1>12, <1>13, <1>14, <1>15, <1>16 DEF Inspect

LEMMA MediaPuts ==
  ASSUME Shaped, NEW a \in Actors, MediaKnown(a), MediaTypeOK,
         InspectMessage \in Messages, CleanupMessage \in Messages,
         \/ a \in Operators /\ MediaHandler(a)
         \/ CleanUp(a)
         \/ a \in Workers /\ (TakeInspection(a) \/ TakeCleanup(a))
  PROVE  Puts(a, MediaSessions)
<1>1. PICK s : s = session[a]
  OBVIOUS
<1>2. s.op \in {"CLEANUP", "INSPECTION", "UNINSPECT", "INSPECT"}
        => s \in MediaSessions /\ Carries(a, s)
  BY <1>1 DEF MediaKnown
<1>3. /\ LatestInspection \in 0..MaxInspections
      /\ Inspected(LatestInspection) \in InspectionStatuses
      /\ LatestInspection = 0 => Inspected(LatestInspection) = "ABSENT"
      /\ Inspected(LatestInspection) # "ABSENT" => LatestInspection \in Inspections
  BY LatestIsTyped DEF MediaTypeOK
<1>4. ASSUME NEW t \in MediaSessions, session'[a] = t, t.message = s.message, UNCHANGED lost,
             s.op \in {"CLEANUP", "INSPECTION"}
      PROVE  Puts(a, MediaSessions)
  BY <1>2, <1>4 DEF Puts, Carries
<1>5. ASSUME NEW place \in {"deleting", "recording"}, Goto(a, place), s.op = "CLEANUP",
             UNCHANGED lost
      PROVE  Puts(a, MediaSessions)
  <2>1. PICK t : t = [s EXCEPT !.at = place]
    OBVIOUS
  <2>2. t \in MediaSessions /\ t.message = s.message
    BY <1>2, <1>5, <2>1 DEF MediaSessions
  <2> QED BY <1>1, <1>4, <1>5, <2>1, <2>2, GotoEffect
<1>6. ASSUME NEW m \in {NoMessage, CleanupMessage}
      PROVE  Pass(m) \in MediaSessions /\ Pass(m).message = m
  BY DEF Pass, MediaSessions, MediaTypeOK
<1>7. CASE \/ IssueGrant(a) \/ AccessMedia(a) \/ ExtendRetention(a) \/ DecideClip(a)
           \/ \E enabled \in BOOLEAN : SetHold(a, enabled)
  BY <1>7, StayPuts DEF IssueGrant, AccessMedia, ExtendRetention, DecideClip, SetHold
<1>8. CASE a \in Operators /\ CallCleanup(a)
  BY <1>6, <1>8, CallPuts DEF CallCleanup
<1>9. CASE a \in Operators /\ \E rerun \in BOOLEAN : LoadForInspection(a, rerun)
  <2>1. PICK rerun \in BOOLEAN : LoadForInspection(a, rerun)
    BY <1>9
  <2>2. PICK t : t = Requesting("INSPECTION", NoMessage, rerun)
    OBVIOUS
  <2>3. t \in MediaSessions /\ t.message = NoMessage
    BY <1>3, <2>2 DEF Requesting, MediaSessions
  <2> QED BY <1>9, <2>1, <2>2, <2>3, CallPuts DEF LoadForInspection
<1>10. CASE RequestInspection(a)
  <2>1. s.op = "INSPECTION" /\ s.at = "loaded" /\ UNCHANGED lost
    BY <1>1, <1>10 DEF RequestInspection, At
  <2>2. PICK status : /\ status = s.status \/ status = "QUEUED"
                      /\ session' = [session EXCEPT ![a].at = "requested", ![a].status = status]
    <3>1. CASE Returns(s)
      BY <1>1, <1>10, <3>1 DEF RequestInspection
    <3>2. CASE ~Returns(s)
      BY <1>1, <1>10, <3>2 DEF RequestInspection
    <3> QED BY <3>1, <3>2
  <2>3. PICK t : t = [s EXCEPT !.at = "requested", !.status = status]
    OBVIOUS
  <2>4. session'[a] = t
    BY <1>1, <2>2, <2>3 DEF Shaped
  <2>5. t \in MediaSessions /\ t.message = s.message
    BY <1>2, <2>1, <2>2, <2>3 DEF MediaSessions, InspectionStatuses
  <2> QED BY <1>4, <2>1, <2>4, <2>5
<1>11. CASE InspectionExists(a) \/ SendInspection(a) \/ CancelInspection(a)
  BY <1>11, EndPuts DEF InspectionExists, SendInspection, CancelInspection
<1>12. CASE a \in Operators /\ LoadForCancelling(a)
  <2>1. PICK t : t = [op |-> "UNINSPECT", at |-> "loaded", message |-> NoMessage,
                      latest |-> LatestInspection]
    OBVIOUS
  <2>2. LatestInspection \in Inspections
    BY <1>3, <1>12 DEF LoadForCancelling
  <2>3. t \in MediaSessions /\ t.message = NoMessage
    BY <2>1, <2>2 DEF MediaSessions
  <2> QED BY <1>12, <2>1, <2>3, CallPuts DEF LoadForCancelling
<1>13. CASE Judge(a) \/ DeleteFile(a)
  BY <1>1, <1>5, <1>13, EndPuts DEF Judge, DeleteFile, At
<1>14. CASE DeletionFails(a) \/ RecordDeletion(a)
  <2>1. s.op = "CLEANUP"
    BY <1>1, <1>14 DEF DeletionFails, RecordDeletion, At
  <2> QED BY <1>1, <1>2, <1>14, <2>1, EndPuts, ExceptionPuts DEF DeletionFails, RecordDeletion
<1>15. CASE a \in Workers /\ TakeInspection(a)
  <2>1. PICK t : t = Requesting("INSPECT", InspectMessage, FALSE)
    OBVIOUS
  <2>2. t \in MediaSessions /\ t.message = InspectMessage
    BY <1>3, <2>1 DEF Requesting, MediaSessions
  <2> QED BY <1>15, <2>1, <2>2, ReceivePuts DEF TakeInspection
<1>16. CASE a \in Workers /\ TakeCleanup(a)
  BY <1>6, <1>16, ReceivePuts DEF TakeCleanup
<1> QED BY <1>7, <1>8, <1>9, <1>10, <1>11, <1>12, <1>13, <1>14, <1>15, <1>16
    DEF MediaHandler, CleanUp

-----------------------------------------------------------------------------
(* Plans keep their types, and what a step of theirs puts there.           *)

CorrectionOps ==
    {"PLAN", "TICK", "SUBMIT", "CONFIRM", "WITHDRAW", "COMPARE", "ADOPT", "CORRECT", "REINSPECT"}

PlanKnown(a) ==
    session[a].op \in CorrectionOps => session[a] \in PlanSessions /\ Carries(a, session[a])

LEMMA LatestPlanIsFound ==
  LatestPlan \in 0..MaxPlans
<1> DEFINE Last(x) == /\ x > 0 => plan[x].status # "ABSENT"
                      /\ \A q \in (x + 1)..MaxPlans : plan[q].status = "ABSENT"
<1>1. MaxPlans \in Nat
  BY CorrectionsAssumption
<1>2. \E x \in 0..MaxPlans : Last(x)
  <2>1. PICK S : S = {x \in Plans : plan[x].status # "ABSENT"}
    OBVIOUS
  <2>2. PICK x \in 0..MaxPlans : (x > 0 => x \in S) /\ \A u \in (x + 1)..MaxPlans : u \notin S
    BY <1>1, LastNumber
  <2>3. \A u \in (x + 1)..MaxPlans : u \in Plans
    BY <1>1 DEF Plans
  <2> QED BY <2>1, <2>2, <2>3
<1> HIDE DEF Last
<1>3. (CHOOSE x \in 0..MaxPlans : Last(x)) \in 0..MaxPlans
  BY <1>2
<1> QED BY <1>3 DEF Last, LatestPlan

LEMMA CorrectionsKeepTypes ==
  ASSUME Shaped, NEW a \in Actors, PlanKnown(a), CorrectionsTypeOK, NextNumber \in Nat \ {0},
         \A p \in Plans : {CorrectMessage(p), ReinspectMessage(p)} \subseteq Messages,
         \/ a \in Operators /\ (PlanHandler(a) \/ AdoptRevision(a))
         \/ Correct(a)
         \/ a \in Workers /\ \E p \in Plans : TakeCorrection(a, p) \/ TakeReinspection(a, p)
  PROVE  CorrectionsTypeOK' /\ Puts(a, PlanSessions)
<1>1. PICK s : s = session[a]
  OBVIOUS
<1>2. s.op \in CorrectionOps => s \in PlanSessions /\ Carries(a, s)
  BY <1>1 DEF PlanKnown
<1>3. UNCHANGED planRows => CorrectionsTypeOK'
  BY DEF planRows, CorrectionsTypeOK
<1>4. ASSUME NEW p, NEW status \in PlanStatuses, SetStatus(p, status), UNCHANGED <<revisions, reinspected>>
      PROVE  CorrectionsTypeOK'
  <2>1. ASSUME NEW q \in Plans PROVE plan'[q] \in Plan
    <3>1. PICK row \in Plan : row = plan[q]
      BY DEF CorrectionsTypeOK
    <3>2. [row EXCEPT !.status = status] \in Plan
      BY Zenon DEF Plan
    <3>3. plan'[q] = row \/ plan'[q] = [row EXCEPT !.status = status]
      BY <1>4, <3>1 DEF SetStatus, CorrectionsTypeOK
    <3> QED BY <3>2, <3>3
  <2>2. plan' = [q \in Plans |-> plan'[q]]
    BY <1>4 DEF SetStatus, CorrectionsTypeOK
  <2> QED BY <1>4, <2>1, <2>2 DEF CorrectionsTypeOK
<1>5. ASSUME NEW place, Goto(a, place), UNCHANGED lost, s.op \in CorrectionOps,
             \/ s.op = "CONFIRM" /\ place = "confirmed"
             \/ s.op = "CORRECT" /\ place \in {"correcting", "corrected"}
             \/ s.op = "REINSPECT" /\ place = "reinspected"
      PROVE  Puts(a, PlanSessions)
  <2>1. PICK t : t = [s EXCEPT !.at = place]
    OBVIOUS
  <2>2. t \in PlanSessions /\ t.message = s.message
    BY <1>2, <1>5, <2>1 DEF PlanSessions
  <2>3. Carries(a, t)
    BY <1>2, <1>5, <2>2 DEF Carries
  <2> QED BY <1>1, <1>5, <2>1, <2>2, <2>3, GotoPuts
<1>6. CASE a \in Operators /\ LoadForPlan(a)
  <2>1. PICK t : t = [op |-> "PLAN", at |-> "loaded", message |-> NoMessage, latest |-> LatestPlan]
    OBVIOUS
  <2>2. t \in PlanSessions /\ t.message = NoMessage
    BY <2>1, LatestPlanIsFound DEF PlanSessions
  <2> QED BY <1>3, <1>6, <2>1, <2>2, CallPuts DEF LoadForPlan
<1>7. CASE CreatePlan(a)
  <2>1. plan' = plan \/ \E p : \E selected \in BOOLEAN :
           plan' = [plan EXCEPT ![p] =
                      [status |-> "DRAFT", selected |-> selected, result |-> 0]]
    BY <1>7 DEF CreatePlan
  <2>2. \A selected \in BOOLEAN :
           [status |-> "DRAFT", selected |-> selected, result |-> 0] \in Plan
    BY ProductionAssumption DEF Plan, PlanStatuses
  <2>3. plan' \in [Plans -> Plan]
    BY <2>1, <2>2 DEF CorrectionsTypeOK
  <2> QED BY <1>7, <2>3, EndPuts DEF CreatePlan, CorrectionsTypeOK
<1>8. CASE /\ a \in Operators
           /\ \E p \in Plans, op \in {"TICK", "SUBMIT", "CONFIRM", "WITHDRAW", "COMPARE", "ADOPT"} :
                 LoadPlan(a, p, op)
  <2>1. PICK p \in Plans, op \in {"TICK", "SUBMIT", "CONFIRM", "WITHDRAW", "COMPARE", "ADOPT"} :
           LoadPlan(a, p, op)
    BY <1>8
  <2>2. PICK t : t = [op |-> op, at |-> "plan", message |-> NoMessage, id |-> p, plan |-> plan[p]]
    OBVIOUS
  <2>3. plan[p] \in Plan
    BY DEF CorrectionsTypeOK
  <2>4. t \in PlanSessions /\ t.message = NoMessage
    BY <2>2, <2>3 DEF PlanSessions
  <2> QED BY <1>3, <1>8, <2>1, <2>2, <2>4, CallPuts DEF LoadPlan
<1>9. CASE SelectAction(a)
  <2>1. PICK selected \in BOOLEAN : plan' = [plan EXCEPT ![s.id].selected = selected]
    BY <1>1, <1>9 DEF SelectAction
  <2>2. ASSUME NEW q \in Plans PROVE plan'[q] \in Plan
    <3>1. PICK row \in Plan : row = plan[q]
      BY DEF CorrectionsTypeOK
    <3>2. [row EXCEPT !.selected = selected] \in Plan
      BY Zenon DEF Plan
    <3>3. plan'[q] = row \/ plan'[q] = [row EXCEPT !.selected = selected]
      BY <2>1, <3>1 DEF CorrectionsTypeOK
    <3> QED BY <3>2, <3>3
  <2>3. plan' = [q \in Plans |-> plan'[q]]
    BY <2>1 DEF CorrectionsTypeOK
  <2> QED BY <1>9, <2>2, <2>3, EndPuts DEF SelectAction, CorrectionsTypeOK
<1>10. CASE SubmitPlan(a) \/ CancelPlan(a) \/ CorrectionFails(a) \/ CompletePlan(a)
  BY <1>4, <1>10, EndPuts DEF SubmitPlan, CancelPlan, CorrectionFails, CompletePlan, PlanStatuses
<1>11. CASE ConfirmPlan(a) \/ StartCorrection(a)
  BY <1>1, <1>4, <1>5, <1>11 DEF ConfirmPlan, StartCorrection, At, PlanStatuses, CorrectionOps
<1>12. CASE \/ SendCorrection(a) \/ AdoptRevision(a) \/ LeaveCorrection(a) \/ RefuseCorrection(a)
            \/ SendReinspection(a)
  BY <1>3, <1>12, EndPuts
  DEF SendCorrection, AdoptRevision, LeaveCorrection, RefuseCorrection, SendReinspection
<1>13. CASE ComparePlan(a)
  <2>1. SetStatus(s.id, "COMPLETED") \/ UNCHANGED plan
    BY <1>1, <1>13 DEF ComparePlan
  <2> QED BY <1>3, <1>4, <1>13, <2>1, EndPuts DEF ComparePlan, PlanStatuses, planRows
<1>14. CASE a \in Workers /\ \E p \in Plans : TakeCorrection(a, p)
  <2>1. PICK p \in Plans : TakeCorrection(a, p)
    BY <1>14
  <2>2. PICK t : t = [op |-> "CORRECT", at |-> "loaded", message |-> CorrectMessage(p), id |-> p,
                      plan |-> plan[p]]
    OBVIOUS
  <2>3. plan[p] \in Plan
    BY DEF CorrectionsTypeOK
  <2>4. t \in PlanSessions /\ t.message = CorrectMessage(p)
    BY <2>2, <2>3 DEF PlanSessions
  <2> QED BY <1>3, <1>14, <2>1, <2>2, <2>4, ReceivePuts DEF TakeCorrection
<1>15. CASE a \in Workers /\ \E p \in Plans : TakeReinspection(a, p)
  <2>1. PICK p \in Plans : TakeReinspection(a, p)
    BY <1>15
  <2>2. PICK t : t = [op |-> "REINSPECT", at |-> "loaded", message |-> ReinspectMessage(p),
                      id |-> p]
    OBVIOUS
  <2>3. t \in PlanSessions /\ t.message = ReinspectMessage(p)
    BY <2>2 DEF PlanSessions
  <2> QED BY <1>3, <1>15, <2>1, <2>2, <2>3, ReceivePuts DEF TakeReinspection
<1>16. CASE RenderRevision(a)
  <2>1. PICK n \in 1..MaxClips : n = NextNumber
    BY <1>16, ProductionAssumption DEF RenderRevision
  <2>2. plan' = [plan EXCEPT ![s.id].status = "REINSPECTING", ![s.id].result = n]
        /\ revisions' = [revisions EXCEPT ![s.id] = @ \cup {n}]
    BY <1>1, <1>16, <2>1 DEF RenderRevision
  <2>3. n \in 0..MaxClips
    BY <2>1, ProductionAssumption
  <2>4. ASSUME NEW q \in Plans PROVE plan'[q] \in Plan
    <3>1. PICK row \in Plan : row = plan[q]
      BY DEF CorrectionsTypeOK
    <3>2. [row EXCEPT !.status = "REINSPECTING", !.result = n] \in Plan
      <4>1. "REINSPECTING" \in PlanStatuses
        BY DEF PlanStatuses
      <4> QED BY <2>3, <4>1, Zenon DEF Plan
    <3>3. plan'[q] = row \/ plan'[q] = [row EXCEPT !.status = "REINSPECTING", !.result = n]
      BY <2>2, <3>1 DEF CorrectionsTypeOK
    <3> QED BY <3>2, <3>3
  <2>5. plan' = [q \in Plans |-> plan'[q]]
    BY <2>2 DEF CorrectionsTypeOK
  <2>6. revisions' \in [Plans -> SUBSET (1..MaxClips)]
    BY <2>1, <2>2 DEF CorrectionsTypeOK
  <2>7. CorrectionsTypeOK'
    BY <1>16, <2>4, <2>5, <2>6 DEF RenderRevision, CorrectionsTypeOK
  <2> QED BY <1>1, <1>5, <1>16, <2>7 DEF RenderRevision, At, CorrectionOps
<1>17. CASE InspectRevision(a)
  <2>1. s.op = "REINSPECT" /\ UNCHANGED <<plan, revisions, lost>>
    BY <1>1, <1>17 DEF InspectRevision, At
  <2>2. s.id \in Plans
    BY <1>2, <2>1 DEF PlanSessions, CorrectionOps
  <2>3. CorrectionsTypeOK'
    BY <1>1, <1>17, <2>1, <2>2 DEF InspectRevision, CorrectionsTypeOK
  <2> QED BY <1>5, <1>17, <2>1, <2>3, EndPuts DEF InspectRevision, CorrectionOps
<1> QED BY <1>6, <1>7, <1>8, <1>9, <1>10, <1>11, <1>12, <1>13, <1>14, <1>15, <1>16, <1>17
    DEF PlanHandler, Correct
=============================================================================
