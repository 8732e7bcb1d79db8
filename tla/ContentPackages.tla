--------------------------- MODULE ContentPackages ---------------------------
(***************************************************************************)
(* The content packages of a rendered clip (title, description, tags):     *)
(* requested, written by a worker, edited and reviewed, and superseded by  *)
(* a new generation or by a corrected clip.                                *)
(*                                                                         *)
(* Source: app/content_packages/service.py, generate_content_package of    *)
(* app/worker.py, the content-package endpoints of app/api.py and the      *)
(* same operations of app/discord_bot.py, and select_revision of           *)
(* app/corrections/service.py.                                             *)
(*                                                                         *)
(* The version a reviewer expects is compared with a loaded copy; what     *)
(* keeps two commits from the same version apart are the constraints       *)
(* unique (content_package_id, version) of the history and unique          *)
(* (clip_id, generation_version) of the packages.                          *)
(***************************************************************************)
EXTENDS CeleryWorkers

CONSTANTS
    MaxPackages,        \* bound: generations of packages
    MaxPackageVersions  \* bound: review versions that people bring about

ASSUME PackagesAssumption == MaxPackages \in Nat \ {0} /\ MaxPackageVersions \in Nat

VARIABLES
    package,            \* content_packages by generation_version
    packageVersions     \* content_package_versions by generation_version

Generations == 1..MaxPackages

PackageStatuses ==
    {"ABSENT", "QUEUED", "GENERATING", "PENDING", "APPROVED", "REJECTED", "STALE"}

(* fields is fields_json, by the review version that wrote it.             *)
Package == [status : PackageStatuses, review_version : Nat, fields : Nat]

PackageVersion == [version : Nat, status : PackageStatuses, fields : Nat]

PackagesTypeOK ==
    /\ package \in [Generations -> Package]
    /\ \A g \in Generations : packageVersions[g] \subseteq PackageVersion

PackageMessage == [task |-> "generate_content_package"]

NoPackage == [status |-> "ABSENT", review_version |-> 0, fields |-> 0]
QueuedPackage == [status |-> "QUEUED", review_version |-> 1, fields |-> 0]

packageRows == <<package, packageVersions>>

(* _record_version: the insert of a package's next row of history, an      *)
(* error if another session has committed that version.  (Mutant: without  *)
(* the constraint.)                                                        *)
Unconstrained(g, version) == FALSE
Recorded(g, version) == \E row \in packageVersions[g] : row.version = version

RecordVersion(g, p) ==
    packageVersions' = [packageVersions EXCEPT ![g] = @ \cup
        {[version |-> p.review_version, status |-> p.status, fields |-> p.fields]}]

(* What the handlers and tasks here have in their sessions.                *)
PackageSessions ==
    [op : {"PACKAGE"}, at : {"loaded", "requested"}, message : {NoMessage},
     latest : 0..MaxPackages, copy : Package, rerun : BOOLEAN]
    \cup [op : {"WRITE"}, at : {"loaded", "writing"}, message : {PackageMessage},
          latest : 0..MaxPackages, copy : Package]
    \cup [op : {"EDIT", "APPROVED", "REJECTED"}, at : {"package"}, message : {NoMessage},
          latest : Generations, copy : Package]

-----------------------------------------------------------------------------
(* Requests.                                                               *)

LatestPackage == CHOOSE g \in 0..MaxPackages :
                    /\ g > 0 => package[g].status # "ABSENT"
                    /\ \A h \in (g + 1)..MaxPackages : package[h].status = "ABSENT"

Copied(g) == IF g = 0 THEN NoPackage ELSE package[g]

(* request_content_package_generation loads the latest package; a request  *)
(* to generate again is refused while one is being generated.              *)
LoadForPackage(o, rerun) ==
    /\ Free(o)
    /\ rerun => LatestPackage < MaxPackages
    /\ rerun => Copied(LatestPackage).status \notin {"QUEUED", "GENERATING"}
    /\ rerun => Copied(LatestPackage).review_version < MaxPackageVersions
    /\ Begin(o, [op |-> "PACKAGE", at |-> "loaded", message |-> NoMessage,
                 latest |-> LatestPackage, copy |-> Copied(LatestPackage), rerun |-> rerun])
    /\ UNCHANGED <<packageRows, messages, lost, faults>>

Adds(s) == s.latest = 0 \/ s.rerun
Renewed(s) == [s.copy EXCEPT !.status = "STALE", !.review_version = @ + 1]
Collides(s) ==
    \/ package[s.latest + 1].status # "ABSENT"
    \/ s.latest > 0 /\ Recorded(s.latest, Renewed(s).review_version)

(* One commit: the latest package is superseded, if there is one, and the  *)
(* next is queued.  A column whose copy has the value already is no part   *)
(* of the UPDATE.                                                          *)
RequestPackage(o) ==
    LET s == session[o]
        next == s.latest + 1
        Superseding == s.latest > 0
        row == [version |-> 1, status |-> "QUEUED", fields |-> 0]
    IN
    /\ At(o, "PACKAGE", "loaded")
    /\ Adds(s) => ~Collides(s)
    /\ IF Adds(s)
       THEN /\ package' = [g \in Generations |->
                  CASE g = next -> QueuedPackage
                    [] g = s.latest ->
                         [package[g] EXCEPT
                            !.status = IF s.copy.status = "STALE" THEN @ ELSE "STALE",
                            !.review_version = Renewed(s).review_version]
                    [] OTHER -> package[g]]
            /\ packageVersions' = [g \in Generations |->
                  CASE g = next -> {row}
                    [] g = s.latest -> packageVersions[g] \cup
                         {[version |-> Renewed(s).review_version, status |-> "STALE",
                           fields |-> s.copy.fields]}
                    [] OTHER -> packageVersions[g]]
            /\ session' = [session EXCEPT ![o].at = "requested", ![o].copy = QueuedPackage]
       ELSE Goto(o, "requested") /\ UNCHANGED packageRows
    /\ UNCHANGED <<messages, lost, faults>>

RequestCollides(o) ==
    /\ At(o, "PACKAGE", "loaded")
    /\ Adds(session[o]) /\ Collides(session[o])
    /\ End(o)
    /\ UNCHANGED <<packageRows, messages, lost, faults>>

(* The API sends the task in any case, the bot for a package that is       *)
(* queued.                                                                 *)
SendPackage(o) ==
    /\ At(o, "PACKAGE", "requested")
    /\ \/ messages' = Queued(PackageMessage)
       \/ session[o].copy.status # "QUEUED" /\ UNCHANGED messages
    /\ End(o)
    /\ UNCHANGED <<packageRows, lost, faults>>

-----------------------------------------------------------------------------
(* generate_content_package, in a worker.                                  *)

TakePackage(w) ==
    /\ Receive(w, PackageMessage,
               [op |-> "WRITE", at |-> "loaded", message |-> PackageMessage,
                latest |-> LatestPackage, copy |-> Copied(LatestPackage)])
    /\ UNCHANGED packageRows

(* The clip has no package: the task requests the first.                   *)
FirstPackage(w) ==
    /\ At(w, "WRITE", "loaded")
    /\ session[w].latest = 0
    /\ IF package[1].status = "ABSENT"
       THEN /\ package' = [package EXCEPT ![1] = QueuedPackage]
            /\ RecordVersion(1, QueuedPackage)
            /\ session' = [session EXCEPT ![w].latest = 1, ![w].copy = QueuedPackage]
            /\ UNCHANGED lost
       ELSE EndInException(w) /\ UNCHANGED packageRows
    /\ UNCHANGED <<messages, faults>>

LeavePackage(w) ==
    /\ At(w, "WRITE", "loaded")
    /\ session[w].copy.status \notin {"ABSENT", "QUEUED"}
    /\ End(w)
    /\ UNCHANGED <<packageRows, messages, lost, faults>>

StartPackage(w) ==
    /\ At(w, "WRITE", "loaded")
    /\ session[w].copy.status = "QUEUED"
    /\ package' = [package EXCEPT ![session[w].latest].status = "GENERATING"]
    /\ Goto(w, "writing")
    /\ UNCHANGED <<packageVersions, messages, lost, faults>>

Written(s) == LET v == s.copy.review_version + 1 IN
              [status |-> "PENDING", review_version |-> v, fields |-> v]

WritePackage(w) ==
    LET s == session[w] IN
    /\ At(w, "WRITE", "writing")
    /\ ~Recorded(s.latest, Written(s).review_version)
    /\ package' = [package EXCEPT ![s.latest] = Written(s)]
    /\ RecordVersion(s.latest, Written(s))
    /\ End(w)
    /\ UNCHANGED <<messages, lost, faults>>

(* The provider fails, or the version was taken meanwhile: rollback, and   *)
(* the row as it is by then is rejected; the exception ends the task.      *)
PackageFails(w) ==
    LET g == session[w].latest
        failed == [package[g] EXCEPT !.status = "REJECTED", !.review_version = @ + 1]
    IN
    /\ At(w, "WRITE", "writing")
    /\ package' = [package EXCEPT ![g] = failed]
    /\ RecordVersion(g, failed)
    /\ EndInException(w)
    /\ UNCHANGED <<messages, faults>>

-----------------------------------------------------------------------------
(* Reviews, by someone who has seen the version that the copy has.         *)

(* What a decision may be about.  (Mutant: anything written.)              *)
ReviewableOnce(status) == status \in {"PENDING", "APPROVED", "REJECTED"}
Reviewable(status) == status = "PENDING"
Editable(status) == status \in {"PENDING", "APPROVED", "REJECTED"}

LoadForPackageReview(o, g, op) ==
    /\ Free(o)
    /\ op = "EDIT" => Editable(package[g].status)
    /\ op # "EDIT" => Reviewable(package[g].status) /\ package[g].status # op
    /\ package[g].review_version < MaxPackageVersions
    /\ Begin(o, [op |-> op, at |-> "package", message |-> NoMessage,
                 latest |-> g, copy |-> package[g]])
    /\ UNCHANGED <<packageRows, messages, lost, faults>>

(* edit_content_package writes new fields and asks for a new review;       *)
(* decide_content_package enters a decision, its operation's name.         *)
Reviewed(s) ==
    LET v == s.copy.review_version + 1 IN
    IF s.op = "EDIT" THEN [status |-> "PENDING", review_version |-> v, fields |-> v]
                     ELSE [s.copy EXCEPT !.status = s.op, !.review_version = v]

ReviewPackage(o) ==
    LET s == session[o]
        new == Reviewed(session[o])
    IN
    /\ s.op \in {"EDIT", "APPROVED", "REJECTED"} /\ s.at = "package"
    /\ ~Recorded(s.latest, new.review_version)
    /\ package' = [package EXCEPT
                     ![s.latest].status = IF s.copy.status = new.status THEN @ ELSE new.status,
                     ![s.latest].review_version = new.review_version,
                     ![s.latest].fields = IF s.op = "EDIT" THEN new.fields ELSE @]
    /\ RecordVersion(s.latest, new)
    /\ End(o)
    /\ UNCHANGED <<messages, lost, faults>>

ReviewCollides(o) ==
    LET s == session[o] IN
    /\ s.op \in {"EDIT", "APPROVED", "REJECTED"} /\ s.at = "package"
    /\ Recorded(s.latest, Reviewed(s).review_version)
    /\ End(o)
    /\ UNCHANGED <<packageRows, messages, lost, faults>>

(* select_revision: the clip is replaced by a corrected one, and all its   *)
(* packages become STALE, under the version that they have.                *)
Outdated == [g \in Generations |->
               IF package[g].status = "ABSENT" THEN package[g]
               ELSE [package[g] EXCEPT !.status = "STALE"]]

SelectRevision(o) ==
    /\ Free(o)
    /\ package' = Outdated
    /\ UNCHANGED <<packageVersions, session, messages, lost, faults>>

-----------------------------------------------------------------------------
PackagesInit ==
    /\ package = [g \in Generations |-> NoPackage]
    /\ packageVersions = [g \in Generations |-> {}]

PackagesHandler(o) ==
    \/ \E rerun \in BOOLEAN : LoadForPackage(o, rerun)
    \/ RequestPackage(o) \/ RequestCollides(o) \/ SendPackage(o)
    \/ \E g \in Generations, op \in {"EDIT", "APPROVED", "REJECTED"} :
          LoadForPackageReview(o, g, op)
    \/ ReviewPackage(o) \/ ReviewCollides(o) \/ SelectRevision(o)

WriteUp(w) ==
    \/ FirstPackage(w) \/ LeavePackage(w) \/ StartPackage(w)
    \/ WritePackage(w) \/ PackageFails(w)

(* The history of a package has one row per version up to the current one, *)
(* and the last has the fields and the status of the row, unless a         *)
(* generation is under way or a corrected clip made it STALE: of           *)
(* concurrent edits and decisions on one version only one is entered.      *)
PackageHistory ==
    \A g \in Generations :
        LET p == package[g] IN
        /\ {v.version : v \in packageVersions[g]} = 1..p.review_version
        /\ Cardinality(packageVersions[g]) = p.review_version
        /\ p.review_version > 0 => \E v \in packageVersions[g] :
              /\ v.version = p.review_version /\ v.fields = p.fields
              /\ v.status = p.status \/ p.status \in {"GENERATING", "STALE"}

(* What reads APPROVED has the fields that a reviewer approved: they were  *)
(* pending under the version before, and nothing was written since.        *)
ReviewedIsApproved ==
    \A g \in Generations : package[g].status = "APPROVED" =>
        \E before, v \in packageVersions[g] :
            /\ v.version = package[g].review_version /\ v.status = "APPROVED"
            /\ before.version = v.version - 1 /\ before.status = "PENDING"
            /\ before.fields = v.fields /\ v.fields = package[g].fields
=============================================================================
