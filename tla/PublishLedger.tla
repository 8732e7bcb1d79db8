---------------------------- MODULE PublishLedger ----------------------------
(***************************************************************************)
(* What publishing promises about the attempts on a request, without rows, *)
(* sessions, messages and workers.  Attempts are opened one number after   *)
(* the other and only once a person has confirmed; a video appears only    *)
(* under an open attempt; an attempt is closed once, and as a success only *)
(* when its video exists.                                                  *)
(***************************************************************************)
EXTENDS Integers

CONSTANTS
    Requests,   \* publish requests
    MaxRuns,    \* attempts a request can have
    Failures    \* the ways an attempt can fail

VARIABLES
    confirmed,  \* requests a person has confirmed
    attempts,   \* the state of every attempt
    posts       \* the attempts that made a video

vars == <<confirmed, attempts, posts>>

Init ==
    /\ confirmed = {}
    /\ attempts = [r \in Requests |-> [n \in 1..MaxRuns |-> "NONE"]]
    /\ posts = [r \in Requests |-> {}]

Confirm(r) ==
    /\ confirmed' = confirmed \cup {r}
    /\ UNCHANGED <<attempts, posts>>

Open(r, n) ==
    /\ r \in confirmed
    /\ \A m \in 1..MaxRuns : attempts[r][m] = "NONE" <=> m >= n
    /\ attempts' = [attempts EXCEPT ![r][n] = "STARTED"]
    /\ UNCHANGED <<confirmed, posts>>

Post(r, n) ==
    /\ attempts[r][n] = "STARTED"
    /\ posts' = [posts EXCEPT ![r] = @ \cup {n}]
    /\ UNCHANGED <<confirmed, attempts>>

Close(r, n) ==
    /\ attempts[r][n] = "STARTED"
    /\ \E outcome \in Failures \cup {"SUCCEEDED"} :
          /\ outcome = "SUCCEEDED" => n \in posts[r]
          /\ attempts' = [attempts EXCEPT ![r][n] = outcome]
    /\ UNCHANGED <<confirmed, posts>>

Next ==
    \E r \in Requests :
        \/ Confirm(r)
        \/ \E n \in 1..MaxRuns : Open(r, n) \/ Post(r, n) \/ Close(r, n)

Spec == Init /\ [][Next]_vars
=============================================================================
