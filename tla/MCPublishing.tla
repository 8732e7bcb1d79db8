---------------------------- MODULE MCPublishing ----------------------------
(***************************************************************************)
(* Publishing on small instances: one clip for every request.  Requests,   *)
(* operators and workers are interchangeable in the safety runs.           *)
(***************************************************************************)
EXTENDS Publishing, TLC

OneClip == [r \in Requests |-> CHOOSE c \in Clips : TRUE]

Symmetry == Permutations(Requests) \cup Permutations(Operators)
                \cup Permutations(Workers)
=============================================================================
