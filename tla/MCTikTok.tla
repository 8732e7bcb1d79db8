------------------------------ MODULE MCTikTok ------------------------------
(***************************************************************************)
(* TikTokPublishing on small instances; workers are interchangeable.       *)
(***************************************************************************)
EXTENDS TikTokPublishing, TLC

Symmetry == Permutations(Workers)
=============================================================================
