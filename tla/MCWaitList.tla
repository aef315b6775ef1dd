----------------------------- MODULE MCWaitList -----------------------------
(* Three players and room for one or two. *)
EXTENDS WaitList, TLC

MCGuidSymmetry == Permutations(Guid)
=============================================================================
