----------------------------- MODULE MCSession ------------------------------
(* Two clients that race for one character. *)
EXTENDS Session, TLC

MCClientSymmetry == Permutations(Client)
=============================================================================
