------------------------------ MODULE MCTrade ------------------------------
(* Three players, a bag in which stacks meet, three stacks, and tiles from   *)
(* which a step can leave one range or both.                                 *)
EXTENDS Trade, TLC

MCBagSize == [b \in Bags |-> 2]
MCSymmetry == {f @@ g : f \in Permutations(Players), g \in Permutations(Stacks)}
=============================================================================
