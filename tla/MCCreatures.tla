----------------------------- MODULE MCCreatures -----------------------------
(* A player and two monsters in two rooms. *)
EXTENDS Creatures, TLC

MCSymmetry == {f @@ g : f \in Permutations(Monsters), g \in Permutations(Rooms)}
=============================================================================
