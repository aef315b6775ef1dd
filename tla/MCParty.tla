------------------------------ MODULE MCParty -------------------------------
(* Party with four players and three addresses for parties.                     *)
EXTENDS Party, TLC

MCSymmetry == Permutations(Player) \cup Permutations(PartyId)
=============================================================================
