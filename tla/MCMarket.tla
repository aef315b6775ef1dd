----------------------------- MODULE MCMarket ------------------------------
(* Two players: one has the goods and the coins, the other has the gold. *)
EXTENDS Market

CONSTANTS p1, p2

MCPlayers == {p1, p2}
MCGold == [p \in MCPlayers |-> IF p = p1 THEN 0 ELSE 3]
MCItems == [p \in MCPlayers |-> IF p = p1 THEN 2 ELSE 0]
MCCoins == [p \in MCPlayers |-> IF p = p1 THEN 1 ELSE 0]
=============================================================================
