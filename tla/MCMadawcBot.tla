----------------------------- MODULE MCMadawcBot -----------------------------
(* One binary market that ends at tick 2 or 3, orders of two lots at one tick.   *)
EXTENDS MadawcBot

MCPrices == {1, 4}
MCSizes == {2}
MCDepths == {0, 1, 2}
MCNoBid == {0}
MCBids == {0, 4}
MCEndSoon == [m \in Markets |-> m + 1]
MCEnd == [m \in Markets |-> m + 2]
=============================================================================
