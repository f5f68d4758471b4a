--------------------------- MODULE MCMadawcPaper ---------------------------
(* Two markets, both sides, two prices, orders of two lots: enough for a    *)
(* partial fill, a merge of both sides and a fill after a settlement.       *)
EXTENDS MadawcPaper

MCPrices == {1, 2}
MCSizes == {2}
MCDepths == {0, 1, 2}
=============================================================================
