---------------------------- MODULE MCClobClient ----------------------------
(* The instance of ClobClient that TLC checks. *)
EXTENDS ClobClient, TLC

CONSTANTS o1, o2, o3

Limit(price, fee, tick, neg) ==
    [price |-> price, fee |-> fee, tick |-> tick, neg |-> neg, market |-> FALSE]
MCCallerArguments ==
    {Limit(45, 5, NoTick, FALSE), Limit(4, 0, 10, TRUE), Limit(97, 0, NoTick, FALSE),
     [Limit(0, 0, 1, FALSE) EXCEPT !.market = TRUE]}

Level(size, price) == [size |-> size, price |-> price]
MCDepthBooks ==
    {<<>>, <<Level(3, 6), Level(1, 5), Level(2, 3)>>,
     <<Level(1, 2), Level(2, 3), Level(2, 6)>>, <<Level(1, 2)>>}

MCSymmetry == Permutations(Orders)
=============================================================================
