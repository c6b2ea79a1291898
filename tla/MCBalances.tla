----------------------------- MODULE MCBalances -----------------------------
(* An instance of Balances for TLC.                                         *)
EXTENDS Balances

CONSTANTS a, b, c, t1, t2

(* None, distinct vaults in some order, and a vault that is named twice.    *)
SomeInputs == {<<>>, <<a>>, <<b, a>>, <<a, b, c>>, <<a, a, b>>, <<b, a, b>>}

(* No log, a log of sUSDC alone, logs of three contracts at the ends of     *)
(* windows and below the depth of a scan, and windows with more logs of a   *)
(* way than the explorer gives, some of them in one block, one of them a    *)
(* transfer of the address to itself.                                       *)
LogOf(n, i, t, ways) == [block |-> n, index |-> i, contract |-> t, ways |-> ways]
SomeActivity ==
    {{},
     {LogOf(2, 0, SUSDC, {"received"})},
     {LogOf(1, 0, t1, {"received"}), LogOf(4, 0, t2, {"sent"}),
      LogOf(5, 0, SUSDC, {"sent"}), LogOf(7, 0, t1, {"received"})},
     {LogOf(3, 0, t1, {"received"}), LogOf(3, 1, t1, {"received"}),
      LogOf(4, 0, t2, {"received"}), LogOf(6, 0, SUSDC, {"sent", "received"}),
      LogOf(7, 0, t2, {"sent"})}}

SomeLists == {{}, {SUSDC, t1}}
=============================================================================
