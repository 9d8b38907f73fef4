----------------------------- MODULE MCStrategy -----------------------------
(* A small market for Strategy: two assets, a rise, a fall and a wide bar,  *)
(* and scripts and hosts with one order of every kind.                      *)
EXTENDS Strategy

SomeBars == {[open |-> 2, high |-> 4, low |-> 2, close |-> 3],
             [open |-> 3, high |-> 3, low |-> 1, close |-> 1]}

Quiet == [signal |-> "hold", type |-> "MARKET", size |-> <<1, 2>>, price |-> 2, barsValid |-> 1,
          stopLoss |-> 0, takeProfit |-> 0, trailing |-> 0]
SomeSignals == {
    [Quiet EXCEPT !.trailing = 1],
    [Quiet EXCEPT !.signal = "buy", !.stopLoss = 1, !.takeProfit = 4],
    [Quiet EXCEPT !.signal = "buy", !.type = "LIMIT", !.price = 2],
    [Quiet EXCEPT !.signal = "sell", !.type = "STOP", !.price = 1],
    [Quiet EXCEPT !.signal = "flat"]}

SomeOrders == {
    [type |-> "MARKET", direction |-> 1, size |-> <<3, 2>>, price |-> 2, barsValid |-> 0],
    [type |-> "LIMIT", direction |-> -1, size |-> <<1, 3>>, price |-> 3, barsValid |-> 1],
    [type |-> "STOP", direction |-> -1, size |-> <<1, 1>>, price |-> 1, barsValid |-> -1]}
=============================================================================
