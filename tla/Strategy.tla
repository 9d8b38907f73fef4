------------------------------ MODULE Strategy ------------------------------
(***************************************************************************)
(* strategy.c and bar_window.c: the runner of a back test.  Each bar of an *)
(* asset goes through strategy_on_bar, which lets the order manager match  *)
(* it, runs the script and turns the script's signal into orders; the      *)
(* script is any choice of a signal.  The same manager also serves a host  *)
(* that calls it directly, with or without an exchange behind it.          *)
(*                                                                         *)
(* The assets have no corporate actions, the script defines                *)
(* every hook, and a bar's date stands for the bar in the window.          *)
(***************************************************************************)
EXTENDS OrderManager

CONSTANTS
    Bars,        \* bars [open, high, low, close] of the providers
    Signals,     \* what a script may leave in its output variables
    Orders,      \* orders a host submits by itself
    HostAssets,  \* the assets a host trades
    Warmup,      \* warmup_bars
    Window,      \* window_capacity
    MaxDates,    \* bound: dates with bars between resets
    MaxIds,      \* bound: ids of orders
    MaxTrades    \* bound: trades after which a host only waits

ASSUME WindowAssumption == {Warmup, MaxDates, MaxIds, MaxTrades} \subseteq Nat /\ Window \in Nat \ {0}
ASSUME HostAssetsAssumption == HostAssets \subseteq Assets

Price == Nat \ {0}
Fraction == Nat \X (Nat \ {0})
ASSUME BarsAssumption == Bars \subseteq [open : Price, high : Price, low : Price, close : Price]
ASSUME SignalsAssumption ==
    Signals \subseteq [signal : {"buy", "sell", "flat", "hold"}, type : {"MARKET", "LIMIT", "STOP"},
                      size : Fraction, price : Price, barsValid : Int, stopLoss : Nat,
                      takeProfit : Nat, trailing : Nat]
ASSUME OrdersAssumption ==
    Orders \subseteq [type : {"MARKET", "LIMIT", "STOP"}, direction : {1, -1}, size : Fraction,
                     price : Price, barsValid : Int]

VARIABLES
    mgr,       \* ctx->order_mgr
    client,    \* who drives the manager: the runner, a host, a host with an exchange
    run,       \* the run in progress
    prev,      \* the close before, per asset
    mtm,       \* mtm_prices, 0 before the first bar
    processed, \* bars of this run, per asset
    window,    \* the bar windows
    date,      \* total_bars, here of the dates
    prevTrades, \* prev_num_trades, 0 between runs
    notified,  \* history: the trades on_fill was called for, in order
    seen       \* history: the dates pushed into a window since it was cleared

vars == <<mgr, client, run, prev, mtm, processed, window, date, prevTrades, notified, seen>>

Zero == [a \in Assets |-> 0]
EmptyWindow == [ring |-> [i \in 0..(Window - 1) |-> 0], count |-> 0, writePos |-> 0,
                dirty |-> FALSE, lin |-> [i \in 0..(Window - 1) |-> 0]]
NoRun == [phase |-> "idle", assets |-> {}, todo |-> {}]

Init ==
    /\ client \in {"runner", "host", "exchange"}
    /\ \E rules \in Markets : mgr = NewManager(rules, client = "exchange")
    /\ run = NoRun
    /\ prev = Zero /\ mtm = Zero /\ processed = Zero
    /\ window = [a \in Assets |-> EmptyWindow]
    /\ date = 0 /\ prevTrades = 0 /\ notified = <<>>
    /\ seen = [a \in Assets |-> <<>>]

-----------------------------------------------------------------------------
(* bar_window.c.                                                           *)

Push(w, d) ==
    [w EXCEPT !.ring[w.writePos] = d, !.writePos = (@ + 1) % Window,
              !.count = Min({@ + 1, Window}), !.dirty = TRUE]

(* Mutant of Linearize: the oldest bar is always taken from slot 0.        *)
LinearizeFromZero(w) ==
    IF ~w.dirty THEN w
    ELSE [w EXCEPT !.lin = [i \in 0..(Window - 1) |-> IF i < w.count THEN w.ring[i] ELSE @[i]],
                   !.dirty = FALSE]

Linearize(w) ==
    LET start == IF w.count < Window THEN 0 ELSE w.writePos IN
    IF ~w.dirty \/ w.count = 0 THEN w
    ELSE [w EXCEPT !.lin = [i \in 0..(Window - 1) |->
                               IF i < w.count THEN w.ring[(start + i) % Window] ELSE @[i]],
                   !.dirty = FALSE]

Ready(w) == w.count >= Warmup

-----------------------------------------------------------------------------
(* strategy_on_bar.                                                        *)

Place(m, a, direction, sig, bar, prevClose) ==
    IF sig.type = "MARKET"
    THEN Market(m, a, direction, sig.size, bar.open, prevClose, sig.stopLoss, sig.takeProfit, TRUE)
    ELSE Queue(m, a, sig.type, direction, sig.size, sig.price, sig.stopLoss, sig.takeProfit,
               sig.barsValid, TRUE)

(* process_strategy_signals.  No position is ever short, so the branches   *)
(* for short positions are left out.                                       *)
ProcessSignals(m0, a, sig, bar, prevClose) ==
    LET held == Position(m0, a) > 0
        m == IF sig.trailing > 0 /\ held THEN SetTrailingStop(m0, a, sig.trailing) ELSE m0
        sold == IF held THEN Close(m, a, bar.open, TRUE) ELSE m
    IN CASE sig.signal = "buy" /\ ~held -> Place(m, a, 1, sig, bar, prevClose)
         [] sig.signal = "sell" ->
                IF m.rules.short THEN Place(sold, a, -1, sig, bar, prevClose) ELSE sold
         [] sig.signal = "flat" /\ held -> Close(CancelPending(m, a, FALSE), a, bar.open, TRUE)
         [] OTHER -> m

Trades(a, bar, sig) ==
    LET m == CheckTriggers(mgr, a, bar, prev[a]) IN ProcessSignals(m, a, sig, bar, prev[a])

(* The numbers of the trades from first to last.                           *)
From(first, last) == [i \in 1..(last + 1 - first) |-> first - 1 + i]

(* Mutant of OnBar: prev_num_trades stays where the run began.             *)
OnBarRenotifies(a, bar, sig) ==
    LET w == Push(window[a], date)
        trading == processed[a] >= Warmup /\ Ready(w)
    IN /\ run.phase = "bars" /\ run.todo # {} /\ a = Min(run.todo)
       /\ mgr' = IF trading THEN Trades(a, bar, sig) ELSE mgr
       /\ window' = [window EXCEPT ![a] = IF trading THEN Linearize(w) ELSE w]
       /\ seen' = [seen EXCEPT ![a] = Append(@, date)]
       /\ notified' = notified \o From(prevTrades + 1, mgr'.trades)
       /\ prev' = [prev EXCEPT ![a] = bar.close]
       /\ mtm' = [mtm EXCEPT ![a] = bar.close]
       /\ processed' = [processed EXCEPT ![a] = @ + 1]
       /\ run' = [run EXCEPT !.todo = @ \ {a}]
       /\ UNCHANGED <<client, date, prevTrades>>

(* The bar of asset a: pushed into its window, traded on after the warm-up;*)
(* then on_fill is called for the trades behind prev_num_trades.           *)
OnBar(a, bar, sig) ==
    LET w == Push(window[a], date)
        trading == processed[a] >= Warmup /\ Ready(w)
    IN /\ run.phase = "bars" /\ run.todo # {} /\ a = Min(run.todo)
       /\ mgr' = IF trading THEN Trades(a, bar, sig) ELSE mgr
       /\ window' = [window EXCEPT ![a] = IF trading THEN Linearize(w) ELSE w]
       /\ seen' = [seen EXCEPT ![a] = Append(@, date)]
       /\ notified' = notified \o From(prevTrades + 1, mgr'.trades)
       /\ prevTrades' = mgr'.trades
       /\ prev' = [prev EXCEPT ![a] = bar.close]
       /\ mtm' = [mtm EXCEPT ![a] = bar.close]
       /\ processed' = [processed EXCEPT ![a] = @ + 1]
       /\ run' = [run EXCEPT !.todo = @ \ {a}]
       /\ UNCHANGED <<client, date>>

-----------------------------------------------------------------------------
(* strategy_run_single and strategy_run_universe.                          *)

RunSingle(a) ==
    /\ client = "runner" /\ run.phase = "idle" /\ date < MaxDates
    /\ run' = [phase |-> "dates", assets |-> {a}, todo |-> {}]
    /\ mgr' = BeginBar(mgr) /\ prevTrades' = mgr.trades
    /\ prev' = Zero /\ mtm' = Zero /\ processed' = Zero
    /\ UNCHANGED <<client, window, date, notified, seen>>

(* A universe with one asset per slot; the windows are cleared.            *)
RunUniverse ==
    /\ client = "runner" /\ run.phase = "idle" /\ date < MaxDates
    /\ run' = [phase |-> "dates", assets |-> Assets, todo |-> {}]
    /\ prev' = Zero /\ mtm' = Zero /\ processed' = Zero
    /\ window' = [a \in Assets |-> [EmptyWindow EXCEPT !.lin = window[a].lin]]
    /\ seen' = [a \in Assets |-> <<>>]
    /\ prevTrades' = mgr.trades
    /\ UNCHANGED <<mgr, client, date, notified>>

(* The next date on which some of the assets have a bar.                   *)
NextDate ==
    /\ run.phase = "dates" /\ date < MaxDates
    /\ \E todo \in SUBSET run.assets \ {{}} : run' = [run EXCEPT !.phase = "bars", !.todo = todo]
    /\ date' = date + 1
    /\ mgr' = BeginBar(mgr)
    /\ UNCHANGED <<client, prev, mtm, processed, window, prevTrades, notified, seen>>

EndDate ==
    /\ run.phase = "bars" /\ run.todo = {}
    /\ run' = [run EXCEPT !.phase = "dates"]
    /\ mgr' = RecordEquity(MarkToMarket(mgr, [a \in run.assets |-> mtm[a]]))
    /\ UNCHANGED <<client, prev, mtm, processed, window, date, prevTrades, notified, seen>>

(* order_manager_close returns the last trade if it recorded one.          *)
CloseLast(c, a) ==
    LET m == Close(c.mgr, a, mtm[a], TRUE) IN
    [mgr |-> m, told |-> IF m.trades > c.mgr.trades THEN Append(c.told, m.trades) ELSE c.told]

CloseAll(m, told, assets) ==
    LET closed[a \in 0..NumAssets] ==
            IF a = 0 THEN [mgr |-> m, told |-> told]
            ELSE IF a \in assets THEN CloseLast(closed[a - 1], a) ELSE closed[a - 1]
    IN closed[NumAssets]

(* The streams are exhausted: what is open is closed at the last price,    *)
(* and on_fill is called for each trade that this returns.                 *)
FinishRun ==
    LET end == CloseAll(mgr, notified, {a \in run.assets : mtm[a] > 0}) IN
    /\ run.phase = "dates"
    /\ mgr' = end.mgr /\ notified' = end.told /\ prevTrades' = 0
    /\ run' = NoRun
    /\ UNCHANGED <<client, prev, mtm, processed, window, date, seen>>

(* strategy_reset, before each window of a walk-forward optimization.      *)
Reset ==
    /\ client = "runner" /\ run.phase = "idle" /\ date > 0
    /\ mgr' = ResetManager(mgr)
    /\ window' = [a \in Assets |-> [EmptyWindow EXCEPT !.lin = window[a].lin]]
    /\ seen' = [a \in Assets |-> <<>>]
    /\ date' = 0 /\ notified' = <<>>
    /\ UNCHANGED <<client, run, prev, mtm, processed, prevTrades>>

-----------------------------------------------------------------------------
(* A host that uses the manager directly.                                  *)

Direct(m) ==
    /\ client # "runner"
    /\ mgr' = m
    /\ UNCHANGED <<client, run, mtm, processed, window, prevTrades, notified, seen>>

(* A new bar of one asset, in a back test or beside an exchange.           *)
HostBar(a, bar) ==
    /\ date < MaxDates
    /\ Direct(CheckTriggers(BeginBar(mgr), a, bar, prev[a]))
    /\ date' = date + 1
    /\ prev' = [prev EXCEPT ![a] = bar.close]

HostOrder(a, o, accepted) ==
    /\ mgr.nextId < MaxIds /\ mgr.trades < MaxTrades /\ (accepted \/ mgr.executor)
    /\ Direct(IF o.type = "MARKET"
              THEN Market(mgr, a, o.direction, o.size, o.price, prev[a], 0, 0, accepted)
              ELSE Queue(mgr, a, o.type, o.direction, o.size, o.price, 0, 0, o.barsValid, accepted))
    /\ UNCHANGED <<date, prev>>

HostClose(a, price) ==
    /\ mgr.nextId < MaxIds /\ mgr.trades < MaxTrades
    /\ Direct(Close(mgr, a, price, TRUE))
    /\ UNCHANGED <<date, prev>>

HostStops(a, stopLoss, takeProfit, trailing) ==
    /\ Direct(SetTrailingStop(SetSlTp(mgr, a, stopLoss, takeProfit), a, trailing))
    /\ UNCHANGED <<date, prev>>

HostLink(o, p) ==
    /\ mgr.nextId < MaxIds
    /\ Direct(LinkOco(mgr, o.id, p.id))
    /\ UNCHANGED <<date, prev>>

HostCancel(o, late) ==
    /\ late => mgr.executor
    /\ Direct(CancelOrder(mgr, o.id, late))
    /\ UNCHANGED <<date, prev>>

HostCancelAll(a, late) ==
    /\ late => mgr.executor
    /\ Direct(CancelPending(mgr, a, late))
    /\ UNCHANGED <<date, prev>>

(* The exchange executes an order and its executor reports the fill.       *)
ExchangeFills(l, price) ==
    /\ Direct(ReportFill(mgr, l, price))
    /\ UNCHANGED <<date, prev>>

-----------------------------------------------------------------------------
Prices == {b.close : b \in Bars}

HostStep ==
    \/ \E a \in HostAssets, bar \in Bars : HostBar(a, bar)
    \/ \E a \in HostAssets, o \in Orders, accepted \in BOOLEAN : HostOrder(a, o, accepted)
    \/ \E a \in HostAssets, price \in Prices : HostClose(a, price)
    \/ \E a \in HostAssets, price \in Prices, trailing \in {1, 4} : HostStops(a, price, price + 1, trailing)
    \/ \E o, p \in mgr.pending : o.id < p.id /\ HostLink(o, p)
    \/ \E o \in mgr.pending, late \in BOOLEAN : HostCancel(o, late)
    \/ \E a \in HostAssets, late \in BOOLEAN : HostCancelAll(a, late)
    \/ \E l \in mgr.live, price \in Prices : ExchangeFills(l, price)

Next ==
    \/ \E a \in Assets : RunSingle(a)
    \/ RunUniverse
    \/ NextDate
    \/ \E a \in Assets, bar \in Bars, sig \in Signals : OnBar(a, bar, sig)
    \/ EndDate
    \/ FinishRun
    \/ Reset
    \/ HostStep

Spec == Init /\ [][Next]_vars
-----------------------------------------------------------------------------
(* Properties.                                                             *)

(* Cash, the cost of the open positions and the logged profit agree after  *)
(* every apply_fill, whoever drives the manager.                           *)
CashReconciles == Reconciles(mgr)

(* check_triggers fills no order on a later bar than it was valid for, and *)
(* at most one of the orders that order_manager_link_oco linked, whichever *)
(* bars hit them.                                                          *)
FillsAllowed == FilledInTime(mgr) /\ OcoOneFills(mgr)

(* With an executor, whatever is cancelled, refused or filled late, an     *)
(* order the manager takes for pending is still at the exchange.           *)
ExchangeKnowsPending == PendingIsLive(mgr)

(* What market_validate_order says of a T+1 market: shares bought in a     *)
(* session are not sold in it.                                             *)
SettlementRespected == SettledBeforeSold(mgr)

(* on_fill is called once for every trade of the log, in the order of the  *)
(* log: prev_num_trades leaves out no trade and repeats none, over bars    *)
(* with several trades, several runs without a reset, and the trades that  *)
(* end a run, which do not go through it.                                  *)
FillsNotified == client = "runner" => notified = From(1, mgr.trades)

(* "cash + mark-to-market of all positions": after each date of a universe *)
(* run the equity counts every open position at its last close.            *)
EquityExact ==
    (run.phase = "dates" /\ run.assets = Assets /\ \E a \in Assets : processed[a] > 0) =>
        mgr.equity = mgr.cash + SumTo([a \in Assets |-> mtm[a] * Position(mgr, a)], NumAssets)

(* The vectors the script sees are the last bars of its asset, oldest      *)
(* first, however often the ring has wrapped.                              *)
WindowChronological ==
    \A a \in Assets : (window[a].count > 0 /\ ~window[a].dirty) =>
        \A i \in 1..window[a].count :
            window[a].lin[i - 1] = seen[a][Len(seen[a]) - window[a].count + i]

=============================================================================
