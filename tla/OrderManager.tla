---------------------------- MODULE OrderManager ----------------------------
(***************************************************************************)
(* order_manager.c: cash, positions, pending orders and the trade log of a *)
(* back test or of a live account.  Each function of the manager is an     *)
(* operator from a manager, a record m, to the manager it leaves behind;   *)
(* Strategy composes them into bars and runs.                              *)
(*                                                                         *)
(* Money and quantities are exact: an average price is a fraction <<n, d>>.*)
(* Growing an array never fails.  The pending orders are a set: the array  *)
(* keeps them in the order of their ids.  An asset is its place in the     *)
(* universe.  The fields filled, live, entryCost, sold and held are        *)
(* history: fills, orders at the exchange, commissions on buys, what was   *)
(* sold of an asset in this session and held before it.                    *)
(***************************************************************************)
EXTENDS MarketRules, SequencesExt

CONSTANTS
    NumAssets,    \* num_assets
    Capacity,     \* mgr->capacity, slots for positions
    Cash0,        \* initial_cash
    SlippagePct,  \* slippage_pct
    Spread        \* spread

ASSUME ManagerAssumption == {NumAssets, Capacity, Cash0, SlippagePct, Spread} \subseteq Nat

Assets == 1..NumAssets
Slots == 1..Capacity

-----------------------------------------------------------------------------
(* Fractions in lowest terms.                                              *)
Ratio(n, d) ==
    LET g == Max({k \in 1..d : n % k = 0 /\ d % k = 0}) IN <<n \div g, d \div g>>
Plus(x, y) == Ratio(x[1] * y[2] + y[1] * x[2], x[2] * y[2])
Times(x, k) == Ratio(x[1] * k, x[2])
Whole(k) == <<k, 1>>
Same(x, y) == x[1] * y[2] = y[1] * x[2]

(* The sum of the first n values of f.                                     *)
SumTo(f, n) ==
    LET upTo[i \in 0..n] == IF i = 0 THEN 0 ELSE upTo[i - 1] + f[i] IN upTo[n]

-----------------------------------------------------------------------------
NoPosition == [asset |-> 0, position |-> 0, avg |-> Whole(0), boughtToday |-> 0, stopLoss |-> 0,
               takeProfit |-> 0, trailing |-> 0, peak |-> Whole(0)]

NewManager(rules, executor) ==
    [rules |-> rules, executor |-> executor, cash |-> Cash0, equity |-> Cash0,
     positions |-> [s \in Slots |-> NoPosition], pending |-> {}, nextId |-> 1,
     trades |-> 0, pnl |-> Whole(0), points |-> 0,
     filled |-> {}, live |-> {}, entryCost |-> 0,
     sold |-> [a \in Assets |-> 0], held |-> [a \in Assets |-> 0]]

FindPosition(m, a) ==
    SelectInSeq(m.positions, LAMBDA p : p.asset = a /\ p.position # 0)
SlotOf(m, a) == SelectInSeq(m.positions, LAMBDA p : p.asset = a)
FindOrCreatePosition(m, a) ==
    IF SlotOf(m, a) # 0 THEN SlotOf(m, a)
    ELSE SelectInSeq(m.positions, LAMBDA p : p.asset = 0)
Position(m, a) == IF SlotOf(m, a) = 0 THEN 0 ELSE m.positions[SlotOf(m, a)].position

ApplySlippage(price, direction) == price + direction * (price * SlippagePct + Spread)

(* Mutant of RecordTrade: a partial close books the whole position.        *)
RecordTradeWhole(m, s, quantity, price, commission) ==
    LET p == m.positions[s] IN
    [m EXCEPT !.trades = @ + 1,
              !.pnl = Plus(@, Plus(Times(Plus(Whole(price), Times(p.avg, -1)), p.position),
                                   Whole(-commission)))]

(* A closed quantity of slot s goes to the trade log.                      *)
RecordTrade(m, s, quantity, price, commission) ==
    LET gain == Times(Plus(Whole(price), Times(m.positions[s].avg, -1)), quantity) IN
    [m EXCEPT !.trades = @ + 1, !.pnl = Plus(@, Plus(gain, Whole(-commission)))]

(* apply_fill for a buy; the position's average price follows.             *)
ApplyBuy(m, s, quantity, price, commission, stopLoss, takeProfit) ==
    LET p == m.positions[s]
        cost == Plus(Times(p.avg, p.position), Whole(price * quantity))
    IN [m EXCEPT !.cash = @ - commission - price * quantity,
                 !.entryCost = @ + commission,
                 !.positions[s] =
                     [p EXCEPT !.position = @ + quantity,
                               !.avg = Ratio(cost[1], cost[2] * (p.position + quantity)),
                               !.boughtToday = @ + quantity,
                               !.stopLoss = IF stopLoss > 0 THEN stopLoss ELSE @,
                               !.takeProfit = IF takeProfit > 0 THEN takeProfit ELSE @]]

(* apply_fill for a sell, which closes at most the position; what is left  *)
(* of a closed position keeps its trailing stop and boughtToday.           *)
ApplySell(m, s, quantity, price, commission) ==
    LET p == m.positions[s]
        closed == Min({quantity, p.position})
        logged == RecordTrade(m, s, closed, price, commission)
    IN [logged EXCEPT !.cash = @ - commission + price * closed,
                      !.sold[p.asset] = @ + closed,
                      !.positions[s] =
                          IF closed = p.position
                          THEN [p EXCEPT !.position = 0, !.avg = Whole(0), !.stopLoss = 0,
                                         !.takeProfit = 0]
                          ELSE [p EXCEPT !.position = @ - closed]]

ApplyFill(m, s, direction, quantity, price, stopLoss, takeProfit) ==
    LET commission == Commission(m.rules, price * quantity, direction < 0) IN
    IF direction > 0 THEN ApplyBuy(m, s, quantity, price, commission, stopLoss, takeProfit)
    ELSE ApplySell(m, s, quantity, price, commission)

(* The slot of an asset is taken even if the order is refused afterwards.  *)
TakeSlot(m, a) ==
    LET s == FindOrCreatePosition(m, a) IN
    IF s = 0 \/ m.positions[s].asset = a THEN m
    ELSE [m EXCEPT !.positions[s] = [NoPosition EXCEPT !.asset = a]]

(* execute_fill: a rejected order changes nothing else.  A sell is always  *)
(* validated with nothing bought today.                                    *)
ExecuteFill(m0, a, direction, quantity, price, prevClose, stopLoss, takeProfit) ==
    LET m == TakeSlot(m0, a)
        s == SlotOf(m, a)
        bought == IF direction > 0 THEN m.positions[s].boughtToday ELSE 0
    IN IF s = 0 THEN m
       ELSE IF ~ValidateOrder(m.rules, price, quantity, direction, prevClose,
                              m.positions[s].position, bought) THEN m
       ELSE ApplyFill(m, s, direction, quantity, ApplySlippage(price, direction),
                      stopLoss, takeProfit)

-----------------------------------------------------------------------------
(* Submission.  A fraction of the equity is a pair <<n, d>>.               *)

NewOrder == [id |-> 0, asset |-> 0, type |-> "MARKET", direction |-> 1, quantity |-> 0, price |-> 0,
             stopLoss |-> 0, takeProfit |-> 0, link |-> 0, barsValid |-> 0, status |-> "PENDING",
             age |-> 0, validity |-> 0]

QuantityFor(m, money, price) == RoundLot(m.rules, money \div price)

MarketQuantity(m, direction, fraction, price) ==
    LET part == IF fraction[1] > fraction[2] THEN Whole(1) ELSE fraction
        q == RoundLot(m.rules, (m.equity * part[1]) \div (part[2] * price))
        cost == q * price * (1 + SlippagePct) + Spread
    IN IF q > 0 /\ direction > 0 /\ cost > m.cash
       THEN QuantityFor(m, m.cash, price * (1 + SlippagePct)) ELSE q

(* The exchange may refuse what it is given.                               *)
Market(m, a, direction, fraction, price, prevClose, stopLoss, takeProfit, accepted) ==
    LET q == MarketQuantity(m, direction, fraction, price) IN
    IF q <= 0 THEN m
    ELSE IF m.executor
    THEN [m EXCEPT !.nextId = @ + 1,
                   !.live = IF accepted
                            THEN @ \cup {[id |-> m.nextId, asset |-> a, direction |-> direction,
                                          quantity |-> q]}
                            ELSE @]
    ELSE ExecuteFill(m, a, direction, q, price, prevClose, stopLoss, takeProfit)

(* order_manager_limit and order_manager_stop.                             *)
Queue(m, a, type, direction, fraction, price, stopLoss, takeProfit, barsValid, accepted) ==
    LET q == RoundLot(m.rules, (m.equity * fraction[1]) \div (fraction[2] * price))
        order == [NewOrder EXCEPT !.id = m.nextId, !.asset = a, !.type = type,
                                  !.direction = direction, !.quantity = q, !.price = price,
                                  !.stopLoss = stopLoss, !.takeProfit = takeProfit,
                                  !.barsValid = barsValid, !.validity = barsValid]
    IN IF q <= 0 THEN m
       ELSE IF m.executor /\ ~accepted THEN [m EXCEPT !.nextId = @ + 1]
       ELSE [m EXCEPT !.nextId = @ + 1, !.pending = @ \cup {order},
                      !.live = IF m.executor
                               THEN @ \cup {[id |-> m.nextId, asset |-> a, direction |-> direction,
                                             quantity |-> q]}
                               ELSE @]

Close(m, a, price, accepted) ==
    LET s == FindPosition(m, a) IN
    IF s = 0 THEN m
    ELSE IF m.executor
    THEN [m EXCEPT !.nextId = @ + 1,
                   !.live = IF accepted
                            THEN @ \cup {[id |-> m.nextId, asset |-> a, direction |-> -1,
                                          quantity |-> m.positions[s].position]}
                            ELSE @]
    ELSE ExecuteFill(m, a, -1, m.positions[s].position, price, 0, 0, 0)

SetSlTp(m, a, stopLoss, takeProfit) ==
    LET s == FindPosition(m, a) IN
    IF s = 0 THEN m
    ELSE [m EXCEPT !.positions[s].stopLoss = IF stopLoss > 0 THEN stopLoss ELSE @,
                   !.positions[s].takeProfit = IF takeProfit > 0 THEN takeProfit ELSE @]

SetTrailingStop(m, a, distance) ==
    LET s == FindPosition(m, a) IN
    IF s = 0 THEN m
    ELSE [m EXCEPT !.positions[s].trailing = distance,
                   !.positions[s].peak = m.positions[s].avg]

LinkOco(m, id1, id2) ==
    [m EXCEPT !.nextId = @ + 1,
              !.pending = {IF o.id \in {id1, id2} THEN [o EXCEPT !.link = m.nextId] ELSE o : o \in @}]

Compact(m) == [m EXCEPT !.pending = {o \in @ : o.status = "PENDING"}]

(* Mutant of Cancel: only the exchange is told.                            *)
CancelLeavesPending(m, orders, late) ==
    [m EXCEPT !.live = IF late THEN @ ELSE {l \in @ : \A o \in orders : l.id # o.id}]

(* order_manager_cancel_order and order_manager_cancel_pending; a fill may *)
(* already be on its way from the exchange (late).                         *)
Cancel(m, orders, late) ==
    Compact([m EXCEPT !.pending = {IF o \in orders THEN [o EXCEPT !.status = "CANCELLED"] ELSE o : o \in @},
                      !.live = IF late THEN @ ELSE {l \in @ : \A o \in orders : l.id # o.id}])
CancelOrder(m, id, late) == Cancel(m, {o \in m.pending : o.id = id}, late)
CancelPending(m, a, late) == Cancel(m, {o \in m.pending : o.asset = a}, late)

(* order_manager_report_fill: the executor reports that l was executed.    *)
ReportFill(m0, l, price) ==
    LET m1 == [m0 EXCEPT !.live = @ \ {l},
                         !.pending = {IF o.id = l.id THEN [o EXCEPT !.status = "FILLED"] ELSE o : o \in @}]
        m == TakeSlot(m1, l.asset)
        s == SlotOf(m, l.asset)
    IN IF s = 0 THEN m ELSE ApplyFill(m, s, l.direction, l.quantity, price, 0, 0)
-----------------------------------------------------------------------------
(* One bar.                                                                *)

BeginBar(m) ==
    [m EXCEPT !.positions = [s \in Slots |-> IF m.rules.tPlus >= 1
                                             THEN [@[s] EXCEPT !.boughtToday = 0] ELSE @[s]],
              !.sold = [a \in Assets |-> 0],
              !.held = [a \in Assets |-> Position(m, a)]]

(* barsValid < 0 is good till cancelled.                                   *)
Aged(o) ==
    IF o.barsValid = 0 THEN [o EXCEPT !.status = "EXPIRED"]
    ELSE [o EXCEPT !.barsValid = IF @ > 0 THEN @ - 1 ELSE @, !.age = @ + 1]
Expire(m, a) ==
    [m EXCEPT !.pending = {IF o.asset = a /\ o.status = "PENDING" THEN Aged(o) ELSE o : o \in @}]

(* The trailing stop of a long position follows the peak.                  *)
Trail(p, high) ==
    IF p.trailing > 0 /\ high * p.peak[2] > p.peak[1]
    THEN [p EXCEPT !.peak = Whole(high), !.stopLoss = Max({@, high - p.trailing})]
    ELSE p

Hits(o, bar) ==
    IF (o.type = "LIMIT") = (o.direction > 0) THEN bar.low <= o.price ELSE bar.high >= o.price

(* Mutant of CancelLinked: only the orders behind the filled one.          *)
CancelLinkedAfter(pending, f) ==
    {IF o.id > f.id /\ o.status = "PENDING" /\ f.link > 0 /\ o.link = f.link
     THEN [o EXCEPT !.status = "CANCELLED"] ELSE o : o \in pending}

CancelLinked(pending, f) ==
    {IF o.id # f.id /\ o.status = "PENDING" /\ f.link > 0 /\ o.link = f.link
     THEN [o EXCEPT !.status = "CANCELLED"] ELSE o : o \in pending}

(* A pending order counts as filled even if execute_fill refused.          *)
FillOrder(m, f, prevClose) ==
    LET done == ExecuteFill(m, f.asset, f.direction, f.quantity, ClampPrice(m.rules, f.price, prevClose),
                            prevClose, f.stopLoss, f.takeProfit)
    IN [done EXCEPT !.pending = CancelLinked((@ \ {f}) \cup {[f EXCEPT !.status = "FILLED"]}, f),
                    !.filled = @ \cup {[id |-> f.id, link |-> f.link, age |-> f.age,
                                        validity |-> f.validity]}]

(* The order with the id i, if there is one and the bar hits it.           *)
FillHit(m, i, a, bar, prevClose) ==
    LET hit == {o \in m.pending : o.id = i /\ o.asset = a /\ o.status = "PENDING" /\ Hits(o, bar)}
    IN IF hit = {} THEN m ELSE FillOrder(m, CHOOSE o \in hit : TRUE, prevClose)

(* The loop over the pending orders.                                       *)
FillHits(m, a, bar, prevClose) ==
    LET after[i \in 0..(m.nextId - 1)] ==
            IF i = 0 THEN m ELSE FillHit(after[i - 1], i, a, bar, prevClose)
    IN after[m.nextId - 1]

(* order_manager_check_triggers.  A stop or a target that closes the       *)
(* position ends it: the pending orders wait for the next bar.             *)
CheckTriggers(m0, a, bar, prevClose) ==
    LET m1 == Expire(m0, a)
        s == FindPosition(m1, a)
        m == IF s = 0 THEN m1 ELSE [m1 EXCEPT !.positions[s] = Trail(@, bar.high)]
        p == m.positions[s]
    IN IF m0.executor THEN m1
       ELSE IF s # 0 /\ p.stopLoss > 0 /\ bar.low <= p.stopLoss
       THEN Close(m, a, ClampPrice(m.rules, p.stopLoss, prevClose), TRUE)
       ELSE IF s # 0 /\ p.takeProfit > 0 /\ bar.high >= p.takeProfit
       THEN Close(m, a, ClampPrice(m.rules, p.takeProfit, prevClose), TRUE)
       ELSE Compact(FillHits(m, a, bar, prevClose))

Value(p, prices) ==
    IF p.position # 0 /\ p.asset \in DOMAIN prices THEN prices[p.asset] * p.position ELSE 0

(* Mutant of MarkToMarket: the last slot is left out.                      *)
MarkToMarketShort(m, prices) ==
    [m EXCEPT !.equity = m.cash + SumTo([s \in Slots |-> Value(m.positions[s], prices)],
                                        Cardinality(DOMAIN prices) - 1)]

(* order_manager_mark_to_market looks at as many slots as it has prices.   *)
MarkToMarket(m, prices) ==
    [m EXCEPT !.equity = m.cash + SumTo([s \in Slots |-> Value(m.positions[s], prices)],
                                        Min({Capacity, Cardinality(DOMAIN prices)}))]

RecordEquity(m) == [m EXCEPT !.points = @ + 1]

(* What strategy_reset does to the manager.                                *)
ResetManager(m) == [NewManager(m.rules, m.executor) EXCEPT !.live = m.live]

-----------------------------------------------------------------------------
(* Properties of a manager m that Strategy's runs check.                   *)

(* Every cent is accounted for: through partial closes, stops and orders   *)
(* that hit, cash and the cost of the open positions differ from the       *)
(* initial cash by the logged profit and the commissions on buys, which    *)
(* the trade log does not contain.                                         *)
Reconciles(m) ==
    LET cost[s \in 0..Capacity] ==
            IF s = 0 THEN Whole(0)
            ELSE Plus(cost[s - 1], Times(m.positions[s].avg, m.positions[s].position))
    IN Same(Plus(Whole(m.cash), cost[Capacity]), Plus(Whole(Cash0 - m.entryCost), m.pnl))

(* At most one of the orders linked by order_manager_link_oco is filled.   *)
OcoOneFills(m) == \A f, g \in m.filled : (f.link # 0 /\ f.link = g.link) => f.id = g.id

(* No order is filled on a later bar than it was valid for ("expire after  *)
(* N bars").                                                               *)
FilledInTime(m) == \A f \in m.filled : f.validity >= 0 => f.age <= f.validity

(* Every order the manager still takes for pending is at the exchange.     *)
PendingIsLive(m) ==
    m.executor => \A o \in m.pending : o.status = "PENDING" => \E l \in m.live : l.id = o.id

(* In a T+1 market nothing bought in a session is sold in it.              *)
SettledBeforeSold(m) == m.rules.tPlus >= 1 => \A a \in Assets : m.sold[a] <= m.held[a]
=============================================================================
