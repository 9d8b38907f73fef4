CONSTANTS
    NumAssets = 2
    Capacity = 2
    Cash0 = 9
    SlippagePct = 0
    Spread = 0
    Bars <- SomeBars
    Signals <- SomeSignals
    Orders <- SomeOrders
    HostAssets = {1}
    Warmup = 1
    Window = 2
    MaxDates = 3
    MaxIds = 4
    MaxTrades = 2
SPECIFICATION Spec
INVARIANT SettlementRespected
CHECK_DEADLOCK FALSE
