\* Two payments read the folio before either is written.
SPECIFICATION RacingSpec
CONSTANTS
    Folios = {f1}
    OrderFolio = f1
    Handlers = {h1, h2}
    Prices = {1}
    Amounts = {1}
    PromoValue = 1
    MaxUses = 1
    CardValue = 1
    Shifts = {1}
    MaxMoney = 2
    MaxBusy = 1
    Ops = {"pay"}
    RacingPrices = {1}
    RacingMoney = 2
    RacingBusy = 2
    RacingOps = {"pay"}
    f1 = f1
    f2 = f2
    h1 = h1
    h2 = h2
INVARIANTS TotalsTraceToRows
CHECK_DEADLOCK FALSE
