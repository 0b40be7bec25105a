\* Every posting, one request at a time; and payments, refunds and redemptions
\* that race and crash.
SPECIFICATION PostingsSpec
CONSTANTS
    Folios = {f1}
    OrderFolio = f1
    Handlers = {h1, h2}
    Prices = {1, 2}
    Amounts <- Refunds
    PromoValue = 1
    MaxUses = 1
    CardValue = 1
    Shifts = {1}
    MaxMoney = 3
    MaxBusy = 1
    Ops = {"pay", "redeem", "promo", "order", "portal", "modify", "drawer"}
    RacingPrices = {1}
    RacingMoney = 2
    RacingBusy = 2
    RacingOps = {"pay", "redeem", "drawer", "kds", "crash"}
    f1 = f1
    f2 = f2
    h1 = h1
    h2 = h2
SYMMETRY HandlerSymmetry
INVARIANTS BalanceIsDue SerialTotalsTrace SerialChargesQuoted SerialWithinLimits
CHECK_DEADLOCK FALSE
