\* The webhook and the sweep beside each other, and a crash, without an operator.
SPECIFICATION ServedSpec
CONSTANTS
    Hotels = {h1}
    Invoices = {1, 2}
    Admins = {a1}
    Gateway = gateway
    Cron = cron
    Grace = 1
    Period = 1
    Offers = {"paid"}
    Horizon = 4
    MaxLinks = 1
    AdminReasons = {"other"}
    MaxCrashes = 1
    Ops = {"approve", "link", "webhook", "sweep"}
    h1 = h1
    a1 = a1
    cron = cron
    gateway = gateway

PROPERTIES DebtorIsSuspended ChargeSettles EndedPeriodIsBilled
CHECK_DEADLOCK FALSE
