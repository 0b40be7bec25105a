\* A suspended hotel is moved to a paid plan and then reactivated.
SPECIFICATION Spec
CONSTANTS
    Hotels = {h1}
    Invoices = {1, 2}
    Admins = {a1}
    Gateway = gateway
    Cron = cron
    Grace = 1
    Period = 1
    Offers = {"free", "paid"}
    Horizon = 2
    MaxLinks = 1
    AdminReasons = {"other"}
    MaxCrashes = 0
    Ops = {"approve", "suspend", "reactivate", "setPlan"}
    h1 = h1
    a1 = a1
    cron = cron
    gateway = gateway
INVARIANTS ActivePlanIsBilled
CHECK_DEADLOCK FALSE
