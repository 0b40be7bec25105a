\* The tenant gate, the subscription, the logins and the money from outside, each
\* with its own requests in flight and its failures.  Each stops when its bounds
\* are used up.
SPECIFICATION PlatformSpec
CONSTANTS
    Workers = {h1, h2}
    Requests = {h1, h2}
    Terms = {open, shut}
    TTL = 2
    LastInstant = 3
    MaxRestarts = 1
    Hotels = {"hotel"}
    Invoices = {1, 2}
    Admins = {"admin"}
    Gateway = "gateway"
    Cron = "cron"
    Grace = 1
    Period = 1
    Offers = {"free", "paid"}
    Horizon = 4
    MaxLinks = 1
    AdminReasons = {"other"}
    MaxCrashes = 1
    Ops = {"approve", "suspend", "reactivate", "cancel", "setPlan", "issue", "markPaid", "sweep"}
    Users = {u1, u2}
    Sessions = {1, 2, 3}
    MaxChanges = 2
    Reservations = {1}
    Cards = {1}
    Transfers = {2, 3}
    Of <- OfOne
    Amount <- OneAmount
    Sessioned = {}
    Accounts = {1, 2}
    MaxFaults = 1
INVARIANTS RowsTyped JudgedByFreshTerms LoginsHold RecordedOncePerKey AnsweredIsSettled
PROPERTIES SuspensionsHold PaidIsFinal
SYMMETRY AnyNames
CHECK_DEADLOCK FALSE
