\* The badge is clicked while the replay of a reconnect is still running.
SPECIFICATION Spec
CONSTANTS
    book = book
    pay = pay
    arrive = arrive
    report = report
    r1 = r1
    r2 = r2
    Ops = {pay}
    Kind <- KindOf
    Requests = {r1, r2}
    MaxApplied = 2
    MaxCrashes = 0
INVARIANTS OneEffect
CHECK_DEADLOCK FALSE
