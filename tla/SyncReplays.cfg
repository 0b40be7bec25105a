\* Three writes queued, sent, replayed, dropped and crashed in every order; guests at
\* the kiosk beside answers that come late.
SPECIFICATION WebAppSpec
CONSTANTS
    book = book
    pay = pay
    arrive = arrive
    report = report
    r1 = r1
    r2 = r2
    Ops = {book, pay, arrive}
    Kind <- KindOf
    Requests = {r1, r2}
    MaxApplied = 2
    MaxCrashes = 1
    Bookings = {1, 2}
    Calls = {r1, r2}
    MaxSessions = 2
    MaxRequests = 2
SYMMETRY RequestSymmetry
INVARIANTS   KioskServesItsGuest
CHECK_DEADLOCK FALSE
