\* Every operation, two handlers in flight, two reservations of one room.
SPECIFICATION Spec
CONSTANTS
    Rooms = {1}
    Ids = {1, 2}
    Requests = {c1, c2}
    Cron = cron
    Horizon = 2
    ManualStatuses = {"OUT_OF_SERVICE"}
    MaxBusy = 2
    Ops = {"create", "modify", "cancel", "sweep", "checkIn", "checkOut", "confirm", "audit", "setRoom"}
    c1 = c1
    c2 = c2
    cron = cron
SYMMETRY RequestSymmetry
INVARIANTS TypeOK NoDoubleBooking AvailabilityExact
PROPERTIES ImplementsCalendar
CHECK_DEADLOCK FALSE
