\* Every operation, one handler at a time: what the guards promise.
SPECIFICATION Spec
CONSTANTS
    Rooms = {1, 2}
    Ids = {1, 2}
    Requests = {c1}
    Cron = cron
    Horizon = 2
    ManualStatuses = {"AVAILABLE", "OUT_OF_SERVICE"}
    MaxBusy = 1
    Ops = {"create", "modify", "cancel", "sweep", "checkIn", "checkOut", "confirm", "audit", "setRoom"}
    c1 = c1
    c2 = c2
    cron = cron
PROPERTIES Lifecycle AuditClosesDay
CHECK_DEADLOCK FALSE
