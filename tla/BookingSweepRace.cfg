\* A payment confirms the hold that the sweep has already listed.
SPECIFICATION Spec
CONSTANTS
    Rooms = {1}
    Ids = {1}
    Requests = {c1}
    Cron = cron
    Horizon = 1
    ManualStatuses = {"OUT_OF_SERVICE"}
    MaxBusy = 2
    Ops = {"create", "sweep", "confirm"}
    c1 = c1
    c2 = c2
    cron = cron
PROPERTIES SweepReleasesHolds
CHECK_DEADLOCK FALSE
