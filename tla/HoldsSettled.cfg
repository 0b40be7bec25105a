\* Holds are released, and paid checkouts settled, although requests, failures and
\* repeated deliveries come between.
SPECIFICATION Spec
CONSTANTS
    Handlers = {h1, h2}
PROPERTIES LapsedHoldIsReleased PaidIsSettled
CHECK_DEADLOCK FALSE
