\* Housekeeping, maintenance, stock, channels, messages, invoices, loyalty, shifts,
\* prices, attendance and campaigns, each with its own requests in flight.  Each
\* stops when its bounds are used up.
SPECIFICATION BackOfficeSpec
CONSTANTS
    Rooms = {1}
    Stays = {1, 2}
    Tasks = {1, 2}
    Tickets = {1, 2}
    MaxLost = 1
    Handlers = {h1, h2}
    MaxDeaths = 1
    LastHour = 4
    Schedules = {1, 2}
    Interval = 2
    LastPeriod = 3
    Items = {1, 2}
    Opening = 2
    Reorder = 1
    Drafts = {{1, 2}}
    Bought = 1
    Quantities = {1}
    MaxRequests = 2
    Externals = {1, 2}
    NoUid = {2}
    MaxSent = 3
    Senders = {1, 2}
    Messages = {1, 2, 3}
    SentBy <- Phones
    Says <- Words
    Batches <- Bodies
    MaxGiven = 3
    Companies = {1}
    Taxes <- Rates
    Charges = {1, 3}
    MaxInvoices = 3
    MaxAttempts = 1
    MaxPaid = 2
    Payments = {1, 2, 3}
    Amounts <- Sums
    PerPoint = 1
    Silver = 2
    Gold = 3
    Platinum = 5
    Threshold = 1
    MaxByHand = 3
    Shifts = {1, 2, 3}
    Days = {1, 2}
    Base = 2
    Suggested = {3}
    Ranges <- Closure
    Plans <- Tariffs
    Suggestions = {1, 2, 3, 4}
    MaxCalls = 3
    Records = {1, 2, 3}
    Guests = {1, 2}
    MaxApprovals = 2
    MaxChanges = 2
INVARIANTS RowsTyped RoomOnWorklist InHouseIsOccupied MaintenanceNeverSkipped BooksAgree LowStockSignalled  IngestedOnce HandledOnce InvoicesTrace LoyaltyTraces ShiftsDisjoint PricesHold HoursPaidOnce OnePerApproval
SYMMETRY AnyHandler
CHECK_DEADLOCK FALSE
