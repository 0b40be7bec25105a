----------------------------- MODULE BackOffice -----------------------------
(***************************************************************************)
(* The modules of the back office side by side, as the extension of        *)
(* Turnover.  They share no table and no state, so that a behaviour of all *)
(* of them is one of each; part says which of them moves in a behaviour    *)
(* and never changes.  A run is one graph of as many parts that never      *)
(* meet, and a theorem about a part is one about its module.               *)
(***************************************************************************)
EXTENDS Integers, Sequences, Turnover

CONSTANTS
    Handlers,                                   \* requests, deliveries and webhooks in flight
    MaxDeaths,                                  \* bound: how often each part may fail or die
    LastHour,                                   \* bound: hours are 0 .. LastHour
    Schedules, Interval, LastPeriod,            \* Preventive
    Items, Opening, Reorder, Drafts, Bought, Quantities, MaxRequests,  \* Stock
    Externals, NoUid, MaxSent,                  \* Distribution
    Senders, Messages, SentBy, Says, Batches, MaxGiven,                \* Inbox
    Companies, Taxes, Charges, MaxInvoices, MaxAttempts, MaxPaid,      \* CityLedger
    Payments, Amounts, PerPoint, Silver, Gold, Platinum, Threshold, MaxByHand,  \* Loyalty
    Shifts,                                     \* Staffing
    Days, Base, Suggested, Ranges, Plans, Suggestions, MaxCalls,       \* Pricing
    Records,                                    \* Attendance
    Guests, MaxApprovals, MaxChanges            \* Campaigns

ASSUME TicketsAssumption  == Tickets \subseteq Nat /\ IsFiniteSet(Tickets)
ASSUME PeriodsAssumption  == Interval \in Nat /\ LastPeriod \in Nat
ASSUME StockAssumption ==
    /\ IsFiniteSet(Items) /\ Drafts \subseteq SUBSET Items
    /\ {Opening, Reorder, Bought} \cup Quantities \subseteq Int
ASSUME CompaniesAssumption == 0 \notin Companies /\ MaxPaid \in Nat /\ Charges \subseteq Nat
ASSUME TaxesAssumption ==
    IsFiniteSet(Taxes) /\ \A t \in Taxes : t.percentBps \in Nat /\ t.inclusive \in BOOLEAN
ASSUME LoyaltyAssumption ==
    /\ IsFiniteSet(Payments) /\ Amounts \subseteq Int
    /\ PerPoint \in Nat \ {0} /\ Threshold \in Nat
    /\ \A from \in {Silver, Gold, Platinum} : from \in Nat \ {0}
ASSUME HoursAssumption   == LastHour \in Nat
ASSUME CalendarAssumption ==
    /\ IsFiniteSet(Days) /\ Days # {} /\ Days = 1 .. Cardinality(Days)
    /\ Base \in Nat /\ Suggested \subseteq Nat /\ (\A n \in Suggestions : n \in Nat \ {0})
    /\ \A r \in Ranges : r.from \in Days /\ r.to \in Days /\ r.from <= r.to
                       /\ r.price \in Nat /\ r.stop \in BOOLEAN
    /\ \A plan \in Plans : plan.kind \in {"ABSOLUTE", "FIXED", "PERCENT"} /\ plan.value \in Int
ASSUME MessagesAssumption ==
    /\ SentBy \in [Messages -> Senders] /\ Says \in [Messages -> {"stop", "start", "other"}]
    /\ \A batch \in Batches : batch \in Seq(Messages) /\ batch # <<>>
ASSUME RecordsAssumption == IsFiniteSet(Records) /\ \A r \in Records : r \in Nat \ {0}

VARIABLES
    part,
    now, sched, spawned, run, watch, broken,                       \* Preventive
    qty, moved, counted, po, meal, clerk, requests, deaths,        \* Stock
    posted, served, parts, torn, mixed, unseen,
    booked, linked, acked, delivery, sent, killed, crossed,        \* Distribution
    guests, convs, inbound, outbound, queued, stored, hook,        \* Inbox
    given, failed, asked, exposed, dropped, raced,
    invoice, balance, paid, maker,                                 \* CityLedger
    pay, guest, rows, redeemer, byHand, slipped,                   \* Loyalty
    shift, manager,                                                \* Staffing
    rate, sug, desk, calls, aborted, source, muddled,              \* Pricing
    hour, record, clock,                                           \* Attendance
    status, consents, jobs, sender, approvals, changes, fallen, doubled  \* Campaigns

M == INSTANCE Preventive WITH MaxBroken <- MaxDeaths
S == INSTANCE Stock WITH Clerks <- Handlers
D == INSTANCE Distribution WITH Deliveries <- Handlers, MaxKilled <- MaxDeaths
I == INSTANCE Inbox WITH Webhooks <- Handlers, MaxFailed <- MaxDeaths, From <- SentBy
C == INSTANCE CityLedger WITH Clerks <- Handlers
L == INSTANCE Loyalty WITH Redeemers <- Handlers
F == INSTANCE Staffing WITH Managers <- Handlers
P == INSTANCE Pricing WITH deaths <- aborted
W == INSTANCE Attendance WITH Clocks <- Handlers
A == INSTANCE Campaigns WITH Senders <- Handlers, MaxFallen <- MaxDeaths, queued <- jobs

turnover     == vars
preventive   == <<now, sched, spawned, run, watch, broken>>
stock        == <<qty, moved, counted, po, meal, clerk, requests, deaths,
                  posted, served, parts, torn, mixed, unseen>>
distribution == <<booked, linked, acked, delivery, sent, killed, crossed>>
inbox        == <<guests, convs, inbound, outbound, queued, stored, hook,
                  given, failed, asked, exposed, dropped, raced>>
cityLedger   == <<invoice, balance, paid, maker>>
loyalty      == <<pay, guest, rows, redeemer, byHand, slipped>>
staffing     == <<shift, manager>>
pricing      == <<rate, sug, desk, calls, aborted, source, muddled>>
attendance   == <<hour, record, clock>>
campaigns    == <<status, consents, jobs, sender, approvals, changes, fallen, doubled>>

officeVars == <<part, turnover, preventive, stock, distribution, inbox, cityLedger,
                loyalty, staffing, pricing, attendance, campaigns>>

BackOfficeInit ==
    /\ part \in {"turnover", "preventive", "stock", "distribution", "inbox", "cityLedger",
                 "loyalty", "staffing", "pricing", "attendance", "campaigns"}
    /\ Init /\ M!Init /\ S!Init /\ D!Init /\ I!Init /\ C!Init
    /\ L!Init /\ F!Init /\ P!Init /\ W!Init /\ A!Init

\* A step of one part leaves the others as they are.
TurnoverStep == part = "turnover" /\ Next
    /\ UNCHANGED <<part, preventive, stock, distribution, inbox, cityLedger,
                   loyalty, staffing, pricing, attendance, campaigns>>

PreventiveStep == part = "preventive" /\ M!Next
    /\ UNCHANGED <<part, turnover, stock, distribution, inbox, cityLedger,
                   loyalty, staffing, pricing, attendance, campaigns>>

StockStep == part = "stock" /\ S!Next
    /\ UNCHANGED <<part, turnover, preventive, distribution, inbox, cityLedger,
                   loyalty, staffing, pricing, attendance, campaigns>>

DistributionStep == part = "distribution" /\ D!Next
    /\ UNCHANGED <<part, turnover, preventive, stock, inbox, cityLedger,
                   loyalty, staffing, pricing, attendance, campaigns>>

InboxStep == part = "inbox" /\ I!Next
    /\ UNCHANGED <<part, turnover, preventive, stock, distribution, cityLedger,
                   loyalty, staffing, pricing, attendance, campaigns>>

CityLedgerStep == part = "cityLedger" /\ C!Next
    /\ UNCHANGED <<part, turnover, preventive, stock, distribution, inbox,
                   loyalty, staffing, pricing, attendance, campaigns>>

LoyaltyStep == part = "loyalty" /\ L!Next
    /\ UNCHANGED <<part, turnover, preventive, stock, distribution, inbox,
                   cityLedger, staffing, pricing, attendance, campaigns>>

StaffingStep == part = "staffing" /\ F!Next
    /\ UNCHANGED <<part, turnover, preventive, stock, distribution, inbox,
                   cityLedger, loyalty, pricing, attendance, campaigns>>

PricingStep == part = "pricing" /\ P!Next
    /\ UNCHANGED <<part, turnover, preventive, stock, distribution, inbox,
                   cityLedger, loyalty, staffing, attendance, campaigns>>

AttendanceStep == part = "attendance" /\ W!Next
    /\ UNCHANGED <<part, turnover, preventive, stock, distribution, inbox,
                   cityLedger, loyalty, staffing, pricing, campaigns>>

CampaignsStep == part = "campaigns" /\ A!Next
    /\ UNCHANGED <<part, turnover, preventive, stock, distribution, inbox,
                   cityLedger, loyalty, staffing, pricing, attendance>>

BackOfficeNext ==
    \/ TurnoverStep \/ PreventiveStep \/ StockStep \/ DistributionStep \/ InboxStep \/ CityLedgerStep
    \/ LoyaltyStep \/ StaffingStep \/ PricingStep \/ AttendanceStep \/ CampaignsStep

BackOfficeSpec == BackOfficeInit /\ [][BackOfficeNext]_officeVars

-----------------------------------------------------------------------------

\* The values of the rows, locals and histories of the part that moves.
RowsTyped == CASE part = "turnover"     -> TypeOK
               [] part = "preventive"   -> M!TypeOK
               [] part = "stock"        -> S!TypeOK
               [] part = "distribution" -> D!TypeOK
               [] part = "inbox"        -> I!TypeOK
               [] part = "cityLedger"   -> C!TypeOK
               [] part = "loyalty"      -> L!TypeOK
               [] part = "staffing"     -> F!TypeOK
               [] part = "pricing"      -> P!TypeOK
               [] part = "attendance"   -> W!TypeOK
               [] part = "campaigns"    -> A!TypeOK

\* A schedule is moved on only with its ticket, and opens one per interval.
MaintenanceNeverSkipped == part = "preventive" => M!MaintenanceNeverSkipped

\* The quantity of an item is its movements, and its last count and those since.
BooksAgree == part = "stock" => S!BooksAgree

\* An item used up to its reorder point has been signalled.
LowStockSignalled == part = "stock" => S!LowStockSignalled

\* A purchase order is received, and a restaurant order used up, once.
PostedOnce == part = "stock" => S!PostedOnce

\* A reservation of an agency is booked once and answered only when linked.
IngestedOnce == part = "distribution" => D!IngestedOnce

\* A message delivered several times is recorded and answered once.
HandledOnce == part = "inbox" => I!HandledOnce

\* Invoices are numbered without gaps and make up the balance of a company.
InvoicesTrace == part = "cityLedger" => C!InvoicesTrace

\* Spending, tier and points of a guest trace to payments and loyalty rows.
LoyaltyTraces == part = "loyalty" => L!LoyaltyTraces

\* Shifts overlap only if neither was there when the other was checked.
ShiftsDisjoint == part = "staffing" => F!ShiftsDisjoint

\* A suggested price in the calendar traces to an applied suggestion, a day has one
\* pending suggestion, and a stay costs what its parts cost.
PricesHold == part = "pricing" => P!PricesTrace /\ P!OnePendingPerDay /\ P!QuotesAdd

\* An hour is worked once, and two pay periods add up, but for what spans the day
\* between them.
HoursPaidOnce == part = "attendance" => W!HoursWorkedOnce /\ W!PeriodsAddUp

\* An approval sends each guest one message.
OnePerApproval == part = "campaigns" => A!OnePerApproval

=============================================================================
