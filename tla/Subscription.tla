---------------------------- MODULE Subscription ----------------------------
(***************************************************************************)
(* The account of a hotel on the platform and the invoices of its plan:    *)
(* platform.service (approve, suspend, reactivate, cancel, setPlan),       *)
(* platform-billing.service (issueInvoice, markPaid, the daily sweep,      *)
(* online payment and its webhook).                                        *)
(*                                                                         *)
(* None of these handlers uses a transaction: each statement commits by    *)
(* itself, any other handler runs between two of them, and a crash leaves  *)
(* the first without the second.                                           *)
(*                                                                         *)
(* Abstracted: time is in steps of the grace period and a plan's period is *)
(* Period of them; amounts, currencies, numbers of invoices (a count,      *)
(* retried on its unique index), features, trials' ends and audit rows.    *)
(***************************************************************************)
EXTENDS Naturals, FiniteSets

CONSTANTS
    Hotels,       \* hotels
    Invoices,     \* bound: invoices, numbered in order of issue
    Admins,       \* bound: requests in flight
    Gateway,      \* the handler of the provider's webhooks
    Cron,         \* the scheduler's handler of the sweep
    Grace,        \* settings.gracePeriodDays
    Period,       \* the length of a paid plan's period
    Offers,       \* the plans an operator puts hotels on
    Horizon,      \* bound: the last instant
    MaxLinks,     \* bound: payment links made for an invoice
    AdminReasons, \* reasons an operator suspends for
    MaxCrashes,   \* bound: crashes
    Ops           \* the operations the instance offers

ASSUME InvoiceAssumption == Invoices \subseteq Nat \ {0}
ASSUME HandlerAssumption == Cron \notin Admins /\ Gateway \notin Admins /\ Cron # Gateway
ASSUME TimeAssumption    == Grace \in Nat /\ Period \in Nat /\ Horizon \in Nat \ {0}
ASSUME BoundAssumption   == MaxLinks \in Nat /\ MaxCrashes \in Nat
ASSUME OfferAssumption  == Offers \subseteq {"free", "paid"}
ASSUME ReasonAssumption  == AdminReasons \subseteq {"subscription", "other"}

VARIABLES
    now,      \* the clock
    hotel,    \* hotel[h]: status, suspendReason, approved, plan, currentPeriodEnd
    inv,      \* inv[n]: a SubscriptionInvoice row, or NoInvoice
    charged,  \* <<n, link>>: charged by the provider, its webhook not answered yet
    sess,     \* sess[s]: the locals of handler s
    crashes,  \* crashes so far
    apart     \* history: no two handlers overlapped and none crashed

vars == <<now, hotel, inv, charged, sess, crashes, apart>>

Handlers == Admins \cup {Cron, Gateway}
Times    == 1 .. Horizon + Period + Grace
NoTime   == 0   \* a null date

Plans   == {"none", "free", "paid"}
Hotel   == [status : {"TRIAL", "ACTIVE", "SUSPENDED", "CANCELLED"}, approved : BOOLEAN,
            reason : {"none", "subscription", "other"}, plan : Plans, end : Times \cup {NoTime}]
Invoice == [hotel : Hotels, end : Times, due : Times, status : {"OPEN", "OVERDUE", "PAID"},
            link : 0 .. MaxLinks]
NoInvoice == [status |-> "absent"]

\* The locals: the hotel and the invoice at hand, the plan and the dates read,
\* whether what was read asks for a second effect (a suspension to lift, a
\* subscription to start), and what the sweep has left, hotels with a date.
Locals(pc, h) == [pc |-> pc, h |-> h, n |-> 0, plan |-> "none", from |-> NoTime, end |-> NoTime,
                  also |-> FALSE, left |-> {}]

Idle == Locals("idle", "none")

Session == [pc : {"idle", "approve", "reactivate", "setPlan", "issue", "free", "create", "extend",
                  "pay", "paid", "lift", "link", "list", "suspend", "count"},
            h : Hotels \cup {"none"}, n : Invoices \cup {0}, plan : Plans,
            from : Times \cup {NoTime}, end : Times \cup {NoTime}, also : BOOLEAN,
            left : SUBSET (Hotels \X (Times \cup {NoTime}))]

\* A hotel that registered: on trial, on the trial plan or on none.
Init ==
    /\ now = 1
    /\ hotel \in [Hotels -> {[status |-> "TRIAL", approved |-> FALSE, reason |-> "none",
                              plan |-> p, end |-> NoTime] : p \in {"none", "free"}}]
    /\ inv = [n \in Invoices |-> NoInvoice]
    /\ charged = {}
    /\ sess = [s \in Handlers |-> Idle]
    /\ crashes = 0
    /\ apart = TRUE

-----------------------------------------------------------------------------

Issued == {n \in Invoices : inv[n] # NoInvoice}
Unpaid(h) == {n \in Issued : inv[n].hotel = h /\ inv[n].status \in {"OPEN", "OVERDUE"}}
Busy   == {s \in Handlers : sess[s] # Idle}

Goto(s, locals) == sess' = [sess EXCEPT ![s] = locals]
Finish(s)       == Goto(s, Idle)

\* A handler starts; from the second in flight on, they overlap.
Start(s, op) ==
    /\ op \in Ops
    /\ sess[s] = Idle
    /\ apart' = (apart /\ Busy = {})

At(s, pc) == sess[s].pc = pc

-----------------------------------------------------------------------------
(* platform.service                                                        *)

\* approve settles on a plan, the one given or the one it reads ...
ApproveRead(s) ==
    /\ Start(s, "approve")
    /\ \E h \in Hotels : \E plan \in (Offers \cup {hotel[h].plan}) \ {"none"} :
        Goto(s, [Locals("approve", h) EXCEPT !.plan = plan])
    /\ UNCHANGED <<now, hotel, inv, charged, crashes>>

\* ... puts the hotel live on it, and starts billing.
ApproveWrite(s) ==
    LET me == sess[s] IN
    /\ At(s, "approve")
    /\ hotel' = [hotel EXCEPT ![me.h] = [@ EXCEPT !.status = "ACTIVE", !.approved = TRUE,
                                                  !.reason = "none", !.plan = me.plan]]
    /\ Goto(s, [Locals("issue", me.h) EXCEPT !.from = now])
    /\ UNCHANGED <<now, inv, charged, crashes, apart>>

\* suspend and cancel write without looking at what the hotel was.
Suspend(s) ==
    /\ Start(s, "suspend")
    /\ \E h \in Hotels, reason \in AdminReasons :
        hotel' = [hotel EXCEPT ![h].status = "SUSPENDED", ![h].reason = reason]
    /\ UNCHANGED <<now, inv, charged, sess, crashes>>

Cancel(s) ==
    /\ Start(s, "cancel")
    /\ \E h \in Hotels : hotel' = [hotel EXCEPT ![h].status = "CANCELLED"]
    /\ UNCHANGED <<now, inv, charged, sess, crashes>>

\* reactivate: ACTIVE if the hotel it read was approved, on trial if not.
ReactivateRead(s) ==
    /\ Start(s, "reactivate")
    /\ \E h \in Hotels : Goto(s, [Locals("reactivate", h) EXCEPT !.also = hotel[h].approved])
    /\ UNCHANGED <<now, hotel, inv, charged, crashes>>

ReactivateWrite(s) ==
    LET me == sess[s] IN
    /\ At(s, "reactivate")
    /\ hotel' = [hotel EXCEPT ![me.h].status = IF me.also THEN "ACTIVE" ELSE "TRIAL",
                              ![me.h].reason = "none"]
    /\ Finish(s)
    /\ UNCHANGED <<now, inv, charged, crashes, apart>>

\* setPlan reads the hotel ...
SetPlanRead(s) ==
    /\ Start(s, "setPlan")
    /\ \E h \in Hotels, plan \in Offers :
        Goto(s, [Locals("setPlan", h) EXCEPT !.plan = plan, 
              !.also = hotel[h].status = "ACTIVE" /\ plan = "paid" /\ hotel[h].end = NoTime])
    /\ UNCHANGED <<now, hotel, inv, charged, crashes>>

\* ... writes the plan, and starts billing for the hotel it read.
SetPlanWrite(s) ==
    LET me == sess[s] IN
    /\ At(s, "setPlan")
    /\ hotel' = [hotel EXCEPT ![me.h].plan = me.plan]
    /\ IF me.also THEN Goto(s, [Locals("issue", me.h) EXCEPT !.from = now]) ELSE Finish(s)
    /\ UNCHANGED <<now, inv, charged, crashes, apart>>

-----------------------------------------------------------------------------
(* platform-billing.service: issueInvoice                                  *)

\* Called from approve, setPlan, the sweep, and by an operator.
IssueByHand(s) ==
    /\ Start(s, "issue")
    /\ \E h \in Hotels : Goto(s, [Locals("issue", h) EXCEPT !.from = now])
    /\ UNCHANGED <<now, hotel, inv, charged, crashes>>

\* What comes after an invoice: the sweep goes on with the hotels it has left.
AfterIssue(s) ==
    LET me == sess[s] IN
    IF me.left # {} THEN Goto(s, [me EXCEPT !.pc = "count"]) ELSE Finish(s)

\* The hotel and its plan are read ...
IssueRead(s) ==
    LET me == sess[s] IN
    /\ At(s, "issue")
    /\ \/ /\ hotel[me.h].plan = "none"
          /\ AfterIssue(s)
       \/ /\ hotel[me.h].plan = "free"
          /\ Goto(s, [me EXCEPT !.pc = "free"])
       \/ /\ hotel[me.h].plan = "paid"
          /\ Goto(s, [me EXCEPT !.pc = "create"])
    /\ UNCHANGED <<now, hotel, inv, charged, crashes, apart>>

\* ... a free plan clears the paid-through date ...
IssueFree(s) ==
    LET me == sess[s] IN
    /\ At(s, "free")
    /\ hotel' = [hotel EXCEPT ![me.h].end = NoTime]
    /\ AfterIssue(s)
    /\ UNCHANGED <<now, inv, charged, crashes, apart>>

\* ... a paid one makes the invoice (bound: with no row left the handler ends here) ...
IssueCreate(s) ==
    LET me == sess[s] IN
    /\ At(s, "create")
    /\ \/ /\ \E n \in Invoices \ Issued :
              /\ \A m \in Invoices \ Issued : n <= m
              /\ inv' = [inv EXCEPT ![n] = [hotel |-> me.h, end |-> me.from + Period,
                                            due |-> me.from + Grace, status |-> "OPEN", link |-> 0]]
          /\ Goto(s, [me EXCEPT !.pc = "extend", !.end = me.from + Period])
       \/ /\ Issued = Invoices
          /\ Finish(s)
          /\ UNCHANGED inv
    /\ UNCHANGED <<now, hotel, charged, crashes, apart>>

\* ... and, in another statement, the hotel's paid-through date.
IssueExtend(s) ==
    LET me == sess[s] IN
    /\ At(s, "extend")
    /\ hotel' = [hotel EXCEPT ![me.h].end = me.end]
    /\ AfterIssue(s)
    /\ UNCHANGED <<now, inv, charged, crashes, apart>>

-----------------------------------------------------------------------------
(* platform-billing.service: paying                                        *)

\* markPaid by an operator: the invoice is not PAID.
PayRead(s) ==
    /\ Start(s, "markPaid")
    /\ \E n \in Issued :
        /\ inv[n].status # "PAID"
        /\ Goto(s, [Locals("pay", inv[n].hotel) EXCEPT !.n = n, !.end = inv[n].end])
    /\ UNCHANGED <<now, hotel, inv, charged, crashes>>

PayInvoice(s) ==
    LET me == sess[s] IN
    /\ At(s, "pay")
    /\ inv' = [inv EXCEPT ![me.n].status = "PAID"]
    /\ Goto(s, [me EXCEPT !.pc = "paid"])
    /\ UNCHANGED <<now, hotel, charged, crashes, apart>>

\* Fault: any suspension is lifted.
AnySuspension(h) == hotel[h].status = "SUSPENDED"

\* A suspension whose reason names the subscription.
ForDebt(h) == hotel[h].status = "SUSPENDED" /\ hotel[h].reason = "subscription"

\* Fault: a payment adds a period to what was paid for.
PaidThroughLater(h, end) == hotel[h].end + Period

\* The later of the hotel's paid-through date and the end of the paid period.
PaidThrough(h, end) == IF hotel[h].end > end THEN hotel[h].end ELSE end

\* Then the hotel is read ...
PayHotelRead(s) ==
    LET me == sess[s] IN
    /\ At(s, "paid")
    /\ Goto(s, [me EXCEPT !.pc = "lift", !.also = ForDebt(me.h),
                          !.end = PaidThrough(me.h, me.end)])
    /\ UNCHANGED <<now, hotel, inv, charged, crashes, apart>>

\* ... and written: the later paid-through date, and the suspension lifted.
PayHotelWrite(s) ==
    LET me   == sess[s]
        paid == [hotel[me.h] EXCEPT !.end = me.end]
    IN  /\ At(s, "lift")
        /\ hotel' = [hotel EXCEPT ![me.h] =
                        IF me.also THEN [paid EXCEPT !.status = "ACTIVE", !.reason = "none"]
                                   ELSE paid]
        /\ Finish(s)
        /\ UNCHANGED <<now, inv, charged, crashes, apart>>

\* initOnlinePayment: an invoice that is not PAID is read, and then a new link
\* replaces the reference of the one before.
LinkRead(s) ==
    /\ Start(s, "link")
    /\ \E n \in Issued :
        /\ inv[n].status # "PAID"
        /\ inv[n].link < MaxLinks
        /\ Goto(s, [Locals("link", inv[n].hotel) EXCEPT !.n = n])
    /\ UNCHANGED <<now, hotel, inv, charged, crashes>>

LinkWrite(s) ==
    LET me == sess[s] IN
    /\ At(s, "link")
    /\ inv[me.n].link < MaxLinks
    /\ inv' = [inv EXCEPT ![me.n].link = @ + 1]
    /\ Finish(s)
    /\ UNCHANGED <<now, hotel, charged, crashes, apart>>

\* External: the owner pays with a link, and the provider owes its webhook.
Charge(n, link) ==
    /\ "webhook" \in Ops
    /\ inv[n] # NoInvoice
    /\ link \in 1 .. inv[n].link
    /\ charged' = charged \cup {<<n, link>>}
    /\ UNCHANGED <<now, hotel, inv, sess, crashes, apart>>

\* Fault: only an OPEN invoice is settled.
SettlesOpen(c) == inv[c[1]].link = c[2] /\ inv[c[1]].status = "OPEN"

\* The reference is still that of its invoice, which is not PAID.
Settles(c) == inv[c[1]].link = c[2] /\ inv[c[1]].status # "PAID"

\* handleWebhook goes on with markPaid; it is delivered again (after a crash,
\* or because providers do) until there is nothing left to settle.
WebhookPays ==
    /\ Start(Gateway, "webhook")
    /\ \E c \in charged :
        /\ Settles(c)
        /\ Goto(Gateway, [Locals("pay", inv[c[1]].hotel) EXCEPT !.n = c[1], !.end = inv[c[1]].end])
    /\ UNCHANGED <<now, hotel, inv, charged, crashes>>

WebhookSkips ==
    /\ Start(Gateway, "webhook")
    /\ \E c \in charged :
        /\ ~ Settles(c)
        /\ charged' = charged \ {c}
    /\ UNCHANGED <<now, hotel, inv, sess, crashes>>

-----------------------------------------------------------------------------
(* platform-billing.service: the daily sweep                               *)

\* Fault: a PAID invoice can be overdue.
LateAnyStatus(n, date) == n \in Issued /\ inv[n].due < date

Late(n, date) == n \in Issued /\ inv[n].status = "OPEN" /\ inv[n].due < date

\* 1) OPEN invoices past due become OVERDUE, in one statement.
SweepMark ==
    /\ Start(Cron, "sweep")
    /\ inv' = [n \in Invoices |-> IF Late(n, now) THEN [inv[n] EXCEPT !.status = "OVERDUE"]
                                                 ELSE inv[n]]
    /\ Goto(Cron, [Locals("list", "none") EXCEPT !.from = now])
    /\ UNCHANGED <<now, hotel, charged, crashes>>

\* Faults: the status of the invoice is not looked at; nothing is ever late.
PastGraceAnyStatus(h, date) ==
    \E n \in Issued : inv[n].hotel = h /\ inv[n].due + Grace < date

PastGraceNever(h, date) == FALSE

\* An OVERDUE invoice of h, due before date - grace.
PastGrace(h, date) ==
    \E n \in Issued : /\ inv[n].hotel = h
                      /\ inv[n].status = "OVERDUE"
                      /\ inv[n].due + Grace < date

\* 2) The ACTIVE hotels past due and grace are listed ...
SweepList ==
    LET me   == sess[Cron]
        late == {h \in Hotels : hotel[h].status = "ACTIVE" /\ PastGrace(h, me.from)}
    IN  /\ At(Cron, "list")
        /\ Goto(Cron, [me EXCEPT !.pc = "suspend", !.left = late \X {NoTime}])
        /\ UNCHANGED <<now, hotel, inv, charged, crashes, apart>>

\* ... and suspended one after the other.
SweepSuspend ==
    LET me == sess[Cron] IN
    /\ At(Cron, "suspend")
    /\ \E l \in me.left :
        /\ hotel' = [hotel EXCEPT ![l[1]].status = "SUSPENDED", ![l[1]].reason = "subscription"]
        /\ Goto(Cron, [me EXCEPT !.left = me.left \ {l}])
    /\ UNCHANGED <<now, inv, charged, crashes, apart>>

\* Fault: the date must have been passed for a whole period.
EndedLater(h, date) ==
    /\ hotel[h].status = "ACTIVE" /\ hotel[h].plan = "paid"
    /\ hotel[h].end # NoTime /\ hotel[h].end + Period <= date

\* ACTIVE on a paid plan, the paid-through date reached.
Ended(h, date) ==
    /\ hotel[h].status = "ACTIVE" /\ hotel[h].plan = "paid"
    /\ hotel[h].end # NoTime /\ hotel[h].end <= date

\* 3) The hotels whose period ended are listed with its end ...
SweepRoll ==
    LET me  == sess[Cron]
        due == {h \in Hotels : Ended(h, me.from)}
    IN  /\ At(Cron, "suspend")
        /\ me.left = {}
        /\ IF due = {} THEN Finish(Cron)
           ELSE Goto(Cron, [me EXCEPT !.pc = "count",
                                      !.left = {<<h, hotel[h].end>> : h \in due}])
        /\ UNCHANGED <<now, hotel, inv, charged, crashes, apart>>

\* ... and one with nothing unpaid is invoiced from there.
SweepCount ==
    LET me == sess[Cron] IN
    /\ At(Cron, "count")
    /\ \E l \in me.left :
        LET rest == [me EXCEPT !.h = l[1], !.from = l[2], !.left = me.left \ {l}] IN
        \/ /\ Unpaid(l[1]) = {}
           /\ Goto(Cron, [rest EXCEPT !.pc = "issue"])
        \/ /\ Unpaid(l[1]) # {}
           /\ IF rest.left = {} THEN Finish(Cron) ELSE Goto(Cron, rest)
    /\ UNCHANGED <<now, hotel, inv, charged, crashes, apart>>

-----------------------------------------------------------------------------

Tick ==
    /\ now < Horizon
    /\ now' = now + 1
    /\ UNCHANGED <<hotel, inv, charged, sess, crashes, apart>>

\* The process dies between two statements of whatever was in flight.
Crash ==
    /\ crashes < MaxCrashes
    /\ Busy # {}
    /\ crashes' = crashes + 1
    /\ sess' = [s \in Handlers |-> Idle]
    /\ apart' = FALSE
    /\ UNCHANGED <<now, hotel, inv, charged>>

Request(s) ==
    \/ ApproveRead(s) \/ Suspend(s) \/ ReactivateRead(s) \/ Cancel(s)
    \/ SetPlanRead(s) \/ IssueByHand(s) \/ PayRead(s) \/ LinkRead(s)

\* What a handler in flight does next.
Step(s) ==
    \/ ApproveWrite(s) \/ ReactivateWrite(s) \/ SetPlanWrite(s) \/ LinkWrite(s)
    \/ IssueRead(s) \/ IssueFree(s) \/ IssueCreate(s) \/ IssueExtend(s)
    \/ PayInvoice(s) \/ PayHotelRead(s) \/ PayHotelWrite(s)

SweepStep == SweepList \/ SweepSuspend \/ SweepRoll \/ SweepCount

Next ==
    \/ \E s \in Admins : Request(s)
    \/ \E s \in Handlers : Step(s)
    \/ \E n \in Invoices, link \in 1 .. MaxLinks : Charge(n, link)
    \/ WebhookPays \/ WebhookSkips
    \/ SweepMark \/ SweepStep
    \/ Tick \/ Crash

Spec == Init /\ [][Next]_vars

\* Handlers run to their end, the cron fires every night, and the provider
\* delivers a webhook until it is answered.
Fairness ==
    /\ \A s \in Handlers : WF_vars(Step(s))
    /\ WF_vars(SweepMark) /\ WF_vars(SweepStep)
    /\ WF_vars(WebhookPays)

FairSpec == Spec /\ Fairness

-----------------------------------------------------------------------------
(* Properties                                                              *)

\* The accounts, the invoices and the locals of the handlers are well-formed.
TypeOK ==
    /\ now \in 1 .. Horizon
    /\ hotel \in [Hotels -> Hotel]
    /\ inv \in [Invoices -> Invoice \cup {NoInvoice}]
    /\ charged \subseteq Invoices \X (1 .. MaxLinks)
    /\ sess \in [Handlers -> Session]
    /\ crashes \in 0 .. MaxCrashes /\ apart \in BOOLEAN

\* A paid invoice stays paid, whatever races with the sweep that marks the
\* open ones overdue.
PaidIsFinal ==
    [][\A n \in Invoices : inv[n].status = "PAID" => inv'[n].status = "PAID"]_vars

\* While handlers do not overlap or die, only a hotel that owes is suspended
\* for its subscription: paying lifts that suspension.
SuspendedForDebt ==
    apart /\ Busy = {} =>
        \A h \in Hotels : ForDebt(h) =>
            \E n \in Issued : inv[n].hotel = h /\ inv[n].status = "OVERDUE"

\* "lift any non-payment suspension": under the same condition no payment lifts
\* one that an operator made for another reason; an operator does.
OperatorSuspensionStands ==
    [][\A h \in Hotels :
        /\ apart'
        /\ hotel[h].status = "SUSPENDED" /\ hotel[h].reason = "other"
        /\ hotel'[h].status \in {"ACTIVE", "TRIAL"}
        => \E s \in Admins : ApproveWrite(s) \/ ReactivateWrite(s)]_vars

Owes(h) == \E n \in Unpaid(h) : inv[n].due + Grace < now

\* A hotel that owes past due and grace does not stay ACTIVE for ever.
DebtorIsSuspended ==
    \A h \in Hotels : (Owes(h) /\ hotel[h].status = "ACTIVE")
                          ~> ~ (Owes(h) /\ hotel[h].status = "ACTIVE")

\* Money charged with the link an invoice carries settles the invoice, through
\* crashes and repeated webhooks, unless a new link replaces that one.
Carries(c) == c[1] \in Issued /\ inv[c[1]].link = c[2]

ChargeSettles ==
    \A c \in Invoices \X (1 .. MaxLinks) :
        (c \in charged /\ Carries(c)) ~> (inv[c[1]].status = "PAID" \/ ~ Carries(c))

\* A paid period that ends with nothing left to pay is followed by an invoice
\* for the next (while rows are left).
Unbilled(h) ==
    /\ hotel[h].status = "ACTIVE" /\ hotel[h].plan = "paid"
    /\ hotel[h].end # NoTime /\ hotel[h].end <= now
    /\ Unpaid(h) = {} /\ Issued # Invoices

EndedPeriodIsBilled == \A h \in Hotels : Unbilled(h) ~> ~ Unbilled(h)

\* "the platform raises an invoice per hotel per plan period": an active hotel
\* on a paid plan has a subscription that the sweep will roll.
ActivePlanIsBilled ==
    Busy = {} /\ Issued # Invoices =>
        \A h \in Hotels : hotel[h].status = "ACTIVE" /\ hotel[h].plan = "paid" =>
                             hotel[h].end # NoTime

=============================================================================
