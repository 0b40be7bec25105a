------------------------------- MODULE Ledger -------------------------------
(***************************************************************************)
(* Guest folios and everything that posts to them: payments.service, the   *)
(* gift cards and promo codes of promotions.service, the restaurant order  *)
(* settled to a room, the in-room guest portal, the price adjustment of    *)
(* reservations.modify, and the cashier's drawer of cash-drawer.service    *)
(* that cash payments accrue to.                                           *)
(*                                                                         *)
(* A folio stores running totals beside its rows: totalCharges repeats the *)
(* sum of its line items, totalPaid the sum of its payments, and balance   *)
(* their difference.  Most handlers read the totals, await, and write back *)
(* absolute values, so a handler is a session with a snapshot.  An UPDATE  *)
(* inside a transaction locks its row until the commit: the folio row from *)
(* payCommit on, the reservation row from modifyCommit on.  Reads that     *)
(* follow each other in one handler are one step.                          *)
(*                                                                         *)
(* Abstracted: rows are kept as their sums; every payment is in the base   *)
(* currency; the opening float is left out of both sides of a variance.    *)
(***************************************************************************)
EXTENDS Integers, FiniteSets

CONSTANTS
    Folios,      \* reservations with their folio
    OrderFolio,  \* the folio the restaurant order is charged to
    Handlers,    \* bound: request handlers in flight
    Prices,      \* quoted totals of a stay
    Amounts,     \* amounts of a payment; a refund is negative
    PromoValue,  \* the fixed discount of the promo code
    MaxUses,     \* PromoCode.maxUses
    CardValue,   \* the gift card's initial balance
    Shifts,      \* bound: drawer shifts of the cashier, numbered
    MaxMoney,    \* bound: no posting starts on sums beyond it
    MaxBusy,     \* bound: handlers in flight at once (1 = a serial system)
    Ops          \* the operations the instance offers

ASSUME FolioAssumption  == OrderFolio \in Folios
ASSUME PriceAssumption  == Prices \subseteq Nat /\ Prices # {}
ASSUME AmountAssumption == Amounts \subseteq Int
ASSUME PromoAssumption  == PromoValue \in Nat /\ MaxUses \in Nat
ASSUME CardAssumption   == CardValue \in Nat
ASSUME ShiftAssumption  == Shifts \subseteq Nat \ {0}
ASSUME BoundAssumption  == MaxMoney \in Nat /\ MaxBusy \in Nat

VARIABLES
    folio,     \* folio[f]: Folio.totalCharges, totalPaid, balance
    lines,     \* lines[f]: sums of its line items: room charges, and the rest
    payments,  \* payments[f]: sum of its payments
    quoted,    \* quoted[f]: Reservation.quotedPrice
    order,     \* the restaurant order: its status, and its postings to the folio
    used,      \* PromoCode.usedCount
    card,      \* GiftCard.balance
    shift,     \* shift[n]: a CashDrawerShift row, and the cash it took
    sess       \* sess[s]: the locals of handler s

vars == <<folio, lines, payments, quoted, order, used, card, shift, sess>>

Totals   == [charges : Int, paid : Int, balance : Int]
Zero     == [charges |-> 0, paid |-> 0, balance |-> 0]
NoShift  == [status |-> "none", expected |-> 0, counted |-> 0, variance |-> 0, cash |-> 0]
Shift    == [status : {"none", "OPEN", "CLOSED", "RECONCILED"}, expected : Int,
             counted : Int, variance : Int, cash : Int]

PCs == {"idle", "payTx", "payCommit", "redeem", "promo", "orderPost", "orderPaid",
        "portal", "modifyTx", "modifyCommit", "open", "close"}

Idle == [pc |-> "idle", f |-> OrderFolio, amount |-> 0, cash |-> FALSE, read |-> Zero,
         quoted |-> 0, shift |-> 0, expected |-> 0]

Session == [pc : PCs, f : Folios, amount : Int, cash : BOOLEAN, read : Totals,
            quoted : Int, shift : Nat, expected : Int]

Init ==
    /\ quoted \in [Folios -> Prices]
    /\ folio = [f \in Folios |-> [charges |-> quoted[f], paid |-> 0, balance |-> quoted[f]]]
    /\ lines = [f \in Folios |-> [room |-> quoted[f], other |-> 0]]
    /\ payments = [f \in Folios |-> 0]
    /\ order = [status |-> "OPEN", posted |-> 0]
    /\ used = 0
    /\ card = CardValue
    /\ shift = [n \in Shifts |-> NoShift]
    /\ sess = [s \in Handlers |-> Idle]

-----------------------------------------------------------------------------

Free(s, op) ==
    /\ op \in Ops
    /\ sess[s].pc = "idle"
    /\ Cardinality({t \in Handlers : sess[t].pc # "idle"}) < MaxBusy

Goto(s, locals) == sess' = [sess EXCEPT ![s] = locals]
Finish(s)       == Goto(s, Idle)

Within(n) == -MaxMoney < n /\ n < MaxMoney

\* Bound: the sums of f leave room for one more posting.
Room(f) == /\ Within(lines[f].room) /\ Within(lines[f].other) /\ Within(payments[f])
           /\ Within(folio[f].charges) /\ Within(folio[f].paid)
           /\ \A n \in Shifts : Within(shift[n].cash)

\* No other transaction holds the row lock of folio f.
Unlocked(s, f) == \A t \in Handlers \ {s} : ~ (sess[t].pc = "payCommit" /\ sess[t].f = f)

OpenShifts == {n \in Shifts : shift[n].status = "OPEN"}

(* What the statements write over the stored row, given the totals read.   *)

\* Fault: a refund is taken off the balance instead of put back on it.
PaidUnsigned(row, read, amount) ==
    [row EXCEPT !.paid = read.paid + amount,
                !.balance = read.balance - (IF amount < 0 THEN -amount ELSE amount)]

\* totalPaid = folio.totalPaid + signedBase; balance = totalCharges - totalPaid.
Paid(row, read, amount) ==
    [row EXCEPT !.paid = read.paid + amount, !.balance = read.charges - (read.paid + amount)]

\* A charge moves totalCharges and balance together.
Charged(row, read, amount) ==
    [row EXCEPT !.charges = read.charges + amount, !.balance = read.balance + amount]

-----------------------------------------------------------------------------
(* payments.service                                                        *)

\* recordInner up to its transaction: the folio is read outside it.
PayRead(s) ==
    /\ Free(s, "pay")
    /\ \E f \in Folios, amount \in Amounts, cash \in BOOLEAN :
        /\ Room(f)
        /\ Goto(s, [Idle EXCEPT !.pc = "payTx", !.f = f, !.amount = amount, !.cash = cash,
                                !.read = folio[f]])
    /\ UNCHANGED <<folio, lines, payments, quoted, order, used, card, shift>>

\* In the transaction: the payment row, the folio update (which locks the row)
\* and, for cash, applyCash's read of an open shift of the cashier.
PayLock(s) ==
    LET me == sess[s] IN
    /\ me.pc = "payTx"
    /\ Unlocked(s, me.f)
    /\ \/ /\ ~ me.cash \/ OpenShifts = {}
          /\ Goto(s, [me EXCEPT !.pc = "payCommit"])
       \/ /\ me.cash
          /\ \E n \in OpenShifts :
              Goto(s, [me EXCEPT !.pc = "payCommit", !.shift = n,
                                 !.expected = shift[n].expected])
    /\ UNCHANGED <<folio, lines, payments, quoted, order, used, card, shift>>

\* Fault: applyCash leaves refunds out of the drawer.
AccruedUnsigned(row, expected, amount) ==
    [row EXCEPT !.expected = expected + (IF amount < 0 THEN 0 ELSE amount), !.cash = @ + amount]

\* applyCash writes the sum of what it read and the payment; cash is what the
\* drawer really took.
Accrued(row, expected, amount) ==
    [row EXCEPT !.expected = expected + amount, !.cash = @ + amount]

PayCommit(s) ==
    LET me == sess[s] IN
    /\ me.pc = "payCommit"
    /\ folio' = [folio EXCEPT ![me.f] = Paid(@, me.read, me.amount)]
    /\ payments' = [payments EXCEPT ![me.f] = @ + me.amount]
    /\ shift' = [n \in Shifts |-> IF n = me.shift THEN Accrued(shift[n], me.expected, me.amount)
                                                  ELSE shift[n]]
    /\ Finish(s)
    /\ UNCHANGED <<lines, quoted, order, used, card>>

-----------------------------------------------------------------------------
(* promotions.service                                                      *)

\* Fault: the balance of the card is not looked at.
CoversAny(amount) == amount > 0

Covers(amount) == amount > 0 /\ amount <= card

\* redeemGiftCard up to its transaction: card and folio are read outside it.
RedeemRead(s) ==
    /\ Free(s, "redeem")
    /\ \E f \in Folios, amount \in Amounts :
        /\ Room(f)
        /\ Covers(amount)
        /\ Goto(s, [Idle EXCEPT !.pc = "redeem", !.f = f, !.amount = amount, !.read = folio[f]])
    /\ UNCHANGED <<folio, lines, payments, quoted, order, used, card, shift>>

\* The card is decremented in place, the folio written from what was read.
RedeemCommit(s) ==
    LET me == sess[s] IN
    /\ me.pc = "redeem"
    /\ Unlocked(s, me.f)
    /\ card' = card - me.amount
    /\ folio' = [folio EXCEPT ![me.f].paid = me.read.paid + me.amount,
                              ![me.f].balance = me.read.balance - me.amount]
    /\ payments' = [payments EXCEPT ![me.f] = @ + me.amount]
    /\ Finish(s)
    /\ UNCHANGED <<lines, quoted, order, used, shift>>

\* A code without a limit has none, or 0.
WithinLimit == MaxUses = 0 \/ used < MaxUses

\* discountFor: never more than the charges.
Discount(charges) == IF PromoValue < charges THEN PromoValue ELSE charges

\* applyPromo up to its transaction: the code is checked, the folio read.
PromoRead(s) ==
    /\ Free(s, "promo")
    /\ WithinLimit
    /\ \E f \in Folios :
        /\ Room(f)
        /\ Discount(folio[f].charges) > 0
        /\ Goto(s, [Idle EXCEPT !.pc = "promo", !.f = f, !.read = folio[f],
                                !.amount = Discount(folio[f].charges)])
    /\ UNCHANGED <<folio, lines, payments, quoted, order, used, card, shift>>

PromoCommit(s) ==
    LET me == sess[s] IN
    /\ me.pc = "promo"
    /\ Unlocked(s, me.f)
    /\ lines' = [lines EXCEPT ![me.f].other = @ - me.amount]
    /\ folio' = [folio EXCEPT ![me.f] = Charged(@, me.read, -me.amount)]
    /\ used' = used + 1
    /\ Finish(s)
    /\ UNCHANGED <<payments, quoted, order, card, shift>>

-----------------------------------------------------------------------------
(* restaurant/orders.service and the guest portal                          *)

\* pay: the order is not PAID; the folio is read outside the transaction.
PayOrderRead(s) ==
    /\ Free(s, "order")
    /\ Room(OrderFolio)
    /\ order.status # "PAID"
    /\ Goto(s, [Idle EXCEPT !.pc = "orderPost", !.amount = 1, !.read = folio[OrderFolio]])
    /\ UNCHANGED <<folio, lines, payments, quoted, order, used, card, shift>>

\* The line item and the totals in one transaction ...
PayOrderPost(s) ==
    LET me == sess[s] IN
    /\ me.pc = "orderPost"
    /\ Unlocked(s, me.f)
    /\ lines' = [lines EXCEPT ![me.f].other = @ + me.amount]
    /\ folio' = [folio EXCEPT ![me.f] = Charged(@, me.read, me.amount)]
    /\ order' = [order EXCEPT !.posted = @ + 1]
    /\ Goto(s, [Idle EXCEPT !.pc = "orderPaid"])
    /\ UNCHANGED <<payments, quoted, used, card, shift>>

\* Fault: the settled order is left as it was.
SettledNot(o) == o

Settled(o) == [o EXCEPT !.status = "PAID"]

\* ... and the order's status in a statement of its own.
PayOrderPaid(s) ==
    /\ sess[s].pc = "orderPaid"
    /\ order' = Settled(order)
    /\ Finish(s)
    /\ UNCHANGED <<folio, lines, payments, quoted, used, card, shift>>

\* setStatus of the kitchen display: any order, whatever its status.
KitchenStatus(s) ==
    /\ Free(s, "kds")
    /\ order' = [order EXCEPT !.status = "SERVED"]
    /\ UNCHANGED <<folio, lines, payments, quoted, used, card, shift, sess>>

\* Room service or an upsell bought by the guest: first the line item ...
PortalLine(s) ==
    /\ Free(s, "portal")
    /\ \E f \in Folios :
        /\ Room(f)
        /\ lines' = [lines EXCEPT ![f].other = @ + 1]
        /\ Goto(s, [Idle EXCEPT !.pc = "portal", !.f = f, !.amount = 1])
    /\ UNCHANGED <<folio, payments, quoted, order, used, card, shift>>

\* ... then, in another statement, the totals, incremented in place.
PortalTotals(s) ==
    LET me == sess[s] IN
    /\ me.pc = "portal"
    /\ Unlocked(s, me.f)
    /\ folio' = [folio EXCEPT ![me.f] = Charged(@, folio[me.f], me.amount)]
    /\ Finish(s)
    /\ UNCHANGED <<lines, payments, quoted, order, used, card, shift>>

-----------------------------------------------------------------------------
(* reservations.modify: the price of the stay changes                      *)

\* The reservation is read and the new dates are priced.
ModifyRead(s) ==
    /\ Free(s, "modify")
    /\ \E f \in Folios, price \in Prices :
        /\ Room(f)
        /\ Goto(s, [Idle EXCEPT !.pc = "modifyTx", !.f = f, !.amount = price,
                                !.quoted = quoted[f]])
    /\ UNCHANGED <<folio, lines, payments, quoted, order, used, card, shift>>

\* In the transaction: the reservation is updated (and its row locked), then
\* the folio is read.
ModifyLock(s) ==
    LET me == sess[s] IN
    /\ me.pc = "modifyTx"
    /\ \A t \in Handlers : ~ (sess[t].pc = "modifyCommit" /\ sess[t].f = me.f)
    /\ Goto(s, [me EXCEPT !.pc = "modifyCommit", !.read = folio[me.f]])
    /\ UNCHANGED <<folio, lines, payments, quoted, order, used, card, shift>>

\* Fault: the adjustment posts the new price, not the difference.
AdjustmentInFull(price, was) == IF price # was THEN price ELSE 0

Adjustment(price, was) == price - was

ModifyCommit(s) ==
    LET me    == sess[s]
        delta == Adjustment(me.amount, me.quoted)
    IN  /\ me.pc = "modifyCommit"
        /\ quoted' = [quoted EXCEPT ![me.f] = me.amount]
        /\ \/ /\ delta # 0
              /\ Unlocked(s, me.f)
              /\ lines' = [lines EXCEPT ![me.f].room = @ + delta]
              /\ folio' = [folio EXCEPT ![me.f] = Charged(@, me.read, delta)]
           \/ /\ delta = 0
              /\ UNCHANGED <<lines, folio>>
        /\ Finish(s)
        /\ UNCHANGED <<payments, order, used, card, shift>>

-----------------------------------------------------------------------------
(* cash-drawer.service                                                     *)

Unopened == {n \in Shifts : shift[n].status = "none"}

\* open: the cashier has no open shift (bound: a shift row is left) ...
OpenRead(s) ==
    /\ Free(s, "drawer")
    /\ OpenShifts = {}
    /\ Cardinality(Unopened) > Cardinality({t \in Handlers : sess[t].pc = "open"})
    /\ Goto(s, [Idle EXCEPT !.pc = "open"])
    /\ UNCHANGED <<folio, lines, payments, quoted, order, used, card, shift>>

\* ... and then the new row is inserted.
OpenCommit(s) ==
    /\ sess[s].pc = "open"
    /\ \E n \in Unopened :
        /\ \A m \in Unopened : n <= m
        /\ shift' = [shift EXCEPT ![n] = [NoShift EXCEPT !.status = "OPEN"]]
    /\ Finish(s)
    /\ UNCHANGED <<folio, lines, payments, quoted, order, used, card>>

CloseRead(s) ==
    /\ Free(s, "drawer")
    /\ \E n \in OpenShifts :
        Goto(s, [Idle EXCEPT !.pc = "close", !.shift = n, !.expected = shift[n].expected])
    /\ UNCHANGED <<folio, lines, payments, quoted, order, used, card, shift>>

\* The variance is computed from the expected cash that was read.
CloseCommit(s) ==
    LET me == sess[s] IN
    /\ me.pc = "close"
    /\ \E counted \in {0, 1} :
        shift' = [shift EXCEPT ![me.shift].status = "CLOSED", ![me.shift].counted = counted,
                               ![me.shift].variance = counted - me.expected]
    /\ Finish(s)
    /\ UNCHANGED <<folio, lines, payments, quoted, order, used, card>>

Reconcile(s) ==
    /\ Free(s, "drawer")
    /\ \E n \in Shifts :
        /\ shift[n].status = "CLOSED"
        /\ shift' = [shift EXCEPT ![n].status = "RECONCILED"]
    /\ UNCHANGED <<folio, lines, payments, quoted, order, used, card, sess>>

-----------------------------------------------------------------------------

\* The process dies: the open transaction of handler s is rolled back, and the
\* statements it has not reached are never run.
Crash(s) ==
    /\ "crash" \in Ops
    /\ sess[s].pc # "idle"
    /\ Finish(s)
    /\ UNCHANGED <<folio, lines, payments, quoted, order, used, card, shift>>

Next ==
    \E s \in Handlers :
        \/ PayRead(s) \/ PayLock(s) \/ PayCommit(s)
        \/ RedeemRead(s) \/ RedeemCommit(s)
        \/ PromoRead(s) \/ PromoCommit(s)
        \/ PayOrderRead(s) \/ PayOrderPost(s) \/ PayOrderPaid(s) \/ KitchenStatus(s)
        \/ PortalLine(s) \/ PortalTotals(s)
        \/ ModifyRead(s) \/ ModifyLock(s) \/ ModifyCommit(s)
        \/ OpenRead(s) \/ OpenCommit(s) \/ CloseRead(s) \/ CloseCommit(s) \/ Reconcile(s)
        \/ Crash(s)

Spec == Init /\ [][Next]_vars

-----------------------------------------------------------------------------
(* Properties                                                              *)

\* The values the rows and the locals of the handlers can have.
TypeOK ==
    /\ folio \in [Folios -> Totals]
    /\ lines \in [Folios -> [room : Int, other : Int]]
    /\ payments \in [Folios -> Int]
    /\ quoted \in [Folios -> Prices]
    /\ order \in [status : {"OPEN", "SERVED", "PAID"}, posted : Nat]
    /\ used \in Nat /\ card \in Int
    /\ shift \in [Shifts -> Shift]
    /\ sess \in [Handlers -> Session]

\* The balance shown is charges less payments: kept by any mix of payments,
\* refunds and redemptions, and by any mix of charges, however they race.
BalanceIsDue == \A f \in Folios : folio[f].balance = folio[f].charges - folio[f].paid

Quiet == \A s \in Handlers : sess[s].pc = "idle"

\* "an auditor can trace it back to payments, folios": between requests the
\* stored totals are the sums of the rows they repeat.
TotalsTraceToRows ==
    Quiet => \A f \in Folios :
        /\ folio[f].charges = lines[f].room + lines[f].other
        /\ folio[f].paid = payments[f]

\* The room charges posted to the folio are the price quoted for the stay,
\* through any sequence of date changes.
RoomChargesAreQuoted == \A f \in Folios : lines[f].room = quoted[f]

\* "variance = countedCash - (openingFloat + cashCollected)" of a closed shift.
VarianceIsExact ==
    \A n \in Shifts : shift[n].status \in {"CLOSED", "RECONCILED"} =>
        shift[n].variance = shift[n].counted - shift[n].cash

\* A promo code is not used beyond its limit.
PromoWithinLimit == MaxUses # 0 => used <= MaxUses

\* A gift card never pays out more than was put on it.
CardCovered == card >= 0

\* An order is charged to the room once.
OrderPostedOnce == order.posted <= 1

=============================================================================
