------------------------------ MODULE Loyalty ------------------------------
(***************************************************************************)
(* The spending, points and tier of a guest: guests.service.               *)
(*                                                                         *)
(* A payment commits (module Ledger) and its event is dispatched in memory *)
(* afterwards, or is lost.  The listener increments the totals in place    *)
(* and derives the tier from the row it got back; the row is locked from   *)
(* the increment to the commit, so its transaction is one action.  redeem  *)
(* reads the points before the transaction that takes them.                *)
(*                                                                         *)
(* Abstracted: currencies; the dates of visits; the other guests.          *)
(***************************************************************************)
EXTENDS Integers, FiniteSets, Functions

CONSTANTS
    Payments,     \* bound: payments of the guest
    Amounts,      \* what a payment may be; a refund is negative
    PerPoint,     \* the amount that earns a point
    Silver, Gold, Platinum,  \* what a tier takes
    Threshold,    \* points needed to redeem
    Redeemers,    \* bound: redemptions in flight
    MaxByHand     \* bound: redemptions, adjustments and profile changes

VARIABLES
    pay,      \* pay[p]: the amount, and how far its event has come
    guest,    \* totalSpent, loyaltyPoints, loyaltyTier, vip
    rows,     \* the sum of the LoyaltyTransaction rows
    redeemer, \* redeemer[h]: the redemption in flight
    byHand,   \* used up
    slipped   \* history: two redemptions at once, or points taken away by hand

vars == <<pay, guest, rows, redeemer, byHand, slipped>>

Tiers == {"STANDARD", "SILVER", "GOLD", "PLATINUM"}
Idle  == [pc |-> "idle", take |-> 0]

Init ==
    /\ pay = [p \in Payments |-> [amount |-> 0, way |-> "none"]]
    /\ guest = [spent |-> 0, points |-> 0, tier |-> "STANDARD", vip |-> FALSE]
    /\ rows = 0
    /\ redeemer = [h \in Redeemers |-> Idle]
    /\ byHand = 0
    /\ slipped = FALSE

TierFor(spent) == CASE spent >= Platinum -> "PLATINUM"
                    [] spent >= Gold     -> "GOLD"
                    [] spent >= Silver   -> "SILVER"
                    [] OTHER             -> "STANDARD"

\* payments.service commits a payment.
PaymentCommits(p) ==
    /\ pay[p].way = "none"
    /\ \E a \in Amounts : pay' = [pay EXCEPT ![p] = [amount |-> a, way |-> "committed"]]
    /\ UNCHANGED <<guest, rows, redeemer, byHand, slipped>>

\* The process dies before the event, or the listener fails.
EventLost(p) ==
    /\ pay[p].way = "committed"
    /\ pay' = [pay EXCEPT ![p].way = "lost"]
    /\ UNCHANGED <<guest, rows, redeemer, byHand, slipped>>

\* Fault: the tier goes by the total read before the increment.
TierBasisBefore(spent, amount) == spent

\* The total the tier is derived from: the row after the increment.
TierBasis(spent, amount) == spent + amount

\* Fault: a refund is taken off the spending.
PassedOverNever(amount) == FALSE

\* A refund is passed over.
PassedOver(amount) == amount <= 0

\* onPaymentRecorded: the totals, the tier and the points of the payment.
OnPaymentRecorded(p) ==
    /\ pay[p].way = "committed"
    /\ pay' = [pay EXCEPT ![p].way = "heard"]
    /\ IF PassedOver(pay[p].amount)
         THEN UNCHANGED <<guest, rows>>
         ELSE LET a == pay[p].amount  earned == a \div PerPoint
                  tier == TierFor(TierBasis(guest.spent, a)) IN
              /\ guest' = [spent |-> guest.spent + a, points |-> guest.points + earned,
                           tier |-> tier, vip |-> guest.vip \/ tier \in {"GOLD", "PLATINUM"}]
              /\ rows' = rows + earned
    /\ UNCHANGED <<redeemer, byHand, slipped>>

ByHand == byHand < MaxByHand /\ byHand' = byHand + 1

\* applyPoints: the points and their row in one transaction.
ApplyPoints(points) ==
    /\ guest' = [guest EXCEPT !.points = @ + points]
    /\ rows' = rows + points

AdjustPoints(points) ==
    /\ ByHand
    /\ ApplyPoints(points)
    /\ slipped' = (slipped \/ points < 0)
    /\ UNCHANGED <<pay, redeemer>>

\* redeemPoints reads the guest, checks and takes the smaller of points and balance ...
RedeemRead(h, points) ==
    /\ ByHand
    /\ redeemer[h] = Idle
    /\ guest.points >= Threshold
    /\ redeemer' = [redeemer EXCEPT ![h] =
         [pc |-> "apply", take |-> IF points < guest.points THEN points ELSE guest.points]]
    /\ slipped' = (slipped \/ \E g \in Redeemers : redeemer[g] # Idle)
    /\ UNCHANGED <<pay, guest, rows>>

\* ... and then applies it.
RedeemApply(h) ==
    /\ redeemer[h].pc = "apply"
    /\ ApplyPoints(-redeemer[h].take)
    /\ redeemer' = [redeemer EXCEPT ![h] = Idle]
    /\ UNCHANGED <<pay, byHand, slipped>>

\* updateProfile, what matters of it.
UpdateProfile(vip) ==
    /\ ByHand
    /\ guest' = [guest EXCEPT !.vip = vip]
    /\ UNCHANGED <<pay, rows, redeemer, slipped>>

Next ==
    \/ \E p \in Payments : PaymentCommits(p) \/ EventLost(p) \/ OnPaymentRecorded(p)
    \/ \E n \in {-1, 1} : AdjustPoints(n)
    \/ \E h \in Redeemers : (\E n \in 1 .. 2 : RedeemRead(h, n)) \/ RedeemApply(h)
    \/ \E vip \in BOOLEAN : UpdateProfile(vip)

Spec == Init /\ [][Next]_vars

-----------------------------------------------------------------------------
(* Properties                                                              *)

\* The values the rows and the redemptions can have.
TypeOK ==
    /\ pay \in [Payments -> [amount : Amounts \cup {0}, way : {"none", "committed", "heard", "lost"}]]
    /\ guest.spent \in Nat /\ guest.points \in Int /\ guest.tier \in Tiers /\ guest.vip \in BOOLEAN
    /\ redeemer \in [Redeemers -> [pc : {"idle", "apply"}, take : Nat]]

Heard == {p \in Payments : pay[p].way = "heard" /\ pay[p].amount > 0}

\* "Tracks lifetime spend, visits, points and tier; awards points on payment": the
\* total spent is the payments whose events were heard, the tier is that total's,
\* the points are the sum of the loyalty rows, and no redemption takes points the
\* guest has not, unless two redemptions overlap or somebody took points by hand.
LoyaltyTraces ==
    /\ guest.spent = SumFunctionOnSet([p \in Payments |-> pay[p].amount], Heard)
    /\ guest.tier = TierFor(guest.spent)
    /\ guest.points = rows
    /\ ~ slipped => guest.points >= 0

=============================================================================
