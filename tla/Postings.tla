------------------------------ MODULE Postings ------------------------------
(* Two offers of the ledger side by side.  The constants of Ledger make one *)
(* in which requests are to come one at a time; in the other, Racing, they  *)
(* overlap, and the process dies.  A run of the two is one graph of two     *)
(* parts that never meet.                                                   *)
EXTENDS Ledger

CONSTANTS
    RacingPrices,  \* Prices,
    RacingMoney,   \* MaxMoney,
    RacingBusy,    \* MaxBusy
    RacingOps      \* and Ops of the racing offer

ASSUME RacingAssumption ==
    /\ RacingPrices \subseteq Nat /\ RacingPrices # {}
    /\ RacingMoney \in Nat /\ RacingBusy \in Nat

VARIABLE offer  \* which of the two a behaviour is of; never changes

Racing == INSTANCE Ledger WITH
    Prices <- RacingPrices, MaxMoney <- RacingMoney, MaxBusy <- RacingBusy, Ops <- RacingOps

PostingsInit == \/ offer = "serial" /\ Init
                \/ offer = "racing" /\ Racing!Init

\* One request at a time.
SerialOffer == offer = "serial" /\ Next /\ UNCHANGED offer

\* Handlers overlap, and die.
RacingOffer == offer = "racing" /\ Racing!Next /\ UNCHANGED offer

PostingsSpec == PostingsInit /\ [][SerialOffer \/ RacingOffer]_<<vars, offer>>

\* The racing offer alone.
RacingSpec == Racing!Init /\ offer = "racing" /\ [][RacingOffer]_<<vars, offer>>

-----------------------------------------------------------------------------

\* One request at a time, the stored totals of a folio trace to its rows, and the
\* variance of a closed shift is what was counted less the cash the drawer took.
SerialTotalsTrace == offer = "serial" => TotalsTraceToRows /\ VarianceIsExact

\* One request at a time, room charges follow the price through any date changes.
SerialChargesQuoted == offer = "serial" => RoomChargesAreQuoted

\* One request at a time, no promo code is used and no gift card pays out beyond
\* its limit, and an order is charged to the room once.
SerialWithinLimits == offer = "serial" => PromoWithinLimit /\ CardCovered /\ OrderPostedOnce

=============================================================================
