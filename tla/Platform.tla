------------------------------ MODULE Platform ------------------------------
(***************************************************************************)
(* What stands between a hotel and the outside, as the extension of        *)
(* TenantGate: the gate, the subscription, the logins and the payments of  *)
(* guests.  As in BackOffice they share no state of each other's; part     *)
(* says which of them moves in a behaviour and never changes.              *)
(***************************************************************************)
EXTENDS FiniteSets, TenantGate

CONSTANTS
    Workers,                                   \* requests in flight at the logins and the gateway
    Hotels, Invoices, Admins, Gateway, Cron, Grace, Period, Offers,    \* Subscription
    Horizon, MaxLinks, AdminReasons, MaxCrashes, Ops,
    Users, Sessions, MaxChanges,                                       \* Accounts
    Reservations, Cards, Transfers, Of, Amount, Sessioned, Accounts, MaxFaults  \* Gateway

ASSUME SubscriptionAssumption ==
    /\ \A n \in Invoices : n \in Nat \ {0}
    /\ Cron \notin Admins /\ Gateway \notin Admins /\ Cron # Gateway
    /\ Grace \in Nat /\ Period \in Nat /\ Horizon \in Nat \ {0}
    /\ MaxLinks \in Nat /\ MaxCrashes \in Nat
    /\ Offers \subseteq {"free", "paid"} /\ AdminReasons \subseteq {"subscription", "other"}
ASSUME UsersAssumption ==
    /\ IsFiniteSet(Users) /\ Users # {}
    /\ \A s \in Sessions : s \in Nat \ {0}
ASSUME PaymentsAssumption ==
    /\ IsFiniteSet(Cards) /\ IsFiniteSet(Transfers) /\ Cards \cap Transfers = {}
    /\ \A a \in Accounts : a \in Nat \ {0}
    /\ Of \in [Cards -> Reservations] /\ MaxFaults \in Nat

VARIABLES
    part,
    clock, hotel, inv, charged, sess, crashes, apart,        \* Subscription
    user, session, desk, epoch, changes, unguarded,          \* Accounts
    booking, account, paid, into, stored, rows, answered,    \* Gateway
    handler, faults, exposed

S == INSTANCE Subscription WITH now <- clock
A == INSTANCE Accounts WITH Handlers <- Workers
G == INSTANCE Gateway WITH Handlers <- Workers

gate         == vars
subscription == <<clock, hotel, inv, charged, sess, crashes, apart>>
accounts     == <<user, session, desk, epoch, changes, unguarded>>
gateway      == <<booking, account, paid, into, stored, rows, answered, handler, faults, exposed>>

platformVars == <<part, gate, subscription, accounts, gateway>>

PlatformInit ==
    /\ part \in {"gate", "subscription", "accounts", "gateway"}
    /\ Init /\ S!Init /\ A!Init /\ G!Init
    /\ part # "subscription" => \A h \in DOMAIN hotel : hotel[h].plan = "none"

\* A step of one part leaves the others as they are.
GateStep == part = "gate" /\ Next /\ UNCHANGED <<part, subscription, accounts, gateway>>

SubscriptionStep == part = "subscription" /\ S!Next /\ UNCHANGED <<part, gate, accounts, gateway>>

AccountsStep == part = "accounts" /\ A!Next /\ UNCHANGED <<part, gate, subscription, gateway>>

GatewayStep == part = "gateway" /\ G!Next /\ UNCHANGED <<part, gate, subscription, accounts>>

PlatformNext == GateStep \/ SubscriptionStep \/ AccountsStep \/ GatewayStep

PlatformSpec == PlatformInit /\ [][PlatformNext]_platformVars

-----------------------------------------------------------------------------

\* The values of the rows, locals and histories of the part that moves.
RowsTyped == CASE part = "gate"         -> TypeOK
               [] part = "subscription" -> S!TypeOK
               [] part = "accounts"     -> A!TypeOK
               [] part = "gateway"      -> G!TypeOK

\* While handlers keep apart, a hotel is suspended for its subscription only while it
\* owes, and no payment lifts what an operator imposed.
SuspensionsHold == [](part = "subscription" => S!SuspendedForDebt) /\ S!OperatorSuspensionStands

\* A paid invoice stays paid.
PaidIsFinal == S!PaidIsFinal

\* A login has one live session, a revoked one does not return, an owner remains.
LoginsHold == part = "accounts" => A!RotationKeepsOne /\ A!RevocationHolds /\ A!OwnerRemains

\* A key of a payment is recorded once.
RecordedOncePerKey == part = "gateway" => G!RecordedOncePerKey

\* What is answered with success is confirmed and received.
AnsweredIsSettled == part = "gateway" => G!AnsweredIsSettled

=============================================================================
