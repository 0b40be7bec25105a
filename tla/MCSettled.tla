------------------------------ MODULE MCSettled ------------------------------
(***************************************************************************)
(* The instances of Booking and Gateway for what must happen to a hold in  *)
(* the end, side by side: part says which of them moves in a behaviour and *)
(* never changes.                                                          *)
(***************************************************************************)
EXTENDS Integers

CONSTANT Handlers  \* deliveries and requests in flight at the gateway

VARIABLES
    part,
    res, roomStatus, day, desk,                                                     \* Booking
    booking, account, paid, into, stored, rows, answered, handler, faults, exposed  \* Gateway

B == INSTANCE Booking WITH
        Rooms <- {1}, Ids <- {1, 2}, Requests <- {"guest"}, Cron <- "cron", Horizon <- 2, MaxBusy <- 2,
        ManualStatuses <- {"OUT_OF_SERVICE"}, sess <- desk,
        Ops <- {"create", "modify", "cancel", "sweep", "confirm", "checkIn"}

G == INSTANCE Gateway WITH
        Reservations <- {1}, Cards <- {1}, Transfers <- {2}, Of <- [c \in {1} |-> 1],
        Amount <- [c \in {2} |-> 1], Sessioned <- {2}, Accounts <- {1}, MaxFaults <- 1

bookings == <<res, roomStatus, day, desk>>
gateway  == <<booking, account, paid, into, stored, rows, answered, handler, faults, exposed>>

Init == part \in {"booking", "gateway"} /\ B!Init /\ G!Init

\* A step of one part leaves the other as it is.
BookingStep == part = "booking" /\ B!Next /\ UNCHANGED <<part, gateway>>

GatewayStep == part = "gateway" /\ G!Next /\ UNCHANGED <<part, bookings>>

Next == BookingStep \/ GatewayStep

\* The fairness of a part is asked of the behaviours in which it moves.
Spec ==
    /\ Init
    /\ [][Next]_<<part, bookings, gateway>>
    /\ part = "booking" => B!Fairness
    /\ part = "gateway" => G!Fairness

-----------------------------------------------------------------------------

\* A lapsed hold is released in the end.
LapsedHoldIsReleased == B!LapsedHoldIsReleased

\* A paid checkout is recorded, its hold confirmed or gone, and it is answered.
PaidIsSettled == G!PaidIsSettled

=============================================================================
