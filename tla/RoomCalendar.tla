---------------------------- MODULE RoomCalendar ----------------------------
(***************************************************************************)
(* What the reservation services promise, without their handlers, statuses *)
(* or races: a calendar in which every instant of every room belongs to at *)
(* most one booking.  A booking holds one contiguous stay in one room or   *)
(* nothing; in one step one booking takes a new stay, all of it free, or   *)
(* lets go of everything it holds.                                         *)
(*                                                                         *)
(* External reading of apps/api/prisma/sql/booking_exclusion.sql: "double- *)
(* booking is impossible at the DB level".                                 *)
(***************************************************************************)
EXTENDS Naturals

CONSTANTS Rooms, Ids, Horizon

VARIABLE taken   \* taken[i]: the room instants that booking i holds

Stays == {s \in [in : 0 .. Horizon, out : 0 .. Horizon] : s.in < s.out}

\* The instants of a stay: the day of departure is free again.
Instants(stay) == {t \in 0 .. Horizon : stay.in <= t /\ t < stay.out}

Block(room, stay) == {room} \X Instants(stay)

FreeFor(i, block) == \A j \in Ids \ {i} : taken[j] \cap block = {}

Init == taken = [i \in Ids |-> {}]

Take(i) ==
    \E room \in Rooms, stay \in Stays :
        /\ FreeFor(i, Block(room, stay))
        /\ taken' = [taken EXCEPT ![i] = Block(room, stay)]

Release(i) == taken' = [taken EXCEPT ![i] = {}]

Next == \E i \in Ids : Take(i) \/ Release(i)

Spec == Init /\ [][Next]_taken

\* No instant of a room belongs to two bookings.
Exclusive == \A i, j \in Ids : i # j => taken[i] \cap taken[j] = {}

=============================================================================
