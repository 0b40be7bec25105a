------------------------------ MODULE Booking ------------------------------
(***************************************************************************)
(* The reservation table of one property and every service that moves it:  *)
(* reservations.service (create, modify, cancel, the hold sweep),          *)
(* front-desk.service (check-in, check-out), the payment webhook that      *)
(* confirms a hold, the night audit and the manual room status.            *)
(*                                                                         *)
(* Each handler reads the database, awaits, and later commits one          *)
(* transaction computed from what it read.  A handler is therefore a       *)
(* session with a program counter: a Start action (the read and its guard) *)
(* and a Commit action (the transaction), between which any other session  *)
(* may run.  Postgres runs at READ COMMITTED: a commit is atomic and       *)
(* checks the exclusion constraint, and nothing the handler read before is *)
(* checked again.                                                          *)
(*                                                                         *)
(* Abstracted: prices and folios (module Ledger), guests, history and      *)
(* audit rows, room types (every room is of the one type asked for).       *)
(***************************************************************************)
EXTENDS Naturals, FiniteSets

CONSTANTS
    Rooms,          \* rooms, numbered: ORDER BY roomNumber is <=
    Ids,            \* bound: reservation rows, numbered in order of creation
    Requests,       \* bound: request handlers that can be in flight
    Cron,           \* the scheduler's handler of the hold sweep
    Horizon,        \* bound: the last instant a stay may end at
    ManualStatuses, \* room statuses an operator may set by hand
    MaxBusy,        \* bound: handlers in flight at once (1 = a serial system)
    Ops             \* the operations the instance offers

ASSUME RoomsAssumption  == Rooms \subseteq Nat /\ Rooms # {}
ASSUME IdsAssumption    == Ids \subseteq Nat /\ Ids # {}
ASSUME CronAssumption   == Cron \notin Requests
ASSUME TimeAssumption   == Horizon \in Nat
ASSUME BusyAssumption   == MaxBusy \in Nat
ASSUME StatusAssumption ==
    ManualStatuses \subseteq {"AVAILABLE", "OUT_OF_SERVICE", "MAINTENANCE", "DIRTY"}

VARIABLES
    res,        \* res[i]: the reservation row i, or NoRow
    roomStatus, \* roomStatus[r]: Room.status
    day,        \* Hotel.businessDate
    sess        \* sess[s]: what handler s has read and has still to do

vars == <<res, roomStatus, day, sess>>

Sessions == Requests \cup {Cron}
Days     == 0 .. Horizon

Stays        == {s \in [in : Days, out : Days] : s.in < s.out}
Statuses     == {"HELD", "CONFIRMED", "CHECKED_IN", "CHECKED_OUT", "CANCELLED", "NO_SHOW"}
RoomStatuses == {"AVAILABLE", "OCCUPIED", "DIRTY", "MAINTENANCE", "OUT_OF_SERVICE"}

\* holdExpiresAt: null, in the future, or in the past.
Holds == {"none", "live", "lapsed"}

Row   == [status : Statuses, room : Rooms, stay : Stays, hold : Holds]
NoRow == [status |-> "absent"]

PCs == {"idle", "create", "modify", "cancel", "checkIn", "checkOut", "confirm",
        "audit", "setRoom", "sweep", "sweepCancel"}

\* The locals of a handler; a field a handler does not use keeps Idle's value.
Idle == [pc |-> "idle", id |-> 0, room |-> 0, stay |-> [in |-> 0, out |-> 0],
         hold |-> "none", rooms |-> {}, ids |-> {}, day |-> 0, status |-> "AVAILABLE"]

Session == [pc : PCs, id : Nat, room : Nat, stay : [in : Days, out : Days], hold : Holds,
            rooms : SUBSET Rooms, ids : SUBSET Ids, day : Days, status : RoomStatuses]

-----------------------------------------------------------------------------
(* The availability check and the database's exclusion constraint.         *)

Blocking(row) == row.status \in {"HELD", "CONFIRMED", "CHECKED_IN"}

\* Fault: a stay that ends on the day the next begins is taken to clash.
ClosedClash(row, room, stay) ==
    /\ Blocking(row)
    /\ row.room = room
    /\ row.stay.in <= stay.out
    /\ row.stay.out >= stay.in

\* findAvailableRooms: checkInDate < checkOut and checkOutDate > checkIn.
Clash(row, room, stay) ==
    /\ Blocking(row)
    /\ row.room = room
    /\ row.stay.in < stay.out
    /\ row.stay.out > stay.in

Available(stay) ==
    {r \in Rooms : /\ roomStatus[r] \notin {"MAINTENANCE", "OUT_OF_SERVICE"}
                   /\ ~ \E i \in Ids : Clash(res[i], r, stay)}

\* The '[)' range of a stay, and && on two ranges: they share an instant.
Span(stay) == {t \in Days : stay.in <= t /\ t < stay.out}

\* Fault: the constraint forgets the guests who are in-house.
ExcludesArrivals(row, other) ==
    /\ {row.status, other.status} \subseteq {"HELD", "CONFIRMED"}
    /\ row.room = other.room
    /\ Span(row.stay) \cap Span(other.stay) # {}

Excludes(row, other) ==
    /\ Blocking(row) /\ Blocking(other)
    /\ row.room = other.room
    /\ Span(row.stay) \cap Span(other.stay) # {}

\* reservation_no_overlap accepts writing `row` as row i.
Admits(i, row) == \A j \in Ids \ {i} : ~ Excludes(row, res[j])

-----------------------------------------------------------------------------

\* x comes first in S: the lowest room number, the next row.
First(x, S) == \A y \in S : x <= y

Unused  == {i \in Ids : res[i] = NoRow}
Used    == Ids \ Unused
At(pc)  == {s \in Sessions : sess[s].pc = pc}
Busy    == {s \in Sessions : sess[s].pc # "idle"}

Init ==
    /\ res = [i \in Ids |-> NoRow]
    /\ roomStatus = [r \in Rooms |-> "AVAILABLE"]
    /\ day = 0
    /\ sess = [s \in Sessions |-> Idle]

\* A handler may start: it is offered, idle, and fewer than MaxBusy run.
Free(s, op) ==
    /\ op \in Ops
    /\ sess[s].pc = "idle"
    /\ Cardinality(Busy) < MaxBusy

Goto(s, locals) == sess' = [sess EXCEPT ![s] = locals]
Finish(s)       == Goto(s, Idle)

-----------------------------------------------------------------------------
(* reservations.service: create                                            *)

\* create/createInner up to the candidate rooms: the room asked for, whatever
\* its status, or every available one.  No candidate: NO_AVAILABILITY.
CreateStart(s) ==
    /\ Free(s, "create")
    /\ Cardinality(Unused) > Cardinality(At("create"))
    /\ \E stay \in Stays, hold \in {"none", "live"} :
       \E rooms \in {{r} : r \in Rooms} \cup {Available(stay)} :
        /\ rooms # {}
        /\ Goto(s, [Idle EXCEPT !.pc = "create", !.stay = stay, !.hold = hold,
                                !.rooms = rooms])
    /\ UNCHANGED <<res, roomStatus, day>>

\* Fault: the row is stored before a room is assigned.
RowWithoutRoom(locals, room) ==
    [status |-> "CONFIRMED", room |-> 0, stay |-> locals.stay, hold |-> "none"]

NewRow(locals, room) ==
    [status |-> IF locals.hold = "live" THEN "HELD" ELSE "CONFIRMED",
     room   |-> room,
     stay   |-> locals.stay,
     hold   |-> locals.hold]

\* One turn of the candidate loop: insert into the next room, or, on an
\* exclusion violation, drop it and go on (no room left: NO_AVAILABILITY).
CreateTry(s) ==
    \E room \in sess[s].rooms, i \in Unused :
        LET me   == sess[s]
            row  == NewRow(me, room)
            left == me.rooms \ {room}
        IN  /\ me.pc = "create"
            /\ First(room, me.rooms) /\ First(i, Unused)
            /\ \/ /\ Admits(i, row)
                  /\ res' = [res EXCEPT ![i] = row]
                  /\ Finish(s)
               \/ /\ ~ Admits(i, row)
                  /\ IF left = {} THEN Finish(s) ELSE Goto(s, [me EXCEPT !.rooms = left])
                  /\ UNCHANGED res
            /\ UNCHANGED <<roomStatus, day>>

-----------------------------------------------------------------------------
(* reservations.service: modify, cancel, releaseExpiredHolds               *)

MayModify(row) == row.status \notin {"CHECKED_OUT", "CANCELLED"}

\* modify up to its transaction.  The row written later carries the dates and
\* the room of the request, or else those read here.
ModifyStart(s) ==
    /\ Free(s, "modify")
    /\ \E i \in Used, stay \in Stays, room \in Rooms :
        /\ MayModify(res[i])
        /\ Goto(s, [Idle EXCEPT !.pc = "modify", !.id = i, !.stay = stay, !.room = room])
    /\ UNCHANGED <<res, roomStatus, day>>

\* Fault: the constraint guards inserts only.
WriteUnchecked(i, row) == res' = [res EXCEPT ![i] = row]

\* Writes row as row i unless the exclusion constraint refuses the transaction.
Write(i, row) == IF Admits(i, row) THEN res' = [res EXCEPT ![i] = row] ELSE UNCHANGED res

\* The transaction of modify; status and hold are left alone.
ModifyCommit(s) ==
    LET me == sess[s] IN
    /\ me.pc = "modify"
    /\ Write(me.id, [res[me.id] EXCEPT !.stay = me.stay, !.room = me.room])
    /\ Finish(s)
    /\ UNCHANGED <<roomStatus, day>>

Cancelled(i) == [res EXCEPT ![i].status = "CANCELLED"]

\* Fault: cancel forgets its guard.
AnyRow(row) == row.status \in Statuses

MayCancel(row) == row.status # "CHECKED_OUT"

CancelStart(s) ==
    /\ Free(s, "cancel")
    /\ \E i \in Used :
        /\ MayCancel(res[i])
        /\ Goto(s, [Idle EXCEPT !.pc = "cancel", !.id = i])
    /\ UNCHANGED <<res, roomStatus, day>>

CancelCommit(s) ==
    /\ sess[s].pc = "cancel"
    /\ res' = Cancelled(sess[s].id)
    /\ Finish(s)
    /\ UNCHANGED <<roomStatus, day>>

\* Fault: the sweep looks for holds without an expiry.
HeldForever == {i \in Ids : res[i].status = "HELD" /\ res[i].hold = "none"}

\* releaseExpiredHolds, the findMany: rows HELD past their expiry.
Lapsed == {i \in Ids : res[i].status = "HELD" /\ res[i].hold = "lapsed"}

SweepStart ==
    /\ Free(Cron, "sweep")
    /\ Lapsed # {}
    /\ Goto(Cron, [Idle EXCEPT !.pc = "sweep", !.ids = Lapsed])
    /\ UNCHANGED <<res, roomStatus, day>>

Swept(ids) == IF ids = {} THEN Idle ELSE [Idle EXCEPT !.pc = "sweep", !.ids = ids]

\* The sweep calls cancel for the next row: cancel's own read, which throws
\* (and is caught) for a checked-out reservation only.
SweepNext ==
    LET me == sess[Cron] IN
    /\ me.pc = "sweep"
    /\ \E i \in me.ids :
        \/ /\ ~ MayCancel(res[i])
           /\ Goto(Cron, Swept(me.ids \ {i}))
        \/ /\ MayCancel(res[i])
           /\ Goto(Cron, [me EXCEPT !.pc = "sweepCancel", !.id = i, !.ids = me.ids \ {i}])
    /\ UNCHANGED <<res, roomStatus, day>>

SweepCancel ==
    LET me == sess[Cron] IN
    /\ me.pc = "sweepCancel"
    /\ res' = Cancelled(me.id)
    /\ Goto(Cron, Swept(me.ids))
    /\ UNCHANGED <<roomStatus, day>>

-----------------------------------------------------------------------------
(* front-desk.service: check-in, check-out                                 *)

\* The room is the desk's choice or the reserved one; its status is not read.
CheckInStart(s) ==
    /\ Free(s, "checkIn")
    /\ \E i \in Used, room \in Rooms :
        /\ res[i].status \in {"CONFIRMED", "HELD"}
        /\ Goto(s, [Idle EXCEPT !.pc = "checkIn", !.id = i, !.room = room])
    /\ UNCHANGED <<res, roomStatus, day>>

CheckInCommit(s) ==
    LET me  == sess[s]
        row == [res[me.id] EXCEPT !.status = "CHECKED_IN", !.room = me.room]
    IN  /\ me.pc = "checkIn"
        /\ Write(me.id, row)
        /\ IF Admits(me.id, row)
           THEN roomStatus' = [roomStatus EXCEPT ![me.room] = "OCCUPIED"]
           ELSE UNCHANGED roomStatus
        /\ Finish(s)
        /\ UNCHANGED day

CheckOutStart(s) ==
    /\ Free(s, "checkOut")
    /\ \E i \in Used :
        /\ res[i].status = "CHECKED_IN"
        /\ Goto(s, [Idle EXCEPT !.pc = "checkOut", !.id = i, !.room = res[i].room])
    /\ UNCHANGED <<res, roomStatus, day>>

CheckOutCommit(s) ==
    LET me == sess[s] IN
    /\ me.pc = "checkOut"
    /\ res' = [res EXCEPT ![me.id].status = "CHECKED_OUT"]
    /\ roomStatus' = [roomStatus EXCEPT ![me.room] = "DIRTY"]
    /\ Finish(s)
    /\ UNCHANGED day

-----------------------------------------------------------------------------
(* payments: a paid hold is confirmed                                      *)

\* The webhook of a hosted payment, or a reconciled transfer, reads the status
\* and later confirms the row by its id alone.
ConfirmStart(s) ==
    /\ Free(s, "confirm")
    /\ \E i \in Used :
        /\ res[i].status = "HELD"
        /\ Goto(s, [Idle EXCEPT !.pc = "confirm", !.id = i])
    /\ UNCHANGED <<res, roomStatus, day>>

ConfirmCommit(s) ==
    LET me == sess[s] IN
    /\ me.pc = "confirm"
    /\ Write(me.id, [res[me.id] EXCEPT !.status = "CONFIRMED", !.hold = "none"])
    /\ Finish(s)
    /\ UNCHANGED <<roomStatus, day>>

-----------------------------------------------------------------------------
(* night-audit.service                                                     *)

\* Fault: the closed day's own arrivals are missed (checkInDate < dayStart).
EarlierArrivals(date) == {i \in Ids : res[i].status = "CONFIRMED" /\ res[i].stay.in < date}

Arrivals(date) == {i \in Ids : res[i].status = "CONFIRMED" /\ res[i].stay.in <= date}

AuditStart(s) ==
    /\ Free(s, "audit")
    /\ day < Horizon
    /\ Goto(s, [Idle EXCEPT !.pc = "audit", !.ids = Arrivals(day), !.day = day])
    /\ UNCHANGED <<res, roomStatus, day>>

\* One transaction per reservation found, in any order.
AuditMark(s) ==
    LET me == sess[s] IN
    /\ me.pc = "audit"
    /\ \E i \in me.ids :
        /\ res' = [res EXCEPT ![i].status = "NO_SHOW"]
        /\ Goto(s, [me EXCEPT !.ids = me.ids \ {i}])
    /\ UNCHANGED <<roomStatus, day>>

\* The date rolls from the one this run read.
AuditRoll(s) ==
    LET me == sess[s] IN
    /\ me.pc = "audit"
    /\ me.ids = {}
    /\ day' = me.day + 1
    /\ Finish(s)
    /\ UNCHANGED <<res, roomStatus>>

-----------------------------------------------------------------------------
(* rooms.service: setStatus; time                                          *)

SetRoomStart(s) ==
    /\ Free(s, "setRoom")
    /\ \E r \in Rooms, st \in ManualStatuses :
        /\ ~ (roomStatus[r] = "OCCUPIED" /\ st # "AVAILABLE")
        /\ Goto(s, [Idle EXCEPT !.pc = "setRoom", !.room = r, !.status = st])
    /\ UNCHANGED <<res, roomStatus, day>>

SetRoomCommit(s) ==
    LET me == sess[s] IN
    /\ me.pc = "setRoom"
    /\ roomStatus' = [roomStatus EXCEPT ![me.room] = me.status]
    /\ Finish(s)
    /\ UNCHANGED <<res, day>>

\* HOLD_TTL_MINUTES pass.  Only a HELD row's expiry is ever read.
HoldLapses(i) ==
    /\ res[i].status = "HELD" /\ res[i].hold = "live"
    /\ res' = [res EXCEPT ![i].hold = "lapsed"]
    /\ UNCHANGED <<roomStatus, day, sess>>

-----------------------------------------------------------------------------

\* What a handler in flight does next: each handler finishes what it started.
Step(s) ==
    \/ CreateTry(s)
    \/ ModifyCommit(s)
    \/ CancelCommit(s)
    \/ CheckInCommit(s)
    \/ CheckOutCommit(s)
    \/ ConfirmCommit(s)
    \/ AuditMark(s)
    \/ AuditRoll(s)
    \/ SetRoomCommit(s)

Start(s) ==
    \/ CreateStart(s)
    \/ ModifyStart(s)
    \/ CancelStart(s)
    \/ CheckInStart(s)
    \/ CheckOutStart(s)
    \/ ConfirmStart(s)
    \/ AuditStart(s)
    \/ SetRoomStart(s)

SweepStep == SweepNext \/ SweepCancel

Next ==
    \/ \E s \in Requests : Start(s) \/ Step(s)
    \/ SweepStart \/ SweepStep
    \/ \E i \in Ids : HoldLapses(i)

Spec == Init /\ [][Next]_vars

\* A started handler runs to its end (the event loop and the database answer)
\* and the cron fires every three minutes.
Fairness ==
    /\ \A s \in Requests : WF_vars(Step(s))
    /\ WF_vars(SweepStart)
    /\ WF_vars(SweepStep)

FairSpec == Spec /\ Fairness

-----------------------------------------------------------------------------
(* Properties                                                              *)

\* The values the code can store: reservation rows, room statuses, the
\* business date, and the locals of a handler in flight.
TypeOK ==
    /\ res \in [Ids -> Row \cup {NoRow}]
    /\ roomStatus \in [Rooms -> RoomStatuses]
    /\ day \in Days
    /\ sess \in [Sessions -> Session]

Occupies(row, room, t) ==
    /\ Blocking(row)
    /\ row.room = room
    /\ row.stay.in <= t /\ t < row.stay.out

\* "double-booking is impossible": at no instant is a room held by two
\* reservations, whatever handlers interleave, resurrect or move rows.
NoDoubleBooking ==
    \A i, j \in Ids, room \in Rooms, t \in Days :
        Occupies(res[i], room, t) /\ Occupies(res[j], room, t) => i = j

\* The application's availability check and the database's constraint agree
\* at every boundary: a room is offered for a stay exactly when it is in
\* service and the insert would be accepted.
AvailabilityExact ==
    \A stay \in Stays, room \in Rooms, i \in Unused :
        LET row == [status |-> "CONFIRMED", room |-> room, stay |-> stay, hold |-> "none"]
        IN  room \in Available(stay) <=>
                /\ roomStatus[room] \notin {"MAINTENANCE", "OUT_OF_SERVICE"}
                /\ Admits(i, row)

\* No hold is immortal: whatever handlers wrote the row in between, a
\* reservation that is HELD still carries the expiry the sweep looks for.
HeldHasExpiry == \A i \in Ids : res[i].status = "HELD" => res[i].hold # "none"

\* The services implement the room calendar: every commit moves the block of
\* one reservation, to instants nobody else holds.
Block(row) == IF Blocking(row) THEN {row.room} \X Span(row.stay) ELSE {}

Calendar == INSTANCE RoomCalendar WITH taken <- [i \in Ids |-> Block(res[i])]

ImplementsCalendar == Calendar!Spec

Moves(i, from, to) == res[i].status = from /\ res'[i].status = to

\* The life of a reservation when handlers do not overlap: only the moves the
\* guards of cancel, check-in, check-out, the webhook and the audit allow.
Lifecycle ==
    [][\A i \in Ids :
        \/ res'[i].status = res[i].status
        \/ \E to \in {"HELD", "CONFIRMED"} : Moves(i, "absent", to)
        \/ \E to \in {"CONFIRMED", "CHECKED_IN", "CANCELLED"} : Moves(i, "HELD", to)
        \/ \E to \in {"CHECKED_IN", "NO_SHOW", "CANCELLED"} : Moves(i, "CONFIRMED", to)
        \/ \E to \in {"CHECKED_OUT", "CANCELLED"} : Moves(i, "CHECKED_IN", to)
        \/ Moves(i, "NO_SHOW", "CANCELLED")]_vars

\* The night audit leaves no confirmed arrival of the day it closes, and
\* closes one day at a time.
AuditClosesDay ==
    [][day' # day => /\ day' = day + 1
                     /\ \A i \in Ids : res'[i].status = "CONFIRMED" =>
                                         res'[i].stay.in > day]_vars

\* The sweep releases holds: a confirmed reservation is not its to cancel.
SweepReleasesHolds == [][SweepCancel => \A i \in Ids : ~ Moves(i, "CONFIRMED", "CANCELLED")]_vars

\* An abandoned hold is always released: some handler moves it on, or the sweep
\* cancels it.
LapsedHoldIsReleased ==
    \A i \in Ids : (res[i].status = "HELD" /\ res[i].hold = "lapsed") ~> (res[i].status # "HELD")

=============================================================================
