------------------------------ MODULE Turnover ------------------------------
(***************************************************************************)
(* The day of a room: Room.status as the front desk, housekeeping,         *)
(* maintenance and the staff move it, and the event that carries a         *)
(* check-out to housekeeping.                                              *)
(*                                                                         *)
(* A check-out commits, then records its event in the outbox, then the     *)
(* event is dispatched in memory, and the listener of housekeeping creates *)
(* the cleaning task.  Nothing reads the outbox back and the listener      *)
(* swallows its errors, so a death or a failure on the way loses the task. *)
(* Every transition of a task or a ticket is one transaction, whose only   *)
(* earlier read is of columns that never change: it is one action.  None   *)
(* looks at the status of the task, of the ticket or of the room.          *)
(*                                                                         *)
(* Abstracted: who does the work, priorities and notes; which stay gets    *)
(* which room (module Booking); notifications; tickets that leave their    *)
(* room in service, which move no room.                                    *)
(***************************************************************************)
EXTENDS Naturals, FiniteSets

CONSTANTS
    Rooms,
    Stays,    \* bound: stays that arrive, each checked in and out once
    Tasks,    \* bound: HousekeepingTask rows, numbered in order of creation
    Tickets,  \* bound: MaintenanceTicket rows that take a room out of service
    MaxLost   \* bound: check-outs whose event or listener fails

VARIABLES
    room,     \* room[r]: Room.status
    stay,     \* stay[i]: the reservation's status, its room, where its check-out is
    task,     \* task[k]: the cleaning task's room and status, or NoTask
    ticket,   \* ticket[n]: the ticket's room and status, or NoTicket
    setting,  \* setStatus in flight: what it will write, and whether it read OCCUPIED
    by,       \* history: who wrote room[r] last
    alone     \* history: since the last check-in only setStatus wrote room[r], knowingly

vars == <<room, stay, task, ticket, setting, by, alone>>

RoomStatuses == {"AVAILABLE", "OCCUPIED", "DIRTY", "CLEANING", "INSPECTION",
                 "MAINTENANCE", "OUT_OF_SERVICE"}
HkStatuses   == {"PENDING", "ASSIGNED", "IN_PROGRESS", "AWAITING_INSPECTION", "PASSED", "FAILED"}

\* OPEN stands for every status before the end, RESOLVED for CLOSED too.
MaintStatuses == {"OPEN", "RESOLVED", "CANCELLED"}

ManualStatuses == {"AVAILABLE", "OUT_OF_SERVICE", "MAINTENANCE", "DIRTY"}

NoTask    == [status |-> "none"]
NoTicket  == [status |-> "none"]
NoSetting == [status |-> "none"]

\* How far the check-out of a stay has come on its way to housekeeping.
Ways == {"none", "committed", "dispatched", "tasked", "lost"}

Init ==
    /\ room = [r \in Rooms |-> "AVAILABLE"]
    /\ stay \in [Stays -> {[status |-> "due", room |-> r, way |-> "none"] : r \in Rooms}]
    /\ task = [k \in Tasks |-> NoTask]
    /\ ticket = [n \in Tickets |-> NoTicket]
    /\ setting = NoSetting
    /\ by = [r \in Rooms |-> "hand"]
    /\ alone = [r \in Rooms |-> FALSE]

-----------------------------------------------------------------------------

\* Room r gets status s, written by w.
Put(r, s, w) ==
    /\ room' = [room EXCEPT ![r] = s]
    /\ by' = [by EXCEPT ![r] = w]

\* Somebody other than setStatus wrote over the status the guest gave the room.
Disturb(r) == alone' = [alone EXCEPT ![r] = FALSE]

Made(rows, none) == {k \in DOMAIN rows : rows[k] # none}

\* The next row to be inserted.
IsNext(k, rows, none) ==
    /\ rows[k] = none
    /\ \A j \in DOMAIN rows : rows[j] = none => k <= j

(* front-desk.service                                                      *)

\* checkIn: the room is not looked at, whatever its status.
CheckIn(i) ==
    /\ stay[i].status = "due"
    /\ stay' = [stay EXCEPT ![i].status = "in"]
    /\ Put(stay[i].room, "OCCUPIED", "desk")
    /\ alone' = [alone EXCEPT ![stay[i].room] = TRUE]
    /\ UNCHANGED <<task, ticket, setting>>

\* checkOut, its transaction.
CheckOut(i) ==
    /\ stay[i].status = "in"
    /\ stay' = [stay EXCEPT ![i].status = "out", ![i].way = "committed"]
    /\ Put(stay[i].room, "DIRTY", "desk")
    /\ Disturb(stay[i].room)
    /\ UNCHANGED <<task, ticket, setting>>

\* checkOut, after its transaction: EventBusService.emit.
EmitCheckedOut(i) ==
    /\ stay[i].way = "committed"
    /\ stay' = [stay EXCEPT ![i].way = "dispatched"]
    /\ UNCHANGED <<room, task, ticket, setting, by, alone>>

\* The process dies, or a statement fails, before the task is there.
LoseCheckedOut(i) ==
    /\ stay[i].way \in {"committed", "dispatched"}
    /\ Cardinality({j \in Stays : stay[j].way = "lost"}) < MaxLost
    /\ stay' = [stay EXCEPT ![i].way = "lost"]
    /\ UNCHANGED <<room, task, ticket, setting, by, alone>>

-----------------------------------------------------------------------------
(* housekeeping.service                                                    *)

\* createTask, for an assignee or for none.
CreateTask(k, r) ==
    /\ IsNext(k, task, NoTask)
    /\ \E s \in {"PENDING", "ASSIGNED"} : task' = [task EXCEPT ![k] = [status |-> s, room |-> r]]

\* onReservationCheckedOut: a CHECKOUT_CLEAN for the vacated room.
OnCheckedOut(i) ==
    /\ stay[i].way = "dispatched"
    /\ \E k \in Tasks :
        /\ IsNext(k, task, NoTask)
        /\ task' = [task EXCEPT ![k] = [status |-> "PENDING", room |-> stay[i].room]]
    /\ stay' = [stay EXCEPT ![i].way = "tasked"]
    /\ UNCHANGED <<room, ticket, setting, by, alone>>

\* A task made by hand.
CreateByHand ==
    /\ \E k \in Tasks, r \in Rooms : CreateTask(k, r)
    /\ UNCHANGED <<room, stay, ticket, setting, by, alone>>

Assign(k) ==
    /\ task[k] # NoTask
    /\ task' = [task EXCEPT ![k].status = "ASSIGNED"]
    /\ UNCHANGED <<room, stay, ticket, setting, by, alone>>

\* A task moves, and its room with it, whatever either was.
Transition(k, status, roomStatus) ==
    /\ task[k] # NoTask
    /\ task' = [task EXCEPT ![k].status = status]
    /\ Put(task[k].room, roomStatus, "task")
    /\ Disturb(task[k].room)
    /\ UNCHANGED <<stay, ticket, setting>>

Start(k)       == Transition(k, "IN_PROGRESS", "CLEANING")
Complete(k)    == Transition(k, "AWAITING_INSPECTION", "INSPECTION")
InspectPass(k) == Transition(k, "PASSED", "AVAILABLE")

\* Fault: a failed task is left FAILED, as the comment on inspect begins.
ReopenedFailed == "FAILED"

\* inspect, FAIL: re-opened as PENDING.
Reopened == "PENDING"

InspectFail(k) == Transition(k, Reopened, "DIRTY")

-----------------------------------------------------------------------------
(* maintenance.service                                                     *)

\* registerIssue: the ticket, and the room out of service.
RegisterIssue(n) ==
    /\ IsNext(n, ticket, NoTicket)
    /\ \E r \in Rooms :
        /\ ticket' = [ticket EXCEPT ![n] = [status |-> "OPEN", room |-> r]]
        /\ Put(r, "MAINTENANCE", "ticket")
        /\ Disturb(r)
    /\ UNCHANGED <<stay, task, setting>>

\* updateStatus: any status may follow any; the end of a ticket makes its room
\* DIRTY, whatever other tickets hold it, and so does closing a resolved one.
UpdateTicket(n, status) ==
    /\ ticket[n] # NoTicket
    /\ ticket' = [ticket EXCEPT ![n].status = status]
    /\ IF status = "RESOLVED"
         THEN Put(ticket[n].room, "DIRTY", "ticket") /\ Disturb(ticket[n].room)
         ELSE UNCHANGED <<room, by, alone>>
    /\ UNCHANGED <<stay, task, setting>>

-----------------------------------------------------------------------------
(* rooms.service                                                           *)

\* Fault: only the request is looked at.
MaySetAny(occupied, status) == status \in ManualStatuses

\* A room that is OCCUPIED may only be set AVAILABLE.
MaySet(occupied, status) == status \in ManualStatuses /\ (occupied => status = "AVAILABLE")

\* setStatus up to the check of the status it read ...
SetStatusRead(r, status) ==
    /\ setting = NoSetting
    /\ MaySet(room[r] = "OCCUPIED", status)
    /\ setting' = [status |-> status, room |-> r, occupied |-> room[r] = "OCCUPIED"]
    /\ UNCHANGED <<room, stay, task, ticket, by, alone>>

\* ... and its update.
SetStatusWrite ==
    /\ setting # NoSetting
    /\ Put(setting.room, setting.status, "hand")
    /\ alone' = [alone EXCEPT ![setting.room] =
                    @ /\ setting.status # "AVAILABLE"
                      /\ setting.occupied = (room[setting.room] = "OCCUPIED")]
    /\ setting' = NoSetting
    /\ UNCHANGED <<stay, task, ticket>>

-----------------------------------------------------------------------------

Next ==
    \/ \E i \in Stays : \/ CheckIn(i) \/ CheckOut(i) \/ EmitCheckedOut(i)
                        \/ LoseCheckedOut(i) \/ OnCheckedOut(i)
    \/ CreateByHand
    \/ \E k \in Tasks : \/ Assign(k) \/ Start(k) \/ Complete(k)
                        \/ InspectPass(k) \/ InspectFail(k)
    \/ \E n \in Tickets : RegisterIssue(n) \/ (\E s \in MaintStatuses : UpdateTicket(n, s))
    \/ \E r \in Rooms, s \in RoomStatuses : SetStatusRead(r, s)
    \/ SetStatusWrite

Spec == Init /\ [][Next]_vars

-----------------------------------------------------------------------------
(* Properties                                                              *)

\* The values the rows can have.
TypeOK ==
    /\ room \in [Rooms -> RoomStatuses]
    /\ stay \in [Stays -> [status : {"due", "in", "out"}, room : Rooms, way : Ways]]
    /\ task \in [Tasks -> [status : HkStatuses, room : Rooms] \cup {NoTask}]
    /\ ticket \in [Tickets -> [status : MaintStatuses, room : Rooms] \cup {NoTicket}]
    /\ setting \in [status : ManualStatuses, room : Rooms, occupied : BOOLEAN] \cup {NoSetting}
    /\ by \in [Rooms -> {"desk", "task", "ticket", "hand"}]
    /\ alone \in [Rooms -> BOOLEAN]

\* A check-out of room r is still on its way to housekeeping, or never got there.
Underway(r) == \E i \in Stays : stay[i].room = r /\ stay[i].way \notin {"none", "tasked"}

Unfinished(r, statuses) ==
    \E k \in Made(task, NoTask) : task[k].room = r /\ task[k].status \in statuses

\* "Room becomes DIRTY -> housekeeping picks it up via the event below": a room
\* that is not ready has a task, or a ticket that is not resolved, through which it
\* gets ready, unless a check-out of it is on the way or was lost, or a ticket or a
\* person made it DIRTY.
RoomOnWorklist ==
    \A r \in Rooms :
        /\ room[r] = "DIRTY" /\ by[r] \in {"desk", "task"} /\ ~ Underway(r) =>
             Unfinished(r, {"PENDING", "ASSIGNED", "IN_PROGRESS", "AWAITING_INSPECTION"})
        /\ room[r] = "CLEANING"   => Unfinished(r, {"ASSIGNED", "IN_PROGRESS"})
        /\ room[r] = "INSPECTION" => Unfinished(r, {"ASSIGNED", "AWAITING_INSPECTION"})
        /\ room[r] = "MAINTENANCE" /\ by[r] = "ticket" =>
             \E n \in Made(ticket, NoTicket) :
                ticket[n].room = r /\ ticket[n].status # "RESOLVED"

\* "Occupied rooms can't be taken out of order while a guest is in-house": true
\* while no task, ticket or other guest touches the room, nobody sets it
\* AVAILABLE by hand, and no check-in slips in after setStatus looked.
InHouseIsOccupied ==
    \A i \in Stays :
        stay[i].status = "in" /\ alone[stay[i].room] => room[stay[i].room] = "OCCUPIED"

=============================================================================
