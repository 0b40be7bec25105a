---------------------------- MODULE OfficeProofs ----------------------------
(***************************************************************************)
(* Turnover, Distribution, Campaigns, Preventive, Staffing and Inbox, for  *)
(* every number of requests, rows and failures: what each promises of work *)
(* that is done once, however its steps interleave and wherever it dies;   *)
(* and, with what MoneyProofs says of the other parts, the types of all.   *)
(*                                                                         *)
(* Turnover is proved alone.  Each of the others is proved as a part of    *)
(* BackOffice: a step of BackOffice is a step of the part or leaves it as  *)
(* it is; the strengthening, its first state and its preservation are      *)
(* about the part's module.                                                *)
(***************************************************************************)
EXTENDS MoneyProofs

-----------------------------------------------------------------------------
(* Turnover                                                                *)
(*                                                                         *)
(* RoomOnWorklist is inductive beside the types: whoever moves a room away *)
(* from AVAILABLE moves a task or a ticket of it in the same transaction.  *)
(* InHouseIsOccupied also needs what the setStatus in flight read.         *)

\* Having read OCCUPIED, setStatus can only go on to write AVAILABLE.
SettingChecked == setting # NoSetting /\ setting.occupied => setting.status = "AVAILABLE"

InHouseInv == TypeOK /\ SettingChecked /\ InHouseIsOccupied

WorkInv == TypeOK /\ RoomOnWorklist

-----------------------------------------------------------------------------
(* The types.                                                              *)

LEMMA TypeInit == Init => TypeOK
  BY DEF Init, TypeOK, RoomStatuses, Ways

\* A status or a room that is one of theirs keeps the rows typed.
LEMMA PutTyped ==
  ASSUME TypeOK, NEW r \in Rooms, NEW s \in RoomStatuses,
         NEW w \in {"desk", "task", "ticket", "hand"}, Put(r, s, w)
  PROVE  room' \in [Rooms -> RoomStatuses] /\ by' \in [Rooms -> {"desk", "task", "ticket", "hand"}]
  BY DEF TypeOK, Put

\* The steps of a stay: the front desk and the event.
LEMMA StayTyped ==
  ASSUME TypeOK, NEW i \in Stays,
         CheckIn(i) \/ CheckOut(i) \/ EmitCheckedOut(i) \/ LoseCheckedOut(i) \/ OnCheckedOut(i)
  PROVE  TypeOK'
<1>1. stay[i].room \in Rooms
  BY DEF TypeOK
<1>2. CASE CheckIn(i)
  BY <1>1, <1>2, PutTyped DEF CheckIn, TypeOK, RoomStatuses
<1>3. CASE CheckOut(i)
  BY <1>1, <1>3, PutTyped, ZenonT(40) DEF CheckOut, Disturb, TypeOK, RoomStatuses, Ways
<1>4. CASE EmitCheckedOut(i)
  BY <1>4 DEF EmitCheckedOut, TypeOK, Ways
<1>5. CASE LoseCheckedOut(i)
  BY <1>5 DEF LoseCheckedOut, TypeOK, Ways
<1>6. CASE OnCheckedOut(i)
  BY <1>1, <1>6 DEF OnCheckedOut, TypeOK, Ways, HkStatuses
<1> QED
  BY <1>2, <1>3, <1>4, <1>5, <1>6

\* The steps of a task.
LEMMA TaskTyped ==
  ASSUME TypeOK,
         \/ CreateByHand
         \/ \E k \in Tasks : Assign(k) \/ Start(k) \/ Complete(k) \/ InspectPass(k) \/ InspectFail(k)
  PROVE  TypeOK'
<1>1. CASE CreateByHand
  BY <1>1 DEF CreateByHand, CreateTask, TypeOK, HkStatuses
<1>2. ASSUME NEW k \in Tasks, Assign(k)
      PROVE  TypeOK'
  <2>1. task[k] \in [status : HkStatuses, room : Rooms]
    BY <1>2 DEF Assign, TypeOK
  <2> QED
    BY <1>2, <2>1 DEF Assign, TypeOK, HkStatuses
<1>3. ASSUME NEW k \in Tasks, NEW st \in HkStatuses, NEW roomStatus \in RoomStatuses,
             Transition(k, st, roomStatus)
      PROVE  TypeOK'
  <2>1. task[k] \in [status : HkStatuses, room : Rooms]
    BY <1>3 DEF Transition, TypeOK
  <2>2. task' \in [Tasks -> [status : HkStatuses, room : Rooms] \cup {NoTask}]
    BY <1>3, <2>1 DEF Transition, TypeOK
  <2>3. alone' \in [Rooms -> BOOLEAN]
    BY <1>3 DEF Transition, Disturb, TypeOK
  <2> QED
    BY <1>3, <2>1, <2>2, <2>3, PutTyped DEF Transition, TypeOK
<1> QED
  BY <1>1, <1>2, <1>3
     DEF Start, Complete, InspectPass, InspectFail, Reopened, HkStatuses, RoomStatuses

\* The steps of a ticket and of setStatus.
LEMMA OtherTyped ==
  ASSUME TypeOK,
         \/ \E n \in Tickets : RegisterIssue(n) \/ (\E s \in MaintStatuses : UpdateTicket(n, s))
         \/ \E r \in Rooms, s \in RoomStatuses : SetStatusRead(r, s)
         \/ SetStatusWrite
  PROVE  TypeOK'
<1>1. ASSUME NEW n \in Tickets, RegisterIssue(n)
      PROVE  TypeOK'
  BY <1>1, PutTyped DEF RegisterIssue, Disturb, TypeOK, MaintStatuses, RoomStatuses
<1>2. ASSUME NEW n \in Tickets, NEW s \in MaintStatuses, UpdateTicket(n, s)
      PROVE  TypeOK'
  <2>1. ticket[n] \in [status : MaintStatuses, room : Rooms]
    BY <1>2 DEF UpdateTicket, TypeOK
  <2>2. ticket' \in [Tickets -> [status : MaintStatuses, room : Rooms] \cup {NoTicket}]
    BY <1>2, <2>1 DEF UpdateTicket, TypeOK
  <2> QED
    BY <1>2, <2>1, <2>2, PutTyped DEF UpdateTicket, Disturb, TypeOK, RoomStatuses
<1>3. ASSUME NEW r \in Rooms, NEW s \in RoomStatuses, SetStatusRead(r, s)
      PROVE  TypeOK'
  BY <1>3 DEF SetStatusRead, MaySet, TypeOK
<1>4. CASE SetStatusWrite
  <2>1. setting \in [status : ManualStatuses, room : Rooms, occupied : BOOLEAN]
    BY <1>4 DEF SetStatusWrite, TypeOK
  <2>2. setting.status \in RoomStatuses
    BY <2>1 DEF ManualStatuses, RoomStatuses
  <2>3. alone' \in [Rooms -> BOOLEAN]
    BY <1>4 DEF SetStatusWrite, TypeOK
  <2> QED
    BY <1>4, <2>1, <2>2, <2>3, PutTyped DEF SetStatusWrite, TypeOK
<1> QED
  BY <1>1, <1>2, <1>3, <1>4

LEMMA TypeStep == TypeOK /\ [Next]_vars => TypeOK'
<1>1. TypeOK /\ Next => TypeOK'
  BY StayTyped, TaskTyped, OtherTyped DEF Next
<1>2. TypeOK /\ UNCHANGED vars => TypeOK'
  BY DEF vars, TypeOK
<1> QED
  BY <1>1, <1>2

\* The rows have their types, whatever overlaps.
THEOREM TypeCorrect == Spec => []TypeOK
  BY TypeInit, TypeStep, PTL DEF Spec

-----------------------------------------------------------------------------
(* The guest in-house.                                                     *)

LEMMA InHouseInit == Init => InHouseInv
  BY TypeInit DEF InHouseInv, Init, SettingChecked, InHouseIsOccupied

\* A step that disturbs the rooms it writes.
LEMMA DisturbKeepsInHouse ==
  ASSUME InHouseInv, NEW r \in Rooms, NEW s, NEW w, Put(r, s, w), Disturb(r), stay' = stay
  PROVE  InHouseIsOccupied'
<1>1. /\ \A q \in Rooms : q # r => room'[q] = room[q] /\ alone'[q] = alone[q]
      /\ ~ alone'[r]
  BY DEF Put, Disturb, InHouseInv, TypeOK
<1> QED
  BY <1>1 DEF InHouseInv, InHouseIsOccupied, TypeOK

LEMMA StayKeepsInHouse ==
  ASSUME InHouseInv, NEW i \in Stays,
         CheckIn(i) \/ CheckOut(i) \/ EmitCheckedOut(i) \/ LoseCheckedOut(i) \/ OnCheckedOut(i)
  PROVE  InHouseIsOccupied'
<1> USE DEF InHouseInv
<1>1. CASE CheckIn(i)
  BY <1>1 DEF CheckIn, Put, TypeOK, InHouseIsOccupied
<1>2. CASE CheckOut(i)
  BY <1>2 DEF CheckOut, Put, Disturb, TypeOK, InHouseIsOccupied
<1>3. CASE EmitCheckedOut(i) \/ LoseCheckedOut(i) \/ OnCheckedOut(i)
  <2>1. /\ room' = room /\ alone' = alone
        /\ \A j \in Stays : stay'[j].status = stay[j].status /\ stay'[j].room = stay[j].room
    BY <1>3 DEF EmitCheckedOut, LoseCheckedOut, OnCheckedOut, TypeOK
  <2> QED
    BY <2>1 DEF InHouseIsOccupied
<1> QED
  BY <1>1, <1>2, <1>3

\* What setStatus writes it may write because it read that the room was free, or
\* it is AVAILABLE; and a check-in since then it has seen neither way.
LEMMA SetStatusKeepsInHouse ==
  ASSUME InHouseInv, SetStatusWrite
  PROVE  InHouseIsOccupied'
<1> USE DEF InHouseInv
<1>1. setting \in [status : ManualStatuses, room : Rooms, occupied : BOOLEAN]
  BY DEF SetStatusWrite, TypeOK
<1> DEFINE r == setting.room
<1>2. /\ r \in Rooms /\ stay' = stay
      /\ \A q \in Rooms : q # r => room'[q] = room[q] /\ alone'[q] = alone[q]
  BY <1>1 DEF SetStatusWrite, Put, TypeOK
<1>3. alone'[r] => alone[r] /\ setting.status # "AVAILABLE"
                   /\ setting.occupied = (room[r] = "OCCUPIED")
  BY <1>2 DEF SetStatusWrite, TypeOK
<1>4. alone'[r] => room[r] # "OCCUPIED"
  BY <1>1, <1>3 DEF SettingChecked, SetStatusWrite
<1> QED
  BY <1>2, <1>3, <1>4 DEF InHouseIsOccupied, TypeOK

LEMMA InHouseStep == InHouseInv /\ [Next]_vars => InHouseInv'
<1> SUFFICES ASSUME InHouseInv, [Next]_vars
             PROVE  SettingChecked' /\ InHouseIsOccupied'
  BY TypeStep DEF InHouseInv
<1> USE DEF InHouseInv
<1>1. CASE UNCHANGED vars
  BY <1>1 DEF vars, SettingChecked, InHouseIsOccupied
<1>2. ASSUME NEW i \in Stays,
             CheckIn(i) \/ CheckOut(i) \/ EmitCheckedOut(i) \/ LoseCheckedOut(i) \/ OnCheckedOut(i)
      PROVE  SettingChecked' /\ InHouseIsOccupied'
  <2>1. setting' = setting
    BY <1>2 DEF CheckIn, CheckOut, EmitCheckedOut, LoseCheckedOut, OnCheckedOut
  <2> QED
    BY <1>2, <2>1, StayKeepsInHouse DEF SettingChecked
<1>3. ASSUME CreateByHand \/ (\E k \in Tasks : Assign(k))
      PROVE  SettingChecked' /\ InHouseIsOccupied'
  BY <1>3 DEF CreateByHand, Assign, SettingChecked, InHouseIsOccupied
<1>4. ASSUME NEW k \in Tasks, NEW st, NEW roomStatus, Transition(k, st, roomStatus)
      PROVE  SettingChecked' /\ InHouseIsOccupied'
  <2>1. task[k].room \in Rooms
    BY <1>4 DEF Transition, TypeOK
  <2> QED
    BY <1>4, <2>1, DisturbKeepsInHouse DEF Transition, SettingChecked
<1>5. ASSUME NEW n \in Tickets, RegisterIssue(n)
      PROVE  SettingChecked' /\ InHouseIsOccupied'
  BY <1>5, DisturbKeepsInHouse DEF RegisterIssue, SettingChecked
<1>6. ASSUME NEW n \in Tickets, NEW s \in MaintStatuses, UpdateTicket(n, s)
      PROVE  SettingChecked' /\ InHouseIsOccupied'
  <2>1. ticket[n].room \in Rooms
    BY <1>6 DEF UpdateTicket, TypeOK
  <2>2. CASE s = "RESOLVED"
    BY <1>6, <2>1, <2>2, DisturbKeepsInHouse DEF UpdateTicket, SettingChecked
  <2>3. CASE s # "RESOLVED"
    BY <1>6, <2>3 DEF UpdateTicket, SettingChecked, InHouseIsOccupied
  <2> QED
    BY <2>2, <2>3
<1>7. ASSUME NEW r \in Rooms, NEW s \in RoomStatuses, SetStatusRead(r, s)
      PROVE  SettingChecked' /\ InHouseIsOccupied'
  BY <1>7 DEF SetStatusRead, MaySet, SettingChecked, InHouseIsOccupied
<1>8. CASE SetStatusWrite
  BY <1>8, SetStatusKeepsInHouse DEF SetStatusWrite, SettingChecked
<1> QED
  BY <1>1, <1>2, <1>3, <1>4, <1>5, <1>6, <1>7, <1>8
     DEF Next, Start, Complete, InspectPass, InspectFail

\* The room of a guest in-house is OCCUPIED as long as no task, no ticket, no other
\* guest and no check-in during a setStatus has touched it: rooms.service's guard.
THEOREM OccupiedWhileInHouse == Spec => []InHouseIsOccupied
<1>1. InHouseInv => InHouseIsOccupied
  BY DEF InHouseInv
<1> QED
  BY InHouseInit, InHouseStep, <1>1, PTL DEF Spec

-----------------------------------------------------------------------------
(* The worklist.                                                           *)

Listed     == {"PENDING", "ASSIGNED", "IN_PROGRESS", "AWAITING_INSPECTION"}
Cleaning   == {"ASSIGNED", "IN_PROGRESS"}
Inspecting == {"ASSIGNED", "AWAITING_INSPECTION"}

Repaired(r) == \E n \in Made(ticket, NoTicket) : ticket[n].room = r /\ ticket[n].status # "RESOLVED"

\* RoomOnWorklist, of one room.
OnWorklist(r) ==
    /\ room[r] = "DIRTY" /\ by[r] \in {"desk", "task"} /\ ~ Underway(r) => Unfinished(r, Listed)
    /\ room[r] = "CLEANING" => Unfinished(r, Cleaning)
    /\ room[r] = "INSPECTION" => Unfinished(r, Inspecting)
    /\ room[r] = "MAINTENANCE" /\ by[r] = "ticket" => Repaired(r)

LEMMA WorklistByRoom == RoomOnWorklist <=> \A r \in Rooms : OnWorklist(r)
  BY DEF RoomOnWorklist, OnWorklist, Listed, Cleaning, Inspecting, Repaired

\* A room that keeps its status keeps its place if what it waits for is still there.
LEMMA KeepsPlace ==
  ASSUME NEW r \in Rooms, OnWorklist(r), room'[r] = room[r], by'[r] = by[r],
         Underway(r) => Underway(r)' \/ Unfinished(r, Listed)',
         Unfinished(r, Listed) => Unfinished(r, Listed)',
         Unfinished(r, Cleaning) => Unfinished(r, Cleaning)',
         Unfinished(r, Inspecting) => Unfinished(r, Inspecting)',
         Repaired(r) => Repaired(r)'
  PROVE  OnWorklist(r)'
  BY DEF OnWorklist

\* Tasks, tickets and stays that do not change keep every place.
LEMMA SameTasks == ASSUME task' = task, NEW r, NEW list  PROVE Unfinished(r, list)' = Unfinished(r, list)
  BY DEF Unfinished, Made

LEMMA SameTickets == ASSUME ticket' = ticket, NEW r  PROVE Repaired(r)' = Repaired(r)
  BY DEF Repaired, Made

LEMMA SameStays ==
  ASSUME NEW r, \A i \in Stays : stay'[i].room = stay[i].room /\
                  (stay[i].way \notin {"none", "tasked"} => stay'[i].way \notin {"none", "tasked"})
  PROVE  Underway(r) => Underway(r)'
  BY DEF Underway

\* A new task takes nothing off the list.
LEMMA MoreTasks ==
  ASSUME TypeOK, NEW k \in Tasks, NEW t, t # NoTask, task[k] = NoTask, task' = [task EXCEPT ![k] = t],
         NEW r, NEW list
  PROVE  Unfinished(r, list) => Unfinished(r, list)'
  BY DEF Unfinished, Made, TypeOK

\* A task moves on the list of its own room only.
LEMMA OtherRoomsTasks ==
  ASSUME TypeOK, NEW k \in Tasks, task[k] # NoTask, NEW s, task' = [task EXCEPT ![k].status = s],
         NEW r, r # task[k].room, NEW list
  PROVE  Unfinished(r, list) => Unfinished(r, list)'
  BY DEF Unfinished, Made, TypeOK, NoTask

\* The room of a task that moves to status s with s on a list.
LEMMA MovedTask ==
  ASSUME TypeOK, NEW k \in Tasks, task[k] # NoTask, NEW s \in HkStatuses,
         task' = [task EXCEPT ![k].status = s], NEW list, s \in list,
         NEW r, r = task[k].room
  PROVE  Unfinished(r, list)'
<1>1. task[k] \in [status : HkStatuses, room : Rooms]
  BY DEF TypeOK
<1>2. task'[k].status = s /\ task'[k].room = task[k].room /\ k \in DOMAIN task'
  BY <1>1 DEF TypeOK
<1>3. task'[k] # NoTask
  BY <1>2 DEF NoTask, HkStatuses
<1> QED
  BY <1>2, <1>3 DEF Unfinished, Made

-----------------------------------------------------------------------------

LEMMA WorkInit == Init => WorkInv
  BY TypeInit DEF WorkInv, Init, RoomOnWorklist

\* The front desk and the event.
LEMMA StayKeepsWork ==
  ASSUME WorkInv, NEW i \in Stays, NEW r \in Rooms,
         CheckIn(i) \/ CheckOut(i) \/ EmitCheckedOut(i) \/ LoseCheckedOut(i) \/ OnCheckedOut(i)
  PROVE  OnWorklist(r)'
<1>0. TypeOK /\ OnWorklist(r)
  BY WorklistByRoom DEF WorkInv
<1>1. CASE CheckIn(i)
  <2>1. Underway(r) => Underway(r)'
    BY <1>0, <1>1, SameStays DEF CheckIn, TypeOK
  <2>2. CASE r = stay[i].room
    BY <1>0, <1>1, <2>2 DEF CheckIn, Put, TypeOK, OnWorklist
  <2>3. CASE r # stay[i].room
    <3>1. room'[r] = room[r] /\ by'[r] = by[r] /\ task' = task /\ ticket' = ticket
      BY <1>0, <1>1, <2>3 DEF CheckIn, Put, TypeOK
    <3> QED
      BY <1>0, <2>1, <3>1, KeepsPlace, SameTasks, SameTickets
  <2> QED
    BY <2>2, <2>3
<1>2. CASE CheckOut(i)
  <2>1. CASE r = stay[i].room
    <3>1. room'[r] = "DIRTY" /\ stay'[i].room = r /\ stay'[i].way = "committed"
      BY <1>0, <1>2, <2>1 DEF CheckOut, Put, TypeOK
    <3>2. Underway(r)'
      BY <3>1 DEF Underway
    <3> QED
      BY <3>1, <3>2 DEF OnWorklist
  <2>2. CASE r # stay[i].room
    <3>1. room'[r] = room[r] /\ by'[r] = by[r] /\ task' = task /\ ticket' = ticket
      BY <1>0, <1>2, <2>2 DEF CheckOut, Put, TypeOK
    <3>2. Underway(r) => Underway(r)'
      BY <1>0, <1>2, SameStays DEF CheckOut, TypeOK
    <3> QED
      BY <1>0, <3>1, <3>2, KeepsPlace, SameTasks, SameTickets
  <2> QED
    BY <2>1, <2>2
<1>3. CASE EmitCheckedOut(i) \/ LoseCheckedOut(i)
  <2>1. Underway(r) => Underway(r)'
    BY <1>0, <1>3, SameStays DEF EmitCheckedOut, LoseCheckedOut, TypeOK
  <2>2. room' = room /\ by' = by /\ task' = task /\ ticket' = ticket
    BY <1>3 DEF EmitCheckedOut, LoseCheckedOut
  <2> QED
    BY <1>0, <2>1, <2>2, KeepsPlace, SameTasks, SameTickets
<1>4. CASE OnCheckedOut(i)
  <2> DEFINE new == [status |-> "PENDING", room |-> stay[i].room]
  <2>1. PICK k \in Tasks : task[k] = NoTask /\ task' = [task EXCEPT ![k] = new]
    BY <1>4 DEF OnCheckedOut, IsNext
  <2>2. new # NoTask
    BY DEF NoTask
  <2>3. \A list : Unfinished(r, list) => Unfinished(r, list)'
    BY <1>0, <2>1, <2>2, MoreTasks
  <2>4. CASE r = stay[i].room
    <3>1. k \in DOMAIN task' /\ task'[k] = new
      BY <1>0, <2>1 DEF TypeOK
    <3>2. Unfinished(r, Listed)'
      BY <2>2, <2>4, <3>1 DEF Unfinished, Made, Listed
    <3> QED
      BY <1>0, <1>4, <2>3, <3>2, KeepsPlace, SameTickets DEF OnCheckedOut
  <2>5. CASE r # stay[i].room
    <3>1. Underway(r) => Underway(r)'
      BY <1>0, <1>4, <2>5 DEF OnCheckedOut, Underway, TypeOK
    <3> QED
      BY <1>0, <1>4, <2>3, <3>1, KeepsPlace, SameTickets DEF OnCheckedOut
  <2> QED
    BY <2>4, <2>5
<1> QED
  BY <1>1, <1>2, <1>3, <1>4

\* A transition that puts its task on the list of the status it gives the room.
LEMMA TransitionKeepsWork ==
  ASSUME WorkInv, NEW k \in Tasks, NEW st \in HkStatuses, NEW roomStatus,
         Transition(k, st, roomStatus),
         roomStatus = "DIRTY" => st \in Listed,
         roomStatus = "CLEANING" => st \in Cleaning,
         roomStatus = "INSPECTION" => st \in Inspecting,
         NEW r \in Rooms
  PROVE  OnWorklist(r)'
<1>0. TypeOK /\ OnWorklist(r)
  BY WorklistByRoom DEF WorkInv
<1>1. /\ task[k] # NoTask /\ task' = [task EXCEPT ![k].status = st]
      /\ stay' = stay /\ ticket' = ticket
  BY DEF Transition
<1>2. task[k].room \in Rooms
  BY <1>0, <1>1 DEF TypeOK
<1>3. CASE r = task[k].room
  <2>1. room'[r] = roomStatus /\ by'[r] = "task"
    BY <1>0, <1>2, <1>3 DEF Transition, Put, TypeOK
  <2>2. \A list : st \in list => Unfinished(r, list)'
    BY <1>0, <1>1, <1>3, MovedTask
  <2>3. room'[r] = "DIRTY" => Unfinished(r, Listed)'
    BY <2>1, <2>2
  <2>4. room'[r] = "CLEANING" => Unfinished(r, Cleaning)'
    BY <2>1, <2>2
  <2>5. room'[r] = "INSPECTION" => Unfinished(r, Inspecting)'
    BY <2>1, <2>2
  <2> QED
    BY <2>1, <2>3, <2>4, <2>5 DEF OnWorklist
<1>4. CASE r # task[k].room
  <2>1. room'[r] = room[r] /\ by'[r] = by[r]
    BY <1>0, <1>2, <1>4 DEF Transition, Put, TypeOK
  <2>2. \A list : Unfinished(r, list) => Unfinished(r, list)'
    BY <1>0, <1>1, <1>4, OtherRoomsTasks
  <2>3. Underway(r) => Underway(r)'
    BY <1>1, SameStays
  <2> QED
    BY <1>0, <1>1, <2>1, <2>2, <2>3, KeepsPlace, SameTickets
<1> QED
  BY <1>3, <1>4

\* The other steps of a task: a new one, and one given to somebody, who may have
\* begun with it: ASSIGNED is on every list.
LEMMA TaskKeepsWork ==
  ASSUME WorkInv, CreateByHand \/ (\E k \in Tasks : Assign(k)), NEW r \in Rooms
  PROVE  OnWorklist(r)'
<1>0. TypeOK /\ OnWorklist(r)
  BY WorklistByRoom DEF WorkInv
<1>1. room' = room /\ by' = by /\ stay' = stay /\ ticket' = ticket
  BY DEF CreateByHand, Assign
<1>2. Underway(r) => Underway(r)'
  BY <1>1, SameStays
<1>3. CASE CreateByHand
  <2>1. PICK k \in Tasks, q \in Rooms, s \in {"PENDING", "ASSIGNED"} :
           task[k] = NoTask /\ task' = [task EXCEPT ![k] = [status |-> s, room |-> q]]
    BY <1>3 DEF CreateByHand, CreateTask, IsNext
  <2>2. [status |-> s, room |-> q] # NoTask
    BY <2>1 DEF NoTask
  <2>3. \A list : Unfinished(r, list) => Unfinished(r, list)'
    BY <1>0, <2>1, <2>2, MoreTasks
  <2> QED
    BY <1>0, <1>1, <1>2, <2>3, KeepsPlace, SameTickets
<1>4. ASSUME NEW k \in Tasks, Assign(k)
      PROVE  OnWorklist(r)'
  <2>1. /\ task[k] # NoTask /\ task' = [task EXCEPT ![k].status = "ASSIGNED"]
        /\ "ASSIGNED" \in HkStatuses
    BY <1>4 DEF Assign, HkStatuses
  <2>2. \A list : r # task[k].room => (Unfinished(r, list) => Unfinished(r, list)')
    BY <1>0, <2>1, OtherRoomsTasks
  <2>3. \A list : r = task[k].room /\ "ASSIGNED" \in list => Unfinished(r, list)'
    BY <1>0, <2>1, MovedTask
  <2>4. /\ Unfinished(r, Listed) => Unfinished(r, Listed)'
        /\ Unfinished(r, Cleaning) => Unfinished(r, Cleaning)'
        /\ Unfinished(r, Inspecting) => Unfinished(r, Inspecting)'
    BY <2>2, <2>3 DEF Listed, Cleaning, Inspecting
  <2> QED
    BY <1>0, <1>1, <1>2, <2>4, KeepsPlace, SameTickets
<1> QED
  BY <1>3, <1>4

\* A ticket holds its room until it is resolved, and then the ticket made it DIRTY.
LEMMA TicketKeepsWork ==
  ASSUME WorkInv, NEW n \in Tickets,
         RegisterIssue(n) \/ (\E s \in MaintStatuses : UpdateTicket(n, s)), NEW r \in Rooms
  PROVE  OnWorklist(r)'
<1>0. TypeOK /\ OnWorklist(r)
  BY WorklistByRoom DEF WorkInv
<1>1. stay' = stay /\ task' = task
  BY DEF RegisterIssue, UpdateTicket
<1>2. Underway(r) => Underway(r)'
  BY <1>1, SameStays
<1>3. CASE RegisterIssue(n)
  <2>1. PICK q \in Rooms :
           /\ ticket' = [ticket EXCEPT ![n] = [status |-> "OPEN", room |-> q]]
           /\ Put(q, "MAINTENANCE", "ticket")
    BY <1>3 DEF RegisterIssue
  <2>2. ticket[n] = NoTicket
    BY <1>3 DEF RegisterIssue, IsNext
  <2>3. CASE r = q
    <3>1. room'[r] = "MAINTENANCE"
      BY <1>0, <2>1, <2>3 DEF Put, TypeOK
    <3>2. Repaired(r)'
      BY <1>0, <2>1, <2>3 DEF Repaired, Made, NoTicket, TypeOK
    <3> QED
      BY <3>1, <3>2 DEF OnWorklist
  <2>4. CASE r # q
    <3>1. room'[r] = room[r] /\ by'[r] = by[r]
      BY <1>0, <2>1, <2>4 DEF Put, TypeOK
    <3>2. Repaired(r) => Repaired(r)'
      BY <1>0, <2>1, <2>2 DEF Repaired, Made, TypeOK
    <3> QED
      BY <1>0, <1>1, <1>2, <3>1, <3>2, KeepsPlace, SameTasks
  <2> QED
    BY <2>3, <2>4
<1>4. ASSUME NEW s \in MaintStatuses, UpdateTicket(n, s)
      PROVE  OnWorklist(r)'
  <2>1. ticket[n] \in [status : MaintStatuses, room : Rooms]
    BY <1>0, <1>4 DEF UpdateTicket, TypeOK
  <2>2. ticket' = [ticket EXCEPT ![n].status = s]
    BY <1>4 DEF UpdateTicket
  <2>3. s # "RESOLVED" \/ r # ticket[n].room => (Repaired(r) => Repaired(r)')
    BY <1>0, <2>1, <2>2 DEF Repaired, Made, TypeOK, NoTicket
  <2>4. CASE s # "RESOLVED"
    <3>1. room' = room /\ by' = by
      BY <1>4, <2>4 DEF UpdateTicket
    <3> QED
      BY <1>0, <1>1, <1>2, <2>3, <2>4, <3>1, KeepsPlace, SameTasks
  <2>5. CASE s = "RESOLVED" /\ r # ticket[n].room
    <3>1. room'[r] = room[r] /\ by'[r] = by[r]
      BY <1>0, <1>4, <2>1, <2>5 DEF UpdateTicket, Put, TypeOK
    <3> QED
      BY <1>0, <1>1, <1>2, <2>3, <2>5, <3>1, KeepsPlace, SameTasks
  <2>6. CASE s = "RESOLVED" /\ r = ticket[n].room
    <3>1. room'[r] = "DIRTY" /\ by'[r] = "ticket"
      BY <1>0, <1>4, <2>1, <2>6 DEF UpdateTicket, Put, TypeOK
    <3> QED
      BY <3>1 DEF OnWorklist
  <2> QED
    BY <2>4, <2>5, <2>6
<1> QED
  BY <1>3, <1>4

\* What a person sets, nobody else is held to.
LEMMA SetStatusKeepsWork ==
  ASSUME WorkInv, SetStatusWrite, NEW r \in Rooms
  PROVE  OnWorklist(r)'
<1>0. TypeOK /\ OnWorklist(r)
  BY WorklistByRoom DEF WorkInv
<1>1. setting \in [status : ManualStatuses, room : Rooms, occupied : BOOLEAN]
  BY <1>0 DEF SetStatusWrite, TypeOK
<1>2. stay' = stay /\ task' = task /\ ticket' = ticket
  BY DEF SetStatusWrite
<1>3. CASE r = setting.room
  <2>1. room'[r] = setting.status /\ by'[r] = "hand"
    BY <1>0, <1>1, <1>3 DEF SetStatusWrite, Put, TypeOK
  <2> QED
    BY <1>1, <2>1 DEF OnWorklist, ManualStatuses
<1>4. CASE r # setting.room
  <2>1. room'[r] = room[r] /\ by'[r] = by[r]
    BY <1>0, <1>1, <1>4 DEF SetStatusWrite, Put, TypeOK
  <2>2. Underway(r) => Underway(r)'
    BY <1>2, SameStays
  <2> QED
    BY <1>0, <1>2, <2>1, <2>2, KeepsPlace, SameTasks, SameTickets
<1> QED
  BY <1>3, <1>4

LEMMA WorkStep == WorkInv /\ [Next]_vars => WorkInv'
<1> SUFFICES ASSUME WorkInv, [Next]_vars, NEW r \in Rooms
             PROVE  OnWorklist(r)'
  <2>1. RoomOnWorklist' <=> \A r \in Rooms : OnWorklist(r)'
    BY DEF RoomOnWorklist, OnWorklist, Listed, Cleaning, Inspecting, Repaired
  <2> QED
    BY <2>1, TypeStep DEF WorkInv
<1>0. OnWorklist(r)
  BY WorklistByRoom DEF WorkInv
<1>1. CASE UNCHANGED vars
  BY <1>0, <1>1, KeepsPlace, SameTasks, SameTickets, SameStays DEF vars
<1>2. ASSUME NEW i \in Stays,
             CheckIn(i) \/ CheckOut(i) \/ EmitCheckedOut(i) \/ LoseCheckedOut(i) \/ OnCheckedOut(i)
      PROVE  OnWorklist(r)'
  BY <1>2, StayKeepsWork
<1>3. CASE CreateByHand \/ (\E k \in Tasks : Assign(k))
  BY <1>3, TaskKeepsWork
<1>4. ASSUME NEW k \in Tasks, Start(k) \/ Complete(k) \/ InspectPass(k) \/ InspectFail(k)
      PROVE  OnWorklist(r)'
  BY <1>4, TransitionKeepsWork
     DEF Start, Complete, InspectPass, InspectFail, Reopened, HkStatuses, Listed, Cleaning, Inspecting
<1>5. ASSUME NEW n \in Tickets, RegisterIssue(n) \/ (\E s \in MaintStatuses : UpdateTicket(n, s))
      PROVE  OnWorklist(r)'
  BY <1>5, TicketKeepsWork
<1>6. ASSUME NEW q \in Rooms, NEW s \in RoomStatuses, SetStatusRead(q, s)
      PROVE  OnWorklist(r)'
  <2>1. room' = room /\ by' = by /\ stay' = stay /\ task' = task /\ ticket' = ticket
    BY <1>6 DEF SetStatusRead
  <2> QED
    BY <1>0, <2>1, KeepsPlace, SameTasks, SameTickets, SameStays
<1>7. CASE SetStatusWrite
  BY <1>7, SetStatusKeepsWork
<1> QED
  BY <1>1, <1>2, <1>3, <1>4, <1>5, <1>6, <1>7 DEF Next

\* Every room that is not ready has the task or the ticket through which it gets
\* ready, for any number of rooms, guests, tasks and tickets, in any order of steps.
THEOREM WorklistIsKept == Spec => []RoomOnWorklist
<1>1. WorkInv => RoomOnWorklist
  BY DEF WorkInv
<1> QED
  BY WorkInit, WorkStep, <1>1, PTL DEF Spec

-----------------------------------------------------------------------------
(* Distribution                                                            *)
(*                                                                         *)
(* IngestedOnce is not inductive: that a row is inserted for what was      *)
(* booked, and booked only when no row was found, is known of the          *)
(* deliveries in flight.  While the deliveries of a reservation keep apart *)
(* there is one of them, and past its lookup there is no row yet.          *)

LEMMA DistributionMoves ==
  ASSUME [BackOfficeNext]_officeVars
  PROVE  [D!Next]_D!vars
<1>1. CASE DistributionStep
  BY <1>1 DEF DistributionStep
<1> QED
  BY <1>1 DEF BackOfficeNext, officeVars, distribution, D!vars, TurnoverStep, PreventiveStep, StockStep,
     InboxStep, CityLedgerStep, LoyaltyStep, StaffingStep, PricingStep, AttendanceStep, CampaignsStep

InFlight == [pc : {"find", "book", "link"}, ext : Externals]

DeliveriesTyped ==
    /\ booked \in [Externals -> Nat] /\ linked \in [Externals -> Nat]
    /\ acked \subseteq Externals
    /\ delivery \in [Handlers -> {D!Idle} \cup InFlight]

\* A row, an answer and a delivery about to insert its row have their reservation.
RowsFollow ==
    /\ \A e \in Externals : linked[e] > 0 => booked[e] > 0
    /\ \A e \in acked : linked[e] > 0
    /\ \A d \in Handlers : delivery[d].pc = "link" => booked[delivery[d].ext] > 0

\* Of e one delivery is in flight, past the lookup only if there is no row.
OneAtATime(e) ==
    /\ \A c, d \in D!Carrying(e) : c = d
    /\ \A d \in D!Carrying(e) : delivery[d].pc # "find" => linked[e] = 0
    /\ booked[e] = linked[e] + (IF \E d \in D!Carrying(e) : delivery[d].pc = "link" THEN 1 ELSE 0)

IngestInv ==
    /\ DeliveriesTyped
    /\ RowsFollow
    /\ \A e \in Externals \ NoUid : linked[e] <= 1 /\ (e \notin crossed => OneAtATime(e))

\* The deliveries of e, by their program counter.
Of(e) == {d \in Handlers : delivery[d].pc # "idle" /\ delivery[d].ext = e}

LEMMA CarriedBy ==
  ASSUME IngestInv, [D!Next]_D!vars PROVE \A e : D!Carrying(e) = Of(e) /\ (DeliveriesTyped' => D!Carrying(e)' = Of(e)')
BY DEF DeliveriesTyped, InFlight, D!Carrying, D!Idle, Of, IngestInv

LEMMA IngestInit == D!Init => IngestInv
BY DEF D!Init, D!Idle, D!Carrying, IngestInv, DeliveriesTyped, RowsFollow, OneAtATime

\* The Cardinality of an instance is that of its module.
LEMMA SameCount == \A s : D!Cardinality(s) = Cardinality(s)
BY Zenon DEF D!Cardinality, Cardinality

LEMMA IngestStep ==
  ASSUME IngestInv, [D!Next]_D!vars
  PROVE  IngestInv'
<1> USE DEF IngestInv
<1>1. ASSUME NEW d \in Handlers, NEW e \in Externals, D!Deliver(d, e)
      PROVE  IngestInv'
  <2>1. delivery' = [delivery EXCEPT ![d] = [pc |-> "find", ext |-> e]] /\ delivery[d].pc = "idle"
        /\ UNCHANGED <<booked, linked, acked>>
    BY <1>1 DEF D!Deliver, D!At
  <2>2. DeliveriesTyped'
    BY <2>1 DEF DeliveriesTyped, InFlight
  <2>3. RowsFollow'
    BY <2>1 DEF RowsFollow, DeliveriesTyped
  <2>4. ASSUME NEW f \in Externals \ NoUid, f \notin crossed'
        PROVE  OneAtATime(f)'
    <3>1. f \notin crossed /\ (f = e => D!Carrying(f) = {})
      BY <1>1, <2>4 DEF D!Deliver
    <3>2. D!Carrying(f)' = D!Carrying(f) \cup (IF f = e THEN {d} ELSE {})
      BY <2>1, <2>2, CarriedBy DEF Of, DeliveriesTyped
    <3> QED
      BY <2>1, <3>1, <3>2, CarriedBy DEF OneAtATime, DeliveriesTyped
  <2> QED
    BY <2>1, <2>2, <2>3, <2>4
<1>2. ASSUME NEW d \in Handlers, D!Find(d)
      PROVE  IngestInv'
  <2> DEFINE e == delivery[d].ext
  <2>1. delivery[d] \in InFlight /\ delivery[d].pc = "find" /\ e \in Externals
    BY <1>2 DEF D!Find, D!At, D!Idle, DeliveriesTyped, InFlight
  <2>2. /\ UNCHANGED <<booked, linked, crossed>>
        /\ \/ /\ linked[e] > 0 /\ acked' = acked \cup {e}
              /\ delivery' = [delivery EXCEPT ![d] = D!Idle]
           \/ /\ linked[e] = 0 \/ e \in NoUid
              /\ acked' = acked
              /\ delivery' = [delivery EXCEPT ![d] = [delivery[d] EXCEPT !.pc = "book"]]
    BY <1>2, <2>1 DEF D!Find, D!Known, DeliveriesTyped
  <2>3. DeliveriesTyped'
    BY <2>1, <2>2 DEF DeliveriesTyped, InFlight
  <2>4. RowsFollow'
    BY <2>1, <2>2 DEF RowsFollow, DeliveriesTyped, InFlight, D!Idle
  <2>5. ASSUME NEW f \in Externals \ NoUid, f \notin crossed
        PROVE  OneAtATime(f)'
    <3>1. /\ D!Carrying(f)' \subseteq D!Carrying(f)
          /\ \A c \in D!Carrying(f) \ {d} : c \in D!Carrying(f)' /\ delivery'[c] = delivery[c]
          /\ d \in D!Carrying(f)' => f = e /\ delivery'[d].pc = "book" /\ linked[f] = 0
      BY <2>1, <2>2, <2>3, CarriedBy DEF Of, DeliveriesTyped, D!Idle, InFlight
    <3>2. (\E c \in D!Carrying(f)' : delivery'[c].pc = "link")
             <=> (\E c \in D!Carrying(f) : delivery[c].pc = "link")
      BY <2>1, <3>1
    <3> QED
      BY <2>2, <2>5, <3>1, <3>2 DEF OneAtATime
  <2> QED
    BY <2>2, <2>3, <2>4, <2>5
<1>3. ASSUME NEW d \in Handlers, D!Book(d)
      PROVE  IngestInv'
  <2> DEFINE e == delivery[d].ext
  <2>1. delivery[d] \in InFlight /\ delivery[d].pc = "book" /\ e \in Externals
    BY <1>3 DEF D!Book, D!At, D!Idle, DeliveriesTyped, InFlight
  <2>2. /\ booked' = [booked EXCEPT ![e] = @ + 1]
        /\ delivery' = [delivery EXCEPT ![d] = [delivery[d] EXCEPT !.pc = "link"]]
        /\ UNCHANGED <<linked, acked, crossed>>
    BY <1>3, <2>1 DEF D!Book, DeliveriesTyped
  <2>3. DeliveriesTyped'
    BY <2>1, <2>2 DEF DeliveriesTyped, InFlight
  <2>4. RowsFollow'
    BY <2>1, <2>2, <2>3 DEF RowsFollow, DeliveriesTyped, InFlight, D!Idle
  <2>5. ASSUME NEW f \in Externals \ NoUid, f \notin crossed
        PROVE  OneAtATime(f)'
    <3>1. D!Carrying(f)' = D!Carrying(f) /\ (d \in D!Carrying(f) <=> f = e)
          /\ \A c \in D!Carrying(f) \ {d} : delivery'[c] = delivery[c]
      BY <2>1, <2>2, <2>3, CarriedBy DEF Of, DeliveriesTyped, InFlight
    <3>2. CASE f = e
      BY <2>1, <2>2, <2>5, <3>1, <3>2 DEF OneAtATime, DeliveriesTyped, InFlight
    <3>3. CASE f # e
      BY <2>1, <2>2, <2>5, <3>1, <3>3 DEF OneAtATime, DeliveriesTyped, InFlight
    <3> QED
      BY <3>2, <3>3
  <2> QED
    BY <2>2, <2>3, <2>4, <2>5
<1>4. ASSUME NEW d \in Handlers, D!Refuse(d) \/ D!Die(d)
      PROVE  IngestInv'
  <2>1. /\ delivery[d] \in InFlight /\ delivery[d].pc # "idle"
        /\ delivery' = [delivery EXCEPT ![d] = D!Idle]
        /\ UNCHANGED <<booked, linked, acked>> /\ crossed \subseteq crossed'
        /\ delivery[d].pc = "link" => delivery[d].ext \in crossed'
    BY <1>4 DEF D!Refuse, D!Die, D!At, D!Idle, DeliveriesTyped, InFlight
  <2>3. DeliveriesTyped'
    BY <2>1 DEF DeliveriesTyped
  <2>4. RowsFollow'
    BY <2>1 DEF RowsFollow, DeliveriesTyped, D!Idle
  <2>5. ASSUME NEW f \in Externals \ NoUid, f \notin crossed'
        PROVE  OneAtATime(f)'
    <3>1. D!Carrying(f)' = D!Carrying(f) \ {d}
          /\ \A c \in D!Carrying(f)' : delivery'[c] = delivery[c]
      BY <2>1, <2>3, CarriedBy DEF Of, DeliveriesTyped, D!Idle
    <3>2. d \in D!Carrying(f) => delivery[d].pc # "link"
      BY <2>1, <2>5, CarriedBy DEF Of
    <3> QED
      BY <2>1, <2>5, <3>1, <3>2 DEF OneAtATime
  <2> QED
    BY <2>1, <2>3, <2>4, <2>5
<1>5. ASSUME NEW d \in Handlers, D!Link(d)
      PROVE  IngestInv'
  <2> DEFINE e == delivery[d].ext
  <2>1. delivery[d] \in InFlight /\ delivery[d].pc = "link" /\ e \in Externals
    BY <1>5 DEF D!Link, D!At, D!Idle, DeliveriesTyped, InFlight
  <2>2. /\ delivery' = [delivery EXCEPT ![d] = D!Idle]
        /\ UNCHANGED <<booked, crossed>>
        /\ \/ /\ linked' = [linked EXCEPT ![e] = @ + 1] /\ acked' = acked \cup {e}
              /\ e \in NoUid \/ linked[e] = 0
           \/ linked[e] # 0 /\ e \notin NoUid /\ UNCHANGED <<linked, acked>>
    BY <1>5 DEF D!Link
  <2>3. DeliveriesTyped'
    BY <2>1, <2>2 DEF DeliveriesTyped
  <2>4. RowsFollow'
    BY <2>1, <2>2, <2>3 DEF RowsFollow, DeliveriesTyped, D!Idle
  <2>5. ASSUME NEW f \in Externals \ NoUid
        PROVE  linked'[f] <= 1
    BY <2>1, <2>2, <2>5 DEF DeliveriesTyped
  <2>6. ASSUME NEW f \in Externals \ NoUid, f \notin crossed
        PROVE  OneAtATime(f)'
    <3>1. D!Carrying(f)' = D!Carrying(f) \ {d} /\ (d \in D!Carrying(f) <=> f = e)
          /\ \A c \in D!Carrying(f)' : delivery'[c] = delivery[c]
      BY <2>1, <2>2, <2>3, CarriedBy DEF Of, DeliveriesTyped, D!Idle
    <3>2. CASE f = e
      BY <2>1, <2>2, <2>6, <3>1, <3>2 DEF OneAtATime, DeliveriesTyped
    <3>3. CASE f # e
      BY <2>1, <2>2, <2>6, <3>1, <3>3 DEF OneAtATime, DeliveriesTyped
    <3> QED
      BY <3>2, <3>3
  <2> QED
    BY <2>2, <2>3, <2>4, <2>5, <2>6
<1>6. CASE UNCHANGED D!vars
  BY <1>6 DEF D!vars, DeliveriesTyped, RowsFollow, OneAtATime, D!Carrying
<1> QED
  BY <1>1, <1>2, <1>3, <1>4, <1>5, <1>6 DEF D!Next

\* The bounded faults and deliveries, and the history of the reservations in doubt.
HistoriesTyped == sent \in [Externals -> Nat] /\ killed \in Nat /\ crossed \subseteq Externals

LEMMA HistoriesStep ==
  ASSUME DeliveriesTyped, HistoriesTyped, [D!Next]_D!vars
  PROVE  HistoriesTyped'
<1> USE DEF HistoriesTyped
<1>1. ASSUME NEW d \in Handlers, NEW e \in Externals, D!Deliver(d, e)
      PROVE  HistoriesTyped'
  BY <1>1 DEF D!Deliver
<1>2. ASSUME NEW d \in Handlers, D!Die(d)
      PROVE  HistoriesTyped'
  <2>1. delivery[d].ext \in Externals
    BY <1>2 DEF D!Die, D!At, D!Idle, DeliveriesTyped, InFlight
  <2> QED
    BY <1>2, <2>1 DEF D!Die
<1>3. ASSUME NEW d \in Handlers, D!Find(d) \/ D!Book(d) \/ D!Refuse(d) \/ D!Link(d)
      PROVE  HistoriesTyped'
  BY <1>3 DEF D!Find, D!Book, D!Refuse, D!Link
<1> QED
  BY <1>1, <1>2, <1>3 DEF D!Next, D!vars

\* The invariant, in every state of the back office.
LEMMA IngestInvHolds == BackOfficeSpec => [](IngestInv /\ HistoriesTyped)
<1>1. BackOfficeInit => IngestInv
  BY IngestInit DEF BackOfficeInit
<1>2. BackOfficeInit => HistoriesTyped
  BY DEF BackOfficeInit, D!Init, HistoriesTyped
<1>3. IngestInv /\ [BackOfficeNext]_officeVars => IngestInv'
  BY IngestStep, DistributionMoves
<1>4. IngestInv /\ HistoriesTyped /\ [BackOfficeNext]_officeVars => HistoriesTyped'
  BY HistoriesStep, DistributionMoves DEF IngestInv
<1> QED
  BY <1>1, <1>2, <1>3, <1>4, PTL DEF BackOfficeSpec

\* What an agency was told is booked has a row and a reservation, and a reservation
\* whose deliveries keep apart is booked once: channel-manager.service's ingestReservation,
\* for any number of reservations, deliveries and deaths.
THEOREM IngestsOnce == BackOfficeSpec => []IngestedOnce
<1>1. ASSUME IngestInv, NEW e \in Externals \ NoUid, e \notin crossed
      PROVE  booked[e] = linked[e] + Cardinality({d \in D!Carrying(e) : D!At(d, "link")})
  <2> DEFINE linking == {d \in D!Carrying(e) : D!At(d, "link")}
  <2>1. linking = {} \/ \E d \in linking : linking = {d}
    BY <1>1 DEF IngestInv, OneAtATime
  <2>2. Cardinality(linking) = IF linking = {} THEN 0 ELSE 1
    <3> HIDE DEF linking
    <3> QED
      BY <2>1, FS_EmptySet, FS_Singleton
  <2> QED
    BY <1>1, <2>2 DEF IngestInv, OneAtATime, D!At
<1>2. IngestInv => IngestedOnce
  BY <1>1, SameCount DEF IngestInv, RowsFollow, DeliveriesTyped, IngestedOnce, D!IngestedOnce
<1> QED
  BY <1>2, IngestInvHolds, PTL

-----------------------------------------------------------------------------
(* Campaigns                                                               *)
(*                                                                         *)
(* OnePerApproval is not inductive: a guest who is still to get a message  *)
(* must have an approval left for it.  The approval is taken by the send   *)
(* that is under way, and given up when it says SENT.                      *)

LEMMA CampaignsMove ==
  ASSUME [BackOfficeNext]_officeVars
  PROVE  [A!Next]_A!vars
<1>1. CASE CampaignsStep
  BY <1>1 DEF CampaignsStep
<1> QED
  BY <1>1 DEF BackOfficeNext, officeVars, campaigns, A!vars, TurnoverStep, PreventiveStep, StockStep,
     DistributionStep, InboxStep, CityLedgerStep, LoyaltyStep, StaffingStep, PricingStep, AttendanceStep

Sending(h) == sender[h].pc # "idle"

\* Guest g is still to get a message for the last approval taken.
Awaited(g) ==
    IF \E h \in Handlers : Sending(h)
      THEN \E h \in Handlers : \/ sender[h].pc = "resolve"
                               \/ sender[h].pc = "queue" /\ g \in sender[h].left
      ELSE status = "APPROVED"

CampaignInv ==
    /\ A!TypeOK
    /\ approvals \in Nat /\ doubled \in BOOLEAN
    /\ ~ doubled => /\ \A h, i \in Handlers : Sending(h) /\ Sending(i) => h = i
                    /\ \A g \in Guests : /\ jobs[g] <= approvals
                                         /\ Awaited(g) => jobs[g] < approvals

LEMMA CampaignInit == A!Init => CampaignInv
<1> SUFFICES ASSUME A!Init PROVE CampaignInv
  OBVIOUS
<1>1. A!TypeOK /\ approvals = 0 /\ doubled \in BOOLEAN
  BY DEF A!Init, A!Idle, A!TypeOK
<1>2. \A h \in Handlers : ~ Sending(h)
  BY DEF A!Init, A!Idle, Sending
<1>3. \A g \in Guests : jobs[g] = 0 /\ ~ Awaited(g)
  BY <1>2 DEF A!Init, Awaited
<1> QED
  BY <1>1, <1>2, <1>3 DEF CampaignInv

LEMMA CampaignStep ==
  ASSUME CampaignInv, [A!Next]_A!vars
  PROVE  CampaignInv'
<1> USE DEF CampaignInv
<1>1. CASE A!Approve
  BY <1>1 DEF A!Approve, A!TypeOK, Sending, Awaited
<1>2. ASSUME NEW g \in Guests, A!ChangeConsent(g)
      PROVE  CampaignInv'
  BY <1>2 DEF A!ChangeConsent, A!TypeOK, Sending, Awaited
<1>3. ASSUME NEW h \in Handlers, A!SendStart(h)
      PROVE  CampaignInv'
  <2>1. /\ sender' = [sender EXCEPT ![h] = [sender[h] EXCEPT !.pc = "resolve"]]
        /\ status = "APPROVED"
        /\ UNCHANGED <<status, consents, jobs, approvals>>
    BY <1>3 DEF A!SendStart, A!Sendable, A!TypeOK
  <2>2. A!TypeOK' /\ doubled' \in BOOLEAN
    BY <1>3, <2>1 DEF A!SendStart, A!TypeOK
  <2>6. ~ doubled' => ~ doubled /\ \A i \in Handlers : sender[i].pc = "idle"
    <3>1. doubled' = (doubled \/ \E i \in Handlers : sender[i] # A!Idle)
      BY <1>3 DEF A!SendStart
    <3>2. ~ doubled' => ~ doubled /\ \A i \in Handlers : sender[i] = A!Idle
      BY <3>1, Zenon
    <3> QED
      BY <3>2 DEF A!Idle
  <2>3. \A i \in Handlers : i # h => sender'[i] = sender[i]
    BY <2>1 DEF A!TypeOK
  <2>4. ~ doubled' => \A i \in Handlers : Sending(i)' => i = h
    BY <2>3, <2>6 DEF Sending
  <2>5. ~ doubled' => \A g \in Guests : Awaited(g)
    BY <2>1, <2>6 DEF Sending, Awaited
  <2> QED
    BY <2>1, <2>2, <2>4, <2>5, <2>6
<1>4. ASSUME NEW h \in Handlers, A!Resolve(h) \/ A!Enqueue(h)
      PROVE  CampaignInv'
  <2>1. PICK left \in SUBSET Guests :
            /\ sender' = [sender EXCEPT ![h] = [pc |-> "queue", left |-> left]]
            /\ Sending(h)
            /\ \A g \in Guests : sender[h].pc = "queue" /\ g \in left => g \in sender[h].left
    <3>1. CASE A!Resolve(h)
      BY <3>1 DEF A!Resolve, A!TypeOK, Sending
    <3>2. CASE A!Enqueue(h)
      <4>1. PICK g \in sender[h].left : sender' = [sender EXCEPT ![h].left = @ \ {g}]
        BY <3>2 DEF A!Enqueue
      <4>2. sender' = [sender EXCEPT ![h] = [pc |-> "queue", left |-> sender[h].left \ {g}]]
        BY <3>2, <4>1 DEF A!Enqueue, A!TypeOK
      <4> DEFINE rest == sender[h].left \ {g}
      <4>3. rest \in SUBSET Guests /\ Sending(h)
        BY <3>2, <4>2 DEF A!Enqueue, A!TypeOK, Sending
      <4> QED
        BY <4>2, <4>3
    <3> QED
      BY <1>4, <3>1, <3>2
  <2>2. /\ UNCHANGED <<status, consents, approvals, doubled>>
        /\ \/ jobs' = jobs
           \/ \E g \in sender[h].left : /\ jobs' = [jobs EXCEPT ![g] = @ + 1]
                                        /\ sender[h].pc = "queue" /\ g \notin left
    <3>1. CASE A!Resolve(h)
      BY <3>1 DEF A!Resolve
    <3>2. CASE A!Enqueue(h)
      <4>1. PICK g \in sender[h].left : /\ jobs' = [jobs EXCEPT ![g] = @ + 1]
                                        /\ sender' = [sender EXCEPT ![h].left = @ \ {g}]
        BY <3>2 DEF A!Enqueue
      <4>2. sender'[h].left = sender[h].left \ {g} /\ sender'[h].left = left
        BY <2>1, <4>1 DEF A!TypeOK
      <4> QED
        BY <3>2, <4>1, <4>2 DEF A!Enqueue
    <3> QED
      BY <1>4, <3>1, <3>2
  <2>3. A!TypeOK'
    BY <2>1, <2>2 DEF A!TypeOK
  <2>4. \A i \in Handlers : Sending(i)' = Sending(i)
    BY <2>1 DEF Sending, A!TypeOK
  <2>5. ASSUME ~ doubled, NEW g \in Guests
        PROVE  /\ jobs'[g] <= approvals
               /\ Awaited(g)' => jobs'[g] < approvals
    <3>1. \A i \in Handlers : Sending(i) => i = h
      BY <2>1, <2>5
    <3>2. Awaited(g)' <=> g \in left
      BY <2>1, <2>4, <3>1 DEF Awaited, Sending, A!TypeOK
    <3>3. g \in left => Awaited(g)
      BY <2>1, <3>1 DEF Awaited, Sending, A!TypeOK
    <3>4. \A f \in sender[h].left : sender[h].pc = "queue" => Awaited(f)
      BY <2>1 DEF Awaited
    <3>5. jobs[g] \in Nat /\ jobs'[g] \in Nat
      BY <2>3 DEF A!TypeOK
    <3>6. CASE jobs' = jobs
      BY <2>5, <3>2, <3>3, <3>6
    <3>7. ASSUME NEW f \in sender[h].left, jobs' = [jobs EXCEPT ![f] = @ + 1],
                 sender[h].pc = "queue", f \notin left
          PROVE  jobs'[g] <= approvals /\ (g \in left => jobs'[g] < approvals)
      <4>1. CASE g = f
        BY <2>5, <3>4, <3>5, <3>7, <4>1 DEF A!TypeOK
      <4>2. CASE g # f
        BY <2>5, <3>3, <3>7, <4>2 DEF A!TypeOK
      <4> QED
        BY <4>1, <4>2
    <3> QED
      BY <2>2, <3>2, <3>6, <3>7
  <2> QED
    BY <2>2, <2>3, <2>4, <2>5
<1>5. ASSUME NEW h \in Handlers, A!SendDone(h)
      PROVE  CampaignInv'
  <2>1. /\ sender' = [sender EXCEPT ![h] = A!Idle] /\ Sending(h)
        /\ status' = "SENT" /\ UNCHANGED <<consents, jobs, approvals, doubled>>
    BY <1>5 DEF A!SendDone, Sending
  <2>2. A!TypeOK'
    BY <2>1 DEF A!TypeOK, A!Idle
  <2>3. \A i \in Handlers : Sending(i)' => Sending(i) /\ i # h
    BY <2>1 DEF Sending, A!TypeOK, A!Idle
  <2>4. ~ doubled => \A g \in Guests : ~ Awaited(g)'
    BY <2>1, <2>3 DEF Awaited
  <2> QED
    BY <2>1, <2>2, <2>3, <2>4
<1>6. ASSUME NEW h \in Handlers, A!Die(h)
      PROVE  CampaignInv'
  BY <1>6 DEF A!Die, A!Idle, A!TypeOK
<1>7. CASE UNCHANGED A!vars
  BY <1>7 DEF A!vars, A!TypeOK, Sending, Awaited
<1> QED
  BY <1>1, <1>2, <1>3, <1>4, <1>5, <1>6, <1>7 DEF A!Next

\* The invariant, in every state of the back office.
LEMMA CampaignInvHolds == BackOfficeSpec => []CampaignInv
<1>1. BackOfficeInit => CampaignInv
  BY CampaignInit DEF BackOfficeInit
<1>2. CampaignInv /\ [BackOfficeNext]_officeVars => CampaignInv'
  BY CampaignStep, CampaignsMove
<1> QED
  BY <1>1, <1>2, PTL DEF BackOfficeSpec

\* An approval sends each guest one message: marketing.service's approve and send, for
\* any number of guests, senders, approvals and changes of consent.
THEOREM ApprovalSendsOnce == BackOfficeSpec => []OnePerApproval
<1>1. CampaignInv => OnePerApproval
  BY DEF CampaignInv, OnePerApproval, A!OnePerApproval
<1> QED
  BY <1>1, CampaignInvHolds, PTL

-----------------------------------------------------------------------------
(* Preventive                                                              *)
(*                                                                         *)
(* That a schedule opens one ticket per interval rests on four more facts: *)
(* rows are numbered as they are made, what the run has left was due and   *)
(* stays so until the run moves it on, the tickets of a schedule that      *)
(* never broke lie an interval before its next run, and only tickets that  *)
(* are there are escalated.                                                *)

LEMMA PreventiveMoves ==
  ASSUME [BackOfficeNext]_officeVars
  PROVE  [M!Next]_M!vars
<1>1. CASE PreventiveStep
  BY <1>1 DEF PreventiveStep
<1> QED
  BY <1>1 DEF BackOfficeNext, officeVars, preventive, M!vars, TurnoverStep, StockStep, DistributionStep,
     InboxStep, CityLedgerStep, LoyaltyStep, StaffingStep, PricingStep, AttendanceStep, CampaignsStep

LEMMA SameCountM == \A s : M!Cardinality(s) = Cardinality(s)
BY Zenon DEF M!Cardinality, Cardinality

Row == [status : {"OPEN", "RESOLVED"}, of : Schedules, at : Nat, told : Nat]

\* Tickets are made one after the other, the last of them now or before.
MadeInOrder ==
    \A n \in M!Made : spawned[n].at <= now /\ \A m \in Tickets : m < n => m \in M!Made

WatchesMade == watch.left \subseteq M!Made /\ (watch.pc = "tell" => watch.cur \in M!Made)

StillDue == \A s \in run.left : sched[s].next <= now

TicketsCounted ==
    \A s \in Schedules :
        Cardinality(M!TicketsOf(s)) = sched[s].moved + broken[s] + (IF M!Between(s) THEN 1 ELSE 0)

\* The tickets of a schedule that never broke are an interval apart, and so is its
\* next run from the last of them.
Spaced(s) ==
    /\ \A n, m \in M!TicketsOf(s) : n < m => spawned[n].at + Interval <= spawned[m].at
    /\ ~ M!Between(s) => \A n \in M!TicketsOf(s) : spawned[n].at + Interval <= sched[s].next

MaintenanceInv ==
    /\ M!TypeOK
    /\ MadeInOrder
    /\ WatchesMade
    /\ StillDue
    /\ TicketsCounted
    /\ \A s \in Schedules : broken[s] = 0 => Spaced(s)

LEMMA MaintenanceInit == M!Init => MaintenanceInv
<1> SUFFICES ASSUME M!Init PROVE MaintenanceInv
  OBVIOUS
<1>1. M!TypeOK
  BY PeriodsAssumption DEF M!Init, M!Idle, M!TypeOK
<1>2. M!Made = {} /\ \A s : M!TicketsOf(s) = {}
  BY DEF M!Init, M!Made, M!TicketsOf
<1>3. \A s : Cardinality(M!TicketsOf(s)) = 0 /\ ~ M!Between(s)
  BY <1>2, FS_EmptySet DEF M!Init, M!Idle, M!Between
<1> QED
  BY <1>1, <1>2, <1>3 DEF M!Init, M!Idle, MaintenanceInv, MadeInOrder, WatchesMade, StillDue,
     TicketsCounted, Spaced

\* A step that makes no ticket and moves no schedule on, for which no run broke.
LEMMA QuietStep ==
  ASSUME MaintenanceInv, M!TypeOK', now <= now', M!Made' = M!Made,
         \A n \in M!Made : spawned'[n].of = spawned[n].of /\ spawned'[n].at = spawned[n].at,
         \A s \in Schedules : sched'[s].next = sched[s].next /\ sched'[s].moved = sched[s].moved,
         UNCHANGED broken, \A s \in Schedules : M!Between(s)' = M!Between(s)
  PROVE  MadeInOrder' /\ TicketsCounted' /\ \A s \in Schedules : broken'[s] = 0 => Spaced(s)'
<1>1. \A s \in Schedules : M!TicketsOf(s)' = M!TicketsOf(s)
  BY DEF M!TicketsOf
<1>2. MadeInOrder'
  BY DEF MaintenanceInv, MadeInOrder, M!TypeOK, M!Made, M!NoTicket
<1>3. TicketsCounted'
  BY <1>1 DEF MaintenanceInv, TicketsCounted
<1>4. ASSUME NEW s \in Schedules, broken[s] = 0
      PROVE  Spaced(s)'
  <2>1. \A n \in M!TicketsOf(s) : n \in M!Made
    BY DEF M!TicketsOf
  <2> QED
    BY <1>1, <1>4, <2>1 DEF MaintenanceInv, Spaced
<1> QED
  BY <1>2, <1>3, <1>4

\* What is left to a run after schedule s.
LEMMA AfterRun ==
  ASSUME MaintenanceInv, NEW s \in Schedules, M!Between(s), run' = M!After(s)
  PROVE  /\ run' \in [pc : {"idle", "register", "advance"}, left : SUBSET Schedules, cur : Schedules \cup {0}]
         /\ run'.left \subseteq run.left \ {s}
         /\ \A t \in Schedules : M!Between(t) <=> t = s
         /\ \A t \in Schedules : ~ M!Between(t)'
BY DEF M!After, M!Between, M!Idle, MaintenanceInv, M!TypeOK

LEMMA MaintenanceStep ==
  ASSUME MaintenanceInv, [M!Next]_M!vars
  PROVE  MaintenanceInv'
<1> USE DEF MaintenanceInv
<1>1. CASE M!Tick
  <2>1. M!TypeOK' /\ now <= now' /\ now \in Nat /\ now' \in Nat
    BY <1>1, PeriodsAssumption DEF M!Tick, M!TypeOK
  <2>2. M!Made' = M!Made /\ \A s \in Schedules : M!Between(s)' = M!Between(s)
    BY <1>1 DEF M!Tick, M!Made, M!Between
  <2>3. WatchesMade' /\ StillDue'
    BY <1>1, <2>1, <2>2 DEF M!Tick, WatchesMade, StillDue, M!TypeOK
  <2> QED
    BY <1>1, <2>1, <2>2, <2>3, QuietStep DEF M!Tick
<1>2. ASSUME NEW s \in Schedules, NEW active \in BOOLEAN, M!SetActive(s, active)
      PROVE  MaintenanceInv'
  <2>1. \A t \in Schedules : sched'[t].next = sched[t].next /\ sched'[t].moved = sched[t].moved
    BY <1>2 DEF M!SetActive, M!TypeOK
  <2>2. M!TypeOK' /\ now <= now'
    BY <1>2 DEF M!SetActive, M!TypeOK
  <2>3. M!Made' = M!Made /\ \A t \in Schedules : M!Between(t)' = M!Between(t)
    BY <1>2 DEF M!SetActive, M!Made, M!Between
  <2>4. WatchesMade' /\ StillDue'
    BY <1>2, <2>1, <2>3 DEF M!SetActive, WatchesMade, StillDue, M!TypeOK
  <2> QED
    BY <1>2, <2>1, <2>2, <2>3, <2>4, QuietStep DEF M!SetActive
<1>3. CASE M!RunDue
  <2>1. M!TypeOK' /\ now <= now'
    <3> DEFINE due == {s \in Schedules : M!Due(s)}
    <3>1. run' = [M!Idle EXCEPT !.pc = "register", !.left = due] /\ due \in SUBSET Schedules
      BY <1>3 DEF M!RunDue
    <3>2. run' \in [pc : {"idle", "register", "advance"}, left : SUBSET Schedules, cur : Schedules \cup {0}]
      BY <3>1 DEF M!Idle
    <3>3. now <= now
      BY PeriodsAssumption DEF M!TypeOK
    <3> QED
      BY <1>3, <3>2, <3>3 DEF M!RunDue, M!TypeOK
  <2>2. M!Made' = M!Made /\ \A t \in Schedules : M!Between(t)' = M!Between(t)
    BY <1>3 DEF M!RunDue, M!Made, M!Between, M!Idle
  <2>3. WatchesMade' /\ StillDue'
    BY <1>3, <2>2 DEF M!RunDue, M!Due, WatchesMade, StillDue, M!TypeOK, M!Idle
  <2> QED
    BY <1>3, <2>1, <2>2, <2>3, QuietStep DEF M!RunDue
<1>4. ASSUME NEW s \in Schedules, M!RunRegister(s)
      PROVE  MaintenanceInv'
  <2>1. PICK n \in Tickets \ M!Made :
          /\ \A m \in Tickets \ M!Made : n <= m
          /\ spawned' = [spawned EXCEPT ![n] = [status |-> "OPEN", of |-> s, at |-> now, told |-> 0]]
    BY <1>4 DEF M!RunRegister
  <2>2. run.pc = "register" /\ s \in run.left /\ run' = [run EXCEPT !.pc = "advance", !.cur = s]
        /\ UNCHANGED <<now, sched, watch, broken>>
    BY <1>4 DEF M!RunRegister
  <2>3. M!TypeOK'
    <3>1. spawned' \in [Tickets -> {M!NoTicket} \cup Row]
      BY <2>1 DEF M!TypeOK, Row
    <3>2. run' \in [pc : {"idle", "register", "advance"}, left : SUBSET Schedules, cur : Schedules \cup {0}]
      BY <2>2 DEF M!TypeOK
    <3> QED
      BY <2>2, <3>1, <3>2 DEF M!TypeOK, Row
  <2>4. M!Made' = M!Made \cup {n} /\ spawned'[n].at = now /\ spawned'[n].of = s
        /\ \A m \in M!Made : spawned'[m] = spawned[m]
    BY <2>1 DEF M!Made, M!NoTicket, M!TypeOK
  <2>5. \A m \in M!Made : m < n /\ m \in Nat /\ n \in Nat
    BY <2>1, TicketsAssumption DEF MadeInOrder, M!Made
  <2>6. MadeInOrder'
    BY <2>1, <2>2, <2>4, <2>5, TicketsAssumption DEF MadeInOrder, M!TypeOK
  <2>7. WatchesMade' /\ StillDue'
    BY <2>2, <2>4 DEF WatchesMade, StillDue
  <2>8. /\ M!TicketsOf(s)' = M!TicketsOf(s) \cup {n} /\ n \notin M!TicketsOf(s)
        /\ \A t \in Schedules \ {s} : M!TicketsOf(t)' = M!TicketsOf(t)
    BY <2>1, <2>4 DEF M!TicketsOf
  <2>9. /\ M!Between(s)' /\ ~ M!Between(s)
        /\ \A t \in Schedules \ {s} : ~ M!Between(t)' /\ ~ M!Between(t)
    BY <2>2 DEF M!Between, M!TypeOK
  <2>10. TicketsCounted'
    <3>1. IsFiniteSet(M!TicketsOf(s))
      BY FS_Subset, TicketsAssumption DEF M!TicketsOf, M!Made
    <3>2. Cardinality(M!TicketsOf(s)') = Cardinality(M!TicketsOf(s)) + 1
      BY <2>8, <3>1, FS_AddElement
    <3> QED
      <4> SUFFICES ASSUME NEW t \in Schedules
                   PROVE  Cardinality(M!TicketsOf(t)') =
                             sched[t].moved + broken[t] + (IF M!Between(t)' THEN 1 ELSE 0)
        BY <2>2 DEF TicketsCounted
      <4>1. CASE t = s
        BY <2>9, <3>2, <4>1 DEF TicketsCounted, M!TypeOK
      <4>2. CASE t # s
        BY <2>8, <2>9, <4>2 DEF TicketsCounted
      <4> QED
        BY <4>1, <4>2
  <2>11. ASSUME NEW t \in Schedules, broken[t] = 0
         PROVE  Spaced(t)'
    <3>1. Spaced(t) /\ \A m \in M!TicketsOf(t) : m \in M!Made
      BY <2>11 DEF M!TicketsOf
    <3>2. CASE t # s
      BY <2>2, <2>4, <2>8, <2>9, <3>1, <3>2 DEF Spaced
    <3>3. CASE t = s
      <4>1. \A m \in M!TicketsOf(s) : spawned[m].at + Interval <= now
        <5>1. sched[s].next <= now /\ sched[s].next \in Nat /\ now \in Nat
          BY <2>2 DEF StillDue, M!TypeOK
        <5>2. \A m \in M!Made : spawned[m].at \in Nat
          BY DEF M!TypeOK, M!Made, M!NoTicket
        <5> QED
          BY <2>9, <3>1, <3>3, <5>1, <5>2, PeriodsAssumption DEF Spaced
      <4>2. ASSUME NEW k \in M!TicketsOf(s)', NEW m \in M!TicketsOf(s)', k < m
            PROVE  spawned'[k].at + Interval <= spawned'[m].at
        <5>1. k # n
          <6>1. m \in M!TicketsOf(s) \/ m = n
            BY <2>8
          <6>2. n \in Nat /\ ~ n < n /\ \A j \in M!Made : j \in Nat /\ j < n /\ ~ n < j
            BY <2>5, TicketsAssumption
          <6> QED
            BY <3>1, <3>3, <4>2, <6>1, <6>2
        <5>2. k \in M!TicketsOf(s) /\ spawned'[k].at = spawned[k].at
          BY <2>4, <2>8, <3>1, <3>3, <5>1
        <5>3. CASE m = n
          BY <2>4, <4>1, <5>2, <5>3
        <5>4. CASE m # n
          <6>1. m \in M!TicketsOf(s) /\ spawned'[m].at = spawned[m].at
            BY <2>4, <2>8, <3>1, <3>3, <5>4
          <6> QED
            BY <3>1, <3>3, <4>2, <5>2, <6>1 DEF Spaced
        <5> QED
          BY <5>3, <5>4
      <4> QED
        BY <2>9, <3>3, <4>2 DEF Spaced
    <3> QED
      BY <3>2, <3>3
  <2> QED
    BY <2>2, <2>3, <2>6, <2>7, <2>10, <2>11
<1>5. ASSUME NEW s \in Schedules, M!RunAdvance(s)
      PROVE  MaintenanceInv'
  <2>1. M!Between(s) /\ sched' = [sched EXCEPT ![s].next = now + Interval, ![s].moved = @ + 1]
        /\ run' = M!After(s) /\ UNCHANGED <<now, spawned, watch, broken>>
    BY <1>5 DEF M!RunAdvance, M!NextRun
  <2>2. M!TypeOK'
    BY <2>1, AfterRun, PeriodsAssumption DEF M!TypeOK
  <2>3. M!Made' = M!Made /\ \A t \in Schedules : M!TicketsOf(t)' = M!TicketsOf(t)
    BY <2>1 DEF M!Made, M!TicketsOf
  <2>4. MadeInOrder' /\ WatchesMade'
    BY <2>1, <2>3 DEF MadeInOrder, WatchesMade
  <2>5. \A t \in Schedules \ {s} : sched'[t] = sched[t]
    BY <2>1 DEF M!TypeOK
  <2>6. sched'[s].next = now + Interval /\ sched'[s].moved = sched[s].moved + 1
    BY <2>1 DEF M!TypeOK
  <2>7. StillDue'
    BY <2>1, <2>5, AfterRun DEF StillDue, M!TypeOK
  <2>8. TicketsCounted'
    BY <2>1, <2>3, <2>5, <2>6, AfterRun DEF TicketsCounted, M!TypeOK
  <2>9. ASSUME NEW t \in Schedules, broken[t] = 0
        PROVE  Spaced(t)'
    <3>1. CASE t # s
      BY <2>1, <2>3, <2>5, <2>9, <3>1, AfterRun, ZenonT(40) DEF Spaced
    <3>2. CASE t = s
      <4>1. \A m \in M!TicketsOf(s) : spawned[m].at \in Nat /\ spawned[m].at <= now
        BY DEF MadeInOrder, M!TicketsOf, M!TypeOK, M!Made, M!NoTicket
      <4> QED
        BY <2>1, <2>3, <2>6, <2>9, <3>2, <4>1, PeriodsAssumption DEF Spaced, M!TypeOK
    <3> QED
      BY <3>1, <3>2
  <2> QED
    BY <2>1, <2>2, <2>4, <2>7, <2>8, <2>9
<1>6. ASSUME NEW s \in Schedules, M!RunCatch(s)
      PROVE  MaintenanceInv'
  <2>1. M!Between(s) /\ broken' = [broken EXCEPT ![s] = @ + 1]
        /\ run' = M!After(s) /\ UNCHANGED <<now, sched, spawned, watch>>
    BY <1>6 DEF M!RunCatch
  <2>2. M!TypeOK'
    BY <2>1, AfterRun DEF M!TypeOK
  <2>3. M!Made' = M!Made /\ \A t \in Schedules : M!TicketsOf(t)' = M!TicketsOf(t)
    BY <2>1 DEF M!Made, M!TicketsOf
  <2>4. MadeInOrder' /\ WatchesMade' /\ StillDue'
    BY <2>1, <2>3, AfterRun DEF MadeInOrder, WatchesMade, StillDue
  <2>5. TicketsCounted'
    BY <2>1, <2>3, AfterRun DEF TicketsCounted, M!TypeOK
  <2>6. ASSUME NEW t \in Schedules, broken'[t] = 0
        PROVE  Spaced(t)'
    <3>1. t # s /\ broken[t] = 0
      BY <2>1, <2>6 DEF M!TypeOK
    <3> QED
      BY <2>1, <2>3, <3>1, AfterRun DEF Spaced
  <2> QED
    BY <2>2, <2>4, <2>5, <2>6
<1>7. CASE M!Escalate \/ \E n \in Tickets : M!EscalateFind(n)
  <2>1. UNCHANGED <<now, sched, spawned, run, broken>> /\ M!Made' = M!Made
    BY <1>7 DEF M!Escalate, M!EscalateFind, M!Made
  <2>2. /\ watch' \in [pc : {"idle", "find", "tell"}, left : SUBSET Tickets, cur : Tickets \cup {0}]
        /\ watch'.left \subseteq M!Made /\ (watch'.pc = "tell" => watch'.cur \in M!Made)
    <3>1. CASE M!Escalate
      BY <3>1 DEF M!Escalate, M!Overdue, M!Idle, M!Made, M!TypeOK
    <3>2. ASSUME NEW n \in Tickets, M!EscalateFind(n)
          PROVE  /\ watch' \in [pc : {"idle", "find", "tell"}, left : SUBSET Tickets, cur : Tickets \cup {0}]
                 /\ watch'.left \subseteq M!Made /\ (watch'.pc = "tell" => watch'.cur \in M!Made)
      BY <3>2 DEF M!EscalateFind, M!Passed, M!Idle, M!TypeOK, WatchesMade
    <3> QED
      BY <1>7, <3>1, <3>2
  <2>3. M!TypeOK' /\ now <= now' /\ \A t \in Schedules : M!Between(t)' = M!Between(t)
    BY <2>1, <2>2 DEF M!TypeOK, M!Between
  <2>4. WatchesMade' /\ StillDue'
    BY <2>1, <2>2 DEF WatchesMade, StillDue
  <2> QED
    BY <2>1, <2>3, <2>4, QuietStep
<1>8. ASSUME NEW n \in Tickets, M!EscalateTell(n) \/ M!Resolve(n)
      PROVE  MaintenanceInv'
  <2>1. n \in M!Made /\ spawned[n] \in Row
    BY <1>8 DEF M!EscalateTell, M!Resolve, WatchesMade, M!Made, M!TypeOK, Row
  <2>2. PICK row \in Row : /\ spawned' = [spawned EXCEPT ![n] = row]
                           /\ row.of = spawned[n].of /\ row.at = spawned[n].at
    <3>1. CASE M!EscalateTell(n)
      <4>1. spawned' = [spawned EXCEPT ![n] = [spawned[n] EXCEPT !.told = @ + 1]]
        BY <3>1 DEF M!EscalateTell
      <4>2. [spawned[n] EXCEPT !.told = @ + 1] \in Row
        BY <2>1 DEF Row
      <4> QED
        BY <2>1, <4>1, <4>2 DEF Row
    <3>2. CASE M!Resolve(n)
      <4>1. spawned' = [spawned EXCEPT ![n] = [spawned[n] EXCEPT !.status = "RESOLVED"]]
        BY <3>2 DEF M!Resolve
      <4>2. [spawned[n] EXCEPT !.status = "RESOLVED"] \in Row
        BY <2>1 DEF Row
      <4> QED
        BY <2>1, <4>1, <4>2 DEF Row
    <3> QED
      BY <1>8, <3>1, <3>2
  <2>3. UNCHANGED <<now, sched, run, broken>>
    BY <1>8 DEF M!EscalateTell, M!Resolve
  <2>4. /\ watch' \in [pc : {"idle", "find", "tell"}, left : SUBSET Tickets, cur : Tickets \cup {0}]
        /\ watch'.left \subseteq watch.left /\ (watch'.pc = "tell" => watch.pc = "tell" /\ watch'.cur = watch.cur)
    <3>1. CASE M!EscalateTell(n)
      <4>1. watch' = M!Idle \/ watch' = [M!Idle EXCEPT !.pc = "find", !.left = watch.left \ {n}]
        BY <3>1 DEF M!EscalateTell, M!Passed
      <4>2. watch.left \ {n} \in SUBSET Tickets /\ {} \in SUBSET Tickets
        BY DEF M!TypeOK
      <4>3. CASE watch' = M!Idle
        BY <4>2, <4>3 DEF M!Idle
      <4>4. CASE watch' = [M!Idle EXCEPT !.pc = "find", !.left = watch.left \ {n}]
        <5>1. watch' = [pc |-> "find", left |-> watch.left \ {n}, cur |-> 0]
          BY <4>4 DEF M!Idle
        <5> QED
          BY <4>2, <5>1
      <4> QED
        BY <4>1, <4>3, <4>4
    <3>2. CASE M!Resolve(n)
      BY <3>2 DEF M!Resolve, M!TypeOK
    <3> QED
      BY <1>8, <3>1, <3>2
  <2>5. M!Made' = M!Made
        /\ \A m \in M!Made : spawned'[m].of = spawned[m].of /\ spawned'[m].at = spawned[m].at
    BY <2>1, <2>2 DEF M!Made, M!NoTicket, M!TypeOK, Row
  <2>6. M!TypeOK' /\ now <= now' /\ \A t \in Schedules : M!Between(t)' = M!Between(t)
    BY <2>2, <2>3, <2>4 DEF M!TypeOK, M!Between, Row
  <2>7. WatchesMade' /\ StillDue'
    BY <2>3, <2>4, <2>5 DEF WatchesMade, StillDue
  <2> QED
    BY <2>3, <2>5, <2>6, <2>7, QuietStep
<1>9. CASE M!Die
  <2>1. /\ UNCHANGED <<now, sched, spawned>> /\ run' = M!Idle /\ watch' = M!Idle
        /\ broken' = [s \in Schedules |-> broken[s] + (IF M!Between(s) THEN 1 ELSE 0)]
    BY <1>9 DEF M!Die
  <2>2. M!TypeOK' /\ \A s \in Schedules : ~ M!Between(s)'
    BY <2>1 DEF M!TypeOK, M!Idle, M!Between
  <2>3. M!Made' = M!Made /\ \A t \in Schedules : M!TicketsOf(t)' = M!TicketsOf(t)
    BY <2>1 DEF M!Made, M!TicketsOf
  <2>4. MadeInOrder' /\ WatchesMade' /\ StillDue'
    BY <2>1, <2>3 DEF MadeInOrder, WatchesMade, StillDue, M!Idle
  <2>5. TicketsCounted'
    BY <2>1, <2>2, <2>3 DEF TicketsCounted, M!TypeOK
  <2>6. ASSUME NEW t \in Schedules, broken'[t] = 0
        PROVE  Spaced(t)'
    <3>1. ~ M!Between(t) /\ broken[t] = 0
      BY <2>1, <2>6 DEF M!TypeOK
    <3> QED
      BY <2>1, <2>3, <3>1 DEF Spaced
  <2> QED
    BY <2>2, <2>4, <2>5, <2>6
<1>10. CASE UNCHANGED M!vars
  <2>1. M!Made' = M!Made /\ \A t : M!TicketsOf(t)' = M!TicketsOf(t) /\ M!Between(t)' = M!Between(t)
    BY <1>10 DEF M!vars, M!Made, M!TicketsOf, M!Between
  <2> QED
    BY <1>10, <2>1 DEF M!vars, M!TypeOK, MadeInOrder, WatchesMade, StillDue, TicketsCounted, Spaced
<1> QED
  BY <1>1, <1>2, <1>3, <1>4, <1>5, <1>6, <1>7, <1>8, <1>9, <1>10 DEF M!Next

\* The invariant, in every state of the back office.
LEMMA MaintenanceInvHolds == BackOfficeSpec => []MaintenanceInv
<1>1. BackOfficeInit => MaintenanceInv
  BY MaintenanceInit DEF BackOfficeInit
<1>2. MaintenanceInv /\ [BackOfficeNext]_officeVars => MaintenanceInv'
  BY MaintenanceStep, PreventiveMoves
<1> QED
  BY <1>1, <1>2, PTL DEF BackOfficeSpec

\* Whenever a schedule was moved on its ticket had been opened, and none is opened twice
\* for an interval but by a run that broke: pm.service's runDue, for any schedules,
\* intervals, deaths and failures.
THEOREM MaintenanceIsNeverSkipped == BackOfficeSpec => []MaintenanceNeverSkipped
<1>1. ASSUME MaintenanceInv
      PROVE  M!MaintenanceNeverSkipped
  <2>1. \A s \in Schedules : broken[s] \in Nat
    BY <1>1 DEF MaintenanceInv, M!TypeOK
  <2>2. ASSUME NEW s \in Schedules, NEW n \in M!TicketsOf(s), NEW m \in M!TicketsOf(s),
               n < m, spawned[m].at < spawned[n].at + Interval
        PROVE  broken[s] > 0
    <3>1. spawned[m].at \in Nat /\ spawned[n].at \in Nat
      BY <1>1 DEF MaintenanceInv, M!TypeOK, M!TicketsOf, M!Made, M!NoTicket
    <3> QED
      BY <1>1, <2>1, <2>2, <3>1, PeriodsAssumption DEF MaintenanceInv, Spaced
  <2> QED
    BY <1>1, <2>2, SameCountM DEF MaintenanceInv, TicketsCounted, M!MaintenanceNeverSkipped
<1>2. MaintenanceInv => MaintenanceNeverSkipped
  BY <1>1 DEF MaintenanceNeverSkipped
<1> QED
  BY <1>2, MaintenanceInvHolds, PTL

-----------------------------------------------------------------------------
(* Staffing                                                                *)
(*                                                                         *)
(* An insert writes the hours of a check made long before.  What is left   *)
(* of the check is that the shift being created overlaps only those        *)
(* inserted since, which are its blind ones.                               *)

LEMMA StaffingMoves ==
  ASSUME [BackOfficeNext]_officeVars
  PROVE  [F!Next]_F!vars
<1>1. CASE StaffingStep
  BY <1>1 DEF StaffingStep
<1> QED
  BY <1>1 DEF BackOfficeNext, officeVars, staffing, F!vars, TurnoverStep, PreventiveStep, StockStep,
     DistributionStep, InboxStep, CityLedgerStep, LoyaltyStep, PricingStep, AttendanceStep, CampaignsStep

\* What the proof needs of the types: hours are numbers.
ShiftsTyped ==
    /\ F!TypeOK
    /\ shift \in [Shifts -> [from : Int, to : Int, blind : SUBSET Shifts]]
    /\ manager \in [Handlers -> [pc : {"idle", "insert"}, from : Int, to : Int, blind : SUBSET Shifts]]

\* What the check of a shift being created still guarantees.
ShiftChecked ==
    \A m \in Handlers : manager[m].pc = "insert" =>
        /\ manager[m].from < manager[m].to
        /\ \A k \in F!Made : F!Overlaps(shift[k], manager[m].from, manager[m].to) => k \in manager[m].blind

ShiftInv == ShiftsTyped /\ ShiftChecked /\ F!ShiftsDisjoint

LEMMA ShiftInit == F!Init => ShiftInv
BY HoursAssumption DEF F!Init, ShiftInv, ShiftsTyped, ShiftChecked, F!TypeOK, F!ShiftsDisjoint, F!Made,
   F!NoShift, F!Idle

\* A check leaves the shifts alone, and what it promises it has just seen.
LEMMA ShiftCheck ==
  ASSUME ShiftInv, NEW m \in Handlers, F!CreateStart(m)
  PROVE  ShiftInv'
<1>1. PICK from, to \in 0 .. LastHour :
        /\ from < to
        /\ \A k \in F!Made : ~ F!Overlaps(shift[k], from, to)
        /\ manager' = [manager EXCEPT ![m] = [pc |-> "insert", from |-> from, to |-> to, blind |-> {}]]
  BY DEF F!CreateStart
<1>2. shift' = shift /\ F!Made' = F!Made
  BY DEF F!CreateStart, F!Made
<1>3. ShiftsTyped'
  BY <1>1, <1>2 DEF ShiftInv, ShiftsTyped, F!TypeOK
<1>4. ShiftChecked'
  <2> SUFFICES ASSUME NEW n \in Handlers, manager'[n].pc = "insert"
               PROVE  /\ manager'[n].from < manager'[n].to
                      /\ \A k \in F!Made : F!Overlaps(shift[k], manager'[n].from, manager'[n].to)
                                              => k \in manager'[n].blind
    BY <1>2 DEF ShiftChecked, F!Overlaps
  <2>1. CASE n = m
    BY <1>1, <2>1 DEF ShiftInv, ShiftsTyped
  <2>2. CASE n # m
    <3>1. manager'[n] = manager[n]
      BY <1>1, <2>2 DEF ShiftInv, ShiftsTyped
    <3> QED
      BY <3>1 DEF ShiftInv, ShiftChecked
  <2> QED
    BY <2>1, <2>2
<1>5. F!ShiftsDisjoint'
  BY <1>2 DEF ShiftInv, F!ShiftsDisjoint
<1> QED
  BY <1>3, <1>4, <1>5 DEF ShiftInv

\* An insert adds one shift, to every other check's blind ones.
LEMMA ShiftInsert ==
  ASSUME ShiftInv, NEW m \in Handlers, F!CreateInsert(m)
  PROVE  ShiftInv'
<1> USE DEF ShiftInv
<1> DEFINE new == [from |-> manager[m].from, to |-> manager[m].to, blind |-> manager[m].blind]
<1>1. PICK k \in Shifts \ F!Made :
        /\ shift' = [shift EXCEPT ![k] = new]
        /\ manager' = [n \in Handlers |->
             IF n = m \/ manager[n] = F!Idle THEN F!Idle
             ELSE [manager[n] EXCEPT !.blind = @ \cup {k}]]
  BY DEF F!CreateInsert
<1>2. manager[m].pc = "insert" /\ manager[m].from < manager[m].to
  BY DEF F!CreateInsert, ShiftChecked
<1>3. F!Made' = F!Made \cup {k}
  BY <1>1, <1>2 DEF F!Made, F!NoShift, ShiftsTyped
<1>4. \A j \in F!Made : shift'[j] = shift[j]
  BY <1>1 DEF F!Made, ShiftsTyped
<1>5. shift'[k] = new
  BY <1>1 DEF ShiftsTyped
<1>6. ShiftsTyped'
  <2>1. shift' \in [Shifts -> [from : Int, to : Int, blind : SUBSET Shifts]]
    BY <1>1 DEF ShiftsTyped
  <2>2. shift' \in [Shifts -> [from : 0 .. LastHour, to : 0 .. LastHour, blind : SUBSET Shifts]]
    BY <1>1 DEF ShiftsTyped, F!TypeOK
  <2>3. ASSUME NEW n \in Handlers
        PROVE  /\ manager'[n] \in [pc : {"idle", "insert"}, from : Int, to : Int, blind : SUBSET Shifts]
               /\ manager'[n] \in [pc : {"idle", "insert"}, from : 0 .. LastHour, to : 0 .. LastHour,
                                   blind : SUBSET Shifts]
    <3>1. manager'[n] \in {F!Idle, [manager[n] EXCEPT !.blind = @ \cup {k}]}
      BY <1>1
    <3>2. F!Idle \in [pc : {"idle", "insert"}, from : 0 .. LastHour, to : 0 .. LastHour,
                      blind : SUBSET Shifts]
      BY HoursAssumption DEF F!Idle
    <3> QED
      BY <3>1, <3>2 DEF ShiftsTyped, F!TypeOK, F!Idle
  <2>4. manager' = [n \in Handlers |-> manager'[n]]
    BY <1>1
  <2> QED
    BY <2>1, <2>2, <2>3, <2>4 DEF ShiftsTyped, F!TypeOK
<1>7. ShiftChecked'
  <2> SUFFICES ASSUME NEW n \in Handlers, manager'[n].pc = "insert"
               PROVE  /\ manager'[n].from < manager'[n].to
                      /\ \A j \in F!Made' : F!Overlaps(shift'[j], manager'[n].from, manager'[n].to)
                                              => j \in manager'[n].blind
    BY DEF ShiftChecked, F!Overlaps
  <2>1. n # m /\ manager'[n] = [manager[n] EXCEPT !.blind = @ \cup {k}]
    BY <1>1 DEF F!Idle
  <2>2. /\ manager'[n].from = manager[n].from /\ manager'[n].to = manager[n].to
        /\ manager'[n].blind = manager[n].blind \cup {k} /\ manager[n].pc = "insert"
    BY <2>1 DEF ShiftsTyped
  <2> QED
    BY <2>2, <1>3, <1>4 DEF ShiftChecked
<1>8. F!ShiftsDisjoint'
  <2> SUFFICES ASSUME NEW i \in F!Made', NEW j \in F!Made', i # j,
                      shift'[i].from < shift'[j].to, shift'[j].from < shift'[i].to
               PROVE  i \in shift'[j].blind \/ j \in shift'[i].blind
    BY DEF F!ShiftsDisjoint
  <2>1. CASE i = k
    BY <2>1, <1>2, <1>3, <1>4, <1>5 DEF ShiftChecked, F!Overlaps, F!Made, ShiftsTyped
  <2>2. CASE j = k
    BY <2>2, <1>2, <1>3, <1>4, <1>5 DEF ShiftChecked, F!Overlaps, F!Made, ShiftsTyped
  <2>3. CASE i # k /\ j # k
    BY <2>3, <1>3, <1>4 DEF F!ShiftsDisjoint
  <2> QED
    BY <2>1, <2>2, <2>3
<1> QED
  BY <1>6, <1>7, <1>8

LEMMA ShiftStepInv ==
  ASSUME ShiftInv, [F!Next]_F!vars
  PROVE  ShiftInv'
<1>1. ASSUME NEW m \in Handlers, F!CreateStart(m) \/ F!CreateInsert(m)
      PROVE  ShiftInv'
  BY <1>1, ShiftCheck, ShiftInsert
<1>2. CASE UNCHANGED F!vars
  BY <1>2 DEF F!vars, ShiftInv, ShiftsTyped, F!TypeOK, ShiftChecked, F!ShiftsDisjoint, F!Made
<1> QED
  BY <1>1, <1>2 DEF F!Next

\* The invariant, in every state of the back office.
LEMMA ShiftInvHolds == BackOfficeSpec => []ShiftInv
<1>1. BackOfficeInit => ShiftInv
  BY ShiftInit DEF BackOfficeInit
<1>2. ShiftInv /\ [BackOfficeNext]_officeVars => ShiftInv'
  BY ShiftStepInv, StaffingMoves
<1> QED
  BY <1>1, <1>2, PTL DEF BackOfficeSpec

\* However many managers plan at once, two shifts overlap only if neither was
\* there when the other was checked: staff.service's createShift.
THEOREM ShiftsStayDisjoint == BackOfficeSpec => []ShiftsDisjoint
<1>1. ShiftInv => ShiftsDisjoint
  BY DEF ShiftInv, ShiftsDisjoint
<1> QED
  BY <1>1, ShiftInvHolds, PTL

-----------------------------------------------------------------------------
(* Inbox                                                                   *)
(*                                                                         *)
(* A message that was never in two webhooks is in the hands of the one     *)
(* whose batch it is in, and how far that one has come is what was         *)
(* recorded of it.  The first message of a sender finds the phone unknown  *)
(* and is alone with it until it has made the row.                         *)

LEMMA InboxMoves ==
  ASSUME [BackOfficeNext]_officeVars
  PROVE  [I!Next]_I!vars
<1>1. CASE InboxStep
  BY <1>1 DEF InboxStep
<1> QED
  BY <1>1 DEF BackOfficeNext, officeVars, inbox, I!vars, TurnoverStep, PreventiveStep, StockStep,
     DistributionStep, CityLedgerStep, LoyaltyStep, StaffingStep, PricingStep, AttendanceStep, CampaignsStep

Known      == {"conversation", "newConversation", "inbound", "consent", "reply", "enqueue", "store"}
Recorded   == {"consent", "reply", "enqueue", "store"}
Replied    == {"enqueue", "store"}
HandledAt  == {"sender", "newGuest"} \cup Known
HookRow    == {I!Idle} \cup [pc : {"look"} \cup HandledAt, todo : Seq(Messages) \ {<<>>}]

\* Message m is the one that a webhook is at, at one of these points.
BeingAt(hooks, m, pcs) == \E w \in Handlers : hooks[w].pc \in pcs /\ hooks[w].todo[1] = m

OneIf(b) == IF b THEN 1 ELSE 0

InboxTyped ==
    /\ guests \in [Senders -> Seq(BOOLEAN)]
    /\ convs \subseteq Senders /\ stored \subseteq Messages /\ asked \subseteq Messages
    /\ inbound \in [Messages -> Nat] /\ outbound \in [Messages -> Nat] /\ queued \in [Messages -> Nat]
    /\ hook \in [Handlers -> HookRow]

CountedOf(m) ==
    /\ m \in stored =>
         /\ inbound[m] = 1 /\ outbound[m] = 1 /\ queued[m] = 1
         /\ ~ BeingAt(hook, m, HandledAt)
    /\ m \notin stored =>
         /\ inbound[m] = OneIf(BeingAt(hook, m, Recorded))
         /\ outbound[m] = OneIf(BeingAt(hook, m, Replied))
         /\ queued[m] = OneIf(BeingAt(hook, m, {"store"}))

CountInv ==
    /\ InboxTyped
    /\ \A v, w \in Handlers : v # w => I!InBatch(hook[v].todo) \cap I!InBatch(hook[w].todo) \subseteq exposed
    /\ \A m \in Messages \ exposed : CountedOf(m)
    /\ \A m \in asked : m \in exposed \cup dropped \cup stored \cup I!Underway

LEMMA BatchParts ==
  ASSUME NEW t \in Seq(Messages), t # <<>>
  PROVE  /\ t[1] \in Messages /\ t[1] \in I!InBatch(t) /\ I!InBatch(t) \subseteq Messages
         /\ Tail(t) \in Seq(Messages)
         /\ Len(t) = 1 => I!InBatch(t) = {t[1]}
         /\ Len(t) # 1 => Tail(t) # <<>>
         /\ I!InBatch(t) = {t[1]} \cup I!InBatch(Tail(t))
<1>1. Len(t) \in Nat /\ Len(t) # 0 /\ DOMAIN t = 1 .. Len(t) /\ t[1] \in Messages /\ 1 \in DOMAIN t
  OBVIOUS
<1>2. Tail(t) \in Seq(Messages) /\ Len(Tail(t)) = Len(t) - 1 /\ DOMAIN Tail(t) = 1 .. Len(t) - 1
  OBVIOUS
<1>3. \A k \in DOMAIN Tail(t) : Tail(t)[k] = t[k + 1] /\ k + 1 \in DOMAIN t
  BY <1>1, <1>2
<1>4. \A k \in DOMAIN t : k = 1 \/ (k - 1 \in DOMAIN Tail(t) /\ Tail(t)[k - 1] = t[k])
  BY <1>1, <1>2, <1>3
<1>5. I!InBatch(t) \subseteq {t[1]} \cup I!InBatch(Tail(t))
  BY <1>4 DEF I!InBatch
<1>6. I!InBatch(Tail(t)) \subseteq I!InBatch(t)
  BY <1>3 DEF I!InBatch
<1>7. t[1] \in I!InBatch(t) /\ I!InBatch(t) \subseteq Messages
  BY <1>1 DEF I!InBatch
<1>8. Len(t) = 1 => I!InBatch(t) = {t[1]}
  BY <1>1 DEF I!InBatch
<1>9. Len(t) # 1 => Tail(t) # <<>>
  <2>1. ASSUME Len(t) # 1 PROVE 1 \in DOMAIN Tail(t)
    BY <1>1, <1>2, <2>1
  <2>2. 1 \notin DOMAIN <<>>
    OBVIOUS
  <2> QED
    BY <2>1, <2>2, Zenon
<1> QED
  BY <1>1, <1>2, <1>5, <1>6, <1>7, <1>8, <1>9

\* A webhook at a message.
LEMMA AtMessage ==
  ASSUME InboxTyped, NEW w \in Handlers, hook[w].pc # "idle"
  PROVE  /\ hook[w].pc \in {"look"} \cup HandledAt
         /\ hook[w].todo \in Seq(Messages) /\ hook[w].todo # <<>>
         /\ hook[w] = [pc |-> hook[w].pc, todo |-> hook[w].todo]
         /\ I!Msg(w) \in Messages /\ I!Msg(w) \in I!InBatch(hook[w].todo) /\ I!Sender(w) \in Senders
<1>1. hook[w] \in [pc : {"look"} \cup HandledAt, todo : Seq(Messages) \ {<<>>}]
  BY DEF InboxTyped, HookRow, I!Idle
<1> QED
  BY <1>1, BatchParts, MessagesAssumption DEF I!Msg, I!Sender

LEMMA IdleHook == I!Idle.pc = "idle" /\ I!InBatch(I!Idle.todo) = {} /\ I!Idle \in HookRow
BY DEF I!Idle, I!InBatch, HookRow

LEMMA InboxInitCount == I!Init => CountInv
<1> SUFFICES ASSUME I!Init PROVE CountInv
  OBVIOUS
<1>1. InboxTyped
  BY IdleHook DEF I!Init, I!Zero, InboxTyped
<1>2. \A v \in Handlers : hook[v] = I!Idle
  BY DEF I!Init
<1>3. \A m, pcs : pcs \subseteq HandledAt => ~ BeingAt(hook, m, pcs)
  BY <1>2 DEF BeingAt, I!Idle, HandledAt, Known
<1>4. \A m \in Messages : CountedOf(m)
  BY <1>3 DEF I!Init, I!Zero, CountedOf, OneIf, Recorded, Replied, HandledAt, Known
<1> QED
  BY <1>1, <1>2, <1>4, IdleHook DEF CountInv, I!Init

\* What was recorded of a message in the hands of one webhook.
LEMMA CountsNow ==
  ASSUME CountInv, NEW w \in Handlers, hook[w].pc # "idle", I!Msg(w) \notin exposed
  PROVE  /\ I!Msg(w) \in stored =>
              /\ hook[w].pc \notin HandledAt
              /\ inbound[I!Msg(w)] = 1 /\ outbound[I!Msg(w)] = 1 /\ queued[I!Msg(w)] = 1
         /\ I!Msg(w) \notin stored =>
              /\ inbound[I!Msg(w)] = OneIf(hook[w].pc \in Recorded)
              /\ outbound[I!Msg(w)] = OneIf(hook[w].pc \in Replied)
              /\ queued[I!Msg(w)] = OneIf(hook[w].pc \in {"store"})
<1> DEFINE m == I!Msg(w)
<1>1. InboxTyped
  BY DEF CountInv
<1>2. m \in Messages /\ m \in I!InBatch(hook[w].todo)
  BY <1>1, AtMessage
<1>3. \A v \in Handlers : v # w /\ hook[v].pc # "idle" => hook[v].todo[1] # m
  BY <1>1, <1>2, AtMessage DEF CountInv, I!Msg
<1>4. /\ Recorded \subseteq HandledAt /\ Replied \subseteq HandledAt /\ {"store"} \subseteq HandledAt
      /\ "idle" \notin HandledAt
  BY DEF Recorded, Replied, HandledAt, Known
<1>5. ASSUME NEW pcs \in SUBSET HandledAt
      PROVE  BeingAt(hook, m, pcs) <=> hook[w].pc \in pcs
  BY <1>3, <1>4 DEF BeingAt, I!Msg
<1>6. /\ BeingAt(hook, m, HandledAt) <=> hook[w].pc \in HandledAt
      /\ BeingAt(hook, m, Recorded) <=> hook[w].pc \in Recorded
      /\ BeingAt(hook, m, Replied) <=> hook[w].pc \in Replied
      /\ BeingAt(hook, m, {"store"}) <=> hook[w].pc \in {"store"}
  BY <1>4, <1>5
<1>7. CountedOf(m)
  BY <1>2 DEF CountInv
<1> QED
  BY <1>6, <1>7 DEF CountedOf, OneIf

\* A webhook that goes on with its message, or to the next.
LEMMA CountedKept ==
  ASSUME CountInv, NEW w \in Handlers, hook[w].pc # "idle", InboxTyped',
         NEW new \in HookRow, hook' = [hook EXCEPT ![w] = new],
         I!InBatch(new.todo) \subseteq I!InBatch(hook[w].todo),
         new.pc \in HandledAt => new.todo[1] = I!Msg(w),
         \A m \in Messages : m # I!Msg(w) =>
           /\ inbound'[m] = inbound[m] /\ outbound'[m] = outbound[m] /\ queued'[m] = queued[m]
           /\ m \in stored' <=> m \in stored,
         exposed \subseteq exposed', dropped \subseteq dropped', stored \subseteq stored', asked' = asked,
         I!InBatch(hook[w].todo) \subseteq I!InBatch(new.todo) \cup exposed' \cup dropped' \cup stored',
         I!Msg(w) \notin exposed' =>
           \/ /\ I!Msg(w) \in stored' /\ new.pc \notin HandledAt
              /\ inbound'[I!Msg(w)] = 1 /\ outbound'[I!Msg(w)] = 1 /\ queued'[I!Msg(w)] = 1
           \/ /\ I!Msg(w) \notin stored'
              /\ inbound'[I!Msg(w)] = OneIf(new.pc \in Recorded)
              /\ outbound'[I!Msg(w)] = OneIf(new.pc \in Replied)
              /\ queued'[I!Msg(w)] = OneIf(new.pc \in {"store"})
  PROVE  CountInv'
<1> DEFINE m0 == I!Msg(w)
<1>0. InboxTyped /\ m0 \in Messages /\ m0 \in I!InBatch(hook[w].todo)
  BY AtMessage DEF CountInv
<1>1. hook'[w] = new /\ \A v \in Handlers : v # w => hook'[v] = hook[v]
  BY <1>0 DEF InboxTyped
<1>2. \A u, v \in Handlers : u # v => I!InBatch(hook'[u].todo) \cap I!InBatch(hook'[v].todo) \subseteq exposed'
  BY <1>1 DEF CountInv
<1>3. ASSUME NEW m \in Messages \ exposed'
      PROVE  CountedOf(m)'
  <2>0. /\ Recorded \subseteq HandledAt /\ Replied \subseteq HandledAt /\ {"store"} \subseteq HandledAt
        /\ "idle" \notin HandledAt
    BY DEF Recorded, Replied, HandledAt, Known
  <2>1. CASE m # m0
    <3>1. ASSUME NEW pcs \in SUBSET HandledAt
          PROVE  BeingAt(hook', m, pcs) <=> BeingAt(hook, m, pcs)
      <4>1. ~ (hook[w].pc \in pcs /\ hook[w].todo[1] = m) /\ ~ (new.pc \in pcs /\ new.todo[1] = m)
        BY <2>1 DEF I!Msg
      <4> QED
        BY <1>1, <4>1 DEF BeingAt
    <3>2. CountedOf(m)
      BY DEF CountInv
    <3>3. /\ BeingAt(hook', m, HandledAt) <=> BeingAt(hook, m, HandledAt)
          /\ BeingAt(hook', m, Recorded) <=> BeingAt(hook, m, Recorded)
          /\ BeingAt(hook', m, Replied) <=> BeingAt(hook, m, Replied)
          /\ BeingAt(hook', m, {"store"}) <=> BeingAt(hook, m, {"store"})
      BY <2>0, <3>1
    <3>4. /\ inbound'[m] = inbound[m] /\ outbound'[m] = outbound[m] /\ queued'[m] = queued[m]
          /\ m \in stored' <=> m \in stored
      BY <2>1
    <3> HIDE DEF m0
    <3> QED
      BY <3>2, <3>3, <3>4 DEF CountedOf, OneIf
  <2>2. CASE m = m0
    <3>1. ASSUME NEW pcs \in SUBSET HandledAt
          PROVE  BeingAt(hook', m, pcs) <=> new.pc \in pcs
      <4>1. \A v \in Handlers : v # w /\ hook[v].pc \in HandledAt => hook[v].todo[1] # m
        BY <1>0, <2>0, <2>2, AtMessage DEF CountInv, I!Msg
      <4> QED
        BY <1>1, <2>2, <4>1 DEF BeingAt
    <3>3. /\ BeingAt(hook', m, HandledAt) <=> new.pc \in HandledAt
          /\ BeingAt(hook', m, Recorded) <=> new.pc \in Recorded
          /\ BeingAt(hook', m, Replied) <=> new.pc \in Replied
          /\ BeingAt(hook', m, {"store"}) <=> new.pc \in {"store"}
      BY <2>0, <3>1
    <3> QED
      BY <2>2, <3>3 DEF CountedOf, OneIf
  <2> QED
    BY <2>1, <2>2
<1>4. \A m \in asked' : m \in exposed' \cup dropped' \cup stored' \cup I!Underway'
  <2> SUFFICES ASSUME NEW m \in asked
               PROVE  m \in exposed' \cup dropped' \cup stored' \cup I!Underway'
    OBVIOUS
  <2>1. CASE m \in I!Underway
    <3>1. PICK v \in Handlers : m \in I!InBatch(hook[v].todo)
      BY <2>1 DEF I!Underway
    <3>2. CASE v = w
      <4>1. m \in I!InBatch(hook'[w].todo) => m \in I!Underway'
        BY DEF I!Underway
      <4> QED
        BY <1>1, <3>1, <3>2, <4>1
    <3>3. CASE v # w
      <4>1. m \in I!InBatch(hook'[v].todo)
        BY <1>1, <3>1, <3>3
      <4> QED
        BY <4>1 DEF I!Underway
    <3> QED
      BY <3>2, <3>3
  <2>2. CASE m \notin I!Underway
    BY <2>2 DEF CountInv
  <2> QED
    BY <2>1, <2>2
<1> QED
  BY <1>2, <1>3, <1>4 DEF CountInv

\* Steps between two points of one message.
LEMMA GoesOn ==
  ASSUME CountInv, NEW w \in Handlers, hook[w].pc # "idle", NEW pc \in HandledAt,
         hook' = [hook EXCEPT ![w].pc = pc]
  PROVE  /\ [pc |-> pc, todo |-> hook[w].todo] \in HookRow
         /\ hook' = [hook EXCEPT ![w] = [pc |-> pc, todo |-> hook[w].todo]]
         /\ hook' \in [Handlers -> HookRow]
<1>1. hook[w] = [pc |-> hook[w].pc, todo |-> hook[w].todo] /\ hook[w].todo \in Seq(Messages) \ {<<>>}
  BY AtMessage DEF CountInv
<1>2. [pc |-> pc, todo |-> hook[w].todo] \in HookRow
  BY <1>1 DEF HookRow
<1>3. [hook[w] EXCEPT !.pc = pc] = [pc |-> pc, todo |-> hook[w].todo]
  BY <1>1
<1>4. hook' = [hook EXCEPT ![w] = [hook[w] EXCEPT !.pc = pc]]
  BY DEF CountInv, InboxTyped
<1>5. hook' = [hook EXCEPT ![w] = [pc |-> pc, todo |-> hook[w].todo]]
  BY <1>3, <1>4
<1> QED
  BY <1>2, <1>5 DEF CountInv, InboxTyped

\* The step to the next message of the batch, or to the end of it.
LEMMA IsDone ==
  ASSUME CountInv, NEW w \in Handlers, hook[w].pc # "idle", I!Done(w)
  PROVE  \E new \in HookRow :
           /\ hook' = [hook EXCEPT ![w] = new] /\ hook' \in [Handlers -> HookRow]
           /\ new.pc \in {"idle", "look"} /\ I!InBatch(new.todo) \subseteq I!InBatch(hook[w].todo)
           /\ I!InBatch(hook[w].todo) \subseteq I!InBatch(new.todo) \cup {I!Msg(w)}
<1> DEFINE t == hook[w].todo
           new == IF Len(t) = 1 THEN I!Idle ELSE [pc |-> "look", todo |-> Tail(t)]
<1>1. t \in Seq(Messages) /\ t # <<>>
  BY AtMessage DEF CountInv
<1>2. hook' = [hook EXCEPT ![w] = new]
  BY DEF I!Done, CountInv, InboxTyped
<1>3. CASE Len(t) = 1
  <2>1. new = I!Idle /\ I!InBatch(t) = {t[1]}
    BY <1>1, <1>3, BatchParts
  <2> QED
    BY <1>2, <2>1, IdleHook DEF I!Msg, CountInv, InboxTyped
<1>4. CASE Len(t) # 1
  <2>1. new = [pc |-> "look", todo |-> Tail(t)] /\ Tail(t) \in Seq(Messages) \ {<<>>}
        /\ I!InBatch(t) = {t[1]} \cup I!InBatch(Tail(t))
    BY <1>1, <1>4, BatchParts
  <2>2. new \in HookRow /\ new.pc = "look" /\ new.todo = Tail(t)
    BY <2>1 DEF HookRow
  <2> QED
    BY <1>2, <2>1, <2>2 DEF I!Msg, CountInv, InboxTyped
<1> QED
  BY <1>3, <1>4

\* A step that records nothing.
LEMMA OnlyGoesOn ==
  ASSUME CountInv, NEW w \in Handlers, hook[w].pc # "idle", NEW pc \in HandledAt,
         I!Msg(w) \notin stored \/ hook[w].pc \in HandledAt,
         hook' = [hook EXCEPT ![w].pc = pc],
         pc \in Recorded <=> hook[w].pc \in Recorded, pc \in Replied <=> hook[w].pc \in Replied,
         pc \in {"store"} <=> hook[w].pc \in {"store"},
         guests' \in [Senders -> Seq(BOOLEAN)], convs' \subseteq Senders,
         UNCHANGED <<inbound, outbound, queued, stored, asked, exposed, dropped>>
  PROVE  CountInv'
<1> DEFINE new == [pc |-> pc, todo |-> hook[w].todo]
<1>1. new \in HookRow /\ hook' = [hook EXCEPT ![w] = new] /\ hook' \in [Handlers -> HookRow]
  BY GoesOn
<1>2. new.pc = pc /\ new.todo = hook[w].todo /\ new.todo[1] = I!Msg(w)
  BY DEF I!Msg
<1> HIDE DEF new
<1>3. InboxTyped'
  BY <1>1 DEF CountInv, InboxTyped
<1>4. I!Msg(w) \notin exposed =>
        /\ I!Msg(w) \notin stored
        /\ inbound[I!Msg(w)] = OneIf(hook[w].pc \in Recorded)
        /\ outbound[I!Msg(w)] = OneIf(hook[w].pc \in Replied)
        /\ queued[I!Msg(w)] = OneIf(hook[w].pc \in {"store"})
  BY CountsNow
<1>5. /\ OneIf(hook[w].pc \in Recorded) = OneIf(new.pc \in Recorded)
      /\ OneIf(hook[w].pc \in Replied) = OneIf(new.pc \in Replied)
      /\ OneIf(hook[w].pc \in {"store"}) = OneIf(new.pc \in {"store"})
  BY <1>2 DEF OneIf
<1>6. I!Msg(w) \notin exposed' =>
        /\ I!Msg(w) \notin stored'
        /\ inbound'[I!Msg(w)] = OneIf(new.pc \in Recorded)
        /\ outbound'[I!Msg(w)] = OneIf(new.pc \in Replied)
        /\ queued'[I!Msg(w)] = OneIf(new.pc \in {"store"})
  BY <1>4, <1>5
<1>7. \A m \in Messages : /\ inbound'[m] = inbound[m] /\ outbound'[m] = outbound[m]
                          /\ queued'[m] = queued[m] /\ m \in stored' <=> m \in stored
  OBVIOUS
<1> QED
  BY <1>1, <1>2, <1>3, <1>6, <1>7, CountedKept

\* A step that records something of its message.
LEMMA RecordsOf ==
  ASSUME CountInv, NEW w \in Handlers, hook[w].pc \in HandledAt, NEW pc \in HandledAt,
         hook' = [hook EXCEPT ![w].pc = pc],
         UNCHANGED <<guests, convs, stored, asked, exposed, dropped>>,
         NEW i \in {0, 1}, NEW o \in {0, 1}, NEW q \in {0, 1},
         inbound' = [inbound EXCEPT ![I!Msg(w)] = @ + i],
         outbound' = [outbound EXCEPT ![I!Msg(w)] = @ + o],
         queued' = [queued EXCEPT ![I!Msg(w)] = @ + q],
         OneIf(hook[w].pc \in Recorded) + i = OneIf(pc \in Recorded),
         OneIf(hook[w].pc \in Replied) + o = OneIf(pc \in Replied),
         OneIf(hook[w].pc \in {"store"}) + q = OneIf(pc \in {"store"})
  PROVE  CountInv'
<1> DEFINE new == [pc |-> pc, todo |-> hook[w].todo]
<1>0. hook[w].pc # "idle" /\ InboxTyped
  BY DEF HandledAt, Known, CountInv
<1>1. new \in HookRow /\ hook' = [hook EXCEPT ![w] = new] /\ hook' \in [Handlers -> HookRow]
  BY <1>0, GoesOn
<1>2. new.pc = pc /\ new.todo = hook[w].todo /\ new.todo[1] = I!Msg(w)
  BY DEF I!Msg
<1> HIDE DEF new
<1>3. I!Msg(w) \in Messages
  BY <1>0, AtMessage
<1>4. /\ inbound' \in [Messages -> Nat] /\ outbound' \in [Messages -> Nat] /\ queued' \in [Messages -> Nat]
      /\ inbound'[I!Msg(w)] = inbound[I!Msg(w)] + i /\ outbound'[I!Msg(w)] = outbound[I!Msg(w)] + o
      /\ queued'[I!Msg(w)] = queued[I!Msg(w)] + q
      /\ \A m \in Messages : m # I!Msg(w) =>
           inbound'[m] = inbound[m] /\ outbound'[m] = outbound[m] /\ queued'[m] = queued[m]
  BY <1>0, <1>3 DEF InboxTyped
<1>5. InboxTyped'
  BY <1>0, <1>1, <1>4 DEF InboxTyped
<1>6. I!Msg(w) \notin exposed =>
        /\ I!Msg(w) \notin stored
        /\ inbound'[I!Msg(w)] = OneIf(new.pc \in Recorded)
        /\ outbound'[I!Msg(w)] = OneIf(new.pc \in Replied)
        /\ queued'[I!Msg(w)] = OneIf(new.pc \in {"store"})
  BY <1>0, <1>2, <1>4, CountsNow
<1> QED
  BY <1>0, <1>1, <1>2, <1>4, <1>5, <1>6, CountedKept

\* A batch that ends before it is handled.
LEMMA GivenUp ==
  ASSUME CountInv, NEW w \in Handlers, hook[w].pc # "idle", hook' = [hook EXCEPT ![w] = I!Idle],
         UNCHANGED <<guests, convs, inbound, outbound, queued, stored, asked>>,
         \/ exposed' = exposed \cup I!InBatch(hook[w].todo) /\ dropped' = dropped
         \/ /\ dropped' = dropped \cup I!InBatch(hook[w].todo) /\ exposed' = exposed
            /\ hook[w].pc = "newConversation"
  PROVE  CountInv'
<1>1. InboxTyped'
  BY IdleHook DEF CountInv, InboxTyped
<1>2. I!Idle.pc \notin HandledAt /\ I!Idle.pc \notin Recorded /\ I!Idle.pc \notin Replied
      /\ I!Idle.pc \notin {"store"}
  BY IdleHook DEF HandledAt, Known, Recorded, Replied
<1>3. I!Msg(w) \in I!InBatch(hook[w].todo)
  BY AtMessage DEF CountInv
<1>4. I!Msg(w) \notin exposed' =>
        /\ I!Msg(w) \notin stored
        /\ inbound[I!Msg(w)] = OneIf(I!Idle.pc \in Recorded)
        /\ outbound[I!Msg(w)] = OneIf(I!Idle.pc \in Replied)
        /\ queued[I!Msg(w)] = OneIf(I!Idle.pc \in {"store"})
  BY <1>2, <1>3, CountsNow DEF OneIf, HandledAt, Known, Recorded, Replied
<1> QED
  BY <1>1, <1>2, <1>4, IdleHook, CountedKept

LEMMA ReceiveCount ==
  ASSUME CountInv, NEW w \in Handlers, NEW batch \in Batches, I!Receive(w, batch)
  PROVE  CountInv'
<1> DEFINE new == [pc |-> "look", todo |-> batch]
<1>0. InboxTyped /\ batch \in Seq(Messages) /\ batch # <<>> /\ I!InBatch(batch) \subseteq Messages
  BY MessagesAssumption, BatchParts DEF CountInv
<1>1. /\ hook[w] = I!Idle /\ hook' = [hook EXCEPT ![w] = new]
      /\ asked' = asked \cup I!InBatch(batch)
      /\ exposed' = exposed \cup (I!InBatch(batch) \cap I!Underway)
      /\ UNCHANGED <<guests, convs, inbound, outbound, queued, stored, dropped>>
  BY DEF I!Receive
<1>2. new \in HookRow /\ new.pc = "look" /\ new.todo = batch
  BY <1>0 DEF HookRow
<1> HIDE DEF new
<1>3. hook' \in [Handlers -> HookRow] /\ hook'[w] = new /\ \A v \in Handlers : v # w => hook'[v] = hook[v]
  BY <1>0, <1>1, <1>2 DEF InboxTyped
<1>4. InboxTyped'
  BY <1>0, <1>1, <1>3 DEF InboxTyped
<1>5. \A u, v \in Handlers : u # v => I!InBatch(hook'[u].todo) \cap I!InBatch(hook'[v].todo) \subseteq exposed'
  <2>1. \A v \in Handlers : I!InBatch(hook[v].todo) \subseteq I!Underway
    BY DEF I!Underway
  <2> QED
    BY <1>1, <1>2, <1>3, <2>1 DEF CountInv
<1>6. ASSUME NEW m \in Messages \ exposed'
      PROVE  CountedOf(m)'
  <2>0. /\ Recorded \subseteq HandledAt /\ Replied \subseteq HandledAt /\ {"store"} \subseteq HandledAt
        /\ "idle" \notin HandledAt /\ "look" \notin HandledAt
    BY DEF Recorded, Replied, HandledAt, Known
  <2>1. ASSUME NEW pcs \in SUBSET HandledAt
        PROVE  BeingAt(hook', m, pcs) <=> BeingAt(hook, m, pcs)
    BY <1>1, <1>2, <1>3, <2>0, IdleHook DEF BeingAt
  <2>2. /\ BeingAt(hook', m, HandledAt) <=> BeingAt(hook, m, HandledAt)
        /\ BeingAt(hook', m, Recorded) <=> BeingAt(hook, m, Recorded)
        /\ BeingAt(hook', m, Replied) <=> BeingAt(hook, m, Replied)
        /\ BeingAt(hook', m, {"store"}) <=> BeingAt(hook, m, {"store"})
    BY <2>0, <2>1
  <2>3. CountedOf(m)
    BY <1>1 DEF CountInv
  <2> QED
    BY <1>1, <2>2, <2>3 DEF CountedOf, OneIf
<1>7. \A m \in asked' : m \in exposed' \cup dropped' \cup stored' \cup I!Underway'
  <2>1. I!InBatch(batch) \subseteq I!Underway'
    BY <1>2, <1>3 DEF I!Underway
  <2>2. I!Underway \subseteq I!Underway'
    <3>1. \A v \in Handlers : I!InBatch(hook[v].todo) \subseteq I!InBatch(hook'[v].todo)
      BY <1>1, <1>3, IdleHook
    <3> QED
      BY <3>1 DEF I!Underway
  <2> QED
    BY <1>1, <2>1, <2>2 DEF CountInv
<1> QED
  BY <1>4, <1>5, <1>6, <1>7 DEF CountInv

LEMMA LookUpCount ==
  ASSUME CountInv, NEW w \in Handlers, I!LookUp(w)
  PROVE  CountInv'
<1>1. /\ hook[w].pc = "look"
      /\ UNCHANGED <<guests, convs, inbound, outbound, queued, stored, asked, exposed, dropped>>
  BY DEF I!LookUp, I!At
<1>2. CASE I!Msg(w) \in stored
  <2>1. PICK new \in HookRow :
           /\ hook' = [hook EXCEPT ![w] = new] /\ hook' \in [Handlers -> HookRow]
           /\ new.pc \in {"idle", "look"} /\ I!InBatch(new.todo) \subseteq I!InBatch(hook[w].todo)
           /\ I!InBatch(hook[w].todo) \subseteq I!InBatch(new.todo) \cup {I!Msg(w)}
    BY <1>1, <1>2, IsDone DEF I!LookUp, I!Known
  <2>2. InboxTyped'
    BY <1>1, <2>1 DEF CountInv, InboxTyped
  <2>3. new.pc \notin HandledAt
    BY <2>1 DEF HandledAt, Known
  <2>4. I!Msg(w) \notin exposed' =>
          /\ I!Msg(w) \in stored'
          /\ inbound'[I!Msg(w)] = 1 /\ outbound'[I!Msg(w)] = 1 /\ queued'[I!Msg(w)] = 1
    BY <1>1, <1>2, CountsNow
  <2>5. \A m \in Messages : /\ inbound'[m] = inbound[m] /\ outbound'[m] = outbound[m]
                            /\ queued'[m] = queued[m] /\ m \in stored' <=> m \in stored
    BY <1>1
  <2> QED
    BY <1>1, <1>2, <2>1, <2>2, <2>3, <2>4, <2>5, CountedKept
<1>3. CASE I!Msg(w) \notin stored
  <2>1. hook' = [hook EXCEPT ![w].pc = "sender"]
    BY <1>3 DEF I!LookUp, I!Known, I!Goto
  <2>2. "sender" \in HandledAt /\ hook[w].pc # "idle"
    BY <1>1 DEF HandledAt
  <2>3. /\ "sender" \in Recorded <=> hook[w].pc \in Recorded
        /\ "sender" \in Replied <=> hook[w].pc \in Replied
        /\ "sender" \in {"store"} <=> hook[w].pc \in {"store"}
    BY <1>1 DEF Recorded, Replied
  <2>4. guests' \in [Senders -> Seq(BOOLEAN)] /\ convs' \subseteq Senders
    BY <1>1 DEF CountInv, InboxTyped
  <2> QED
    BY <1>1, <1>3, <2>1, <2>2, <2>3, <2>4, OnlyGoesOn
<1> QED
  BY <1>2, <1>3

LEMMA StoreCount ==
  ASSUME CountInv, NEW w \in Handlers, I!Store(w)
  PROVE  CountInv'
<1>1. /\ hook[w].pc = "store" /\ stored' = stored \cup {I!Msg(w)}
      /\ UNCHANGED <<guests, convs, inbound, outbound, queued, asked, exposed, dropped>>
  BY DEF I!Store, I!At
<1>2. PICK new \in HookRow :
         /\ hook' = [hook EXCEPT ![w] = new] /\ hook' \in [Handlers -> HookRow]
         /\ new.pc \in {"idle", "look"} /\ I!InBatch(new.todo) \subseteq I!InBatch(hook[w].todo)
         /\ I!InBatch(hook[w].todo) \subseteq I!InBatch(new.todo) \cup {I!Msg(w)}
  BY <1>1, IsDone DEF I!Store
<1>3. I!Msg(w) \in Messages
  BY <1>1, AtMessage DEF CountInv
<1>4. InboxTyped'
  BY <1>1, <1>2, <1>3 DEF CountInv, InboxTyped
<1>5. new.pc \notin HandledAt /\ hook[w].pc \in Recorded /\ hook[w].pc \in Replied /\ hook[w].pc \in HandledAt
  BY <1>1, <1>2 DEF HandledAt, Known, Recorded, Replied
<1>6. I!Msg(w) \notin exposed' =>
        /\ I!Msg(w) \in stored'
        /\ inbound'[I!Msg(w)] = 1 /\ outbound'[I!Msg(w)] = 1 /\ queued'[I!Msg(w)] = 1
  BY <1>1, <1>5, CountsNow DEF OneIf
<1>7. \A m \in Messages : m # I!Msg(w) =>
        /\ inbound'[m] = inbound[m] /\ outbound'[m] = outbound[m]
        /\ queued'[m] = queued[m] /\ m \in stored' <=> m \in stored
  BY <1>1
<1> QED
  BY <1>1, <1>2, <1>4, <1>5, <1>6, <1>7, CountedKept

LEMMA CountStep ==
  ASSUME CountInv, [I!Next]_I!vars
  PROVE  CountInv'
<1>0. /\ {"sender", "newGuest", "conversation", "newConversation", "inbound", "consent", "reply",
          "enqueue", "store"} = HandledAt
      /\ Recorded = {"consent", "reply", "enqueue", "store"} /\ Replied = {"enqueue", "store"}
  BY DEF HandledAt, Known, Recorded, Replied
<1>1. ASSUME NEW w \in Handlers, NEW batch \in Batches, I!Receive(w, batch)
      PROVE  CountInv'
  BY <1>1, ReceiveCount
<1>2. ASSUME NEW w \in Handlers, I!LookUp(w) \/ I!Store(w)
      PROVE  CountInv'
  BY <1>2, LookUpCount, StoreCount
<1>3. ASSUME NEW w \in Handlers, I!FindGuest(w)
      PROVE  CountInv'
  <2>1. PICK pc \in {"conversation", "newGuest"} : hook' = [hook EXCEPT ![w].pc = pc]
    BY <1>3 DEF I!FindGuest, I!Goto
  <2>2. hook[w].pc = "sender"
        /\ UNCHANGED <<guests, convs, inbound, outbound, queued, stored, asked, exposed, dropped>>
    BY <1>3 DEF I!FindGuest, I!At
  <2>3. guests' \in [Senders -> Seq(BOOLEAN)] /\ convs' \subseteq Senders
    BY <2>2 DEF CountInv, InboxTyped
  <2> QED
    BY <1>0, <2>1, <2>2, <2>3, OnlyGoesOn
<1>4. ASSUME NEW w \in Handlers, I!CreateGuest(w)
      PROVE  CountInv'
  <2>1. /\ hook' = [hook EXCEPT ![w].pc = "conversation"] /\ hook[w].pc = "newGuest"
        /\ guests' = [guests EXCEPT ![I!Sender(w)] = Append(@, TRUE)]
        /\ UNCHANGED <<convs, inbound, outbound, queued, stored, asked, exposed, dropped>>
    BY <1>4 DEF I!CreateGuest, I!At, I!Goto
  <2>2. guests' \in [Senders -> Seq(BOOLEAN)] /\ convs' \subseteq Senders
    <3>1. guests[I!Sender(w)] \in Seq(BOOLEAN)
      BY <2>1, AtMessage DEF CountInv, InboxTyped
    <3>2. Append(guests[I!Sender(w)], TRUE) \in Seq(BOOLEAN)
      BY <3>1
    <3> QED
      BY <2>1, <3>2 DEF CountInv, InboxTyped
  <2> QED
    BY <1>0, <2>1, <2>2, OnlyGoesOn
<1>5. ASSUME NEW w \in Handlers, I!FindConversation(w)
      PROVE  CountInv'
  <2>1. PICK pc \in {"inbound", "newConversation"} : hook' = [hook EXCEPT ![w].pc = pc]
    BY <1>5 DEF I!FindConversation, I!Goto
  <2>2. hook[w].pc = "conversation"
        /\ UNCHANGED <<guests, convs, inbound, outbound, queued, stored, asked, exposed, dropped>>
    BY <1>5 DEF I!FindConversation, I!At
  <2>3. guests' \in [Senders -> Seq(BOOLEAN)] /\ convs' \subseteq Senders
    BY <2>2 DEF CountInv, InboxTyped
  <2> QED
    BY <1>0, <2>1, <2>2, <2>3, OnlyGoesOn
<1>6. ASSUME NEW w \in Handlers, I!CreateConversation(w), I!Sender(w) \in convs
      PROVE  CountInv'
  <2>1. /\ hook' = [hook EXCEPT ![w] = I!Idle] /\ hook[w].pc = "newConversation"
        /\ dropped' = dropped \cup I!InBatch(hook[w].todo)
        /\ UNCHANGED <<guests, convs, inbound, outbound, queued, stored, asked, exposed>>
    BY <1>6 DEF I!CreateConversation, I!At, I!Abandon
  <2> QED
    BY <2>1, GivenUp
<1>7. ASSUME NEW w \in Handlers, I!CreateConversation(w), I!Sender(w) \notin convs
      PROVE  CountInv'
  <2>1. /\ hook' = [hook EXCEPT ![w].pc = "inbound"] /\ hook[w].pc = "newConversation"
        /\ convs' = convs \cup {I!Sender(w)}
        /\ UNCHANGED <<guests, inbound, outbound, queued, stored, asked, exposed, dropped>>
    BY <1>7 DEF I!CreateConversation, I!At, I!Goto
  <2>2. I!Sender(w) \in Senders
    BY <2>1, AtMessage DEF CountInv
  <2>3. guests' \in [Senders -> Seq(BOOLEAN)] /\ convs' \subseteq Senders
    BY <2>1, <2>2 DEF CountInv, InboxTyped
  <2> QED
    BY <1>0, <2>1, <2>3, OnlyGoesOn
<1>8. ASSUME NEW w \in Handlers, I!RecordInbound(w)
      PROVE  CountInv'
  <2>1. PICK pc \in {"reply", "consent"} : hook' = [hook EXCEPT ![w].pc = pc]
    BY <1>8 DEF I!RecordInbound, I!Goto
  <2>2. /\ hook[w].pc = "inbound" /\ inbound' = [inbound EXCEPT ![I!Msg(w)] = @ + 1]
        /\ UNCHANGED <<guests, convs, outbound, queued, stored, asked, exposed, dropped>>
    BY <1>8 DEF I!RecordInbound, I!At
  <2>3. /\ outbound' = [outbound EXCEPT ![I!Msg(w)] = @ + 0] /\ queued' = [queued EXCEPT ![I!Msg(w)] = @ + 0]
    BY <2>2 DEF CountInv, InboxTyped
  <2>4. /\ OneIf(hook[w].pc \in Recorded) + 1 = OneIf(pc \in Recorded)
        /\ OneIf(hook[w].pc \in Replied) + 0 = OneIf(pc \in Replied)
        /\ OneIf(hook[w].pc \in {"store"}) + 0 = OneIf(pc \in {"store"})
    BY <1>0, <2>1, <2>2 DEF OneIf
  <2> QED
    BY <1>0, <2>1, <2>2, <2>3, <2>4, RecordsOf
<1>9. ASSUME NEW w \in Handlers, I!SetConsent(w)
      PROVE  CountInv'
  <2>1. PICK k \in DOMAIN guests[I!Sender(w)] :
          guests' = [guests EXCEPT ![I!Sender(w)][k] = (Says[I!Msg(w)] = "start")]
    BY <1>9 DEF I!SetConsent
  <2>2. /\ hook' = [hook EXCEPT ![w].pc = "reply"] /\ hook[w].pc = "consent"
        /\ UNCHANGED <<convs, inbound, outbound, queued, stored, asked, exposed, dropped>>
    BY <1>9 DEF I!SetConsent, I!At, I!Goto
  <2>3. guests' \in [Senders -> Seq(BOOLEAN)] /\ convs' \subseteq Senders
    <3> DEFINE b == (Says[I!Msg(w)] = "start")
               gs == guests[I!Sender(w)]
    <3>1. b \in BOOLEAN /\ I!Sender(w) \in Senders /\ gs \in Seq(BOOLEAN)
      BY <2>2, AtMessage DEF CountInv, InboxTyped
    <3>2. [gs EXCEPT ![k] = b] \in Seq(BOOLEAN)
      <4> HIDE DEF b, gs
      <4> QED
        BY <3>1, <2>1 DEF gs
    <3>3. guests' = [guests EXCEPT ![I!Sender(w)] = [gs EXCEPT ![k] = b]]
      BY <2>1
    <3> QED
      BY <2>2, <3>2, <3>3 DEF CountInv, InboxTyped
  <2> QED
    BY <1>0, <2>2, <2>3, OnlyGoesOn
<1>10. ASSUME NEW w \in Handlers, I!RecordOutbound(w)
      PROVE  CountInv'
  <2>2. /\ hook[w].pc = "reply" /\ outbound' = [outbound EXCEPT ![I!Msg(w)] = @ + 1]
        /\ hook' = [hook EXCEPT ![w].pc = "enqueue"]
        /\ UNCHANGED <<guests, convs, inbound, queued, stored, asked, exposed, dropped>>
    BY <1>10 DEF I!RecordOutbound, I!At, I!Goto
  <2>3. /\ inbound' = [inbound EXCEPT ![I!Msg(w)] = @ + 0] /\ queued' = [queued EXCEPT ![I!Msg(w)] = @ + 0]
    BY <2>2 DEF CountInv, InboxTyped
  <2>4. /\ OneIf(hook[w].pc \in Recorded) + 0 = OneIf("enqueue" \in Recorded)
        /\ OneIf(hook[w].pc \in Replied) + 1 = OneIf("enqueue" \in Replied)
        /\ OneIf(hook[w].pc \in {"store"}) + 0 = OneIf("enqueue" \in {"store"})
    BY <1>0, <2>2 DEF OneIf
  <2> QED
    BY <1>0, <2>2, <2>3, <2>4, RecordsOf
<1>11. ASSUME NEW w \in Handlers, I!EnqueueText(w)
      PROVE  CountInv'
  <2>2. /\ hook[w].pc = "enqueue" /\ queued' = [queued EXCEPT ![I!Msg(w)] = @ + 1]
        /\ hook' = [hook EXCEPT ![w].pc = "store"]
        /\ UNCHANGED <<guests, convs, inbound, outbound, stored, asked, exposed, dropped>>
    BY <1>11 DEF I!EnqueueText, I!At, I!Goto
  <2>3. /\ inbound' = [inbound EXCEPT ![I!Msg(w)] = @ + 0] /\ outbound' = [outbound EXCEPT ![I!Msg(w)] = @ + 0]
    BY <2>2 DEF CountInv, InboxTyped
  <2>4. /\ OneIf(hook[w].pc \in Recorded) + 0 = OneIf("store" \in Recorded)
        /\ OneIf(hook[w].pc \in Replied) + 0 = OneIf("store" \in Replied)
        /\ OneIf(hook[w].pc \in {"store"}) + 1 = OneIf("store" \in {"store"})
    BY <1>0, <2>2 DEF OneIf
  <2> QED
    BY <1>0, <2>2, <2>3, <2>4, RecordsOf
<1>12. ASSUME NEW w \in Handlers, I!Fail(w)
      PROVE  CountInv'
  <2>1. /\ hook' = [hook EXCEPT ![w] = I!Idle] /\ exposed' = exposed \cup I!InBatch(hook[w].todo)
        /\ UNCHANGED <<guests, convs, inbound, outbound, queued, stored, asked, dropped>> /\ hook[w] # I!Idle
    BY <1>12 DEF I!Fail, I!Abandon
  <2>2. hook[w].pc # "idle"
    BY <2>1 DEF CountInv, InboxTyped, HookRow, HandledAt, Known
  <2> QED
    BY <2>1, <2>2, GivenUp
<1>13. CASE UNCHANGED I!vars
  BY <1>13 DEF I!vars, CountInv, InboxTyped, CountedOf, BeingAt, OneIf, I!Underway
<1> QED
  BY <1>1, <1>2, <1>3, <1>4, <1>5, <1>6, <1>7, <1>8, <1>9, <1>10, <1>11, <1>12, <1>13 DEF I!Next

\* What a webhook knows of its sender where it stands.
SenderKnown(at, kept, keyed, met) ==
    /\ at.pc = "newGuest" /\ SentBy[at.todo[1]] \notin met => kept[SentBy[at.todo[1]]] = <<>>
    /\ at.pc \in Known => kept[SentBy[at.todo[1]]] # <<>>
    /\ at.pc = "newConversation" /\ SentBy[at.todo[1]] \in keyed => SentBy[at.todo[1]] \in met

OptedOut(s, kept) == (\A n \in Messages : SentBy[n] = s => Says[n] # "start") => kept[s] = <<FALSE>>

\* A STOP whose webhook is past the consent has its sender opted out.
StopHeard(at, kept, met) ==
    at.pc \in {"reply"} \cup Replied /\ Says[at.todo[1]] = "stop" /\ SentBy[at.todo[1]] \notin met =>
        OptedOut(SentBy[at.todo[1]], kept)

SenderInv ==
    /\ \A w \in Handlers : SenderKnown(hook[w], guests, convs, raced) /\ StopHeard(hook[w], guests, raced)
    /\ \A v, w \in Handlers :
         v # w /\ hook[v].pc = hook[w].pc /\ hook[v].pc \in {"newGuest", "newConversation"}
         /\ I!Sender(v) = I!Sender(w) => I!Sender(v) \in raced
    /\ \A s \in Senders \ raced : Len(guests[s]) <= 1
    /\ \A m \in stored : Says[m] = "stop" /\ SentBy[m] \notin raced => OptedOut(SentBy[m], guests)
    /\ dropped # {} => raced # {}

\* It still knows it if nothing of its sender changes but that it may have met another.
LEMMA KnowsStill ==
  ASSUME NEW at, NEW g, NEW g2, NEW c, NEW c2, NEW r, NEW r2,
         SenderKnown(at, g, c, r), StopHeard(at, g, r), r \subseteq r2,
         g2[SentBy[at.todo[1]]] = g[SentBy[at.todo[1]]],
         at.pc = "newConversation" /\ SentBy[at.todo[1]] \in c2 =>
           SentBy[at.todo[1]] \in c \/ SentBy[at.todo[1]] \in r2
  PROVE  SenderKnown(at, g2, c2, r2) /\ StopHeard(at, g2, r2)
<1>1. SenderKnown(at, g2, c2, r2)
  BY DEF SenderKnown
<1>2. StopHeard(at, g2, r2)
  BY DEF StopHeard, OptedOut
<1> QED
  BY <1>1, <1>2

\* Rows of consents that are made and written.
LEMMA ConsentRows ==
  ASSUME NEW q \in Seq(BOOLEAN), NEW b \in BOOLEAN
  PROVE  /\ Append(q, b) \in Seq(BOOLEAN) /\ Len(Append(q, b)) = Len(q) + 1 /\ Append(q, b) # <<>>
         /\ Len(q) <= 1 => \A k \in DOMAIN q : [q EXCEPT ![k] = b] = <<b>>
<1>1. Append(q, b) \in Seq(BOOLEAN) /\ Len(Append(q, b)) = Len(q) + 1 /\ Len(q) \in Nat
  OBVIOUS
<1>2. Append(q, b) # <<>>
  <2>1. Len(Append(q, b)) # Len(<<>>)
    BY <1>1
  <2> QED
    BY <2>1, Zenon
<1>4. ASSUME Len(q) <= 1, NEW k \in DOMAIN q
      PROVE  [q EXCEPT ![k] = b] = <<b>>
  <2>1. k = 1 /\ Len(q) = 1
    <3> DEFINE n == Len(q)
    <3>1. n \in Nat /\ k \in 1 .. n /\ n <= 1
      BY <1>1, <1>4, LenProperties
    <3> HIDE DEF n
    <3>2. k = 1 /\ n = 1
      BY <3>1
    <3> QED
      BY <3>2 DEF n
  <2> DEFINE r == [q EXCEPT ![k] = b]
  <2>2. r \in Seq(BOOLEAN) /\ Len(r) = 1 /\ r[1] = b
    BY <2>1
  <2>3. <<b>> \in Seq(BOOLEAN) /\ Len(<<b>>) = 1 /\ <<b>>[1] = b
    OBVIOUS
  <2> HIDE DEF r
  <2>4. \A j \in 1 .. Len(r) : r[j] = <<b>>[j]
    BY <2>2, <2>3
  <2>5. r = <<b>>
    BY <2>2, <2>3, <2>4, SeqEqual
  <2> QED
    BY <2>5 DEF r
<1> QED
  BY <1>1, <1>2, <1>4

LEMMA NoRowIsNoConsent == <<>> # <<FALSE>>
<1>1. Len(<<>>) # Len(<<FALSE>>)
  OBVIOUS
<1> QED
  BY <1>1, Zenon

LEMMA InboxInitSender == I!Init => SenderInv
BY DEF I!Init, I!Idle, SenderInv, SenderKnown, StopHeard, Known, Replied

\* A webhook that goes on or ends, when no guest, conversation or response is made.
LEMMA SenderKept ==
  ASSUME CountInv, SenderInv, NEW w \in Handlers, NEW new \in HookRow, hook' = [hook EXCEPT ![w] = new],
         UNCHANGED <<guests, convs, dropped>>, raced \subseteq raced',
         \A m \in stored' : m \in stored \/ (Says[m] = "stop" /\ SentBy[m] \notin raced' => OptedOut(SentBy[m], guests)),
         SenderKnown(new, guests', convs', raced'), StopHeard(new, guests', raced'),
         new.pc \in {"newGuest", "newConversation"} =>
           \A v \in Handlers : v # w /\ hook[v].pc = new.pc /\ I!Sender(v) = SentBy[new.todo[1]] =>
              I!Sender(v) \in raced'
  PROVE  SenderInv'
<1>1. hook'[w] = new /\ \A v \in Handlers : v # w => hook'[v] = hook[v]
  BY DEF CountInv, InboxTyped
<1>2. ASSUME NEW v \in Handlers
      PROVE  SenderKnown(hook'[v], guests', convs', raced') /\ StopHeard(hook'[v], guests', raced')
  <2>1. CASE v = w
    BY <1>1, <2>1 DEF SenderKnown, StopHeard, OptedOut
  <2>2. CASE v # w
    <3>1. hook'[v] = hook[v] /\ SenderKnown(hook[v], guests, convs, raced) /\ StopHeard(hook[v], guests, raced)
      BY <1>1, <2>2 DEF SenderInv
    <3> QED
      BY <3>1, KnowsStill
  <2> QED
    BY <2>1, <2>2
<1>3. ASSUME NEW u \in Handlers, NEW v \in Handlers, u # v, hook'[u].pc = hook'[v].pc,
             hook'[u].pc \in {"newGuest", "newConversation"}, I!Sender(u)' = I!Sender(v)'
      PROVE  I!Sender(u)' \in raced'
  <2>1. CASE u = w
    BY <1>1, <1>3, <2>1 DEF I!Sender, I!Msg
  <2>2. CASE v = w
    BY <1>1, <1>3, <2>2 DEF I!Sender, I!Msg
  <2>3. CASE u # w /\ v # w
    BY <1>1, <1>3, <2>3 DEF I!Sender, I!Msg, SenderInv
  <2> QED
    BY <2>1, <2>2, <2>3
<1>4. \A m \in stored' : Says[m] = "stop" /\ SentBy[m] \notin raced' => OptedOut(SentBy[m], guests')
  BY DEF SenderInv, OptedOut
<1> QED
  BY <1>2, <1>3, <1>4 DEF SenderInv

\* The same for a step to another point of the message.
LEMMA SenderGoesOn ==
  ASSUME CountInv, SenderInv, NEW w \in Handlers, hook[w].pc # "idle", NEW pc \in HandledAt,
         hook' = [hook EXCEPT ![w].pc = pc],
         UNCHANGED <<guests, convs, stored, dropped>>, raced \subseteq raced',
         pc = "newGuest" /\ I!Sender(w) \notin raced' => guests[I!Sender(w)] = <<>>,
         pc \in Known => guests[I!Sender(w)] # <<>>,
         pc = "newConversation" => I!Sender(w) \notin convs,
         pc \in {"reply"} \cup Replied /\ Says[I!Msg(w)] = "stop" => hook[w].pc \in {"reply"} \cup Replied,
         pc \in {"newGuest", "newConversation"} =>
           \A v \in Handlers : v # w /\ hook[v].pc = pc /\ I!Sender(v) = I!Sender(w) =>
              I!Sender(v) \in raced'
  PROVE  SenderInv'
<1> DEFINE new == [pc |-> pc, todo |-> hook[w].todo]
<1>1. new \in HookRow /\ hook' = [hook EXCEPT ![w] = new]
  BY GoesOn
<1>2. new.pc = pc /\ new.todo = hook[w].todo /\ SentBy[new.todo[1]] = I!Sender(w) /\ new.todo[1] = I!Msg(w)
  BY DEF I!Sender, I!Msg
<1> HIDE DEF new
<1>3. SenderKnown(new, guests', convs', raced')
  BY <1>2 DEF SenderKnown
<1>4. StopHeard(new, guests', raced')
  <2>1. StopHeard(hook[w], guests, raced)
    BY DEF SenderInv
  <2> QED
    BY <1>2, <2>1 DEF StopHeard, OptedOut
<1>5. \A m \in stored' : m \in stored
  OBVIOUS
<1>6. new.pc \in {"newGuest", "newConversation"} =>
        \A v \in Handlers : v # w /\ hook[v].pc = new.pc /\ I!Sender(v) = SentBy[new.todo[1]] =>
           I!Sender(v) \in raced'
  BY <1>2
<1> QED
  BY <1>1, <1>3, <1>4, <1>5, <1>6, SenderKept

\* The rows of one sender change, and its webhook goes on.
LEMMA SenderStep ==
  ASSUME CountInv, SenderInv, [I!Next]_I!vars
  PROVE  SenderInv'
<1>0. /\ {"sender", "newGuest", "conversation", "newConversation", "inbound", "consent", "reply",
          "enqueue", "store"} = HandledAt
      /\ Known = {"conversation", "newConversation", "inbound", "consent", "reply", "enqueue", "store"}
      /\ Replied = {"enqueue", "store"}
  BY DEF HandledAt, Known, Replied
<1>1. ASSUME NEW w \in Handlers, NEW new \in HookRow, hook' = [hook EXCEPT ![w] = new],
             new.pc \in {"idle", "look"}, UNCHANGED <<guests, convs, dropped, raced>>,
             \A m \in stored' : m \in stored \/ (Says[m] = "stop" /\ SentBy[m] \notin raced' => OptedOut(SentBy[m], guests))
      PROVE  SenderInv'
  <2>1. SenderKnown(new, guests', convs', raced') /\ StopHeard(new, guests', raced')
    BY <1>0, <1>1 DEF SenderKnown, StopHeard
  <2> QED
    BY <1>1, <2>1, SenderKept
<1>2. ASSUME NEW w \in Handlers, NEW batch \in Batches, I!Receive(w, batch)
      PROVE  SenderInv'
  <2>1. /\ hook' = [hook EXCEPT ![w] = [pc |-> "look", todo |-> batch]]
        /\ UNCHANGED <<guests, convs, stored, dropped, raced>>
    BY <1>2 DEF I!Receive
  <2>2. [pc |-> "look", todo |-> batch] \in HookRow
    BY MessagesAssumption DEF HookRow
  <2> QED
    BY <1>1, <2>1, <2>2
<1>3. ASSUME NEW w \in Handlers, I!LookUp(w)
      PROVE  SenderInv'
  <2>1. hook[w].pc = "look" /\ UNCHANGED <<guests, convs, stored, dropped, raced>>
    BY <1>3 DEF I!LookUp, I!At
  <2>2. CASE I!Done(w)
    <3>1. PICK new \in HookRow : hook' = [hook EXCEPT ![w] = new] /\ new.pc \in {"idle", "look"}
      BY <2>1, <2>2, IsDone
    <3> QED
      BY <1>1, <2>1, <3>1
  <2>3. CASE I!Goto(w, "sender")
    BY <1>0, <2>1, <2>3, SenderGoesOn DEF I!Goto
  <2> QED
    BY <1>3, <2>2, <2>3 DEF I!LookUp
<1>4. ASSUME NEW w \in Handlers, I!FindGuest(w)
      PROVE  SenderInv'
  <2>1. hook[w].pc = "sender" /\ UNCHANGED <<guests, convs, stored, dropped>>
    BY <1>4 DEF I!FindGuest, I!At
  <2>2. CASE guests[I!Sender(w)] # <<>>
    <3>1. hook' = [hook EXCEPT ![w].pc = "conversation"] /\ raced' = raced
      BY <1>4, <2>2 DEF I!FindGuest, I!Goto
    <3> QED
      BY <1>0, <2>1, <2>2, <3>1, SenderGoesOn
  <2>3. CASE guests[I!Sender(w)] = <<>>
    <3>1. /\ hook' = [hook EXCEPT ![w].pc = "newGuest"]
          /\ raced' = IF I!Creating(w, "newGuest") THEN raced \cup {I!Sender(w)} ELSE raced
      BY <1>4, <2>3 DEF I!FindGuest, I!Goto
    <3>2. \A v \in Handlers : v # w /\ hook[v].pc = "newGuest" /\ I!Sender(v) = I!Sender(w) =>
            I!Sender(v) \in raced'
      BY <3>1 DEF I!Creating, I!At
    <3> QED
      BY <1>0, <2>1, <2>3, <3>1, <3>2, SenderGoesOn
  <2> QED
    BY <2>2, <2>3
<1>5. ASSUME NEW w \in Handlers, I!CreateGuest(w)
      PROVE  SenderInv'
  <2> DEFINE s == I!Sender(w)
             gs == Append(guests[s], TRUE)
             new == [pc |-> "conversation", todo |-> hook[w].todo]
  <2>1. /\ hook' = [hook EXCEPT ![w].pc = "conversation"] /\ hook[w].pc = "newGuest"
        /\ guests' = [guests EXCEPT ![s] = gs]
        /\ UNCHANGED <<convs, stored, dropped, raced>>
    BY <1>5 DEF I!CreateGuest, I!At, I!Goto
  <2>2. s \in Senders /\ guests[s] \in Seq(BOOLEAN) /\ I!Msg(w) \in Messages /\ hook[w].pc # "idle"
    BY <2>1, AtMessage DEF CountInv, InboxTyped
  <2>3. gs \in Seq(BOOLEAN) /\ gs # <<>> /\ Len(gs) = Len(guests[s]) + 1
    BY <2>2, ConsentRows
  <2>4. s \notin raced => guests[s] = <<>> /\ Len(gs) = 1
    <3>1. s \notin raced => guests[s] = <<>>
      BY <2>1 DEF SenderInv, SenderKnown, I!Sender, I!Msg
    <3> QED
      BY <2>3, <3>1
  <2> HIDE DEF gs
  <2>5. guests'[s] = gs /\ \A z \in Senders : z # s => guests'[z] = guests[z]
    BY <2>1, <2>2 DEF CountInv, InboxTyped
  <2>6. hook' = [hook EXCEPT ![w] = new]
    BY <1>0, <2>1, <2>2, GoesOn
  <2>7. hook'[w] = new /\ \A v \in Handlers : v # w => hook'[v] = hook[v]
    BY <2>6 DEF CountInv, InboxTyped
  <2>8. ASSUME NEW v \in Handlers
        PROVE  SenderKnown(hook'[v], guests', convs', raced') /\ StopHeard(hook'[v], guests', raced')
    <3>1. CASE v = w
      BY <1>0, <2>3, <2>5, <2>7, <3>1 DEF SenderKnown, StopHeard, I!Sender, I!Msg
    <3>2. CASE v # w /\ hook[v].pc # "idle" /\ I!Sender(v) = s
      <4>1. hook'[v] = hook[v] /\ SenderKnown(hook[v], guests, convs, raced) /\ StopHeard(hook[v], guests, raced)
        BY <2>7, <3>2 DEF SenderInv
      <4>2. hook[v].pc = "newGuest" => s \in raced
        BY <2>1, <3>2 DEF SenderInv
      <4>3. hook[v].pc \in Known => s \in raced
        BY <2>4, <3>2, <4>1 DEF SenderKnown, I!Sender, I!Msg
      <4> QED
        BY <1>0, <2>1, <2>3, <2>5, <3>2, <4>1, <4>2, <4>3 DEF SenderKnown, StopHeard, I!Sender, I!Msg
    <3>3. CASE v # w /\ hook[v].pc # "idle" /\ I!Sender(v) # s
      <4>1. hook'[v] = hook[v] /\ SenderKnown(hook[v], guests, convs, raced) /\ StopHeard(hook[v], guests, raced) /\ I!Sender(v) \in Senders
        BY <2>7, <3>3, AtMessage DEF SenderInv, CountInv
      <4>2. guests'[I!Sender(v)] = guests[I!Sender(v)]
        BY <2>5, <3>3, <4>1
      <4>3. guests'[SentBy[hook[v].todo[1]]] = guests[SentBy[hook[v].todo[1]]] /\ convs' = convs /\ raced' = raced
        BY <2>1, <4>2 DEF I!Sender, I!Msg
      <4> QED
        BY <4>1, <4>3, KnowsStill
    <3>4. CASE v # w /\ hook[v].pc = "idle"
      BY <1>0, <2>7, <3>4 DEF SenderKnown, StopHeard
    <3> QED
      BY <3>1, <3>2, <3>3, <3>4
  <2>9. ASSUME NEW u \in Handlers, NEW v \in Handlers, u # v, hook'[u].pc = hook'[v].pc,
               hook'[u].pc \in {"newGuest", "newConversation"}, I!Sender(u)' = I!Sender(v)'
        PROVE  I!Sender(u)' \in raced'
    <3>1. u # w /\ v # w
      BY <2>7, <2>9
    <3> QED
      BY <2>1, <2>7, <2>9, <3>1 DEF I!Sender, I!Msg, SenderInv
  <2>10. \A z \in Senders \ raced' : Len(guests'[z]) <= 1
    BY <2>1, <2>4, <2>5 DEF SenderInv
  <2>11. ASSUME NEW m \in stored, Says[m] = "stop", SentBy[m] \notin raced
         PROVE  OptedOut(SentBy[m], guests')
    <3>1. SentBy[m] \in Senders /\ OptedOut(SentBy[m], guests)
      BY <2>11, MessagesAssumption DEF SenderInv, CountInv, InboxTyped
    <3>2. CASE SentBy[m] = s
      <4>1. ~ \A n \in Messages : SentBy[n] = s => Says[n] # "start"
        BY <2>4, <2>11, <3>1, <3>2, NoRowIsNoConsent DEF OptedOut
      <4> QED
        BY <3>2, <4>1 DEF OptedOut
    <3>3. CASE SentBy[m] # s
      BY <2>5, <3>1, <3>3 DEF OptedOut
    <3> QED
      BY <3>2, <3>3
  <2>12. \A m \in stored' : Says[m] = "stop" /\ SentBy[m] \notin raced' => OptedOut(SentBy[m], guests')
    BY <2>1, <2>11
  <2>13. dropped' # {} => raced' # {}
    BY <2>1 DEF SenderInv
  <2> QED
    BY <2>8, <2>9, <2>10, <2>12, <2>13 DEF SenderInv
<1>6. ASSUME NEW w \in Handlers, I!FindConversation(w)
      PROVE  SenderInv'
  <2>1. hook[w].pc = "conversation" /\ UNCHANGED <<guests, convs, stored, dropped>>
        /\ guests[I!Sender(w)] # <<>>
    BY <1>0, <1>6 DEF I!FindConversation, I!At, SenderInv, SenderKnown, I!Sender, I!Msg
  <2>2. CASE I!Sender(w) \in convs
    <3>1. hook' = [hook EXCEPT ![w].pc = "inbound"] /\ raced' = raced
      BY <1>6, <2>2 DEF I!FindConversation, I!Goto
    <3> QED
      BY <1>0, <2>1, <2>2, <3>1, SenderGoesOn
  <2>3. CASE I!Sender(w) \notin convs
    <3>1. /\ hook' = [hook EXCEPT ![w].pc = "newConversation"]
          /\ raced' = IF I!Creating(w, "newConversation") THEN raced \cup {I!Sender(w)} ELSE raced
      BY <1>6, <2>3 DEF I!FindConversation, I!Goto
    <3>2. \A v \in Handlers : v # w /\ hook[v].pc = "newConversation" /\ I!Sender(v) = I!Sender(w) =>
            I!Sender(v) \in raced'
      BY <3>1 DEF I!Creating, I!At
    <3> QED
      BY <1>0, <2>1, <2>3, <3>1, <3>2, SenderGoesOn
  <2> QED
    BY <2>2, <2>3
<1>7. ASSUME NEW w \in Handlers, I!CreateConversation(w), I!Sender(w) \in convs
      PROVE  SenderInv'
  <2>1. /\ hook' = [hook EXCEPT ![w] = I!Idle] /\ hook[w].pc = "newConversation"
        /\ UNCHANGED <<guests, convs, stored, raced>>
    BY <1>7 DEF I!CreateConversation, I!At, I!Abandon
  <2>2. raced # {}
    BY <1>7, <2>1 DEF SenderInv, SenderKnown, I!Sender, I!Msg
  <2>3. hook'[w] = I!Idle /\ \A v \in Handlers : v # w => hook'[v] = hook[v]
    BY <2>1 DEF CountInv, InboxTyped
  <2>4. SenderKnown(I!Idle, guests', convs', raced') /\ StopHeard(I!Idle, guests', raced')
    BY <1>0, IdleHook DEF SenderKnown, StopHeard
  <2>5. ASSUME NEW v \in Handlers
        PROVE  SenderKnown(hook'[v], guests', convs', raced') /\ StopHeard(hook'[v], guests', raced')
    <3>1. CASE v = w
      BY <2>3, <2>4, <3>1
    <3>2. CASE v # w
      <4>1. hook'[v] = hook[v] /\ SenderKnown(hook[v], guests, convs, raced) /\ StopHeard(hook[v], guests, raced)
        BY <2>3, <3>2 DEF SenderInv
      <4> QED
        BY <2>1, <4>1, KnowsStill
    <3> QED
      BY <3>1, <3>2
  <2>6. ASSUME NEW u \in Handlers, NEW v \in Handlers, u # v, hook'[u].pc = hook'[v].pc,
               hook'[u].pc \in {"newGuest", "newConversation"}, I!Sender(u)' = I!Sender(v)'
        PROVE  I!Sender(u)' \in raced'
    BY <2>1, <2>3, <2>6, IdleHook DEF I!Sender, I!Msg, SenderInv
  <2> QED
    BY <2>1, <2>2, <2>5, <2>6 DEF SenderInv, OptedOut
<1>8. ASSUME NEW w \in Handlers, I!CreateConversation(w), I!Sender(w) \notin convs
      PROVE  SenderInv'
  <2> DEFINE s == I!Sender(w)
             new == [pc |-> "inbound", todo |-> hook[w].todo]
  <2>1. /\ hook' = [hook EXCEPT ![w].pc = "inbound"] /\ hook[w].pc = "newConversation"
        /\ convs' = convs \cup {s}
        /\ UNCHANGED <<guests, stored, dropped, raced>>
    BY <1>8 DEF I!CreateConversation, I!At, I!Goto
  <2>2. hook' = [hook EXCEPT ![w] = new]
    BY <1>0, <2>1, GoesOn
  <2>3. hook'[w] = new /\ \A v \in Handlers : v # w => hook'[v] = hook[v]
    BY <2>2 DEF CountInv, InboxTyped
  <2>4. guests[s] # <<>>
    BY <1>0, <2>1 DEF SenderInv, SenderKnown, I!Sender, I!Msg
  <2>5. ASSUME NEW v \in Handlers
        PROVE  SenderKnown(hook'[v], guests', convs', raced') /\ StopHeard(hook'[v], guests', raced')
    <3>1. CASE v = w
      BY <1>0, <2>1, <2>3, <2>4, <3>1 DEF SenderKnown, StopHeard, I!Sender, I!Msg
    <3>2. CASE v # w
      <4>1. hook'[v] = hook[v] /\ SenderKnown(hook[v], guests, convs, raced) /\ StopHeard(hook[v], guests, raced)
        BY <2>3, <3>2 DEF SenderInv
      <4>2. hook[v].pc = "newConversation" /\ I!Sender(v) = s => s \in raced
        BY <2>1, <3>2 DEF SenderInv
      <4>3. /\ guests'[SentBy[hook[v].todo[1]]] = guests[SentBy[hook[v].todo[1]]] /\ raced \subseteq raced'
            /\ hook[v].pc = "newConversation" /\ SentBy[hook[v].todo[1]] \in convs' =>
                 SentBy[hook[v].todo[1]] \in convs \/ SentBy[hook[v].todo[1]] \in raced'
        BY <2>1, <4>2 DEF I!Sender, I!Msg
      <4> QED
        BY <4>1, <4>3, KnowsStill, ZenonT(40)
    <3> QED
      BY <3>1, <3>2
  <2>6. ASSUME NEW u \in Handlers, NEW v \in Handlers, u # v, hook'[u].pc = hook'[v].pc,
               hook'[u].pc \in {"newGuest", "newConversation"}, I!Sender(u)' = I!Sender(v)'
        PROVE  I!Sender(u)' \in raced'
    <3>1. u # w /\ v # w
      BY <2>3, <2>6
    <3> QED
      BY <2>1, <2>3, <2>6, <3>1 DEF I!Sender, I!Msg, SenderInv
  <2> QED
    BY <2>1, <2>5, <2>6 DEF SenderInv, OptedOut
<1>9. ASSUME NEW w \in Handlers, I!RecordInbound(w)
      PROVE  SenderInv'
  <2>1. /\ hook[w].pc = "inbound" /\ UNCHANGED <<guests, convs, stored, dropped, raced>>
        /\ guests[I!Sender(w)] # <<>>
    BY <1>0, <1>9 DEF I!RecordInbound, I!At, SenderInv, SenderKnown, I!Sender, I!Msg
  <2>2. CASE Says[I!Msg(w)] = "other"
    <3>1. hook' = [hook EXCEPT ![w].pc = "reply"]
      BY <1>9, <2>2 DEF I!RecordInbound, I!Goto
    <3> QED
      BY <1>0, <2>1, <2>2, <3>1, SenderGoesOn
  <2>3. CASE Says[I!Msg(w)] # "other"
    <3>1. hook' = [hook EXCEPT ![w].pc = "consent"]
      BY <1>9, <2>3 DEF I!RecordInbound, I!Goto
    <3> QED
      BY <1>0, <2>1, <3>1, SenderGoesOn
  <2> QED
    BY <2>2, <2>3
<1>10. ASSUME NEW w \in Handlers, I!RecordOutbound(w) \/ I!EnqueueText(w)
       PROVE  SenderInv'
  <2>1. PICK pc \in {"enqueue", "store"} : hook' = [hook EXCEPT ![w].pc = pc]
    BY <1>10 DEF I!RecordOutbound, I!EnqueueText, I!Goto
  <2>2. /\ hook[w].pc \in {"reply", "enqueue"} /\ UNCHANGED <<guests, convs, stored, dropped, raced>>
        /\ guests[I!Sender(w)] # <<>>
    BY <1>0, <1>10 DEF I!RecordOutbound, I!EnqueueText, I!At, SenderInv, SenderKnown, I!Sender, I!Msg
  <2> QED
    BY <1>0, <2>1, <2>2, SenderGoesOn
<1>11. ASSUME NEW w \in Handlers, I!Store(w)
       PROVE  SenderInv'
  <2>1. hook[w].pc = "store" /\ stored' = stored \cup {I!Msg(w)} /\ UNCHANGED <<guests, convs, dropped, raced>>
    BY <1>11 DEF I!Store, I!At
  <2>2. PICK new \in HookRow : hook' = [hook EXCEPT ![w] = new] /\ new.pc \in {"idle", "look"}
    BY <1>11, <2>1, IsDone DEF I!Store
  <2>3. Says[I!Msg(w)] = "stop" /\ SentBy[I!Msg(w)] \notin raced => OptedOut(SentBy[I!Msg(w)], guests)
    BY <1>0, <2>1 DEF SenderInv, StopHeard, I!Msg
  <2> QED
    BY <1>1, <2>1, <2>2, <2>3
<1>12. ASSUME NEW w \in Handlers, I!Fail(w)
       PROVE  SenderInv'
  <2>1. hook' = [hook EXCEPT ![w] = I!Idle] /\ UNCHANGED <<guests, convs, stored, dropped, raced>>
    BY <1>12 DEF I!Fail, I!Abandon
  <2> QED
    BY <1>1, <2>1, IdleHook
<1>13. CASE UNCHANGED I!vars
  BY <1>13 DEF I!vars, SenderInv, SenderKnown, StopHeard, OptedOut, I!Sender, I!Msg
<1>14. ASSUME NEW w \in Handlers, I!SetConsent(w)
       PROVE  SenderInv'
  <2> DEFINE s == I!Sender(w)
             b == (Says[I!Msg(w)] = "start")
             new == [pc |-> "reply", todo |-> hook[w].todo]
  <2>1. PICK k \in DOMAIN guests[s] : guests' = [guests EXCEPT ![s][k] = b]
    BY <1>14 DEF I!SetConsent
  <2>2. /\ hook' = [hook EXCEPT ![w].pc = "reply"] /\ hook[w].pc = "consent"
        /\ UNCHANGED <<convs, stored, dropped, raced>>
    BY <1>14 DEF I!SetConsent, I!At, I!Goto
  <2>3. s \in Senders /\ guests[s] \in Seq(BOOLEAN) /\ I!Msg(w) \in Messages /\ hook[w].pc # "idle"
        /\ SentBy[I!Msg(w)] = s
    BY <2>2, AtMessage DEF CountInv, InboxTyped, I!Sender
  <2> DEFINE gs == [guests[s] EXCEPT ![k] = b]
  <2>4. gs \in Seq(BOOLEAN) /\ Len(gs) = Len(guests[s]) /\ gs # <<>>
    <3> HIDE DEF b
    <3>1. b \in BOOLEAN
      BY DEF b
    <3>2. gs \in Seq(BOOLEAN) /\ Len(gs) = Len(guests[s])
      BY <2>3, <3>1
    <3>3. k \in DOMAIN gs /\ k \notin DOMAIN <<>>
      OBVIOUS
    <3>4. gs # <<>>
      BY <3>3, Zenon
    <3> QED
      BY <3>2, <3>4
  <2>5. guests' = [guests EXCEPT ![s] = gs]
    BY <2>1
  <2>6. s \notin raced /\ ~ b => gs = <<FALSE>>
    <3> SUFFICES ASSUME s \notin raced, ~ b PROVE gs = <<FALSE>>
      OBVIOUS
    <3>1. Len(guests[s]) <= 1
      BY <2>3 DEF SenderInv
    <3>2. b = FALSE
      OBVIOUS
    <3> HIDE DEF b
    <3>3. gs = <<b>>
      BY <2>1, <2>3, <3>1, <3>2, ConsentRows
    <3> QED
      BY <3>2, <3>3, Zenon
  <2> HIDE DEF gs
  <2>7. guests'[s] = gs /\ \A z \in Senders : z # s => guests'[z] = guests[z]
    BY <2>3, <2>5 DEF CountInv, InboxTyped
  <2>8. s \notin raced => OptedOut(s, guests')
    BY <2>3, <2>6, <2>7 DEF OptedOut
  <2>9. hook' = [hook EXCEPT ![w] = new]
    BY <1>0, <2>2, <2>3, GoesOn
  <2>10. hook'[w] = new /\ \A v \in Handlers : v # w => hook'[v] = hook[v]
    BY <2>9 DEF CountInv, InboxTyped
  <2>11. ASSUME NEW v \in Handlers
         PROVE  SenderKnown(hook'[v], guests', convs', raced') /\ StopHeard(hook'[v], guests', raced')
    <3>1. CASE v = w
      BY <1>0, <2>2, <2>4, <2>7, <2>8, <2>10, <3>1 DEF SenderKnown, StopHeard, I!Sender, I!Msg
    <3>2. CASE v # w /\ hook[v].pc # "idle" /\ I!Sender(v) = s
      <4>1. hook'[v] = hook[v] /\ SenderKnown(hook[v], guests, convs, raced)
        BY <2>10, <3>2 DEF SenderInv
      <4>2. SenderKnown(hook[w], guests, convs, raced)
        BY DEF SenderInv
      <4>3. guests[s] # <<>>
        BY <1>0, <2>2, <4>2 DEF SenderKnown, I!Sender, I!Msg
      <4> QED
        BY <1>0, <2>2, <2>4, <2>7, <2>8, <3>2, <4>1, <4>3 DEF SenderKnown, StopHeard, I!Sender, I!Msg
    <3>3. CASE v # w /\ hook[v].pc # "idle" /\ I!Sender(v) # s
      <4>1. hook'[v] = hook[v] /\ SenderKnown(hook[v], guests, convs, raced) /\ StopHeard(hook[v], guests, raced) /\ I!Sender(v) \in Senders
        BY <2>10, <3>3, AtMessage DEF SenderInv, CountInv
      <4>2. guests'[I!Sender(v)] = guests[I!Sender(v)]
        BY <2>7, <3>3, <4>1
      <4> QED
        BY <2>2, <4>1, <4>2, KnowsStill DEF I!Sender, I!Msg
    <3>4. CASE v # w /\ hook[v].pc = "idle"
      BY <1>0, <2>10, <3>4 DEF SenderKnown, StopHeard
    <3> QED
      BY <3>1, <3>2, <3>3, <3>4
  <2>12. ASSUME NEW u \in Handlers, NEW v \in Handlers, u # v, hook'[u].pc = hook'[v].pc,
                hook'[u].pc \in {"newGuest", "newConversation"}, I!Sender(u)' = I!Sender(v)'
         PROVE  I!Sender(u)' \in raced'
    <3>1. u # w /\ v # w
      BY <2>10, <2>12
    <3> QED
      BY <2>2, <2>10, <2>12, <3>1 DEF I!Sender, I!Msg, SenderInv
  <2>13. \A z \in Senders \ raced' : Len(guests'[z]) <= 1
    BY <2>2, <2>4, <2>7 DEF SenderInv
  <2>14. ASSUME NEW m \in stored, Says[m] = "stop", SentBy[m] \notin raced
         PROVE  OptedOut(SentBy[m], guests')
    <3>1. SentBy[m] \in Senders /\ OptedOut(SentBy[m], guests)
      BY <2>14, MessagesAssumption DEF SenderInv, CountInv, InboxTyped
    <3>2. CASE SentBy[m] = s
      BY <2>8, <2>14, <3>2 DEF OptedOut
    <3>3. CASE SentBy[m] # s
      BY <2>7, <3>1, <3>3 DEF OptedOut
    <3> QED
      BY <3>2, <3>3
  <2>15. \A m \in stored' : Says[m] = "stop" /\ SentBy[m] \notin raced' => OptedOut(SentBy[m], guests')
    BY <2>2, <2>14
  <2>16. dropped' # {} => raced' # {}
    BY <2>2 DEF SenderInv
  <2> QED
    BY <2>11, <2>12, <2>13, <2>15, <2>16 DEF SenderInv
<1> QED
  BY <1>2, <1>3, <1>4, <1>5, <1>6, <1>7, <1>8, <1>9, <1>10, <1>11, <1>12, <1>13, <1>14 DEF I!Next

\* The invariant, in every state of the back office.
LEMMA InboxInvHolds == BackOfficeSpec => [](CountInv /\ SenderInv)
<1>1. BackOfficeInit => CountInv /\ SenderInv
  BY InboxInitCount, InboxInitSender DEF BackOfficeInit
<1>2. CountInv /\ SenderInv /\ [BackOfficeNext]_officeVars => (CountInv /\ SenderInv)'
  BY CountStep, SenderStep, InboxMoves
<1> QED
  BY <1>1, <1>2, PTL DEF BackOfficeSpec

\* A message delivered several times is recorded and answered once, and a sender who
\* asked to stop is opted out: the WhatsApp webhook, for any batches, deliveries and
\* senders.
THEOREM MessagesAreHandledOnce == BackOfficeSpec => []HandledOnce
<1>1. CountInv /\ SenderInv => HandledOnce
  <2> SUFFICES ASSUME CountInv, SenderInv PROVE I!HandledOnce
    BY DEF HandledOnce
  <2>1. ASSUME NEW m \in asked \ (exposed \cup dropped \cup I!Underway)
        PROVE  inbound[m] = 1 /\ outbound[m] = 1 /\ queued[m] = 1
    <3>1. m \in Messages /\ m \in stored
      BY DEF CountInv, InboxTyped
    <3> QED
      BY <3>1 DEF CountInv, CountedOf
  <2>2. ASSUME NEW s \in Senders \ raced, NEW m \in stored, SentBy[m] = s, Says[m] = "stop",
               \A n \in Messages : SentBy[n] = s => Says[n] # "start"
        PROVE  guests[s] = <<FALSE>>
    BY <2>2 DEF SenderInv, OptedOut
  <2> QED
    BY <2>1, <2>2 DEF I!HandledOnce, SenderInv
<1> QED
  BY <1>1, InboxInvHolds, PTL

-----------------------------------------------------------------------------
(* The types of every part.                                                *)

LEMMA TurnoverMoves ==
  ASSUME [BackOfficeNext]_officeVars
  PROVE  [Next]_vars
<1>1. CASE TurnoverStep
  BY <1>1 DEF TurnoverStep
<1> QED
  BY <1>1 DEF BackOfficeNext, officeVars, turnover, PreventiveStep, StockStep, DistributionStep,
     InboxStep, CityLedgerStep, LoyaltyStep, StaffingStep, PricingStep, AttendanceStep, CampaignsStep

LEMMA PartIsOne ==
  BackOfficeSpec => [](part \in {"turnover", "preventive", "stock", "distribution", "inbox", "cityLedger",
                                 "loyalty", "staffing", "pricing", "attendance", "campaigns"})
<1> DEFINE OneOfThem == part \in {"turnover", "preventive", "stock", "distribution", "inbox", "cityLedger",
                                  "loyalty", "staffing", "pricing", "attendance", "campaigns"}
<1>1. BackOfficeInit => OneOfThem
  BY DEF BackOfficeInit
<1>2. OneOfThem /\ [BackOfficeNext]_officeVars => OneOfThem'
  BY DEF BackOfficeNext, officeVars, TurnoverStep, PreventiveStep, StockStep, DistributionStep,
     InboxStep, CityLedgerStep, LoyaltyStep, StaffingStep, PricingStep, AttendanceStep, CampaignsStep
<1> QED
  BY <1>1, <1>2, PTL DEF BackOfficeSpec

LEMMA InboxTypes == CountInv => I!TypeOK
<1> SUFFICES ASSUME CountInv PROVE I!TypeOK
  OBVIOUS
<1>1. InboxTyped
  BY DEF CountInv
<1>2. ASSUME NEW s \in Senders, NEW k \in DOMAIN guests[s]
      PROVE  guests[s][k] \in BOOLEAN
  <2>1. guests[s] \in Seq(BOOLEAN)
    BY <1>1 DEF InboxTyped
  <2> HIDE DEF InboxTyped
  <2> QED
    BY <2>1
<1>3. ASSUME NEW w \in Handlers
      PROVE  I!InBatch(hook[w].todo) \subseteq Messages
  <2>1. hook[w] \in HookRow
    BY <1>1 DEF InboxTyped
  <2>2. hook[w].todo = <<>> \/ hook[w].todo \in Seq(Messages)
    BY <2>1 DEF HookRow, I!Idle
  <2>3. \A k \in DOMAIN hook[w].todo : hook[w].todo[k] \in Messages
    BY <2>2
  <2> QED
    BY <2>3 DEF I!InBatch
<1> QED
  BY <1>1, <1>2, <1>3 DEF I!TypeOK, InboxTyped

LEMMA StockTypes == StockInv => S!TypeOK
<1> SUFFICES ASSUME StockInv PROVE S!TypeOK
  OBVIOUS
<1>1. StockTyped
  BY DEF StockInv
<1>2. ASSUME NEW c \in Handlers, NEW k \in DOMAIN clerk[c].todo
      PROVE  clerk[c].todo[k].item \in Items
  <2>1. clerk[c].todo \in Seq(StockMovements)
    BY <1>1 DEF StockTyped, ClerkRows
  <2>2. clerk[c].todo[k] \in StockMovements
    BY <1>2, <2>1
  <2> QED
    BY <2>2 DEF StockMovements
<1> QED
  BY <1>1, <1>2 DEF S!TypeOK, StockTyped, ClerkRows

LEMMA CityLedgerTypes == InvoiceInv => C!TypeOK
  BY DEF InvoiceInv, C!TypeOK, C!None, C!Idle, InvoiceRow, Drafting

LEMMA PricingTypes == PricingInv => P!TypeOK
  BY DEF PricingInv, PricingTyped, P!TypeOK, RateRow, SuggestionRow, DeskRow

LEMMA DistributionTypes == IngestInv /\ HistoriesTyped => D!TypeOK
  BY DEF IngestInv, DeliveriesTyped, InFlight, HistoriesTyped, D!TypeOK

\* The rows, the locals and the histories of whichever part moves keep their types, for
\* every value of the constants.
THEOREM RowsStayTyped == BackOfficeSpec => []RowsTyped
<1>1. BackOfficeSpec => []TypeOK
  <2>1. BackOfficeInit => Init
    BY DEF BackOfficeInit
  <2>2. TypeOK /\ [BackOfficeNext]_officeVars => TypeOK'
    BY TypeStep, TurnoverMoves
  <2> QED
    BY <2>1, <2>2, TypeInit, PTL DEF BackOfficeSpec
<1>2. MaintenanceInv => M!TypeOK
  BY DEF MaintenanceInv
<1>3. LoyaltyInv => L!TypeOK
  BY DEF LoyaltyInv, LoyaltyTyped
<1>4. ShiftInv => F!TypeOK
  BY DEF ShiftInv, ShiftsTyped
<1>5. AttendanceInv => W!TypeOK
  BY DEF AttendanceInv
<1>6. CampaignInv => A!TypeOK
  BY DEF CampaignInv
<1>7. part \in {"turnover", "preventive", "stock", "distribution", "inbox", "cityLedger",
                "loyalty", "staffing", "pricing", "attendance", "campaigns"}
      /\ TypeOK /\ M!TypeOK /\ S!TypeOK /\ D!TypeOK /\ I!TypeOK /\ C!TypeOK /\ L!TypeOK /\ F!TypeOK
      /\ P!TypeOK /\ W!TypeOK /\ A!TypeOK => RowsTyped
  BY DEF RowsTyped
<1> QED
  BY <1>1, <1>2, <1>3, <1>4, <1>5, <1>6, <1>7, PartIsOne, InboxTypes, StockTypes, CityLedgerTypes, PricingTypes,
     DistributionTypes, MaintenanceInvHolds, LoyaltyInvHolds, ShiftInvHolds, AttendanceInvHolds,
     CampaignInvHolds, InboxInvHolds, StockInvHolds, InvoiceInvHolds, PricingInvHolds, IngestInvHolds, PTL

=============================================================================
