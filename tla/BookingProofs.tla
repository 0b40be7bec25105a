--------------------------- MODULE BookingProofs ---------------------------
(***************************************************************************)
(* Proofs about Booking for every set of rooms, reservations and handlers. *)
(*                                                                         *)
(* The invariant has three parts: the type of the state; what the locals   *)
(* of a handler in flight still guarantee when its transaction runs (the   *)
(* row it read exists, its dates form a stay, its room is a room), which   *)
(* is all that survives of the guard it evaluated; and NoOverlap, the      *)
(* exclusion constraint over the whole table.  A serial system (MaxBusy is *)
(* one) keeps more: what a handler read is still so when it commits.       *)
(***************************************************************************)
EXTENDS Booking, FiniteSetTheorems, TLAPS

Writers == {"modify", "cancel", "checkIn", "checkOut", "confirm", "sweepCancel"}

\* What the locals of a handler in flight refer to.
LocalsOK(me) ==
    /\ me.pc \in Writers => me.id \in Used
    /\ me.pc \in {"create", "modify"} => me.stay \in Stays
    /\ me.pc \in {"modify", "checkIn", "checkOut", "setRoom"} => me.room \in Rooms
    /\ me.pc = "audit" => me.day < Horizon
    /\ me.ids \subseteq Used

\* The exclusion constraint, over every pair of rows.
NoOverlap == \A i, j \in Ids : i # j => ~ Excludes(res[i], res[j])

TypeInv == TypeOK /\ \A s \in Sessions : LocalsOK(sess[s])

-----------------------------------------------------------------------------

\* An idle handler is well typed and refers to nothing.
LEMMA IdleTyped == Idle \in Session /\ LocalsOK(Idle)
  BY TimeAssumption DEF Idle, Session, PCs, Days, Holds, RoomStatuses, LocalsOK, Writers

\* A row the constraint admits can be written: the table keeps NoOverlap.
LEMMA WriteKeepsNoOverlap ==
  ASSUME NEW i \in Ids, NEW row, NoOverlap, Admits(i, row), res \in [Ids -> Row \cup {NoRow}],
         res' = [res EXCEPT ![i] = row]
  PROVE  NoOverlap'
<1> SUFFICES ASSUME NEW a \in Ids, NEW b \in Ids, a # b
             PROVE  ~ Excludes(res'[a], res'[b])
  BY DEF NoOverlap
<1>1. CASE a = i
  BY <1>1 DEF Admits
<1>2. CASE b = i
  <2>1. ~ Excludes(row, res[a])
    BY <1>2 DEF Admits
  <2> QED
    BY <1>2, <2>1 DEF Excludes
<1>3. CASE a # i /\ b # i
  BY <1>3 DEF NoOverlap
<1> QED
  BY <1>1, <1>2, <1>3

-----------------------------------------------------------------------------
(* The type invariant.                                                     *)

\* The empty hotel, with no handler in flight, is well typed.
THEOREM TypeInit == Init => TypeInv
  BY IdleTyped, TimeAssumption DEF Init, TypeInv, TypeOK, RoomStatuses, Days

\* A handler goes to locals that are well typed; nothing else is written.
LEMMA GotoKeepsType ==
  ASSUME NEW s \in Sessions, NEW locals, TypeInv, locals \in Session, LocalsOK(locals),
         Goto(s, locals), UNCHANGED <<res, roomStatus, day>>
  PROVE  TypeInv'
<1>1. sess' \in [Sessions -> Session]
  BY DEF Goto, TypeInv, TypeOK
<1>2. \A t \in Sessions : LocalsOK(sess[t]) => LocalsOK(sess[t])'
  <2>1. \A t \in Sessions : t # s => sess'[t] = sess[t]
    BY DEF Goto, TypeInv, TypeOK
  <2>2. sess'[s] = locals
    BY DEF Goto, TypeInv, TypeOK
  <2> QED
    BY <2>1, <2>2 DEF LocalsOK, Used, Unused
<1> QED
  BY <1>1, <1>2 DEF TypeInv, TypeOK

\* A handler that leaves the reservations alone moves a room or the date.
LEMMA RollKeepsType ==
  ASSUME NEW s \in Sessions, TypeInv, Goto(s, Idle), UNCHANGED res,
         roomStatus' \in [Rooms -> RoomStatuses], day' \in Days
  PROVE  TypeInv'
<1>1. sess' \in [Sessions -> Session]
  BY IdleTyped DEF Goto, TypeInv, TypeOK
<1>2. \A t \in Sessions : sess'[t] = sess[t] \/ sess'[t] = Idle
  BY DEF Goto, TypeInv, TypeOK
<1>3. \A t \in Sessions : LocalsOK(sess[t])'
  BY <1>2, IdleTyped DEF LocalsOK, TypeInv, Used, Unused
<1> QED
  BY <1>1, <1>3 DEF TypeInv, TypeOK

\* A handler commits a row in a place that exists or is free, and goes on.
LEMMA CommitKeepsType ==
  ASSUME NEW s \in Sessions, NEW locals, TypeInv, locals \in Session, LocalsOK(locals),
         Goto(s, locals), NEW i \in Ids, NEW row \in Row,
         \/ res' = [res EXCEPT ![i] = row]
         \/ res' = res,
         roomStatus' \in [Rooms -> RoomStatuses], day' \in Days
  PROVE  TypeInv'
<1>1. sess' \in [Sessions -> Session] /\ res' \in [Ids -> Row \cup {NoRow}]
  BY DEF Goto, TypeInv, TypeOK
<1>2. row # NoRow
  BY DEF Row, NoRow, Statuses
<1>3. Used \subseteq Used'
  BY <1>2 DEF Used, Unused, TypeInv, TypeOK
<1>4. \A t \in Sessions : t # s => sess'[t] = sess[t]
  BY DEF Goto, TypeInv, TypeOK
<1>5. sess'[s] = locals
  BY DEF Goto, TypeInv, TypeOK
<1>6. \A t \in Sessions : LocalsOK(sess[t])'
  BY <1>3, <1>4, <1>5 DEF LocalsOK, TypeInv
<1> QED
  BY <1>1, <1>6 DEF TypeInv, TypeOK

\* The rows in use are rows of the table.
LEMMA UsedRows == ASSUME TypeInv, NEW i \in Used PROVE i \in Ids /\ res[i] \in Row
  BY DEF TypeInv, TypeOK, Used, Unused

\* Starting a request: its locals come from rows and inputs that are well typed.
LEMMA StartKeepsType ==
  ASSUME TypeInv, NEW s \in Requests, Start(s)
  PROVE  TypeInv'
<1> USE DEF Session, PCs, Idle, LocalsOK, Writers, Holds, RoomStatuses
<1>0. s \in Sessions /\ IdsAssumption /\ RoomsAssumption /\ 0 \in Days
  BY IdsAssumption, RoomsAssumption, TimeAssumption
     DEF Sessions, IdsAssumption, RoomsAssumption, Days
<1>1. CASE CreateStart(s)
  <2>1. PICK stay \in Stays, hold \in {"none", "live"} :
        \E rooms \in {{r} : r \in Rooms} \cup {Available(stay)} :
          Goto(s, [Idle EXCEPT !.pc = "create", !.stay = stay, !.hold = hold, !.rooms = rooms])
    BY <1>1 DEF CreateStart
  <2>2. PICK rooms \in {{r} : r \in Rooms} \cup {Available(stay)} :
          Goto(s, [Idle EXCEPT !.pc = "create", !.stay = stay, !.hold = hold, !.rooms = rooms])
    BY <2>1
  <2>3. rooms \subseteq Rooms /\ stay \in [in : Days, out : Days]
    BY <2>2 DEF Available, Stays
  <2> DEFINE locals == [Idle EXCEPT !.pc = "create", !.stay = stay, !.hold = hold, !.rooms = rooms]
  <2>4. locals \in Session /\ LocalsOK(locals)
    BY <1>0, <2>3 DEF Stays
  <2> QED
    BY <1>0, <1>1, <2>2, <2>4, GotoKeepsType DEF CreateStart
<1>2. CASE ModifyStart(s)
  <2>1. PICK i \in Used, stay \in Stays, room \in Rooms :
          Goto(s, [Idle EXCEPT !.pc = "modify", !.id = i, !.stay = stay, !.room = room])
    BY <1>2 DEF ModifyStart
  <2> DEFINE locals == [Idle EXCEPT !.pc = "modify", !.id = i, !.stay = stay, !.room = room]
  <2>2. locals \in Session /\ LocalsOK(locals)
    BY <1>0, UsedRows DEF Stays, IdsAssumption, RoomsAssumption
  <2> QED
    BY <1>0, <1>2, <2>1, <2>2, GotoKeepsType DEF ModifyStart
<1>3. CASE CancelStart(s)
  <2>1. PICK i \in Used : Goto(s, [Idle EXCEPT !.pc = "cancel", !.id = i])
    BY <1>3 DEF CancelStart
  <2> DEFINE locals == [Idle EXCEPT !.pc = "cancel", !.id = i]
  <2>2. locals \in Session /\ LocalsOK(locals)
    BY <1>0, UsedRows DEF IdsAssumption
  <2> QED
    BY <1>0, <1>3, <2>1, <2>2, GotoKeepsType DEF CancelStart
<1>4. CASE CheckInStart(s)
  <2>1. PICK i \in Used, room \in Rooms :
          Goto(s, [Idle EXCEPT !.pc = "checkIn", !.id = i, !.room = room])
    BY <1>4 DEF CheckInStart
  <2> DEFINE locals == [Idle EXCEPT !.pc = "checkIn", !.id = i, !.room = room]
  <2>2. locals \in Session /\ LocalsOK(locals)
    BY <1>0, UsedRows DEF IdsAssumption, RoomsAssumption
  <2> QED
    BY <1>0, <1>4, <2>1, <2>2, GotoKeepsType DEF CheckInStart
<1>5. CASE CheckOutStart(s)
  <2>1. PICK i \in Used : Goto(s, [Idle EXCEPT !.pc = "checkOut", !.id = i, !.room = res[i].room])
    BY <1>5 DEF CheckOutStart
  <2>2. res[i].room \in Rooms
    BY UsedRows DEF Row
  <2> DEFINE locals == [Idle EXCEPT !.pc = "checkOut", !.id = i, !.room = res[i].room]
  <2>3. locals \in Session /\ LocalsOK(locals)
    BY <1>0, <2>2, UsedRows DEF IdsAssumption, RoomsAssumption
  <2> QED
    BY <1>0, <1>5, <2>1, <2>3, GotoKeepsType DEF CheckOutStart
<1>6. CASE ConfirmStart(s)
  <2>1. PICK i \in Used : Goto(s, [Idle EXCEPT !.pc = "confirm", !.id = i])
    BY <1>6 DEF ConfirmStart
  <2> DEFINE locals == [Idle EXCEPT !.pc = "confirm", !.id = i]
  <2>2. locals \in Session /\ LocalsOK(locals)
    BY <1>0, UsedRows DEF IdsAssumption
  <2> QED
    BY <1>0, <1>6, <2>1, <2>2, GotoKeepsType DEF ConfirmStart
<1>7. CASE AuditStart(s)
  <2> DEFINE locals == [Idle EXCEPT !.pc = "audit", !.ids = Arrivals(day), !.day = day]
  <2>1. Arrivals(day) \subseteq Used
    BY DEF Arrivals, Used, Unused, NoRow
  <2>2. locals \in Session /\ LocalsOK(locals)
    BY <1>0, <1>7, <2>1 DEF AuditStart, TypeInv, TypeOK, Used
  <2> QED
    BY <1>0, <1>7, <2>2, GotoKeepsType DEF AuditStart
<1>8. CASE SetRoomStart(s)
  <2>1. PICK r \in Rooms, st \in ManualStatuses :
          Goto(s, [Idle EXCEPT !.pc = "setRoom", !.room = r, !.status = st])
    BY <1>8 DEF SetRoomStart
  <2> DEFINE locals == [Idle EXCEPT !.pc = "setRoom", !.room = r, !.status = st]
  <2>2. locals \in Session /\ LocalsOK(locals)
    BY <1>0, StatusAssumption DEF RoomsAssumption
  <2> QED
    BY <1>0, <1>8, <2>1, <2>2, GotoKeepsType DEF SetRoomStart
<1> QED
  BY <1>1, <1>2, <1>3, <1>4, <1>5, <1>6, <1>7, <1>8 DEF Start

\* The row a handler writes over a row in use is a row.
LEMMA UpdatedRows ==
  ASSUME TypeInv, NEW i \in Used
  PROVE  /\ \A st \in Statuses : [res[i] EXCEPT !.status = st] \in Row
         /\ \A stay \in Stays, room \in Rooms : [res[i] EXCEPT !.stay = stay, !.room = room] \in Row
         /\ \A st \in Statuses, room \in Rooms : [res[i] EXCEPT !.status = st, !.room = room] \in Row
         /\ \A st \in Statuses, h \in Holds : [res[i] EXCEPT !.status = st, !.hold = h] \in Row
         /\ \A h \in Holds : [res[i] EXCEPT !.hold = h] \in Row
  BY UsedRows DEF Row

\* A transaction of a request: what its locals refer to is still there.
LEMMA StepKeepsType ==
  ASSUME TypeInv, NEW s \in Requests, Step(s)
  PROVE  TypeInv'
<1> DEFINE me == sess[s]
<1>0. /\ s \in Sessions /\ me \in Session /\ LocalsOK(me)
      /\ roomStatus \in [Rooms -> RoomStatuses] /\ day \in Days
      /\ Used \subseteq Ids
  BY DEF Sessions, TypeInv, TypeOK, Used
<1> USE <1>0, IdleTyped
<1>1. CASE CreateTry(s)
  <2>1. PICK room \in me.rooms, i \in Unused :
          /\ me.pc = "create"
          /\ \/ /\ res' = [res EXCEPT ![i] = NewRow(me, room)]
                /\ Finish(s)
             \/ /\ \/ Finish(s)
                   \/ Goto(s, [me EXCEPT !.rooms = me.rooms \ {room}])
                /\ UNCHANGED res
          /\ UNCHANGED <<roomStatus, day>>
    BY <1>1 DEF CreateTry
  <2>2. NewRow(me, room) \in Row /\ i \in Ids
    BY <2>1 DEF NewRow, Row, Session, Statuses, LocalsOK, Unused
  <2>3. [me EXCEPT !.rooms = me.rooms \ {room}] \in Session
    BY DEF Session
  <2>4. LocalsOK([me EXCEPT !.rooms = me.rooms \ {room}])
    BY DEF Session, LocalsOK, Writers
  <2> QED
    BY <2>1, <2>2, <2>3, <2>4, CommitKeepsType DEF Finish
<1>2. CASE ModifyCommit(s)
  <2>1. me.id \in Used /\ me.stay \in Stays /\ me.room \in Rooms
    BY <1>2 DEF ModifyCommit, LocalsOK, Writers
  <2> QED
    BY <1>2, <2>1, UpdatedRows, CommitKeepsType DEF ModifyCommit, Finish, Write
<1>3. CASE CancelCommit(s)
  <2>1. me.id \in Used
    BY <1>3 DEF CancelCommit, LocalsOK, Writers
  <2>2. [res[me.id] EXCEPT !.status = "CANCELLED"] \in Row
    BY <2>1, UpdatedRows DEF Statuses
  <2> QED
    BY <1>3, <2>1, <2>2, CommitKeepsType DEF CancelCommit, Finish, Cancelled
<1>4. CASE CheckInCommit(s)
  <2>1. me.id \in Used /\ me.room \in Rooms
    BY <1>4 DEF CheckInCommit, LocalsOK, Writers
  <2>2. [res[me.id] EXCEPT !.status = "CHECKED_IN", !.room = me.room] \in Row
    BY <2>1, UpdatedRows DEF Statuses
  <2>3. roomStatus' \in [Rooms -> RoomStatuses] /\ day' \in Days
    BY <1>4 DEF CheckInCommit, RoomStatuses
  <2> QED
    BY <1>4, <2>1, <2>2, <2>3, CommitKeepsType DEF CheckInCommit, Finish, Write
<1>5. CASE CheckOutCommit(s)
  <2>1. me.id \in Used
    BY <1>5 DEF CheckOutCommit, LocalsOK, Writers
  <2>2. [res[me.id] EXCEPT !.status = "CHECKED_OUT"] \in Row
    BY <2>1, UpdatedRows DEF Statuses
  <2>3. roomStatus' \in [Rooms -> RoomStatuses] /\ day' \in Days
    BY <1>5 DEF CheckOutCommit, RoomStatuses
  <2> QED
    BY <1>5, <2>1, <2>2, <2>3, CommitKeepsType DEF CheckOutCommit, Finish
<1>6. CASE ConfirmCommit(s)
  <2>1. me.id \in Used
    BY <1>6 DEF ConfirmCommit, LocalsOK, Writers
  <2>2. [res[me.id] EXCEPT !.status = "CONFIRMED", !.hold = "none"] \in Row
    BY <2>1, UpdatedRows DEF Statuses, Holds
  <2> QED
    BY <1>6, <2>1, <2>2, CommitKeepsType DEF ConfirmCommit, Finish, Write
<1>7. CASE AuditMark(s)
  <2>1. PICK i \in me.ids :
          /\ res' = [res EXCEPT ![i].status = "NO_SHOW"]
          /\ Goto(s, [me EXCEPT !.ids = me.ids \ {i}])
          /\ me.pc = "audit" /\ UNCHANGED <<roomStatus, day>>
    BY <1>7 DEF AuditMark
  <2>2. i \in Used
    BY <2>1 DEF LocalsOK
  <2>3. [res[i] EXCEPT !.status = "NO_SHOW"] \in Row
    BY <2>2, UpdatedRows DEF Statuses
  <2>4. [me EXCEPT !.ids = me.ids \ {i}] \in Session
    BY DEF Session
  <2>5. LocalsOK([me EXCEPT !.ids = me.ids \ {i}])
    BY <2>1 DEF Session, LocalsOK, Writers
  <2> QED
    BY <2>1, <2>2, <2>3, <2>4, <2>5, CommitKeepsType
<1>8. CASE AuditRoll(s)
  <2>1. day' \in Days
    BY <1>8, TimeAssumption DEF AuditRoll, LocalsOK, Session, Days
  <2> QED
    BY <1>8, <2>1, RollKeepsType DEF AuditRoll, Finish
<1>9. CASE SetRoomCommit(s)
  <2>1. roomStatus' \in [Rooms -> RoomStatuses]
    BY <1>9 DEF SetRoomCommit, Session
  <2> QED
    BY <1>9, <2>1, RollKeepsType DEF SetRoomCommit, Finish
<1> QED
  BY <1>1, <1>2, <1>3, <1>4, <1>5, <1>6, <1>7, <1>8, <1>9 DEF Step

\* The sweep, from its listing to its cancellations.
LEMMA SweepKeepsType ==
  ASSUME TypeInv, SweepStart \/ SweepStep
  PROVE  TypeInv'
<1> DEFINE me == sess[Cron]
<1>0. /\ Cron \in Sessions /\ me \in Session /\ LocalsOK(me)
      /\ roomStatus \in [Rooms -> RoomStatuses] /\ day \in Days
  BY DEF Sessions, TypeInv, TypeOK
<1> USE <1>0, IdleTyped
<1>1. \A ids \in SUBSET Used : Swept(ids) \in Session /\ LocalsOK(Swept(ids))
  BY ZenonT(40) DEF Swept, Session, LocalsOK, PCs, Writers, Idle, Used
<1>2. CASE SweepStart
  <2>1. Lapsed \subseteq Used /\ Lapsed # {}
    BY <1>2 DEF SweepStart, Lapsed, Used, Unused, NoRow
  <2>2. Goto(Cron, Swept(Lapsed))
    BY <1>2, <2>1 DEF SweepStart, Swept
  <2> QED
    BY <1>1, <1>2, <2>1, <2>2, GotoKeepsType DEF SweepStart
<1>3. CASE SweepNext
  <2>1. PICK i \in me.ids :
          \/ Goto(Cron, Swept(me.ids \ {i}))
          \/ Goto(Cron, [me EXCEPT !.pc = "sweepCancel", !.id = i, !.ids = me.ids \ {i}])
    BY <1>3 DEF SweepNext
  <2>2. me.ids \subseteq Used /\ i \in Used /\ i \in Nat
    BY IdsAssumption DEF LocalsOK, Used
  <2> DEFINE locals == [me EXCEPT !.pc = "sweepCancel", !.id = i, !.ids = me.ids \ {i}]
  <2>3. locals \in Session /\ LocalsOK(locals)
    BY <2>2 DEF Session, LocalsOK, PCs, Writers
  <2> QED
    BY <1>1, <1>3, <2>1, <2>2, <2>3, GotoKeepsType DEF SweepNext
<1>4. CASE SweepCancel
  <2>1. me.id \in Used /\ me.ids \subseteq Used
    BY <1>4 DEF SweepCancel, LocalsOK, Writers
  <2>2. [res[me.id] EXCEPT !.status = "CANCELLED"] \in Row /\ me.id \in Ids
    BY <2>1, UpdatedRows, UsedRows DEF Statuses
  <2> QED
    BY <1>1, <1>4, <2>1, <2>2, CommitKeepsType DEF SweepCancel, Cancelled
<1> QED
  BY <1>2, <1>3, <1>4 DEF SweepStep

\* Time passes: only the expiry of a hold moves.
LEMMA LapseKeepsType ==
  ASSUME TypeInv, NEW i \in Ids, HoldLapses(i)
  PROVE  TypeInv'
<1>1. i \in Used
  BY DEF HoldLapses, Used, Unused, NoRow
<1>2. [res[i] EXCEPT !.hold = "lapsed"] \in Row
  BY <1>1, UpdatedRows DEF Holds
<1>3. res' \in [Ids -> Row \cup {NoRow}] /\ Used \subseteq Used'
  BY <1>2 DEF HoldLapses, TypeInv, TypeOK, Used, Unused, Row, NoRow, Statuses
<1> QED
  BY <1>3 DEF HoldLapses, TypeInv, TypeOK, LocalsOK

\* Every step of every handler keeps the types, and keeps the locals of the
\* handlers in flight pointing at rows that exist.
THEOREM TypeStep == TypeInv /\ [Next]_vars => TypeInv'
<1> SUFFICES ASSUME TypeInv, [Next]_vars PROVE TypeInv'
  OBVIOUS
<1>1. CASE \E s \in Requests : Start(s) \/ Step(s)
  BY <1>1, StartKeepsType, StepKeepsType
<1>2. CASE SweepStart \/ SweepStep
  BY <1>2, SweepKeepsType
<1>3. CASE \E i \in Ids : HoldLapses(i)
  BY <1>3, LapseKeepsType
<1>4. CASE UNCHANGED vars
  BY <1>4 DEF vars, TypeInv, TypeOK, LocalsOK, Used, Unused
<1> QED
  BY <1>1, <1>2, <1>3, <1>4 DEF Next

\* Type correctness of the whole reservation system.
THEOREM TypeCorrect == Spec => []TypeOK
<1>1. TypeInv => TypeOK
  BY DEF TypeInv
<1> QED
  BY <1>1, TypeInit, TypeStep, PTL DEF Spec

-----------------------------------------------------------------------------
(* Every step writes at most one row, and one the constraint admits.       *)

AdmittedWrite ==
    \E i \in Ids, row \in Row : Admits(i, row) /\ res' = [res EXCEPT ![i] = row]

\* A row that does not block is admitted whatever the table holds.
LEMMA ReleaseIsAdmitted ==
  ASSUME TypeInv, NEW i \in Used, NEW st \in Statuses \ {"HELD", "CONFIRMED", "CHECKED_IN"},
         res' = [res EXCEPT ![i].status = st]
  PROVE  AdmittedWrite
<1> DEFINE row == [res[i] EXCEPT !.status = st]
<1>1. i \in Ids /\ row \in Row
  BY UsedRows, UpdatedRows
<1>2. ~ Blocking(row)
  BY UsedRows DEF Blocking, Row
<1>3. Admits(i, row)
  BY <1>2 DEF Admits, Excludes
<1>4. res' = [res EXCEPT ![i] = row]
  OBVIOUS
<1> QED
  BY <1>1, <1>3, <1>4 DEF AdmittedWrite

\* A transaction of a request writes one admitted row, or no reservation.
LEMMA StepWrites ==
  ASSUME TypeInv, NEW s \in Requests, Step(s)
  PROVE  UNCHANGED res \/ AdmittedWrite
<1> DEFINE me == sess[s]
<1>0. LocalsOK(me) /\ me \in Session /\ Used \subseteq Ids
  BY DEF Sessions, TypeInv, TypeOK, Used
<1>1. CASE CreateTry(s)
  <2>1. PICK i \in Unused, room \in me.rooms :
          /\ me.pc = "create"
          /\ \/ Admits(i, NewRow(me, room)) /\ res' = [res EXCEPT ![i] = NewRow(me, room)]
             \/ UNCHANGED res
    BY <1>1 DEF CreateTry
  <2>2. i \in Ids /\ NewRow(me, room) \in Row
    BY <1>0, <2>1 DEF NewRow, Row, Session, Statuses, LocalsOK, Unused
  <2> QED
    BY <2>1, <2>2 DEF AdmittedWrite
<1>2. CASE ModifyCommit(s)
  <2>1. me.id \in Used /\ me.stay \in Stays /\ me.room \in Rooms
    BY <1>0, <1>2 DEF ModifyCommit, LocalsOK, Writers
  <2> QED
    BY <1>0, <1>2, <2>1, UpdatedRows DEF ModifyCommit, Write, AdmittedWrite
<1>3. CASE CancelCommit(s)
  <2>1. me.id \in Used
    BY <1>0, <1>3 DEF CancelCommit, LocalsOK, Writers
  <2> QED
    BY <1>3, <2>1, ReleaseIsAdmitted DEF CancelCommit, Cancelled, Statuses
<1>4. CASE CheckInCommit(s)
  <2>1. me.id \in Used /\ me.room \in Rooms
    BY <1>0, <1>4 DEF CheckInCommit, LocalsOK, Writers
  <2>2. [res[me.id] EXCEPT !.status = "CHECKED_IN", !.room = me.room] \in Row
    BY <2>1, UpdatedRows DEF Statuses
  <2> QED
    BY <1>0, <1>4, <2>1, <2>2 DEF CheckInCommit, Write, AdmittedWrite
<1>5. CASE CheckOutCommit(s)
  <2>1. me.id \in Used
    BY <1>0, <1>5 DEF CheckOutCommit, LocalsOK, Writers
  <2> QED
    BY <1>5, <2>1, ReleaseIsAdmitted DEF CheckOutCommit, Statuses
<1>6. CASE ConfirmCommit(s)
  <2>1. me.id \in Used
    BY <1>0, <1>6 DEF ConfirmCommit, LocalsOK, Writers
  <2>2. [res[me.id] EXCEPT !.status = "CONFIRMED", !.hold = "none"] \in Row
    BY <2>1, UpdatedRows DEF Statuses, Holds
  <2> QED
    BY <1>0, <1>6, <2>1, <2>2 DEF ConfirmCommit, Write, AdmittedWrite
<1>7. CASE AuditMark(s)
  <2>1. PICK i \in me.ids : res' = [res EXCEPT ![i].status = "NO_SHOW"]
    BY <1>7 DEF AuditMark
  <2>2. i \in Used
    BY <1>0 DEF LocalsOK
  <2> QED
    BY <2>1, <2>2, ReleaseIsAdmitted DEF Statuses
<1>8. CASE AuditRoll(s) \/ SetRoomCommit(s)
  BY <1>8 DEF AuditRoll, SetRoomCommit
<1> QED
  BY <1>1, <1>2, <1>3, <1>4, <1>5, <1>6, <1>7, <1>8 DEF Step

\* The sweep cancels one row, which is always admitted, or writes none.
LEMMA SweepWrites ==
  ASSUME TypeInv, SweepStart \/ SweepStep
  PROVE  UNCHANGED res \/ AdmittedWrite
<1> DEFINE me == sess[Cron]
<1>1. CASE SweepStart \/ SweepNext
  BY <1>1 DEF SweepStart, SweepNext
<1>2. CASE SweepCancel
  <2>1. me.id \in Used
    BY <1>2 DEF SweepCancel, Sessions, TypeInv, LocalsOK, Writers
  <2> QED
    BY <1>2, <2>1, ReleaseIsAdmitted DEF SweepCancel, Cancelled, Statuses
<1> QED
  BY <1>1, <1>2 DEF SweepStep

\* The clock changes no field the constraint reads.
LEMMA LapseWrites ==
  ASSUME TypeInv, NoOverlap, NEW i \in Ids, HoldLapses(i)
  PROVE  AdmittedWrite
<1>1. i \in Used
  BY DEF HoldLapses, Used, Unused, NoRow
<1> DEFINE row == [res[i] EXCEPT !.hold = "lapsed"]
<1>2. /\ row \in Row
      /\ row.status = res[i].status /\ row.room = res[i].room /\ row.stay = res[i].stay
  BY <1>1, UsedRows, UpdatedRows, ZenonT(40) DEF Row, Holds
<1>3. Admits(i, row)
  BY <1>2 DEF Admits, NoOverlap, Excludes, Blocking
<1>4. res' = [res EXCEPT ![i] = row]
  BY DEF HoldLapses
<1> QED
  BY <1>2, <1>3, <1>4 DEF AdmittedWrite

\* Every step writes one admitted row, or no reservation.
LEMMA NextWrites ==
  ASSUME TypeInv, NoOverlap, [Next]_vars
  PROVE  UNCHANGED res \/ AdmittedWrite
<1>1. CASE \E s \in Requests : Start(s)
  BY <1>1 DEF Start, CreateStart, ModifyStart, CancelStart, CheckInStart,
              CheckOutStart, ConfirmStart, AuditStart, SetRoomStart
<1>2. CASE \E s \in Requests : Step(s)
  BY <1>2, StepWrites
<1>3. CASE SweepStart \/ SweepStep
  BY <1>3, SweepWrites
<1>4. CASE \E i \in Ids : HoldLapses(i)
  BY <1>4, LapseWrites
<1>5. CASE UNCHANGED vars
  BY <1>5 DEF vars
<1> QED
  BY <1>1, <1>2, <1>3, <1>4, <1>5 DEF Next

-----------------------------------------------------------------------------
(* No double booking.                                                      *)

\* The exclusion constraint holds of the table in every reachable state.
THEOREM NoOverlapStep == TypeInv /\ NoOverlap /\ [Next]_vars => NoOverlap'
<1> SUFFICES ASSUME TypeInv, NoOverlap, [Next]_vars PROVE NoOverlap'
  OBVIOUS
<1>1. CASE UNCHANGED res
  BY <1>1 DEF NoOverlap, Excludes, Blocking
<1>2. CASE AdmittedWrite
  BY <1>2, WriteKeepsNoOverlap DEF AdmittedWrite, TypeInv, TypeOK
<1> QED
  BY <1>1, <1>2, NextWrites

\* Two reservations that hold one room at one instant have spans that meet.
LEMMA NoOverlapIsNoDoubleBooking == NoOverlap => NoDoubleBooking
  BY DEF NoOverlap, NoDoubleBooking, Occupies, Excludes, Span

\* "double-booking is impossible": for any number of rooms, reservations and
\* handlers, however they interleave.
THEOREM NeverDoubleBooked == Spec => []NoDoubleBooking
<1>1. Init => NoOverlap
  BY DEF Init, NoOverlap, Excludes, Blocking, NoRow
<1> QED
  BY <1>1, TypeInit, TypeStep, NoOverlapStep, NoOverlapIsNoDoubleBooking, PTL DEF Spec

-----------------------------------------------------------------------------
(* The availability check agrees with the constraint.                      *)

\* Two stays share an instant exactly when each begins before the other ends.
LEMMA SpansMeet ==
  ASSUME NEW a \in Stays, NEW b \in Stays
  PROVE  Span(a) \cap Span(b) # {} <=> a.in < b.out /\ a.out > b.in
<1> /\ a.in \in Days /\ a.out \in Days /\ a.in < a.out
    /\ b.in \in Days /\ b.out \in Days /\ b.in < b.out
    /\ \A d \in Days : d \in Nat
  BY TimeAssumption DEF Stays, Days
<1>1. ASSUME Span(a) \cap Span(b) # {} PROVE a.in < b.out /\ a.out > b.in
  <2>1. PICK t \in Days : a.in <= t /\ t < a.out /\ b.in <= t /\ t < b.out
    BY <1>1 DEF Span
  <2> QED
    BY <2>1
<1>2. ASSUME a.in < b.out, a.out > b.in PROVE Span(a) \cap Span(b) # {}
  <2>1. CASE a.in <= b.in
    BY <1>2, <2>1 DEF Span
  <2>2. CASE b.in < a.in
    BY <1>2, <2>2 DEF Span
  <2> QED
    BY <2>1, <2>2
<1> QED
  BY <1>1, <1>2

\* A room is offered for a stay exactly when it is in service and the insert
\* would be accepted, at every boundary and in every reachable state.
THEOREM AvailabilityIsExact == Spec => []AvailabilityExact
<1>1. TypeInv => AvailabilityExact
  <2> SUFFICES ASSUME TypeInv, NEW stay \in Stays, NEW room \in Rooms, NEW i \in Unused
               PROVE  LET row == [status |-> "CONFIRMED", room |-> room, stay |-> stay,
                                  hold |-> "none"]
                      IN  room \in Available(stay) <=>
                            /\ roomStatus[room] \notin {"MAINTENANCE", "OUT_OF_SERVICE"}
                            /\ Admits(i, row)
    BY DEF AvailabilityExact
  <2> DEFINE row == [status |-> "CONFIRMED", room |-> room, stay |-> stay, hold |-> "none"]
  <2>1. \A j \in Ids : Blocking(res[j]) => res[j].stay \in Stays
    BY DEF TypeInv, TypeOK, Row, Blocking, NoRow
  <2>2. \A j \in Ids : Clash(res[j], room, stay) <=> Excludes(row, res[j])
    BY <2>1, SpansMeet DEF Clash, Excludes, Blocking
  <2>3. ~ Clash(res[i], room, stay)
    BY DEF Clash, Blocking, Unused, NoRow
  <2> QED
    BY <2>2, <2>3 DEF Available, Admits
<1> QED
  BY <1>1, TypeInit, TypeStep, PTL DEF Spec

-----------------------------------------------------------------------------
(* The services implement the room calendar.                               *)

Taken == [i \in Ids |-> Block(res[i])]

\* A step that writes at most one row, to one the constraint admits, is a step
\* of the calendar: it takes a free stay, lets go of one, or changes nothing.
LEMMA WriteIsCalendarStep ==
  ASSUME TypeInv, NEW i \in Ids, NEW row \in Row, res' = [res EXCEPT ![i] = row], Admits(i, row)
  PROVE  [Calendar!Next]_Taken
<1>0. /\ res \in [Ids -> Row \cup {NoRow}]
      /\ Taken' = [Taken EXCEPT ![i] = Block(row)]
  BY DEF TypeInv, TypeOK, Taken
<1>1. CASE Blocking(row)
  <2>1. Block(row) = {row.room} \X Span(row.stay)
    BY <1>1 DEF Block
  <2>2. row.room \in Rooms /\ row.stay \in Stays
    BY DEF Row
  <2>3. \A j \in Ids \ {i} : Taken[j] \cap Block(row) = {}
    <3> SUFFICES ASSUME NEW j \in Ids \ {i}, NEW p \in Block(row), p \in Taken[j]
                 PROVE  FALSE
      OBVIOUS
    <3>1. Blocking(res[j]) /\ Taken[j] = {res[j].room} \X Span(res[j].stay)
      BY DEF Taken, Block
    <3>2. res[j].room = row.room /\ p[2] \in Span(res[j].stay) /\ p[2] \in Span(row.stay)
      BY <2>1, <3>1
    <3> QED
      BY <1>1, <3>1, <3>2 DEF Admits, Excludes
  <2>4. Calendar!Take(i)
    <3>1. row.stay \in Calendar!Stays
      BY <2>2 DEF Stays, Days, Calendar!Stays
    <3>2. Calendar!Block(row.room, row.stay) = Block(row)
      BY <2>1 DEF Span, Days, Calendar!Block, Calendar!Instants
    <3>3. Calendar!FreeFor(i, Calendar!Block(row.room, row.stay))
      BY <2>3, <3>2 DEF Taken, Calendar!FreeFor
    <3> QED
      BY <1>0, <2>2, <3>1, <3>2, <3>3, ZenonT(40) DEF Taken, Calendar!Take
  <2> QED
    BY <2>4 DEF Calendar!Next
<1>2. CASE ~ Blocking(row)
  <2>1. Calendar!Release(i)
    BY <1>0, <1>2 DEF Calendar!Release, Taken, Block
  <2> QED
    BY <2>1 DEF Calendar!Next
<1> QED
  BY <1>1, <1>2

\* The detailed system implements the calendar: the services, races and all,
\* only ever give out free stays of a room and take them back.
THEOREM BookingImplementsCalendar == Spec => ImplementsCalendar
<1>1. Init => Calendar!Init
  BY DEF Init, Calendar!Init, Block, Blocking, NoRow
<1>2. TypeInv /\ NoOverlap /\ [Next]_vars => [Calendar!Next]_Taken
  <2> SUFFICES ASSUME TypeInv, NoOverlap, [Next]_vars PROVE [Calendar!Next]_Taken
    OBVIOUS
  <2>1. CASE UNCHANGED res
    BY <2>1 DEF Taken
  <2>2. CASE AdmittedWrite
    BY <2>2, WriteIsCalendarStep DEF AdmittedWrite
  <2> QED
    BY <2>1, <2>2, NextWrites
<1>3. Init => NoOverlap
  BY DEF Init, NoOverlap, Excludes, Blocking, NoRow
<1> QED
  BY <1>1, <1>2, <1>3, TypeInit, TypeStep, NoOverlapStep, PTL
     DEF Spec, ImplementsCalendar, Calendar!Spec, Taken

-----------------------------------------------------------------------------
(* No hold is immortal.                                                    *)

\* A row written over row i carries its status and hold, is not HELD, or
\* carries an expiry.
LEMMA ExpiryKept ==
  ASSUME HeldHasExpiry, res \in [Ids -> Row \cup {NoRow}], NEW i \in Ids, NEW row,
         \/ row.status # "HELD"
         \/ row.hold # "none"
         \/ row.status = res[i].status /\ row.hold = res[i].hold,
         res' = [res EXCEPT ![i] = row]
  PROVE  HeldHasExpiry'
  BY DEF HeldHasExpiry

\* A transaction of a request never stores a HELD row without its expiry:
\* create writes the two together, confirm clears both, no other writes HELD.
LEMMA StepKeepsExpiry ==
  ASSUME TypeInv, HeldHasExpiry, NEW s \in Requests, Step(s)
  PROVE  HeldHasExpiry'
<1> DEFINE me == sess[s]
<1>0. /\ LocalsOK(me) /\ me \in Session /\ res \in [Ids -> Row \cup {NoRow}]
      /\ Used \subseteq Ids
  BY DEF Sessions, TypeInv, TypeOK, Used
<1>1. CASE UNCHANGED res
  BY <1>1 DEF HeldHasExpiry
<1>2. CASE CreateTry(s) /\ ~ UNCHANGED res
  <2>1. PICK i \in Unused, room \in me.rooms : res' = [res EXCEPT ![i] = NewRow(me, room)]
    BY <1>2 DEF CreateTry
  <2>2. i \in Ids
    BY DEF Unused
  <2>3. NewRow(me, room).status # "HELD" \/ NewRow(me, room).hold # "none"
    BY DEF NewRow
  <2> HIDE DEF me
  <2> QED
    BY <1>0, <2>1, <2>2, <2>3, ExpiryKept
<1>3. CASE ModifyCommit(s) /\ ~ UNCHANGED res
  <2>1. me.id \in Used /\ res[me.id] \in Row
    BY <1>0, <1>3, UsedRows DEF ModifyCommit, LocalsOK, Writers
  <2>2. res' = [res EXCEPT ![me.id] = [res[me.id] EXCEPT !.stay = me.stay, !.room = me.room]]
    BY <1>3 DEF ModifyCommit, Write
  <2>3. /\ [res[me.id] EXCEPT !.stay = me.stay, !.room = me.room].status = res[me.id].status
        /\ [res[me.id] EXCEPT !.stay = me.stay, !.room = me.room].hold = res[me.id].hold
    BY <2>1 DEF Row
  <2> QED
    BY <1>0, <2>1, <2>2, <2>3, ExpiryKept
<1>4. CASE (CancelCommit(s) \/ CheckOutCommit(s)) /\ ~ UNCHANGED res
  <2>1. me.id \in Used /\ res[me.id] \in Row
    BY <1>0, <1>4, UsedRows DEF CancelCommit, CheckOutCommit, LocalsOK, Writers
  <2>2. PICK st \in {"CANCELLED", "CHECKED_OUT"} : res' = [res EXCEPT ![me.id] = [res[me.id] EXCEPT !.status = st]]
    BY <1>4 DEF CancelCommit, CheckOutCommit, Cancelled
  <2>3. [res[me.id] EXCEPT !.status = st].status # "HELD"
    BY <2>1 DEF Row
  <2> QED
    BY <1>0, <2>1, <2>2, <2>3, ExpiryKept
<1>5. CASE CheckInCommit(s) /\ ~ UNCHANGED res
  <2>1. me.id \in Used /\ res[me.id] \in Row
    BY <1>0, <1>5, UsedRows DEF CheckInCommit, LocalsOK, Writers
  <2>2. res' = [res EXCEPT ![me.id] = [res[me.id] EXCEPT !.status = "CHECKED_IN", !.room = me.room]]
    BY <1>5 DEF CheckInCommit, Write
  <2>3. [res[me.id] EXCEPT !.status = "CHECKED_IN", !.room = me.room].status # "HELD"
    BY <2>1 DEF Row
  <2> QED
    BY <1>0, <2>1, <2>2, <2>3, ExpiryKept
<1>6. CASE ConfirmCommit(s) /\ ~ UNCHANGED res
  <2>1. me.id \in Used /\ res[me.id] \in Row
    BY <1>0, <1>6, UsedRows DEF ConfirmCommit, LocalsOK, Writers
  <2>2. res' = [res EXCEPT ![me.id] = [res[me.id] EXCEPT !.status = "CONFIRMED", !.hold = "none"]]
    BY <1>6 DEF ConfirmCommit, Write
  <2>3. [res[me.id] EXCEPT !.status = "CONFIRMED", !.hold = "none"].status # "HELD"
    BY <2>1 DEF Row
  <2> QED
    BY <1>0, <2>1, <2>2, <2>3, ExpiryKept
<1>7. CASE AuditMark(s)
  <2>1. PICK i \in me.ids : res' = [res EXCEPT ![i] = [res[i] EXCEPT !.status = "NO_SHOW"]]
    BY <1>7 DEF AuditMark
  <2>2. i \in Ids /\ res[i] \in Row
    BY <1>0, UsedRows DEF LocalsOK
  <2>3. [res[i] EXCEPT !.status = "NO_SHOW"].status # "HELD"
    BY <2>2 DEF Row
  <2> QED
    BY <1>0, <2>1, <2>2, <2>3, ExpiryKept
<1>8. CASE AuditRoll(s) \/ SetRoomCommit(s)
  BY <1>1, <1>8 DEF AuditRoll, SetRoomCommit
<1> QED
  BY <1>1, <1>2, <1>3, <1>4, <1>5, <1>6, <1>7, <1>8 DEF Step

\* Whatever wrote the row, a hold carries the expiry that the sweep looks for.
THEOREM HoldsExpire == Spec => []HeldHasExpiry
<1>1. Init => HeldHasExpiry
  BY DEF Init, HeldHasExpiry, NoRow
<1>2. TypeInv /\ HeldHasExpiry /\ [Next]_vars => HeldHasExpiry'
  <2> SUFFICES ASSUME TypeInv, HeldHasExpiry, [Next]_vars PROVE HeldHasExpiry'
    OBVIOUS
  <2>1. CASE UNCHANGED res
    BY <2>1 DEF HeldHasExpiry
  <2>2. CASE \E s \in Requests : Step(s)
    BY <2>2, StepKeepsExpiry
  <2>3. CASE \E s \in Requests : Start(s)
    BY <2>1, <2>3 DEF Start, CreateStart, ModifyStart, CancelStart, CheckInStart,
                CheckOutStart, ConfirmStart, AuditStart, SetRoomStart
  <2>4. CASE SweepCancel
    <3> DEFINE id == sess[Cron].id
    <3>1. id \in Used /\ res[id] \in Row /\ id \in Ids
      BY <2>4, UsedRows DEF SweepCancel, Sessions, TypeInv, LocalsOK, Writers
    <3>2. res' = [res EXCEPT ![id] = [res[id] EXCEPT !.status = "CANCELLED"]]
      BY <2>4 DEF SweepCancel, Cancelled
    <3>3. [res[id] EXCEPT !.status = "CANCELLED"].status # "HELD"
      BY <3>1 DEF Row
    <3> QED
      BY <3>1, <3>2, <3>3, ExpiryKept DEF TypeInv, TypeOK
  <2>5. CASE SweepStart \/ SweepNext
    BY <2>1, <2>5 DEF SweepStart, SweepNext
  <2>6. CASE \E i \in Ids : HoldLapses(i)
    <3>1. PICK i \in Ids : HoldLapses(i)
      BY <2>6
    <3>2. res' = [res EXCEPT ![i] = [res[i] EXCEPT !.hold = "lapsed"]]
      BY <3>1 DEF HoldLapses
    <3>3. res[i] \in Row
      BY <3>1, UsedRows DEF HoldLapses, Used, Unused, NoRow
    <3> DEFINE row == [res[i] EXCEPT !.hold = "lapsed"]
    <3>4. row.hold # "none"
      BY <3>3 DEF Row
    <3>5. res' = [res EXCEPT ![i] = row] /\ res \in [Ids -> Row \cup {NoRow}]
      BY <3>2 DEF TypeInv, TypeOK
    <3> HIDE DEF row
    <3> QED
      BY <3>4, <3>5, ExpiryKept
  <2>7. CASE UNCHANGED vars
    BY <2>1, <2>7 DEF vars
  <2> QED
    BY <2>2, <2>3, <2>4, <2>5, <2>6, <2>7 DEF Next, SweepStep
<1> QED
  BY <1>1, <1>2, TypeInit, TypeStep, PTL DEF Spec

-----------------------------------------------------------------------------
(* A serial system: what the guards promise when handlers do not overlap.  *)

\* At most one handler is in flight.
Alone == \A s, t \in Busy : s = t

\* What a handler read is still so when its transaction runs.
Fresh(me) ==
    /\ me.pc \in {"cancel", "sweepCancel"} => res[me.id].status # "CHECKED_OUT"
    /\ me.pc = "checkIn" => res[me.id].status \in {"CONFIRMED", "HELD"}
    /\ me.pc = "checkOut" => res[me.id].status = "CHECKED_IN"
    /\ me.pc = "confirm" => res[me.id].status = "HELD"
    /\ me.pc = "audit" => /\ me.day = day
                          /\ Arrivals(day) \subseteq me.ids
                          /\ \A i \in me.ids : res[i].status = "CONFIRMED"

SerialInv == Alone /\ \A s \in Sessions : Fresh(sess[s])

\* The step of Lifecycle, and that of AuditClosesDay.
LifeStep ==
    \A i \in Ids :
        \/ res'[i].status = res[i].status
        \/ \E to \in {"HELD", "CONFIRMED"} : Moves(i, "absent", to)
        \/ \E to \in {"CONFIRMED", "CHECKED_IN", "CANCELLED"} : Moves(i, "HELD", to)
        \/ \E to \in {"CHECKED_IN", "NO_SHOW", "CANCELLED"} : Moves(i, "CONFIRMED", to)
        \/ \E to \in {"CHECKED_OUT", "CANCELLED"} : Moves(i, "CHECKED_IN", to)
        \/ Moves(i, "NO_SHOW", "CANCELLED")

CloseStep ==
    day' # day => /\ day' = day + 1
                  /\ \A i \in Ids : res'[i].status = "CONFIRMED" => res'[i].stay.in > day

\* The others are idle while s runs.
Sole(s) == \A t \in Sessions : t # s => sess[t].pc = "idle"

\* A handler that may start finds nobody at work.
LEMMA FreeAlone ==
  ASSUME MaxBusy = 1, Alone, NEW s \in Sessions, NEW op, Free(s, op)
  PROVE  Sole(s)
<1> SUFFICES ASSUME NEW t \in Busy PROVE FALSE
  BY DEF Sole, Busy
<1>1. Busy = {t}
  BY DEF Alone
<1>2. Cardinality(Busy) = 1
  BY <1>1, FS_Singleton
<1> QED
  BY <1>2 DEF Free

\* A handler in flight is the only one.
LEMMA BusyAlone ==
  ASSUME Alone, NEW s \in Sessions, sess[s].pc # "idle"
  PROVE  Sole(s)
  BY DEF Alone, Busy, Sole

\* Only s moves; what it has read by then is fresh.
LEMMA TurnKeepsSerial ==
  ASSUME NEW s \in Sessions, Sole(s), Fresh(sess[s])',
         \A t \in Sessions : t # s => sess'[t] = sess[t]
  PROVE  SerialInv'
<1>1. \A t \in Sessions : t # s => sess'[t].pc = "idle"
  BY DEF Sole
<1>2. Alone'
  BY <1>1 DEF Alone, Busy
<1>3. \A t \in Sessions : Fresh(sess[t])'
  BY <1>1 DEF Fresh
<1> QED
  BY <1>2, <1>3 DEF SerialInv

LEMMA Went ==
  ASSUME TypeInv, NEW s \in Sessions, NEW locals, Goto(s, locals)
  PROVE  sess'[s] = locals /\ \A t \in Sessions : t # s => sess'[t] = sess[t]
  BY DEF Goto, TypeInv, TypeOK

\* A request reads the rows it will write: they are as its guard asks.
LEMMA StartIsFresh ==
  ASSUME MaxBusy = 1, TypeInv, SerialInv, NEW s \in Requests, Start(s)
  PROVE  SerialInv' /\ UNCHANGED <<res, day>>
<1>0. s \in Sessions /\ Alone /\ sess \in [Sessions -> Session]
  BY DEF Sessions, SerialInv, TypeInv, TypeOK
<1>1. UNCHANGED <<res, day>>
  BY DEF Start, CreateStart, ModifyStart, CancelStart, CheckInStart,
         CheckOutStart, ConfirmStart, AuditStart, SetRoomStart
<1>2. Sole(s)
  BY <1>0, FreeAlone DEF Start, CreateStart, ModifyStart, CancelStart, CheckInStart,
         CheckOutStart, ConfirmStart, AuditStart, SetRoomStart
<1>3. /\ Fresh(sess[s])'
      /\ \A t \in Sessions : t # s => sess'[t] = sess[t]
  <2> DEFINE Only(pc) == /\ sess'[s].pc = pc
                         /\ \A t \in Sessions : t # s => sess'[t] = sess[t]
  <2>1. CASE CreateStart(s)
    <3>1. Only("create")
      BY <1>0, <2>1 DEF CreateStart, Goto, Idle
    <3> QED
      BY <3>1 DEF Fresh
  <2>2. CASE ModifyStart(s)
    <3>1. Only("modify")
      BY <1>0, <2>2 DEF ModifyStart, Goto, Idle
    <3> QED
      BY <3>1 DEF Fresh
  <2>3. CASE CancelStart(s)
    <3>1. PICK i \in Used : MayCancel(res[i]) /\ Goto(s, [Idle EXCEPT !.pc = "cancel", !.id = i])
      BY <2>3 DEF CancelStart
    <3>2. Only("cancel") /\ sess'[s].id = i
      BY <1>0, <3>1 DEF Goto, Idle
    <3> QED
      BY <1>1, <3>1, <3>2 DEF MayCancel, Fresh
  <2>4. CASE CheckInStart(s)
    <3>1. PICK i \in Used, room \in Rooms :
            /\ res[i].status \in {"CONFIRMED", "HELD"}
            /\ Goto(s, [Idle EXCEPT !.pc = "checkIn", !.id = i, !.room = room])
      BY <2>4 DEF CheckInStart
    <3>2. Only("checkIn") /\ sess'[s].id = i
      BY <1>0, <3>1 DEF Goto, Idle
    <3> QED
      BY <1>1, <3>1, <3>2 DEF Fresh
  <2>5. CASE CheckOutStart(s)
    <3>1. PICK i \in Used :
            /\ res[i].status = "CHECKED_IN"
            /\ Goto(s, [Idle EXCEPT !.pc = "checkOut", !.id = i, !.room = res[i].room])
      BY <2>5 DEF CheckOutStart
    <3>2. Only("checkOut") /\ sess'[s].id = i
      BY <1>0, <3>1 DEF Goto, Idle
    <3> QED
      BY <1>1, <3>1, <3>2 DEF Fresh
  <2>6. CASE ConfirmStart(s)
    <3>1. PICK i \in Used : res[i].status = "HELD" /\ Goto(s, [Idle EXCEPT !.pc = "confirm", !.id = i])
      BY <2>6 DEF ConfirmStart
    <3>2. Only("confirm") /\ sess'[s].id = i
      BY <1>0, <3>1 DEF Goto, Idle
    <3> QED
      BY <1>1, <3>1, <3>2 DEF Fresh
  <2>7. CASE AuditStart(s)
    <3>1. Only("audit") /\ sess'[s].ids = Arrivals(day) /\ sess'[s].day = day
      BY <1>0, <2>7 DEF AuditStart, Goto, Idle
    <3>2. Arrivals(day)' = Arrivals(day) /\ \A i \in Arrivals(day) : res[i].status = "CONFIRMED"
      BY <1>1 DEF Arrivals
    <3> QED
      BY <1>1, <3>1, <3>2 DEF Fresh
  <2>8. CASE SetRoomStart(s)
    <3>1. Only("setRoom")
      BY <1>0, <2>8 DEF SetRoomStart, Goto, Idle
    <3> QED
      BY <3>1 DEF Fresh
  <2> QED
    BY <2>1, <2>2, <2>3, <2>4, <2>5, <2>6, <2>7, <2>8 DEF Start
<1> QED
  BY <1>0, <1>1, <1>2, <1>3, TurnKeepsSerial

\* One row is written: the others keep their status.
LEMMA OneMoves ==
  ASSUME TypeInv, NEW i \in Ids, NEW row, res' = [res EXCEPT ![i] = row],
         \/ row.status = res[i].status
         \/ res[i].status = "absent" /\ row.status \in {"HELD", "CONFIRMED"}
         \/ res[i].status = "HELD" /\ row.status \in {"CONFIRMED", "CHECKED_IN", "CANCELLED"}
         \/ res[i].status = "CONFIRMED" /\ row.status \in {"CHECKED_IN", "NO_SHOW", "CANCELLED"}
         \/ res[i].status = "CHECKED_IN" /\ row.status \in {"CHECKED_OUT", "CANCELLED"}
         \/ res[i].status = "NO_SHOW" /\ row.status = "CANCELLED"
  PROVE  LifeStep
<1>1. res'[i] = row /\ \A j \in Ids : j # i => res'[j] = res[j]
  BY DEF TypeInv, TypeOK
<1> QED
  BY <1>1 DEF LifeStep, Moves

LEMMA UnchangedLives == ASSUME UNCHANGED res PROVE LifeStep
  BY DEF LifeStep

\* A cancellation whose guard still holds is a move of the lifecycle.
LEMMA CancelLives ==
  ASSUME TypeInv, NEW i \in Used, res[i].status # "CHECKED_OUT", res' = Cancelled(i)
  PROVE  LifeStep
<1>1. i \in Ids /\ res[i] \in Row
  BY UsedRows
<1>2. res' = [res EXCEPT ![i] = [res[i] EXCEPT !.status = "CANCELLED"]]
  BY DEF Cancelled
<1> DEFINE row == [res[i] EXCEPT !.status = "CANCELLED"]
<1>3. row.status = "CANCELLED"
  BY <1>1 DEF Row
<1>4. res[i].status \in Statuses
  BY <1>1 DEF Row
<1>5. res' = [res EXCEPT ![i] = row]
  BY <1>2
<1> HIDE DEF row
<1> QED
  BY <1>1, <1>3, <1>4, <1>5, OneMoves DEF Statuses

\* A transaction whose guard still holds moves its row as the lifecycle allows.
LEMMA StepLives ==
  ASSUME TypeInv, SerialInv, NEW s \in Requests, Step(s)
  PROVE  LifeStep
<1> DEFINE me == sess[s]
<1>0. LocalsOK(me) /\ Fresh(me) /\ me \in Session /\ Used \subseteq Ids
  BY DEF Sessions, TypeInv, TypeOK, SerialInv, Used
<1>1. CASE UNCHANGED res
  BY <1>1, UnchangedLives
<1>2. CASE CreateTry(s) /\ ~ UNCHANGED res
  <2>1. PICK i \in Unused, room \in me.rooms : res' = [res EXCEPT ![i] = NewRow(me, room)]
    BY <1>2 DEF CreateTry
  <2>2. i \in Ids /\ res[i].status = "absent"
    BY DEF Unused, NoRow
  <2>3. NewRow(me, room).status \in {"HELD", "CONFIRMED"}
    BY DEF NewRow
  <2> HIDE DEF me
  <2> QED
    BY <2>1, <2>2, <2>3, OneMoves
<1>3. CASE ModifyCommit(s) /\ ~ UNCHANGED res
  <2>1. me.id \in Ids /\ res[me.id] \in Row
    BY <1>0, <1>3, UsedRows DEF ModifyCommit, LocalsOK, Writers
  <2> DEFINE row == [res[me.id] EXCEPT !.stay = me.stay, !.room = me.room]
  <2>2. res' = [res EXCEPT ![me.id] = row]
    BY <1>3 DEF ModifyCommit, Write
  <2>3. row.status = res[me.id].status
    BY <2>1 DEF Row
  <2> HIDE DEF row
  <2> QED
    BY <2>1, <2>2, <2>3, OneMoves
<1>4. CASE CancelCommit(s)
  <2>1. me.id \in Used /\ res[me.id].status # "CHECKED_OUT"
    BY <1>0, <1>4 DEF CancelCommit, LocalsOK, Writers, Fresh
  <2> QED
    BY <1>4, <2>1, CancelLives DEF CancelCommit
<1>5. CASE CheckOutCommit(s)
  <2>1. me.id \in Ids /\ res[me.id] \in Row /\ res[me.id].status = "CHECKED_IN"
    BY <1>0, <1>5, UsedRows DEF CheckOutCommit, LocalsOK, Writers, Fresh
  <2> DEFINE row == [res[me.id] EXCEPT !.status = "CHECKED_OUT"]
  <2>2. res' = [res EXCEPT ![me.id] = row]
    BY <1>5 DEF CheckOutCommit
  <2>3. row.status = "CHECKED_OUT"
    BY <2>1 DEF Row
  <2> HIDE DEF row
  <2> QED
    BY <2>1, <2>2, <2>3, OneMoves
<1>6. CASE CheckInCommit(s) /\ ~ UNCHANGED res
  <2>1. /\ me.id \in Ids /\ res[me.id] \in Row
        /\ res[me.id].status \in {"CONFIRMED", "HELD"}
    BY <1>0, <1>6, UsedRows DEF CheckInCommit, LocalsOK, Writers, Fresh
  <2> DEFINE row == [res[me.id] EXCEPT !.status = "CHECKED_IN", !.room = me.room]
  <2>2. res' = [res EXCEPT ![me.id] = row]
    BY <1>6 DEF CheckInCommit, Write
  <2>3. row.status = "CHECKED_IN"
    BY <2>1 DEF Row
  <2> HIDE DEF row
  <2> QED
    BY <2>1, <2>2, <2>3, OneMoves
<1>7. CASE ConfirmCommit(s) /\ ~ UNCHANGED res
  <2>1. me.id \in Ids /\ res[me.id] \in Row /\ res[me.id].status = "HELD"
    BY <1>0, <1>7, UsedRows DEF ConfirmCommit, LocalsOK, Writers, Fresh
  <2> DEFINE row == [res[me.id] EXCEPT !.status = "CONFIRMED", !.hold = "none"]
  <2>2. res' = [res EXCEPT ![me.id] = row]
    BY <1>7 DEF ConfirmCommit, Write
  <2>3. row.status = "CONFIRMED"
    BY <2>1 DEF Row
  <2> HIDE DEF row
  <2> QED
    BY <2>1, <2>2, <2>3, OneMoves
<1>8. CASE AuditMark(s)
  <2>1. PICK i \in me.ids : res' = [res EXCEPT ![i] = [res[i] EXCEPT !.status = "NO_SHOW"]]
    BY <1>8 DEF AuditMark
  <2>2. i \in Ids /\ res[i] \in Row /\ res[i].status = "CONFIRMED"
    BY <1>0, <1>8, UsedRows DEF LocalsOK, Fresh, AuditMark
  <2> DEFINE row == [res[i] EXCEPT !.status = "NO_SHOW"]
  <2>3. row.status = "NO_SHOW" /\ res' = [res EXCEPT ![i] = row]
    BY <2>1, <2>2 DEF Row
  <2> HIDE DEF row
  <2> QED
    BY <2>2, <2>3, OneMoves
<1>9. CASE AuditRoll(s) \/ SetRoomCommit(s)
  BY <1>1, <1>9 DEF AuditRoll, SetRoomCommit
<1> QED
  BY <1>1, <1>2, <1>3, <1>4, <1>5, <1>6, <1>7, <1>8, <1>9 DEF Step

\* A handler that ends, or that goes to a fresh read, keeps the system serial.
LEMMA StepKeepsSerial ==
  ASSUME TypeInv, SerialInv, NEW s \in Requests, Step(s)
  PROVE  SerialInv'
<1> DEFINE me == sess[s]
<1>0. s \in Sessions /\ Alone /\ LocalsOK(me) /\ Fresh(me) /\ me \in Session /\ Used \subseteq Ids
  BY DEF Sessions, TypeInv, TypeOK, SerialInv, Used
<1>1. me.pc # "idle"
  BY DEF Step, CreateTry, ModifyCommit, CancelCommit, CheckInCommit, CheckOutCommit,
         ConfirmCommit, AuditMark, AuditRoll, SetRoomCommit
<1>2. Sole(s)
  BY <1>0, <1>1, BusyAlone
<1>3. CASE Finish(s)
  <2>1. Goto(s, Idle)
    BY <1>3 DEF Finish
  <2>2. Fresh(sess[s])'
    BY <1>0, <2>1, Went DEF Fresh, Idle
  <2> QED
    BY <1>0, <1>2, <2>1, <2>2, Went, TurnKeepsSerial
<1>4. CASE CreateTry(s) /\ ~ Finish(s)
  <2>1. PICK left : Goto(s, [me EXCEPT !.rooms = left]) /\ me.pc = "create"
    BY <1>4 DEF CreateTry
  <2>2. PICK locals : Goto(s, locals) /\ locals.pc = "create"
    BY <1>0, <2>1 DEF Session
  <2>3. Fresh(sess[s])'
    BY <1>0, <2>2, Went DEF Fresh
  <2> QED
    BY <1>0, <1>2, <2>2, <2>3, Went, TurnKeepsSerial
<1>5. CASE AuditMark(s)
  <2>1. PICK i \in me.ids :
          /\ me.pc = "audit"
          /\ res' = [res EXCEPT ![i].status = "NO_SHOW"]
          /\ Goto(s, [me EXCEPT !.ids = me.ids \ {i}])
          /\ UNCHANGED day
    BY <1>5 DEF AuditMark
  <2>2. PICK locals :
          /\ Goto(s, locals)
          /\ locals.pc = "audit" /\ locals.ids = me.ids \ {i} /\ locals.day = me.day
    BY <1>0, <2>1 DEF Session
  <2>3. sess'[s] = locals /\ \A t \in Sessions : t # s => sess'[t] = sess[t]
    BY <1>0, <2>2, Went
  <2>4. i \in Ids /\ res[i] \in Row /\ \A j \in Ids : j # i => res'[j] = res[j]
    BY <1>0, <2>1, UsedRows DEF LocalsOK, TypeInv, TypeOK
  <2>5. res'[i].status = "NO_SHOW"
    BY <2>1, <2>4 DEF TypeInv, TypeOK, Row
  <2>6. /\ me.day = day
        /\ Arrivals(day) \subseteq me.ids
        /\ \A j \in me.ids : res[j].status = "CONFIRMED"
        /\ me.ids \subseteq Ids
    BY <1>0, <2>1 DEF Fresh, LocalsOK
  <2>7. Arrivals(day)' \subseteq me.ids \ {i}
    BY <2>1, <2>4, <2>5, <2>6 DEF Arrivals
  <2>8. \A j \in me.ids \ {i} : res'[j].status = "CONFIRMED"
    BY <2>4, <2>6
  <2>9. Fresh(sess[s])'
    BY <2>1, <2>2, <2>3, <2>6, <2>7, <2>8 DEF Fresh
  <2> QED
    BY <1>0, <1>2, <2>3, <2>9, TurnKeepsSerial
<1> QED
  BY <1>3, <1>4, <1>5
     DEF Step, ModifyCommit, CancelCommit, CheckInCommit, CheckOutCommit,
         ConfirmCommit, AuditRoll, SetRoomCommit

\* Only the audit moves the date: by one, past every confirmed arrival.
LEMMA StepCloses ==
  ASSUME TypeInv, SerialInv, NEW s \in Requests, Step(s)
  PROVE  CloseStep
<1> DEFINE me == sess[s]
<1>1. CASE AuditRoll(s)
  <2>1. /\ me.pc = "audit" /\ me.ids = {} /\ day' = me.day + 1 /\ UNCHANGED res
        /\ Fresh(me)
    BY <1>1 DEF AuditRoll, SerialInv, Sessions
  <2>2. me.day = day /\ Arrivals(day) = {}
    BY <2>1 DEF Fresh
  <2>3. \A i \in Ids : res[i].status = "CONFIRMED" => res[i].stay.in \in Nat /\ day \in Nat
    BY TimeAssumption DEF TypeInv, TypeOK, Row, NoRow, Stays, Days
  <2>4. \A i \in Ids : res[i].status = "CONFIRMED" => res[i].stay.in > day
    BY <2>2, <2>3 DEF Arrivals
  <2> QED
    BY <2>1, <2>2, <2>4 DEF CloseStep
<1>2. CASE UNCHANGED day
  BY <1>2 DEF CloseStep
<1> QED
  BY <1>1, <1>2
     DEF Step, CreateTry, ModifyCommit, CancelCommit, CheckInCommit, CheckOutCommit,
         ConfirmCommit, AuditMark, SetRoomCommit

\* The sweep alone: what it listed it reads again before it cancels.
LEMMA SweepIsSerial ==
  ASSUME MaxBusy = 1, TypeInv, SerialInv, SweepStart \/ SweepStep
  PROVE  SerialInv' /\ LifeStep /\ UNCHANGED day
<1> DEFINE me == sess[Cron]
<1>0. Cron \in Sessions /\ Alone /\ LocalsOK(me) /\ Fresh(me) /\ me \in Session
  BY DEF Sessions, TypeInv, TypeOK, SerialInv
<1> DEFINE Others == \A t \in Sessions : t # Cron => sess'[t] = sess[t]
<1>1. UNCHANGED day
  BY DEF SweepStart, SweepStep, SweepNext, SweepCancel
<1>2. Sole(Cron)
  <2>1. CASE SweepStart
    BY <1>0, <2>1, FreeAlone DEF SweepStart
  <2>2. CASE SweepStep
    BY <1>0, <2>2, BusyAlone DEF SweepStep, SweepNext, SweepCancel
  <2> QED
    BY <2>1, <2>2
<1>3. CASE SweepStart
  <2>1. sess'[Cron].pc = "sweep" /\ Others /\ UNCHANGED res
    BY <1>0, <1>3 DEF SweepStart, Goto, Idle, TypeInv, TypeOK
  <2>2. Fresh(sess[Cron])'
    BY <2>1 DEF Fresh
  <2> QED
    BY <1>0, <1>1, <1>2, <2>1, <2>2, TurnKeepsSerial, UnchangedLives
<1>4. CASE SweepNext
  <2>1. PICK i \in me.ids :
          \/ Goto(Cron, Swept(me.ids \ {i}))
          \/ /\ MayCancel(res[i])
             /\ Goto(Cron, [me EXCEPT !.pc = "sweepCancel", !.id = i, !.ids = me.ids \ {i}])
    BY <1>4 DEF SweepNext
  <2>2. UNCHANGED res /\ Others
    BY <1>4, <2>1 DEF SweepNext, Goto, TypeInv, TypeOK
  <2>3. Fresh(sess[Cron])'
    <3>1. CASE Goto(Cron, Swept(me.ids \ {i}))
      <4>1. sess'[Cron].pc \in {"idle", "sweep"}
        BY <1>0, <3>1 DEF Swept, Idle, Goto, TypeInv, TypeOK
      <4> QED
        BY <4>1 DEF Fresh
    <3>2. CASE /\ MayCancel(res[i])
               /\ Goto(Cron, [me EXCEPT !.pc = "sweepCancel", !.id = i, !.ids = me.ids \ {i}])
      <4>1. sess'[Cron].pc = "sweepCancel" /\ sess'[Cron].id = i
        BY <1>0, <3>2 DEF Session, Goto, TypeInv, TypeOK
      <4> QED
        BY <2>2, <3>2, <4>1 DEF Fresh, MayCancel
    <3> QED
      BY <2>1, <3>1, <3>2
  <2> QED
    BY <1>0, <1>1, <1>2, <2>2, <2>3, TurnKeepsSerial, UnchangedLives
<1>5. CASE SweepCancel
  <2>1. me.id \in Used /\ res[me.id].status # "CHECKED_OUT" /\ res' = Cancelled(me.id)
    BY <1>0, <1>5 DEF SweepCancel, LocalsOK, Writers, Fresh
  <2>2. sess'[Cron].pc \in {"idle", "sweep"} /\ Others
    BY <1>0, <1>5 DEF SweepCancel, Swept, Idle, Goto, TypeInv, TypeOK
  <2>3. Fresh(sess[Cron])'
    BY <2>2 DEF Fresh
  <2> QED
    BY <1>0, <1>1, <1>2, <2>1, <2>2, <2>3, TurnKeepsSerial, CancelLives
<1> QED
  BY <1>3, <1>4, <1>5 DEF SweepStep

\* The clock changes no status, no stay and no handler.
LEMMA LapseIsSerial ==
  ASSUME TypeInv, SerialInv, NEW i \in Ids, HoldLapses(i)
  PROVE  SerialInv' /\ LifeStep /\ UNCHANGED day
<1>1. UNCHANGED <<day, sess>>
  BY DEF HoldLapses
<1>2. res[i] \in Row /\ res' = [res EXCEPT ![i] = [res[i] EXCEPT !.hold = "lapsed"]]
  BY UsedRows DEF HoldLapses, Used, Unused, NoRow
<1>3. \A j \in Ids : res'[j].status = res[j].status /\ (j # i => res'[j] = res[j])
  BY <1>2 DEF TypeInv, TypeOK, Row
<1>4. res'[i].stay = res[i].stay
  BY <1>2 DEF TypeInv, TypeOK, Row
<1>5. Arrivals(day)' = Arrivals(day)
  BY <1>1, <1>3, <1>4 DEF Arrivals
<1>6. \A s \in Sessions : LocalsOK(sess[s]) /\ Fresh(sess[s])
  BY DEF TypeInv, SerialInv
<1>7. \A s \in Sessions : Fresh(sess[s])'
  <2> SUFFICES ASSUME NEW s \in Sessions PROVE Fresh(sess[s])'
    OBVIOUS
  <2>1. sess[s].pc \in Writers => res'[sess[s].id].status = res[sess[s].id].status
    BY <1>3, <1>6 DEF LocalsOK, Used
  <2>2. \A j \in sess[s].ids : res'[j].status = res[j].status
    BY <1>3, <1>6 DEF LocalsOK, Used
  <2> QED
    BY <1>1, <1>5, <1>6, <2>1, <2>2 DEF Fresh, Writers
<1>8. Alone'
  BY <1>1 DEF Alone, Busy, SerialInv
<1> QED
  BY <1>1, <1>3, <1>7, <1>8 DEF SerialInv, LifeStep

\* One handler at a time: every step keeps the reads fresh, moves reservations
\* along their lifecycle and closes a day only when its arrivals are settled.
LEMMA SerialStep ==
  ASSUME MaxBusy = 1, TypeInv, SerialInv, [Next]_vars
  PROVE  SerialInv' /\ LifeStep /\ CloseStep
<1>1. CASE \E s \in Requests : Start(s)
  BY <1>1, StartIsFresh, UnchangedLives DEF CloseStep
<1>2. CASE \E s \in Requests : Step(s)
  BY <1>2, StepKeepsSerial, StepLives, StepCloses
<1>3. CASE SweepStart \/ SweepStep
  BY <1>3, SweepIsSerial DEF CloseStep
<1>4. CASE \E i \in Ids : HoldLapses(i)
  BY <1>4, LapseIsSerial DEF CloseStep
<1>5. CASE UNCHANGED vars
  <2>1. UNCHANGED <<res, day, sess>>
    BY <1>5 DEF vars
  <2>2. SerialInv'
    BY <2>1 DEF SerialInv, Alone, Busy, Fresh, Arrivals
  <2> QED
    BY <2>1, <2>2, UnchangedLives DEF CloseStep
<1> QED
  BY <1>1, <1>2, <1>3, <1>4, <1>5 DEF Next

LEMMA SerialInit == Init => SerialInv
  BY DEF Init, SerialInv, Alone, Busy, Fresh, Idle

\* When handlers do not overlap, the guards of cancel, check-in, check-out,
\* the webhook and the audit hold a reservation to its lifecycle.
THEOREM SerialLifecycle == ASSUME MaxBusy = 1 PROVE Spec => Lifecycle
<1>1. TypeInv /\ SerialInv /\ [Next]_vars => SerialInv' /\ LifeStep
  BY SerialStep
<1> QED
  BY <1>1, SerialInit, TypeInit, TypeStep, PTL DEF Spec, Lifecycle, LifeStep

\* When handlers do not overlap, the audit closes one day at a time, and no
\* confirmed arrival of that day is left behind.
THEOREM SerialAuditClosesDay == ASSUME MaxBusy = 1 PROVE Spec => AuditClosesDay
<1>1. TypeInv /\ SerialInv /\ [Next]_vars => SerialInv' /\ CloseStep
  BY SerialStep
<1> QED
  BY <1>1, SerialInit, TypeInit, TypeStep, PTL DEF Spec, AuditClosesDay, CloseStep

=============================================================================
