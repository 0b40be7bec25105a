----------------------------- MODULE Attendance -----------------------------
(***************************************************************************)
(* The attendance of one member of staff and the hours paid for it:        *)
(* staff.service's clockIn, clockOut and payroll.                          *)
(*                                                                         *)
(* clockIn inserts whether a record is open or not; clockOut looks for the *)
(* open record that began last and closes it in a second statement, so a   *)
(* double click closes one twice.                                          *)
(*                                                                         *)
(* Abstracted: the geofence, which only flags a record; hourly rates and   *)
(* overtime, which payroll derives from the hours.                         *)
(***************************************************************************)
EXTENDS Integers, FiniteSets, Functions

CONSTANTS
    Records,   \* bound: AttendanceRecord rows, numbered in order of creation
    Clocks,    \* bound: requests to clock out in flight
    LastHour   \* bound: hours are 0 .. LastHour

VARIABLES
    hour,
    record,   \* record[k]: clockInAt, clockOutAt and the history of what crossed
    clock     \* clock[c]: the record a clock-out has found, or 0

vars == <<hour, record, clock>>

Hours    == 0 .. LastHour
Never    == -1
NoRecord == [in |-> Never, out |-> Never, crossed |-> FALSE]

Init ==
    /\ hour = 0
    /\ record = [k \in Records |-> NoRecord]
    /\ clock = [c \in Clocks |-> 0]

Made == {k \in Records : record[k] # NoRecord}
Open == {k \in Made : record[k].out = Never}

Tick ==
    /\ hour < LastHour
    /\ hour' = hour + 1
    /\ UNCHANGED <<record, clock>>

\* Fault: clocked in at the full shift, as the hour before.
RoundedDown == IF hour > 0 THEN hour - 1 ELSE 0

ClockInAt == hour

\* clockIn.  While a record is open, or about to be closed, the new one crosses it.
ClockIn ==
    /\ \E k \in Records \ Made :
        /\ \A j \in Records \ Made : k <= j
        /\ record' = [record EXCEPT ![k] =
             [in |-> ClockInAt, out |-> Never,
              crossed |-> Open # {} \/ \E c \in Clocks : clock[c] # 0]]
    /\ UNCHANGED <<hour, clock>>

\* clockOut finds the open record that began last ...
ClockOutFind(c) ==
    /\ clock[c] = 0
    /\ \E k \in Open :
        /\ \A j \in Open : record[j].in <= record[k].in
        /\ clock' = [clock EXCEPT ![c] = k]
    /\ UNCHANGED <<hour, record>>

\* ... and closes it, again if another has closed it meanwhile.
ClockOutWrite(c) ==
    /\ clock[c] # 0
    /\ record' = [record EXCEPT ![clock[c]].out = hour]
    /\ clock' = [clock EXCEPT ![c] = 0]
    /\ UNCHANGED hour

Next == Tick \/ ClockIn \/ \E c \in Clocks : ClockOutFind(c) \/ ClockOutWrite(c)

Spec == Init /\ [][Next]_vars

-----------------------------------------------------------------------------
(* payroll                                                                 *)

\* Fault: every closed record that touches the period.
PaidTouching(from, to) == {k \in Made \ Open : record[k].in <= to /\ record[k].out >= from}

\* The records of a period: begun and ended in it.
PaidIn(from, to) == {k \in Made \ Open : record[k].in >= from /\ record[k].out <= to}

HoursOf == [k \in Records |-> record[k].out - record[k].in]

HoursPaid(from, to) == SumFunctionOnSet(HoursOf, PaidIn(from, to))

-----------------------------------------------------------------------------
(* Properties                                                              *)

\* The values the rows and the requests can have; nothing is in the future.
TypeOK ==
    /\ hour \in Hours
    /\ record \in [Records -> [in : Never .. hour, out : Never .. hour, crossed : BOOLEAN]]
    /\ clock \in [Clocks -> Records \cup {0}]

\* An hour is worked once: a record begins when those before it have ended, unless it
\* was made while one was open or being closed, or made the one before cross it.
HoursWorkedOnce ==
    \A j, k \in Made : j < k /\ ~ record[k].crossed =>
        record[j].out # Never /\ record[j].out <= record[k].in

\* "Weekly/monthly payroll": two periods pay together what one of both pays, but for
\* the records that span the day between them; so no hour is paid in both.
PeriodsAddUp ==
    \A from, mid, to \in Hours : from <= mid /\ mid <= to =>
        HoursPaid(from, mid) + HoursPaid(mid, to) =
            HoursPaid(from, to)
              - SumFunctionOnSet(HoursOf, {k \in PaidIn(from, to) : record[k].in < mid /\ mid < record[k].out})

=============================================================================
