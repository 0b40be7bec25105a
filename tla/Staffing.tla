------------------------------ MODULE Staffing ------------------------------
(***************************************************************************)
(* The shifts of one member of staff: staff.service's createShift.         *)
(*                                                                         *)
(* It looks for an overlapping shift and inserts in two statements, and no *)
(* constraint of the database backs the check.  No code changes the status *)
(* of a shift, so none is ever SWAPPED or MISSED.                          *)
(*                                                                         *)
(* Abstracted: roles and notes.                                            *)
(***************************************************************************)
EXTENDS Naturals

CONSTANTS
    Managers,   \* bound: shifts being created at once
    Shifts,     \* bound: Shift rows, numbered in order of creation
    LastHour    \* bound: hours are 0 .. LastHour

VARIABLES
    shift,    \* shift[k]: its hours, and the shifts inserted since its check (history)
    manager   \* manager[m]: the shift being created

vars == <<shift, manager>>

NoShift == [from |-> 0, to |-> 0, blind |-> {}]
Idle    == [pc |-> "idle", from |-> 0, to |-> 0, blind |-> {}]

Init ==
    /\ shift = [k \in Shifts |-> NoShift]
    /\ manager = [m \in Managers |-> Idle]

Made == {k \in Shifts : shift[k] # NoShift}

\* Fault: a shift that starts within another is not seen.
OverlapsStart(s, from, to) == s.from < to /\ s.from >= from

\* Half-open: one may start when the other ends.
Overlaps(s, from, to) == s.from < to /\ s.to > from

\* createShift up to its check ...
CreateStart(m) ==
    /\ manager[m] = Idle
    /\ \E from, to \in 0 .. LastHour :
        /\ from < to
        /\ \A k \in Made : ~ Overlaps(shift[k], from, to)
        /\ manager' = [manager EXCEPT ![m] = [pc |-> "insert", from |-> from, to |-> to, blind |-> {}]]
    /\ UNCHANGED shift

\* ... and its insert, which the checks already made have not seen.
CreateInsert(m) ==
    /\ manager[m].pc = "insert"
    /\ \E k \in Shifts \ Made :
        /\ \A j \in Shifts \ Made : k <= j
        /\ shift' = [shift EXCEPT ![k] =
             [from |-> manager[m].from, to |-> manager[m].to, blind |-> manager[m].blind]]
        /\ manager' = [n \in Managers |->
             IF n = m \/ manager[n] = Idle THEN Idle
             ELSE [manager[n] EXCEPT !.blind = @ \cup {k}]]

Next == \E m \in Managers : CreateStart(m) \/ CreateInsert(m)

Spec == Init /\ [][Next]_vars

-----------------------------------------------------------------------------
(* Properties                                                              *)

\* The values the rows and the shifts being created can have.
TypeOK ==
    /\ shift \in [Shifts -> [from : 0 .. LastHour, to : 0 .. LastHour, blind : SUBSET Shifts]]
    /\ manager \in [Managers -> [pc : {"idle", "insert"}, from : 0 .. LastHour, to : 0 .. LastHour,
                                  blind : SUBSET Shifts]]

\* "Create a shift, rejecting overlaps for the same user": two shifts of a member of
\* staff overlap only if one was inserted between the other's check and its insert.
ShiftsDisjoint ==
    \A j, k \in Made :
        j # k /\ shift[j].from < shift[k].to /\ shift[k].from < shift[j].to =>
            j \in shift[k].blind \/ k \in shift[j].blind

=============================================================================
