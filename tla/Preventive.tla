----------------------------- MODULE Preventive -----------------------------
(***************************************************************************)
(* Preventive maintenance: pm.service's hourly run, which opens a ticket   *)
(* for every schedule that is due and then moves the schedule on, and the  *)
(* escalation of tickets past their SLA by maintenance.service.            *)
(*                                                                         *)
(* Opening the ticket commits before its event and its notification, which *)
(* may fail: the run then catches the error and does not move the schedule *)
(* on.  The process may die between any two statements.  A job is started  *)
(* again only after its last run has ended.                                *)
(***************************************************************************)
EXTENDS Naturals, FiniteSets

CONSTANTS
    Schedules,  \* numbered from 1
    Tickets,    \* bound: tickets made by the run, numbered in order of creation
    Interval,   \* periods between two runs of a schedule
    LastPeriod, \* bound: the clock stops here
    MaxBroken   \* bound: deaths and failures

VARIABLES
    now,       \* the clock, in periods
    sched,     \* sched[s]: active, nextRunAt, and how often it was moved on
    spawned,   \* spawned[n]: the schedule, when it was made, its status, its escalations
    run,       \* runDue: the schedules it listed and has left, and the one it is at
    watch,     \* escalateOverdue: likewise over tickets
    broken     \* history: schedules whose ticket was made and then not moved on

vars == <<now, sched, spawned, run, watch, broken>>

NoTicket == [status |-> "none"]
Idle     == [pc |-> "idle", left |-> {}, cur |-> 0]

Init ==
    /\ now = 0
    /\ sched = [s \in Schedules |-> [active |-> TRUE, next |-> 0, moved |-> 0]]
    /\ spawned = [n \in Tickets |-> NoTicket]
    /\ run = Idle
    /\ watch = Idle
    /\ broken = [s \in Schedules |-> 0]

Made == {n \in Tickets : spawned[n] # NoTicket}

Broken == {p \in Schedules \X (1 .. MaxBroken) : p[2] <= broken[p[1]]}

Tick ==
    /\ now < LastPeriod
    /\ now' = now + 1
    /\ UNCHANGED <<sched, spawned, run, watch, broken>>

SetActive(s, active) ==
    /\ sched[s].active # active
    /\ sched' = [sched EXCEPT ![s].active = active]
    /\ UNCHANGED <<now, spawned, run, watch, broken>>

-----------------------------------------------------------------------------
(* runDue                                                                  *)

Due(s) == sched[s].active /\ sched[s].next <= now

RunDue ==
    /\ run = Idle
    /\ \E s \in Schedules : Due(s)
    /\ run' = [Idle EXCEPT !.pc = "register", !.left = {s \in Schedules : Due(s)}]
    /\ UNCHANGED <<now, sched, spawned, watch, broken>>

\* The run goes on with the schedules it has left.
After(s) == IF run.left = {s} THEN Idle
                                ELSE [Idle EXCEPT !.pc = "register", !.left = run.left \ {s}]

\* The ticket of s is open and the schedule not yet moved on.
Between(s) == run.pc = "advance" /\ run.cur = s

\* registerIssue of schedule s: its transaction.
RunRegister(s) ==
    /\ run.pc = "register" /\ s \in run.left
    /\ \E n \in Tickets \ Made :
        /\ \A m \in Tickets \ Made : n <= m
        /\ spawned' = [spawned EXCEPT ![n] =
                         [status |-> "OPEN", of |-> s, at |-> now, told |-> 0]]
    /\ run' = [run EXCEPT !.pc = "advance", !.cur = s]
    /\ UNCHANGED <<now, sched, watch, broken>>

\* Fault: the next run is an interval after the last was due, not after this one.
NextRunFromDue(s) == sched[s].next

\* nextRunAt = now + INTERVAL.
NextRun(s) == now + Interval

\* The schedule is moved on.
RunAdvance(s) ==
    /\ Between(s)
    /\ sched' = [sched EXCEPT ![s].next = NextRun(s), ![s].moved = @ + 1]
    /\ run' = After(s)
    /\ UNCHANGED <<now, spawned, watch, broken>>

\* The event or the notification of the ticket fails: logged, and the next one.
RunCatch(s) ==
    /\ Between(s)
    /\ Cardinality(Broken) < MaxBroken
    /\ broken' = [broken EXCEPT ![s] = @ + 1]
    /\ run' = After(s)
    /\ UNCHANGED <<now, sched, spawned, watch>>

-----------------------------------------------------------------------------
(* escalateOverdue                                                         *)

Overdue(n) == spawned[n] # NoTicket /\ spawned[n].status = "OPEN" /\ spawned[n].at < now

Escalate ==
    /\ watch = Idle
    /\ \E n \in Tickets : Overdue(n)
    /\ watch' = [Idle EXCEPT !.pc = "find", !.left = {n \in Tickets : Overdue(n)}]
    /\ UNCHANGED <<now, sched, spawned, run, broken>>

Passed(n) == IF watch.left = {n} THEN Idle
                                 ELSE [Idle EXCEPT !.pc = "find", !.left = watch.left \ {n}]

\* The notification of ticket n is looked up ...
EscalateFind(n) ==
    /\ watch.pc = "find" /\ n \in watch.left
    /\ watch' = IF spawned[n].told > 0 THEN Passed(n) ELSE [watch EXCEPT !.pc = "tell", !.cur = n]
    /\ UNCHANGED <<now, sched, spawned, run, broken>>

\* ... and created, if there was none.
EscalateTell(n) ==
    /\ watch.pc = "tell" /\ watch.cur = n
    /\ spawned' = [spawned EXCEPT ![n].told = @ + 1]
    /\ watch' = Passed(n)
    /\ UNCHANGED <<now, sched, run, broken>>

Resolve(n) ==
    /\ n \in Made /\ spawned[n].status = "OPEN"
    /\ spawned' = [spawned EXCEPT ![n].status = "RESOLVED"]
    /\ UNCHANGED <<now, sched, run, watch, broken>>

\* The process dies: both jobs are gone.
Die ==
    /\ run # Idle \/ watch # Idle
    /\ Cardinality(Broken) < MaxBroken
    /\ broken' = [s \in Schedules |-> broken[s] + (IF Between(s) THEN 1 ELSE 0)]
    /\ run' = Idle
    /\ watch' = Idle
    /\ UNCHANGED <<now, sched, spawned>>

Next ==
    \/ Tick \/ RunDue \/ Escalate \/ Die
    \/ \E s \in Schedules : \/ RunRegister(s) \/ RunAdvance(s) \/ RunCatch(s)
                            \/ \E active \in BOOLEAN : SetActive(s, active)
    \/ \E n \in Tickets : EscalateFind(n) \/ EscalateTell(n) \/ Resolve(n)

Spec == Init /\ [][Next]_vars

-----------------------------------------------------------------------------
(* Properties                                                              *)

\* The values the rows and the jobs can have.
TypeOK ==
    /\ now \in 0 .. LastPeriod
    /\ sched \in [Schedules -> [active : BOOLEAN, next : Nat, moved : Nat]]
    /\ spawned \in [Tickets -> {NoTicket} \cup
           [status : {"OPEN", "RESOLVED"}, of : Schedules, at : Nat, told : Nat]]
    /\ run \in [pc : {"idle", "register", "advance"}, left : SUBSET Schedules,
               cur : Schedules \cup {0}]
    /\ watch \in [pc : {"idle", "find", "tell"}, left : SUBSET Tickets,
                 cur : Tickets \cup {0}]
    /\ broken \in [Schedules -> Nat]

TicketsOf(s) == {n \in Made : spawned[n].of = s}

\* "spawn maintenance tickets for due schedules and advance them": whenever a
\* schedule was moved on its ticket had been opened, however runs died, and only
\* a run that broke in between opens one twice for one interval.
MaintenanceNeverSkipped ==
    \A s \in Schedules :
        /\ Cardinality(TicketsOf(s)) =
             sched[s].moved + broken[s] + (IF Between(s) THEN 1 ELSE 0)
        /\ \A n, m \in TicketsOf(s) :
             n < m /\ spawned[m].at < spawned[n].at + Interval => broken[s] > 0

=============================================================================
