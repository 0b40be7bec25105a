----------------------------- MODULE TenantGate -----------------------------
(***************************************************************************)
(* The gate of one hotel: auth/tenant.guard, which judges each request by  *)
(* the hotel's status and plan and keeps what it read of them for TTL.     *)
(*                                                                         *)
(* A request looks at the cache and, on a miss, notes the time, awaits the *)
(* row and fills the cache in a later turn: several fills overlap, and an  *)
(* edit of the row falls between any two of their steps.  The cache lives  *)
(* in the process and dies with it.                                        *)
(*                                                                         *)
(* Abstracted: what a status and a plan admit, which is a function of the  *)
(* row; a row counts as one value.  Time is a counter, TTL a few ticks.    *)
(***************************************************************************)
EXTENDS Naturals

CONSTANTS
    Terms,        \* the hotel's status, plan and overrides: what a request is judged by
    TTL,          \* TTL_MS
    Requests,     \* bound: requests at the gate at once
    LastInstant,  \* bound: instants are 0 .. LastInstant
    MaxRestarts   \* bound: restarts of the process

ASSUME GateAssumption == TTL \in Nat \ {0} /\ LastInstant \in Nat

VARIABLES
    now,
    row,       \* Hotel.status, planId and featureOverrides
    cache,     \* the entry of the hotel, or NoEntry
    req,       \* req[q]: when it came, where it is, and the terms it read or is judged by
    restarts,
    was        \* history: was[t]: the terms the row had during instant t

vars == <<now, row, cache, req, restarts, was>>

Instants == 0 .. LastInstant

NoEntry == [exp |-> 0]
Idle    == [pc |-> "idle"]

Init ==
    /\ now = 0
    /\ row \in Terms
    /\ cache = NoEntry
    /\ req = [q \in Requests |-> Idle]
    /\ restarts = 0
    /\ was = [t \in Instants |-> IF t = 0 THEN {row} ELSE {}]

-----------------------------------------------------------------------------

Tick ==
    /\ now < LastInstant
    /\ now' = now + 1
    /\ was' = [was EXCEPT ![now + 1] = {row}]
    /\ UNCHANGED <<row, cache, req, restarts>>

\* The platform suspends, reactivates or moves the hotel to another plan.  Nothing
\* tells the gate: invalidate has no caller.
Edit(terms) ==
    /\ row' = terms
    /\ was' = [was EXCEPT ![now] = @ \cup {terms}]
    /\ UNCHANGED <<now, cache, req, restarts>>

\* loadHotel, with an entry that has not expired: judged in the same turn.
Hit(q) ==
    /\ req[q].pc \in {"idle", "judged"}
    /\ cache.exp > now
    /\ req' = [req EXCEPT ![q] = [pc |-> "judged", at |-> now, terms |-> cache.terms]]
    /\ UNCHANGED <<now, row, cache, restarts, was>>

\* loadHotel, without one: the time is noted and the row asked for ...
Miss(q) ==
    /\ req[q].pc \in {"idle", "judged"}
    /\ cache.exp <= now
    /\ req' = [req EXCEPT ![q] = [pc |-> "read", at |-> now]]
    /\ UNCHANGED <<now, row, cache, restarts, was>>

\* ... the database answers ...
Read(q) ==
    /\ req[q].pc = "read"
    /\ req' = [req EXCEPT ![q] = [pc |-> "fill", at |-> req[q].at, terms |-> row]]
    /\ UNCHANGED <<now, row, cache, restarts, was>>

\* Fault: the entry lives for TTL from the fill.
ExpiryFromFill(asked) == now + TTL

\* The entry lives for TTL from when the row was asked for.
Expiry(asked) == asked + TTL

\* ... and the entry is written, over whatever a faster request left there.
Fill(q) ==
    /\ req[q].pc = "fill"
    /\ cache' = [exp |-> Expiry(req[q].at), terms |-> req[q].terms]
    /\ req' = [req EXCEPT ![q].pc = "judged"]
    /\ UNCHANGED <<now, row, restarts, was>>

Restart ==
    /\ restarts < MaxRestarts
    /\ cache' = NoEntry
    /\ req' = [q \in Requests |-> Idle]
    /\ restarts' = restarts + 1
    /\ UNCHANGED <<now, row, was>>

Next ==
    \/ Tick
    \/ \E terms \in Terms : Edit(terms)
    \/ \E q \in Requests : Hit(q) \/ Miss(q) \/ Read(q) \/ Fill(q)
    \/ Restart

Spec == Init /\ [][Next]_vars

-----------------------------------------------------------------------------
(* Properties                                                              *)

\* The values the cache and the requests can have.
TypeOK ==
    /\ now \in Instants
    /\ row \in Terms
    /\ cache \in {NoEntry} \cup [exp : Nat, terms : Terms]
    /\ req \in [Requests -> {Idle} \cup [pc : {"read"}, at : Instants]
                                      \cup [pc : {"fill", "judged"}, at : Instants, terms : Terms]]
    /\ restarts \in Nat
    /\ was \in [Instants -> SUBSET Terms]

\* "Cached briefly": a request is judged by terms the hotel had less than TTL before
\* the request came, or has had since, however slowly and in whatever order the
\* rows arrive.
JudgedByFreshTerms ==
    \A q \in Requests : req[q].pc = "judged" =>
        \E t \in 0 .. now : req[q].at < t + TTL /\ req[q].terms \in was[t]

=============================================================================
