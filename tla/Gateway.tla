------------------------------- MODULE Gateway -------------------------------
(***************************************************************************)
(* Money that arrives from outside: payments-gateway.service's webhook of  *)
(* a hosted checkout and dynamic-accounts.service's reconciliation of bank *)
(* transfers, with the idempotency key each derives for recordPayment.     *)
(*                                                                         *)
(* The provider delivers a webhook again until it is answered; a transfer  *)
(* is reported by the staff, as often as they like.  Any statement may     *)
(* fail, or the process die: the handler ends there and answers nothing.   *)
(*                                                                         *)
(* Abstracted: references, signatures, fees and currencies; the totals of  *)
(* the folio, which recordPayment computes (module Ledger); what else      *)
(* moves a reservation (module Booking).                                   *)
(***************************************************************************)
EXTENDS Naturals, FiniteSets, Functions

CONSTANTS
    Reservations,
    Cards,      \* bound: hosted checkouts
    Transfers,  \* bound: bank transfers
    Of,         \* Of[c]: the reservation in the reference of card payment c
    Amount,     \* Amount[c]: of transfer c
    Sessioned,  \* the transfers reported with the session id of the bank
    Accounts,   \* bound: DynamicVirtualAccount rows, numbered in order of creation
    Handlers,   \* bound: requests and webhooks in flight
    MaxFaults   \* bound: handlers that fail or die

VARIABLES
    booking,   \* booking[r]: the reservation's status
    account,   \* account[a]: the virtual account, or NoAccount
    paid,      \* the payments the guests have made
    into,      \* into[c]: the account transfer c was paid into, or 0 as yet
    stored,    \* the idempotency keys with a stored response
    rows,      \* rows[c]: Payment rows made for c
    answered,  \* the payments whose handler got to its answer
    handler,   \* handler[h]: a webhook or request in flight
    faults,
    exposed    \* history: keys two handlers carried at once, or a fault left unstored

vars == <<booking, account, paid, into, stored, rows, answered, handler, faults, exposed>>

Money == Cards \cup Transfers

NoAccount == [status |-> "none"]
Idle      == [pc |-> "idle"]

Init ==
    /\ booking = [r \in Reservations |-> "HELD"]
    /\ account = [a \in Accounts |-> NoAccount]
    /\ paid = {}
    /\ into = [c \in Transfers |-> 0]
    /\ stored = {}
    /\ rows = [c \in Money |-> 0]
    /\ answered = {}
    /\ handler = [h \in Handlers |-> Idle]
    /\ faults = 0
    /\ exposed = {}

-----------------------------------------------------------------------------
(* Outside                                                                 *)

\* The guest pays at the hosted checkout, or into an account, whatever its state.
PayByCard(c) ==
    /\ c \notin paid
    /\ paid' = paid \cup {c}
    /\ UNCHANGED <<booking, account, into, stored, rows, answered, handler, faults, exposed>>

Transfer(c, a) ==
    /\ c \notin paid
    /\ account[a] # NoAccount
    /\ paid' = paid \cup {c}
    /\ into' = [into EXCEPT ![c] = a]
    /\ UNCHANGED <<booking, account, stored, rows, answered, handler, faults, exposed>>

\* A hold is released by the sweep or the desk.
Release(r) ==
    /\ booking[r] = "HELD"
    /\ booking' = [booking EXCEPT ![r] = "CANCELLED"]
    /\ UNCHANGED <<account, paid, into, stored, rows, answered, handler, faults, exposed>>

\* The expiry of an account passes.
Expire(a) ==
    /\ account[a] # NoAccount /\ account[a].live
    /\ account' = [account EXCEPT ![a].live = FALSE]
    /\ UNCHANGED <<booking, paid, into, stored, rows, answered, handler, faults, exposed>>

-----------------------------------------------------------------------------
(* dynamic-accounts.service: getOrCreateForReservation                     *)

Usable(a, r) ==
    account[a] # NoAccount /\ account[a].of = r /\ account[a].status = "ACTIVE" /\ account[a].live

OpenStart(h, r) ==
    /\ handler[h] = Idle
    /\ \A a \in Accounts : ~ Usable(a, r)   \* one that is usable is returned instead
    /\ Cardinality({g \in Handlers : handler[g].pc = "open"})
         < Cardinality({a \in Accounts : account[a] = NoAccount})   \* bound: a row for each
    /\ handler' = [handler EXCEPT ![h] = [pc |-> "open", of |-> r]]
    /\ UNCHANGED <<booking, account, paid, into, stored, rows, answered, faults, exposed>>

\* The insert, which the others that looked already have not seen.
Open(h) ==
    /\ handler[h].pc = "open"
    /\ \E a \in Accounts :
        /\ account[a] = NoAccount /\ \A b \in Accounts : account[b] = NoAccount => a <= b
        /\ account' = [account EXCEPT ![a] =
             [status |-> "ACTIVE", of |-> handler[h].of, live |-> TRUE]]
    /\ handler' = [handler EXCEPT ![h] = Idle]
    /\ UNCHANGED <<booking, paid, into, stored, rows, answered, faults, exposed>>

-----------------------------------------------------------------------------
(* handleWebhook and reconcileTransfer                                     *)

ReservationOf(c) == IF c \in Cards THEN Of[c] ELSE account[into[c]].of

\* The idempotency key: without a session id two transfers of one amount into one
\* account have the same.
KeyOf(c) ==
    CASE c \in Cards     -> <<"pay", c>>
      [] c \in Sessioned -> <<"session", c>>
      [] OTHER           -> <<"account", into[c], Amount[c]>>

\* Fault: the time is part of the key where the bank gives no session.
KnownIfNumbered(c) == c \in Cards \cup Sessioned /\ KeyOf(c) \in stored

\* Fault: the key names the reservation and not the payment.
KnownByReservation(c) == \E d \in paid : KeyOf(d) \in stored /\ ReservationOf(d) = ReservationOf(c)

\* The key has a stored response.
Known(c) == KeyOf(c) \in stored

\* What comes after recordPayment.
Afterwards(c) == IF c \in Cards THEN "look" ELSE "mark"

\* Fault: a repeated webhook is answered at once.
AnswerHit(c) == "answer"

\* What comes after a stored response was found.
AfterHit(c) == Afterwards(c)

Carries(h, k) == handler[h].pc \in {"record", "store"} /\ KeyOf(handler[h].money) = k

\* Up to the lookup of the key.  A transfer's reservation was read before it.
Begin(h, c) ==
    /\ handler[h] = Idle
    /\ LET hit == Known(c) IN
        /\ handler' = [handler EXCEPT ![h] =
             [pc |-> IF hit THEN AfterHit(c) ELSE "record", money |-> c,
              held |-> c \in Transfers /\ booking[ReservationOf(c)] = "HELD"]]
        /\ exposed' = exposed \cup
             {k \in {KeyOf(c)} : ~ hit /\ \E g \in Handlers : Carries(g, k)}
    /\ UNCHANGED <<booking, account, paid, into, stored, rows, answered, faults>>

\* The provider delivers the event of a charge until it is answered.
Webhook(h, c) == c \in paid /\ c \notin answered /\ Begin(h, c)

\* The staff reports a transfer, for the first time or again.
Report(h, c) == c \in paid /\ Begin(h, c)

\* recordInner: its transaction and its event.
Record(h) ==
    /\ handler[h].pc = "record"
    /\ rows' = [rows EXCEPT ![handler[h].money] = @ + 1]
    /\ handler' = [handler EXCEPT ![h].pc = "store"]
    /\ UNCHANGED <<booking, account, paid, into, stored, answered, faults, exposed>>

\* idempotency.run: the response is stored.
Store(h) ==
    /\ handler[h].pc = "store"
    /\ stored' = stored \cup {KeyOf(handler[h].money)}
    /\ handler' = [handler EXCEPT ![h].pc = Afterwards(handler[h].money)]
    /\ UNCHANGED <<booking, account, paid, into, rows, answered, faults, exposed>>

\* "Ignore races": a response that cannot be stored stops nothing.
StoreFails(h) ==
    /\ handler[h].pc = "store"
    /\ faults < MaxFaults
    /\ faults' = faults + 1
    /\ exposed' = exposed \cup {KeyOf(handler[h].money)}
    /\ handler' = [handler EXCEPT ![h].pc = Afterwards(handler[h].money)]
    /\ UNCHANGED <<booking, account, paid, into, stored, rows, answered>>

\* handleWebhook: the status is read now ...
Look(h) ==
    /\ handler[h].pc = "look"
    /\ LET held == booking[ReservationOf(handler[h].money)] = "HELD" IN
        handler' = [handler EXCEPT ![h].held = held, ![h].pc = IF held THEN "confirm" ELSE "answer"]
    /\ UNCHANGED <<booking, account, paid, into, stored, rows, answered, faults, exposed>>

\* ... reconcileTransfer has read it at its beginning, and marks the account,
\* whatever amount arrived.
Mark(h) ==
    /\ handler[h].pc = "mark"
    /\ account' = [account EXCEPT ![into[handler[h].money]].status = "RECEIVED"]
    /\ handler' = [handler EXCEPT ![h].pc = IF handler[h].held THEN "confirm" ELSE "answer"]
    /\ UNCHANGED <<booking, paid, into, stored, rows, answered, faults, exposed>>

\* The reservation is CONFIRMED by its id, released or not meanwhile ...
Confirm(h) ==
    /\ handler[h].pc = "confirm"
    /\ booking' = [booking EXCEPT ![ReservationOf(handler[h].money)] = "CONFIRMED"]
    /\ handler' = [handler EXCEPT ![h].pc = "answer"]
    /\ UNCHANGED <<account, paid, into, stored, rows, answered, faults, exposed>>

\* ... or the constraint refuses, because the room of a released one was sold.
ConfirmRefused(h) ==
    /\ handler[h].pc = "confirm"
    /\ booking[ReservationOf(handler[h].money)] = "CANCELLED"
    /\ handler' = [handler EXCEPT ![h] = Idle]
    /\ UNCHANGED <<booking, account, paid, into, stored, rows, answered, faults, exposed>>

Answer(h) ==
    /\ handler[h].pc = "answer"
    /\ answered' = answered \cup {handler[h].money}
    /\ handler' = [handler EXCEPT ![h] = Idle]
    /\ UNCHANGED <<booking, account, paid, into, stored, rows, faults, exposed>>

\* A statement fails, the process dies, or the answer is lost.
Fail(h) ==
    /\ handler[h] # Idle
    /\ faults < MaxFaults
    /\ faults' = faults + 1
    /\ exposed' = IF handler[h].pc = "store" THEN exposed \cup {KeyOf(handler[h].money)} ELSE exposed
    /\ handler' = [handler EXCEPT ![h] = Idle]
    /\ UNCHANGED <<booking, account, paid, into, stored, rows, answered>>

-----------------------------------------------------------------------------

Proceed(h) ==
    \/ Open(h) \/ Record(h) \/ Store(h) \/ Look(h) \/ Mark(h)
    \/ Confirm(h) \/ ConfirmRefused(h) \/ Answer(h)

Next ==
    \/ \E c \in Cards : PayByCard(c)
    \/ \E c \in Transfers, a \in Accounts : Transfer(c, a)
    \/ \E r \in Reservations : Release(r)
    \/ \E a \in Accounts : Expire(a)
    \/ \E h \in Handlers :
        \/ \E r \in Reservations : OpenStart(h, r)
        \/ \E c \in Cards : Webhook(h, c)
        \/ \E c \in Transfers : Report(h, c)
        \/ Proceed(h) \/ StoreFails(h) \/ Fail(h)

Spec == Init /\ [][Next]_vars

\* A handler that started runs on, and the provider delivers again what was not
\* answered, in the end at a moment when the server takes it.
Fairness ==
    /\ \A h \in Handlers : WF_vars(Proceed(h))
    /\ \A c \in Cards : SF_vars(\E h \in Handlers : Webhook(h, c))

FairSpec == Spec /\ Fairness

-----------------------------------------------------------------------------
(* Properties                                                              *)

\* The values the rows and the handlers can have.
TypeOK ==
    /\ booking \in [Reservations -> {"HELD", "CONFIRMED", "CANCELLED"}]
    /\ account \in [Accounts -> {NoAccount} \cup [status : {"ACTIVE", "RECEIVED"}, of : Reservations, live : BOOLEAN]]
    /\ paid \subseteq Money
    /\ into \in [Transfers -> {0} \cup Accounts]
    /\ stored \subseteq {KeyOf(c) : c \in paid}
    /\ rows \in [Money -> Nat]
    /\ answered \subseteq paid
    /\ handler \in [Handlers ->
         {Idle} \cup [pc : {"open"}, of : Reservations]
                \cup [pc : {"record", "store", "look", "mark", "confirm", "answer"},
                      money : Money, held : BOOLEAN]]
    /\ faults \in 0 .. MaxFaults

\* The payments that share a key with c.
Twins(c) == {d \in paid : KeyOf(d) = KeyOf(c)}

\* "Record the payment idempotently": however often an event is delivered, its key has
\* one row, and one once it was answered, unless two handlers carried the key
\* at once or the response to one was not stored.
RecordedOncePerKey ==
    \A c \in paid : LET made == SumFunctionOnSet(rows, Twins(c)) IN
        /\ made > 1 => KeyOf(c) \in exposed
        /\ c \in answered => made >= 1

\* "A paid HELD booking is now confirmed": nothing is answered with success while the
\* reservation is still held or the account still waits for its transfer, even when
\* the answer is the repetition of one that failed half-way.
AnsweredIsSettled ==
    \A c \in answered :
        /\ booking[ReservationOf(c)] # "HELD"
        /\ c \in Transfers => account[into[c]].status = "RECEIVED"

\* A paid checkout is recorded, its hold confirmed or gone, and answered in the end,
\* although handlers fail half-way: the provider delivers it again.
PaidIsSettled == \A c \in Cards : c \in paid ~> c \in answered /\ rows[c] >= 1

=============================================================================
