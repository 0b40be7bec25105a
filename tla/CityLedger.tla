----------------------------- MODULE CityLedger -----------------------------
(***************************************************************************)
(* Tax invoices and the account of a company: billing.service.             *)
(*                                                                         *)
(* An invoice is made of what its folio charges when it is asked for, plus *)
(* the taxes of the hotel.  Its number is the count of the invoices plus   *)
(* one, read before the transaction that inserts it; (hotelId, number) is  *)
(* unique and a collision counts again.  The same transaction increments   *)
(* the balance of the company; a payment of it decrements it.              *)
(*                                                                         *)
(* Abstracted: what a folio charges (an amount, module Ledger), line texts *)
(* and PDFs; the daily journal, which only reads.                          *)
(***************************************************************************)
EXTENDS Integers, FiniteSets, Functions

CONSTANTS
    Clerks,       \* bound: invoices being made at once
    Companies,
    Taxes,        \* the active tax rates: records with percentBps and inclusive
    Charges,      \* bound: what a folio may charge
    MaxInvoices,  \* bound
    MaxAttempts,  \* collisions after which the request fails (5 in the code)
    MaxPaid       \* bound: the payments of one company

VARIABLES
    invoice,  \* the Invoice rows
    balance,  \* balance[k]: CompanyAccount.balance
    paid,     \* history: paid[k]: the sum of the payments of company k
    maker      \* maker[c]: the invoice being made

vars == <<invoice, balance, paid, maker>>

None == 0  \* no company account
Idle == [pc |-> "idle"]

Init ==
    /\ invoice = {}
    /\ balance = [k \in Companies |-> 0]
    /\ paid = [k \in Companies |-> 0]
    /\ maker = [c \in Clerks |-> Idle]

\* n / d rounded half up, for a natural n.
Round(n, d) == (2 * n + d) \div (2 * d)

\* Inclusive tax is already inside the amount.
TaxOn(t, net) == IF t.inclusive THEN Round(net * t.percentBps, 10000 + t.percentBps)
                                ELSE Round(net * t.percentBps, 10000)

TaxTotal(net) == SumFunctionOnSet([t \in Taxes |-> IF t.inclusive THEN 0 ELSE TaxOn(t, net)], Taxes)

\* Fault: the number is the count.
LastNumber(rows) == Cardinality(rows)

NextNumber(rows) == Cardinality(rows) + 1

\* generateFromReservation: the folio is read and the taxes computed.
Generate(c) ==
    /\ maker[c] = Idle
    /\ Cardinality(invoice) < MaxInvoices
    /\ \E k \in Companies \cup {None}, subtotal \in Charges :
         maker' = [maker EXCEPT ![c] =
            [pc |-> "number", company |-> k, total |-> subtotal + TaxTotal(subtotal), number |-> 0,
             attempt |-> 0]]
    /\ UNCHANGED <<invoice, balance, paid>>

\* nextNumber counts.
Count(c) ==
    /\ maker[c].pc = "number"
    /\ maker' = [maker EXCEPT ![c].pc = "insert", ![c].number = NextNumber(invoice)]
    /\ UNCHANGED <<invoice, balance, paid>>

Taken(number) == \E i \in invoice : i.number = number

\* The transaction: the row, and the balance of the company.
Insert(c) ==
    /\ maker[c].pc = "insert" /\ ~ Taken(maker[c].number)
    /\ LET s == maker[c] IN
        /\ invoice' = invoice \cup {[number |-> s.number, company |-> s.company, total |-> s.total]}
        /\ balance' = IF s.company = None THEN balance ELSE [balance EXCEPT ![s.company] = @ + s.total]
    /\ maker' = [maker EXCEPT ![c] = Idle]
    /\ UNCHANGED paid

\* The number is taken: count again, or give up.
Collide(c) ==
    /\ maker[c].pc = "insert" /\ Taken(maker[c].number)
    /\ LET s == maker[c] IN
        maker' = [maker EXCEPT ![c] = IF s.attempt < MaxAttempts
                    THEN [s EXCEPT !.pc = "number", !.attempt = s.attempt + 1] ELSE Idle]
    /\ UNCHANGED <<invoice, balance, paid>>

\* recordCompanyPayment: no amount is too high.
RecordCompanyPayment(k, amount) ==
    /\ paid[k] + amount <= MaxPaid
    /\ balance' = [balance EXCEPT ![k] = @ - amount]
    /\ paid' = [paid EXCEPT ![k] = @ + amount]
    /\ UNCHANGED <<invoice, maker>>

\* The process dies.
Die(c) ==
    /\ maker[c] # Idle
    /\ maker' = [maker EXCEPT ![c] = Idle]
    /\ UNCHANGED <<invoice, balance, paid>>

Next ==
    \/ \E c \in Clerks : Generate(c) \/ Count(c) \/ Insert(c) \/ Collide(c) \/ Die(c)
    \/ \E k \in Companies, amount \in 1 .. MaxPaid : RecordCompanyPayment(k, amount)

Spec == Init /\ [][Next]_vars

-----------------------------------------------------------------------------
(* Properties                                                              *)

\* The values the rows and the invoices being made can have.
TypeOK ==
    /\ \A i \in invoice : i.number \in Nat /\ i.company \in Companies \cup {None} /\ i.total \in Nat
    /\ balance \in [Companies -> Int] /\ paid \in [Companies -> 0 .. MaxPaid]
    /\ \A c \in Clerks : maker[c].pc \in {"idle", "number", "insert"}

\* "Retry on the (hotelId, number) unique race so concurrent invoices don't
\* collide": invoice numbers have no gap and no repetition, and the balance of a
\* company is what it was invoiced less what it paid, however invoices interleave,
\* collide, give up and die.
InvoicesTrace ==
    /\ {i.number : i \in invoice} = 1 .. Cardinality(invoice)
    /\ \A k \in Companies : balance[k] =
         SumFunctionOnSet([i \in invoice |-> i.total], {i \in invoice : i.company = k}) - paid[k]

=============================================================================
