---------------------------- MODULE MoneyProofs ----------------------------
(***************************************************************************)
(* CityLedger, Loyalty, Attendance, Pricing and Stock, for every number of *)
(* requests, rows, days, items and failures: what is summed up in one row  *)
(* is the sum of the rows it is made of.                                   *)
(*                                                                         *)
(* Each part is proved as a part of BackOffice.  A step of BackOffice is a *)
(* step of the part or leaves it as it is; the strengthening, its first    *)
(* state and its preservation are about the part's module alone.           *)
(***************************************************************************)
EXTENDS BackOffice, SumTheorems, FiniteSetTheorems, SequenceTheorems, TLAPS

-----------------------------------------------------------------------------
(* CityLedger                                                              *)
(*                                                                         *)
(* The numbers have no gap because a number that was counted, however long *)
(* ago, is at most one beyond the rows there are: if it is not taken it is *)
(* the next.                                                               *)

LEMMA CityLedgerMoves ==
  ASSUME [BackOfficeNext]_officeVars
  PROVE  [C!Next]_C!vars
<1>1. CASE CityLedgerStep
  BY <1>1 DEF CityLedgerStep
<1> QED
  BY <1>1 DEF BackOfficeNext, officeVars, cityLedger, C!vars, TurnoverStep, PreventiveStep, StockStep,
     DistributionStep, InboxStep, LoyaltyStep, StaffingStep, PricingStep, AttendanceStep, CampaignsStep

\* The operators of an instance are those of their modules.
LEMMA SameInCityLedger ==
  /\ \A s : C!Cardinality(s) = Cardinality(s)
  /\ \A f, s : C!SumFunctionOnSet(f, s) = SumFunctionOnSet(f, s)
<1>1. \A s : C!Cardinality(s) = Cardinality(s)
  BY Zenon DEF C!Cardinality, Cardinality
<1>2. \A f, s : C!SumFunctionOnSet(f, s) = SumFunctionOnSet(f, s)
  BY Zenon DEF C!SumFunctionOnSet, C!FoldFunctionOnSet, C!MapThenFoldSet, SumFunctionOnSet,
     FoldFunctionOnSet, MapThenFoldSet
<1> QED
  BY <1>1, <1>2

InvoiceRow == [number : Nat, company : Companies \cup {0}, total : Nat]
Drafting   == [pc : {"number", "insert"}, company : Companies \cup {0}, total : Nat, number : Nat,
               attempt : Int]

Invoiced(issued, k) == SumFunctionOnSet([i \in issued |-> i.total], {i \in issued : i.company = k})

InvoiceInv ==
    /\ invoice \subseteq InvoiceRow /\ IsFiniteSet(invoice)
    /\ balance \in [Companies -> Int] /\ paid \in [Companies -> 0 .. MaxPaid]
    /\ maker \in [Handlers -> {C!Idle} \cup Drafting]
    /\ {i.number : i \in invoice} = 1 .. Cardinality(invoice)
    /\ \A h \in Handlers : maker[h].pc = "insert" => maker[h].number \in 1 .. Cardinality(invoice) + 1
    /\ \A k \in Companies : balance[k] = Invoiced(invoice, k) - paid[k]

\* What was invoiced to a company grows by what is invoiced to it.
LEMMA InvoicedGrows ==
  ASSUME NEW issued \in SUBSET InvoiceRow, IsFiniteSet(issued), NEW new \in InvoiceRow, new \notin issued, NEW k
  PROVE  /\ Invoiced(issued, k) \in Int
         /\ Invoiced(issued \cup {new}, k) = Invoiced(issued, k) + (IF new.company = k THEN new.total ELSE 0)
<1> DEFINE all == issued \cup {new}
           f   == [i \in issued |-> i.total]
           g   == [i \in all |-> i.total]
           of  == {i \in issued : i.company = k}
           after == {i \in all : i.company = k}
<1>1. IsFiniteSet(of) /\ (\A i \in of : f[i] = g[i] /\ g[i] \in Int) /\ new \notin of /\ g[new] \in Int
  BY FS_Subset DEF InvoiceRow
<1>2. new.total \in Int /\ g[new] = new.total
  BY DEF InvoiceRow
<1>3. /\ new.company = k => after = of \cup {new}
      /\ new.company # k => after = of
  OBVIOUS
<1> HIDE DEF f, g, of, all, after
<1>4. SumFunctionOnSet(f, of) = SumFunctionOnSet(g, of) /\ SumFunctionOnSet(g, of) \in Int
  BY <1>1, SumSame, SumInt
<1>5. SumFunctionOnSet(g, of \cup {new}) = g[new] + SumFunctionOnSet(g, of)
  BY <1>1, SumAdd
<1>6. Invoiced(issued, k) = SumFunctionOnSet(f, of)
  BY DEF Invoiced, f, of
<1>7. Invoiced(all, k) = SumFunctionOnSet(g, after)
  BY DEF Invoiced, g, after
<1>8. Invoiced(all, k) = Invoiced(issued, k) + (IF new.company = k THEN new.total ELSE 0)
  <2>1. CASE new.company = k
    <3>1. Invoiced(all, k) = g[new] + SumFunctionOnSet(g, of)
      BY <1>3, <1>5, <1>7, <2>1
    <3> QED
      BY <1>2, <1>4, <1>6, <2>1, <3>1
  <2>2. CASE new.company # k
    BY <1>3, <1>4, <1>6, <1>7, <2>2
  <2> QED
    BY <2>1, <2>2
<1> QED
  BY <1>4, <1>6, <1>8 DEF all

\* A tax is no less than nothing.
LEMMA TaxIsNatural ==
  ASSUME NEW net \in Nat
  PROVE  C!TaxTotal(net) \in Nat
<1> DEFINE tax == [t \in Taxes |-> IF t.inclusive THEN 0 ELSE C!TaxOn(t, net)]
<1>1. ASSUME NEW t \in Taxes, ~ t.inclusive PROVE C!TaxOn(t, net) \in Nat
  <2>1. net * t.percentBps \in Nat
    BY TaxesAssumption
  <2> DEFINE n == net * t.percentBps
  <2>2. C!TaxOn(t, net) = (2 * n + 10000) \div 20000
    BY <1>1 DEF C!TaxOn, C!Round
  <2> HIDE DEF n
  <2>3. n \in Nat
    BY <2>1 DEF n
  <2> QED
    BY <2>2, <2>3
<1>2. \A t \in Taxes : tax[t] \in Nat
  BY <1>1
<1> HIDE DEF tax
<1>3. SumFunctionOnSet(tax, Taxes) \in Nat
  BY <1>2, SumNat, TaxesAssumption
<1> QED
  BY <1>3, SameInCityLedger DEF C!TaxTotal, tax

\* A draft that was counted ...
LEMMA DraftCounted ==
  ASSUME NEW s \in Drafting, NEW n \in Nat
  PROVE  /\ [s EXCEPT !.pc = "insert", !.number = n] \in Drafting
         /\ [s EXCEPT !.pc = "insert", !.number = n].number = n
<1>1. [s EXCEPT !.pc = "insert", !.number = n] \in Drafting
  BY DEF Drafting
<1>2. [s EXCEPT !.pc = "insert", !.number = n].number = n
  BY DEF Drafting
<1> QED
  BY <1>1, <1>2

\* ... and one that collided.
LEMMA DraftAgain ==
  ASSUME NEW s \in Drafting, NEW a \in Int
  PROVE  /\ [s EXCEPT !.pc = "number", !.attempt = a] \in Drafting
         /\ [s EXCEPT !.pc = "number", !.attempt = a].pc = "number"
<1>1. [s EXCEPT !.pc = "number", !.attempt = a] \in Drafting
  BY DEF Drafting
<1>2. [s EXCEPT !.pc = "number", !.attempt = a].pc = "number"
  BY DEF Drafting
<1> QED
  BY <1>1, <1>2

LEMMA InvoiceInit == C!Init => InvoiceInv
<1> SUFFICES ASSUME C!Init PROVE InvoiceInv
  OBVIOUS
<1>1. IsFiniteSet(invoice) /\ Cardinality(invoice) = 0
  BY FS_EmptySet DEF C!Init
<1>2. ASSUME NEW k PROVE Invoiced(invoice, k) = 0
  <2>1. {i \in invoice : i.company = k} = {}
    BY DEF C!Init
  <2> QED
    BY <2>1, SumEmpty DEF Invoiced
<1> QED
  BY <1>1, <1>2, CompaniesAssumption DEF C!Init, C!Idle, InvoiceInv, InvoiceRow, Drafting

LEMMA InvoiceStep ==
  ASSUME InvoiceInv, [C!Next]_C!vars
  PROVE  InvoiceInv'
<1> USE DEF InvoiceInv
<1> DEFINE count == Cardinality(invoice)
<1>0. count \in Nat
  BY FS_CardinalityType
<1>1. ASSUME NEW h \in Handlers, C!Generate(h)
      PROVE  InvoiceInv'
  <2>1. PICK k \in Companies \cup {0}, subtotal \in Charges :
           maker' = [maker EXCEPT ![h] = [pc |-> "number", company |-> k,
                        total |-> subtotal + C!TaxTotal(subtotal), number |-> 0, attempt |-> 0]]
    BY <1>1 DEF C!Generate, C!None
  <2>2. subtotal + C!TaxTotal(subtotal) \in Nat
    BY TaxIsNatural, CompaniesAssumption
  <2>3. maker' \in [Handlers -> {C!Idle} \cup Drafting]
    BY <2>1, <2>2 DEF Drafting
  <2>4. UNCHANGED <<invoice, balance, paid>>
    BY <1>1 DEF C!Generate
  <2> QED
    BY <2>1, <2>3, <2>4
<1>2. ASSUME NEW h \in Handlers, C!Count(h)
      PROVE  InvoiceInv'
  <2>1. maker[h] \in Drafting /\ UNCHANGED <<invoice, balance, paid>>
    BY <1>2 DEF C!Count, C!Idle
  <2> DEFINE n == count + 1
             next == [maker[h] EXCEPT !.pc = "insert", !.number = n]
  <2>2. maker' = [maker EXCEPT ![h] = next]
    BY <1>2, SameInCityLedger DEF C!Count, C!NextNumber
  <2>5. next \in Drafting /\ next.number = n
    <3>1. n \in Nat
      BY <1>0
    <3> HIDE DEF n
    <3> QED
      BY <2>1, <3>1, DraftCounted
  <2> HIDE DEF count, next
  <2>3. maker' \in [Handlers -> {C!Idle} \cup Drafting]
    BY <2>2, <2>5
  <2>4. \A g \in Handlers : maker'[g].pc = "insert" => maker'[g].number \in 1 .. count + 1
    BY <1>0, <2>2, <2>5 DEF count
  <2> QED
    BY <2>1, <2>3, <2>4 DEF count
<1>3. ASSUME NEW h \in Handlers, C!Insert(h)
      PROVE  InvoiceInv'
  <2> DEFINE s == maker[h]
             new == [number |-> s.number, company |-> s.company, total |-> s.total]
  <2>1. s \in Drafting /\ s.pc = "insert" /\ new \in InvoiceRow
    BY <1>3 DEF C!Insert, C!Idle, Drafting, InvoiceRow
  <2>2. /\ invoice' = invoice \cup {new}
        /\ balance' = IF s.company = 0 THEN balance ELSE [balance EXCEPT ![s.company] = @ + s.total]
        /\ maker' = [maker EXCEPT ![h] = C!Idle] /\ paid' = paid
        /\ \A i \in invoice : i.number # s.number
    BY <1>3 DEF C!Insert, C!Taken, C!None
  <2>3. s.number = count + 1 /\ new \notin invoice
    <3>1. s.number \in 1 .. count + 1 /\ s.number \notin 1 .. count
      BY <2>1, <2>2
    <3> HIDE DEF count, s
    <3>2. s.number = count + 1
      BY <1>0, <3>1
    <3> QED
      BY <2>2, <3>2
  <2>4. IsFiniteSet(invoice') /\ Cardinality(invoice') = count + 1
    <3> HIDE DEF new
    <3> QED
      BY <2>2, <2>3, FS_AddElement
  <2>5. {i.number : i \in invoice'} = 1 .. count + 1
    <3>1. {i.number : i \in invoice'} = {i.number : i \in invoice} \cup {s.number}
      <4>1. invoice' = invoice \cup {new} /\ new.number = s.number
        BY <2>2
      <4> HIDE DEF new, s
      <4> QED
        BY <4>1
    <3>2. {i.number : i \in invoice} = 1 .. count
      OBVIOUS
    <3> HIDE DEF count, s
    <3>3. (1 .. count) \cup {count + 1} = 1 .. count + 1
      BY <1>0
    <3> QED
      BY <2>3, <3>1, <3>2, <3>3
  <2>6. \A g \in Handlers : maker'[g].pc = "insert" => maker'[g].number \in 1 .. (count + 1) + 1
    <3>1. ASSUME NEW g \in Handlers, maker'[g].pc = "insert"
          PROVE  maker'[g].number \in 1 .. count + 1
      BY <2>2, <3>1 DEF C!Idle
    <3> HIDE DEF count
    <3> QED
      BY <1>0, <3>1
  <2>7. \A k \in Companies : balance'[k] = Invoiced(invoice', k) - paid'[k] /\ balance'[k] \in Int
    <3> SUFFICES ASSUME NEW k \in Companies
                 PROVE  balance'[k] = Invoiced(invoice', k) - paid[k] /\ balance'[k] \in Int
      BY <2>2
    <3>1. /\ Invoiced(invoice, k) \in Int
          /\ Invoiced(invoice', k) = Invoiced(invoice, k) + (IF new.company = k THEN new.total ELSE 0)
      BY <2>1, <2>2, <2>3, InvoicedGrows
    <3>2. balance'[k] = balance[k] + (IF s.company = k THEN s.total ELSE 0)
      BY <2>1, <2>2, CompaniesAssumption DEF Drafting
    <3>3. balance[k] = Invoiced(invoice, k) - paid[k] /\ paid[k] \in Int /\ s.total \in Int
      BY <2>1, CompaniesAssumption DEF Drafting
    <3> QED
      BY <3>1, <3>2, <3>3
  <2>8. balance' \in [Companies -> Int]
    <3>1. DOMAIN balance' = Companies /\ balance' = [k \in Companies |-> balance'[k]]
      BY <2>2
    <3> QED
      BY <2>7, <3>1
  <2>9. maker' \in [Handlers -> {C!Idle} \cup Drafting] /\ invoice' \subseteq InvoiceRow
    BY <2>1, <2>2
  <2> QED
    BY <2>2, <2>4, <2>5, <2>6, <2>7, <2>8, <2>9
<1>4. ASSUME NEW h \in Handlers, C!Collide(h) \/ C!Die(h)
      PROVE  InvoiceInv'
  <2>1. maker[h] \in Drafting /\ UNCHANGED <<invoice, balance, paid>>
    BY <1>4 DEF C!Collide, C!Die, C!Idle
  <2> DEFINE again == [maker[h] EXCEPT !.pc = "number", !.attempt = @ + 1]
  <2>2. maker' = [maker EXCEPT ![h] = C!Idle] \/ maker' = [maker EXCEPT ![h] = again]
    <3>1. CASE C!Collide(h)
      <4>1. maker' = [maker EXCEPT ![h] = IF maker[h].attempt < MaxAttempts THEN again ELSE C!Idle]
        BY <3>1 DEF C!Collide
      <4> HIDE DEF again
      <4> QED
        BY <4>1
    <3>2. CASE C!Die(h)
      BY <3>2 DEF C!Die
    <3> QED
      BY <1>4, <3>1, <3>2
  <2>5. again \in Drafting /\ again.pc = "number" /\ C!Idle.pc = "idle"
    <3>1. maker[h].attempt + 1 \in Int
      BY <2>1 DEF Drafting
    <3>2. again \in Drafting /\ again.pc = "number"
      BY <2>1, <3>1, DraftAgain
    <3> QED
      BY <3>2 DEF C!Idle
  <2> HIDE DEF again
  <2>3. maker' \in [Handlers -> {C!Idle} \cup Drafting]
    BY <2>2, <2>5
  <2>4. \A g \in Handlers : maker'[g].pc = "insert" => maker'[g] = maker[g]
    BY <2>2, <2>5
  <2> QED
    BY <2>1, <2>3, <2>4
<1>5. ASSUME NEW k \in Companies, NEW amount \in 1 .. MaxPaid, C!RecordCompanyPayment(k, amount)
      PROVE  InvoiceInv'
  <2>1. /\ balance' = [balance EXCEPT ![k] = @ - amount] /\ paid' = [paid EXCEPT ![k] = @ + amount]
        /\ UNCHANGED <<invoice, maker>> /\ paid[k] + amount <= MaxPaid
    BY <1>5 DEF C!RecordCompanyPayment
  <2>2. balance' \in [Companies -> Int] /\ paid' \in [Companies -> 0 .. MaxPaid]
    BY <2>1, CompaniesAssumption
  <2>3. ASSUME NEW j \in Companies PROVE balance'[j] = Invoiced(invoice, j) - paid'[j]
    <3>1. Invoiced(invoice, j) = balance[j] + paid[j]
      <4>1. Invoiced(invoice, j) \in Int
        <5> DEFINE f == [i \in invoice |-> i.total]
                   of == {i \in invoice : i.company = j}
        <5>1. IsFiniteSet(of) /\ \A i \in of : f[i] \in Int
          BY FS_Subset DEF InvoiceRow
        <5> HIDE DEF f, of
        <5> QED
          BY <5>1, SumInt DEF Invoiced, f, of
      <4> QED
        BY <4>1, CompaniesAssumption
    <3> QED
      BY <2>1, <3>1, CompaniesAssumption
  <2> QED
    BY <2>1, <2>2, <2>3
<1>6. CASE UNCHANGED C!vars
  BY <1>6 DEF C!vars
<1> QED
  BY <1>1, <1>2, <1>3, <1>4, <1>5, <1>6 DEF C!Next

\* The invariant, in every state of the back office.
LEMMA InvoiceInvHolds == BackOfficeSpec => []InvoiceInv
<1>1. BackOfficeInit => InvoiceInv
  BY InvoiceInit DEF BackOfficeInit
<1>2. InvoiceInv /\ [BackOfficeNext]_officeVars => InvoiceInv'
  BY InvoiceStep, CityLedgerMoves
<1> QED
  BY <1>1, <1>2, PTL DEF BackOfficeSpec

\* Invoice numbers have no gap and no repetition, and the balance of a company is what it
\* was invoiced less what it paid: invoices.service and city-ledger.service, for any
\* number of clerks, companies, taxes and collisions.
THEOREM InvoicesAlwaysTrace == BackOfficeSpec => []InvoicesTrace
<1>1. InvoiceInv => InvoicesTrace
  BY SameInCityLedger DEF InvoiceInv, Invoiced, InvoicesTrace, C!InvoicesTrace
<1> QED
  BY <1>1, InvoiceInvHolds, PTL

-----------------------------------------------------------------------------
(* Loyalty                                                                 *)
(*                                                                         *)
(* That no redemption takes more than there is rests on what the one in    *)
(* flight will take: nothing else takes points while it is, so it is still *)
(* there when it is taken.                                                 *)

LEMMA LoyaltyMoves ==
  ASSUME [BackOfficeNext]_officeVars
  PROVE  [L!Next]_L!vars
<1>1. CASE LoyaltyStep
  BY <1>1 DEF LoyaltyStep
<1> QED
  BY <1>1 DEF BackOfficeNext, officeVars, loyalty, L!vars, TurnoverStep, PreventiveStep, StockStep,
     DistributionStep, InboxStep, CityLedgerStep, StaffingStep, PricingStep, AttendanceStep, CampaignsStep

LEMMA SameInLoyalty == \A f, s : L!SumFunctionOnSet(f, s) = SumFunctionOnSet(f, s)
BY Zenon DEF L!SumFunctionOnSet, L!FoldFunctionOnSet, L!MapThenFoldSet, SumFunctionOnSet,
   FoldFunctionOnSet, MapThenFoldSet

GuestRow == [spent : Nat, points : Int, tier : L!Tiers, vip : BOOLEAN]

Spending == SumFunctionOnSet([p \in Payments |-> pay[p].amount], L!Heard)

LoyaltyTyped ==
    /\ L!TypeOK
    /\ guest \in GuestRow /\ rows \in Int /\ slipped \in BOOLEAN

\* The redemption in flight has its points.
Covered ==
    /\ guest.points >= 0
    /\ \A g, h \in Handlers : redeemer[g].pc = "apply" /\ redeemer[h].pc = "apply" => g = h
    /\ \A h \in Handlers : redeemer[h].pc = "apply" => redeemer[h].take <= guest.points

LoyaltyInv ==
    /\ LoyaltyTyped
    /\ guest.spent = Spending
    /\ guest.tier = L!TierFor(guest.spent)
    /\ guest.points = rows
    /\ ~ slipped => Covered

LEMMA TierIsOne == \A n : L!TierFor(n) \in L!Tiers
BY DEF L!TierFor, L!Tiers

LEMMA LoyaltyInit == L!Init => LoyaltyInv
<1> SUFFICES ASSUME L!Init PROVE LoyaltyInv
  OBVIOUS
<1>1. LoyaltyTyped
  <2>1. pay \in [Payments -> [amount : Amounts \cup {0}, way : {"none", "committed", "heard", "lost"}]]
    BY DEF L!Init
  <2>2. redeemer \in [Handlers -> [pc : {"idle", "apply"}, take : Nat]]
    BY DEF L!Init, L!Idle
  <2>3. guest \in GuestRow /\ guest.spent \in Nat /\ guest.points \in Int
        /\ guest.tier \in L!Tiers /\ guest.vip \in BOOLEAN
    BY DEF L!Init, GuestRow, L!Tiers
  <2> QED
    BY <2>1, <2>2, <2>3 DEF L!Init, LoyaltyTyped, L!TypeOK
<1>2. Spending = 0
  <2>1. L!Heard = {}
    BY DEF L!Init, L!Heard
  <2> QED
    BY <2>1, SumEmpty DEF Spending
<1>3. L!TierFor(0) = "STANDARD"
  BY LoyaltyAssumption DEF L!TierFor
<1> QED
  BY <1>1, <1>2, <1>3 DEF L!Init, L!Idle, LoyaltyInv, Covered

\* A step that leaves payments and spending alone, and takes no points.
LEMMA PointsGiven ==
  ASSUME LoyaltyInv, pay' = pay, guest' \in GuestRow, guest'.spent = guest.spent, guest'.tier = guest.tier,
         NEW n \in Nat, guest'.points = guest.points + n, rows' = rows + n, UNCHANGED <<redeemer, slipped>>
  PROVE  LoyaltyInv'
<1>1. Spending' = Spending
  BY DEF Spending, L!Heard
<1>2. LoyaltyTyped'
  BY DEF LoyaltyInv, LoyaltyTyped, L!TypeOK, GuestRow
<1>3. Covered => Covered'
  BY DEF Covered, LoyaltyInv, LoyaltyTyped, L!TypeOK, GuestRow
<1> QED
  BY <1>1, <1>2, <1>3 DEF LoyaltyInv

\* A payment that moves on without being heard.
LEMMA PaymentUnheard ==
  ASSUME LoyaltyInv, NEW p \in Payments, pay[p].way # "heard", UNCHANGED <<guest, rows, redeemer, slipped>>,
         NEW row \in [amount : Amounts \cup {0}, way : {"none", "committed", "heard", "lost"}],
         pay' = [pay EXCEPT ![p] = row], row.way = "heard" => row.amount <= 0
  PROVE  LoyaltyInv'
<1>0. pay \in [Payments -> [amount : Amounts \cup {0}, way : {"none", "committed", "heard", "lost"}]]
  BY DEF LoyaltyInv, LoyaltyTyped, L!TypeOK
<1>1. \A q \in L!Heard : q # p /\ pay'[q] = pay[q]
  BY <1>0 DEF L!Heard
<1>2. L!Heard' = L!Heard
  <2>0. \A x \in Amounts \cup {0} : x \in Int
    BY LoyaltyAssumption
  <2>1. row.amount \in Int
    BY <2>0
  <2> QED
    BY <1>0, <2>1 DEF L!Heard
<1> DEFINE f == [q \in Payments |-> pay[q].amount]
           g == [q \in Payments |-> pay'[q].amount]
<1>3. IsFiniteSet(L!Heard) /\ \A q \in L!Heard : f[q] = g[q]
  BY <1>1, FS_Subset, LoyaltyAssumption DEF L!Heard
<1>4. Spending = SumFunctionOnSet(f, L!Heard) /\ Spending' = SumFunctionOnSet(g, L!Heard)
  BY <1>2 DEF Spending
<1> HIDE DEF f, g
<1>5. Spending' = Spending
  BY <1>3, <1>4, SumSame
<1>6. LoyaltyTyped'
  BY <1>0 DEF LoyaltyInv, LoyaltyTyped, L!TypeOK
<1> QED
  BY <1>5, <1>6 DEF LoyaltyInv, Covered

LEMMA LoyaltyStepInv ==
  ASSUME LoyaltyInv, [L!Next]_L!vars
  PROVE  LoyaltyInv'
<1> DEFINE PayRow == [amount : Amounts \cup {0}, way : {"none", "committed", "heard", "lost"}]
<1>0. /\ pay \in [Payments -> PayRow] /\ guest \in GuestRow /\ rows \in Int
      /\ redeemer \in [Handlers -> [pc : {"idle", "apply"}, take : Nat]]
  BY DEF LoyaltyInv, LoyaltyTyped, L!TypeOK
<1>1. ASSUME NEW p \in Payments, L!PaymentCommits(p)
      PROVE  LoyaltyInv'
  <2>1. PICK a \in Amounts : pay' = [pay EXCEPT ![p] = [amount |-> a, way |-> "committed"]]
    BY <1>1 DEF L!PaymentCommits
  <2>2. [amount |-> a, way |-> "committed"] \in PayRow
    OBVIOUS
  <2> QED
    BY <1>1, <2>1, <2>2, PaymentUnheard DEF L!PaymentCommits
<1>2. ASSUME NEW p \in Payments, L!EventLost(p)
      PROVE  LoyaltyInv'
  <2>1. /\ pay' = [pay EXCEPT ![p] = [pay[p] EXCEPT !.way = "lost"]]
        /\ [pay[p] EXCEPT !.way = "lost"] \in PayRow /\ [pay[p] EXCEPT !.way = "lost"].way = "lost"
    BY <1>0, <1>2 DEF L!EventLost
  <2> QED
    BY <1>2, <2>1, PaymentUnheard DEF L!EventLost
<1>3. ASSUME NEW p \in Payments, L!OnPaymentRecorded(p), pay[p].amount <= 0
      PROVE  LoyaltyInv'
  <2> DEFINE row == [pay[p] EXCEPT !.way = "heard"]
  <2>1. pay' = [pay EXCEPT ![p] = row] /\ UNCHANGED <<guest, rows, redeemer, slipped>>
    BY <1>3 DEF L!OnPaymentRecorded, L!PassedOver
  <2>2. row \in PayRow /\ row.amount = pay[p].amount
    BY <1>0
  <2> HIDE DEF row
  <2> QED
    BY <1>3, <2>1, <2>2, PaymentUnheard DEF L!OnPaymentRecorded
<1>4. ASSUME NEW p \in Payments, L!OnPaymentRecorded(p), ~ (pay[p].amount <= 0)
      PROVE  LoyaltyInv'
  <2> DEFINE a == pay[p].amount
             earned == a \div PerPoint
             tier == L!TierFor(guest.spent + a)
             f == [q \in Payments |-> pay[q].amount]
             g == [q \in Payments |-> pay'[q].amount]
  <2>1. /\ pay' = [pay EXCEPT ![p].way = "heard"] /\ pay[p].way = "committed"
        /\ guest' = [spent |-> guest.spent + a, points |-> guest.points + earned,
                     tier |-> tier, vip |-> guest.vip \/ tier \in {"GOLD", "PLATINUM"}]
        /\ rows' = rows + earned /\ UNCHANGED <<redeemer, slipped>>
    BY <1>4 DEF L!OnPaymentRecorded, L!PassedOver, L!TierBasis
  <2>2. a \in Int /\ a > 0
    <3>1. \A x \in Amounts \cup {0} : x \in Int
      BY LoyaltyAssumption
    <3>2. a \in Int
      BY <1>0, <3>1
    <3> QED
      BY <1>4, <3>2
  <2>3. earned \in Nat
    <3> HIDE DEF a
    <3> QED
      BY <2>2, LoyaltyAssumption
  <2>4. pay' \in [Payments -> PayRow] /\ \A q \in Payments : pay'[q].amount = pay[q].amount
    BY <1>0, <2>1
  <2>5. L!Heard' = L!Heard \cup {p} /\ p \notin L!Heard
    BY <1>0, <2>1, <2>2 DEF L!Heard
  <2>6. f = g /\ f[p] = a
    BY <2>4
  <2>7. IsFiniteSet(L!Heard) /\ \A q \in L!Heard : f[q] \in Int
    <3>1. \A x \in Amounts \cup {0} : x \in Int
      BY LoyaltyAssumption
    <3>2. \A q \in Payments : f[q] \in Int
      BY <1>0, <3>1
    <3> QED
      BY <3>2, FS_Subset, LoyaltyAssumption DEF L!Heard
  <2>8. Spending' = a + Spending
    <3>1. Spending = SumFunctionOnSet(f, L!Heard) /\ Spending' = SumFunctionOnSet(g, L!Heard')
      BY DEF Spending
    <3> HIDE DEF f, g, a
    <3> QED
      BY <2>2, <2>5, <2>6, <2>7, <3>1, SumAdd
  <2>9. guest.spent \in Nat /\ guest.points \in Int /\ guest.vip \in BOOLEAN /\ tier \in L!Tiers
    BY <1>0, TierIsOne DEF GuestRow
  <2> HIDE DEF a, earned, tier
  <2>10. guest' \in GuestRow
    BY <2>1, <2>2, <2>3, <2>9 DEF GuestRow
  <2>11. /\ guest'.spent = guest.spent + a /\ guest'.points = guest.points + earned
         /\ guest'.tier = tier
    BY <2>1
  <2>12. LoyaltyTyped'
    BY <1>0, <2>1, <2>3, <2>4, <2>10 DEF LoyaltyInv, LoyaltyTyped, L!TypeOK, GuestRow
  <2>13. guest'.spent = Spending' /\ guest'.tier = L!TierFor(guest'.spent)
    <3>1. guest.spent + a = a + guest.spent
      BY <2>2, <2>9
    <3> QED
      BY <2>8, <2>11, <3>1 DEF LoyaltyInv, tier
  <2>14. guest'.points = rows'
    BY <2>1, <2>11 DEF LoyaltyInv
  <2>15. Covered => Covered'
    BY <1>0, <2>1, <2>3, <2>9, <2>11 DEF Covered
  <2> QED
    BY <2>1, <2>12, <2>13, <2>14, <2>15 DEF LoyaltyInv
<1>5. ASSUME NEW n \in {-1, 1}, L!AdjustPoints(n)
      PROVE  LoyaltyInv'
  <2>1. /\ guest' = [guest EXCEPT !.points = @ + n] /\ rows' = rows + n
        /\ UNCHANGED <<pay, redeemer>> /\ slipped' = (slipped \/ n < 0)
    BY <1>5 DEF L!AdjustPoints, L!ApplyPoints
  <2>2. guest' \in GuestRow /\ guest'.spent = guest.spent /\ guest'.tier = guest.tier
        /\ guest'.points = guest.points + n
    BY <1>0, <2>1 DEF GuestRow
  <2>3. CASE n = 1
    <3>1. slipped' = slipped
      BY <2>1, <2>3 DEF LoyaltyInv, LoyaltyTyped
    <3> QED
      BY <2>1, <2>2, <2>3, <3>1, PointsGiven
  <2>4. CASE n = -1
    <3>0. n < 0
      BY <2>4
    <3>1. slipped'
      BY <2>1, <3>0, Zenon
    <3>2. slipped' \in BOOLEAN
      BY <2>1
    <3>3. Spending' = Spending
      BY <2>1 DEF Spending, L!Heard
    <3>4. LoyaltyTyped'
      BY <1>0, <2>1, <2>2, <2>4, <3>2 DEF LoyaltyInv, LoyaltyTyped, L!TypeOK, GuestRow
    <3> QED
      BY <2>1, <2>2, <3>1, <3>3, <3>4 DEF LoyaltyInv
  <2> QED
    BY <2>3, <2>4
<1>6. ASSUME NEW h \in Handlers, NEW n \in 1 .. 2, L!RedeemRead(h, n)
      PROVE  LoyaltyInv'
  <2> DEFINE take == IF n < guest.points THEN n ELSE guest.points
  <2>1. /\ redeemer' = [redeemer EXCEPT ![h] = [pc |-> "apply", take |-> take]]
        /\ guest.points >= Threshold /\ UNCHANGED <<pay, guest, rows>>
        /\ slipped' = (slipped \/ \E g \in Handlers : redeemer[g] # L!Idle)
    BY <1>6 DEF L!RedeemRead
  <2>2. guest.points \in Nat
    BY <1>0, <2>1, LoyaltyAssumption DEF GuestRow
  <2>3. take \in Nat /\ take <= guest.points
    BY <2>2
  <2> HIDE DEF take
  <2>4. ~ slipped' => ~ slipped /\ \A g \in Handlers : redeemer[g] = L!Idle
    BY <2>1, Zenon
  <2>5. Spending' = Spending
    BY <2>1 DEF Spending, L!Heard
  <2>6. slipped' \in BOOLEAN
    BY <2>1
  <2>7. LoyaltyTyped'
    BY <1>0, <2>1, <2>3, <2>6 DEF LoyaltyInv, LoyaltyTyped, L!TypeOK
  <2>8. ~ slipped' => Covered'
    BY <1>0, <2>1, <2>2, <2>3, <2>4 DEF Covered, L!Idle
  <2> QED
    BY <2>1, <2>5, <2>7, <2>8 DEF LoyaltyInv
<1>7. ASSUME NEW h \in Handlers, L!RedeemApply(h)
      PROVE  LoyaltyInv'
  <2> DEFINE take == redeemer[h].take
  <2>1. /\ guest' = [guest EXCEPT !.points = @ + (-take)] /\ rows' = rows + (-take)
        /\ redeemer' = [redeemer EXCEPT ![h] = L!Idle] /\ UNCHANGED <<pay, slipped>>
        /\ redeemer[h].pc = "apply"
    BY <1>7 DEF L!RedeemApply, L!ApplyPoints
  <2>2. take \in Nat
    BY <1>0
  <2>3. guest' \in GuestRow /\ guest'.spent = guest.spent /\ guest'.tier = guest.tier
        /\ guest'.points = guest.points + (-take)
    <3> HIDE DEF take
    <3> QED
      BY <1>0, <2>1, <2>2 DEF GuestRow
  <2>4. Spending' = Spending
    BY <2>1 DEF Spending, L!Heard
  <2>5. LoyaltyTyped'
    BY <1>0, <2>1, <2>2, <2>3 DEF LoyaltyInv, LoyaltyTyped, L!TypeOK, GuestRow, L!Idle
  <2>6. Covered => Covered'
    BY <1>0, <2>1, <2>2, <2>3 DEF Covered, GuestRow, L!Idle
  <2> QED
    BY <2>1, <2>3, <2>4, <2>5, <2>6 DEF LoyaltyInv
<1>8. ASSUME NEW vip \in BOOLEAN, L!UpdateProfile(vip)
      PROVE  LoyaltyInv'
  <2>1. guest' = [guest EXCEPT !.vip = vip] /\ UNCHANGED <<pay, rows, redeemer, slipped>>
    BY <1>8 DEF L!UpdateProfile
  <2>2. /\ guest' \in GuestRow /\ guest'.spent = guest.spent /\ guest'.tier = guest.tier
        /\ guest'.points = guest.points + 0 /\ rows' = rows + 0
    BY <1>0, <2>1 DEF GuestRow
  <2> QED
    BY <2>1, <2>2, PointsGiven
<1>9. CASE UNCHANGED L!vars
  BY <1>9 DEF L!vars, LoyaltyInv, LoyaltyTyped, L!TypeOK, Covered, Spending, L!Heard
<1> QED
  BY <1>1, <1>2, <1>3, <1>4, <1>5, <1>6, <1>7, <1>8, <1>9 DEF L!Next

\* The invariant, in every state of the back office.
LEMMA LoyaltyInvHolds == BackOfficeSpec => []LoyaltyInv
<1>1. BackOfficeInit => LoyaltyInv
  BY LoyaltyInit DEF BackOfficeInit
<1>2. LoyaltyInv /\ [BackOfficeNext]_officeVars => LoyaltyInv'
  BY LoyaltyStepInv, LoyaltyMoves
<1> QED
  BY <1>1, <1>2, PTL DEF BackOfficeSpec

\* Spending, tier and points of a guest trace to payments and loyalty rows, and no
\* redemption overdraws them: guests.service, for any payments, tiers and redeemers.
THEOREM LoyaltyAlwaysTraces == BackOfficeSpec => []LoyaltyTraces
<1>1. LoyaltyInv => LoyaltyTraces
  BY SameInLoyalty DEF LoyaltyInv, Covered, Spending, LoyaltyTraces, L!LoyaltyTraces
<1> QED
  BY <1>1, LoyaltyInvHolds, PTL

-----------------------------------------------------------------------------
(* Attendance                                                              *)
(*                                                                         *)
(* A record made while none was open and no clock-out held one finds those *)
(* before it closed for good: nothing can find them again.  The hours add  *)
(* up because a record ends no sooner than it begins, so that the records  *)
(* both periods pay have no hours.                                         *)

LEMMA AttendanceMoves ==
  ASSUME [BackOfficeNext]_officeVars
  PROVE  [W!Next]_W!vars
<1>1. CASE AttendanceStep
  BY <1>1 DEF AttendanceStep
<1> QED
  BY <1>1 DEF BackOfficeNext, officeVars, attendance, W!vars, TurnoverStep, PreventiveStep, StockStep,
     DistributionStep, InboxStep, CityLedgerStep, LoyaltyStep, StaffingStep, PricingStep, CampaignsStep

LEMMA SameInAttendance == \A f, s : W!SumFunctionOnSet(f, s) = SumFunctionOnSet(f, s)
BY Zenon DEF W!SumFunctionOnSet, W!FoldFunctionOnSet, W!MapThenFoldSet, SumFunctionOnSet,
   FoldFunctionOnSet, MapThenFoldSet

AttendanceRow == [in : Int, out : Int, crossed : BOOLEAN]

\* Record j has ended by the time k begins, and no clock-out can touch it again.
EndedFor(j, k) ==
    /\ record[j].out # -1 /\ record[j].out <= record[k].in
    /\ \A c \in Handlers : clock[c] # j

AttendanceInv ==
    /\ W!TypeOK
    /\ record \in [Records -> AttendanceRow] /\ hour \in Nat
    /\ \A k \in W!Made, j \in Records : j < k => j \in W!Made
    /\ \A k \in W!Made : /\ 0 <= record[k].in /\ record[k].in <= hour
                         /\ record[k].out # -1 => record[k].in <= record[k].out
    /\ \A c \in Handlers : clock[c] # 0 => clock[c] \in W!Made
    /\ \A j, k \in W!Made : j < k /\ ~ record[k].crossed => EndedFor(j, k)

LEMMA MadeHas ==
  ASSUME NEW k \in Records, record[k].in # -1
  PROVE  k \in W!Made
BY DEF W!Made, W!NoRecord, W!Never

LEMMA AttendanceInit == W!Init => AttendanceInv
<1> SUFFICES ASSUME W!Init PROVE AttendanceInv
  OBVIOUS
<1>1. W!Made = {}
  BY DEF W!Init, W!Made
<1>2. W!TypeOK /\ record \in [Records -> AttendanceRow] /\ hour \in Nat
  BY HoursAssumption DEF W!Init, W!TypeOK, W!NoRecord, W!Never, W!Hours, AttendanceRow
<1> QED
  BY <1>1, <1>2 DEF W!Init, AttendanceInv

LEMMA AttendanceStepInv ==
  ASSUME AttendanceInv, [W!Next]_W!vars
  PROVE  AttendanceInv'
<1>0. /\ record \in [Records -> AttendanceRow] /\ hour \in Nat /\ hour \in W!Hours
      /\ clock \in [Handlers -> Records \cup {0}]
      /\ record \in [Records -> [in : -1 .. hour, out : -1 .. hour, crossed : BOOLEAN]]
  BY DEF AttendanceInv, W!TypeOK, W!Never
<1>1. CASE W!Tick
  <2>1. /\ hour' = hour + 1 /\ hour' \in W!Hours /\ hour' \in Nat
        /\ UNCHANGED <<record, clock>> /\ W!Made' = W!Made
    BY <1>0, <1>1, HoursAssumption DEF W!Tick, W!Hours, W!Made
  <2>2. record' \in [Records -> [in : -1 .. hour', out : -1 .. hour', crossed : BOOLEAN]]
    BY <1>0, <2>1
  <2>3. W!TypeOK'
    BY <1>0, <2>1, <2>2 DEF W!TypeOK, W!Never
  <2>4. \A k \in W!Made : k \in Records /\ record[k].in \in Int
    BY <1>0 DEF W!Made, AttendanceRow
  <2>5. \A k \in W!Made : /\ 0 <= record[k].in /\ record[k].in <= hour'
                          /\ record[k].out # -1 => record[k].in <= record[k].out
    BY <1>0, <2>1, <2>4 DEF AttendanceInv
  <2> QED
    BY <1>0, <2>1, <2>3, <2>5 DEF AttendanceInv, EndedFor
<1>2. CASE W!ClockIn
  <2> DEFINE held == \E c \in Handlers : clock[c] # 0
  <2>1. PICK k \in Records \ W!Made :
          /\ \A j \in Records \ W!Made : k <= j
          /\ record' = [record EXCEPT ![k] =
               [in |-> hour, out |-> -1, crossed |-> W!Open # {} \/ held]]
          /\ UNCHANGED <<hour, clock>>
    BY <1>2 DEF W!ClockIn, W!ClockInAt, W!Never
  <2> DEFINE crossing == W!Open # {} \/ held
             row == [in |-> hour, out |-> -1, crossed |-> crossing]
  <2>2. row \in AttendanceRow /\ row \in [in : -1 .. hour, out : -1 .. hour, crossed : BOOLEAN]
        /\ row.in = hour /\ row.out = -1 /\ row.crossed = crossing
    BY <1>0 DEF AttendanceRow
  <2>3. row.crossed \/ (W!Open = {} /\ \A c \in Handlers : clock[c] = 0)
    BY <2>2
  <2>4. record' = [record EXCEPT ![k] = row]
    BY <2>1
  <2> HIDE DEF row, crossing, held
  <2>5. /\ record' \in [Records -> AttendanceRow]
        /\ record' \in [Records -> [in : -1 .. hour, out : -1 .. hour, crossed : BOOLEAN]]
        /\ record'[k] = row /\ \A j \in Records : j # k => record'[j] = record[j]
    BY <1>0, <2>2, <2>4
  <2>6. W!Made' = W!Made \cup {k}
    BY <1>0, <2>2, <2>5 DEF W!Made, W!NoRecord, W!Never
  <2>7. \A i \in W!Made', j \in Records : j < i => j \in W!Made'
    <3>1. \A j \in Records : j < k => j \in W!Made
      BY <2>1, RecordsAssumption
    <3> QED
      BY <2>6, <3>1 DEF AttendanceInv
  <2>8. \A j, i \in W!Made' : j < i /\ ~ record'[i].crossed => EndedFor(j, i)'
    <3> SUFFICES ASSUME NEW j \in W!Made', NEW i \in W!Made', j < i, ~ record'[i].crossed
                 PROVE  EndedFor(j, i)'
      OBVIOUS
    <3>1. j \in Records /\ i \in Records
      BY DEF W!Made
    <3>2. CASE i = k
      <4>1. j \in W!Made /\ j # k /\ W!Open = {} /\ \A c \in Handlers : clock[c] = 0
        BY <2>3, <2>5, <2>6, <3>1, <3>2, RecordsAssumption
      <4>2. record[j].out # -1 /\ record[j].out <= hour
        BY <1>0, <3>1, <4>1 DEF W!Open, W!Never
      <4>3. j # 0
        BY <3>1, RecordsAssumption
      <4>4. record'[j] = record[j] /\ record'[i].in = hour
        BY <2>2, <2>5, <3>1, <3>2, <4>1
      <4> QED
        BY <2>1, <4>1, <4>2, <4>3, <4>4 DEF EndedFor
    <3>3. CASE i # k
      <4>1. i \in W!Made /\ record'[i] = record[i]
        BY <2>5, <2>6, <3>1, <3>3
      <4>2. j # k
        BY <2>1, <3>1, <4>1 DEF AttendanceInv
      <4>3. j \in W!Made /\ record'[j] = record[j]
        BY <2>5, <2>6, <3>1, <4>2
      <4>4. EndedFor(j, i)
        BY <4>1, <4>3 DEF AttendanceInv
      <4> QED
        BY <2>1, <4>1, <4>3, <4>4 DEF EndedFor
    <3> QED
      BY <3>2, <3>3
  <2>9. \A i \in W!Made' : /\ 0 <= record'[i].in /\ record'[i].in <= hour'
                           /\ record'[i].out # -1 => record'[i].in <= record'[i].out
    BY <1>0, <2>1, <2>2, <2>5, <2>6 DEF AttendanceInv, W!Made
  <2> QED
    BY <1>0, <2>1, <2>5, <2>6, <2>7, <2>8, <2>9 DEF AttendanceInv, W!TypeOK, W!Never
<1>3. ASSUME NEW c \in Handlers, W!ClockOutFind(c)
      PROVE  AttendanceInv'
  <2>1. PICK k \in W!Open : clock' = [clock EXCEPT ![c] = k]
    BY <1>3 DEF W!ClockOutFind
  <2>2. UNCHANGED <<hour, record>> /\ W!Made' = W!Made
    BY <1>3 DEF W!ClockOutFind, W!Made
  <2>3. k \in W!Made /\ k \in Records /\ record[k].out = -1
    BY DEF W!Open, W!Made, W!Never
  <2>4. clock' \in [Handlers -> Records \cup {0}]
        /\ \A d \in Handlers : clock'[d] = k \/ clock'[d] = clock[d]
    BY <1>0, <2>1, <2>3
  <2>5. \A j, i \in W!Made : EndedFor(j, i) => EndedFor(j, i)'
    BY <2>2, <2>3, <2>4 DEF EndedFor
  <2>6. W!TypeOK'
    BY <1>0, <2>2, <2>4 DEF AttendanceInv, W!TypeOK
  <2>7. \A j, i \in W!Made' : j < i /\ ~ record'[i].crossed => EndedFor(j, i)'
    BY <2>2, <2>5 DEF AttendanceInv
  <2> QED
    BY <2>2, <2>3, <2>4, <2>6, <2>7 DEF AttendanceInv
<1>4. ASSUME NEW c \in Handlers, W!ClockOutWrite(c)
      PROVE  AttendanceInv'
  <2> DEFINE k == clock[c]
             row == [record[k] EXCEPT !.out = hour]
  <2>1. /\ k # 0 /\ k \in W!Made /\ k \in Records
        /\ clock' = [clock EXCEPT ![c] = 0] /\ UNCHANGED hour
    BY <1>0, <1>4 DEF W!ClockOutWrite, AttendanceInv, W!Made
  <2>2. record' = [record EXCEPT ![k] = row]
    BY <1>4 DEF W!ClockOutWrite
  <2>3. /\ row \in AttendanceRow /\ row \in [in : -1 .. hour, out : -1 .. hour, crossed : BOOLEAN]
        /\ row.in = record[k].in /\ row.out = hour /\ row.crossed = record[k].crossed
    BY <1>0, <2>1 DEF AttendanceRow
  <2> HIDE DEF row
  <2>4. /\ record' \in [Records -> AttendanceRow]
        /\ record' \in [Records -> [in : -1 .. hour, out : -1 .. hour, crossed : BOOLEAN]]
        /\ record'[k] = row /\ \A j \in Records : j # k => record'[j] = record[j]
    BY <1>0, <2>1, <2>2, <2>3
  <2>5. W!Made' = W!Made
    <3>1. 0 <= record[k].in
      BY <2>1 DEF AttendanceInv
    <3>2. record'[k].in # -1
      BY <2>3, <2>4, <3>1
    <3>3. \A j \in Records : j # k => (j \in W!Made' <=> j \in W!Made)
      BY <2>4 DEF W!Made
    <3>4. k \in W!Made'
      BY <2>1, <3>2 DEF W!Made, W!NoRecord, W!Never
    <3> QED
      BY <2>1, <3>3, <3>4 DEF W!Made
  <2>6. clock' \in [Handlers -> Records \cup {0}]
        /\ \A d \in Handlers : clock'[d] = 0 \/ clock'[d] = clock[d]
    BY <1>0, <2>1
  <2>7. W!TypeOK'
    BY <1>0, <2>1, <2>4, <2>6 DEF AttendanceInv, W!TypeOK, W!Never
  <2>8. \A j, i \in W!Made' : j < i /\ ~ record'[i].crossed => EndedFor(j, i)'
    <3> SUFFICES ASSUME NEW j \in W!Made, NEW i \in W!Made, j < i, ~ record'[i].crossed
                 PROVE  EndedFor(j, i)'
      BY <2>5
    <3>1. j \in Records /\ i \in Records /\ j # 0
      BY RecordsAssumption DEF W!Made
    <3>2. record'[i].crossed = record[i].crossed /\ record'[i].in = record[i].in
      BY <2>3, <2>4, <3>1
    <3>3. EndedFor(j, i)
      BY <3>2 DEF AttendanceInv
    <3>4. j # k
      BY <3>3 DEF EndedFor
    <3>5. record'[j] = record[j]
      BY <2>4, <3>1, <3>4
    <3> QED
      BY <2>6, <3>1, <3>2, <3>3, <3>5 DEF EndedFor
  <2>9. \A i \in W!Made' : /\ 0 <= record'[i].in /\ record'[i].in <= hour'
                           /\ record'[i].out # -1 => record'[i].in <= record'[i].out
    <3> SUFFICES ASSUME NEW i \in W!Made
                 PROVE  /\ 0 <= record'[i].in /\ record'[i].in <= hour'
                        /\ record'[i].out # -1 => record'[i].in <= record'[i].out
      BY <2>5
    <3> QED
      BY <2>1, <2>3, <2>4 DEF AttendanceInv, W!Made
  <2> QED
    BY <1>0, <2>1, <2>4, <2>5, <2>6, <2>7, <2>8, <2>9 DEF AttendanceInv
<1>5. CASE UNCHANGED W!vars
  BY <1>5 DEF W!vars, AttendanceInv, EndedFor, W!TypeOK, W!Made
<1> QED
  BY <1>1, <1>2, <1>3, <1>4, <1>5 DEF W!Next

\* Two sets whose common members count for nothing.
LEMMA SumOverlap ==
  ASSUME NEW f, NEW X, NEW Y, IsFiniteSet(X), IsFiniteSet(Y), \A k \in X \cup Y : f[k] \in Int,
         \A k \in X \cap Y : f[k] = 0
  PROVE  SumFunctionOnSet(f, X \cup Y) = SumFunctionOnSet(f, X) + SumFunctionOnSet(f, Y)
<1> DEFINE rest == Y \ X
           both == X \cap Y
<1>1. IsFiniteSet(rest) /\ IsFiniteSet(both)
  BY FS_Subset
<1>2. /\ X \cup Y = X \cup rest /\ X \cap rest = {}
      /\ Y = rest \cup both /\ rest \cap both = {}
  OBVIOUS
<1>3. (\A k \in X \cup rest : f[k] \in Int) /\ (\A k \in rest \cup both : f[k] \in Int)
  OBVIOUS
<1> HIDE DEF rest, both
<1>4. SumFunctionOnSet(f, X \cup rest) = SumFunctionOnSet(f, X) + SumFunctionOnSet(f, rest)
  BY <1>1, <1>2, <1>3, SumUnion
<1>5. SumFunctionOnSet(f, rest \cup both) = SumFunctionOnSet(f, rest) + SumFunctionOnSet(f, both)
  BY <1>1, <1>2, <1>3, SumUnion
<1>6. SumFunctionOnSet(f, both) = 0
  BY <1>1, SumZero DEF both
<1>7. SumFunctionOnSet(f, rest) \in Int
  BY <1>1, <1>3, SumInt
<1>8. SumFunctionOnSet(f, Y) = SumFunctionOnSet(f, rest)
  <2>1. SumFunctionOnSet(f, Y) = SumFunctionOnSet(f, rest \cup both)
    BY <1>2, Zenon
  <2> QED
    BY <1>5, <1>6, <1>7, <2>1
<1>9. SumFunctionOnSet(f, X \cup Y) = SumFunctionOnSet(f, X \cup rest)
  BY <1>2, Zenon
<1> QED
  BY <1>4, <1>8, <1>9

LEMMA PeriodsSum ==
  ASSUME AttendanceInv, NEW from \in W!Hours, NEW mid \in W!Hours, NEW to \in W!Hours, from <= mid, mid <= to
  PROVE  SumFunctionOnSet(W!HoursOf, W!PaidIn(from, mid)) + SumFunctionOnSet(W!HoursOf, W!PaidIn(mid, to)) =
           SumFunctionOnSet(W!HoursOf, W!PaidIn(from, to))
             - SumFunctionOnSet(W!HoursOf,
                 {k \in W!PaidIn(from, to) : record[k].in < mid /\ mid < record[k].out})
<1> DEFINE f == W!HoursOf
           first == W!PaidIn(from, mid)
           second == W!PaidIn(mid, to)
           both == first \cup second
           all == W!PaidIn(from, to)
           span == {k \in all : record[k].in < mid /\ mid < record[k].out}
<1>0. from \in Int /\ mid \in Int /\ to \in Int
  BY DEF W!Hours
<1>1. \A k \in Records : record[k].in \in Int /\ record[k].out \in Int /\ f[k] \in Int
      /\ f[k] = record[k].out - record[k].in
  BY DEF AttendanceInv, AttendanceRow, W!HoursOf
<1>2. \A k \in first \cup second \cup all \cup span : k \in Records
  BY DEF W!PaidIn, W!Made
<1>3. \A k \in W!Made \ W!Open : k \in Records /\ record[k].in <= record[k].out
  BY DEF AttendanceInv, W!Made, W!Open, W!Never
<1>4. IsFiniteSet(first) /\ IsFiniteSet(second) /\ IsFiniteSet(both) /\ IsFiniteSet(span)
  <2>1. first \subseteq Records /\ second \subseteq Records /\ both \subseteq Records /\ span \subseteq Records
    BY <1>2
  <2> QED
    BY <2>1, FS_Subset, RecordsAssumption
<1>5. \A k \in first \cap second : f[k] = 0
  BY <1>0, <1>1, <1>3 DEF W!PaidIn
<1>6. all = both \cup span /\ both \cap span = {}
  BY <1>0, <1>1, <1>3 DEF W!PaidIn
<1>7. (\A k \in first \cup second : f[k] \in Int) /\ (\A k \in both \cup span : f[k] \in Int)
  BY <1>1, <1>2
<1>8. SumFunctionOnSet(f, both) = SumFunctionOnSet(f, first) + SumFunctionOnSet(f, second)
  <2> HIDE DEF f, first, second
  <2> QED
    BY <1>4, <1>5, <1>7, SumOverlap
<1> HIDE DEF f, first, second, both, all, span
<1>9. SumFunctionOnSet(f, both \cup span) = SumFunctionOnSet(f, both) + SumFunctionOnSet(f, span)
  BY <1>4, <1>6, <1>7, SumUnion
<1>10. SumFunctionOnSet(f, both) \in Int /\ SumFunctionOnSet(f, span) \in Int
  BY <1>4, <1>7, SumInt
<1>11. SumFunctionOnSet(f, first) + SumFunctionOnSet(f, second) =
         SumFunctionOnSet(f, all) - SumFunctionOnSet(f, span)
  BY <1>6, <1>8, <1>9, <1>10
<1> QED
  BY <1>11 DEF f, first, second, all, span

\* The invariant, in every state of the back office.
LEMMA AttendanceInvHolds == BackOfficeSpec => []AttendanceInv
<1>1. BackOfficeInit => AttendanceInv
  BY AttendanceInit DEF BackOfficeInit
<1>2. AttendanceInv /\ [BackOfficeNext]_officeVars => AttendanceInv'
  BY AttendanceStepInv, AttendanceMoves
<1> QED
  BY <1>1, <1>2, PTL DEF BackOfficeSpec

\* No hour is worked in two records, and two pay periods pay together what one of both
\* pays: staff.service's clock-in and payroll, for any records, requests and hours.
THEOREM HoursArePaidOnce == BackOfficeSpec => []HoursPaidOnce
<1>1. AttendanceInv => HoursPaidOnce
  <2> SUFFICES ASSUME AttendanceInv PROVE W!HoursWorkedOnce /\ W!PeriodsAddUp
    BY DEF HoursPaidOnce
  <2>1. W!HoursWorkedOnce
    BY DEF W!HoursWorkedOnce, AttendanceInv, EndedFor, W!Never
  <2>2. W!PeriodsAddUp
    BY PeriodsSum, SameInAttendance, Zenon DEF W!PeriodsAddUp, W!HoursPaid
  <2> QED
    BY <2>1, <2>2
<1> QED
  BY <1>1, AttendanceInvHolds, PTL

-----------------------------------------------------------------------------
(* Pricing                                                                 *)
(*                                                                         *)
(* The price of a day and the row it came from are written by two          *)
(* statements, so that a source which nobody disturbed is applied or about *)
(* to be marked.  A generation that met no other has, of the rows still    *)
(* pending, only its own, for days it is through with.                     *)

LEMMA PricingMoves ==
  ASSUME [BackOfficeNext]_officeVars
  PROVE  [P!Next]_P!vars
<1>1. CASE PricingStep
  BY <1>1 DEF PricingStep
<1> QED
  BY <1>1 DEF BackOfficeNext, officeVars, pricing, P!vars, TurnoverStep, PreventiveStep, StockStep,
     DistributionStep, InboxStep, CityLedgerStep, LoyaltyStep, StaffingStep, AttendanceStep, CampaignsStep

RateRow       == [price : Nat, stop : BOOLEAN]
SuggestionRow == [status : {"none", "SUGGESTED", "APPROVED", "REJECTED", "APPLIED", "deleted"},
                  day : Days \cup {0}, price : Suggested \cup {0}, beside : BOOLEAN]
DeskRow       == [pc : {"idle", "set", "clear", "make", "list", "price", "mark"}, day : Nat,
                  range : Ranges \cup {P!NoRange}, rows : SUBSET Suggestions, auto : BOOLEAN, beside : BOOLEAN]

PricingTyped ==
    /\ rate \in [Days -> RateRow] /\ sug \in [Suggestions -> SuggestionRow]
    /\ desk \in [Handlers -> DeskRow] /\ source \in [Days -> Suggestions \cup {0}]

\* What the request of a desk knows where it stands.
DeskKnows(s) ==
    /\ s.pc = "set" => s.range \in Ranges /\ s.day \in Days /\ s.day <= s.range.to
    /\ s.pc = "make" => s.day \in Days
    /\ s.pc = "mark" => s.day \in s.rows
    /\ s.pc \in {"price", "mark"} =>
         \A n \in s.rows : sug[n].status # "none" /\ (sug[n].status = "deleted" => n \in muddled)

DesksKnow ==
    /\ \A h \in Handlers : DeskKnows(desk[h])
    /\ \A n \in Suggestions : sug[n].status # "none" => sug[n].day \in Days

AreGenerating(s) == s.pc \in {"clear", "make"}

Generations ==
    /\ \A g, h \in Handlers : g # h /\ AreGenerating(desk[g]) /\ AreGenerating(desk[h]) => desk[g].beside
    /\ \A h \in Handlers : desk[h].pc = "make" /\ ~ desk[h].beside =>
         \A m \in P!Pending : ~ sug[m].beside => sug[m].day < desk[h].day
    /\ \A m, n \in P!Pending : m # n /\ sug[m].day = sug[n].day => sug[m].beside \/ sug[n].beside

AboutToMark(n) == \E h \in Handlers : desk[h].pc = "mark" /\ desk[h].day = n

SourcesTrace ==
    \A d \in Days : source[d] # 0 /\ source[d] \notin muddled =>
        /\ sug[source[d]].day = d /\ rate[d].price = sug[source[d]].price
        /\ sug[source[d]].status = "APPLIED" \/ AboutToMark(source[d])

PricingInv == PricingTyped /\ DesksKnow /\ Generations /\ SourcesTrace

LEMMA DaysAreMany == \E n \in Nat \ {0} : Days = 1 .. n
BY CalendarAssumption, FS_CardinalityType, FS_EmptySet

LEMMA DaysAreFirst == Days \subseteq Nat \ {0} /\ P!Min(Days) \in Days /\ P!LastDay \in Days
                      /\ \A d \in Days : d <= P!LastDay /\ (d # P!LastDay => d + 1 \in Days)
<1>1. PICK n \in Nat \ {0} : Days = 1 .. n
  BY DaysAreMany
<1>2. 1 \in Days /\ (\A d \in Days : 1 <= d) /\ n \in Days /\ \A d \in Days : n >= d
  BY <1>1
<1>3. P!Min(Days) \in Days
  BY <1>2 DEF P!Min
<1>4. P!Max(Days) \in Days /\ \A d \in Days : P!Max(Days) >= d
  BY <1>2 DEF P!Max
<1> QED
  BY <1>1, <1>3, <1>4 DEF P!LastDay

LEMMA PricesAreNumbers == (\A d \in Days \cup {0} : d \in Int) /\ \A p \in Suggested \cup {0} : p \in Nat
BY DaysAreFirst, CalendarAssumption

LEMMA IdleDesk == P!Idle \in DeskRow /\ P!Idle.pc = "idle" /\ DeskKnows(P!Idle) /\ ~ P!Idle.beside
BY DEF P!Idle, P!NoRange, DeskRow, DeskKnows

LEMMA PricingInit == P!Init => PricingInv
<1> SUFFICES ASSUME P!Init PROVE PricingInv
  OBVIOUS
<1>1. PricingTyped
  BY IdleDesk DEF P!Init, PricingTyped, P!NoRate, P!NoRow, RateRow, SuggestionRow
<1>2. DesksKnow
  BY IdleDesk DEF P!Init, DesksKnow, P!NoRow, P!Idle, DeskKnows
<1>3. Generations
  BY DEF P!Init, Generations, AreGenerating, P!Pending, P!NoRow, P!Idle
<1>4. SourcesTrace
  BY DEF P!Init, SourcesTrace
<1> QED
  BY <1>1, <1>2, <1>3, <1>4 DEF PricingInv

\* A request that begins, goes on or ends without writing a row.
LEMMA DeskOnly ==
  ASSUME PricingInv, NEW h \in Handlers, NEW row \in DeskRow, desk' = [desk EXCEPT ![h] = row],
         UNCHANGED <<rate, sug, source>>, muddled \subseteq muddled', row.pc \notin {"clear", "make", "mark"},
         DeskKnows(row), desk[h].pc = "mark" => desk[h].day \in muddled'
  PROVE  PricingInv'
<1>1. desk' \in [Handlers -> DeskRow] /\ desk'[h] = row /\ \A g \in Handlers : g # h => desk'[g] = desk[g]
  BY DEF PricingInv, PricingTyped
<1>2. PricingTyped'
  BY <1>1 DEF PricingInv, PricingTyped
<1>3. DesksKnow'
  BY <1>1 DEF PricingInv, DesksKnow, DeskKnows
<1>4. Generations'
  BY <1>1 DEF PricingInv, Generations, AreGenerating, P!Pending
<1>5. SourcesTrace'
  <2> SUFFICES ASSUME NEW d \in Days, source[d] # 0, source[d] \notin muddled'
               PROVE  /\ sug[source[d]].day = d /\ rate[d].price = sug[source[d]].price
                      /\ sug[source[d]].status = "APPLIED" \/ AboutToMark(source[d])'
    BY DEF SourcesTrace
  <2>1. /\ sug[source[d]].day = d /\ rate[d].price = sug[source[d]].price
        /\ sug[source[d]].status = "APPLIED" \/ AboutToMark(source[d])
    BY DEF PricingInv, SourcesTrace
  <2> QED
    BY <1>1, <2>1 DEF AboutToMark
<1> QED
  BY <1>2, <1>3, <1>4, <1>5 DEF PricingInv

LEMMA SetCalendarDayInv ==
  ASSUME PricingInv, NEW h \in Handlers, P!SetCalendarDay(h)
  PROVE  PricingInv'
<1> DEFINE d == desk[h].day
           range == desk[h].range
           price == [price |-> IF range.price = 0 THEN Base ELSE range.price, stop |-> range.stop]
           row == IF d = range.to THEN P!Idle ELSE [desk[h] EXCEPT !.day = d + 1]
<1>1. /\ rate' = [rate EXCEPT ![d] = price] /\ source' = [source EXCEPT ![d] = 0]
      /\ desk' = [desk EXCEPT ![h] = row] /\ UNCHANGED <<sug, muddled>> /\ desk[h].pc = "set"
  BY DEF P!SetCalendarDay
<1>2. d \in Days /\ range \in Ranges /\ d <= range.to /\ desk[h] \in DeskRow
  BY <1>1 DEF PricingInv, PricingTyped, DesksKnow, DeskKnows
<1>3. price \in RateRow
  BY <1>2, CalendarAssumption DEF RateRow
<1>4. row \in DeskRow /\ row.pc \in {"idle", "set"} /\ DeskKnows(row)
  <2>1. CASE d = range.to
    BY <2>1, IdleDesk
  <2>2. CASE d # range.to
    <3>1. PICK n \in Nat \ {0} : Days = 1 .. n
      BY DaysAreMany
    <3>2. range.to \in Days
      BY <1>2, CalendarAssumption
    <3>3. d + 1 \in Days /\ d + 1 <= range.to
      BY <1>2, <2>2, <3>1, <3>2
    <3>4. d + 1 \in Nat
      BY <3>3, DaysAreFirst
    <3>5. row = [desk[h] EXCEPT !.day = d + 1]
      BY <2>2
    <3>6. row \in DeskRow /\ row.pc = "set" /\ row.day = d + 1 /\ row.range = range
      BY <1>1, <1>2, <3>4, <3>5 DEF DeskRow
    <3> QED
      BY <1>2, <3>3, <3>6 DEF DeskKnows
  <2> QED
    BY <2>1, <2>2
<1> HIDE DEF row, price
<1>5. desk' \in [Handlers -> DeskRow] /\ desk'[h] = row /\ \A g \in Handlers : g # h => desk'[g] = desk[g]
  BY <1>1, <1>4 DEF PricingInv, PricingTyped
<1>6. /\ rate' \in [Days -> RateRow] /\ source' \in [Days -> Suggestions \cup {0}]
      /\ source'[d] = 0 /\ \A e \in Days : e # d => source'[e] = source[e] /\ rate'[e] = rate[e]
  BY <1>1, <1>2, <1>3 DEF PricingInv, PricingTyped
<1>7. PricingTyped'
  BY <1>1, <1>5, <1>6 DEF PricingInv, PricingTyped
<1>8. DesksKnow'
  BY <1>1, <1>4, <1>5 DEF PricingInv, DesksKnow, DeskKnows
<1>9. Generations'
  BY <1>1, <1>4, <1>5 DEF PricingInv, Generations, AreGenerating, P!Pending
<1>10. SourcesTrace'
  <2> SUFFICES ASSUME NEW e \in Days, source'[e] # 0, source'[e] \notin muddled
               PROVE  /\ sug[source'[e]].day = e /\ rate'[e].price = sug[source'[e]].price
                      /\ \/ sug[source'[e]].status = "APPLIED"
                         \/ \E g \in Handlers : desk'[g].pc = "mark" /\ desk'[g].day = source'[e]
    BY <1>1 DEF SourcesTrace, AboutToMark
  <2>1. e # d /\ source'[e] = source[e] /\ rate'[e] = rate[e]
    BY <1>6
  <2>2. /\ sug[source[e]].day = e /\ rate[e].price = sug[source[e]].price
        /\ sug[source[e]].status = "APPLIED" \/ AboutToMark(source[e])
    BY <2>1 DEF PricingInv, SourcesTrace
  <2> QED
    BY <1>1, <1>5, <2>1, <2>2 DEF AboutToMark
<1> QED
  BY <1>7, <1>8, <1>9, <1>10 DEF PricingInv

LEMMA GenerateStartInv ==
  ASSUME PricingInv, NEW h \in Handlers, NEW auto \in BOOLEAN, P!GenerateStart(h, auto)
  PROVE  PricingInv'
<1> DEFINE met == P!Generating # {}
           row == [P!Idle EXCEPT !.pc = "clear", !.auto = auto, !.beside = met]
<1>1. /\ desk' = [g \in Handlers |->
           IF g = h THEN row
           ELSE IF g \in P!Generating THEN [desk[g] EXCEPT !.beside = TRUE] ELSE desk[g]]
      /\ desk[h] = P!Idle /\ UNCHANGED <<rate, sug, source, muddled>>
  BY DEF P!GenerateStart
<1>2. row \in DeskRow /\ row.pc = "clear" /\ row.beside = met
  BY IdleDesk DEF P!Idle, DeskRow
<1>3. row.beside \/ P!Generating = {}
  BY <1>2
<1> HIDE DEF row, met
<1>4. desk'[h] = row
  BY <1>1
<1>5. ASSUME NEW g \in Handlers, g # h
      PROVE  /\ desk'[g] \in DeskRow
             /\ desk'[g].pc = desk[g].pc /\ desk'[g].day = desk[g].day /\ desk'[g].rows = desk[g].rows
             /\ desk'[g].range = desk[g].range
             /\ desk[g].beside => desk'[g].beside
             /\ AreGenerating(desk[g]) => desk'[g].beside /\ row.beside
  <2>1. desk[g] \in DeskRow
    BY DEF PricingInv, PricingTyped
  <2>2. CASE g \in P!Generating
    <3>1. desk'[g] = [desk[g] EXCEPT !.beside = TRUE]
      BY <1>1, <1>5, <2>2
    <3> QED
      BY <1>3, <2>1, <2>2, <3>1 DEF DeskRow
  <2>3. CASE g \notin P!Generating
    <3>1. desk'[g] = desk[g] /\ ~ AreGenerating(desk[g])
      BY <1>1, <1>5, <2>3 DEF P!Generating, AreGenerating
    <3> QED
      BY <2>1, <3>1
  <2> QED
    BY <2>2, <2>3
<1>6. PricingTyped'
  <2>1. \A g \in Handlers : desk'[g] \in DeskRow
    BY <1>2, <1>4, <1>5
  <2>2. desk' = [g \in Handlers |-> desk'[g]]
    BY <1>1
  <2>3. desk' \in [Handlers -> DeskRow]
    BY <2>1, <2>2
  <2> QED
    BY <1>1, <2>3 DEF PricingInv, PricingTyped
<1>7. DesksKnow'
  <2>1. \A g \in Handlers : DeskKnows(desk'[g])
    BY <1>2, <1>4, <1>5 DEF PricingInv, DesksKnow, DeskKnows
  <2> QED
    BY <1>1, <2>1 DEF PricingInv, DesksKnow, DeskKnows
<1>8. Generations'
  <2>1. P!Pending' = P!Pending
    BY <1>1 DEF P!Pending
  <2>2. \A f, g \in Handlers : f # g /\ AreGenerating(desk'[f]) /\ AreGenerating(desk'[g]) => desk'[f].beside
    BY <1>4, <1>5 DEF AreGenerating
  <2>3. \A g \in Handlers : desk'[g].pc = "make" /\ ~ desk'[g].beside =>
          g # h /\ desk[g].pc = "make" /\ ~ desk[g].beside /\ desk'[g].day = desk[g].day
    BY <1>2, <1>4, <1>5
  <2> QED
    BY <1>1, <2>1, <2>2, <2>3 DEF PricingInv, Generations
<1>9. SourcesTrace'
  <2>1. \A n : AboutToMark(n) => AboutToMark(n)'
    BY <1>1, <1>5, IdleDesk DEF AboutToMark
  <2> QED
    BY <1>1, <2>1 DEF PricingInv, SourcesTrace
<1> QED
  BY <1>6, <1>7, <1>8, <1>9 DEF PricingInv

LEMMA ClearInv ==
  ASSUME PricingInv, NEW h \in Handlers, P!Clear(h)
  PROVE  PricingInv'
<1> DEFINE row == [desk[h] EXCEPT !.pc = "make", !.day = P!Min(Days)]
<1>1. /\ sug' = [n \in Suggestions |->
           IF n \in P!Pending THEN [sug[n] EXCEPT !.status = "deleted"] ELSE sug[n]]
      /\ muddled' = muddled \cup
           {n \in P!Pending : P!HeldRow(n) \/ n \in {source[d] : d \in Days}}
      /\ desk' = [desk EXCEPT ![h] = row]
      /\ desk[h].pc = "clear" /\ UNCHANGED <<rate, source>>
  BY DEF P!Clear, P!Replaced, PricingInv, PricingTyped
<1>2. row \in DeskRow /\ row.pc = "make" /\ row.day \in Days /\ row.beside = desk[h].beside
  BY DaysAreFirst DEF PricingInv, PricingTyped, DeskRow
<1> HIDE DEF row
<1>3. desk' \in [Handlers -> DeskRow] /\ desk'[h] = row /\ \A g \in Handlers : g # h => desk'[g] = desk[g]
  BY <1>1, <1>2 DEF PricingInv, PricingTyped
<1>4. ASSUME NEW n \in Suggestions
      PROVE  /\ sug'[n] \in SuggestionRow /\ sug'[n].day = sug[n].day /\ sug'[n].price = sug[n].price
             /\ sug'[n].beside = sug[n].beside
             /\ n \in P!Pending => sug'[n].status = "deleted" /\ sug[n].status = "SUGGESTED"
             /\ n \notin P!Pending => sug'[n].status = sug[n].status /\ sug[n].status # "SUGGESTED"
  <2>1. sug[n] \in SuggestionRow
    BY DEF PricingInv, PricingTyped
  <2>2. CASE n \in P!Pending
    <3>1. sug'[n] = [sug[n] EXCEPT !.status = "deleted"]
      BY <1>1, <2>2
    <3> QED
      BY <2>1, <2>2, <3>1 DEF SuggestionRow, P!Pending
  <2>3. CASE n \notin P!Pending
    BY <1>1, <2>1, <2>3 DEF P!Pending
  <2> QED
    BY <2>2, <2>3
<1>5. PricingTyped'
  <2>1. sug' \in [Suggestions -> SuggestionRow]
    BY <1>1, <1>4
  <2> QED
    BY <1>1, <1>3, <2>1 DEF PricingInv, PricingTyped
<1>6. DesksKnow'
  <2>1. ASSUME NEW g \in Handlers
        PROVE  DeskKnows(desk[g])'
    <3>1. CASE g = h
      BY <1>2, <1>3, <3>1 DEF DeskKnows
    <3>2. CASE g # h
      <4>1. desk'[g] = desk[g] /\ DeskKnows(desk[g]) /\ desk[g].rows \subseteq Suggestions
        BY <1>3, <3>2 DEF PricingInv, PricingTyped, DesksKnow, DeskRow
      <4>2. ASSUME NEW n \in desk[g].rows, desk[g].pc \in {"price", "mark"}
            PROVE  sug'[n].status # "none" /\ (sug'[n].status = "deleted" => n \in muddled')
        <5>1. P!HeldRow(n)
          BY <4>2 DEF P!HeldRow
        <5> QED
          BY <1>1, <1>4, <4>1, <4>2, <5>1 DEF DeskKnows
      <4> QED
        BY <4>1, <4>2 DEF DeskKnows
    <3> QED
      BY <3>1, <3>2
  <2> QED
    BY <1>4, <2>1 DEF PricingInv, DesksKnow
<1>7. Generations'
  <2>1. P!Pending' = {}
    BY <1>4 DEF P!Pending
  <2>2. \A f, g \in Handlers : f # g /\ AreGenerating(desk'[f]) /\ AreGenerating(desk'[g]) => desk'[f].beside
    BY <1>1, <1>2, <1>3 DEF PricingInv, Generations, AreGenerating
  <2> QED
    BY <2>1, <2>2 DEF Generations
<1>8. SourcesTrace'
  <2> SUFFICES ASSUME NEW d \in Days, source[d] # 0, source[d] \notin muddled'
               PROVE  /\ sug'[source[d]].day = d /\ rate[d].price = sug'[source[d]].price
                      /\ sug'[source[d]].status = "APPLIED" \/ AboutToMark(source[d])'
    BY <1>1 DEF SourcesTrace
  <2>1. source[d] \in Suggestions /\ source[d] \notin P!Pending /\ source[d] \notin muddled
    BY <1>1 DEF PricingInv, PricingTyped
  <2>2. /\ sug[source[d]].day = d /\ rate[d].price = sug[source[d]].price
        /\ sug[source[d]].status = "APPLIED" \/ AboutToMark(source[d])
    BY <2>1 DEF PricingInv, SourcesTrace
  <2>3. AboutToMark(source[d]) => AboutToMark(source[d])'
    BY <1>1, <1>3 DEF AboutToMark
  <2> QED
    BY <1>4, <2>1, <2>2, <2>3
<1> QED
  BY <1>5, <1>6, <1>7, <1>8 DEF PricingInv

LEMMA MakeInv ==
  ASSUME PricingInv, NEW h \in Handlers, P!Make(h)
  PROVE  PricingInv'
<1> DEFINE s == desk[h]
           row == IF s.day < P!LastDay THEN [s EXCEPT !.day = s.day + 1]
                  ELSE IF s.auto THEN [P!Idle EXCEPT !.pc = "list"]
                  ELSE P!Idle
<1>1. PICK n \in Suggestions, p \in Suggested :
        /\ sug[n] = P!NoRow
        /\ sug' = [sug EXCEPT ![n] =
             [status |-> "SUGGESTED", day |-> s.day, price |-> p, beside |-> s.beside]]
  BY DEF P!Make
<1>2. s.pc = "make" /\ desk' = [desk EXCEPT ![h] = row] /\ UNCHANGED <<rate, source, muddled>>
  BY DEF P!Make
<1>3. s \in DeskRow /\ s.day \in Days
  BY <1>2 DEF PricingInv, PricingTyped, DesksKnow, DeskKnows
<1>4. /\ row \in DeskRow /\ row.pc # "set" /\ row.pc # "price" /\ row.pc # "mark"
      /\ AreGenerating(row) => row.pc = "make" /\ row.day \in Days /\ row.day = s.day + 1 /\ row.beside = s.beside
  <2>1. CASE s.day < P!LastDay
    <3>1. row = [s EXCEPT !.day = s.day + 1] /\ s.day + 1 \in Days /\ s.day + 1 \in Nat
      BY <1>3, <2>1, DaysAreFirst
    <3> QED
      BY <1>2, <1>3, <3>1 DEF DeskRow
  <2>2. CASE ~ (s.day < P!LastDay)
    <3>1. row \in {[P!Idle EXCEPT !.pc = "list"], P!Idle}
      BY <2>2
    <3>2. [P!Idle EXCEPT !.pc = "list"] \in DeskRow
      BY IdleDesk DEF DeskRow
    <3> QED
      BY <3>1, <3>2, IdleDesk DEF AreGenerating, P!Idle
  <2> QED
    BY <2>1, <2>2
<1> DEFINE new == [status |-> "SUGGESTED", day |-> s.day, price |-> p, beside |-> s.beside]
<1>5. new \in SuggestionRow /\ new.status = "SUGGESTED" /\ new.day = s.day /\ new.beside = s.beside
  BY <1>3 DEF SuggestionRow, DeskRow
<1>6. sug' = [sug EXCEPT ![n] = new] /\ sug[n].status = "none"
  BY <1>1 DEF P!NoRow
<1> HIDE DEF row, new
<1>7. desk' \in [Handlers -> DeskRow] /\ desk'[h] = row /\ \A g \in Handlers : g # h => desk'[g] = desk[g]
  BY <1>2, <1>4 DEF PricingInv, PricingTyped
<1>8. sug' \in [Suggestions -> SuggestionRow] /\ sug'[n] = new /\ \A m \in Suggestions : m # n => sug'[m] = sug[m]
  BY <1>5, <1>6 DEF PricingInv, PricingTyped
<1>9. P!Pending' = P!Pending \cup {n} /\ n \notin P!Pending
  BY <1>5, <1>6, <1>8 DEF P!Pending
<1>10. PricingTyped'
  BY <1>2, <1>7, <1>8 DEF PricingInv, PricingTyped
<1>11. DesksKnow'
  <2>1. ASSUME NEW g \in Handlers
        PROVE  DeskKnows(desk[g])'
    <3>1. CASE g = h
      BY <1>4, <1>7, <3>1 DEF DeskKnows, AreGenerating
    <3>2. CASE g # h
      <4>1. desk'[g] = desk[g] /\ DeskKnows(desk[g]) /\ desk[g].rows \subseteq Suggestions
        BY <1>7, <3>2 DEF PricingInv, PricingTyped, DesksKnow, DeskRow
      <4> QED
        BY <1>2, <1>6, <1>8, <4>1 DEF DeskKnows
    <3> QED
      BY <3>1, <3>2
  <2> QED
    BY <1>3, <1>5, <1>8, <2>1 DEF PricingInv, DesksKnow
<1>12. Generations'
  <2>1. \A f, g \in Handlers : f # g /\ AreGenerating(desk'[f]) /\ AreGenerating(desk'[g]) => desk'[f].beside
    BY <1>2, <1>4, <1>7 DEF PricingInv, Generations, AreGenerating
  <2>2. \A g \in Handlers : g # h /\ AreGenerating(desk[g]) => s.beside /\ desk[g].beside
    BY <1>2 DEF PricingInv, Generations, AreGenerating
  <2>3. ~ s.beside => \A m \in P!Pending : ~ sug[m].beside => sug[m].day < s.day
    BY <1>2 DEF PricingInv, Generations
  <2>4. \A m \in P!Pending : m \in Suggestions /\ m # n /\ sug'[m] = sug[m] /\ sug[m].day \in Int
    BY <1>8, <1>9, PricesAreNumbers DEF PricingInv, PricingTyped, SuggestionRow, P!Pending
  <2>5. s.day \in Int
    BY <1>3, PricesAreNumbers
  <2>6. ASSUME NEW g \in Handlers, desk'[g].pc = "make", ~ desk'[g].beside,
               NEW m \in P!Pending', ~ sug'[m].beside
        PROVE  sug'[m].day < desk'[g].day
    <3>1. g = h
      BY <1>5, <1>7, <2>2, <2>4, <2>6 DEF AreGenerating, PricingInv, Generations
    <3>2. row.day = s.day + 1 /\ ~ s.beside
      BY <1>4, <1>7, <2>6, <3>1 DEF AreGenerating
    <3>3. CASE m = n
      BY <1>5, <1>7, <1>8, <2>5, <3>1, <3>2, <3>3
    <3>4. CASE m # n
      BY <1>7, <1>9, <2>3, <2>4, <2>5, <2>6, <3>1, <3>2, <3>4
    <3> QED
      BY <3>3, <3>4
  <2>7. ASSUME NEW l \in P!Pending', NEW m \in P!Pending', l # m, sug'[l].day = sug'[m].day
        PROVE  sug'[l].beside \/ sug'[m].beside
    <3>1. CASE l = n
      BY <1>5, <1>8, <1>9, <2>3, <2>4, <2>5, <2>7, <3>1
    <3>2. CASE m = n
      BY <1>5, <1>8, <1>9, <2>3, <2>4, <2>5, <2>7, <3>2
    <3>3. CASE l # n /\ m # n
      BY <1>9, <2>4, <2>7, <3>3 DEF PricingInv, Generations
    <3> QED
      BY <3>1, <3>2, <3>3
  <2> QED
    BY <2>1, <2>6, <2>7 DEF Generations
<1>13. SourcesTrace'
  <2> SUFFICES ASSUME NEW d \in Days, source[d] # 0, source[d] \notin muddled
               PROVE  /\ sug'[source[d]].day = d /\ rate[d].price = sug'[source[d]].price
                      /\ sug'[source[d]].status = "APPLIED" \/ AboutToMark(source[d])'
    BY <1>2 DEF SourcesTrace
  <2>1. source[d] \in Suggestions
    BY DEF PricingInv, PricingTyped
  <2>2. /\ sug[source[d]].day = d /\ rate[d].price = sug[source[d]].price
        /\ sug[source[d]].status = "APPLIED" \/ AboutToMark(source[d])
    BY DEF PricingInv, SourcesTrace
  <2>3. AboutToMark(source[d]) => AboutToMark(source[d])' /\ sug[source[d]].status # "none"
    BY <1>2, <1>7 DEF AboutToMark, PricingInv, DesksKnow, DeskKnows
  <2>4. source[d] # n
    BY <1>6, <2>2, <2>3
  <2> QED
    BY <1>8, <2>1, <2>2, <2>3, <2>4
<1> QED
  BY <1>10, <1>11, <1>12, <1>13 DEF PricingInv

\* A row whose status changes, but not to pending.
LEMMA DecideInv ==
  ASSUME PricingInv, NEW n \in Suggestions, NEW verdict \in {"APPROVED", "REJECTED"}, P!Decide(n, verdict)
  PROVE  PricingInv'
<1> DEFINE new == [sug[n] EXCEPT !.status = verdict]
<1>1. /\ sug[n].status \notin {"none", "deleted"} /\ sug' = [sug EXCEPT ![n] = new]
      /\ muddled' = muddled \cup {m \in {n} : P!HeldRow(m) \/ m \in {source[d] : d \in Days}}
      /\ UNCHANGED <<rate, desk, source>>
  BY DEF P!Decide, PricingInv, PricingTyped
<1>2. new \in SuggestionRow /\ new.status = verdict /\ new.day = sug[n].day /\ new.price = sug[n].price
      /\ new.beside = sug[n].beside
  BY DEF PricingInv, PricingTyped, SuggestionRow
<1> HIDE DEF new
<1>3. sug' \in [Suggestions -> SuggestionRow] /\ sug'[n] = new /\ \A m \in Suggestions : m # n => sug'[m] = sug[m]
  BY <1>1, <1>2 DEF PricingInv, PricingTyped
<1>4. PricingTyped'
  BY <1>1, <1>3 DEF PricingInv, PricingTyped
<1>5. DesksKnow'
  <2>1. ASSUME NEW g \in Handlers
        PROVE  DeskKnows(desk[g])'
    <3>1. DeskKnows(desk[g]) /\ desk[g].rows \subseteq Suggestions /\ desk'[g] = desk[g]
      BY <1>1 DEF PricingInv, PricingTyped, DesksKnow, DeskRow
    <3> QED
      BY <1>1, <1>2, <1>3, <3>1 DEF DeskKnows
  <2> QED
    BY <1>1, <1>2, <1>3, <2>1 DEF PricingInv, DesksKnow
<1>6. Generations'
  <2>1. P!Pending' \subseteq P!Pending /\ \A m \in P!Pending' : sug'[m] = sug[m]
    BY <1>2, <1>3 DEF P!Pending
  <2> QED
    BY <1>1, <2>1 DEF PricingInv, Generations
<1>7. SourcesTrace'
  <2> SUFFICES ASSUME NEW d \in Days, source[d] # 0, source[d] \notin muddled'
               PROVE  /\ sug'[source[d]].day = d /\ rate[d].price = sug'[source[d]].price
                      /\ sug'[source[d]].status = "APPLIED" \/ AboutToMark(source[d])'
    BY <1>1 DEF SourcesTrace
  <2>1. source[d] \in Suggestions /\ source[d] # n /\ source[d] \notin muddled
    BY <1>1 DEF PricingInv, PricingTyped
  <2>2. AboutToMark(source[d])' <=> AboutToMark(source[d])
    BY <1>1 DEF AboutToMark
  <2> QED
    BY <1>3, <2>1, <2>2 DEF PricingInv, SourcesTrace
<1> QED
  BY <1>4, <1>5, <1>6, <1>7 DEF PricingInv

LEMMA ApplyPriceInv ==
  ASSUME PricingInv, NEW h \in Handlers, P!ApplyPrice(h)
  PROVE  PricingInv'
<1>1. PICK n \in desk[h].rows :
        P!SetDay(n) /\ desk' = [desk EXCEPT ![h].pc = "mark", ![h].day = n]
  BY DEF P!ApplyPrice
<1> DEFINE d == sug[n].day
           price == [rate[d] EXCEPT !.price = sug[n].price]
           row == [desk[h] EXCEPT !.pc = "mark", !.day = n]
<1>2. desk[h].pc = "price" /\ UNCHANGED <<sug, muddled>>
  BY DEF P!ApplyPrice
<1>3. desk[h] \in DeskRow /\ n \in Suggestions /\ n \in Nat /\ sug[n] \in SuggestionRow /\ d \in Days
      /\ DeskKnows(desk[h])
  BY <1>2, CalendarAssumption DEF PricingInv, PricingTyped, DeskRow, DesksKnow, DeskKnows
<1>4. rate' = [rate EXCEPT ![d] = price] /\ source' = [source EXCEPT ![d] = n]
  BY <1>1, <1>3 DEF P!SetDay, PricingInv, PricingTyped
<1>5. price \in RateRow /\ price.price = sug[n].price
  <2>1. sug[n].price \in Nat
    BY <1>3, PricesAreNumbers DEF SuggestionRow
  <2>2. rate[d] \in RateRow
    BY <1>3 DEF PricingInv, PricingTyped
  <2> QED
    BY <2>1, <2>2 DEF RateRow
<1>6. row \in DeskRow /\ row.pc = "mark" /\ row.day = n /\ row.rows = desk[h].rows /\ DeskKnows(row)
      /\ desk' = [desk EXCEPT ![h] = row]
  BY <1>1, <1>2, <1>3 DEF DeskRow, DeskKnows, PricingInv, PricingTyped
<1> HIDE DEF price, row
<1>7. desk' \in [Handlers -> DeskRow] /\ desk'[h] = row /\ \A g \in Handlers : g # h => desk'[g] = desk[g]
  BY <1>6 DEF PricingInv, PricingTyped
<1>8. /\ rate' \in [Days -> RateRow] /\ source' \in [Days -> Suggestions \cup {0}]
      /\ source'[d] = n /\ rate'[d] = price
      /\ \A e \in Days : e # d => source'[e] = source[e] /\ rate'[e] = rate[e]
  BY <1>3, <1>4, <1>5 DEF PricingInv, PricingTyped
<1>9. PricingTyped'
  BY <1>2, <1>7, <1>8 DEF PricingInv, PricingTyped
<1>10. DesksKnow'
  BY <1>2, <1>6, <1>7 DEF PricingInv, DesksKnow, DeskKnows
<1>11. Generations'
  BY <1>2, <1>6, <1>7 DEF PricingInv, Generations, AreGenerating, P!Pending
<1>12. SourcesTrace'
  <2> SUFFICES ASSUME NEW e \in Days, source'[e] # 0, source'[e] \notin muddled
               PROVE  /\ sug[source'[e]].day = e /\ rate'[e].price = sug[source'[e]].price
                      /\ \/ sug[source'[e]].status = "APPLIED"
                         \/ \E g \in Handlers : desk'[g].pc = "mark" /\ desk'[g].day = source'[e]
    BY <1>2 DEF SourcesTrace, AboutToMark
  <2>1. CASE e = d
    <3>1. desk'[h].pc = "mark" /\ desk'[h].day = n
      BY <1>6, <1>7
    <3> QED
      BY <1>5, <1>8, <2>1, <3>1
  <2>2. CASE e # d
    <3>1. source'[e] = source[e] /\ rate'[e] = rate[e]
      BY <1>8, <2>2
    <3>2. \A g \in Handlers : desk[g].pc = "mark" => desk'[g] = desk[g]
      BY <1>2, <1>7
    <3>3. source[e] # 0 /\ source[e] \notin muddled
      BY <1>2, <3>1
    <3>4. /\ sug[source[e]].day = e /\ rate[e].price = sug[source[e]].price
          /\ sug[source[e]].status = "APPLIED" \/ AboutToMark(source[e])
      BY <3>3 DEF PricingInv, SourcesTrace
    <3> QED
      BY <3>1, <3>2, <3>4 DEF AboutToMark
  <2> QED
    BY <2>1, <2>2
<1> QED
  BY <1>9, <1>10, <1>11, <1>12 DEF PricingInv

LEMMA ApplyMarkInv ==
  ASSUME PricingInv, NEW h \in Handlers, P!ApplyMark(h)
  PROVE  PricingInv'
<1> DEFINE n == desk[h].day
           rest == desk[h].rows \ {n}
           row == IF rest = {} THEN P!Idle ELSE [P!Idle EXCEPT !.pc = "price", !.rows = rest]
           new == [sug[n] EXCEPT !.status = "APPLIED"]
<1>1. desk[h].pc = "mark" /\ UNCHANGED <<rate, source, muddled>>
  BY DEF P!ApplyMark
<1>2. desk[h] \in DeskRow /\ DeskKnows(desk[h]) /\ n \in desk[h].rows /\ n \in Suggestions
  BY <1>1 DEF PricingInv, PricingTyped, DesksKnow, DeskKnows, DeskRow
<1>3. CASE sug[n].status = "deleted"
  <2>1. desk' = [desk EXCEPT ![h] = P!Idle] /\ UNCHANGED sug
    BY <1>3 DEF P!ApplyMark
  <2>2. n \in muddled
    BY <1>1, <1>2, <1>3 DEF DeskKnows
  <2> QED
    BY <1>1, <2>1, <2>2, IdleDesk, DeskOnly
<1>4. CASE sug[n].status # "deleted"
  <2>1. sug' = [sug EXCEPT ![n] = new] /\ desk' = [desk EXCEPT ![h] = row]
    BY <1>2, <1>4 DEF P!ApplyMark, P!Marked, PricingInv, PricingTyped
  <2>2. row \in DeskRow /\ row.pc \in {"idle", "price"} /\ row.rows \subseteq desk[h].rows
    <3>1. rest \subseteq Suggestions
      BY <1>2 DEF DeskRow
    <3>2. CASE rest = {}
      BY <3>2, IdleDesk DEF P!Idle
    <3>3. CASE rest # {}
      <4>1. row = [P!Idle EXCEPT !.pc = "price", !.rows = rest]
        BY <3>3
      <4>2. row \in DeskRow /\ row.pc = "price" /\ row.rows = rest
        BY <3>1, <4>1, IdleDesk DEF DeskRow
      <4> QED
        BY <4>2
    <3> QED
      BY <3>2, <3>3
  <2>3. new \in SuggestionRow /\ new.status = "APPLIED" /\ new.day = sug[n].day /\ new.price = sug[n].price
        /\ new.beside = sug[n].beside
    BY <1>2 DEF PricingInv, PricingTyped, SuggestionRow
  <2>4. sug[n].status # "none"
    BY <1>1, <1>2 DEF DeskKnows
  <2> HIDE DEF row, new, rest
  <2>5. desk' \in [Handlers -> DeskRow] /\ desk'[h] = row /\ \A g \in Handlers : g # h => desk'[g] = desk[g]
    BY <2>1, <2>2 DEF PricingInv, PricingTyped
  <2>6. sug' \in [Suggestions -> SuggestionRow] /\ sug'[n] = new
        /\ \A m \in Suggestions : m # n => sug'[m] = sug[m]
    BY <1>2, <2>1, <2>3 DEF PricingInv, PricingTyped
  <2>7. PricingTyped'
    BY <1>1, <2>5, <2>6 DEF PricingInv, PricingTyped
  <2>8. DesksKnow'
    <3>1. \A m \in Suggestions : /\ sug[m].status # "none" => sug'[m].status # "none"
                                 /\ sug'[m].status = "deleted" => sug[m].status = "deleted"
      BY <2>3, <2>6
    <3>2. ASSUME NEW g \in Handlers
          PROVE  DeskKnows(desk[g])'
      <4>1. DeskKnows(desk[g]) /\ desk[g].rows \subseteq Suggestions
        BY DEF PricingInv, PricingTyped, DesksKnow, DeskRow
      <4>2. CASE g = h
        BY <1>1, <2>2, <2>5, <3>1, <4>1, <4>2 DEF DeskKnows
      <4>3. CASE g # h
        BY <1>1, <2>5, <3>1, <4>1, <4>3 DEF DeskKnows
      <4> QED
        BY <4>2, <4>3
    <3> QED
      BY <1>2, <2>3, <2>4, <2>6, <3>2 DEF PricingInv, DesksKnow
  <2>9. Generations'
    <3>1. P!Pending' \subseteq P!Pending /\ \A m \in P!Pending' : sug'[m] = sug[m]
      BY <2>3, <2>6 DEF P!Pending
    <3> QED
      BY <2>2, <2>5, <3>1 DEF PricingInv, Generations, AreGenerating
  <2>10. SourcesTrace'
    <3> SUFFICES ASSUME NEW d \in Days, source[d] # 0, source[d] \notin muddled
                 PROVE  /\ sug'[source[d]].day = d /\ rate[d].price = sug'[source[d]].price
                        /\ sug'[source[d]].status = "APPLIED" \/ AboutToMark(source[d])'
      BY <1>1 DEF SourcesTrace
    <3>1. source[d] \in Suggestions
      BY DEF PricingInv, PricingTyped
    <3>2. /\ sug[source[d]].day = d /\ rate[d].price = sug[source[d]].price
          /\ sug[source[d]].status = "APPLIED" \/ AboutToMark(source[d])
      BY DEF PricingInv, SourcesTrace
    <3>3. CASE source[d] = n
      BY <2>3, <2>6, <3>2, <3>3
    <3>4. CASE source[d] # n
      <4>1. AboutToMark(source[d]) => AboutToMark(source[d])'
        BY <1>1, <2>5, <3>4 DEF AboutToMark
      <4> QED
        BY <2>6, <3>1, <3>2, <3>4, <4>1
    <3> QED
      BY <3>3, <3>4
  <2> QED
    BY <2>7, <2>8, <2>9, <2>10 DEF PricingInv
<1> QED
  BY <1>3, <1>4

LEMMA PricingStepInv ==
  ASSUME PricingInv, [P!Next]_P!vars
  PROVE  PricingInv'
<1>1. ASSUME NEW n \in Suggestions, NEW s \in {"APPROVED", "REJECTED"}, P!Decide(n, s)
      PROVE  PricingInv'
  BY <1>1, DecideInv
<1>2. ASSUME NEW h \in Handlers, NEW range \in Ranges, P!SetCalendarStart(h, range)
      PROVE  PricingInv'
  <2> DEFINE row == [P!Idle EXCEPT !.pc = "set", !.day = range.from, !.range = range]
  <2>1. desk' = [desk EXCEPT ![h] = row] /\ desk[h] = P!Idle /\ UNCHANGED <<rate, sug, source, muddled>>
    BY <1>2 DEF P!SetCalendarStart
  <2>2. range.from \in Days /\ range.from \in Nat /\ range.from <= range.to
    BY CalendarAssumption, DaysAreFirst
  <2>3. row \in DeskRow /\ row.pc = "set" /\ row.day = range.from /\ row.range = range
    BY <2>2, IdleDesk DEF DeskRow
  <2> HIDE DEF row
  <2>4. DeskKnows(row)
    BY <2>2, <2>3 DEF DeskKnows
  <2> QED
    BY <2>1, <2>3, <2>4, IdleDesk, DeskOnly
<1>3. ASSUME NEW h \in Handlers, P!SetCalendarDay(h)
      PROVE  PricingInv'
  BY <1>3, SetCalendarDayInv
<1>4. ASSUME NEW h \in Handlers, NEW auto \in BOOLEAN, P!GenerateStart(h, auto)
      PROVE  PricingInv'
  BY <1>4, GenerateStartInv
<1>5. ASSUME NEW h \in Handlers, P!Clear(h) \/ P!Make(h)
      PROVE  PricingInv'
  BY <1>5, ClearInv, MakeInv
<1>6. ASSUME NEW h \in Handlers, NEW n \in Suggestions, P!ApplyStart(h, n)
      PROVE  PricingInv'
  <2> DEFINE row == [P!Idle EXCEPT !.pc = "price", !.rows = {n}]
  <2>1. /\ desk' = [desk EXCEPT ![h] = row] /\ desk[h] = P!Idle /\ sug[n].status = "APPROVED"
        /\ UNCHANGED <<rate, sug, source, muddled>>
    BY <1>6 DEF P!ApplyStart
  <2>2. row \in DeskRow /\ row.pc = "price" /\ row.rows = {n}
    BY IdleDesk DEF DeskRow
  <2> HIDE DEF row
  <2>3. DeskKnows(row)
    BY <2>1, <2>2 DEF DeskKnows
  <2> QED
    BY <2>1, <2>2, <2>3, IdleDesk, DeskOnly
<1>7. ASSUME NEW h \in Handlers, P!AutoList(h)
      PROVE  PricingInv'
  <2> DEFINE row == IF P!Pending = {} THEN P!Idle ELSE [P!Idle EXCEPT !.pc = "price", !.rows = P!Pending]
  <2>1. desk' = [desk EXCEPT ![h] = row] /\ desk[h].pc = "list" /\ UNCHANGED <<rate, sug, source, muddled>>
    BY <1>7 DEF P!AutoList
  <2>2. row \in DeskRow /\ row.pc \in {"idle", "price"} /\ DeskKnows(row)
    <3>1. P!Pending \subseteq Suggestions /\ \A n \in P!Pending : sug[n].status = "SUGGESTED"
      BY DEF P!Pending
    <3>2. CASE P!Pending = {}
      BY <3>2, IdleDesk
    <3>3. CASE P!Pending # {}
      <4>1. row = [P!Idle EXCEPT !.pc = "price", !.rows = P!Pending]
        BY <3>3
      <4>2. row \in DeskRow /\ row.pc = "price" /\ row.rows = P!Pending
        BY <3>1, <4>1, IdleDesk DEF DeskRow
      <4> QED
        BY <3>1, <4>2 DEF DeskKnows
    <3> QED
      BY <3>2, <3>3
  <2> HIDE DEF row
  <2> QED
    BY <2>1, <2>2, DeskOnly
<1>8. ASSUME NEW h \in Handlers, P!ApplyPrice(h) \/ P!ApplyMark(h)
      PROVE  PricingInv'
  BY <1>8, ApplyPriceInv, ApplyMarkInv
<1>9. ASSUME NEW h \in Handlers, P!Die(h)
      PROVE  PricingInv'
  <2>1. /\ desk' = [desk EXCEPT ![h] = P!Idle] /\ UNCHANGED <<rate, sug, source>>
        /\ muddled \subseteq muddled'
        /\ desk[h].pc = "mark" => desk[h].day \in muddled'
    BY <1>9 DEF P!Die
  <2> QED
    BY <2>1, IdleDesk, DeskOnly
<1>10. CASE UNCHANGED P!vars
  BY <1>10 DEF P!vars, PricingInv, PricingTyped, DesksKnow, DeskKnows, Generations, SourcesTrace,
     AboutToMark, P!Pending
<1> QED
  BY <1>1, <1>2, <1>3, <1>4, <1>5, <1>6, <1>7, <1>8, <1>9, <1>10 DEF P!Next

LEMMA SameInPricing == \A f, s : P!SumFunctionOnSet(f, s) = SumFunctionOnSet(f, s)
BY Zenon DEF P!SumFunctionOnSet, P!FoldFunctionOnSet, P!MapThenFoldSet, SumFunctionOnSet,
   FoldFunctionOnSet, MapThenFoldSet

\* A night costs a number, with every plan.
LEMMA NightCosts ==
  ASSUME PricingTyped, NEW plan \in Plans, NEW d
  PROVE  P!Adjusted(plan, P!PriceOf(d)) \in Int
<1>1. P!RateOf(d) \in RateRow
  BY DEF P!RateOf, P!NoRate, RateRow, PricingTyped
<1>2. P!PriceOf(d) \in Nat
  BY <1>1, CalendarAssumption DEF P!PriceOf, RateRow
<1> DEFINE price == P!PriceOf(d)
<1>3. plan.value \in Int /\ plan.kind \in {"ABSOLUTE", "FIXED", "PERCENT"}
  BY CalendarAssumption
<1> HIDE DEF price
<1>4. price \in Nat
  BY <1>2 DEF price
<1>5. P!NotNegative(price + plan.value) \in Int
  BY <1>3, <1>4 DEF P!NotNegative
<1>6. P!Percent(price, plan.value) \in Int
  <2> DEFINE value == plan.value
             doubled2 == 2 * price * (100 + value)
  <2>1. 2 * price \in Int /\ 100 + value \in Int
    BY <1>3, <1>4
  <2>2. doubled2 \in Int
    BY <2>1
  <2> HIDE DEF doubled2
  <2>3. (doubled2 + 100) \div 200 \in Int
    BY <2>2
  <2> QED
    BY <2>3 DEF P!Percent, doubled2
<1>7. P!NotNegative(P!Percent(price, plan.value)) \in Int
  BY <1>6 DEF P!NotNegative
<1>8. P!Adjusted(plan, price) \in Int
  BY <1>3, <1>5, <1>7 DEF P!Adjusted
<1> QED
  BY <1>8 DEF price

LEMMA QuotesSplit ==
  ASSUME PricingTyped, NEW in \in Int, NEW mid \in Int, NEW out \in Int, in < mid, mid < out
  PROVE  /\ \A plan \in Plans : P!Total(plan, in, out) = P!Total(plan, in, mid) + P!Total(plan, mid, out)
         /\ P!Blocked(in, out) = (P!Blocked(in, mid) \/ P!Blocked(mid, out))
<1> DEFINE first == in .. mid - 1
           second == mid .. out - 1
<1>1. /\ P!NightsOf(in, mid) = first /\ P!NightsOf(mid, out) = second
      /\ P!NightsOf(in, out) = first \cup second
  BY DEF P!NightsOf
<1>2. IsFiniteSet(first) /\ IsFiniteSet(second) /\ IsFiniteSet(first \cup second) /\ first \cap second = {}
  <2>1. IsFiniteSet(first)
    BY FS_Interval
  <2>2. IsFiniteSet(second)
    BY FS_Interval
  <2>3. IsFiniteSet(first \cup second)
    BY <2>1, <2>2, FS_Union
  <2> QED
    BY <2>1, <2>2, <2>3
<1> HIDE DEF first, second
<1>3. ASSUME NEW plan \in Plans
      PROVE  P!Total(plan, in, out) = P!Total(plan, in, mid) + P!Total(plan, mid, out)
  <2> DEFINE costs(nights) == [d \in nights |-> P!Adjusted(plan, P!PriceOf(d))]
             f == costs(first)
             g == costs(second)
             both == first \cup second
             h == costs(both)
  <2>1. \A d \in both : h[d] \in Int
    BY NightCosts
  <2>2. (\A d \in first : f[d] = h[d]) /\ (\A d \in second : g[d] = h[d])
    OBVIOUS
  <2>3. /\ P!Total(plan, in, mid) = SumFunctionOnSet(f, first)
        /\ P!Total(plan, mid, out) = SumFunctionOnSet(g, second)
        /\ P!Total(plan, in, out) = SumFunctionOnSet(h, both)
    BY <1>1, SameInPricing DEF P!Total
  <2>4. SumFunctionOnSet(h, first \cup second) = SumFunctionOnSet(h, first) + SumFunctionOnSet(h, second)
    <3> HIDE DEF h
    <3> QED
      BY <1>2, <2>1, SumUnion DEF both
  <2> HIDE DEF f, g, h
  <2>5. SumFunctionOnSet(f, first) = SumFunctionOnSet(h, first)
    BY <1>2, <2>2, SumSame
  <2>6. SumFunctionOnSet(g, second) = SumFunctionOnSet(h, second)
    BY <1>2, <2>2, SumSame
  <2> QED
    BY <2>3, <2>4, <2>5, <2>6 DEF both
<1>4. P!Blocked(in, out) = (P!Blocked(in, mid) \/ P!Blocked(mid, out))
  BY <1>1, Zenon DEF P!Blocked
<1> QED
  BY <1>3, <1>4

\* The invariant, in every state of the back office.
LEMMA PricingInvHolds == BackOfficeSpec => []PricingInv
<1>1. BackOfficeInit => PricingInv
  BY PricingInit DEF BackOfficeInit
<1>2. PricingInv /\ [BackOfficeNext]_officeVars => PricingInv'
  BY PricingStepInv, PricingMoves
<1> QED
  BY <1>1, <1>2, PTL DEF BackOfficeSpec

\* A suggested price in the calendar traces to the suggestion that was applied, a day
\* has one pending suggestion, and a stay costs what its parts cost: rates.service,
\* revenue.service and pricing.service, for any calendar, plans and requests.
THEOREM PricesAlwaysHold == BackOfficeSpec => []PricesHold
<1>1. PricingInv => PricesHold
  <2> SUFFICES ASSUME PricingInv PROVE P!PricesTrace /\ P!OnePendingPerDay /\ P!QuotesAdd
    BY DEF PricesHold
  <2>1. P!PricesTrace
    <3> SUFFICES ASSUME NEW d \in Days, source[d] # 0, source[d] \notin muddled, ~ P!HeldRow(source[d])
                 PROVE  /\ sug[source[d]].status = "APPLIED" /\ sug[source[d]].day = d
                        /\ rate[d].price = sug[source[d]].price
      BY DEF P!PricesTrace
    <3>1. ~ AboutToMark(source[d])
      BY DEF AboutToMark, P!HeldRow, PricingInv, DesksKnow, DeskKnows
    <3> QED
      BY <3>1 DEF PricingInv, SourcesTrace
  <2>2. P!OnePendingPerDay
    <3>1. \A m, n \in P!Pending : m < n => m # n
      <4>0. Suggestions \subseteq Int
        BY CalendarAssumption
      <4>1. \A n \in P!Pending : n \in Int
        BY <4>0 DEF P!Pending
      <4> QED
        BY <4>1
    <3> QED
      BY <3>1 DEF P!OnePendingPerDay, PricingInv, Generations
  <2>3. P!QuotesAdd
    <3>1. \A d \in Days \cup {P!LastDay + 1} : d \in Int
      BY DaysAreFirst
    <3> QED
      BY <3>1, QuotesSplit DEF P!QuotesAdd, PricingInv
  <2> QED
    BY <2>1, <2>2, <2>3
<1> QED
  BY <1>1, PricingInvHolds, PTL

-----------------------------------------------------------------------------
(* Stock                                                                   *)
(*                                                                         *)
(* A quantity is written from what was read before, so that it follows the *)
(* movements only while one request holds the item.  Of a request that     *)
(* holds it the inserted movement is still to be written; a count in       *)
(* flight expects what the item was, less what has moved since.            *)

LEMMA StockMoves ==
  ASSUME [BackOfficeNext]_officeVars
  PROVE  [S!Next]_S!vars
<1>1. CASE StockStep
  BY <1>1 DEF StockStep
<1> QED
  BY <1>1 DEF BackOfficeNext, officeVars, stock, S!vars, TurnoverStep, PreventiveStep, DistributionStep,
     InboxStep, CityLedgerStep, LoyaltyStep, StaffingStep, PricingStep, AttendanceStep, CampaignsStep

StockMovements == [item : Items, delta : Int, depletes : BOOLEAN]

ClerkRows == [op : S!Kinds \cup {"idle"},
              pc : {"idle", "record", "write", "signal", "tally", "correct", "finish"},
              todo : Seq(StockMovements), before : Int,
              sheet : [expected : Int, counted : Int, at : Int]]

\* Where a request can be that does op, and what it has left there.
AtWork(s) ==
    /\ s.todo = <<>> <=> s.pc \in {"idle", "finish"}
    /\ s.pc \in {"tally", "correct"} <=> s.op = "count"
    /\ s.pc = "idle" <=> s.op = "idle"
    /\ s.pc = "finish" => S!About(s.op) # "none"
    /\ s.pc \in {"record", "write", "signal"} => s.op \in {"move", "kitchen", "receive", "receivePart"}

StockTyped ==
    /\ qty \in [Items -> Int] /\ moved \in [Items -> Int]
    /\ counted \in [Items -> [qty : Int, at : Int]]
    /\ po \in [status : S!POStatuses \cup {"none"}, items : SUBSET Items]
    /\ meal \in [status : {"OPEN", "SENT_TO_KITCHEN"}, lines : SUBSET Items]
    /\ clerk \in [Handlers -> ClerkRows]
    /\ \A c \in Handlers : AtWork(clerk[c])
    /\ posted \in [Items -> Nat] /\ served \in [Items -> Nat] /\ parts \in Nat
    /\ torn \subseteq Items /\ unseen \subseteq Items /\ mixed \subseteq {"po", "meal"}

LEMMA IdleRow == S!Idle \in ClerkRows /\ AtWork(S!Idle) /\ S!Idle.todo = <<>>
                 /\ S!Idle.pc = "idle" /\ S!Idle.op = "idle"
BY DEF S!Idle, S!NoSheet, ClerkRows, AtWork, S!About, S!Kinds

LEMMA RowOfFields ==
  \A s \in ClerkRows :
    s = [op |-> s.op, pc |-> s.pc, todo |-> s.todo, before |-> s.before, sheet |-> s.sheet]
BY DEF ClerkRows

LEMMA AMovement ==
  ASSUME NEW i \in Items, NEW type, NEW q \in Int
  PROVE  S!Movement(i, type, q) \in StockMovements /\ S!Movement(i, type, q).item = i
BY DEF S!Movement, S!SignedDelta, S!Depleting, StockMovements

\* What a list of movements, and the rest of one, is.
LEMMA FirstOf ==
  ASSUME NEW q \in Seq(StockMovements), q # <<>>
  PROVE  /\ Len(q) \in Nat /\ Len(q) >= 1
         /\ q[1] \in StockMovements /\ q[1].item \in Items /\ q[1].delta \in Int /\ q[1].depletes \in BOOLEAN
         /\ Tail(q) \in Seq(StockMovements) /\ Len(Tail(q)) = Len(q) - 1
         /\ \A k \in 1 .. Len(q) - 1 : Tail(q)[k] = q[k + 1]
         /\ Tail(q) = <<>> <=> Len(q) = 1
<1>1. Len(q) \in Nat /\ Len(q) >= 1
  BY EmptySeq, LenProperties
<1>2. q[1] \in StockMovements
  BY <1>1
<1>3. Tail(q) \in Seq(StockMovements) /\ Len(Tail(q)) = Len(q) - 1
      /\ \A k \in 1 .. Len(q) - 1 : Tail(q)[k] = q[k + 1]
  BY <1>1, HeadTailProperties
<1>4. Tail(q) = <<>> <=> Len(q) = 1
  <2>1. Tail(q) # <<>> => Len(Tail(q)) # 0
    BY <1>3, EmptySeq
  <2>2. Tail(q) = <<>> => Len(Tail(q)) = 0
    BY EmptySeq
  <2> QED
    BY <1>1, <1>3, <2>1, <2>2
<1> QED
  BY <1>1, <1>2, <1>3, <1>4 DEF StockMovements

LEMMA ClerkGoesOn ==
  ASSUME NEW s \in ClerkRows, AtWork(s), s.pc \in {"write", "signal"}
  PROVE  /\ S!Onward(s) \in ClerkRows /\ AtWork(S!Onward(s))
         /\ S!Onward(s).pc \in {"record", "finish", "idle"}
         /\ S!About(S!Onward(s).op) = S!About(s.op)
         /\ S!About(s.op) # "none" => S!Onward(s).op = s.op
         /\ S!Onward(s).pc = "record" => S!Onward(s).todo = Tail(s.todo) /\ Len(s.todo) > 1
         /\ S!Onward(s).pc # "record" => S!Onward(s).todo = <<>> /\ Len(s.todo) = 1
<1>1. s.todo \in Seq(StockMovements) /\ s.todo # <<>> /\ s.op \in {"move", "kitchen", "receive", "receivePart"}
  BY DEF ClerkRows, AtWork
<1>2. CASE Len(s.todo) > 1
  <2>1. S!Onward(s) = [op |-> s.op, pc |-> "record", todo |-> Tail(s.todo), before |-> 0, sheet |-> s.sheet]
    BY <1>2 DEF S!Onward, ClerkRows
  <2>2. Tail(s.todo) \in Seq(StockMovements) /\ Tail(s.todo) # <<>>
    <3>1. \A n \in Nat : n > 1 => n # 1
      OBVIOUS
    <3>2. Len(s.todo) # 1
      BY <1>1, <1>2, <3>1, FirstOf, Zenon
    <3> QED
      BY <1>1, <3>2, FirstOf
  <2> QED
    BY <1>1, <1>2, <2>1, <2>2 DEF ClerkRows, AtWork
<1>3. CASE ~ (Len(s.todo) > 1)
  <2>1. Len(s.todo) = 1
    BY <1>1, <1>3, FirstOf
  <2>2. CASE S!About(s.op) = "none"
    BY <1>3, <2>1, <2>2, IdleRow DEF S!Onward, S!About
  <2>3. CASE S!About(s.op) # "none"
    <3>1. S!Onward(s) = [op |-> s.op, pc |-> "finish", todo |-> <<>>, before |-> 0, sheet |-> S!NoSheet]
      BY <1>3, <2>3 DEF S!Onward, S!Idle
    <3> QED
      BY <1>1, <2>1, <2>3, <3>1, IdleRow DEF ClerkRows, AtWork, S!Idle
  <2> QED
    BY <2>2, <2>3
<1> QED
  BY <1>2, <1>3

\* Request c is at item i.
AtItem(c, i) == clerk[c].pc \in {"write", "signal", "tally", "correct"} /\ clerk[c].todo[1].item = i

\* Request c has read item i and not written it yet.
Holds(c, i) == clerk[c].pc \in {"write", "correct"} /\ clerk[c].todo[1].item = i

\* Request c has inserted a movement of item i and not written the quantity.
Owes(c, i) == clerk[c].pc = "write" /\ clerk[c].todo[1].item = i

\* An item that one request held at a time.
ItemAgrees(i) ==
    /\ \A c, d \in Handlers : Holds(c, i) /\ Holds(d, i) => c = d
    /\ \A c \in Handlers : Holds(c, i) => clerk[c].before = qty[i]
    /\ \A c \in Handlers : Owes(c, i) => qty[i] + clerk[c].todo[1].delta = Opening + moved[i]
    /\ (\A c \in Handlers : ~ Owes(c, i)) => qty[i] = Opening + moved[i]
    /\ counted[i].qty = Opening + counted[i].at
    /\ \A c \in Handlers : clerk[c].pc \in {"tally", "correct"} /\ AtItem(c, i) =>
         /\ clerk[c].sheet.expected = Opening + clerk[c].sheet.at
         /\ clerk[c].todo[1].delta = clerk[c].sheet.counted - clerk[c].sheet.expected
    /\ i \in unseen => \E c \in Handlers : AtItem(c, i) /\ clerk[c].pc = "signal"

ItemsAgree == \A i \in Items \ torn : ItemAgrees(i)

\* Items that a step of request c is not at.
LEMMA OtherItems ==
  ASSUME NEW c \in Handlers, NEW i \in Items, ItemAgrees(i),
         \A d \in Handlers \ {c} : clerk'[d] = clerk[d],
         qty'[i] = qty[i], moved'[i] = moved[i], counted'[i] = counted[i], i \in unseen' => i \in unseen,
         ~ AtItem(c, i), ~ AtItem(c, i)'
  PROVE  ItemAgrees(i)'
<1>1. \A d \in Handlers : /\ (AtItem(d, i)' <=> AtItem(d, i)) /\ (Holds(d, i)' <=> Holds(d, i))
                          /\ (Owes(d, i)' <=> Owes(d, i))
                          /\ (AtItem(d, i) => clerk'[d] = clerk[d])
  BY DEF AtItem, Holds, Owes
<1>2. \A d \in Handlers : (Holds(d, i) => AtItem(d, i)) /\ (Owes(d, i) => AtItem(d, i))
  BY DEF AtItem, Holds, Owes
<1> QED
  BY <1>1, <1>2 DEF ItemAgrees

\* A request begins with its first movement or, having none, with its last statement.
LEMMA Begins ==
  ASSUME StockTyped, NEW c \in Handlers, NEW moves \in Seq(StockMovements),
         NEW op \in {"move", "kitchen", "submit", "approve", "send", "receive", "receivePart"},
         moves = <<>> => S!About(op) # "none",
         moves # <<>> => op \in {"move", "kitchen", "receive", "receivePart"},
         S!Begin(c, op, moves)
  PROVE  /\ clerk[c] = S!Idle
         /\ clerk' \in [Handlers -> ClerkRows] /\ (\A d \in Handlers : AtWork(clerk'[d]))
         /\ \A d \in Handlers \ {c} : clerk'[d] = clerk[d]
         /\ clerk'[c].op = op /\ clerk'[c].todo = moves
         /\ clerk'[c].pc = IF moves = <<>> THEN "finish" ELSE "record"
         /\ mixed \subseteq mixed' /\ mixed' \subseteq {"po", "meal"}
         /\ \A order \in {"po", "meal"}, d \in Handlers :
              S!About(op) = order /\ S!About(clerk[d].op) = order => order \in mixed'
<1> DEFINE new == [op |-> op, pc |-> IF moves = <<>> THEN "finish" ELSE "record",
                   todo |-> moves, before |-> 0, sheet |-> S!NoSheet]
<1>1. clerk[c] = S!Idle /\ clerk' = [clerk EXCEPT ![c] = new]
  BY DEF S!Begin
<1>2. new \in ClerkRows /\ AtWork(new)
  BY DEF ClerkRows, AtWork, S!Kinds, S!NoSheet, S!From
<1>3. S!About(op) \in {"po", "meal", "none"}
  BY DEF S!About
<1>4. mixed' \in {mixed, mixed \cup ({S!About(op)} \ {"none"})}
  BY DEF S!Begin
<1>5. \A order \in {"po", "meal"}, d \in Handlers :
        S!About(op) = order /\ S!About(clerk[d].op) = order => order \in mixed'
  BY DEF S!Begin
<1> HIDE DEF new
<1>6. clerk'[c] = new /\ clerk' \in [Handlers -> ClerkRows] /\ \A d \in Handlers \ {c} : clerk'[d] = clerk[d]
  BY <1>1, <1>2 DEF StockTyped
<1>7. \A d \in Handlers : AtWork(clerk'[d])
  BY <1>2, <1>6 DEF StockTyped
<1>8. mixed \subseteq mixed' /\ mixed' \subseteq {"po", "meal"}
  BY <1>3, <1>4 DEF StockTyped
<1> QED
  BY <1>1, <1>5, <1>6, <1>7, <1>8 DEF new

\* What a step writes in the row of its request.
LEMMA Rewrites ==
  ASSUME StockTyped, NEW c \in Handlers, NEW new \in ClerkRows, AtWork(new),
         clerk' = [clerk EXCEPT ![c] = new]
  PROVE  /\ clerk'[c] = new /\ (\A d \in Handlers \ {c} : clerk'[d] = clerk[d])
         /\ clerk' \in [Handlers -> ClerkRows] /\ \A d \in Handlers : AtWork(clerk'[d])
BY DEF StockTyped

LEMMA MoveRecordDoes ==
  ASSUME StockTyped, NEW c \in Handlers, S!MoveRecord(c)
  PROVE  LET s == clerk[c]  m == s.todo[1]
             new == [op |-> s.op, pc |-> "write", todo |-> s.todo, before |-> qty[m.item], sheet |-> s.sheet]
         IN  /\ s.pc = "record" /\ m \in StockMovements /\ m.item \in Items /\ m.delta \in Int
             /\ new \in ClerkRows /\ AtWork(new) /\ clerk' = [clerk EXCEPT ![c] = new]
             /\ moved' = [moved EXCEPT ![m.item] = @ + m.delta]
             /\ torn' = IF S!Held(m.item) THEN torn \cup {m.item} ELSE torn
             /\ posted' = [posted EXCEPT ![m.item] = IF S!About(s.op) = "po" THEN @ + 1 ELSE @]
             /\ served' = [served EXCEPT ![m.item] = IF S!About(s.op) = "meal" THEN @ + 1 ELSE @]
             /\ UNCHANGED <<qty, counted, po, meal, parts, mixed, unseen>>
<1> DEFINE s == clerk[c]  m == s.todo[1]
           new == [op |-> s.op, pc |-> "write", todo |-> s.todo, before |-> qty[m.item], sheet |-> s.sheet]
<1>1. s \in ClerkRows /\ AtWork(s) /\ s.pc = "record"
  BY DEF S!MoveRecord, StockTyped
<1>2. s.todo \in Seq(StockMovements) /\ s.todo # <<>>
  BY <1>1 DEF ClerkRows, AtWork
<1>3. m \in StockMovements /\ m.item \in Items /\ m.delta \in Int
  BY <1>2, FirstOf
<1>4. new \in ClerkRows /\ AtWork(new)
  BY <1>1, <1>3 DEF ClerkRows, AtWork, StockTyped
<1>5. clerk' = [clerk EXCEPT ![c] = new]
  <2>1. qty[m.item] \in Int
    BY <1>3 DEF StockTyped
  <2>2. clerk' = [clerk EXCEPT ![c].pc = "write", ![c].before = qty[m.item]]
    BY DEF S!MoveRecord
  <2>3. /\ clerk' \in [Handlers -> ClerkRows] /\ \A d \in Handlers \ {c} : clerk'[d] = clerk[d]
        /\ clerk'[c].op = s.op /\ clerk'[c].pc = "write" /\ clerk'[c].todo = s.todo
        /\ clerk'[c].before = qty[m.item] /\ clerk'[c].sheet = s.sheet
    BY <2>1, <2>2, ZenonT(40) DEF ClerkRows, StockTyped
  <2>4. clerk'[c] = new
    BY <2>3, RowOfFields
  <2> HIDE DEF new
  <2> QED
    BY <2>3, <2>4 DEF StockTyped
<1> QED
  BY <1>1, <1>3, <1>4, <1>5 DEF S!MoveRecord

LEMMA MoveWriteDoes ==
  ASSUME StockTyped, NEW c \in Handlers, S!MoveWrite(c)
  PROVE  LET s == clerk[c]  m == s.todo[1]  after == s.before + m.delta
             signal == [op |-> s.op, pc |-> "signal", todo |-> s.todo, before |-> s.before, sheet |-> s.sheet]
             new == IF S!Crosses(m, s.before, after) THEN signal ELSE S!Onward(s)
         IN  /\ s.pc = "write" /\ m \in StockMovements /\ m.item \in Items /\ m.delta \in Int /\ after \in Int
             /\ new \in ClerkRows /\ AtWork(new) /\ clerk' = [clerk EXCEPT ![c] = new]
             /\ qty' = [qty EXCEPT ![m.item] = after]
             /\ unseen' = IF after > Reorder THEN unseen \ {m.item}
                          ELSE IF m.depletes /\ qty[m.item] > Reorder THEN unseen \cup {m.item} ELSE unseen
             /\ UNCHANGED <<moved, counted, po, meal, posted, served, parts, torn, mixed>>
<1> DEFINE s == clerk[c]  m == s.todo[1]  after == s.before + m.delta
           signal == [op |-> s.op, pc |-> "signal", todo |-> s.todo, before |-> s.before, sheet |-> s.sheet]
           new == IF S!Crosses(m, s.before, after) THEN signal ELSE S!Onward(s)
<1>1. s \in ClerkRows /\ AtWork(s) /\ s.pc = "write"
  BY DEF S!MoveWrite, StockTyped
<1>2. s.todo \in Seq(StockMovements) /\ s.todo # <<>> /\ s.before \in Int
  BY <1>1 DEF ClerkRows, AtWork
<1>3. m \in StockMovements /\ m.item \in Items /\ m.delta \in Int /\ after \in Int
  BY <1>2, FirstOf
<1>4. signal \in ClerkRows /\ AtWork(signal)
  BY <1>1 DEF ClerkRows, AtWork
<1>5. S!Onward(s) \in ClerkRows /\ AtWork(S!Onward(s))
  BY <1>1, ClerkGoesOn
<1>6. signal = [s EXCEPT !.pc = "signal"]
  BY <1>1 DEF ClerkRows
<1>7. clerk' = [clerk EXCEPT ![c] = new]
  BY <1>6 DEF S!MoveWrite
<1> QED
  BY <1>1, <1>3, <1>4, <1>5, <1>7 DEF S!MoveWrite

LEMMA MoveSignalDoes ==
  ASSUME StockTyped, NEW c \in Handlers, S!MoveSignal(c)
  PROVE  LET s == clerk[c]  m == s.todo[1]
         IN  /\ s.pc = "signal" /\ m.item \in Items
             /\ S!Onward(s) \in ClerkRows /\ AtWork(S!Onward(s)) /\ clerk' = [clerk EXCEPT ![c] = S!Onward(s)]
             /\ unseen' = unseen \ {m.item}
             /\ UNCHANGED <<qty, moved, counted, po, meal, posted, served, parts, torn, mixed>>
<1> DEFINE s == clerk[c]
<1>1. s \in ClerkRows /\ AtWork(s) /\ s.pc = "signal"
  BY DEF S!MoveSignal, StockTyped
<1>2. s.todo \in Seq(StockMovements) /\ s.todo # <<>>
  BY <1>1 DEF ClerkRows, AtWork
<1>3. s.todo[1].item \in Items
  BY <1>2, FirstOf
<1>4. S!Onward(s) \in ClerkRows /\ AtWork(S!Onward(s))
  BY <1>1, ClerkGoesOn
<1> QED
  BY <1>1, <1>3, <1>4 DEF S!MoveSignal

LEMMA CountStartDoes ==
  ASSUME StockTyped, NEW c \in Handlers, S!CountStart(c)
  PROVE  \E i \in Items, new \in ClerkRows :
           /\ clerk[c] = S!Idle /\ AtWork(new) /\ clerk' = [clerk EXCEPT ![c] = new]
           /\ new.op = "count" /\ new.pc = "tally" /\ new.todo # <<>> /\ new.todo[1].item = i
           /\ new.sheet.expected = qty[i] /\ new.sheet.at = moved[i] /\ new.sheet.counted \in Int
           /\ new.todo[1].delta = new.sheet.counted - qty[i]
           /\ torn' = IF S!Held(i) THEN torn \cup {i} ELSE torn
           /\ UNCHANGED <<qty, moved, counted, po, meal, posted, served, parts, mixed, unseen>>
<1>1. PICK i \in Items, n \in Quantities \cap Nat :
        /\ clerk' = [clerk EXCEPT ![c] =
             [op |-> "count", pc |-> "tally", before |-> 0,
              todo |-> <<S!Movement(i, "COUNT_CORRECTION", S!Correction(qty[i], n))>>,
              sheet |-> [expected |-> qty[i], counted |-> n, at |-> moved[i]]]]
        /\ torn' = IF S!Held(i) THEN torn \cup {i} ELSE torn
  BY Zenon DEF S!CountStart
<1> DEFINE move == S!Movement(i, "COUNT_CORRECTION", n - qty[i])
           sheet == [expected |-> qty[i], counted |-> n, at |-> moved[i]]
           new == [op |-> "count", pc |-> "tally", before |-> 0, todo |-> <<move>>, sheet |-> sheet]
<1>2. n - qty[i] \in Int /\ n \in Int
  BY DEF StockTyped
<1>3. move \in StockMovements /\ move.item = i /\ move.delta = n - qty[i]
  BY <1>2, AMovement DEF S!Movement, S!SignedDelta, S!Depleting
<1>4. clerk' = [clerk EXCEPT ![c] = new]
  BY <1>1 DEF S!Correction
<1> HIDE DEF move
<1>5. <<move>> \in Seq(StockMovements) /\ <<move>> # <<>> /\ <<move>>[1] = move
  BY <1>3
<1>6. new \in ClerkRows /\ AtWork(new)
  BY <1>2, <1>5 DEF ClerkRows, AtWork, S!Kinds, StockTyped
<1>7. /\ new.op = "count" /\ new.pc = "tally" /\ new.todo = <<move>>
      /\ new.sheet.expected = qty[i] /\ new.sheet.at = moved[i] /\ new.sheet.counted = n
  OBVIOUS
<1> HIDE DEF new
<1> QED
  BY <1>1, <1>2, <1>3, <1>4, <1>5, <1>6, <1>7 DEF S!CountStart

LEMMA CountReadDoes ==
  ASSUME StockTyped, NEW c \in Handlers, S!CountRead(c)
  PROVE  LET s == clerk[c]  i == s.todo[1].item
             new == [op |-> s.op, pc |-> "correct", todo |-> s.todo, before |-> qty[i], sheet |-> s.sheet]
         IN  /\ s.pc = "tally" /\ i \in Items /\ s.sheet.expected \in Int /\ s.sheet.counted \in Int
             /\ s.sheet.at \in Int
             /\ new \in ClerkRows /\ AtWork(new) /\ S!Idle \in ClerkRows /\ AtWork(S!Idle)
             /\ \/ /\ s.sheet.expected = s.sheet.counted /\ torn' = torn
                   /\ counted' = [counted EXCEPT ![i] = [qty |-> s.sheet.counted, at |-> s.sheet.at]]
                   /\ clerk' = [clerk EXCEPT ![c] = S!Idle]
                \/ /\ counted' = counted /\ torn' = IF S!Held(i) THEN torn \cup {i} ELSE torn
                   /\ clerk' = [clerk EXCEPT ![c] = new]
             /\ UNCHANGED <<qty, moved, po, meal, posted, served, parts, mixed, unseen>>
<1> DEFINE s == clerk[c]  i == s.todo[1].item
           new == [op |-> s.op, pc |-> "correct", todo |-> s.todo, before |-> qty[i], sheet |-> s.sheet]
<1>1. s \in ClerkRows /\ AtWork(s) /\ s.pc = "tally"
  BY DEF S!CountRead, StockTyped
<1>2. s.todo \in Seq(StockMovements) /\ s.todo # <<>>
      /\ s.sheet.expected \in Int /\ s.sheet.counted \in Int /\ s.sheet.at \in Int
  BY <1>1 DEF ClerkRows, AtWork
<1>3. i \in Items
  BY <1>2, FirstOf
<1>4. new \in ClerkRows /\ AtWork(new)
  BY <1>1, <1>3 DEF ClerkRows, AtWork, StockTyped
<1>5. CASE s.sheet.expected = s.sheet.counted
  BY <1>1, <1>2, <1>3, <1>4, <1>5, IdleRow DEF S!CountRead
<1>6. CASE s.sheet.expected # s.sheet.counted
  <2>1. qty[i] \in Int
    BY <1>3 DEF StockTyped
  <2>2. clerk' = [clerk EXCEPT ![c].pc = "correct", ![c].before = qty[i]]
    BY <1>6 DEF S!CountRead
  <2>3. /\ clerk' \in [Handlers -> ClerkRows] /\ \A d \in Handlers \ {c} : clerk'[d] = clerk[d]
        /\ clerk'[c].op = s.op /\ clerk'[c].pc = "correct" /\ clerk'[c].todo = s.todo
        /\ clerk'[c].before = qty[i] /\ clerk'[c].sheet = s.sheet
    BY <2>1, <2>2, ZenonT(40) DEF ClerkRows, StockTyped
  <2>4. clerk'[c] = new
    BY <2>3, RowOfFields
  <2>5. clerk' = [clerk EXCEPT ![c] = new]
    <3> HIDE DEF new
    <3> QED
      BY <2>3, <2>4 DEF StockTyped
  <2>6. /\ torn' = IF S!Held(i) THEN torn \cup {i} ELSE torn
        /\ UNCHANGED <<counted, qty, moved, po, meal, posted, served, parts, mixed, unseen>>
    BY <1>6 DEF S!CountRead
  <2> QED
    BY <1>1, <1>2, <1>3, <1>4, <2>5, <2>6, IdleRow
<1> QED
  BY <1>5, <1>6

LEMMA CountCommitDoes ==
  ASSUME StockTyped, NEW c \in Handlers, S!CountCommit(c)
  PROVE  LET s == clerk[c]  m == s.todo[1]  after == s.before + m.delta
         IN  /\ s.pc = "correct" /\ m.item \in Items /\ m.delta \in Int /\ after \in Int
             /\ s.sheet.expected \in Int /\ s.sheet.counted \in Int /\ s.sheet.at \in Int
             /\ clerk' = [clerk EXCEPT ![c] = S!Idle]
             /\ qty' = [qty EXCEPT ![m.item] = after]
             /\ moved' = [moved EXCEPT ![m.item] = @ + m.delta]
             /\ counted' = [counted EXCEPT ![m.item] = [qty |-> s.sheet.counted, at |-> s.sheet.at + m.delta]]
             /\ unseen' = IF after > Reorder THEN unseen \ {m.item} ELSE unseen
             /\ UNCHANGED <<po, meal, posted, served, parts, torn, mixed>>
<1> DEFINE s == clerk[c]  m == s.todo[1]
<1>1. s \in ClerkRows /\ AtWork(s) /\ s.pc = "correct"
  BY DEF S!CountCommit, StockTyped
<1>2. s.todo \in Seq(StockMovements) /\ s.todo # <<>> /\ s.before \in Int
      /\ s.sheet.expected \in Int /\ s.sheet.counted \in Int /\ s.sheet.at \in Int
  BY <1>1 DEF ClerkRows, AtWork
<1>3. m.item \in Items /\ m.delta \in Int
  BY <1>2, FirstOf
<1> QED
  BY <1>1, <1>2, <1>3 DEF S!CountCommit

LEMMA SameCountS == \A s : S!Cardinality(s) = Cardinality(s)
BY Zenon DEF S!Cardinality, Cardinality

\* A movement of each item of a set, in some order.
Listing(moves, T) ==
    /\ moves \in Seq(StockMovements)
    /\ \A j, k \in 1 .. Len(moves) : moves[j].item = moves[k].item => j = k
    /\ {moves[k].item : k \in 1 .. Len(moves)} = T

LEMMA AllAreListed ==
  ASSUME NEW T \in SUBSET Items, NEW order \in S!SetToSeqs(T), NEW type, NEW q \in Int
  PROVE  Listing([k \in DOMAIN order |-> S!Movement(order[k], type, q)], T)
<1> DEFINE n == Cardinality(T)  moves == [k \in DOMAIN order |-> S!Movement(order[k], type, q)]
<1>1. IsFiniteSet(T) /\ n \in Nat
  BY StockAssumption, FS_Subset, FS_CardinalityType
<1> HIDE DEF n
<1>2. order \in [1 .. n -> T] /\ \A j, k \in 1 .. n : j # k => order[j] # order[k]
  BY SameCountS DEF S!SetToSeqs, n
<1>3. order \in Surjection(1 .. n, T)
  <2>1. order \in Injection(1 .. n, T)
    BY <1>2, Zenon DEF Injection, IsInjective
  <2>2. IsFiniteSet(1 .. n) /\ Cardinality(1 .. n) = n
    BY <1>1, FS_Interval
  <2> QED
    BY <1>1, <2>1, <2>2, FS_Injection, Zenon DEF n
<1>4. \A i \in T : \E k \in 1 .. n : order[k] = i
  BY <1>3 DEF Surjection
<1>5. moves \in [1 .. n -> StockMovements] /\ \A k \in 1 .. n : moves[k].item = order[k]
  BY <1>2, AMovement
<1> HIDE DEF moves
<1>6. moves \in Seq(StockMovements) /\ Len(moves) = n
  BY <1>1, <1>5, SeqDef, LenProperties
<1>7. {moves[k].item : k \in 1 .. n} = T
  BY <1>2, <1>4, <1>5
<1>8. Listing(moves, T)
  BY <1>2, <1>5, <1>6, <1>7 DEF Listing
<1> QED
  BY <1>8 DEF moves

\* What a request that begins is about, and what it has to do.
Starts(op, moves) ==
    \/ op = "move" /\ moves # <<>>
    \/ op \in {"submit", "approve", "send"} /\ po.status \in S!From[op] /\ moves = <<>>
    \/ op \in {"receive", "receivePart"} /\ po.status \in S!From[op] /\ Listing(moves, po.items)
    \/ op = "kitchen" /\ meal.status = "OPEN" /\ Listing(moves, meal.lines)

LEMMA StartDoes ==
  ASSUME StockTyped, NEW c \in Handlers,
         S!MoveStart(c) \/ S!KitchenStart(c) \/ \E op \in DOMAIN S!From : S!POStart(c, op)
  PROVE  \E moves \in Seq(StockMovements),
            op \in {"move", "kitchen", "submit", "approve", "send", "receive", "receivePart"} :
           /\ S!Begin(c, op, moves) /\ Starts(op, moves)
           /\ moves = <<>> => S!About(op) # "none"
           /\ moves # <<>> => op \in {"move", "kitchen", "receive", "receivePart"}
           /\ UNCHANGED <<qty, moved, counted, po, meal, posted, served, parts, torn, unseen>>
<1>1. CASE S!MoveStart(c)
  <2>1. PICK i \in Items, type \in S!MovementTypes, q \in Quantities :
          S!Begin(c, "move", <<S!Movement(i, type, q)>>)
    BY <1>1 DEF S!MoveStart
  <2>2. q \in Int
    BY StockAssumption
  <2> DEFINE m == S!Movement(i, type, q)
  <2>3. m \in StockMovements
    BY <2>2, AMovement
  <2> HIDE DEF m
  <2>4. <<m>> \in Seq(StockMovements) /\ <<m>> # <<>> /\ Starts("move", <<m>>)
    BY <2>3 DEF Starts
  <2> QED
    BY <1>1, <2>1, <2>4 DEF S!MoveStart, m
<1>2. CASE S!KitchenStart(c)
  <2>1. PICK lines \in S!SetToSeqs(meal.lines) :
          S!Begin(c, "kitchen", [k \in DOMAIN lines |-> S!Movement(lines[k], "SALE_OUT", 1)])
    BY <1>2 DEF S!KitchenStart
  <2> DEFINE moves == [k \in DOMAIN lines |-> S!Movement(lines[k], "SALE_OUT", 1)]
  <2>2. Listing(moves, meal.lines)
    <3>1. meal.lines \in SUBSET Items /\ 1 \in Int
      BY DEF StockTyped
    <3> QED
      BY <3>1, AllAreListed
  <2> HIDE DEF moves
  <2>3. moves \in Seq(StockMovements) /\ Starts("kitchen", moves) /\ S!About("kitchen") # "none"
    BY <1>2, <2>2 DEF Listing, Starts, S!KitchenStart, S!Sendable, S!About
  <2> QED
    BY <1>2, <2>1, <2>3 DEF S!KitchenStart, moves
<1>3. ASSUME NEW op \in DOMAIN S!From, S!POStart(c, op)
      PROVE  \E moves \in Seq(StockMovements) :
               /\ S!Begin(c, op, moves) /\ Starts(op, moves)
               /\ moves # <<>> => op \in {"receive", "receivePart"}
  <2>1. op \in {"submit", "approve", "send", "receive", "receivePart"} /\ po.status \in S!From[op]
    BY <1>3 DEF S!From, S!POStart
  <2>2. CASE op \in {"receive", "receivePart"}
    <3>1. PICK items \in S!SetToSeqs(po.items) :
            S!Begin(c, op, [k \in DOMAIN items |-> S!Movement(items[k], "PURCHASE_IN", Bought)])
      BY <1>3, <2>2 DEF S!POStart
    <3> DEFINE moves == [k \in DOMAIN items |-> S!Movement(items[k], "PURCHASE_IN", Bought)]
    <3>2. Listing(moves, po.items)
      BY AllAreListed, StockAssumption DEF StockTyped
    <3> HIDE DEF moves
    <3>3. moves \in Seq(StockMovements) /\ Starts(op, moves)
      BY <2>1, <2>2, <3>2 DEF Listing, Starts
    <3> QED
      BY <2>2, <3>1, <3>3 DEF moves
  <2>3. CASE op \notin {"receive", "receivePart"}
    <3>1. S!Begin(c, op, <<>>) /\ Starts(op, <<>>) /\ <<>> \in Seq(StockMovements)
      BY <1>3, <2>1, <2>3 DEF S!POStart, Starts
    <3> QED
      BY <3>1
  <2> QED
    BY <2>2, <2>3
<1>4. ASSUME NEW op \in DOMAIN S!From, S!POStart(c, op)
      PROVE  /\ op \in {"submit", "approve", "send", "receive", "receivePart"} /\ S!About(op) # "none"
             /\ UNCHANGED <<qty, moved, counted, po, meal, posted, served, parts, torn, unseen>>
  BY <1>4 DEF S!From, S!POStart, S!About
<1> QED
  BY <1>1, <1>2, <1>3, <1>4

LEMMA DieDoes ==
  ASSUME StockTyped, NEW c \in Handlers, S!Die(c)
  PROVE  /\ clerk[c] # S!Idle /\ S!Idle \in ClerkRows /\ AtWork(S!Idle)
         /\ clerk' = [clerk EXCEPT ![c] = S!Idle]
         /\ torn' = IF clerk[c].pc \in {"write", "signal"} THEN torn \cup {clerk[c].todo[1].item} ELSE torn
         /\ torn' \subseteq Items
         /\ mixed' = mixed \cup ({S!About(clerk[c].op)} \ {"none"}) /\ mixed' \subseteq {"po", "meal"}
         /\ UNCHANGED <<qty, moved, counted, po, meal, posted, served, parts, unseen>>
<1>1. clerk[c] \in ClerkRows /\ AtWork(clerk[c])
  BY DEF StockTyped
<1>2. clerk[c].pc \in {"write", "signal"} => clerk[c].todo[1].item \in Items
  BY <1>1, FirstOf DEF ClerkRows, AtWork
<1>3. S!About(clerk[c].op) \in {"po", "meal", "none"}
  BY DEF S!About
<1>4. torn' = IF clerk[c].pc \in {"write", "signal"} THEN torn \cup {clerk[c].todo[1].item} ELSE torn
  BY DEF S!Die
<1>5. mixed' = mixed \cup ({S!About(clerk[c].op)} \ {"none"})
  BY DEF S!Die
<1>6. torn' \subseteq Items /\ mixed' \subseteq {"po", "meal"}
  BY <1>2, <1>3, <1>4, <1>5 DEF StockTyped
<1> QED
  BY <1>4, <1>5, <1>6, IdleRow DEF S!Die

LEMMA FinishDoes ==
  ASSUME StockTyped, NEW c \in Handlers, S!POFinish(c) \/ S!KitchenFinish(c)
  PROVE  /\ clerk[c].pc = "finish" /\ S!Idle \in ClerkRows /\ AtWork(S!Idle)
         /\ clerk' = [clerk EXCEPT ![c] = S!Idle]
         /\ po' \in [status : S!POStatuses \cup {"none"}, items : SUBSET Items]
         /\ meal' \in [status : {"OPEN", "SENT_TO_KITCHEN"}, lines : SUBSET Items]
         /\ parts' \in Nat
         /\ UNCHANGED <<qty, moved, counted, posted, served, torn, mixed, unseen>>
<1>1. CASE S!POFinish(c)
  <2>1. clerk[c] \in ClerkRows /\ clerk[c].op \in DOMAIN S!From
    BY <1>1 DEF S!POFinish, StockTyped, ClerkRows, S!About, S!From
  <2>2. S!To[clerk[c].op] \in S!POStatuses
    BY <2>1 DEF S!From, S!To, S!POStatuses
  <2>3. po' = [po EXCEPT !.status = S!To[clerk[c].op]] /\ parts' \in {parts, parts + 1}
    BY <1>1 DEF S!POFinish
  <2>4. po' \in [status : S!POStatuses \cup {"none"}, items : SUBSET Items] /\ parts' \in Nat
    BY <2>2, <2>3 DEF StockTyped
  <2> QED
    BY <1>1, <2>4, IdleRow DEF S!POFinish, StockTyped
<1>2. CASE S!KitchenFinish(c)
  BY <1>2, IdleRow DEF S!KitchenFinish, StockTyped
<1> QED
  BY <1>1, <1>2

LEMMA StockTypedStep ==
  ASSUME StockTyped, [S!Next]_S!vars
  PROVE  StockTyped'
<1>1. ASSUME NEW c \in Handlers, NEW new \in ClerkRows, AtWork(new), clerk' = [clerk EXCEPT ![c] = new],
             qty' \in [Items -> Int], moved' \in [Items -> Int], counted' \in [Items -> [qty : Int, at : Int]],
             UNCHANGED <<po, meal, parts>>, posted' \in [Items -> Nat], served' \in [Items -> Nat],
             torn' \subseteq Items, unseen' \subseteq Items, mixed' \subseteq {"po", "meal"}
      PROVE  StockTyped'
  <2>1. clerk' \in [Handlers -> ClerkRows] /\ \A d \in Handlers : AtWork(clerk'[d])
    BY <1>1, Rewrites
  <2> QED
    BY <1>1, <2>1 DEF StockTyped
<1>2. ASSUME NEW c \in Handlers, S!MoveRecord(c) PROVE StockTyped'
  <2> DEFINE s == clerk[c]  m == s.todo[1]
             new == [op |-> s.op, pc |-> "write", todo |-> s.todo, before |-> qty[m.item], sheet |-> s.sheet]
  <2>1. /\ m.item \in Items /\ m.delta \in Int
        /\ new \in ClerkRows /\ AtWork(new) /\ clerk' = [clerk EXCEPT ![c] = new]
    BY <1>2, MoveRecordDoes
  <2>2. /\ moved' = [moved EXCEPT ![m.item] = @ + m.delta]
        /\ torn' \subseteq torn \cup {m.item}
        /\ posted' \in {posted, [posted EXCEPT ![m.item] = @ + 1]}
        /\ served' \in {served, [served EXCEPT ![m.item] = @ + 1]}
        /\ UNCHANGED <<qty, counted, po, meal, parts, mixed, unseen>>
    <3>1. \A f \in [Items -> Nat] : f = [f EXCEPT ![m.item] = f[m.item]]
      BY <2>1
    <3> QED
      BY <1>2, <3>1, MoveRecordDoes DEF StockTyped
  <2> HIDE DEF new, m
  <2>3. /\ moved' \in [Items -> Int] /\ torn' \subseteq Items
        /\ posted' \in [Items -> Nat] /\ served' \in [Items -> Nat]
    BY <2>1, <2>2 DEF StockTyped
  <2>4. /\ qty' \in [Items -> Int] /\ counted' \in [Items -> [qty : Int, at : Int]]
        /\ unseen' \subseteq Items /\ mixed' \subseteq {"po", "meal"} /\ UNCHANGED <<po, meal, parts>>
    BY <2>2 DEF StockTyped
  <2> QED
    BY <1>1, <2>1, <2>3, <2>4
<1>3. ASSUME NEW c \in Handlers, S!MoveWrite(c) PROVE StockTyped'
  <2> DEFINE s == clerk[c]  m == s.todo[1]  after == s.before + m.delta
             signal == [op |-> s.op, pc |-> "signal", todo |-> s.todo, before |-> s.before, sheet |-> s.sheet]
             new == IF S!Crosses(m, s.before, after) THEN signal ELSE S!Onward(s)
  <2>1. /\ m.item \in Items /\ after \in Int
        /\ new \in ClerkRows /\ AtWork(new) /\ clerk' = [clerk EXCEPT ![c] = new]
        /\ qty' = [qty EXCEPT ![m.item] = after] /\ unseen' \subseteq unseen \cup {m.item}
        /\ UNCHANGED <<moved, counted, po, meal, posted, served, parts, torn, mixed>>
    BY <1>3, MoveWriteDoes
  <2> HIDE DEF new, m, after
  <2>2. qty' \in [Items -> Int] /\ unseen' \subseteq Items
    BY <2>1 DEF StockTyped
  <2>3. /\ moved' \in [Items -> Int] /\ counted' \in [Items -> [qty : Int, at : Int]]
        /\ posted' \in [Items -> Nat] /\ served' \in [Items -> Nat]
        /\ torn' \subseteq Items /\ mixed' \subseteq {"po", "meal"} /\ UNCHANGED <<po, meal, parts>>
    BY <2>1 DEF StockTyped
  <2> QED
    BY <1>1, <2>1, <2>2, <2>3
<1>4. ASSUME NEW c \in Handlers, S!MoveSignal(c) PROVE StockTyped'
  BY <1>1, <1>4, MoveSignalDoes DEF StockTyped
<1>5. ASSUME NEW c \in Handlers, S!CountStart(c) PROVE StockTyped'
  <2>1. PICK i \in Items, new \in ClerkRows :
          /\ AtWork(new) /\ clerk' = [clerk EXCEPT ![c] = new] /\ torn' \subseteq torn \cup {i}
          /\ UNCHANGED <<qty, moved, counted, po, meal, posted, served, parts, mixed, unseen>>
    BY <1>5, CountStartDoes
  <2> QED
    BY <1>1, <2>1 DEF StockTyped
<1>6. ASSUME NEW c \in Handlers, S!CountRead(c) PROVE StockTyped'
  <2> DEFINE s == clerk[c]  i == s.todo[1].item
             new == [op |-> s.op, pc |-> "correct", todo |-> s.todo, before |-> qty[i], sheet |-> s.sheet]
             row == [qty |-> s.sheet.counted, at |-> s.sheet.at]
  <2>1. /\ i \in Items /\ row \in [qty : Int, at : Int] /\ torn' \subseteq torn \cup {i}
        /\ new \in ClerkRows /\ AtWork(new) /\ S!Idle \in ClerkRows /\ AtWork(S!Idle)
        /\ clerk' = [clerk EXCEPT ![c] = S!Idle] \/ clerk' = [clerk EXCEPT ![c] = new]
        /\ counted' = [counted EXCEPT ![i] = row] \/ counted' = counted
        /\ UNCHANGED <<qty, moved, po, meal, posted, served, parts, mixed, unseen>>
    BY <1>6, CountReadDoes
  <2> HIDE DEF new, i, row
  <2>2. counted' \in [Items -> [qty : Int, at : Int]] /\ torn' \subseteq Items
    BY <2>1 DEF StockTyped
  <2>3. /\ qty' \in [Items -> Int] /\ moved' \in [Items -> Int]
        /\ posted' \in [Items -> Nat] /\ served' \in [Items -> Nat]
        /\ unseen' \subseteq Items /\ mixed' \subseteq {"po", "meal"} /\ UNCHANGED <<po, meal, parts>>
    BY <2>1 DEF StockTyped
  <2> QED
    BY <1>1, <2>1, <2>2, <2>3
<1>7. ASSUME NEW c \in Handlers, S!CountCommit(c) PROVE StockTyped'
  <2> DEFINE s == clerk[c]  m == s.todo[1]  after == s.before + m.delta
             row == [qty |-> s.sheet.counted, at |-> s.sheet.at + m.delta]
  <2>1. /\ m.item \in Items /\ m.delta \in Int /\ after \in Int /\ row \in [qty : Int, at : Int]
        /\ clerk' = [clerk EXCEPT ![c] = S!Idle] /\ qty' = [qty EXCEPT ![m.item] = after]
        /\ moved' = [moved EXCEPT ![m.item] = @ + m.delta] /\ counted' = [counted EXCEPT ![m.item] = row]
        /\ unseen' \subseteq unseen /\ UNCHANGED <<po, meal, posted, served, parts, torn, mixed>>
    BY <1>7, CountCommitDoes
  <2> HIDE DEF m, after, row
  <2>2. /\ qty' \in [Items -> Int] /\ moved' \in [Items -> Int]
        /\ counted' \in [Items -> [qty : Int, at : Int]] /\ unseen' \subseteq Items
    BY <2>1 DEF StockTyped
  <2>3. /\ posted' \in [Items -> Nat] /\ served' \in [Items -> Nat]
        /\ torn' \subseteq Items /\ mixed' \subseteq {"po", "meal"} /\ UNCHANGED <<po, meal, parts>>
    BY <2>1 DEF StockTyped
  <2> QED
    BY <1>1, <2>1, <2>2, <2>3, IdleRow
<1>8. ASSUME NEW c \in Handlers,
             S!MoveStart(c) \/ S!KitchenStart(c) \/ \E op \in DOMAIN S!From : S!POStart(c, op)
      PROVE  StockTyped'
  <2>1. PICK moves \in Seq(StockMovements),
             op \in {"move", "kitchen", "submit", "approve", "send", "receive", "receivePart"} :
          /\ S!Begin(c, op, moves) /\ Starts(op, moves)
          /\ moves = <<>> => S!About(op) # "none"
          /\ moves # <<>> => op \in {"move", "kitchen", "receive", "receivePart"}
          /\ UNCHANGED <<qty, moved, counted, po, meal, posted, served, parts, torn, unseen>>
    BY <1>8, StartDoes
  <2>2. clerk' \in [Handlers -> ClerkRows] /\ (\A d \in Handlers : AtWork(clerk'[d]))
        /\ mixed' \subseteq {"po", "meal"}
    BY <2>1, Begins
  <2> QED
    BY <2>1, <2>2 DEF StockTyped
<1>9. ASSUME NEW c \in Handlers, S!POFinish(c) \/ S!KitchenFinish(c) PROVE StockTyped'
  BY <1>9, FinishDoes, Rewrites DEF StockTyped
<1>10. ASSUME NEW c \in Handlers, S!Die(c) PROVE StockTyped'
  BY <1>1, <1>10, DieDoes DEF StockTyped
<1>11. ASSUME NEW items \in Drafts, S!Draft(items) PROVE StockTyped'
  BY <1>11, StockAssumption DEF S!Draft, S!POStatuses, StockTyped
<1>12. ASSUME NEW i \in Items, S!VoidLine(i) PROVE StockTyped'
  BY <1>12 DEF S!VoidLine, StockTyped
<1>13. CASE UNCHANGED S!vars
  BY <1>13 DEF S!vars, StockTyped
<1> QED
  BY <1>2, <1>3, <1>4, <1>5, <1>6, <1>7, <1>8, <1>9, <1>10, <1>11, <1>12, <1>13 DEF S!Next

\* Steps of a request that is at no item before or after.
LEMMA NoItem ==
  ASSUME ItemsAgree, NEW c \in Handlers, torn \subseteq torn',
         \A d \in Handlers \ {c} : clerk'[d] = clerk[d],
         UNCHANGED <<qty, moved, counted, unseen>>,
         clerk[c].pc \notin {"write", "signal", "tally", "correct"},
         clerk'[c].pc \notin {"write", "signal", "tally", "correct"}
  PROVE  ItemsAgree'
<1> SUFFICES ASSUME NEW i \in Items \ torn' PROVE ItemAgrees(i)'
  BY DEF ItemsAgree
<1>1. ItemAgrees(i) /\ i \in Items
  BY DEF ItemsAgree
<1>2. ~ AtItem(c, i) /\ ~ AtItem(c, i)'
  BY DEF AtItem
<1> QED
  BY <1>1, <1>2, OtherItems

LEMMA ItemsAgreeInit == S!Init => StockTyped /\ ItemsAgree
<1> SUFFICES ASSUME S!Init PROVE StockTyped /\ ItemsAgree
  OBVIOUS
<1>1. StockTyped
  BY IdleRow, StockAssumption DEF S!Init, StockTyped
<1>2. \A c \in Handlers : clerk[c].pc = "idle"
  BY IdleRow DEF S!Init
<1>3. \A i \in Items : qty[i] = Opening /\ moved[i] = 0 /\ counted[i].qty = Opening /\ counted[i].at = 0
  BY DEF S!Init
<1>4. unseen = {} /\ Opening \in Int
  BY StockAssumption DEF S!Init
<1>5. ASSUME NEW i \in Items PROVE ItemAgrees(i)
  BY <1>2, <1>3, <1>4 DEF ItemAgrees, Holds, Owes, AtItem
<1> QED
  BY <1>1, <1>5 DEF ItemsAgree

LEMMA ItemsRecord ==
  ASSUME StockTyped, ItemsAgree, NEW c \in Handlers, S!MoveRecord(c)
  PROVE  ItemsAgree'
<1> DEFINE s == clerk[c]  m == s.todo[1]
           new == [op |-> s.op, pc |-> "write", todo |-> s.todo, before |-> qty[m.item], sheet |-> s.sheet]
<1>1. /\ s.pc = "record" /\ m.item \in Items /\ m.delta \in Int
      /\ new \in ClerkRows /\ AtWork(new) /\ clerk' = [clerk EXCEPT ![c] = new]
      /\ moved' = [moved EXCEPT ![m.item] = @ + m.delta]
      /\ torn' = IF S!Held(m.item) THEN torn \cup {m.item} ELSE torn
      /\ UNCHANGED <<qty, counted, unseen>>
  BY MoveRecordDoes
<1>2. clerk'[c] = new /\ \A d \in Handlers \ {c} : clerk'[d] = clerk[d]
  BY <1>1, Rewrites
<1>3. new.pc = "write" /\ new.todo[1] = m /\ new.before = qty[m.item]
  OBVIOUS
<1> HIDE DEF new
<1> SUFFICES ASSUME NEW i \in Items \ torn' PROVE ItemAgrees(i)'
  BY DEF ItemsAgree
<1>4. ItemAgrees(i) /\ i \in Items
  BY <1>1 DEF ItemsAgree
<1>5. CASE i # m.item
  <2>1. ~ AtItem(c, i) /\ ~ AtItem(c, i)'
    BY <1>1, <1>2, <1>3, <1>5 DEF AtItem
  <2> QED
    BY <1>1, <1>2, <1>4, <1>5, <2>1, OtherItems DEF StockTyped
<1>6. CASE i = m.item
  <2>1. \A d \in Handlers : ~ Holds(d, i)
    BY <1>1, <1>6 DEF S!Held, Holds
  <2>2. \A d \in Handlers : /\ Holds(d, i)' <=> d = c
                            /\ Owes(d, i)' <=> d = c
                            /\ d # c => (AtItem(d, i)' <=> AtItem(d, i)) /\ clerk'[d] = clerk[d]
    BY <1>2, <1>3, <1>6, <2>1 DEF Holds, Owes, AtItem
  <2>3. qty[i] = Opening + moved[i] /\ moved'[i] = moved[i] + m.delta /\ qty'[i] = qty[i]
    BY <1>1, <1>4, <1>6, <2>1 DEF ItemAgrees, Owes, Holds, StockTyped
  <2>4. qty'[i] + m.delta = Opening + moved'[i]
    <3>1. qty[i] \in Int /\ moved[i] \in Int /\ Opening \in Int
      BY StockAssumption DEF StockTyped
    <3> HIDE DEF m
    <3> QED
      BY <1>1, <2>3, <3>1
  <2>5. i \in unseen' => \E d \in Handlers : AtItem(d, i)' /\ clerk'[d].pc = "signal"
    BY <1>1, <1>4, <2>2 DEF ItemAgrees
  <2>6. clerk'[c].before = qty'[i] /\ clerk'[c].todo[1].delta = m.delta /\ clerk'[c].pc = "write"
        /\ counted'[i] = counted[i]
    BY <1>1, <1>2, <1>3, <1>6
  <2> HIDE DEF m
  <2> QED
    BY <1>4, <2>2, <2>4, <2>5, <2>6 DEF ItemAgrees
<1> QED
  BY <1>5, <1>6

LEMMA ItemsWrite ==
  ASSUME StockTyped, ItemsAgree, NEW c \in Handlers, S!MoveWrite(c)
  PROVE  ItemsAgree'
<1> DEFINE s == clerk[c]  m == s.todo[1]  after == s.before + m.delta
           signal == [op |-> s.op, pc |-> "signal", todo |-> s.todo, before |-> s.before, sheet |-> s.sheet]
           new == IF S!Crosses(m, s.before, after) THEN signal ELSE S!Onward(s)
<1>1. /\ s.pc = "write" /\ m \in StockMovements /\ m.item \in Items /\ m.delta \in Int /\ after \in Int
      /\ new \in ClerkRows /\ AtWork(new) /\ clerk' = [clerk EXCEPT ![c] = new]
      /\ qty' = [qty EXCEPT ![m.item] = after]
      /\ unseen' = IF after > Reorder THEN unseen \ {m.item}
                   ELSE IF m.depletes /\ qty[m.item] > Reorder THEN unseen \cup {m.item} ELSE unseen
      /\ UNCHANGED <<moved, counted, torn>>
  BY MoveWriteDoes
<1>2. clerk'[c] = new /\ \A d \in Handlers \ {c} : clerk'[d] = clerk[d]
  BY <1>1, Rewrites
<1>3. new.pc \in {"signal", "record", "finish", "idle"} /\ (new.pc = "signal" => new.todo[1] = m)
      /\ (S!Crosses(m, s.before, after) => new.pc = "signal")
  <2>1. s \in ClerkRows /\ AtWork(s)
    BY DEF StockTyped
  <2> QED
    BY <1>1, <2>1, ClerkGoesOn
<1> HIDE DEF new
<1> SUFFICES ASSUME NEW i \in Items \ torn' PROVE ItemAgrees(i)'
  BY DEF ItemsAgree
<1>4. ItemAgrees(i) /\ i \in Items
  BY <1>1 DEF ItemsAgree
<1>5. CASE i # m.item
  <2>1. ~ AtItem(c, i) /\ ~ AtItem(c, i)'
    BY <1>1, <1>2, <1>3, <1>5 DEF AtItem
  <2>2. qty'[i] = qty[i] /\ (i \in unseen' => i \in unseen)
    BY <1>1, <1>5 DEF StockTyped
  <2> QED
    BY <1>1, <1>2, <1>4, <2>1, <2>2, OtherItems
<1>6. CASE i = m.item
  <2>1. Holds(c, i) /\ Owes(c, i) /\ s.before = qty[i]
    BY <1>1, <1>4, <1>6 DEF Holds, Owes, ItemAgrees
  <2>2. \A d \in Handlers : /\ ~ Holds(d, i)' /\ ~ Owes(d, i)'
                            /\ d # c => (AtItem(d, i)' <=> AtItem(d, i)) /\ clerk'[d] = clerk[d]
    <3>1. \A d \in Handlers : Holds(d, i) => d = c
      BY <1>4, <2>1 DEF ItemAgrees
    <3> QED
      BY <1>2, <1>3, <3>1 DEF Holds, Owes, AtItem
  <2>3. qty'[i] = Opening + moved'[i]
    BY <1>1, <1>4, <1>6, <2>1 DEF ItemAgrees, StockTyped
  <2>4. ~ (clerk'[c].pc \in {"tally", "correct"})
    BY <1>2, <1>3
  <2>5. ASSUME i \in unseen' PROVE \E d \in Handlers : AtItem(d, i)' /\ clerk'[d].pc = "signal"
    <3>1. CASE i \in unseen
      BY <1>1, <1>4, <2>2, <3>1 DEF ItemAgrees
    <3>2. CASE i \notin unseen
      <4>1. m.depletes /\ qty[i] > Reorder /\ ~ (after > Reorder)
        BY <1>1, <1>6, <2>5, <3>2
      <4>2. S!Crosses(m, s.before, after)
        <5>1. after \in Int /\ Reorder \in Int
          BY <1>1, StockAssumption
        <5> HIDE DEF after
        <5> QED
          BY <2>1, <4>1, <5>1 DEF S!Crosses
      <4>3. AtItem(c, i)' /\ clerk'[c].pc = "signal"
        BY <1>2, <1>3, <1>6, <4>2 DEF AtItem
      <4> QED
        BY <4>3
    <3> QED
      BY <3>1, <3>2
  <2> QED
    BY <1>1, <1>4, <2>2, <2>3, <2>4, <2>5 DEF ItemAgrees
<1> QED
  BY <1>5, <1>6

LEMMA ItemsSignal ==
  ASSUME StockTyped, ItemsAgree, NEW c \in Handlers, S!MoveSignal(c)
  PROVE  ItemsAgree'
<1> DEFINE m == clerk[c].todo[1]  new == S!Onward(clerk[c])
<1>1. /\ clerk[c].pc = "signal" /\ m.item \in Items
      /\ new \in ClerkRows /\ AtWork(new) /\ clerk' = [clerk EXCEPT ![c] = new]
      /\ unseen' = unseen \ {m.item}
      /\ UNCHANGED <<qty, moved, counted, torn>>
  BY MoveSignalDoes
<1>2. new.pc \in {"record", "finish", "idle"}
  BY <1>1, ClerkGoesOn DEF StockTyped
<1>3. clerk'[c] = new /\ \A d \in Handlers \ {c} : clerk'[d] = clerk[d]
  BY <1>1, Rewrites
<1> HIDE DEF new
<1> SUFFICES ASSUME NEW i \in Items \ torn' PROVE ItemAgrees(i)'
  BY DEF ItemsAgree
<1>4. ItemAgrees(i) /\ i \in Items
  BY <1>1 DEF ItemsAgree
<1>5. CASE i # m.item
  <2>1. ~ AtItem(c, i) /\ ~ AtItem(c, i)'
    BY <1>1, <1>2, <1>3, <1>5 DEF AtItem
  <2> QED
    BY <1>1, <1>3, <1>4, <2>1, OtherItems
<1>6. CASE i = m.item
  <2>1. \A d \in Handlers : /\ (Holds(d, i)' <=> Holds(d, i)) /\ (Owes(d, i)' <=> Owes(d, i))
                            /\ (Holds(d, i) => clerk'[d] = clerk[d])
                            /\ (Owes(d, i) => clerk'[d] = clerk[d])
                            /\ (clerk'[d].pc \in {"tally", "correct"} => clerk'[d] = clerk[d])
    BY <1>1, <1>2, <1>3 DEF Holds, Owes
  <2>2. i \notin unseen'
    BY <1>1, <1>6
  <2> QED
    BY <1>1, <1>4, <2>1, <2>2 DEF ItemAgrees, AtItem
<1> QED
  BY <1>5, <1>6

LEMMA ItemsCountStart ==
  ASSUME StockTyped, ItemsAgree, NEW c \in Handlers, S!CountStart(c)
  PROVE  ItemsAgree'
<1>1. PICK j \in Items, new \in ClerkRows :
        /\ clerk[c] = S!Idle /\ AtWork(new) /\ clerk' = [clerk EXCEPT ![c] = new]
        /\ new.op = "count" /\ new.pc = "tally" /\ new.todo # <<>> /\ new.todo[1].item = j
        /\ new.sheet.expected = qty[j] /\ new.sheet.at = moved[j] /\ new.sheet.counted \in Int
        /\ new.todo[1].delta = new.sheet.counted - qty[j]
        /\ torn' = IF S!Held(j) THEN torn \cup {j} ELSE torn
        /\ UNCHANGED <<qty, moved, counted, po, meal, posted, served, parts, mixed, unseen>>
  BY CountStartDoes
<1>2. clerk'[c] = new /\ (\A d \in Handlers \ {c} : clerk'[d] = clerk[d]) /\ clerk[c].pc = "idle"
  BY <1>1, Rewrites, IdleRow
<1> SUFFICES ASSUME NEW i \in Items \ torn' PROVE ItemAgrees(i)'
  BY DEF ItemsAgree
<1>3. ItemAgrees(i) /\ i \in Items
  BY <1>1 DEF ItemsAgree
<1>4. CASE i # j
  <2>1. ~ AtItem(c, i) /\ ~ AtItem(c, i)'
    BY <1>1, <1>2, <1>4 DEF AtItem
  <2> QED
    BY <1>1, <1>2, <1>3, <2>1, OtherItems
<1>5. CASE i = j
  <2>1. \A d \in Handlers : ~ Holds(d, i)
    BY <1>1, <1>5 DEF S!Held, Holds
  <2>2. \A d \in Handlers : /\ ~ Holds(d, i)' /\ ~ Owes(d, i)' /\ ~ Owes(d, i)
                            /\ d # c => (AtItem(d, i)' <=> AtItem(d, i)) /\ clerk'[d] = clerk[d]
    BY <1>1, <1>2, <2>1 DEF Holds, Owes, AtItem
  <2>3. qty[i] = Opening + moved[i]
    BY <1>3, <2>2 DEF ItemAgrees
  <2>4. clerk'[c].sheet.expected = Opening + clerk'[c].sheet.at
        /\ clerk'[c].todo[1].delta = clerk'[c].sheet.counted - clerk'[c].sheet.expected
    BY <1>1, <1>2, <1>5, <2>3
  <2>5. i \in unseen' => \E d \in Handlers : AtItem(d, i)' /\ clerk'[d].pc = "signal"
    BY <1>1, <1>2, <1>3, <2>2 DEF ItemAgrees
  <2>6. qty'[i] = Opening + moved'[i] /\ counted'[i] = counted[i]
    BY <1>1, <2>3
  <2>7. \A d \in Handlers \ {c} : clerk'[d].pc \in {"tally", "correct"} /\ AtItem(d, i)' =>
          /\ clerk'[d].sheet.expected = Opening + clerk'[d].sheet.at
          /\ clerk'[d].todo[1].delta = clerk'[d].sheet.counted - clerk'[d].sheet.expected
    BY <1>3, <2>2 DEF ItemAgrees
  <2> QED
    BY <1>3, <2>2, <2>4, <2>5, <2>6, <2>7 DEF ItemAgrees
<1> QED
  BY <1>4, <1>5

LEMMA ItemsCountRead ==
  ASSUME StockTyped, ItemsAgree, NEW c \in Handlers, S!CountRead(c)
  PROVE  ItemsAgree'
<1> DEFINE s == clerk[c]  j == s.todo[1].item
           new == [op |-> s.op, pc |-> "correct", todo |-> s.todo, before |-> qty[j], sheet |-> s.sheet]
<1>1. /\ s.pc = "tally" /\ j \in Items /\ s.sheet.expected \in Int /\ s.sheet.counted \in Int /\ s.sheet.at \in Int
      /\ new \in ClerkRows /\ AtWork(new) /\ S!Idle \in ClerkRows /\ AtWork(S!Idle)
      /\ UNCHANGED <<qty, moved, unseen>>
  BY CountReadDoes
<1>2. /\ torn \subseteq torn'
      /\ \/ /\ s.sheet.expected = s.sheet.counted /\ torn' = torn
            /\ counted' = [counted EXCEPT ![j] = [qty |-> s.sheet.counted, at |-> s.sheet.at]]
            /\ clerk' = [clerk EXCEPT ![c] = S!Idle]
         \/ /\ counted' = counted /\ torn' = IF S!Held(j) THEN torn \cup {j} ELSE torn
            /\ clerk' = [clerk EXCEPT ![c] = new]
  BY CountReadDoes
<1>3. new.pc = "correct" /\ new.todo = s.todo /\ new.before = qty[j] /\ new.sheet = s.sheet
  OBVIOUS
<1> HIDE DEF new
<1>4. clerk'[c] \in {S!Idle, new} /\ \A d \in Handlers \ {c} : clerk'[d] = clerk[d]
  BY <1>1, <1>2 DEF StockTyped
<1> SUFFICES ASSUME NEW i \in Items \ torn' PROVE ItemAgrees(i)'
  BY DEF ItemsAgree
<1>5. ItemAgrees(i) /\ i \in Items
  BY <1>2 DEF ItemsAgree
<1>6. CASE i # j
  <2>1. ~ AtItem(c, i) /\ ~ AtItem(c, i)'
    BY <1>1, <1>3, <1>4, <1>6, IdleRow DEF AtItem
  <2>2. counted'[i] = counted[i]
    BY <1>2, <1>6 DEF StockTyped
  <2> QED
    BY <1>1, <1>4, <1>5, <2>1, <2>2, OtherItems
<1>7. CASE i = j
  <2>1. /\ s.sheet.expected = Opening + s.sheet.at
        /\ s.todo[1].delta = s.sheet.counted - s.sheet.expected
    BY <1>1, <1>5, <1>7 DEF ItemAgrees, AtItem
  <2>2. \A d \in Handlers : /\ (Owes(d, i)' <=> Owes(d, i))
                            /\ (d # c => (AtItem(d, i)' <=> AtItem(d, i)) /\ (Holds(d, i)' <=> Holds(d, i))
                                         /\ clerk'[d] = clerk[d])
                            /\ (Owes(d, i) => clerk'[d] = clerk[d])
    BY <1>1, <1>3, <1>4, IdleRow DEF Owes, AtItem, Holds
  <2>3. i \in unseen' => \E d \in Handlers : AtItem(d, i)' /\ clerk'[d].pc = "signal"
    BY <1>1, <1>5, <2>2 DEF ItemAgrees
  <2>4. /\ \A d \in Handlers : Owes(d, i)' => qty'[i] + clerk'[d].todo[1].delta = Opening + moved'[i]
        /\ (\A d \in Handlers : ~ Owes(d, i)') => qty'[i] = Opening + moved'[i]
    BY <1>1, <1>5, <2>2 DEF ItemAgrees
  <2>5. \A d \in Handlers \ {c} : clerk'[d].pc \in {"tally", "correct"} /\ AtItem(d, i)' =>
          /\ clerk'[d].sheet.expected = Opening + clerk'[d].sheet.at
          /\ clerk'[d].todo[1].delta = clerk'[d].sheet.counted - clerk'[d].sheet.expected
    BY <1>5, <2>2 DEF ItemAgrees
  <2>6. CASE /\ s.sheet.expected = s.sheet.counted
             /\ counted' = [counted EXCEPT ![j] = [qty |-> s.sheet.counted, at |-> s.sheet.at]]
             /\ clerk' = [clerk EXCEPT ![c] = S!Idle]
    <3>1. counted'[i].qty = Opening + counted'[i].at
      BY <1>7, <2>1, <2>6 DEF StockTyped
    <3>2. clerk'[c].pc = "idle"
      BY <2>6, IdleRow DEF StockTyped
    <3>3. \A d \in Handlers : Holds(d, i)' => d # c /\ Holds(d, i)
      BY <2>2, <3>2 DEF Holds
    <3> QED
      BY <1>1, <1>5, <2>2, <2>3, <2>4, <2>5, <3>1, <3>2, <3>3 DEF ItemAgrees
  <2>7. CASE /\ counted' = counted /\ torn' = IF S!Held(j) THEN torn \cup {j} ELSE torn
             /\ clerk' = [clerk EXCEPT ![c] = new]
    <3>1. \A d \in Handlers : ~ Holds(d, i)
      BY <1>7, <2>7 DEF S!Held, Holds
    <3>2. clerk'[c] = new
      BY <1>1, <2>7 DEF StockTyped
    <3>3. \A d \in Handlers : Holds(d, i)' => d = c
      BY <2>2, <3>1
    <3>4. clerk'[c].before = qty'[i]
      BY <1>1, <1>3, <1>7, <3>2
    <3>5. /\ clerk'[c].sheet.expected = Opening + clerk'[c].sheet.at
          /\ clerk'[c].todo[1].delta = clerk'[c].sheet.counted - clerk'[c].sheet.expected
      BY <1>3, <2>1, <3>2
    <3> HIDE DEF s, j
    <3> QED
      BY <1>5, <2>3, <2>4, <2>5, <2>7, <3>3, <3>4, <3>5 DEF ItemAgrees
  <2> QED
    BY <1>2, <2>6, <2>7
<1> QED
  BY <1>6, <1>7

LEMMA ItemsCountCommit ==
  ASSUME StockTyped, ItemsAgree, NEW c \in Handlers, S!CountCommit(c)
  PROVE  ItemsAgree'
<1> DEFINE s == clerk[c]  m == s.todo[1]  after == s.before + m.delta
<1>1. /\ s.pc = "correct" /\ m.item \in Items /\ m.delta \in Int /\ after \in Int
      /\ s.sheet.expected \in Int /\ s.sheet.counted \in Int /\ s.sheet.at \in Int
      /\ clerk' = [clerk EXCEPT ![c] = S!Idle]
      /\ qty' = [qty EXCEPT ![m.item] = after]
      /\ moved' = [moved EXCEPT ![m.item] = @ + m.delta]
      /\ counted' = [counted EXCEPT ![m.item] = [qty |-> s.sheet.counted, at |-> s.sheet.at + m.delta]]
      /\ unseen' = IF after > Reorder THEN unseen \ {m.item} ELSE unseen
      /\ UNCHANGED torn
  BY CountCommitDoes
<1>2. clerk'[c].pc = "idle" /\ \A d \in Handlers \ {c} : clerk'[d] = clerk[d]
  BY <1>1, Rewrites, IdleRow
<1> SUFFICES ASSUME NEW i \in Items \ torn' PROVE ItemAgrees(i)'
  BY DEF ItemsAgree
<1>3. ItemAgrees(i) /\ i \in Items
  BY <1>1 DEF ItemsAgree
<1>4. CASE i # m.item
  <2>1. ~ AtItem(c, i) /\ ~ AtItem(c, i)'
    BY <1>1, <1>2, <1>4 DEF AtItem
  <2>2. qty'[i] = qty[i] /\ moved'[i] = moved[i] /\ counted'[i] = counted[i] /\ (i \in unseen' => i \in unseen)
    BY <1>1, <1>4 DEF StockTyped
  <2> QED
    BY <1>2, <1>3, <2>1, <2>2, OtherItems
<1>5. CASE i = m.item
  <2>1. Holds(c, i) /\ s.before = qty[i]
        /\ s.sheet.expected = Opening + s.sheet.at /\ m.delta = s.sheet.counted - s.sheet.expected
    BY <1>1, <1>3, <1>5 DEF Holds, AtItem, ItemAgrees
  <2>2. \A d \in Handlers : /\ ~ Owes(d, i) /\ ~ Holds(d, i)' /\ ~ Owes(d, i)'
                            /\ d # c => (AtItem(d, i)' <=> AtItem(d, i)) /\ clerk'[d] = clerk[d]
    <3>1. \A d \in Handlers : Holds(d, i) => d = c
      BY <1>3, <2>1 DEF ItemAgrees
    <3> QED
      BY <1>1, <1>2, <3>1 DEF Holds, Owes, AtItem
  <2>3. qty[i] = Opening + moved[i]
    BY <1>3, <2>2 DEF ItemAgrees
  <2>4. qty'[i] = qty[i] + m.delta /\ moved'[i] = moved[i] + m.delta
        /\ counted'[i].qty = s.sheet.counted /\ counted'[i].at = s.sheet.at + m.delta
    BY <1>1, <1>5, <2>1 DEF StockTyped
  <2>5. qty'[i] = Opening + moved'[i] /\ counted'[i].qty = Opening + counted'[i].at
    <3>1. qty[i] \in Int /\ moved[i] \in Int /\ Opening \in Int
      BY StockAssumption DEF StockTyped
    <3> HIDE DEF m, s
    <3> QED
      BY <1>1, <2>1, <2>3, <2>4, <3>1
  <2>6. i \in unseen' => \E d \in Handlers : AtItem(d, i)' /\ clerk'[d].pc = "signal"
    BY <1>1, <1>3, <2>2 DEF ItemAgrees
  <2>7. \A d \in Handlers \ {c} : clerk'[d].pc \in {"tally", "correct"} /\ AtItem(d, i)' =>
          /\ clerk'[d].sheet.expected = Opening + clerk'[d].sheet.at
          /\ clerk'[d].todo[1].delta = clerk'[d].sheet.counted - clerk'[d].sheet.expected
    BY <1>3, <2>2 DEF ItemAgrees
  <2> QED
    BY <1>2, <2>2, <2>5, <2>6, <2>7 DEF ItemAgrees
<1> QED
  BY <1>4, <1>5

LEMMA ItemsDie ==
  ASSUME StockTyped, ItemsAgree, NEW c \in Handlers, S!Die(c)
  PROVE  ItemsAgree'
<1>1. /\ clerk' = [clerk EXCEPT ![c] = S!Idle] /\ UNCHANGED <<qty, moved, counted, unseen>>
      /\ torn' = IF clerk[c].pc \in {"write", "signal"} THEN torn \cup {clerk[c].todo[1].item} ELSE torn
  BY DieDoes
<1>2. clerk'[c].pc = "idle" /\ \A d \in Handlers \ {c} : clerk'[d] = clerk[d]
  BY <1>1, Rewrites, IdleRow
<1> SUFFICES ASSUME NEW i \in Items \ torn' PROVE ItemAgrees(i)'
  BY DEF ItemsAgree
<1>3. ItemAgrees(i) /\ i \in Items
  BY <1>1 DEF ItemsAgree
<1>4. CASE ~ AtItem(c, i)
  <2>1. ~ AtItem(c, i)'
    BY <1>2 DEF AtItem
  <2> QED
    BY <1>1, <1>2, <1>3, <1>4, <2>1, OtherItems
<1>5. CASE AtItem(c, i)
  <2>1. clerk[c].pc \in {"tally", "correct"}
    BY <1>1, <1>5 DEF AtItem
  <2>2. \A d \in Handlers : /\ (Owes(d, i)' <=> Owes(d, i)) /\ (Holds(d, i)' => Holds(d, i) /\ d # c)
                            /\ (Owes(d, i) => d # c) /\ (d # c => (AtItem(d, i)' <=> AtItem(d, i)))
    BY <1>2, <2>1 DEF Owes, AtItem, Holds
  <2>3. i \in unseen' => \E d \in Handlers : AtItem(d, i)' /\ clerk'[d].pc = "signal"
    BY <1>1, <1>2, <1>3, <2>1, <2>2 DEF ItemAgrees
  <2>4. /\ \A d \in Handlers : Owes(d, i)' => qty'[i] + clerk'[d].todo[1].delta = Opening + moved'[i]
        /\ (\A d \in Handlers : ~ Owes(d, i)') => qty'[i] = Opening + moved'[i]
    BY <1>1, <1>2, <1>3, <2>2 DEF ItemAgrees
  <2>5. \A d \in Handlers : clerk'[d].pc \in {"tally", "correct"} /\ AtItem(d, i)' =>
          /\ clerk'[d].sheet.expected = Opening + clerk'[d].sheet.at
          /\ clerk'[d].todo[1].delta = clerk'[d].sheet.counted - clerk'[d].sheet.expected
    BY <1>2, <1>3, <2>2 DEF ItemAgrees
  <2> QED
    BY <1>1, <1>2, <1>3, <2>2, <2>3, <2>4, <2>5 DEF ItemAgrees
<1> QED
  BY <1>4, <1>5

LEMMA ItemsStep ==
  ASSUME StockTyped, ItemsAgree, [S!Next]_S!vars
  PROVE  ItemsAgree'
<1>1. ASSUME NEW c \in Handlers,
             S!MoveStart(c) \/ S!KitchenStart(c) \/ \E op \in DOMAIN S!From : S!POStart(c, op)
      PROVE  ItemsAgree'
  <2>1. PICK moves \in Seq(StockMovements),
             op \in {"move", "kitchen", "submit", "approve", "send", "receive", "receivePart"} :
          /\ S!Begin(c, op, moves)
          /\ moves = <<>> => S!About(op) # "none"
          /\ moves # <<>> => op \in {"move", "kitchen", "receive", "receivePart"}
          /\ UNCHANGED <<qty, moved, counted, torn, unseen>>
    BY <1>1, StartDoes
  <2>2. clerk[c] = S!Idle /\ (\A d \in Handlers \ {c} : clerk'[d] = clerk[d])
        /\ clerk'[c].pc \in {"finish", "record"}
    BY <2>1, Begins
  <2> QED
    BY <2>1, <2>2, IdleRow, NoItem
<1>2. ASSUME NEW c \in Handlers, S!POFinish(c) \/ S!KitchenFinish(c) PROVE ItemsAgree'
  <2>1. clerk[c].pc = "finish" /\ clerk' = [clerk EXCEPT ![c] = S!Idle]
        /\ UNCHANGED <<qty, moved, counted, torn, unseen>>
    BY <1>2, FinishDoes
  <2>2. clerk'[c].pc = "idle" /\ \A d \in Handlers \ {c} : clerk'[d] = clerk[d]
    BY <2>1, Rewrites, IdleRow
  <2> QED
    BY <2>1, <2>2, NoItem
<1>3. CASE UNCHANGED <<qty, moved, counted, torn, unseen, clerk>>
  BY <1>3 DEF ItemsAgree, ItemAgrees, Holds, Owes, AtItem
<1>4. ASSUME NEW items \in Drafts, S!Draft(items) PROVE ItemsAgree'
  BY <1>3, <1>4 DEF S!Draft
<1>5. ASSUME NEW i \in Items, S!VoidLine(i) PROVE ItemsAgree'
  BY <1>3, <1>5 DEF S!VoidLine
<1>6. CASE UNCHANGED S!vars
  BY <1>3, <1>6 DEF S!vars
<1> QED
  BY <1>1, <1>2, <1>4, <1>5, <1>6, ItemsRecord, ItemsWrite, ItemsSignal, ItemsCountStart, ItemsCountRead,
     ItemsCountCommit, ItemsDie DEF S!Next

-----------------------------------------------------------------------------

\* The items whose movement a request has still to insert.
Ahead(s) == {s.todo[k].item : k \in (IF s.pc = "record" THEN 1 ELSE 2) .. Len(s.todo)}

\* Each item of a request's list stands on it once.
Distinct(s) == \A j, k \in 1 .. Len(s.todo) : s.todo[j].item = s.todo[k].item => j = k

Deliveries == {"receive", "receivePart"}

Receiving == {c \in Handlers : S!About(clerk[c].op) = "po"}
Cooking   == {c \in Handlers : S!About(clerk[c].op) = "meal"}

\* A purchase order that one request had at a time.
OrderPosted ==
    /\ \A c, d \in Receiving : c = d
    /\ po.status = "none" => parts = 0 /\ po.items = {}
    /\ \A i \in Items \ po.items : posted[i] = 0
    /\ Receiving = {} => \A i \in po.items : posted[i] = parts + (IF po.status = "RECEIVED" THEN 1 ELSE 0)
    /\ \A c \in Receiving :
        /\ po.status \in S!From[clerk[c].op]
        /\ Distinct(clerk[c]) /\ Ahead(clerk[c]) \subseteq po.items
        /\ \A i \in po.items :
             posted[i] = parts + (IF i \in Ahead(clerk[c]) \/ clerk[c].op \notin Deliveries THEN 0 ELSE 1)

\* A restaurant order that one request had at a time.
MealServed ==
    /\ \A c, d \in Cooking : c = d
    /\ \A i \in Items : served[i] <= 1
    /\ Cooking = {} =>
         /\ meal.status = "OPEN" => \A i \in Items : served[i] = 0
         /\ meal.status # "OPEN" => \A i \in meal.lines : served[i] = 1
    /\ \A c \in Cooking :
        /\ meal.status = "OPEN" /\ clerk[c].op = "kitchen"
        /\ Distinct(clerk[c])
        /\ \A i \in Ahead(clerk[c]) : served[i] = 0
        /\ \A i \in meal.lines : i \in Ahead(clerk[c]) \/ served[i] = 1

OrdersPosted == ("po" \notin mixed => OrderPosted) /\ ("meal" \notin mixed => MealServed)

\* Going on leaves what is ahead.
LEMMA AheadStays ==
  ASSUME NEW s \in ClerkRows, AtWork(s), s.pc \in {"write", "signal"}, Distinct(s)
  PROVE  Ahead(S!Onward(s)) = Ahead(s) /\ Distinct(S!Onward(s))
<1>1. s.todo \in Seq(StockMovements) /\ s.todo # <<>>
  BY DEF ClerkRows, AtWork
<1> DEFINE q == s.todo  n == Len(s.todo)  t == Tail(s.todo)
<1>2. n \in Nat /\ n >= 1 /\ Len(t) = n - 1 /\ \A k \in 1 .. n - 1 : t[k] = q[k + 1]
  BY <1>1, FirstOf
<1>3. Ahead(s) = {q[k].item : k \in 2 .. n} /\ \A j, k \in 1 .. n : q[j].item = q[k].item => j = k
  BY DEF Ahead, Distinct
<1>4. CASE S!Onward(s).pc = "record"
  <2>1. S!Onward(s).todo = t
    BY <1>4, ClerkGoesOn
  <2>2. Ahead(S!Onward(s)) = {t[k].item : k \in 1 .. n - 1}
    BY <1>2, <1>4, <2>1 DEF Ahead
  <2> HIDE DEF q, n, t
  <2>3. {t[k].item : k \in 1 .. n - 1} \subseteq {q[k].item : k \in 2 .. n}
    <3> SUFFICES ASSUME NEW k \in 1 .. n - 1 PROVE t[k].item \in {q[j].item : j \in 2 .. n}
      OBVIOUS
    <3>1. t[k] = q[k + 1] /\ k + 1 \in 2 .. n
      BY <1>2
    <3> QED
      BY <3>1
  <2>4. {q[k].item : k \in 2 .. n} \subseteq {t[k].item : k \in 1 .. n - 1}
    <3> SUFFICES ASSUME NEW k \in 2 .. n PROVE q[k].item \in {t[j].item : j \in 1 .. n - 1}
      OBVIOUS
    <3>1. k - 1 \in 1 .. n - 1 /\ (k - 1) + 1 = k
      BY <1>2
    <3>2. t[k - 1] = q[k]
      BY <1>2, <3>1
    <3> QED
      BY <3>1, <3>2
  <2>5. ASSUME NEW j \in 1 .. n - 1, NEW k \in 1 .. n - 1, t[j].item = t[k].item PROVE j = k
    <3>1. t[j] = q[j + 1] /\ t[k] = q[k + 1] /\ j + 1 \in 1 .. n /\ k + 1 \in 1 .. n
      BY <1>2
    <3>2. j + 1 = k + 1
      BY <1>3, <2>5, <3>1
    <3> QED
      BY <3>2
  <2> QED
    BY <1>2, <1>3, <2>1, <2>2, <2>3, <2>4, <2>5 DEF Distinct
<1>5. CASE S!Onward(s).pc # "record"
  <2>1. S!Onward(s).todo = <<>> /\ n = 1
    BY <1>5, ClerkGoesOn
  <2>2. Ahead(S!Onward(s)) = {} /\ Distinct(S!Onward(s))
    BY <1>5, <2>1 DEF Ahead, Distinct
  <2>3. Ahead(s) = {}
    BY <1>3, <2>1
  <2> QED
    BY <2>2, <2>3
<1> QED
  BY <1>4, <1>5

\* Inserting a movement takes its item off what is ahead.
LEMMA AheadShrinks ==
  ASSUME NEW s \in ClerkRows, NEW new \in ClerkRows, AtWork(s), s.pc = "record", new.pc = "write",
         new.todo = s.todo, Distinct(s)
  PROVE  /\ Ahead(new) = Ahead(s) \ {s.todo[1].item} /\ s.todo[1].item \in Ahead(s) /\ Distinct(new)
<1> DEFINE q == s.todo  n == Len(s.todo)
<1>1. n \in Nat /\ n >= 1
  BY FirstOf DEF ClerkRows, AtWork
<1>2. \A j, k \in 1 .. n : q[j].item = q[k].item => j = k
  BY DEF Distinct
<1>3. Ahead(s) = {q[k].item : k \in 1 .. n} /\ Ahead(new) = {q[k].item : k \in 2 .. n}
  BY DEF Ahead
<1>4. Distinct(new)
  BY DEF Distinct
<1> HIDE DEF q, n
<1>5. {q[k].item : k \in 2 .. n} = {q[k].item : k \in 1 .. n} \ {q[1].item}
  <2>1. ASSUME NEW k \in 2 .. n PROVE k \in 1 .. n /\ 1 \in 1 .. n /\ q[k].item # q[1].item
    BY <1>1, <1>2
  <2>2. ASSUME NEW k \in 1 .. n, q[k].item # q[1].item PROVE k \in 2 .. n
    BY <1>1, <2>2
  <2> QED
    BY <2>1, <2>2
<1>6. q[1].item \in {q[k].item : k \in 1 .. n}
  BY <1>1
<1> QED
  BY <1>3, <1>4, <1>5, <1>6 DEF q, n

\* Steps of request c that leave what it is about, and what it has ahead.
LEMMA OrdersQuiet ==
  ASSUME NEW c \in Handlers, OrdersPosted, mixed \subseteq mixed',
         \A d \in Handlers \ {c} : clerk'[d] = clerk[d],
         UNCHANGED <<po, meal, parts, posted, served>>
  PROVE  /\ S!About(clerk[c].op) # "po" /\ S!About(clerk'[c].op) # "po" => ("po" \notin mixed' => OrderPosted')
         /\ S!About(clerk[c].op) # "meal" /\ S!About(clerk'[c].op) # "meal" => ("meal" \notin mixed' => MealServed')
         /\ clerk'[c].op = clerk[c].op /\ Ahead(clerk'[c]) = Ahead(clerk[c])
              /\ (Distinct(clerk[c]) => Distinct(clerk'[c])) => OrdersPosted'
<1>1. ASSUME S!About(clerk[c].op) # "po", S!About(clerk'[c].op) # "po", "po" \notin mixed' PROVE OrderPosted'
  <2>1. Receiving' = Receiving /\ c \notin Receiving
    BY <1>1 DEF Receiving
  <2>2. \A d \in Receiving : clerk'[d] = clerk[d]
    BY <2>1 DEF Receiving
  <2> QED
    BY <1>1, <2>1, <2>2 DEF OrdersPosted, OrderPosted
<1>2. ASSUME S!About(clerk[c].op) # "meal", S!About(clerk'[c].op) # "meal", "meal" \notin mixed' PROVE MealServed'
  <2>1. Cooking' = Cooking /\ c \notin Cooking
    BY <1>2 DEF Cooking
  <2>2. \A d \in Cooking : clerk'[d] = clerk[d]
    BY <2>1 DEF Cooking
  <2> QED
    BY <1>2, <2>1, <2>2 DEF OrdersPosted, MealServed
<1>3. ASSUME clerk'[c].op = clerk[c].op, Ahead(clerk'[c]) = Ahead(clerk[c]),
             Distinct(clerk[c]) => Distinct(clerk'[c])
      PROVE  OrdersPosted'
  <2>1. \A d \in Handlers : /\ clerk'[d].op = clerk[d].op /\ Ahead(clerk'[d]) = Ahead(clerk[d])
                            /\ (Distinct(clerk[d]) => Distinct(clerk'[d]))
    BY <1>3
  <2>2. Receiving' = Receiving /\ Cooking' = Cooking /\ Receiving \subseteq Handlers /\ Cooking \subseteq Handlers
    BY <2>1 DEF Receiving, Cooking
  <2>3. ASSUME "po" \notin mixed' PROVE OrderPosted'
    BY <2>1, <2>2, <2>3 DEF OrdersPosted, OrderPosted
  <2>4. ASSUME "meal" \notin mixed' PROVE MealServed'
    BY <2>1, <2>2, <2>4 DEF OrdersPosted, MealServed
  <2> QED
    BY <2>3, <2>4 DEF OrdersPosted
<1> QED
  BY <1>1, <1>2, <1>3

LEMMA OrdersInit == S!Init => OrdersPosted
<1> SUFFICES ASSUME S!Init PROVE OrdersPosted
  OBVIOUS
<1>1. Receiving = {} /\ Cooking = {}
  BY IdleRow DEF S!Init, Receiving, Cooking, S!About
<1> QED
  BY <1>1 DEF S!Init, OrdersPosted, OrderPosted, MealServed

LEMMA OrdersStart ==
  ASSUME StockTyped, OrdersPosted, NEW c \in Handlers,
         S!MoveStart(c) \/ S!KitchenStart(c) \/ \E op \in DOMAIN S!From : S!POStart(c, op)
  PROVE  OrdersPosted'
<1>1. PICK moves \in Seq(StockMovements),
           op \in {"move", "kitchen", "submit", "approve", "send", "receive", "receivePart"} :
        /\ S!Begin(c, op, moves) /\ Starts(op, moves)
        /\ moves = <<>> => S!About(op) # "none"
        /\ moves # <<>> => op \in {"move", "kitchen", "receive", "receivePart"}
        /\ UNCHANGED <<po, meal, parts, posted, served>>
  BY StartDoes
<1>2. /\ clerk[c] = S!Idle /\ S!About(clerk[c].op) = "none"
      /\ \A d \in Handlers \ {c} : clerk'[d] = clerk[d]
      /\ clerk'[c].op = op /\ clerk'[c].todo = moves
      /\ clerk'[c].pc = IF moves = <<>> THEN "finish" ELSE "record"
      /\ mixed \subseteq mixed'
      /\ \A order \in {"po", "meal"}, d \in Handlers :
           S!About(op) = order /\ S!About(clerk[d].op) = order => order \in mixed'
  BY <1>1, Begins, IdleRow DEF S!About
<1> DEFINE s == clerk'[c]
<1>3. ASSUME NEW T, Listing(moves, T) PROVE Distinct(s) /\ Ahead(s) = T
  <2>1. s.todo = moves /\ (moves # <<>> => s.pc = "record") /\ Len(<<>>) = 0
    BY <1>2
  <2> HIDE DEF s
  <2>2. CASE moves = <<>>
    BY <1>3, <2>1, <2>2 DEF Listing, Distinct, Ahead
  <2>3. CASE moves # <<>>
    BY <1>3, <2>1, <2>3 DEF Listing, Distinct, Ahead
  <2> QED
    BY <2>2, <2>3
<1>4. ASSUME moves = <<>> PROVE Distinct(s) /\ Ahead(s) = {}
  <2>1. s.todo = <<>> /\ Len(<<>>) = 0 /\ s.pc = "finish"
    BY <1>2, <1>4
  <2> HIDE DEF s
  <2> QED
    BY <2>1 DEF Distinct, Ahead
<1>5. ASSUME "po" \notin mixed' PROVE OrderPosted'
  <2>1. CASE S!About(op) # "po"
    BY <1>1, <1>2, <1>5, <2>1, OrdersQuiet
  <2>2. CASE S!About(op) = "po"
    <3>1. Receiving = {} /\ Receiving' = {c}
      BY <1>2, <1>5, <2>2 DEF Receiving
    <3>2. OrderPosted
      BY <1>2, <1>5 DEF OrdersPosted
    <3>3. op \in {"submit", "approve", "send", "receive", "receivePart"} /\ po.status \in S!From[op]
      BY <1>1, <2>2 DEF Starts, S!About
    <3>4. po.status # "RECEIVED" /\ po.status # "none"
      BY <3>3 DEF S!From, S!Receivable
    <3>5. \A i \in po.items : posted[i] = parts + 0
      BY <3>1, <3>2, <3>4 DEF OrderPosted
    <3>6. /\ Distinct(s) /\ Ahead(s) \subseteq po.items
          /\ op \in Deliveries => Ahead(s) = po.items
      BY <1>1, <1>3, <1>4, <3>3 DEF Starts, Deliveries
    <3> HIDE DEF s
    <3>7. \A i \in po.items :
             posted[i] = parts + (IF i \in Ahead(s) \/ op \notin Deliveries THEN 0 ELSE 1)
      BY <3>5, <3>6
    <3> QED
      BY <1>1, <1>2, <3>1, <3>2, <3>3, <3>4, <3>6, <3>7 DEF OrderPosted, s
  <2> QED
    BY <2>1, <2>2
<1>6. ASSUME "meal" \notin mixed' PROVE MealServed'
  <2>1. CASE S!About(op) # "meal"
    BY <1>1, <1>2, <1>6, <2>1, OrdersQuiet
  <2>2. CASE S!About(op) = "meal"
    <3>1. Cooking = {} /\ Cooking' = {c}
      BY <1>2, <1>6, <2>2 DEF Cooking
    <3>2. MealServed
      BY <1>2, <1>6 DEF OrdersPosted
    <3>3. op = "kitchen" /\ meal.status = "OPEN" /\ Listing(moves, meal.lines)
      BY <1>1, <2>2 DEF Starts, S!About
    <3>4. \A i \in Items : served[i] = 0
      BY <3>1, <3>2, <3>3 DEF MealServed
    <3>5. Distinct(s) /\ Ahead(s) = meal.lines /\ meal.lines \subseteq Items
      BY <1>3, <3>3 DEF StockTyped
    <3> HIDE DEF s
    <3> QED
      BY <1>1, <1>2, <3>1, <3>2, <3>3, <3>4, <3>5 DEF MealServed, s
  <2> QED
    BY <2>1, <2>2
<1> QED
  BY <1>5, <1>6 DEF OrdersPosted

LEMMA OrdersRecord ==
  ASSUME StockTyped, OrdersPosted, NEW c \in Handlers, S!MoveRecord(c)
  PROVE  OrdersPosted'
<1> DEFINE s == clerk[c]  m == s.todo[1]
           new == [op |-> s.op, pc |-> "write", todo |-> s.todo, before |-> qty[m.item], sheet |-> s.sheet]
<1>1. /\ s.pc = "record" /\ m.item \in Items
      /\ new \in ClerkRows /\ AtWork(new) /\ clerk' = [clerk EXCEPT ![c] = new]
      /\ posted' = [posted EXCEPT ![m.item] = IF S!About(s.op) = "po" THEN @ + 1 ELSE @]
      /\ served' = [served EXCEPT ![m.item] = IF S!About(s.op) = "meal" THEN @ + 1 ELSE @]
      /\ UNCHANGED <<po, meal, parts, mixed>>
  BY MoveRecordDoes
<1>2. clerk'[c] = new /\ \A d \in Handlers \ {c} : clerk'[d] = clerk[d]
  BY <1>1, Rewrites
<1>3. new.pc = "write" /\ new.todo = s.todo /\ new.op = s.op
  OBVIOUS
<1> HIDE DEF new
<1>4. s \in ClerkRows /\ AtWork(s) /\ s.op \in {"move", "kitchen", "receive", "receivePart"}
  BY <1>1 DEF StockTyped, AtWork
<1>5. Distinct(s) => /\ Ahead(new) = Ahead(s) \ {m.item} /\ m.item \in Ahead(s) /\ Distinct(new)
  BY <1>1, <1>3, <1>4, AheadShrinks
<1>6. Receiving' = Receiving /\ Cooking' = Cooking
  BY <1>2, <1>3 DEF Receiving, Cooking
<1>7. /\ S!About(s.op) # "po" => posted' = posted
      /\ S!About(s.op) # "meal" => served' = served
  BY <1>1 DEF StockTyped
<1>8. ASSUME "po" \notin mixed' PROVE OrderPosted'
  <2>1. OrderPosted
    BY <1>1, <1>8 DEF OrdersPosted
  <2>2. CASE c \notin Receiving
    <3>1. \A d \in Receiving : clerk'[d] = clerk[d]
      BY <1>2, <2>2 DEF Receiving
    <3>2. posted' = posted
      BY <1>7, <2>2 DEF Receiving
    <3> QED
      BY <1>1, <1>6, <2>1, <3>1, <3>2 DEF OrderPosted
  <2>3. CASE c \in Receiving
    <3>1. Receiving = {c} /\ s.op \in Deliveries /\ S!About(s.op) = "po"
      BY <1>4, <2>1, <2>3 DEF OrderPosted, Receiving, Deliveries, S!About
    <3>2. /\ po.status \in S!From[s.op] /\ Distinct(s) /\ Ahead(s) \subseteq po.items
          /\ \A i \in po.items : posted[i] = parts + (IF i \in Ahead(s) THEN 0 ELSE 1)
      BY <2>1, <2>3, <3>1 DEF OrderPosted
    <3>3. m.item \in po.items /\ Ahead(new) \subseteq po.items /\ Distinct(new)
      BY <1>5, <3>2
    <3>4. posted' = [posted EXCEPT ![m.item] = @ + 1]
      BY <1>1, <3>1
    <3> HIDE DEF m
    <3>5. \A i \in po.items : posted'[i] = parts + (IF i \in Ahead(new) THEN 0 ELSE 1)
      <4> SUFFICES ASSUME NEW i \in po.items PROVE posted'[i] = parts + (IF i \in Ahead(new) THEN 0 ELSE 1)
        OBVIOUS
      <4>1. i \in Items /\ parts \in Nat
        BY DEF StockTyped
      <4>2. CASE i = m.item
        BY <1>5, <3>2, <3>4, <4>1, <4>2 DEF StockTyped
      <4>3. CASE i # m.item
        BY <1>5, <3>2, <3>4, <4>1, <4>3 DEF StockTyped
      <4> QED
        BY <4>2, <4>3
    <3>6. \A i \in Items \ po.items : posted'[i] = 0
      BY <2>1, <3>3, <3>4 DEF OrderPosted, StockTyped
    <3> HIDE DEF s
    <3> QED
      BY <1>1, <1>2, <1>3, <1>6, <2>1, <3>1, <3>2, <3>3, <3>5, <3>6 DEF OrderPosted
  <2> QED
    BY <2>2, <2>3
<1>9. ASSUME "meal" \notin mixed' PROVE MealServed'
  <2>1. MealServed
    BY <1>1, <1>9 DEF OrdersPosted
  <2>2. CASE c \notin Cooking
    <3>1. \A d \in Cooking : clerk'[d] = clerk[d]
      BY <1>2, <2>2 DEF Cooking
    <3>2. served' = served
      BY <1>7, <2>2 DEF Cooking
    <3> QED
      BY <1>1, <1>6, <2>1, <3>1, <3>2 DEF MealServed
  <2>3. CASE c \in Cooking
    <3>1. Cooking = {c} /\ s.op = "kitchen" /\ S!About(s.op) = "meal"
      BY <2>1, <2>3 DEF MealServed, Cooking
    <3>2. /\ meal.status = "OPEN" /\ Distinct(s)
          /\ \A i \in Ahead(s) : served[i] = 0
          /\ \A i \in meal.lines : i \in Ahead(s) \/ served[i] = 1
      BY <2>1, <2>3 DEF MealServed
    <3>3. served' = [served EXCEPT ![m.item] = @ + 1] /\ served[m.item] = 0
      BY <1>1, <1>5, <3>1, <3>2
    <3> HIDE DEF m
    <3>4. served'[m.item] = 1 /\ \A i \in Items : i # m.item => served'[i] = served[i]
      BY <1>1, <3>3 DEF StockTyped
    <3>5. \A i \in Items : served'[i] <= 1
      BY <2>1, <3>4 DEF MealServed
    <3>6. \A i \in Ahead(new) : served'[i] = 0
      <4>1. Ahead(new) \subseteq Items
        <5>1. \A k \in 1 .. Len(new.todo) : new.todo[k].item \in Items
          <6>1. new.todo \in Seq(StockMovements)
            BY <1>1 DEF ClerkRows
          <6>2. \A k \in 1 .. Len(new.todo) : new.todo[k] \in StockMovements
            BY <6>1, ElementOfSeq
          <6> QED
            BY <6>2 DEF StockMovements
        <5>2. Len(new.todo) \in Nat
          BY <1>1, LenProperties DEF ClerkRows
        <5> QED
          BY <1>3, <5>1, <5>2 DEF Ahead
      <4> QED
        BY <1>5, <3>2, <3>4, <4>1
    <3>7. \A i \in meal.lines : i \in Ahead(new) \/ served'[i] = 1
      BY <1>5, <3>2, <3>4 DEF StockTyped
    <3> HIDE DEF s
    <3> QED
      BY <1>1, <1>2, <1>3, <1>5, <1>6, <3>1, <3>2, <3>5, <3>6, <3>7 DEF MealServed
  <2> QED
    BY <2>2, <2>3
<1> QED
  BY <1>8, <1>9 DEF OrdersPosted

LEMMA OrdersGoOn ==
  ASSUME StockTyped, OrdersPosted, NEW c \in Handlers, S!MoveWrite(c) \/ S!MoveSignal(c)
  PROVE  OrdersPosted'
<1> DEFINE s == clerk[c]  new == clerk'[c]
<1>1. s \in ClerkRows /\ AtWork(s) /\ s.pc \in {"write", "signal"}
  BY DEF StockTyped, S!MoveWrite, S!MoveSignal
<1>2. /\ (new = S!Onward(s) \/ (new.op = s.op /\ new.todo = s.todo /\ new.pc = "signal" /\ s.pc = "write"))
      /\ (\A d \in Handlers \ {c} : clerk'[d] = clerk[d])
      /\ UNCHANGED <<po, meal, parts, posted, served, mixed>>
  <2>1. CASE S!MoveWrite(c)
    <3> DEFINE m == s.todo[1]  after == s.before + m.delta
               signal == [op |-> s.op, pc |-> "signal", todo |-> s.todo, before |-> s.before, sheet |-> s.sheet]
               next == IF S!Crosses(m, s.before, after) THEN signal ELSE S!Onward(s)
    <3>1. /\ s.pc = "write" /\ next \in ClerkRows /\ AtWork(next) /\ clerk' = [clerk EXCEPT ![c] = next]
          /\ UNCHANGED <<po, meal, parts, posted, served, mixed>>
      BY <2>1, MoveWriteDoes
    <3>2. next = S!Onward(s) \/ (next.op = s.op /\ next.todo = s.todo /\ next.pc = "signal")
      OBVIOUS
    <3> HIDE DEF next
    <3> QED
      BY <3>1, <3>2, Rewrites
  <2>2. CASE S!MoveSignal(c)
    BY <2>2, MoveSignalDoes, Rewrites
  <2> QED
    BY <2>1, <2>2
<1>3. CASE new.op = s.op /\ new.todo = s.todo /\ new.pc = "signal" /\ s.pc = "write"
  <2>1. Ahead(new) = Ahead(s) /\ (Distinct(s) => Distinct(new))
    BY <1>3 DEF Ahead, Distinct
  <2> QED
    BY <1>2, <1>3, <2>1, OrdersQuiet
<1>4. CASE new = S!Onward(s)
  <2>1. /\ S!About(new.op) = S!About(s.op) /\ (S!About(s.op) # "none" => new.op = s.op)
        /\ (Distinct(s) => Ahead(new) = Ahead(s) /\ Distinct(new))
    BY <1>1, <1>4, ClerkGoesOn, AheadStays
  <2>2. CASE S!About(s.op) = "none"
    BY <1>2, <2>1, <2>2, OrdersQuiet DEF OrdersPosted
  <2>3. CASE S!About(s.op) # "none" /\ Distinct(s)
    BY <1>2, <2>1, <2>3, OrdersQuiet
  <2>4. CASE S!About(s.op) # "none" /\ ~ Distinct(s)
    <3>1. S!About(s.op) = "po" => "po" \in mixed
      BY <2>4 DEF OrdersPosted, OrderPosted, Receiving
    <3>2. S!About(s.op) = "meal" => "meal" \in mixed
      BY <2>4 DEF OrdersPosted, MealServed, Cooking
    <3>3. S!About(s.op) \in {"po", "meal"}
      BY <2>4 DEF S!About
    <3> QED
      BY <1>2, <2>1, <3>1, <3>2, <3>3, OrdersQuiet DEF OrdersPosted
  <2> QED
    BY <2>2, <2>3, <2>4
<1> QED
  BY <1>2, <1>3, <1>4

LEMMA OrdersCount ==
  ASSUME StockTyped, OrdersPosted, NEW c \in Handlers, S!CountStart(c) \/ S!CountRead(c) \/ S!CountCommit(c)
  PROVE  OrdersPosted'
<1>1. clerk[c].op \in {"idle", "count"}
  BY IdleRow DEF StockTyped, AtWork, S!CountStart, S!CountRead, S!CountCommit
<1>2. /\ clerk'[c].op \in {"idle", "count"} /\ (\A d \in Handlers \ {c} : clerk'[d] = clerk[d])
      /\ UNCHANGED <<po, meal, parts, posted, served, mixed>>
  <2>1. CASE S!CountStart(c)
    BY <2>1, CountStartDoes, Rewrites
  <2>2. CASE S!CountRead(c)
    <3>1. clerk[c].op = "count"
      BY <2>2 DEF StockTyped, AtWork, S!CountRead
    <3> DEFINE new == [op |-> clerk[c].op, pc |-> "correct", todo |-> clerk[c].todo,
                       before |-> qty[clerk[c].todo[1].item], sheet |-> clerk[c].sheet]
    <3>2. /\ new \in ClerkRows /\ AtWork(new) /\ S!Idle \in ClerkRows /\ AtWork(S!Idle)
          /\ clerk' = [clerk EXCEPT ![c] = S!Idle] \/ clerk' = [clerk EXCEPT ![c] = new]
          /\ UNCHANGED <<po, meal, parts, posted, served, mixed>>
      BY <2>2, CountReadDoes
    <3>3. new.op = "count"
      BY <3>1
    <3> HIDE DEF new
    <3> QED
      BY <3>2, <3>3, IdleRow, Rewrites
  <2>3. CASE S!CountCommit(c)
    BY <2>3, CountCommitDoes, IdleRow, Rewrites
  <2> QED
    BY <2>1, <2>2, <2>3
<1>3. S!About(clerk[c].op) = "none" /\ S!About(clerk'[c].op) = "none"
  BY <1>1, <1>2 DEF S!About
<1> QED
  BY <1>2, <1>3, OrdersQuiet DEF OrdersPosted

LEMMA OrdersDie ==
  ASSUME StockTyped, OrdersPosted, NEW c \in Handlers, S!Die(c)
  PROVE  OrdersPosted'
<1>1. /\ clerk' = [clerk EXCEPT ![c] = S!Idle]
      /\ mixed' = mixed \cup ({S!About(clerk[c].op)} \ {"none"})
      /\ UNCHANGED <<po, meal, parts, posted, served>>
  BY DieDoes
<1>2. S!About(clerk'[c].op) = "none" /\ \A d \in Handlers \ {c} : clerk'[d] = clerk[d]
  BY <1>1, IdleRow, Rewrites DEF S!About
<1>3. \A order \in {"po", "meal"} : order \notin mixed' => S!About(clerk[c].op) # order
  BY <1>1
<1> QED
  BY <1>1, <1>2, <1>3, OrdersQuiet DEF OrdersPosted

LEMMA OrdersFinish ==
  ASSUME StockTyped, OrdersPosted, NEW c \in Handlers, S!POFinish(c) \/ S!KitchenFinish(c)
  PROVE  OrdersPosted'
<1>1. /\ clerk[c].pc = "finish" /\ clerk' = [clerk EXCEPT ![c] = S!Idle] /\ UNCHANGED <<posted, served, mixed>>
  BY FinishDoes
<1>2. clerk'[c].op = "idle" /\ S!About(clerk'[c].op) = "none" /\ \A d \in Handlers \ {c} : clerk'[d] = clerk[d]
  BY <1>1, IdleRow, Rewrites DEF S!About
<1>3. clerk[c] \in ClerkRows /\ clerk[c].todo = <<>> /\ Ahead(clerk[c]) = {}
  <2>1. clerk[c] \in ClerkRows /\ clerk[c].todo = <<>> /\ Len(<<>>) = 0
    BY <1>1 DEF StockTyped, AtWork
  <2> QED
    BY <1>1, <2>1 DEF Ahead
<1>4. CASE S!POFinish(c)
  <2>1. /\ S!About(clerk[c].op) = "po" /\ UNCHANGED meal
        /\ po' = [po EXCEPT !.status = S!To[clerk[c].op]]
        /\ parts' = IF clerk[c].op = "receivePart" THEN parts + 1 ELSE parts
    BY <1>4 DEF S!POFinish
  <2>2. ASSUME "meal" \notin mixed' PROVE MealServed'
    <3>1. Cooking' = Cooking /\ \A d \in Cooking : clerk'[d] = clerk[d]
      BY <1>2, <2>1 DEF Cooking
    <3> QED
      BY <1>1, <2>1, <2>2, <3>1 DEF OrdersPosted, MealServed
  <2>3. ASSUME "po" \notin mixed' PROVE OrderPosted'
    <3>1. OrderPosted /\ c \in Receiving
      BY <1>1, <2>1, <2>3 DEF OrdersPosted, Receiving
    <3>2. Receiving' = {}
      <4>1. Receiving = {c}
        BY <3>1 DEF OrderPosted
      <4> QED
        BY <1>2, <4>1 DEF Receiving
    <3>3. clerk[c].op \in {"submit", "approve", "send", "receive", "receivePart"}
      BY <1>3, <2>1 DEF ClerkRows, S!About
    <3>4. /\ po'.items = po.items /\ po'.status = S!To[clerk[c].op]
          /\ po'.status # "none" /\ (po'.status = "RECEIVED" <=> clerk[c].op = "receive")
      BY <2>1, <3>3 DEF StockTyped, S!To
    <3>5. \A i \in po.items : posted[i] = parts + (IF clerk[c].op \notin Deliveries THEN 0 ELSE 1)
      BY <1>3, <3>1 DEF OrderPosted
    <3>6. \A i \in po.items : posted'[i] = parts' + (IF po'.status = "RECEIVED" THEN 1 ELSE 0)
      <4>1. parts \in Nat
        BY DEF StockTyped
      <4> QED
        BY <1>1, <2>1, <3>3, <3>4, <3>5, <4>1 DEF Deliveries
    <3> QED
      BY <1>1, <3>1, <3>2, <3>4, <3>6 DEF OrderPosted
  <2> QED
    BY <2>2, <2>3 DEF OrdersPosted
<1>5. CASE S!KitchenFinish(c)
  <2>1. /\ clerk[c].op = "kitchen" /\ UNCHANGED <<po, parts>>
        /\ meal' = [meal EXCEPT !.status = "SENT_TO_KITCHEN"]
    BY <1>5 DEF S!KitchenFinish
  <2>2. ASSUME "po" \notin mixed' PROVE OrderPosted'
    <3>1. Receiving' = Receiving /\ \A d \in Receiving : clerk'[d] = clerk[d]
      BY <1>2, <2>1 DEF Receiving, S!About
    <3> QED
      BY <1>1, <2>1, <2>2, <3>1 DEF OrdersPosted, OrderPosted
  <2>3. ASSUME "meal" \notin mixed' PROVE MealServed'
    <3>1. MealServed /\ c \in Cooking
      BY <1>1, <2>1, <2>3 DEF OrdersPosted, Cooking, S!About
    <3>2. Cooking' = {}
      <4>1. Cooking = {c}
        BY <3>1 DEF MealServed
      <4> QED
        BY <1>2, <4>1 DEF Cooking
    <3>3. meal'.status = "SENT_TO_KITCHEN" /\ meal'.lines = meal.lines
      BY <2>1 DEF StockTyped
    <3>4. \A i \in meal.lines : served[i] = 1
      BY <1>3, <3>1 DEF MealServed
    <3> QED
      BY <1>1, <3>1, <3>2, <3>3, <3>4 DEF MealServed
  <2> QED
    BY <2>2, <2>3 DEF OrdersPosted
<1> QED
  BY <1>4, <1>5

LEMMA OrdersStep ==
  ASSUME StockTyped, OrdersPosted, [S!Next]_S!vars
  PROVE  OrdersPosted'
<1>1. ASSUME NEW items \in Drafts, S!Draft(items) PROVE OrdersPosted'
  <2>1. po.status = "none" /\ po' = [status |-> "DRAFT", items |-> items]
        /\ UNCHANGED <<clerk, meal, parts, posted, served, mixed>>
    BY <1>1 DEF S!Draft
  <2>2. Receiving' = Receiving /\ Cooking' = Cooking
    BY <2>1 DEF Receiving, Cooking
  <2>3. ASSUME "po" \notin mixed' PROVE OrderPosted'
    <3>1. OrderPosted
      BY <2>1, <2>3 DEF OrdersPosted
    <3>2. Receiving = {}
      <4>1. \A c \in Receiving : clerk[c].op \in {"submit", "approve", "send", "receive", "receivePart"}
        BY DEF Receiving, S!About, StockTyped, ClerkRows
      <4>2. \A op \in {"submit", "approve", "send", "receive", "receivePart"} : "none" \notin S!From[op]
        BY DEF S!From, S!Receivable
      <4> QED
        BY <2>1, <3>1, <4>1, <4>2 DEF OrderPosted
    <3>3. parts = 0 /\ \A i \in Items : posted[i] = 0
      BY <2>1, <3>1 DEF OrderPosted
    <3>4. items \subseteq Items
      BY StockAssumption
    <3> QED
      BY <2>1, <2>2, <3>2, <3>3, <3>4 DEF OrderPosted
  <2>4. ASSUME "meal" \notin mixed' PROVE MealServed'
    BY <2>1, <2>2, <2>4 DEF OrdersPosted, MealServed
  <2> QED
    BY <2>3, <2>4 DEF OrdersPosted
<1>2. ASSUME NEW i \in Items, S!VoidLine(i) PROVE OrdersPosted'
  <2>1. meal'.status = meal.status /\ meal'.lines \subseteq meal.lines
        /\ UNCHANGED <<clerk, po, parts, posted, served, mixed>>
    BY <1>2 DEF S!VoidLine, StockTyped
  <2>2. Receiving' = Receiving /\ Cooking' = Cooking
    BY <2>1 DEF Receiving, Cooking
  <2>3. ASSUME "po" \notin mixed' PROVE OrderPosted'
    BY <2>1, <2>2, <2>3 DEF OrdersPosted, OrderPosted
  <2>4. ASSUME "meal" \notin mixed' PROVE MealServed'
    BY <2>1, <2>2, <2>4 DEF OrdersPosted, MealServed
  <2> QED
    BY <2>3, <2>4 DEF OrdersPosted
<1>3. CASE UNCHANGED S!vars
  <2>1. Receiving' = Receiving /\ Cooking' = Cooking
    BY <1>3 DEF Receiving, Cooking, S!vars
  <2> QED
    BY <1>3, <2>1 DEF S!vars, OrdersPosted, OrderPosted, MealServed
<1> QED
  BY <1>1, <1>2, <1>3, OrdersStart, OrdersRecord, OrdersGoOn, OrdersCount, OrdersDie, OrdersFinish DEF S!Next

-----------------------------------------------------------------------------

StockInv == StockTyped /\ ItemsAgree /\ OrdersPosted

LEMMA StockInvHolds == BackOfficeSpec => []StockInv
<1>1. BackOfficeInit => StockInv
  BY ItemsAgreeInit, OrdersInit DEF BackOfficeInit, StockInv
<1>2. StockInv /\ [BackOfficeNext]_officeVars => StockInv'
  BY StockTypedStep, ItemsStep, OrdersStep, StockMoves DEF StockInv
<1> QED
  BY <1>1, <1>2, PTL DEF BackOfficeSpec

\* The quantity of an item is its opening and its movements, and its last count and
\* those since, unless two requests held it at once or one died on it:
\* inventory.service, for any items, requests, orders and quantities.
THEOREM BooksAlwaysAgree == BackOfficeSpec => []BooksAgree
<1>1. StockInv => BooksAgree
  <2> SUFFICES ASSUME StockInv, NEW i \in Items \ torn, S!AtRest(i)
               PROVE  qty[i] = Opening + moved[i] /\ qty[i] = counted[i].qty + moved[i] - counted[i].at
    BY DEF BooksAgree, S!BooksAgree
  <2>1. ItemAgrees(i)
    BY DEF StockInv, ItemsAgree
  <2>2. \A c \in Handlers : ~ Owes(c, i)
    BY DEF S!AtRest, Owes
  <2>3. qty[i] = Opening + moved[i] /\ counted[i].qty = Opening + counted[i].at
    BY <2>1, <2>2 DEF ItemAgrees
  <2>4. moved[i] \in Int /\ counted[i].at \in Int /\ Opening \in Int
    BY StockAssumption DEF StockInv, StockTyped
  <2> QED
    BY <2>3, <2>4
<1> QED
  BY <1>1, StockInvHolds, PTL

\* An item that a sale, a pour or a wastage took to its reorder point is signalled,
\* under the same conditions: inventory.service's move.
THEOREM LowStockIsSignalled == BackOfficeSpec => []LowStockSignalled
<1>1. StockInv => LowStockSignalled
  BY DEF StockInv, ItemsAgree, ItemAgrees, AtItem, LowStockSignalled, S!LowStockSignalled, S!AtRest
<1> QED
  BY <1>1, StockInvHolds, PTL

\* A purchase order is received, and a restaurant order used up, once, unless two
\* requests had it at once or one died with it: procurement.service and
\* orders.service, whatever the order of the items.
THEOREM OrdersPostOnce == BackOfficeSpec => []PostedOnce
<1>1. StockInv => PostedOnce
  <2> SUFFICES ASSUME StockInv PROVE S!PostedOnce
    BY DEF PostedOnce
  <2>1. ~ S!Handling("po") => Receiving = {}
    BY DEF S!Handling, Receiving
  <2>2. ~ S!Handling("meal") => Cooking = {}
    BY DEF S!Handling, Cooking
  <2>3. ASSUME "po" \notin mixed, ~ S!Handling("po"), NEW i \in Items
        PROVE  posted[i] = IF i \in po.items THEN parts + (IF po.status = "RECEIVED" THEN 1 ELSE 0) ELSE 0
    BY <2>1, <2>3 DEF StockInv, OrdersPosted, OrderPosted
  <2>4. ASSUME "meal" \notin mixed, ~ S!Handling("meal"), NEW i \in Items
        PROVE  /\ served[i] <= 1
               /\ meal.status = "OPEN" => served[i] = 0
               /\ meal.status # "OPEN" /\ i \in meal.lines => served[i] = 1
    BY <2>2, <2>4 DEF StockInv, OrdersPosted, MealServed
  <2> QED
    BY <2>3, <2>4 DEF S!PostedOnce
<1> QED
  BY <1>1, StockInvHolds, PTL

=============================================================================
