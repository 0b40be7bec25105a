---------------------------- MODULE LedgerProofs ----------------------------
(***************************************************************************)
(* Ledger, for every set of folios, handlers, shifts, prices and amounts.  *)
(*                                                                         *)
(* A posting writes totals from a snapshot.  Payments write totalPaid and  *)
(* the balance, charges write totalCharges and the balance: the balance    *)
(* survives any race of postings of one side, because neither moves what   *)
(* the other's snapshot is used for.  It is lost when the two sides race.  *)
(***************************************************************************)
EXTENDS Postings, FiniteSetTheorems, TLAPS

PayPCs    == {"payTx", "payCommit", "redeem"}
ChargePCs == {"promo", "orderPost", "portal", "modifyTx", "modifyCommit"}

PayOps    == {"pay", "redeem"}
ChargeOps == {"promo", "order", "portal", "modify"}

OneAtATime == MaxBusy = 1 /\ IsFiniteSet(Handlers)

\* Only payments are posted, only charges, or one request is served at a time.
OneSided == PayOps \cap Ops = {} \/ ChargeOps \cap Ops = {} \/ OneAtATime

\* What survives of a date change's validation: the new price is a price.
PricesOK == \A s \in Handlers : sess[s].pc \in {"modifyTx", "modifyCommit"} => sess[s].amount \in Prices

TypeInv == TypeOK /\ PricesOK

\* No payment is in flight beside a charge.
SidesApart ==
    /\ PayOps \cap Ops = {} => \A s \in Handlers : sess[s].pc \notin PayPCs
    /\ ChargeOps \cap Ops = {} => \A s \in Handlers : sess[s].pc \notin ChargePCs
    /\ OneAtATime => \A s, t \in Handlers : sess[s].pc # "idle" /\ sess[t].pc # "idle" => s = t

Due(totals) == totals.balance = totals.charges - totals.paid

\* The part of a snapshot that the other side owns is still true at the write.
SnapshotsHold ==
    \A s \in Handlers :
        /\ sess[s].pc \in PayPCs =>
             Due(sess[s].read) /\ sess[s].read.charges = folio[sess[s].f].charges
        /\ sess[s].pc \in {"promo", "orderPost", "modifyCommit"} =>
             Due(sess[s].read) /\ sess[s].read.paid = folio[sess[s].f].paid

BalanceInv == TypeInv /\ SidesApart /\ BalanceIsDue /\ SnapshotsHold

-----------------------------------------------------------------------------
(* Types                                                                   *)

\* The locals a handler begins with.
LEMMA IdleType == Idle \in Session /\ Idle.pc = "idle" /\ Zero \in Totals /\ NoShift \in Shift
BY FolioAssumption DEF Idle, Session, Zero, Totals, PCs, NoShift, Shift

\* The initial rows have their types.
LEMMA TypeInit == Init => TypeInv
<1> SUFFICES ASSUME Init PROVE TypeInv
  OBVIOUS
<1>1. quoted \in [Folios -> Prices] /\ Prices \subseteq Int
  BY PriceAssumption DEF Init
<1>2. folio \in [Folios -> Totals] /\ lines \in [Folios -> [room : Int, other : Int]]
  <2>1. \A f \in Folios : quoted[f] \in Int
    BY <1>1
  <2>2. \A q \in Int : [charges |-> q, paid |-> 0, balance |-> q] \in Totals
    BY DEF Totals
  <2> QED
    BY <2>1, <2>2 DEF Init
<1>3. shift \in [Shifts -> Shift] /\ sess \in [Handlers -> Session] /\ PricesOK
  BY IdleType DEF Init, PricesOK
<1> QED
  BY <1>1, <1>2, <1>3, CardAssumption DEF Init, TypeInv, TypeOK

\* Whatever a handler puts into its locals, they keep their type.
LEMMA GotoTypes ==
    ASSUME TypeInv, NEW s \in Handlers, NEW l \in Session, Goto(s, l),
           l.pc \in {"modifyTx", "modifyCommit"} => l.amount \in Prices
    PROVE  sess' \in [Handlers -> Session] /\ PricesOK'
BY DEF Goto, TypeInv, TypeOK, PricesOK

\* A handler that ends, or dies, leaves locals of the type.
LEMMA FinishGoes ==
    ASSUME TypeInv, NEW s \in Handlers, Finish(s)
    PROVE  sess' \in [Handlers -> Session] /\ PricesOK'
BY IdleType, GotoTypes DEF Finish

\* What a handler that begins reads has the type of its locals.
LEMMA SnapshotType ==
    ASSUME NEW pc \in PCs, NEW f \in Folios, NEW amount \in Int, NEW cash \in BOOLEAN,
           NEW read \in Totals, NEW price \in Int
    PROVE  /\ [Idle EXCEPT !.pc = pc, !.f = f, !.amount = amount, !.cash = cash, !.read = read] \in Session
           /\ [Idle EXCEPT !.pc = pc, !.f = f, !.amount = amount, !.read = read] \in Session
           /\ [Idle EXCEPT !.pc = pc, !.f = f, !.read = read, !.amount = amount] \in Session
           /\ [Idle EXCEPT !.pc = pc, !.amount = amount, !.read = read] \in Session
           /\ [Idle EXCEPT !.pc = pc, !.f = f, !.amount = amount] \in Session
           /\ [Idle EXCEPT !.pc = pc, !.f = f, !.amount = amount, !.quoted = price] \in Session
           /\ [Idle EXCEPT !.pc = pc] \in Session
<1>1. Idle \in Session
  BY IdleType
<1>2. \A l \in Session :
        /\ [l EXCEPT !.pc = pc] \in Session
        /\ [l EXCEPT !.f = f] \in Session
        /\ [l EXCEPT !.amount = amount] \in Session
        /\ [l EXCEPT !.cash = cash] \in Session
        /\ [l EXCEPT !.read = read] \in Session
        /\ [l EXCEPT !.quoted = price] \in Session
  BY DEF Session
<1> QED
  BY <1>1, <1>2

\* What a step leaves of the locals.
LEMMA FieldsLeft ==
    ASSUME NEW l \in Session, NEW x, NEW y, NEW z
    PROVE  /\ LET k == [l EXCEPT !.pc = x] IN k.pc = x /\ k.f = l.f /\ k.read = l.read
           /\ LET k == [l EXCEPT !.pc = x, !.read = y] IN k.pc = x /\ k.f = l.f /\ k.read = y
           /\ LET k == [l EXCEPT !.pc = x, !.shift = y, !.expected = z] IN
                k.pc = x /\ k.f = l.f /\ k.read = l.read
BY DEF Session

\* A handler that begins with what it reads of a folio has locals of the type.
LEMMA BeginTypes ==
    ASSUME TypeInv, NEW s \in Handlers, NEW pc \in PCs \ {"modifyTx", "modifyCommit"},
           NEW f \in Folios, NEW amount \in Int, NEW read \in Totals,
           \/ Goto(s, [Idle EXCEPT !.pc = pc, !.f = f, !.amount = amount, !.read = read])
           \/ Goto(s, [Idle EXCEPT !.pc = pc, !.f = f, !.read = read, !.amount = amount])
           \/ Goto(s, [Idle EXCEPT !.pc = pc, !.amount = amount, !.read = read])
           \/ Goto(s, [Idle EXCEPT !.pc = pc, !.f = f, !.amount = amount])
    PROVE  sess' \in [Handlers -> Session] /\ PricesOK'
<1>1. PICK l \in {[Idle EXCEPT !.pc = pc, !.f = f, !.amount = amount, !.read = read],
                 [Idle EXCEPT !.pc = pc, !.f = f, !.read = read, !.amount = amount],
                 [Idle EXCEPT !.pc = pc, !.amount = amount, !.read = read],
                 [Idle EXCEPT !.pc = pc, !.f = f, !.amount = amount]} : Goto(s, l)
  OBVIOUS
<1>2. l \in Session
  <2>1. TRUE \in BOOLEAN /\ 0 \in Int
    OBVIOUS
  <2>2. /\ [Idle EXCEPT !.pc = pc, !.f = f, !.amount = amount, !.read = read] \in Session
        /\ [Idle EXCEPT !.pc = pc, !.f = f, !.read = read, !.amount = amount] \in Session
        /\ [Idle EXCEPT !.pc = pc, !.amount = amount, !.read = read] \in Session
        /\ [Idle EXCEPT !.pc = pc, !.f = f, !.amount = amount] \in Session
    BY <2>1, SnapshotType, Zenon
  <2> QED
    BY <2>2
<1>3. l.pc = pc
  BY DEF Idle
<1> QED
  BY <1>1, <1>2, <1>3, GotoTypes

\* The first step of every handler keeps the types.
LEMMA StartTypes ==
    ASSUME TypeInv, NEW s \in Handlers,
           \/ PayRead(s) \/ RedeemRead(s) \/ PromoRead(s) \/ PayOrderRead(s) \/ KitchenStatus(s)
           \/ PortalLine(s) \/ ModifyRead(s) \/ OpenRead(s) \/ CloseRead(s) \/ Reconcile(s)
    PROVE  TypeInv'
<1>0. /\ \A f \in Folios : folio[f] \in Totals /\ folio[f].charges \in Int
      /\ 1 \in Int /\ \A f \in Folios : quoted[f] \in Int
  <2>1. \A f \in Folios : folio[f] \in Totals /\ quoted[f] \in Prices
    BY DEF TypeInv, TypeOK
  <2>2. \A row \in Totals : row.charges \in Int
    BY DEF Totals
  <2>3. \A q \in Prices : q \in Int
    BY PriceAssumption
  <2> QED
    BY <2>1, <2>2, <2>3
<1>1. CASE PayRead(s)
  <2>1. PICK f \in Folios, amount \in Amounts, cash \in BOOLEAN :
          Goto(s, [Idle EXCEPT !.pc = "payTx", !.f = f, !.amount = amount, !.cash = cash,
                               !.read = folio[f]])
    BY <1>1 DEF PayRead
  <2> DEFINE l == [Idle EXCEPT !.pc = "payTx", !.f = f, !.amount = amount, !.cash = cash,
                               !.read = folio[f]]
  <2>2. amount \in Int /\ folio[f] \in Totals /\ "payTx" \in PCs
    BY <1>0, AmountAssumption DEF PCs
  <2>3. l \in Session
    BY <2>2, <1>0, SnapshotType
  <2>4. l.pc = "payTx"
    BY DEF Idle
  <2>5. sess' \in [Handlers -> Session] /\ PricesOK'
    BY <2>1, <2>3, <2>4, GotoTypes
  <2> QED
    BY <1>1, <2>5 DEF PayRead, TypeInv, TypeOK
<1>2. CASE RedeemRead(s)
  <2>1. PICK f \in Folios, amount \in Amounts :
          Goto(s, [Idle EXCEPT !.pc = "redeem", !.f = f, !.amount = amount, !.read = folio[f]])
    BY <1>2 DEF RedeemRead
  <2>2. sess' \in [Handlers -> Session] /\ PricesOK'
    BY <1>0, <2>1, BeginTypes, AmountAssumption DEF PCs
  <2> QED
    BY <1>2, <2>2 DEF RedeemRead, TypeInv, TypeOK
<1>3. CASE PromoRead(s)
  <2>1. PICK f \in Folios :
          Goto(s, [Idle EXCEPT !.pc = "promo", !.f = f, !.read = folio[f],
                               !.amount = Discount(folio[f].charges)])
    BY <1>3 DEF PromoRead
  <2>2. Discount(folio[f].charges) \in Int
    BY <1>0, PromoAssumption DEF Discount
  <2>3. sess' \in [Handlers -> Session] /\ PricesOK'
    BY <1>0, <2>1, <2>2, BeginTypes DEF PCs
  <2> QED
    BY <1>3, <2>3 DEF PromoRead, TypeInv, TypeOK
<1>4. CASE PayOrderRead(s)
  <2>1. Goto(s, [Idle EXCEPT !.pc = "orderPost", !.amount = 1, !.read = folio[OrderFolio]])
    BY <1>4 DEF PayOrderRead
  <2>2. sess' \in [Handlers -> Session] /\ PricesOK'
    BY <1>0, <2>1, BeginTypes, FolioAssumption DEF PCs
  <2> QED
    BY <1>4, <2>2 DEF PayOrderRead, TypeInv, TypeOK
<1>5. CASE KitchenStatus(s)
  BY <1>5 DEF KitchenStatus, TypeInv, TypeOK, PricesOK
<1>6. CASE PortalLine(s)
  <2>1. PICK f \in Folios :
          /\ lines' = [lines EXCEPT ![f].other = @ + 1]
          /\ Goto(s, [Idle EXCEPT !.pc = "portal", !.f = f, !.amount = 1])
    BY <1>6 DEF PortalLine
  <2>2. sess' \in [Handlers -> Session] /\ PricesOK'
    BY <1>0, <2>1, BeginTypes DEF PCs
  <2>3. lines' \in [Folios -> [room : Int, other : Int]]
    BY <2>1 DEF TypeInv, TypeOK
  <2> QED
    BY <1>6, <2>2, <2>3 DEF PortalLine, TypeInv, TypeOK
<1>7. CASE ModifyRead(s)
  <2>1. PICK f \in Folios, price \in Prices :
          Goto(s, [Idle EXCEPT !.pc = "modifyTx", !.f = f, !.amount = price, !.quoted = quoted[f]])
    BY <1>7 DEF ModifyRead
  <2>2. price \in Int /\ [Idle EXCEPT !.pc = "modifyTx", !.f = f, !.amount = price,
                                      !.quoted = quoted[f]].amount = price
    BY PriceAssumption DEF Idle
  <2>3. sess' \in [Handlers -> Session] /\ PricesOK'
    BY <1>0, <2>1, <2>2, GotoTypes, SnapshotType, IdleType DEF PCs
  <2> QED
    BY <1>7, <2>3 DEF ModifyRead, TypeInv, TypeOK
<1>8. CASE OpenRead(s)
  <2>1. sess' \in [Handlers -> Session] /\ PricesOK'
    BY <1>0, <1>8, GotoTypes, SnapshotType, IdleType, FolioAssumption DEF OpenRead, PCs, Idle
  <2> QED
    BY <1>8, <2>1 DEF OpenRead, TypeInv, TypeOK
<1>9. CASE CloseRead(s)
  <2>1. PICK n \in Shifts :
          Goto(s, [Idle EXCEPT !.pc = "close", !.shift = n, !.expected = shift[n].expected])
    BY <1>9 DEF CloseRead, OpenShifts
  <2>2. n \in Nat /\ shift[n].expected \in Int
    BY ShiftAssumption DEF TypeInv, TypeOK, Shift
  <2>3. \A l \in Session : [l EXCEPT !.pc = "close", !.shift = n, !.expected = shift[n].expected] \in Session
    BY <2>2 DEF Session, PCs
  <2>4. [Idle EXCEPT !.pc = "close", !.shift = n, !.expected = shift[n].expected].pc = "close"
    BY DEF Idle
  <2>5. sess' \in [Handlers -> Session] /\ PricesOK'
    BY <2>1, <2>3, <2>4, GotoTypes, IdleType
  <2> QED
    BY <1>9, <2>5 DEF CloseRead, TypeInv, TypeOK
<1>10. CASE Reconcile(s)
  BY <1>10 DEF Reconcile, TypeInv, TypeOK, PricesOK, Shift
<1> QED
  BY <1>1, <1>2, <1>3, <1>4, <1>5, <1>6, <1>7, <1>8, <1>9, <1>10

\* The totals that a posting writes are totals.
LEMMA PostedTypes ==
    ASSUME NEW row \in Totals, NEW read \in Totals, NEW amount \in Int
    PROVE  Paid(row, read, amount) \in Totals /\ Charged(row, read, amount) \in Totals
<1>1. read.charges \in Int /\ read.paid \in Int /\ read.balance \in Int
  BY DEF Totals
<1>2. \A x, y \in Int : /\ [row EXCEPT !.paid = x, !.balance = y] \in Totals
                        /\ [row EXCEPT !.charges = x, !.balance = y] \in Totals
  BY DEF Totals
<1>3. /\ read.paid + amount \in Int /\ read.charges - (read.paid + amount) \in Int
      /\ read.charges + amount \in Int /\ read.balance + amount \in Int
  BY <1>1
<1> QED
  BY <1>2, <1>3 DEF Paid, Charged

\* So is the drawer shift that a cash payment accrues to.
LEMMA AccruedType ==
    ASSUME NEW row \in Shift, NEW expected \in Int, NEW amount \in Int
    PROVE  Accrued(row, expected, amount) \in Shift
<1>1. row.cash + amount \in Int /\ expected + amount \in Int
  BY DEF Shift
<1>2. \A x, y \in Int : [row EXCEPT !.expected = x, !.cash = y] \in Shift
  BY DEF Shift
<1>3. Accrued(row, expected, amount) = [row EXCEPT !.expected = expected + amount, !.cash = row.cash + amount]
  BY DEF Accrued, Shift
<1> QED
  BY <1>1, <1>2, <1>3

\* The later steps of every handler keep the types.
LEMMA FinishTypes ==
    ASSUME TypeInv, NEW s \in Handlers,
           \/ PayLock(s) \/ PayCommit(s) \/ RedeemCommit(s) \/ PromoCommit(s)
           \/ PayOrderPost(s) \/ PayOrderPaid(s) \/ PortalTotals(s)
           \/ ModifyLock(s) \/ ModifyCommit(s) \/ OpenCommit(s) \/ CloseCommit(s) \/ Crash(s)
    PROVE  TypeInv'
<1> DEFINE me == sess[s]
<1>0. /\ me \in Session /\ me.f \in Folios /\ me.amount \in Int /\ me.read \in Totals
      /\ me.quoted \in Int /\ me.expected \in Int /\ folio[me.f] \in Totals
  BY DEF TypeInv, TypeOK, Session
<1>1. CASE PayLock(s)
  <2>1. [me EXCEPT !.pc = "payCommit"] \in Session
    BY <1>0 DEF Session, PCs
  <2>2. \A n \in Shifts :
          [me EXCEPT !.pc = "payCommit", !.shift = n, !.expected = shift[n].expected] \in Session
    BY <1>0, ShiftAssumption DEF TypeInv, TypeOK, Shift, Session, PCs
  <2>3. PICK l \in Session : Goto(s, l) /\ l.pc = "payCommit"
    BY <1>0, <1>1, <2>1, <2>2 DEF PayLock, OpenShifts, Session
  <2>4. sess' \in [Handlers -> Session] /\ PricesOK'
    BY <2>3, GotoTypes
  <2> QED
    BY <1>1, <2>4 DEF PayLock, TypeInv, TypeOK
<1>2. CASE PayCommit(s)
  <2>1. folio' \in [Folios -> Totals]
    BY <1>0, <1>2, PostedTypes DEF PayCommit, TypeInv, TypeOK
  <2>2. payments' \in [Folios -> Int]
    BY <1>0, <1>2 DEF PayCommit, TypeInv, TypeOK
  <2>3. \A n \in Shifts : Accrued(shift[n], me.expected, me.amount) \in Shift
    BY <1>0, AccruedType DEF TypeInv, TypeOK
  <2>4. shift' \in [Shifts -> Shift]
    BY <1>2, <2>3 DEF PayCommit, TypeInv, TypeOK
  <2> QED
    BY <1>2, <2>1, <2>2, <2>4, FinishGoes DEF PayCommit, TypeInv, TypeOK
<1>3. CASE RedeemCommit(s)
  <2>1. folio' \in [Folios -> Totals]
    BY <1>0, <1>3 DEF RedeemCommit, TypeInv, TypeOK, Totals
  <2>2. payments' \in [Folios -> Int] /\ card' \in Int
    BY <1>0, <1>3 DEF RedeemCommit, TypeInv, TypeOK
  <2> QED
    BY <1>3, <2>1, <2>2, FinishGoes DEF RedeemCommit, TypeInv, TypeOK
<1>4. CASE PromoCommit(s)
  <2>1. -me.amount \in Int
    BY <1>0
  <2>2. folio' \in [Folios -> Totals]
    BY <1>0, <1>4, <2>1, PostedTypes DEF PromoCommit, TypeInv, TypeOK
  <2>3. lines' \in [Folios -> [room : Int, other : Int]] /\ used' \in Nat
    BY <1>0, <1>4 DEF PromoCommit, TypeInv, TypeOK
  <2> QED
    BY <1>4, <2>2, <2>3, FinishGoes DEF PromoCommit, TypeInv, TypeOK
<1>5. CASE PayOrderPost(s)
  <2>1. folio' \in [Folios -> Totals]
    BY <1>0, <1>5, PostedTypes DEF PayOrderPost, TypeInv, TypeOK
  <2>2. /\ lines' \in [Folios -> [room : Int, other : Int]]
        /\ order' \in [status : {"OPEN", "SERVED", "PAID"}, posted : Nat]
    BY <1>0, <1>5 DEF PayOrderPost, TypeInv, TypeOK
  <2>3. sess' \in [Handlers -> Session] /\ PricesOK'
    BY <1>0, <1>5, GotoTypes, SnapshotType, IdleType, FolioAssumption DEF PayOrderPost, PCs, Idle
  <2> QED
    BY <1>5, <2>1, <2>2, <2>3 DEF PayOrderPost, TypeInv, TypeOK
<1>6. CASE PayOrderPaid(s)
  <2>1. order' \in [status : {"OPEN", "SERVED", "PAID"}, posted : Nat]
    BY <1>6 DEF PayOrderPaid, Settled, TypeInv, TypeOK
  <2> QED
    BY <1>6, <2>1, FinishGoes DEF PayOrderPaid, TypeInv, TypeOK
<1>7. CASE PortalTotals(s)
  <2>1. folio' \in [Folios -> Totals]
    BY <1>0, <1>7, PostedTypes DEF PortalTotals, TypeInv, TypeOK
  <2> QED
    BY <1>7, <2>1, FinishGoes DEF PortalTotals, TypeInv, TypeOK
<1>8. CASE ModifyLock(s)
  <2>1. /\ [me EXCEPT !.pc = "modifyCommit", !.read = folio[me.f]] \in Session
        /\ [me EXCEPT !.pc = "modifyCommit", !.read = folio[me.f]].amount \in Prices
    BY <1>0, <1>8 DEF ModifyLock, TypeInv, PricesOK, Session, PCs
  <2>2. sess' \in [Handlers -> Session] /\ PricesOK'
    BY <1>8, <2>1, GotoTypes DEF ModifyLock
  <2> QED
    BY <1>8, <2>2 DEF ModifyLock, TypeInv, TypeOK
<1>9. CASE ModifyCommit(s)
  <2>1. me.amount \in Prices
    BY <1>9 DEF ModifyCommit, TypeInv, PricesOK
  <2>2. Adjustment(me.amount, me.quoted) \in Int
    BY <1>0 DEF Adjustment
  <2>3. folio' \in [Folios -> Totals]
    <3>1. Charged(folio[me.f], me.read, Adjustment(me.amount, me.quoted)) \in Totals
      BY <1>0, <2>2, PostedTypes
    <3> QED
      BY <1>9, <3>1 DEF ModifyCommit, TypeInv, TypeOK
  <2>4. lines' \in [Folios -> [room : Int, other : Int]]
    BY <1>0, <1>9, <2>2 DEF ModifyCommit, TypeInv, TypeOK
  <2>5. quoted' \in [Folios -> Prices]
    BY <1>9, <2>1 DEF ModifyCommit, TypeInv, TypeOK
  <2> QED
    BY <1>9, <2>3, <2>4, <2>5, FinishGoes DEF ModifyCommit, TypeInv, TypeOK
<1>10. CASE OpenCommit(s)
  <2>1. [NoShift EXCEPT !.status = "OPEN"] \in Shift
    BY DEF NoShift, Shift
  <2>2. shift' \in [Shifts -> Shift]
    BY <1>10, <2>1 DEF OpenCommit, TypeInv, TypeOK
  <2> QED
    BY <1>10, <2>2, FinishGoes DEF OpenCommit, TypeInv, TypeOK
<1>11. CASE CloseCommit(s)
  <2>1. PICK counted \in {0, 1} :
          shift' = [shift EXCEPT ![me.shift].status = "CLOSED", ![me.shift].counted = counted,
                                 ![me.shift].variance = counted - me.expected]
    BY <1>11 DEF CloseCommit
  <2>2. \A row \in Shift : \A x, y \in Int :
          [row EXCEPT !.status = "CLOSED", !.counted = x, !.variance = y] \in Shift
    BY DEF Shift
  <2>3. counted - me.expected \in Int /\ counted \in Int
    BY <1>0
  <2>4. shift' = [shift EXCEPT ![me.shift] =
                    [shift[me.shift] EXCEPT !.status = "CLOSED", !.counted = counted,
                                            !.variance = counted - me.expected]]
    BY <2>1 DEF TypeInv, TypeOK
  <2>5. shift' \in [Shifts -> Shift]
    BY <2>2, <2>3, <2>4 DEF TypeInv, TypeOK
  <2> QED
    BY <1>11, <2>5, FinishGoes DEF CloseCommit, TypeInv, TypeOK
<1>12. CASE Crash(s)
  BY <1>12, FinishGoes DEF Crash, TypeInv, TypeOK
<1> QED
  BY <1>1, <1>2, <1>3, <1>4, <1>5, <1>6, <1>7, <1>8, <1>9, <1>10, <1>11, <1>12

\* Every step keeps the types.
LEMMA TypeStep == TypeInv /\ [Next]_vars => TypeInv'
<1> SUFFICES ASSUME TypeInv, [Next]_vars PROVE TypeInv'
  OBVIOUS
<1>1. CASE UNCHANGED vars
  BY <1>1 DEF vars, TypeInv, TypeOK, PricesOK
<1>2. CASE Next
  BY <1>2, StartTypes, FinishTypes DEF Next
<1> QED
  BY <1>1, <1>2

\* Rows and locals keep their types, in every race and crash.
THEOREM TypeCorrect == Spec => []TypeOK
<1>1. TypeInv => TypeOK
  BY DEF TypeInv
<1> QED
  BY <1>1, TypeInit, TypeStep, PTL DEF Spec

-----------------------------------------------------------------------------
(* Which handlers are in flight together                                   *)

Busy == {t \in Handlers : sess[t].pc # "idle"}

\* One request at a time: a handler that begins finds no other in flight.
LEMMA FreeAlone ==
    ASSUME OneAtATime, NEW s \in Handlers, NEW op, Free(s, op)
    PROVE  \A t \in Handlers : sess[t].pc = "idle"
<1>1. Busy \subseteq Handlers /\ IsFiniteSet(Busy)
  BY FS_Subset DEF Busy, OneAtATime
<1>2. Cardinality(Busy) \in Nat /\ (Cardinality(Busy) = 0 <=> Busy = {})
  BY <1>1, FS_CardinalityType, FS_EmptySet
<1>3. Cardinality(Busy) < 1
  BY DEF Free, Busy, OneAtATime
<1> QED
  BY <1>2, <1>3 DEF Busy

\* What a handler is doing after a step: what it did before, or what its
\* operation begins with.
Moved(s) ==
    /\ sess' = [sess EXCEPT ![s] = sess'[s]]
    /\ sess'[s].pc \in PayPCs => sess[s].pc \in PayPCs \/ PayOps \cap Ops # {}
    /\ sess'[s].pc \in ChargePCs => sess[s].pc \in ChargePCs \/ ChargeOps \cap Ops # {}
    /\ sess'[s].pc # "idle" => sess[s].pc # "idle" \/ \E op \in Ops : Free(s, op)

\* Every step moves at most one handler, within its operation.
LEMMA StepMoves ==
    ASSUME TypeInv, Next
    PROVE  sess' = sess \/ \E s \in Handlers : Moved(s)
<1>1. PICK s \in Handlers :
        \/ PayRead(s) \/ PayLock(s) \/ PayCommit(s)
        \/ RedeemRead(s) \/ RedeemCommit(s)
        \/ PromoRead(s) \/ PromoCommit(s)
        \/ PayOrderRead(s) \/ PayOrderPost(s) \/ PayOrderPaid(s) \/ KitchenStatus(s)
        \/ PortalLine(s) \/ PortalTotals(s)
        \/ ModifyRead(s) \/ ModifyLock(s) \/ ModifyCommit(s)
        \/ OpenRead(s) \/ OpenCommit(s) \/ CloseRead(s) \/ CloseCommit(s) \/ Reconcile(s)
        \/ Crash(s)
  BY DEF Next
<1>2. sess[s] \in Session /\ sess \in [Handlers -> Session] /\ Idle.pc = "idle"
  BY IdleType DEF TypeInv, TypeOK
<1>3. ASSUME NEW l, Goto(s, l)
      PROVE  sess' = [sess EXCEPT ![s] = sess'[s]] /\ sess'[s] = l
  BY <1>2, <1>3 DEF Goto
<1>4. CASE PayCommit(s) \/ RedeemCommit(s) \/ PromoCommit(s) \/ PayOrderPaid(s) \/ PortalTotals(s)
           \/ ModifyCommit(s) \/ OpenCommit(s) \/ CloseCommit(s) \/ Crash(s)
  <2>1. Goto(s, Idle)
    BY <1>4 DEF PayCommit, RedeemCommit, PromoCommit, PayOrderPaid, PortalTotals,
       ModifyCommit, OpenCommit, CloseCommit, Crash, Finish
  <2> QED
    BY <1>2, <1>3, <2>1 DEF Moved, PayPCs, ChargePCs
<1>5. CASE KitchenStatus(s) \/ Reconcile(s)
  BY <1>5 DEF KitchenStatus, Reconcile
<1>6. CASE PayLock(s)
  <2>1. sess' = [sess EXCEPT ![s] = sess'[s]] /\ sess'[s].pc = "payCommit"
    <3>1. CASE Goto(s, [sess[s] EXCEPT !.pc = "payCommit"])
      BY <1>2, <1>3, <3>1 DEF Session
    <3>2. ASSUME NEW n \in OpenShifts,
                 Goto(s, [sess[s] EXCEPT !.pc = "payCommit", !.shift = n,
                                         !.expected = shift[n].expected])
          PROVE  sess' = [sess EXCEPT ![s] = sess'[s]] /\ sess'[s].pc = "payCommit"
      <4>1. /\ sess' = [sess EXCEPT ![s] = sess'[s]]
            /\ sess'[s] = [sess[s] EXCEPT !.pc = "payCommit", !.shift = n,
                                          !.expected = shift[n].expected]
        BY <1>3, <3>2
      <4> QED
        BY <1>2, <4>1, FieldsLeft
    <3> QED
      BY <1>6, <3>1, <3>2 DEF PayLock
  <2> QED
    BY <1>6, <2>1 DEF PayLock, Moved, PayPCs, ChargePCs
<1>7. CASE PayOrderPost(s)
  <2>1. sess' = [sess EXCEPT ![s] = sess'[s]] /\ sess'[s].pc = "orderPaid"
    BY <1>2, <1>7 DEF PayOrderPost, Goto, Idle
  <2> QED
    BY <1>7, <2>1 DEF PayOrderPost, Moved, PayPCs, ChargePCs
<1>8. CASE ModifyLock(s)
  <2>1. sess' = [sess EXCEPT ![s] = sess'[s]] /\ sess'[s].pc = "modifyCommit"
    BY <1>2, <1>8 DEF ModifyLock, Session, Goto
  <2> QED
    BY <1>8, <2>1 DEF ModifyLock, Moved, PayPCs, ChargePCs
<1>9. CASE PayRead(s) \/ RedeemRead(s)
  <2>1. sess' = [sess EXCEPT ![s] = sess'[s]] /\ sess'[s].pc \in {"payTx", "redeem"}
    BY <1>2, <1>9 DEF PayRead, RedeemRead, Goto, Idle
  <2>2. PICK op \in PayOps : Free(s, op) /\ op \in Ops
    BY <1>9 DEF PayRead, RedeemRead, PayOps, Free
  <2> QED
    BY <2>1, <2>2 DEF Moved, PayPCs, ChargePCs
<1>10. CASE PromoRead(s) \/ PayOrderRead(s) \/ PortalLine(s) \/ ModifyRead(s)
  <2>1. /\ sess' = [sess EXCEPT ![s] = sess'[s]]
        /\ sess'[s].pc \in {"promo", "orderPost", "portal", "modifyTx"}
    BY <1>2, <1>10 DEF PromoRead, PayOrderRead, PortalLine, ModifyRead, Goto, Idle
  <2>2. PICK op \in ChargeOps : Free(s, op) /\ op \in Ops
    BY <1>10 DEF PromoRead, PayOrderRead, PortalLine, ModifyRead, ChargeOps, Free
  <2> QED
    BY <2>1, <2>2 DEF Moved, PayPCs, ChargePCs
<1>11. CASE OpenRead(s) \/ CloseRead(s)
  <2>1. sess' = [sess EXCEPT ![s] = sess'[s]] /\ sess'[s].pc \in {"open", "close"}
    BY <1>2, <1>11 DEF OpenRead, CloseRead, Goto, Idle
  <2>2. PICK op \in Ops : Free(s, op)
    BY <1>11 DEF OpenRead, CloseRead, Free
  <2> QED
    BY <2>1, <2>2 DEF Moved, PayPCs, ChargePCs
<1> QED
  BY <1>1, <1>4, <1>5, <1>6, <1>7, <1>8, <1>9, <1>10, <1>11

\* The two sides stay apart.
LEMMA SidesStayApart == TypeInv /\ SidesApart /\ [Next]_vars => SidesApart'
<1> SUFFICES ASSUME TypeInv, SidesApart, [Next]_vars PROVE SidesApart'
  OBVIOUS
<1>1. CASE sess' = sess
  BY <1>1 DEF SidesApart
<1>2. ASSUME NEW s \in Handlers, Moved(s) PROVE SidesApart'
  <2>1. \A t \in Handlers : t # s => sess'[t] = sess[t]
    BY <1>2 DEF Moved, TypeInv, TypeOK
  <2>2. PayOps \cap Ops = {} => \A t \in Handlers : sess'[t].pc \notin PayPCs
    BY <1>2, <2>1 DEF Moved, SidesApart
  <2>3. ChargeOps \cap Ops = {} => \A t \in Handlers : sess'[t].pc \notin ChargePCs
    BY <1>2, <2>1 DEF Moved, SidesApart
  <2>4. ASSUME OneAtATime, NEW t \in Handlers, NEW u \in Handlers,
               sess'[t].pc # "idle", sess'[u].pc # "idle"
        PROVE  t = u
    BY <1>2, <2>1, <2>4, FreeAlone DEF Moved, SidesApart
  <2> QED
    BY <2>2, <2>3, <2>4 DEF SidesApart
<1> QED
  BY <1>1, <1>2, StepMoves DEF vars

-----------------------------------------------------------------------------
(* The balance                                                             *)

\* What a payment writes keeps the balance due, if its snapshot does and has the
\* charges of the row; and what a charge writes, if it has what was paid.
LEMMA PostingKeepsDue ==
    ASSUME NEW row \in Totals, NEW read \in Totals, NEW amount \in Int, Due(read)
    PROVE  /\ read.charges = row.charges => Due(Paid(row, read, amount))
           /\ read.paid = row.paid => Due(Charged(row, read, amount))
           /\ Paid(row, read, amount).charges = row.charges
           /\ Charged(row, read, amount).paid = row.paid
<1>1. read.charges \in Int /\ read.paid \in Int /\ read.balance \in Int
  BY DEF Totals
<1>2. /\ Paid(row, read, amount).charges = row.charges
      /\ Paid(row, read, amount).paid = read.paid + amount
      /\ Paid(row, read, amount).balance = read.charges - (read.paid + amount)
  BY DEF Paid, Totals
<1>3. /\ Charged(row, read, amount).paid = row.paid
      /\ Charged(row, read, amount).charges = read.charges + amount
      /\ Charged(row, read, amount).balance = read.balance + amount
  BY DEF Charged, Totals
<1> QED
  BY <1>1, <1>2, <1>3 DEF Due

\* The handlers whose snapshot still has to be written.
PaySnapshot(pc)    == pc \in PayPCs
ChargeSnapshot(pc) == pc \in {"promo", "orderPost", "modifyCommit"}
Snapshot(pc)       == PaySnapshot(pc) \/ ChargeSnapshot(pc)

\* A handler that reads the totals, or keeps what it read, disturbs nothing.
LEMMA ReadingKeeps ==
    ASSUME BalanceInv, NEW s \in Handlers, folio' = folio,
           sess' = [sess EXCEPT ![s] = sess'[s]], sess'[s].f \in Folios,
           Snapshot(sess'[s].pc) =>
               \/ sess'[s].read = folio[sess'[s].f]
               \/ /\ PaySnapshot(sess[s].pc) /\ PaySnapshot(sess'[s].pc)
                  /\ sess'[s].f = sess[s].f /\ sess'[s].read = sess[s].read
    PROVE  BalanceIsDue' /\ SnapshotsHold'
<1>1. \A t \in Handlers : t # s => sess'[t] = sess[t]
  BY DEF BalanceInv, TypeInv, TypeOK
<1>2. \A f \in Folios : Due(folio[f])
  BY DEF BalanceInv, BalanceIsDue, Due
<1>3. BalanceIsDue'
  BY DEF BalanceInv, BalanceIsDue
<1>4. SnapshotsHold'
  BY <1>1, <1>2 DEF BalanceInv, SnapshotsHold, Snapshot, PaySnapshot, ChargeSnapshot, PayPCs
<1> QED
  BY <1>3, <1>4

\* A handler that writes totals which are due, and leaves the other side's alone,
\* disturbs no snapshot, because the other side has none.
LEMMA WritingKeeps ==
    ASSUME BalanceInv, OneSided, NEW s \in Handlers, NEW f \in Folios, NEW row \in Totals,
           folio' = [folio EXCEPT ![f] = row], Due(row),
           \/ sess[s].pc \in PayPCs /\ row.charges = folio[f].charges
           \/ sess[s].pc \in ChargePCs /\ row.paid = folio[f].paid,
           sess' = [sess EXCEPT ![s] = sess'[s]], ~ Snapshot(sess'[s].pc)
    PROVE  BalanceIsDue' /\ SnapshotsHold'
<1>1. \A t \in Handlers : t # s => sess'[t] = sess[t]
  BY DEF BalanceInv, TypeInv, TypeOK
<1>2. \A g \in Folios : folio'[g] = IF g = f THEN row ELSE folio[g]
  BY DEF BalanceInv, TypeInv, TypeOK
<1>3. BalanceIsDue'
  BY <1>2 DEF BalanceInv, BalanceIsDue, Due
<1>4. ASSUME NEW t \in Handlers, t # s PROVE
          /\ sess[s].pc \in PayPCs => ~ ChargeSnapshot(sess[t].pc)
          /\ sess[s].pc \in ChargePCs => ~ PaySnapshot(sess[t].pc)
  BY <1>4 DEF BalanceInv, SidesApart, OneSided, PaySnapshot, ChargeSnapshot, PayPCs, ChargePCs
<1>5. ASSUME NEW t \in Handlers PROVE
          /\ PaySnapshot(sess'[t].pc) =>
               Due(sess'[t].read) /\ sess'[t].read.charges = folio'[sess'[t].f].charges
          /\ ChargeSnapshot(sess'[t].pc) =>
               Due(sess'[t].read) /\ sess'[t].read.paid = folio'[sess'[t].f].paid
  <2>1. CASE t = s
    BY <2>1 DEF Snapshot
  <2>2. CASE t # s
    <3>1. sess'[t] = sess[t] /\ sess[t].f \in Folios
      BY <1>1, <2>2 DEF BalanceInv, TypeInv, TypeOK, Session
    <3>2. /\ PaySnapshot(sess[t].pc) =>
               Due(sess[t].read) /\ sess[t].read.charges = folio[sess[t].f].charges
          /\ ChargeSnapshot(sess[t].pc) =>
               Due(sess[t].read) /\ sess[t].read.paid = folio[sess[t].f].paid
      BY DEF BalanceInv, SnapshotsHold, PaySnapshot, ChargeSnapshot
    <3>3. /\ PaySnapshot(sess[t].pc) => sess[s].pc \in PayPCs
          /\ ChargeSnapshot(sess[t].pc) => sess[s].pc \in ChargePCs
          /\ ~ (sess[s].pc \in PayPCs /\ sess[s].pc \in ChargePCs)
      BY <1>4, <2>2 DEF PayPCs, ChargePCs
    <3> QED
      BY <1>2, <3>1, <3>2, <3>3
  <2> QED
    BY <2>1, <2>2
<1> QED
  BY <1>3, <1>5 DEF SnapshotsHold, PaySnapshot, ChargeSnapshot

\* Every step keeps the balances due and the snapshots good.
LEMMA BalanceStep ==
    ASSUME OneSided, BalanceInv, Next
    PROVE  BalanceIsDue' /\ SnapshotsHold'
<1>1. PICK s \in Handlers :
        \/ PayRead(s) \/ PayLock(s) \/ PayCommit(s)
        \/ RedeemRead(s) \/ RedeemCommit(s)
        \/ PromoRead(s) \/ PromoCommit(s)
        \/ PayOrderRead(s) \/ PayOrderPost(s) \/ PayOrderPaid(s) \/ KitchenStatus(s)
        \/ PortalLine(s) \/ PortalTotals(s)
        \/ ModifyRead(s) \/ ModifyLock(s) \/ ModifyCommit(s)
        \/ OpenRead(s) \/ OpenCommit(s) \/ CloseRead(s) \/ CloseCommit(s) \/ Reconcile(s)
        \/ Crash(s)
  BY DEF Next
<1> DEFINE me == sess[s]
<1>2. /\ me \in Session /\ sess \in [Handlers -> Session] /\ folio \in [Folios -> Totals]
      /\ me.f \in Folios /\ me.amount \in Int /\ me.quoted \in Int /\ me.read \in Totals
      /\ folio[me.f] \in Totals /\ Due(folio[me.f])
  BY DEF BalanceInv, TypeInv, TypeOK, Session, BalanceIsDue, Due
<1>3. ASSUME NEW l, Goto(s, l)
      PROVE  sess' = [sess EXCEPT ![s] = sess'[s]] /\ sess'[s] = l
  BY <1>2, <1>3 DEF Goto
<1>4. ASSUME Finish(s)
      PROVE  sess' = [sess EXCEPT ![s] = sess'[s]] /\ ~ Snapshot(sess'[s].pc) /\ sess'[s].f \in Folios
  BY <1>3, <1>4, FolioAssumption DEF Finish, Idle, Snapshot, PaySnapshot, ChargeSnapshot, PayPCs
<1>5. CASE PayRead(s) \/ RedeemRead(s) \/ PromoRead(s) \/ PayOrderRead(s)
  <2>1. /\ sess' = [sess EXCEPT ![s] = sess'[s]] /\ folio' = folio
        /\ sess'[s].f \in Folios /\ sess'[s].read = folio[sess'[s].f]
    <3>1. CASE PayRead(s)
      BY <1>2, <3>1 DEF PayRead, Goto, Idle
    <3>2. CASE RedeemRead(s)
      BY <1>2, <3>2 DEF RedeemRead, Goto, Idle
    <3>3. CASE PromoRead(s)
      BY <1>2, <3>3 DEF PromoRead, Goto, Idle
    <3>4. CASE PayOrderRead(s)
      BY <1>2, <3>4, FolioAssumption DEF PayOrderRead, Goto, Idle
    <3> QED
      BY <1>5, <3>1, <3>2, <3>3, <3>4
  <2> QED
    BY <2>1, ReadingKeeps
<1>6. CASE PayLock(s)
  <2>1. /\ sess' = [sess EXCEPT ![s] = sess'[s]] /\ folio' = folio
        /\ sess'[s].pc = "payCommit" /\ sess'[s].f = me.f /\ sess'[s].read = me.read
    <3>1. folio' = folio
      BY <1>6 DEF PayLock
    <3>2. CASE Goto(s, [me EXCEPT !.pc = "payCommit"])
      <4>1. /\ sess' = [sess EXCEPT ![s] = sess'[s]]
            /\ sess'[s] = [me EXCEPT !.pc = "payCommit"]
        BY <1>3, <3>2
      <4> QED
        BY <1>2, <3>1, <4>1, FieldsLeft
    <3>3. ASSUME NEW n \in OpenShifts,
                 Goto(s, [me EXCEPT !.pc = "payCommit", !.shift = n, !.expected = shift[n].expected])
          PROVE  /\ sess' = [sess EXCEPT ![s] = sess'[s]]
                 /\ sess'[s].pc = "payCommit" /\ sess'[s].f = me.f /\ sess'[s].read = me.read
      <4>1. /\ sess' = [sess EXCEPT ![s] = sess'[s]]
            /\ sess'[s] = [me EXCEPT !.pc = "payCommit", !.shift = n, !.expected = shift[n].expected]
        BY <1>3, <3>3
      <4> QED
        BY <1>2, <4>1, FieldsLeft
    <3> QED
      BY <1>6, <3>1, <3>2, <3>3 DEF PayLock
  <2>2. me.pc = "payTx"
    BY <1>6 DEF PayLock
  <2> QED
    BY <1>2, <2>1, <2>2, ReadingKeeps DEF Snapshot, PaySnapshot, PayPCs
<1>7. CASE PayCommit(s)
  <2>1. me.pc \in PayPCs /\ folio' = [folio EXCEPT ![me.f] = Paid(folio[me.f], me.read, me.amount)]
    BY <1>2, <1>7 DEF PayCommit, PayPCs
  <2>2. Due(me.read) /\ me.read.charges = folio[me.f].charges
    BY <2>1 DEF BalanceInv, SnapshotsHold
  <2>3. /\ Paid(folio[me.f], me.read, me.amount) \in Totals /\ Due(Paid(folio[me.f], me.read, me.amount))
        /\ Paid(folio[me.f], me.read, me.amount).charges = folio[me.f].charges
    BY <1>2, <2>2, PostedTypes, PostingKeepsDue
  <2> QED
    BY <1>2, <1>4, <1>7, <2>1, <2>3, WritingKeeps DEF PayCommit
<1>8. CASE RedeemCommit(s)
  <2> DEFINE row == [folio[me.f] EXCEPT !.paid = me.read.paid + me.amount,
                                        !.balance = me.read.balance - me.amount]
  <2>1. me.pc \in PayPCs /\ folio' = [folio EXCEPT ![me.f] = row]
    BY <1>2, <1>8 DEF RedeemCommit, PayPCs
  <2>2. Due(me.read) /\ me.read.charges = folio[me.f].charges
    BY <2>1 DEF BalanceInv, SnapshotsHold
  <2>3. /\ me.read.charges \in Int /\ me.read.paid \in Int /\ me.read.balance \in Int
        /\ me.read.paid + me.amount \in Int /\ me.read.balance - me.amount \in Int
    BY <1>2 DEF Totals
  <2>4. /\ row.charges = folio[me.f].charges /\ row.paid = me.read.paid + me.amount
        /\ row.balance = me.read.balance - me.amount
    BY <1>2 DEF Totals
  <2>5. row \in Totals
    BY <1>2, <2>3 DEF Totals
  <2>6. Due(row)
    BY <1>2, <2>2, <2>3, <2>4 DEF Due
  <2> QED
    BY <1>2, <1>4, <1>8, <2>1, <2>4, <2>5, <2>6, WritingKeeps DEF RedeemCommit
<1>9. CASE PromoCommit(s)
  <2>1. /\ me.pc \in ChargePCs /\ me.pc = "promo"
        /\ folio' = [folio EXCEPT ![me.f] = Charged(folio[me.f], me.read, -me.amount)]
    BY <1>2, <1>9 DEF PromoCommit, ChargePCs
  <2>2. Due(me.read) /\ me.read.paid = folio[me.f].paid /\ -me.amount \in Int
    BY <1>2, <2>1 DEF BalanceInv, SnapshotsHold
  <2>3. /\ Charged(folio[me.f], me.read, -me.amount) \in Totals
        /\ Due(Charged(folio[me.f], me.read, -me.amount))
        /\ Charged(folio[me.f], me.read, -me.amount).paid = folio[me.f].paid
    BY <1>2, <2>2, PostedTypes, PostingKeepsDue
  <2> QED
    BY <1>2, <1>4, <1>9, <2>1, <2>3, WritingKeeps DEF PromoCommit
<1>10. CASE PayOrderPost(s)
  <2>1. /\ me.pc \in ChargePCs /\ me.pc = "orderPost"
        /\ folio' = [folio EXCEPT ![me.f] = Charged(folio[me.f], me.read, me.amount)]
    BY <1>2, <1>10 DEF PayOrderPost, ChargePCs
  <2>2. Due(me.read) /\ me.read.paid = folio[me.f].paid
    BY <2>1 DEF BalanceInv, SnapshotsHold
  <2>3. /\ Charged(folio[me.f], me.read, me.amount) \in Totals
        /\ Due(Charged(folio[me.f], me.read, me.amount))
        /\ Charged(folio[me.f], me.read, me.amount).paid = folio[me.f].paid
    BY <1>2, <2>2, PostedTypes, PostingKeepsDue
  <2>4. sess' = [sess EXCEPT ![s] = sess'[s]] /\ sess'[s].pc = "orderPaid"
    BY <1>2, <1>10 DEF PayOrderPost, Goto, Idle
  <2>5. ~ Snapshot(sess'[s].pc)
    BY <2>4 DEF Snapshot, PaySnapshot, ChargeSnapshot, PayPCs
  <2> QED
    BY <1>2, <2>1, <2>3, <2>4, <2>5, WritingKeeps
<1>11. CASE PortalTotals(s)
  <2>1. /\ me.pc \in ChargePCs
        /\ folio' = [folio EXCEPT ![me.f] = Charged(folio[me.f], folio[me.f], me.amount)]
    BY <1>2, <1>11 DEF PortalTotals, ChargePCs
  <2>2. /\ Charged(folio[me.f], folio[me.f], me.amount) \in Totals
        /\ Due(Charged(folio[me.f], folio[me.f], me.amount))
        /\ Charged(folio[me.f], folio[me.f], me.amount).paid = folio[me.f].paid
    BY <1>2, PostedTypes, PostingKeepsDue
  <2> QED
    BY <1>2, <1>4, <1>11, <2>1, <2>2, WritingKeeps DEF PortalTotals
<1>12. CASE ModifyCommit(s)
  <2> DEFINE delta == Adjustment(me.amount, me.quoted)
  <2>0. delta \in Int /\ me.pc \in ChargePCs /\ me.pc = "modifyCommit"
    BY <1>2, <1>12 DEF Adjustment, ModifyCommit, ChargePCs
  <2>1. CASE folio' = folio
    BY <1>4, <1>12, <2>1, ReadingKeeps DEF ModifyCommit
  <2>2. CASE folio' = [folio EXCEPT ![me.f] = Charged(@, me.read, delta)]
    <3>1. folio' = [folio EXCEPT ![me.f] = Charged(folio[me.f], me.read, delta)]
      BY <1>2, <2>2
    <3>2. Due(me.read) /\ me.read.paid = folio[me.f].paid
      BY <2>0 DEF BalanceInv, SnapshotsHold
    <3>3. /\ Charged(folio[me.f], me.read, delta) \in Totals
          /\ Due(Charged(folio[me.f], me.read, delta))
          /\ Charged(folio[me.f], me.read, delta).paid = folio[me.f].paid
      BY <1>2, <2>0, <3>2, PostedTypes, PostingKeepsDue
    <3> QED
      BY <1>2, <1>4, <1>12, <2>0, <3>1, <3>3, WritingKeeps DEF ModifyCommit
  <2> QED
    BY <1>12, <2>1, <2>2 DEF ModifyCommit
<1>13. CASE PortalLine(s) \/ ModifyRead(s) \/ OpenRead(s) \/ CloseRead(s)
  <2> DEFINE Begins == /\ sess' = [sess EXCEPT ![s] = sess'[s]] /\ folio' = folio
                       /\ sess'[s].f \in Folios
                       /\ sess'[s].pc \in {"portal", "modifyTx", "open", "close"}
  <2>2. ASSUME PortalLine(s) PROVE Begins
    BY <1>2, <2>2 DEF PortalLine, Goto, Idle
  <2>3. ASSUME ModifyRead(s) PROVE Begins
    BY <1>2, <2>3 DEF ModifyRead, Goto, Idle
  <2>4. ASSUME OpenRead(s) PROVE Begins
    BY <1>2, <2>4, FolioAssumption DEF OpenRead, Goto, Idle
  <2>5. ASSUME CloseRead(s) PROVE Begins
    BY <1>2, <2>5, FolioAssumption DEF CloseRead, Goto, Idle
  <2>1. Begins
    BY <1>13, <2>2, <2>3, <2>4, <2>5
  <2> QED
    BY <2>1, ReadingKeeps DEF Snapshot, PaySnapshot, ChargeSnapshot, PayPCs
<1>14. CASE ModifyLock(s)
  <2>1. Goto(s, [me EXCEPT !.pc = "modifyCommit", !.read = folio[me.f]]) /\ folio' = folio
    BY <1>14 DEF ModifyLock
  <2>2. /\ sess' = [sess EXCEPT ![s] = sess'[s]]
        /\ sess'[s].f = me.f /\ sess'[s].read = folio[me.f]
    <3>1. /\ sess' = [sess EXCEPT ![s] = sess'[s]]
          /\ sess'[s] = [me EXCEPT !.pc = "modifyCommit", !.read = folio[me.f]]
      BY <1>3, <2>1
    <3> QED
      BY <1>2, <3>1, FieldsLeft
  <2> QED
    BY <1>2, <2>1, <2>2, ReadingKeeps
<1>15. CASE PayOrderPaid(s) \/ OpenCommit(s) \/ CloseCommit(s) \/ Crash(s)
  <2>1. Finish(s) /\ folio' = folio
    BY <1>15 DEF PayOrderPaid, OpenCommit, CloseCommit, Crash
  <2> QED
    BY <1>4, <2>1, ReadingKeeps
<1>16. CASE KitchenStatus(s) \/ Reconcile(s)
  BY <1>16 DEF KitchenStatus, Reconcile, BalanceInv, BalanceIsDue, SnapshotsHold
<1> QED
  BY <1>1, <1>5, <1>6, <1>7, <1>8, <1>9, <1>10, <1>11, <1>12, <1>13, <1>14, <1>15, <1>16

\* The balance shown is charges less payments in every race of payments, refunds
\* and redemptions, in every race of charges, and whenever requests come one at a
\* time; handlers may die anywhere.
THEOREM BalanceStaysDue == ASSUME OneSided PROVE Spec => []BalanceIsDue
<1>1. Init => BalanceInv
  <2> SUFFICES ASSUME Init PROVE BalanceInv
    OBVIOUS
  <2>1. TypeInv
    BY TypeInit
  <2>2. \A s \in Handlers : sess[s].pc = "idle"
    BY IdleType DEF Init
  <2>3. SidesApart /\ SnapshotsHold
    BY <2>2 DEF SidesApart, SnapshotsHold, PayPCs, ChargePCs
  <2>4. BalanceIsDue
    <3>1. \A q \in Prices : q = q - 0
      BY PriceAssumption
    <3> QED
      BY <3>1 DEF Init, BalanceIsDue
  <2> QED
    BY <2>1, <2>3, <2>4 DEF BalanceInv
<1>2. BalanceInv /\ [Next]_vars => BalanceInv'
  <2> SUFFICES ASSUME BalanceInv, [Next]_vars PROVE BalanceInv'
    OBVIOUS
  <2>1. TypeInv' /\ SidesApart'
    BY TypeStep, SidesStayApart DEF BalanceInv
  <2>2. CASE UNCHANGED vars
    BY <2>1, <2>2 DEF vars, BalanceInv, BalanceIsDue, SnapshotsHold
  <2>3. CASE Next
    BY <2>1, <2>3, BalanceStep DEF BalanceInv
  <2> QED
    BY <2>2, <2>3
<1>3. BalanceInv => BalanceIsDue
  BY DEF BalanceInv
<1> QED
  BY <1>1, <1>2, <1>3, PTL DEF Spec

-----------------------------------------------------------------------------
(* One request at a time                                                   *)

\* The folio traces to its rows but for a portal purchase that is half-way, and
\* its room charges to the price.
FolioTraces ==
    \A f \in Folios :
        /\ (\A s \in Handlers : ~ (sess[s].pc = "portal" /\ sess[s].f = f)) =>
             folio[f].charges = lines[f].room + lines[f].other
        /\ folio[f].paid = payments[f]
        /\ lines[f].room = quoted[f]

\* The drawer expects what it took.
DrawerTraces ==
    \A n \in Shifts :
        /\ shift[n].expected = shift[n].cash
        /\ shift[n].status \in {"CLOSED", "RECONCILED"} => shift[n].variance = shift[n].counted - shift[n].cash

\* The order was posted once, and is PAID or about to be.
OrderTraces ==
    "kds" \notin Ops =>
        /\ order.posted <= 1
        /\ order.posted = 1 => order.status = "PAID" \/ \E s \in Handlers : sess[s].pc = "orderPaid"

\* Nothing that handler s read has changed since.
StillTrue(s) ==
    LET me == sess[s] IN
    /\ me.pc \in {"payTx", "payCommit", "redeem", "promo", "orderPost", "modifyCommit"} =>
         me.read = folio[me.f]
    /\ me.pc \in {"modifyTx", "modifyCommit"} => me.quoted = quoted[me.f]
    /\ me.pc = "portal" => folio[me.f].charges + me.amount = lines[me.f].room + lines[me.f].other
    /\ me.pc = "redeem" => me.amount <= card
    /\ me.pc = "promo" => MaxUses = 0 \/ used < MaxUses
    /\ me.pc = "orderPost" => order.status # "PAID"
    /\ me.pc = "payTx" => me.shift = 0
    /\ me.pc \in {"payCommit", "close"} /\ me.shift \in Shifts =>
         shift[me.shift].status = "OPEN" /\ me.expected = shift[me.shift].expected

SerialInv ==
    /\ TypeInv /\ SidesApart
    /\ FolioTraces /\ DrawerTraces /\ OrderTraces
    /\ PromoWithinLimit /\ CardCovered
    /\ \A s \in Handlers : StillTrue(s)

\* At the first posting every sum is that of one room charge.
LEMMA SerialInit == Init => SerialInv
<1> SUFFICES ASSUME Init PROVE SerialInv
  OBVIOUS
<1>1. TypeInv
  BY TypeInit
<1>2. \A s \in Handlers : sess[s].pc = "idle"
  BY IdleType DEF Init
<1>3. SidesApart /\ \A s \in Handlers : StillTrue(s)
  BY <1>2 DEF SidesApart, StillTrue, PayPCs, ChargePCs
<1>4. FolioTraces
  <2>1. \A q \in Prices : q = q + 0
    BY PriceAssumption
  <2> QED
    BY <2>1 DEF Init, FolioTraces
<1>5. DrawerTraces /\ OrderTraces /\ PromoWithinLimit /\ CardCovered
  BY CardAssumption, PromoAssumption DEF Init, DrawerTraces, NoShift, OrderTraces, PromoWithinLimit, CardCovered
<1> QED
  BY <1>1, <1>3, <1>4, <1>5 DEF SerialInv

\* A handler that reads what is true, while no other is in flight, keeps the contract.
LEMMA SerialRead ==
    ASSUME SerialInv, TypeInv', SidesApart', NEW s \in Handlers,
           \A t \in Handlers : sess[t].pc = "idle",
           sess' = [sess EXCEPT ![s] = sess'[s]], sess'[s].pc # "portal", StillTrue(s)',
           UNCHANGED <<folio, lines, payments, quoted, order, used, card, shift>>
    PROVE  SerialInv'
<1>1. \A t \in Handlers : t # s => sess'[t].pc = "idle"
  BY DEF SerialInv, TypeInv, TypeOK
<1>2. \A t \in Handlers : StillTrue(t)'
  BY <1>1 DEF StillTrue
<1>3. FolioTraces'
  BY <1>1 DEF SerialInv, FolioTraces
<1> QED
  BY <1>2, <1>3 DEF SerialInv, DrawerTraces, OrderTraces, PromoWithinLimit, CardCovered

\* A handler that begins, while no other is in flight, keeps the contract.
LEMMA SerialStart ==
    ASSUME OneAtATime, SerialInv, TypeInv', SidesApart', NEW s \in Handlers,
           \/ PayRead(s) \/ RedeemRead(s) \/ PromoRead(s) \/ PayOrderRead(s) \/ KitchenStatus(s)
           \/ PortalLine(s) \/ ModifyRead(s) \/ OpenRead(s) \/ CloseRead(s) \/ Reconcile(s)
    PROVE  SerialInv'
<1>1. \A t \in Handlers : sess[t].pc = "idle"
  BY FreeAlone DEF PayRead, RedeemRead, PromoRead, PayOrderRead, KitchenStatus, PortalLine, ModifyRead,
     OpenRead, CloseRead, Reconcile
<1>2. /\ sess \in [Handlers -> Session] /\ folio \in [Folios -> Totals]
      /\ lines \in [Folios -> [room : Int, other : Int]] /\ shift \in [Shifts -> Shift]
      /\ quoted \in [Folios -> Prices]
  BY DEF SerialInv, TypeInv, TypeOK
<1>3. \A f \in Folios : folio[f].charges = lines[f].room + lines[f].other
  BY <1>1 DEF SerialInv, FolioTraces
<1>4. CASE PayRead(s)
  <2>1. PICK f \in Folios, amount \in Amounts, cash \in BOOLEAN :
          Goto(s, [Idle EXCEPT !.pc = "payTx", !.f = f, !.amount = amount, !.cash = cash,
                               !.read = folio[f]])
    BY <1>4 DEF PayRead
  <2>2. /\ sess' = [sess EXCEPT ![s] = sess'[s]] /\ sess'[s].pc = "payTx" /\ sess'[s].f = f
        /\ sess'[s].read = folio[f] /\ sess'[s].shift = 0
    BY <1>2, <2>1 DEF Goto, Idle
  <2>3. StillTrue(s)'
    BY <1>4, <2>2 DEF PayRead, StillTrue
  <2> QED
    BY <1>1, <1>4, <2>2, <2>3, SerialRead DEF PayRead
<1>5. CASE RedeemRead(s)
  <2>1. PICK f \in Folios, amount \in Amounts :
          /\ Covers(amount)
          /\ Goto(s, [Idle EXCEPT !.pc = "redeem", !.f = f, !.amount = amount, !.read = folio[f]])
    BY <1>5 DEF RedeemRead
  <2>2. /\ sess' = [sess EXCEPT ![s] = sess'[s]] /\ sess'[s].pc = "redeem" /\ sess'[s].f = f
        /\ sess'[s].read = folio[f] /\ sess'[s].amount = amount
    BY <1>2, <2>1 DEF Goto, Idle
  <2>3. StillTrue(s)'
    BY <1>5, <2>1, <2>2 DEF RedeemRead, Covers, StillTrue
  <2> QED
    BY <1>1, <1>5, <2>2, <2>3, SerialRead DEF RedeemRead
<1>6. CASE PromoRead(s)
  <2>1. PICK f \in Folios :
          Goto(s, [Idle EXCEPT !.pc = "promo", !.f = f, !.read = folio[f],
                               !.amount = Discount(folio[f].charges)])
    BY <1>6 DEF PromoRead
  <2>2. /\ sess' = [sess EXCEPT ![s] = sess'[s]] /\ sess'[s].pc = "promo" /\ sess'[s].f = f
        /\ sess'[s].read = folio[f]
    BY <1>2, <2>1 DEF Goto, Idle
  <2>3. StillTrue(s)'
    BY <1>6, <2>2 DEF PromoRead, WithinLimit, StillTrue
  <2> QED
    BY <1>1, <1>6, <2>2, <2>3, SerialRead DEF PromoRead
<1>7. CASE PayOrderRead(s)
  <2>2. /\ sess' = [sess EXCEPT ![s] = sess'[s]] /\ sess'[s].pc = "orderPost"
        /\ sess'[s].f = OrderFolio /\ sess'[s].read = folio[OrderFolio]
    BY <1>2, <1>7 DEF PayOrderRead, Goto, Idle
  <2>3. StillTrue(s)'
    BY <1>7, <2>2 DEF PayOrderRead, StillTrue
  <2> QED
    BY <1>1, <1>7, <2>2, <2>3, SerialRead DEF PayOrderRead
<1>8. CASE KitchenStatus(s)
  BY <1>1, <1>2, <1>8 DEF KitchenStatus, Free, SerialInv, StillTrue, FolioTraces,
     DrawerTraces, OrderTraces, PromoWithinLimit, CardCovered
<1>9. CASE PortalLine(s)
  <2>1. PICK f \in Folios :
          /\ lines' = [lines EXCEPT ![f].other = @ + 1]
          /\ Goto(s, [Idle EXCEPT !.pc = "portal", !.f = f, !.amount = 1])
    BY <1>9 DEF PortalLine
  <2>2. /\ sess'[s].pc = "portal" /\ sess'[s].f = f /\ sess'[s].amount = 1
        /\ \A t \in Handlers : t # s => sess'[t].pc = "idle"
    BY <1>1, <1>2, <2>1 DEF Goto, Idle
  <2>3. \A g \in Folios : /\ lines'[g].room = lines[g].room
                          /\ lines'[g].other = IF g = f THEN lines[g].other + 1 ELSE lines[g].other
    BY <1>2, <2>1
  <2>4. \A g \in Folios : lines[g].room \in Int /\ lines[g].other \in Int
    BY <1>2
  <2>5. folio[f].charges + 1 = lines'[f].room + lines'[f].other
    BY <1>3, <2>3, <2>4
  <2>6. StillTrue(s)'
    BY <1>9, <2>2, <2>5 DEF PortalLine, StillTrue
  <2>7. \A t \in Handlers : StillTrue(t)'
    BY <2>2, <2>6 DEF StillTrue
  <2>8. FolioTraces'
    BY <1>3, <1>9, <2>2, <2>3 DEF PortalLine, SerialInv, FolioTraces
  <2> QED
    BY <1>1, <1>9, <2>7, <2>8 DEF PortalLine, SerialInv, DrawerTraces, OrderTraces,
       PromoWithinLimit, CardCovered
<1>10. CASE ModifyRead(s)
  <2>1. PICK f \in Folios, price \in Prices :
          Goto(s, [Idle EXCEPT !.pc = "modifyTx", !.f = f, !.amount = price, !.quoted = quoted[f]])
    BY <1>10 DEF ModifyRead
  <2>2. /\ sess' = [sess EXCEPT ![s] = sess'[s]] /\ sess'[s].pc = "modifyTx" /\ sess'[s].f = f
        /\ sess'[s].quoted = quoted[f]
    BY <1>2, <2>1 DEF Goto, Idle
  <2>3. StillTrue(s)'
    BY <1>10, <2>2 DEF ModifyRead, StillTrue
  <2> QED
    BY <1>1, <1>10, <2>2, <2>3, SerialRead DEF ModifyRead
<1>11. CASE OpenRead(s)
  <2>2. sess' = [sess EXCEPT ![s] = sess'[s]] /\ sess'[s].pc = "open"
    BY <1>2, <1>11 DEF OpenRead, Goto, Idle
  <2>3. StillTrue(s)'
    BY <2>2 DEF StillTrue
  <2> QED
    BY <1>1, <1>11, <2>2, <2>3, SerialRead DEF OpenRead
<1>12. CASE CloseRead(s)
  <2>1. PICK n \in OpenShifts :
          Goto(s, [Idle EXCEPT !.pc = "close", !.shift = n, !.expected = shift[n].expected])
    BY <1>12 DEF CloseRead
  <2>2. /\ sess' = [sess EXCEPT ![s] = sess'[s]] /\ sess'[s].pc = "close" /\ sess'[s].shift = n
        /\ sess'[s].expected = shift[n].expected
    BY <1>2, <2>1 DEF Goto, Idle
  <2>3. StillTrue(s)'
    BY <1>12, <2>1, <2>2 DEF CloseRead, OpenShifts, StillTrue
  <2> QED
    BY <1>1, <1>12, <2>2, <2>3, SerialRead DEF CloseRead
<1>13. CASE Reconcile(s)
  <2>1. DrawerTraces'
    BY <1>2, <1>13 DEF Reconcile, SerialInv, DrawerTraces, Shift
  <2>2. \A t \in Handlers : StillTrue(t)'
    BY <1>1, <1>13 DEF Reconcile, StillTrue
  <2> QED
    BY <1>1, <1>13, <2>1, <2>2 DEF Reconcile, SerialInv, FolioTraces, OrderTraces,
       PromoWithinLimit, CardCovered
<1> QED
  BY <1>4, <1>5, <1>6, <1>7, <1>8, <1>9, <1>10, <1>11, <1>12, <1>13

\* A handler that ends, while no other is in flight, leaves nothing to be true still.
LEMMA SerialEnd ==
    ASSUME SerialInv, NEW s \in Handlers, \A t \in Handlers : t # s => sess[t].pc = "idle", Finish(s)
    PROVE  (\A t \in Handlers : sess'[t].pc = "idle") /\ (\A t \in Handlers : StillTrue(t)')
<1>1. \A t \in Handlers : sess'[t].pc = "idle"
  BY IdleType DEF Finish, Goto, SerialInv, TypeInv, TypeOK
<1> QED
  BY <1>1 DEF StillTrue

\* A handler that goes on, alone and over what is still true, keeps the contract.
LEMMA SerialFinish ==
    ASSUME OneAtATime, SerialInv, TypeInv', SidesApart', NEW s \in Handlers,
           \/ PayLock(s) \/ PayCommit(s) \/ RedeemCommit(s) \/ PromoCommit(s)
           \/ PayOrderPost(s) \/ PayOrderPaid(s) \/ PortalTotals(s)
           \/ ModifyLock(s) \/ ModifyCommit(s) \/ OpenCommit(s) \/ CloseCommit(s)
    PROVE  SerialInv'
<1> DEFINE me == sess[s]
<1>1. me.pc # "idle"
  BY DEF PayLock, PayCommit, RedeemCommit, PromoCommit, PayOrderPost, PayOrderPaid, PortalTotals,
     ModifyLock, ModifyCommit, OpenCommit, CloseCommit
<1>2. \A t \in Handlers : t # s => sess[t].pc = "idle"
  BY <1>1 DEF SerialInv, SidesApart
<1>3. /\ sess \in [Handlers -> Session] /\ folio \in [Folios -> Totals]
      /\ lines \in [Folios -> [room : Int, other : Int]] /\ shift \in [Shifts -> Shift]
      /\ payments \in [Folios -> Int] /\ quoted \in [Folios -> Prices]
      /\ me \in Session
  BY DEF SerialInv, TypeInv, TypeOK
<1>4. /\ me.f \in Folios /\ me.amount \in Int /\ me.quoted \in Int /\ me.expected \in Int
      /\ me.shift \in Nat /\ me.read \in Totals
  BY <1>3 DEF Session
<1>5. /\ \A f \in Folios : /\ folio[f].charges \in Int /\ folio[f].paid \in Int /\ folio[f].balance \in Int
                           /\ lines[f].room \in Int /\ lines[f].other \in Int /\ payments[f] \in Int
      /\ \A n \in Shifts : shift[n].expected \in Int /\ shift[n].cash \in Int /\ shift[n].counted \in Int
  BY <1>3 DEF Totals, Shift
<1>6. StillTrue(s)
  BY DEF SerialInv
<1>7. me.pc # "portal" => \A f \in Folios : folio[f].charges = lines[f].room + lines[f].other
  BY <1>2 DEF SerialInv, FolioTraces
<1>8. \A f \in Folios : folio[f].paid = payments[f] /\ lines[f].room = quoted[f]
  BY DEF SerialInv, FolioTraces
<1>9. CASE PayLock(s)
  <2>1. me.pc = "payTx" /\ me.read = folio[me.f] /\ me.shift = 0
    BY <1>6, <1>9 DEF PayLock, StillTrue
  <2>2. /\ sess' = [sess EXCEPT ![s] = sess'[s]] /\ sess'[s].pc = "payCommit"
        /\ sess'[s].f = me.f /\ sess'[s].read = me.read
        /\ sess'[s].shift \in Shifts =>
             shift[sess'[s].shift].status = "OPEN" /\ sess'[s].expected = shift[sess'[s].shift].expected
    <3>1. CASE Goto(s, [me EXCEPT !.pc = "payCommit"])
      <4>1. sess' = [sess EXCEPT ![s] = sess'[s]] /\ sess'[s] = [me EXCEPT !.pc = "payCommit"]
        BY <1>3, <3>1 DEF Goto
      <4>2. sess'[s].shift = 0
        BY <1>3, <2>1, <4>1 DEF Session
      <4> QED
        BY <1>3, <4>1, <4>2, FieldsLeft, ShiftAssumption
    <3>2. ASSUME NEW n \in OpenShifts,
                 Goto(s, [me EXCEPT !.pc = "payCommit", !.shift = n, !.expected = shift[n].expected])
          PROVE  /\ sess' = [sess EXCEPT ![s] = sess'[s]] /\ sess'[s].pc = "payCommit"
                 /\ sess'[s].f = me.f /\ sess'[s].read = me.read
                 /\ sess'[s].shift = n /\ sess'[s].expected = shift[n].expected
      <4>1. /\ sess' = [sess EXCEPT ![s] = sess'[s]]
            /\ sess'[s] = [me EXCEPT !.pc = "payCommit", !.shift = n, !.expected = shift[n].expected]
        BY <1>3, <3>2 DEF Goto
      <4>2. sess'[s].shift = n /\ sess'[s].expected = shift[n].expected
        BY <1>3, <4>1 DEF Session
      <4> QED
        BY <1>3, <4>1, <4>2, FieldsLeft
    <3> QED
      BY <1>9, <3>1, <3>2 DEF PayLock, OpenShifts
  <2>3. \A t \in Handlers : t # s => sess'[t].pc = "idle"
    BY <1>2, <1>3, <2>2
  <2>4. StillTrue(s)'
    BY <1>9, <2>1, <2>2 DEF PayLock, StillTrue
  <2>5. \A t \in Handlers : StillTrue(t)'
    BY <2>3, <2>4 DEF StillTrue
  <2>6. FolioTraces' /\ OrderTraces'
    BY <1>2, <1>7, <1>9, <2>1, <2>2, <2>3 DEF PayLock, SerialInv, FolioTraces, OrderTraces
  <2> QED
    BY <1>9, <2>5, <2>6 DEF PayLock, SerialInv, DrawerTraces, PromoWithinLimit, CardCovered
<1>10. CASE PayCommit(s)
  <2>1. me.pc = "payCommit" /\ me.read = folio[me.f]
    BY <1>6, <1>10 DEF PayCommit, StillTrue
  <2>2. \A f \in Folios : /\ folio'[f].charges = folio[f].charges
                          /\ folio'[f].paid = IF f = me.f THEN folio[f].paid + me.amount ELSE folio[f].paid
                          /\ payments'[f] = IF f = me.f THEN payments[f] + me.amount ELSE payments[f]
    BY <1>3, <1>4, <1>10, <2>1 DEF PayCommit, Paid, Totals
  <2>3. FolioTraces'
    BY <1>5, <1>7, <1>8, <1>10, <2>1, <2>2 DEF PayCommit, FolioTraces
  <2>4. ASSUME NEW n \in Shifts PROVE
          /\ shift'[n].expected = shift'[n].cash
          /\ shift'[n].status \in {"CLOSED", "RECONCILED"} =>
               shift'[n].variance = shift'[n].counted - shift'[n].cash
    <3>1. CASE n # me.shift
      BY <1>10, <3>1 DEF PayCommit, SerialInv, DrawerTraces
    <3>2. CASE n = me.shift
      <4>1. shift[n].status = "OPEN" /\ me.expected = shift[n].expected
        BY <1>6, <2>1, <3>2 DEF StillTrue
      <4>2. /\ shift'[n].expected = me.expected + me.amount
            /\ shift'[n].cash = shift[n].cash + me.amount /\ shift'[n].status = shift[n].status
        BY <1>3, <1>10, <3>2 DEF PayCommit, Accrued, Shift
      <4> QED
        BY <1>4, <1>5, <4>1, <4>2 DEF SerialInv, DrawerTraces
    <3> QED
      BY <3>1, <3>2
  <2>5. OrderTraces'
    BY <1>2, <1>10, <2>1 DEF PayCommit, SerialInv, OrderTraces
  <2> QED
    BY <1>2, <1>10, <2>3, <2>4, <2>5, SerialEnd DEF PayCommit, SerialInv, DrawerTraces, PromoWithinLimit,
       CardCovered
<1>11. CASE RedeemCommit(s)
  <2>1. me.pc = "redeem" /\ me.read = folio[me.f] /\ me.amount <= card
    BY <1>6, <1>11 DEF RedeemCommit, StillTrue
  <2>2. \A f \in Folios : /\ folio'[f].charges = folio[f].charges
                          /\ folio'[f].paid = IF f = me.f THEN folio[f].paid + me.amount ELSE folio[f].paid
                          /\ payments'[f] = IF f = me.f THEN payments[f] + me.amount ELSE payments[f]
    BY <1>3, <1>4, <1>11, <2>1 DEF RedeemCommit, Totals
  <2>3. FolioTraces'
    <3>1. \A f \in Folios : folio'[f].paid = payments'[f]
      BY <1>8, <2>2
    <3>2. lines' = lines /\ quoted' = quoted
      BY <1>11 DEF RedeemCommit
    <3> QED
      BY <1>7, <1>8, <2>1, <2>2, <3>1, <3>2 DEF FolioTraces
  <2>4. CardCovered'
    BY <1>4, <1>11, <2>1 DEF RedeemCommit, CardCovered, SerialInv, TypeInv, TypeOK
  <2>5. OrderTraces'
    BY <1>2, <1>11, <2>1 DEF RedeemCommit, SerialInv, OrderTraces
  <2> QED
    BY <1>2, <1>11, <2>3, <2>4, <2>5, SerialEnd DEF RedeemCommit, SerialInv, DrawerTraces, PromoWithinLimit
<1>12. CASE PromoCommit(s)
  <2>1. me.pc = "promo" /\ me.read = folio[me.f] /\ (MaxUses = 0 \/ used < MaxUses)
    BY <1>6, <1>12 DEF PromoCommit, StillTrue
  <2>2. \A f \in Folios :
          /\ folio'[f].charges = IF f = me.f THEN folio[f].charges + (-me.amount) ELSE folio[f].charges
          /\ folio'[f].paid = folio[f].paid /\ lines'[f].room = lines[f].room
          /\ lines'[f].other = IF f = me.f THEN lines[f].other - me.amount ELSE lines[f].other
    BY <1>3, <1>4, <1>12, <2>1 DEF PromoCommit, Charged, Totals
  <2>3. FolioTraces'
    BY <1>4, <1>5, <1>7, <1>8, <1>12, <2>1, <2>2 DEF PromoCommit, FolioTraces
  <2>4. PromoWithinLimit'
    BY <1>12, <2>1, PromoAssumption DEF PromoCommit, PromoWithinLimit, SerialInv, TypeInv, TypeOK
  <2>5. OrderTraces'
    BY <1>2, <1>12, <2>1 DEF PromoCommit, SerialInv, OrderTraces
  <2> QED
    BY <1>2, <1>12, <2>3, <2>4, <2>5, SerialEnd DEF PromoCommit, SerialInv, DrawerTraces, CardCovered
<1>13. CASE PayOrderPost(s)
  <2>1. me.pc = "orderPost" /\ me.read = folio[me.f] /\ order.status # "PAID"
    BY <1>6, <1>13 DEF PayOrderPost, StillTrue
  <2>2. \A f \in Folios :
          /\ folio'[f].charges = IF f = me.f THEN folio[f].charges + me.amount ELSE folio[f].charges
          /\ folio'[f].paid = folio[f].paid /\ lines'[f].room = lines[f].room
          /\ lines'[f].other = IF f = me.f THEN lines[f].other + me.amount ELSE lines[f].other
    BY <1>3, <1>4, <1>13, <2>1 DEF PayOrderPost, Charged, Totals
  <2>3. FolioTraces'
    <3>1. \A f \in Folios : folio'[f].charges = lines'[f].room + lines'[f].other
      BY <1>4, <1>5, <1>7, <2>1, <2>2
    <3>2. payments' = payments /\ quoted' = quoted
      BY <1>13 DEF PayOrderPost
    <3> QED
      BY <1>8, <2>2, <3>1, <3>2 DEF FolioTraces
  <2>4. /\ sess'[s].pc = "orderPaid" /\ \A t \in Handlers : t # s => sess'[t].pc = "idle"
    BY <1>2, <1>3, <1>13 DEF PayOrderPost, Goto, Idle
  <2>5. \A t \in Handlers : StillTrue(t)'
    BY <2>4 DEF StillTrue
  <2>6. order'.posted = order.posted + 1 /\ order.posted \in Nat
    BY <1>13 DEF PayOrderPost, SerialInv, TypeInv, TypeOK
  <2>7. OrderTraces'
    BY <1>2, <2>1, <2>4, <2>6 DEF SerialInv, OrderTraces
  <2> QED
    BY <1>13, <2>3, <2>5, <2>7 DEF PayOrderPost, SerialInv, DrawerTraces, PromoWithinLimit, CardCovered
<1>14. CASE PayOrderPaid(s)
  <2>1. me.pc = "orderPaid" /\ order'.posted = order.posted /\ order'.status = "PAID"
    BY <1>14 DEF PayOrderPaid, Settled, SerialInv, TypeInv, TypeOK
  <2>2. OrderTraces' /\ FolioTraces'
    BY <1>7, <1>8, <1>14, <2>1 DEF PayOrderPaid, SerialInv, OrderTraces, FolioTraces
  <2> QED
    BY <1>2, <1>14, <2>2, SerialEnd DEF PayOrderPaid, SerialInv, DrawerTraces, PromoWithinLimit, CardCovered
<1>15. CASE PortalTotals(s)
  <2>1. me.pc = "portal" /\ folio[me.f].charges + me.amount = lines[me.f].room + lines[me.f].other
    BY <1>6, <1>15 DEF PortalTotals, StillTrue
  <2>2. \A f \in Folios :
          /\ folio'[f].charges = IF f = me.f THEN folio[f].charges + me.amount ELSE folio[f].charges
          /\ folio'[f].paid = folio[f].paid
    BY <1>3, <1>4, <1>15 DEF PortalTotals, Charged, Totals
  <2>3. \A f \in Folios : f # me.f => folio[f].charges = lines[f].room + lines[f].other
    BY <1>2 DEF SerialInv, FolioTraces
  <2>4. FolioTraces'
    BY <1>8, <1>15, <2>1, <2>2, <2>3 DEF PortalTotals, FolioTraces
  <2>5. OrderTraces'
    BY <1>2, <1>15, <2>1 DEF PortalTotals, SerialInv, OrderTraces
  <2> QED
    BY <1>2, <1>15, <2>4, <2>5, SerialEnd DEF PortalTotals, SerialInv, DrawerTraces, PromoWithinLimit,
       CardCovered
<1>16. CASE ModifyLock(s)
  <2>1. me.pc = "modifyTx" /\ me.quoted = quoted[me.f]
    BY <1>6, <1>16 DEF ModifyLock, StillTrue
  <2>2. sess' = [sess EXCEPT ![s] = sess'[s]] /\ sess'[s] = [me EXCEPT !.pc = "modifyCommit", !.read = folio[me.f]]
    BY <1>3, <1>16 DEF ModifyLock, Goto
  <2>3. /\ sess'[s].pc = "modifyCommit" /\ sess'[s].f = me.f /\ sess'[s].read = folio[me.f]
        /\ sess'[s].quoted = me.quoted
    BY <1>3, <2>2 DEF Session
  <2>4. \A t \in Handlers : t # s => sess'[t].pc = "idle"
    BY <1>2, <1>3, <2>2
  <2>5. StillTrue(s)'
    BY <1>16, <2>1, <2>3 DEF ModifyLock, StillTrue
  <2>6. \A t \in Handlers : StillTrue(t)'
    BY <2>4, <2>5 DEF StillTrue
  <2>7. FolioTraces' /\ OrderTraces'
    BY <1>2, <1>7, <1>16, <2>1, <2>3, <2>4 DEF ModifyLock, SerialInv, FolioTraces, OrderTraces
  <2> QED
    BY <1>16, <2>6, <2>7 DEF ModifyLock, SerialInv, DrawerTraces, PromoWithinLimit, CardCovered
<1>17. CASE ModifyCommit(s)
  <2> DEFINE delta == me.amount - me.quoted
  <2>1. me.pc = "modifyCommit" /\ me.read = folio[me.f] /\ me.quoted = quoted[me.f]
    BY <1>6, <1>17 DEF ModifyCommit, StillTrue
  <2>2. \A f \in Folios : quoted'[f] = IF f = me.f THEN me.amount ELSE quoted[f]
    BY <1>3, <1>17 DEF ModifyCommit
  <2>3. delta \in Int
    BY <1>4
  <2>4. \A f \in Folios :
          /\ folio'[f].charges = IF f = me.f THEN folio[f].charges + delta ELSE folio[f].charges
          /\ folio'[f].paid = folio[f].paid /\ lines'[f].other = lines[f].other
          /\ lines'[f].room = IF f = me.f THEN lines[f].room + delta ELSE lines[f].room
    <3>1. CASE delta = 0 /\ UNCHANGED <<lines, folio>>
      BY <1>5, <3>1
    <3>2. CASE /\ lines' = [lines EXCEPT ![me.f].room = @ + delta]
               /\ folio' = [folio EXCEPT ![me.f] = Charged(@, me.read, delta)]
      BY <1>3, <2>1, <2>3, <3>2 DEF Charged, Totals
    <3> QED
      BY <1>17, <3>1, <3>2 DEF ModifyCommit, Adjustment
  <2>5. FolioTraces'
    BY <1>4, <1>5, <1>7, <1>8, <1>17, <2>1, <2>2, <2>4 DEF ModifyCommit, FolioTraces
  <2>6. OrderTraces'
    BY <1>2, <1>17, <2>1 DEF ModifyCommit, SerialInv, OrderTraces
  <2> QED
    BY <1>2, <1>17, <2>5, <2>6, SerialEnd DEF ModifyCommit, SerialInv, DrawerTraces, PromoWithinLimit,
       CardCovered
<1>18. CASE OpenCommit(s)
  <2>1. PICK n \in Unopened : shift' = [shift EXCEPT ![n] = [NoShift EXCEPT !.status = "OPEN"]]
    BY <1>18 DEF OpenCommit
  <2>2. me.pc = "open"
    BY <1>18 DEF OpenCommit
  <2>3. DrawerTraces'
    BY <1>3, <2>1 DEF NoShift, SerialInv, DrawerTraces
  <2>4. FolioTraces' /\ OrderTraces'
    BY <1>2, <1>7, <1>8, <1>18, <2>2 DEF OpenCommit, SerialInv, FolioTraces, OrderTraces
  <2> QED
    BY <1>2, <1>18, <2>3, <2>4, SerialEnd DEF OpenCommit, SerialInv, PromoWithinLimit, CardCovered
<1>19. CASE CloseCommit(s)
  <2>1. PICK counted \in {0, 1} :
          shift' = [shift EXCEPT ![me.shift].status = "CLOSED", ![me.shift].counted = counted,
                                 ![me.shift].variance = counted - me.expected]
    BY <1>19 DEF CloseCommit
  <2>2. me.pc = "close"
    BY <1>19 DEF CloseCommit
  <2>3. ASSUME NEW n \in Shifts PROVE
          /\ shift'[n].expected = shift'[n].cash
          /\ shift'[n].status \in {"CLOSED", "RECONCILED"} =>
               shift'[n].variance = shift'[n].counted - shift'[n].cash
    <3>1. CASE n # me.shift
      BY <1>3, <2>1, <3>1 DEF SerialInv, DrawerTraces
    <3>2. CASE n = me.shift
      <4>1. me.expected = shift[n].expected
        BY <1>6, <2>2, <3>2 DEF StillTrue
      <4>2. /\ shift'[n].expected = shift[n].expected /\ shift'[n].cash = shift[n].cash
            /\ shift'[n].counted = counted /\ shift'[n].variance = counted - me.expected
        BY <1>3, <2>1, <3>2 DEF Shift
      <4> QED
        BY <4>1, <4>2 DEF SerialInv, DrawerTraces
    <3> QED
      BY <3>1, <3>2
  <2>4. FolioTraces' /\ OrderTraces'
    BY <1>2, <1>7, <1>8, <1>19, <2>2 DEF CloseCommit, SerialInv, FolioTraces, OrderTraces
  <2> QED
    BY <1>2, <1>19, <2>3, <2>4, SerialEnd DEF CloseCommit, SerialInv, DrawerTraces, PromoWithinLimit, CardCovered
<1> QED
  BY <1>9, <1>10, <1>11, <1>12, <1>13, <1>14, <1>15, <1>16, <1>17, <1>18, <1>19

\* Every step keeps the contract, while requests come one at a time and none dies.
LEMMA SerialStep ==
    ASSUME OneAtATime, "crash" \notin Ops
    PROVE  SerialInv /\ [Next]_vars => SerialInv'
<1> SUFFICES ASSUME SerialInv, [Next]_vars PROVE SerialInv'
  OBVIOUS
<1>1. TypeInv' /\ SidesApart'
  BY TypeStep, SidesStayApart DEF SerialInv
<1>2. CASE UNCHANGED vars
  BY <1>1, <1>2 DEF vars, SerialInv, FolioTraces, DrawerTraces, OrderTraces, PromoWithinLimit,
     CardCovered, StillTrue
<1>3. CASE Next
  BY <1>1, <1>3, SerialStart, SerialFinish DEF Next, Crash
<1> QED
  BY <1>2, <1>3

\* What the invariant says of sums, limits and the order.
LEMMA ContractHolds ==
    SerialInv => /\ TotalsTraceToRows /\ VarianceIsExact
                 /\ RoomChargesAreQuoted
                 /\ PromoWithinLimit /\ CardCovered
                 /\ "kds" \notin Ops => OrderPostedOnce
  BY DEF SerialInv, FolioTraces, DrawerTraces, OrderTraces, TotalsTraceToRows, Quiet,
         RoomChargesAreQuoted, VarianceIsExact, OrderPostedOnce

\* What the services promise of money when requests come one at a time and none dies
\* half-way: stored totals, room charges, drawers, promo codes and gift cards are
\* right after any sequence of them.
THEOREM SerialContract ==
    ASSUME OneAtATime, "crash" \notin Ops
    PROVE  Spec => [](/\ TotalsTraceToRows /\ RoomChargesAreQuoted /\ VarianceIsExact
                      /\ PromoWithinLimit /\ CardCovered)
<1>1. SerialInv /\ [Next]_vars => SerialInv'
  BY SerialStep
<1>2. SerialInv => /\ TotalsTraceToRows /\ RoomChargesAreQuoted /\ VarianceIsExact
                   /\ PromoWithinLimit /\ CardCovered
  BY ContractHolds
<1> QED
  BY <1>1, <1>2, SerialInit, PTL DEF Spec

\* An order is charged to the room once, as long as requests come one at a time, none
\* dies half-way and the kitchen display leaves orders alone.
THEOREM SerialOrder ==
    ASSUME OneAtATime, "crash" \notin Ops, "kds" \notin Ops
    PROVE  Spec => []OrderPostedOnce
<1>1. SerialInv /\ [Next]_vars => SerialInv'
  BY SerialStep
<1>2. SerialInv => OrderPostedOnce
  BY ContractHolds
<1> QED
  BY <1>1, <1>2, SerialInit, PTL DEF Spec

-----------------------------------------------------------------------------
(* The serial offer beside the racing one                                  *)

\* The contract holds of the serial offer, and no step turns one into the other.
OfferInv == offer = "serial" => SerialInv

\* A step of the racing offer says nothing of the serial one.
LEMMA OfferStep ==
    ASSUME OneAtATime, "crash" \notin Ops,
           OfferInv, [SerialOffer \/ RacingOffer]_<<vars, offer>>
    PROVE  OfferInv'
<1>1. CASE SerialOffer
  BY <1>1, SerialStep DEF SerialOffer, OfferInv
<1>2. CASE RacingOffer
  BY <1>2 DEF RacingOffer, OfferInv
<1>3. CASE UNCHANGED <<vars, offer>>
  <2>1. UNCHANGED vars /\ UNCHANGED offer
    BY <1>3
  <2> QED
    BY <2>1, SerialStep DEF OfferInv
<1> QED
  BY <1>1, <1>2, <1>3

LEMMA OfferInit == PostingsInit => OfferInv
  BY SerialInit DEF PostingsInit, OfferInv

\* One request at a time: totals trace to their rows and variances are exact.
THEOREM SerialTotals ==
    ASSUME OneAtATime, "crash" \notin Ops
    PROVE  PostingsSpec => []SerialTotalsTrace
<1>1. OfferInv => SerialTotalsTrace
  BY ContractHolds DEF OfferInv, SerialTotalsTrace
<1>2. OfferInv /\ [SerialOffer \/ RacingOffer]_<<vars, offer>> => OfferInv'
  BY OfferStep
<1> QED
  BY <1>1, <1>2, OfferInit, PTL DEF PostingsSpec

\* One request at a time: the room charges of a folio are the price of its stay.
THEOREM SerialCharges ==
    ASSUME OneAtATime, "crash" \notin Ops
    PROVE  PostingsSpec => []SerialChargesQuoted
<1>1. OfferInv => SerialChargesQuoted
  BY ContractHolds DEF OfferInv, SerialChargesQuoted
<1>2. OfferInv /\ [SerialOffer \/ RacingOffer]_<<vars, offer>> => OfferInv'
  BY OfferStep
<1> QED
  BY <1>1, <1>2, OfferInit, PTL DEF PostingsSpec

\* One request at a time, with the kitchen display leaving orders alone: promo codes,
\* gift cards and orders are used within their limits.
THEOREM SerialLimits ==
    ASSUME OneAtATime, "crash" \notin Ops, "kds" \notin Ops
    PROVE  PostingsSpec => []SerialWithinLimits
<1>1. OfferInv => SerialWithinLimits
  BY ContractHolds DEF OfferInv, SerialWithinLimits
<1>2. OfferInv /\ [SerialOffer \/ RacingOffer]_<<vars, offer>> => OfferInv'
  BY OfferStep
<1> QED
  BY <1>1, <1>2, OfferInit, PTL DEF PostingsSpec

=============================================================================
