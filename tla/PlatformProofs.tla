--------------------------- MODULE PlatformProofs ---------------------------
(***************************************************************************)
(* What Platform's runs check on small instances, for every instance: the  *)
(* gate, the subscriptions, the logins and the payments of guests.         *)
(*                                                                         *)
(* Every part has an inductive invariant of its own, which its steps keep  *)
(* and the steps of the others do not touch.                               *)
(***************************************************************************)
EXTENDS Platform, SumTheorems, FiniteSetTheorems, TLAPS

-----------------------------------------------------------------------------
(* The gate.                                                               *)
(*                                                                         *)
(* A request is judged by terms that were the hotel's less than TTL before *)
(* it came.  The argument is about when the row was read: an entry expires *)
(* TTL after it was asked for, and was read at that instant or later; so   *)
(* an entry that is still good was the truth less than TTL ago, whichever  *)
(* request wrote it last.                                                  *)

\* A good entry holds terms the hotel had less than TTL before it expires.
EntryWasTrue ==
    cache.exp > now => \E u \in 0 .. now : cache.exp <= u + TTL /\ cache.terms \in was[u]

\* A row that was read was the hotel's since it was asked for.
ReadSinceAsked ==
    \A q \in Requests : req[q].pc = "fill" =>
        \E u \in 0 .. now : req[q].at <= u /\ req[q].terms \in was[u]

\* Requests came in the past.
CameBefore == \A q \in Requests : req[q].pc # "idle" => req[q].at \in 0 .. now

\* The inductive invariant.
GateInv ==
    /\ TypeOK
    /\ row \in was[now]
    /\ EntryWasTrue
    /\ ReadSinceAsked
    /\ CameBefore
    /\ JudgedByFreshTerms

-----------------------------------------------------------------------------

\* The first instant: an empty gate, and the history begun.
LEMMA GateInit == Init => GateInv
BY GateAssumption DEF Init, GateInv, TypeOK, EntryWasTrue, ReadSinceAsked, CameBefore,
   JudgedByFreshTerms, NoEntry, Idle, Instants

\* What was true of an instant that has passed stays so when the history grows.
LEMMA HistoryGrows ==
    ASSUME GateInv, now' \in Instants, now <= now', was' \in [Instants -> SUBSET Terms],
           cache' = cache, req' = req,
           \A u \in 0 .. now : was[u] \subseteq was'[u]
    PROVE  EntryWasTrue' /\ ReadSinceAsked' /\ CameBefore' /\ JudgedByFreshTerms'
<1>1. now \in Nat /\ now' \in Nat /\ TTL \in Nat
  BY GateAssumption DEF GateInv, TypeOK, Instants
<1>2. cache.exp \in Nat
  BY DEF GateInv, TypeOK, NoEntry
<1>3. EntryWasTrue'
  BY <1>1, <1>2 DEF GateInv, EntryWasTrue
<1>4. ReadSinceAsked'
  BY <1>1 DEF GateInv, ReadSinceAsked
<1>5. CameBefore'
  BY <1>1 DEF GateInv, CameBefore
<1>6. JudgedByFreshTerms'
  BY <1>1 DEF GateInv, JudgedByFreshTerms
<1> QED
  BY <1>3, <1>4, <1>5, <1>6

\* Every step keeps the inductive invariant.
LEMMA GateInvStep == GateInv /\ [Next]_vars => GateInv'
<1> SUFFICES ASSUME GateInv, [Next]_vars PROVE GateInv'
  OBVIOUS
<1>1. now \in Nat /\ now <= LastInstant /\ TTL \in Nat \ {0} /\ LastInstant \in Nat
  BY GateAssumption DEF GateInv, TypeOK, Instants
<1>2. cache.exp \in Nat
  BY DEF GateInv, TypeOK, NoEntry
<1>3. CASE Tick
  <2>1. now' \in Instants /\ now <= now' /\ \A u \in 0 .. now : was[u] \subseteq was'[u]
    BY <1>1, <1>3 DEF Tick, GateInv, TypeOK, Instants
  <2>2. TypeOK' /\ (row \in was[now])'
    BY <1>1, <1>3, <2>1 DEF Tick, GateInv, TypeOK, Instants
  <2> QED
    BY <1>3, <2>1, <2>2, HistoryGrows DEF Tick, GateInv, TypeOK
<1>4. ASSUME NEW terms \in Terms, Edit(terms) PROVE GateInv'
  <2>1. \A u \in 0 .. now : was[u] \subseteq was'[u]
    BY <1>1, <1>4 DEF Edit, GateInv, TypeOK, Instants
  <2>2. TypeOK' /\ (row \in was[now])'
    BY <1>1, <1>4 DEF Edit, GateInv, TypeOK, Instants
  <2> QED
    BY <1>1, <1>4, <2>1, <2>2, HistoryGrows DEF Edit, GateInv, TypeOK
<1>5. ASSUME NEW q \in Requests, Hit(q) PROVE GateInv'
  <2>1. cache.terms \in Terms
    BY <1>1, <1>5 DEF Hit, GateInv, TypeOK, NoEntry
  <2>2. TypeOK'
    BY <1>1, <1>5, <2>1 DEF Hit, GateInv, TypeOK, Instants
  <2>3. EntryWasTrue' /\ (row \in was[now])'
    BY <1>5 DEF Hit, GateInv, EntryWasTrue
  <2>4. ReadSinceAsked' /\ CameBefore'
    BY <1>1, <1>5 DEF Hit, GateInv, ReadSinceAsked, CameBefore, TypeOK
  <2>5. PICK u \in 0 .. now : cache.exp <= u + TTL /\ cache.terms \in was[u]
    BY <1>5 DEF Hit, GateInv, EntryWasTrue
  <2>6. now < u + TTL
    BY <1>1, <1>2, <1>5, <2>5 DEF Hit
  <2>7. JudgedByFreshTerms'
    BY <1>1, <1>5, <2>5, <2>6 DEF Hit, GateInv, JudgedByFreshTerms, TypeOK
  <2> QED
    BY <2>2, <2>3, <2>4, <2>7 DEF GateInv
<1>6. ASSUME NEW q \in Requests, Miss(q) PROVE GateInv'
  <2>1. TypeOK'
    BY <1>1, <1>6 DEF Miss, GateInv, TypeOK, Instants
  <2>2. EntryWasTrue' /\ (row \in was[now])'
    BY <1>6 DEF Miss, GateInv, EntryWasTrue
  <2>3. ReadSinceAsked' /\ CameBefore' /\ JudgedByFreshTerms'
    BY <1>1, <1>6 DEF Miss, GateInv, ReadSinceAsked, CameBefore, JudgedByFreshTerms, TypeOK
  <2> QED
    BY <2>1, <2>2, <2>3 DEF GateInv
<1>7. ASSUME NEW q \in Requests, Read(q) PROVE GateInv'
  <2>1. TypeOK'
    BY <1>1, <1>7 DEF Read, GateInv, TypeOK, Instants, Idle
  <2>2. EntryWasTrue' /\ (row \in was[now])'
    BY <1>7 DEF Read, GateInv, EntryWasTrue
  <2>3. ReadSinceAsked' /\ CameBefore' /\ JudgedByFreshTerms'
    BY <1>1, <1>7 DEF Read, GateInv, ReadSinceAsked, CameBefore, JudgedByFreshTerms, TypeOK
  <2> QED
    BY <2>1, <2>2, <2>3 DEF GateInv
<1>8. ASSUME NEW q \in Requests, Fill(q) PROVE GateInv'
  <2>1. req[q] \in [pc : {"fill", "judged"}, at : Instants, terms : Terms]
    BY <1>8 DEF Fill, GateInv, TypeOK, Idle
  <2>2. req' = [req EXCEPT ![q].pc = "judged"] /\ req[q].at \in Nat
    BY <1>1, <1>8, <2>1 DEF Fill, Instants
  <2>3. TypeOK'
    BY <1>1, <1>8, <2>1, <2>2 DEF Fill, Expiry, GateInv, TypeOK, Instants
  <2>4. PICK u \in 0 .. now : req[q].at <= u /\ req[q].terms \in was[u]
    BY <1>8 DEF Fill, GateInv, ReadSinceAsked
  <2>5. EntryWasTrue' /\ (row \in was[now])'
    BY <1>1, <1>8, <2>2, <2>4 DEF Fill, Expiry, GateInv, EntryWasTrue
  <2>6. ReadSinceAsked' /\ CameBefore'
    BY <1>1, <1>8, <2>1, <2>2 DEF Fill, GateInv, ReadSinceAsked, CameBefore, TypeOK
  <2>7. req[q].at < u + TTL
    BY <1>1, <2>2, <2>4
  <2>8. JudgedByFreshTerms'
    BY <1>1, <1>8, <2>1, <2>2, <2>4, <2>7 DEF Fill, GateInv, JudgedByFreshTerms, TypeOK
  <2> QED
    BY <2>3, <2>5, <2>6, <2>8 DEF GateInv
<1>9. CASE Restart
  BY <1>1, <1>9 DEF Restart, GateInv, TypeOK, EntryWasTrue, ReadSinceAsked, CameBefore,
     JudgedByFreshTerms, NoEntry, Idle
<1>10. CASE UNCHANGED vars
  BY <1>10 DEF vars, GateInv, TypeOK, EntryWasTrue, ReadSinceAsked, CameBefore, JudgedByFreshTerms
<1> QED
  BY <1>3, <1>4, <1>5, <1>6, <1>7, <1>8, <1>9, <1>10 DEF Next

\* The gate's promise, "cached briefly": no request is judged by terms older than TTL.
THEOREM TermsAreFresh == Spec => []JudgedByFreshTerms
<1>1. GateInv => JudgedByFreshTerms
  BY DEF GateInv
<1> QED
  BY <1>1, GateInit, GateInvStep, PTL DEF Spec

-----------------------------------------------------------------------------
(* The subscription of a hotel.                                            *)

Dates == 1 .. Horizon

\* What the locals of a handler know at each of its statements: the hotel, the invoice
\* and the date they read.
Fits(me) ==
    /\ me \in S!Session
    /\ me.pc \notin {"idle", "list", "suspend", "count"} => me.h \in Hotels
    /\ me.pc \in {"issue", "free", "create", "list", "suspend"} => me.from \in Dates
    /\ me.pc \in {"extend", "pay", "paid", "lift"} => me.end \in S!Times
    /\ me.pc \in {"pay", "paid", "lift", "link"} => me.n \in Invoices /\ inv[me.n] # S!NoInvoice
    /\ me.pc = "pay" => inv[me.n].hotel = me.h
    /\ me.pc = "suspend" => me.left \subseteq Hotels \X {S!NoTime}
    /\ me.pc \in {"issue", "free", "create", "extend", "count"} => me.left \subseteq Hotels \X Dates

\* The statements that only an operator's requests come to.
ByOperator(me) == me.pc \in {"approve", "reactivate"}

SubTyped ==
    /\ clock \in Dates
    /\ hotel \in [Hotels -> S!Hotel]
    /\ inv \in [Invoices -> S!Invoice \cup {S!NoInvoice}]
    /\ charged \subseteq Invoices \X (1 .. MaxLinks)
    /\ \A c \in charged : inv[c[1]] # S!NoInvoice
    /\ sess \in [S!Handlers -> S!Session]
    /\ \A s \in S!Handlers : Fits(sess[s]) /\ (ByOperator(sess[s]) => s \in Admins)
    /\ crashes \in 0 .. MaxCrashes /\ apart \in BOOLEAN

LEMMA IdleFits == Fits(S!Idle)
BY DEF Fits, S!Idle, S!Locals, S!Session, S!NoTime, S!Plans

LEMMA SubInit == ASSUME PlatformInit PROVE SubTyped
<1>1. S!Init
  BY DEF PlatformInit
<1>2. hotel \in [Hotels -> S!Hotel]
  <2> DEFINE it(p) == [status |-> "TRIAL", approved |-> FALSE, reason |-> "none", plan |-> p, end |-> S!NoTime]
  <2>1. \A p \in {"none", "free"} : it(p) \in S!Hotel
    BY DEF S!Hotel, S!Plans, S!NoTime
  <2>2. hotel \in [Hotels -> {it(p) : p \in {"none", "free"}}]
    BY <1>1 DEF S!Init
  <2> HIDE DEF it
  <2> QED
    BY <2>1, <2>2
<1>3. clock \in Dates /\ crashes \in 0 .. MaxCrashes
  BY <1>1, SubscriptionAssumption DEF S!Init, Dates
<1>4. Fits(S!Idle) /\ S!Idle \in S!Session
  BY IdleFits DEF Fits
<1>5. ~ ByOperator(S!Idle)
  BY DEF ByOperator, S!Idle, S!Locals
<1> QED
  BY <1>1, <1>2, <1>3, <1>4, <1>5 DEF S!Init, SubTyped

\* Days that are not beyond the horizon, and what is due after them.
LEMMA DatesAreTimes ==
  /\ Dates \subseteq S!Times
  /\ \A d \in Dates : d + Period \in S!Times /\ d + Grace \in S!Times
BY SubscriptionAssumption DEF Dates, S!Times

LEMMA IsInvoice ==
  ASSUME SubTyped, NEW n \in Invoices, inv[n] # S!NoInvoice
  PROVE  inv[n] \in S!Invoice
BY DEF SubTyped

-----------------------------------------------------------------------------
(* The invoices.                                                           *)

\* An invoice keeps its hotel, a paid one stays paid, and one that is overdue is that
\* until it is paid.
InvoicesKept ==
    /\ inv' \in [Invoices -> S!Invoice \cup {S!NoInvoice}]
    /\ \A n \in Invoices : inv[n] # S!NoInvoice =>
         /\ inv'[n] # S!NoInvoice /\ inv'[n].hotel = inv[n].hotel
         /\ inv[n].status = "PAID" => inv'[n].status = "PAID"
         /\ inv[n].status = "OVERDUE" => inv'[n].status \in {"OVERDUE", "PAID"}

LEMMA NoInvoiceRow == \A i \in S!Invoice : i # S!NoInvoice /\ i.status \in {"OPEN", "OVERDUE", "PAID"}
BY DEF S!Invoice, S!NoInvoice

LEMMA Creates ==
  ASSUME SubTyped, NEW s \in S!Handlers, S!IssueCreate(s)
  PROVE  InvoicesKept /\ \A n \in Invoices : inv[n] # S!NoInvoice => inv'[n] = inv[n]
<1>1. sess[s].pc = "create" /\ Fits(sess[s])
  BY DEF S!IssueCreate, S!At, SubTyped
<1>2. sess[s].h \in Hotels /\ sess[s].from \in Dates
  BY <1>1 DEF Fits
<1> DEFINE new == [hotel |-> sess[s].h, end |-> sess[s].from + Period,
                   due |-> sess[s].from + Grace, status |-> "OPEN", link |-> 0]
<1>3. new \in S!Invoice
  BY <1>2, DatesAreTimes, SubscriptionAssumption DEF S!Invoice
<1>4. inv' = inv \/ \E n \in Invoices \ S!Issued : inv' = [inv EXCEPT ![n] = new]
  BY DEF S!IssueCreate
<1> HIDE DEF new
<1> QED
  BY <1>3, <1>4, NoInvoiceRow DEF InvoicesKept, SubTyped, S!Issued

LEMMA Pays ==
  ASSUME SubTyped, NEW s \in S!Handlers, S!PayInvoice(s)
  PROVE  /\ InvoicesKept
         /\ \A n \in Invoices : inv[n] # S!NoInvoice /\ inv[n].hotel # sess[s].h => inv'[n] = inv[n]
<1> DEFINE m   == sess[s].n
           new == [inv[m] EXCEPT !.status = "PAID"]
<1>1. sess[s].pc = "pay" /\ Fits(sess[s]) /\ inv' = [inv EXCEPT ![m] = new]
  BY DEF S!PayInvoice, S!At, SubTyped
<1>2. m \in Invoices /\ inv[m] # S!NoInvoice /\ inv[m].hotel = sess[s].h
  BY <1>1 DEF Fits
<1>3. inv[m] \in S!Invoice
  BY <1>2, IsInvoice
<1>4. new \in S!Invoice /\ new.hotel = inv[m].hotel /\ new.status = "PAID"
  BY <1>3 DEF S!Invoice
<1> HIDE DEF new, m
<1> QED
  BY <1>1, <1>2, <1>4, NoInvoiceRow DEF InvoicesKept, SubTyped

LEMMA Links ==
  ASSUME SubTyped, NEW s \in S!Handlers, S!LinkWrite(s)
  PROVE  /\ InvoicesKept
         /\ \A n \in Invoices : inv[n] # S!NoInvoice => inv'[n].status = inv[n].status
<1> DEFINE m   == sess[s].n
           new == [inv[m] EXCEPT !.link = inv[m].link + 1]
<1>1. sess[s].pc = "link" /\ Fits(sess[s]) /\ inv' = [inv EXCEPT ![m] = new] /\ inv[m].link < MaxLinks
  BY DEF S!LinkWrite, S!At, SubTyped
<1>2. m \in Invoices /\ inv[m] # S!NoInvoice
  BY <1>1 DEF Fits
<1>3. inv[m] \in S!Invoice
  BY <1>2, IsInvoice
<1>4. inv[m].link + 1 \in 0 .. MaxLinks
  BY <1>1, <1>3, SubscriptionAssumption DEF S!Invoice
<1>5. new \in S!Invoice /\ new.hotel = inv[m].hotel /\ new.status = inv[m].status
  BY <1>3, <1>4 DEF S!Invoice
<1> HIDE DEF new, m
<1> QED
  BY <1>1, <1>2, <1>3, <1>5, NoInvoiceRow DEF InvoicesKept, SubTyped

LEMMA Sweeps ==
  ASSUME SubTyped, S!SweepMark
  PROVE  /\ InvoicesKept
         /\ \A n \in Invoices : inv[n] # S!NoInvoice /\ inv[n].status = "OVERDUE" => inv'[n] = inv[n]
<1> DEFINE late(n) == [inv[n] EXCEPT !.status = "OVERDUE"]
<1>1. inv' = [n \in Invoices |-> IF S!Late(n, clock) THEN late(n) ELSE inv[n]]
  BY DEF S!SweepMark
<1>2. ASSUME NEW n \in Invoices, S!Late(n, clock)
      PROVE  /\ inv[n] \in S!Invoice /\ inv[n].status = "OPEN"
             /\ late(n) \in S!Invoice /\ late(n).hotel = inv[n].hotel
  <2>1. inv[n] \in S!Invoice /\ inv[n].status = "OPEN"
    BY <1>2, IsInvoice DEF S!Late, S!Issued
  <2> QED
    BY <2>1 DEF S!Invoice
<1> HIDE DEF late
<1> QED
  BY <1>1, <1>2, NoInvoiceRow DEF InvoicesKept, SubTyped

LEMMA InvoicesStay ==
  ASSUME SubTyped, [S!Next]_S!vars
  PROVE  InvoicesKept
<1>1. CASE inv' = inv
  BY <1>1 DEF InvoicesKept, SubTyped
<1>2. ASSUME NEW s \in Admins, S!Request(s)
      PROVE  inv' = inv
  BY <1>2 DEF S!Request, S!ApproveRead, S!Suspend, S!ReactivateRead, S!Cancel, S!SetPlanRead, S!IssueByHand,
     S!PayRead, S!LinkRead
<1>3. ASSUME NEW s \in S!Handlers, S!Step(s)
      PROVE  \/ inv' = inv
             \/ S!IssueCreate(s) \/ S!PayInvoice(s) \/ S!LinkWrite(s)
  BY <1>3 DEF S!Step, S!ApproveWrite, S!ReactivateWrite, S!SetPlanWrite, S!IssueRead, S!IssueFree,
     S!IssueExtend, S!PayHotelRead, S!PayHotelWrite
<1>4. ASSUME S!SweepStep \/ S!WebhookPays \/ S!WebhookSkips \/ S!Tick \/ S!Crash \/ UNCHANGED S!vars
      PROVE  inv' = inv
  BY <1>4 DEF S!SweepStep, S!SweepList, S!SweepSuspend, S!SweepRoll, S!SweepCount, S!WebhookPays,
     S!WebhookSkips, S!Tick, S!Crash, S!vars
<1>5. ASSUME NEW n \in Invoices, NEW link \in 1 .. MaxLinks, S!Charge(n, link)
      PROVE  inv' = inv
  BY <1>5 DEF S!Charge
<1>6. \/ inv' = inv
      \/ \E s \in S!Handlers : S!IssueCreate(s) \/ S!PayInvoice(s) \/ S!LinkWrite(s)
      \/ S!SweepMark
  BY <1>2, <1>3, <1>4, <1>5, Zenon DEF S!Next
<1> QED
  BY <1>1, <1>6, Creates, Pays, Links, Sweeps

-----------------------------------------------------------------------------
(* The hotels.                                                             *)

\* Nobody is newly suspended for debt, and no suspension is lifted.
NoNewDebtor == \A h \in Hotels : S!ForDebt(h)' => S!ForDebt(h)

Lifted(h) == hotel[h].status = "SUSPENDED" /\ hotel'[h].status \in {"ACTIVE", "TRIAL"}

NoneLifted == \A h \in Hotels : ~ Lifted(h)

HotelsTyped == hotel \in [Hotels -> S!Hotel]

LEMMA OneHotel ==
  ASSUME SubTyped, NEW h \in Hotels, NEW it \in S!Hotel, hotel' = [hotel EXCEPT ![h] = it]
  PROVE  /\ HotelsTyped'
         /\ \A g \in Hotels \ {h} : (S!ForDebt(g)' <=> S!ForDebt(g)) /\ ~ Lifted(g)
         /\ S!ForDebt(h)' <=> it.status = "SUSPENDED" /\ it.reason = "subscription"
         /\ Lifted(h) <=> hotel[h].status = "SUSPENDED" /\ it.status \in {"ACTIVE", "TRIAL"}
<1>1. hotel \in [Hotels -> S!Hotel]
  BY DEF SubTyped
<1>2. hotel'[h] = it /\ \A g \in Hotels \ {h} : hotel'[g] = hotel[g]
  BY <1>1
<1> QED
  BY <1>1, <1>2 DEF HotelsTyped, S!ForDebt, Lifted

\* approve, reactivate.
LEMMA Opens ==
  ASSUME SubTyped, NEW s \in S!Handlers, S!ApproveWrite(s) \/ S!ReactivateWrite(s)
  PROVE  HotelsTyped' /\ NoNewDebtor
<1>1. sess[s].pc \in {"approve", "reactivate"} /\ Fits(sess[s])
  BY DEF S!ApproveWrite, S!ReactivateWrite, S!At, SubTyped
<1>2. sess[s].h \in Hotels /\ sess[s].plan \in S!Plans
  BY <1>1 DEF Fits, S!Session
<1>3. PICK h \in Hotels : h = sess[s].h
  BY <1>2
<1>4. hotel[h] \in S!Hotel
  BY DEF SubTyped
<1>5. CASE S!ApproveWrite(s)
  <2> DEFINE it == [hotel[h] EXCEPT !.status = "ACTIVE", !.approved = TRUE, !.reason = "none", !.plan = sess[s].plan]
  <2>1. hotel' = [hotel EXCEPT ![h] = it]
    BY <1>3, <1>5 DEF S!ApproveWrite
  <2>2. it \in S!Hotel /\ it.status = "ACTIVE"
    BY <1>2, <1>4 DEF S!Hotel
  <2> HIDE DEF it
  <2> QED
    BY <2>1, <2>2, OneHotel DEF NoNewDebtor
<1>6. CASE S!ReactivateWrite(s)
  <2> DEFINE st == IF sess[s].also THEN "ACTIVE" ELSE "TRIAL"
             it == [hotel[h] EXCEPT !.status = st, !.reason = "none"]
  <2>1. hotel' = [hotel EXCEPT ![h] = it]
    BY <1>3, <1>6 DEF S!ReactivateWrite
  <2>2. st \in {"ACTIVE", "TRIAL"}
    OBVIOUS
  <2> HIDE DEF st
  <2>3. it \in S!Hotel /\ it.status # "SUSPENDED"
    BY <2>2, <1>4 DEF S!Hotel
  <2> HIDE DEF it
  <2> QED
    BY <2>1, <2>3, OneHotel DEF NoNewDebtor
<1> QED
  BY <1>5, <1>6

\* suspend, for what an operator may say.
LEMMA Suspends ==
  ASSUME SubTyped, NEW s, S!Suspend(s)
  PROVE  HotelsTyped' /\ NoneLifted /\ ("subscription" \notin AdminReasons => NoNewDebtor)
<1>1. PICK h \in Hotels, reason \in AdminReasons :
         hotel' = [hotel EXCEPT ![h].status = "SUSPENDED", ![h].reason = reason]
  BY DEF S!Suspend
<1> DEFINE it == [hotel[h] EXCEPT !.status = "SUSPENDED", !.reason = reason]
<1>2. hotel[h] \in S!Hotel /\ hotel' = [hotel EXCEPT ![h] = it]
  BY <1>1 DEF SubTyped
<1>3. it \in S!Hotel /\ it.status = "SUSPENDED" /\ it.reason = reason
  BY <1>2, SubscriptionAssumption DEF S!Hotel
<1> HIDE DEF it
<1> QED
  BY <1>2, <1>3, OneHotel DEF NoNewDebtor, NoneLifted

\* cancel, setPlan and the dates of issueInvoice.
LEMMA Edits ==
  ASSUME SubTyped, NEW s, \/ S!Cancel(s)
                          \/ s \in S!Handlers /\ (S!SetPlanWrite(s) \/ S!IssueFree(s) \/ S!IssueExtend(s))
  PROVE  HotelsTyped' /\ NoNewDebtor /\ NoneLifted
<1>1. CASE S!Cancel(s)
  <2>1. PICK h \in Hotels : hotel' = [hotel EXCEPT ![h].status = "CANCELLED"]
    BY <1>1 DEF S!Cancel
  <2> DEFINE it == [hotel[h] EXCEPT !.status = "CANCELLED"]
  <2>2. hotel[h] \in S!Hotel /\ hotel' = [hotel EXCEPT ![h] = it]
    BY <2>1 DEF SubTyped
  <2>3. it \in S!Hotel /\ it.status = "CANCELLED"
    BY <2>2 DEF S!Hotel
  <2> HIDE DEF it
  <2> QED
    BY <2>2, <2>3, OneHotel DEF NoNewDebtor, NoneLifted
<1>2. CASE s \in S!Handlers /\ (S!SetPlanWrite(s) \/ S!IssueFree(s) \/ S!IssueExtend(s))
  <2>1. sess[s].pc \in {"setPlan", "free", "extend"} /\ Fits(sess[s])
    BY <1>2 DEF S!SetPlanWrite, S!IssueFree, S!IssueExtend, S!At, SubTyped
  <2>2. sess[s].h \in Hotels /\ sess[s].plan \in S!Plans /\ (sess[s].pc = "extend" => sess[s].end \in S!Times)
    BY <2>1 DEF Fits, S!Session
  <2>3. PICK h \in Hotels : h = sess[s].h
    BY <2>2
  <2>4. hotel[h] \in S!Hotel
    BY DEF SubTyped
  <2>5. ASSUME NEW it \in S!Hotel, it.status = hotel[h].status, it.reason = hotel[h].reason,
               hotel' = [hotel EXCEPT ![h] = it]
        PROVE  HotelsTyped' /\ NoNewDebtor /\ NoneLifted
    <3>1. /\ HotelsTyped'
          /\ \A g \in Hotels \ {h} : (S!ForDebt(g)' <=> S!ForDebt(g)) /\ ~ Lifted(g)
          /\ S!ForDebt(h)' <=> it.status = "SUSPENDED" /\ it.reason = "subscription"
          /\ Lifted(h) <=> hotel[h].status = "SUSPENDED" /\ it.status \in {"ACTIVE", "TRIAL"}
      BY <2>5, OneHotel
    <3>2. S!ForDebt(h)' <=> S!ForDebt(h)
      BY <2>5, <3>1 DEF S!ForDebt
    <3>3. ~ Lifted(h)
      BY <2>5, <3>1
    <3> QED
      BY <3>1, <3>2, <3>3 DEF NoNewDebtor, NoneLifted
  <2>6. CASE S!SetPlanWrite(s)
    <3> DEFINE it == [hotel[h] EXCEPT !.plan = sess[s].plan]
    <3>1. hotel' = [hotel EXCEPT ![h] = it]
      BY <2>3, <2>6 DEF S!SetPlanWrite
    <3>2. it \in S!Hotel /\ it.status = hotel[h].status /\ it.reason = hotel[h].reason
      BY <2>2, <2>4 DEF S!Hotel
    <3> QED
      BY <2>5, <3>1, <3>2
  <2>7. CASE S!IssueFree(s)
    <3> DEFINE it == [hotel[h] EXCEPT !.end = S!NoTime]
    <3>1. hotel' = [hotel EXCEPT ![h] = it]
      BY <2>3, <2>7 DEF S!IssueFree
    <3>2. it \in S!Hotel /\ it.status = hotel[h].status /\ it.reason = hotel[h].reason
      BY <2>4 DEF S!Hotel
    <3> QED
      BY <2>5, <3>1, <3>2
  <2>8. CASE S!IssueExtend(s)
    <3> DEFINE it == [hotel[h] EXCEPT !.end = sess[s].end]
    <3>1. hotel' = [hotel EXCEPT ![h] = it] /\ sess[s].pc = "extend"
      BY <2>3, <2>8 DEF S!IssueExtend, S!At
    <3>2. it \in S!Hotel /\ it.status = hotel[h].status /\ it.reason = hotel[h].reason
      BY <2>2, <2>4, <3>1 DEF S!Hotel
    <3> QED
      BY <2>5, <3>1, <3>2
  <2> QED
    BY <1>2, <2>6, <2>7, <2>8
<1> QED
  BY <1>1, <1>2

\* markPaid's second half: the one it read as suspended for debt is lifted.
LEMMA PaysHotel ==
  ASSUME SubTyped, NEW s \in S!Handlers, S!PayHotelWrite(s)
  PROVE  /\ HotelsTyped' /\ NoNewDebtor
         /\ \A h \in Hotels : Lifted(h) => h = sess[s].h /\ sess[s].also
         /\ \A h \in Hotels : h = sess[s].h /\ sess[s].also => ~ S!ForDebt(h)'
<1>1. sess[s].pc = "lift" /\ Fits(sess[s])
  BY DEF S!PayHotelWrite, S!At, SubTyped
<1>2. sess[s].h \in Hotels /\ sess[s].end \in S!Times
  BY <1>1 DEF Fits
<1>3. PICK h \in Hotels : h = sess[s].h
  BY <1>2
<1>4. hotel[h] \in S!Hotel
  BY DEF SubTyped
<1> DEFINE later == [hotel[h] EXCEPT !.end = sess[s].end]
           it    == IF sess[s].also THEN [later EXCEPT !.status = "ACTIVE", !.reason = "none"] ELSE later
<1>5. hotel' = [hotel EXCEPT ![h] = it]
  BY <1>3 DEF S!PayHotelWrite
<1>6. later \in S!Hotel /\ later.status = hotel[h].status /\ later.reason = hotel[h].reason
  BY <1>2, <1>4 DEF S!Hotel
<1> HIDE DEF later
<1>7. /\ it \in S!Hotel
      /\ sess[s].also => it.status = "ACTIVE"
      /\ ~ sess[s].also => it.status = hotel[h].status /\ it.reason = hotel[h].reason
  BY <1>6 DEF S!Hotel
<1> HIDE DEF it
<1>8. /\ HotelsTyped'
      /\ \A g \in Hotels \ {h} : (S!ForDebt(g)' <=> S!ForDebt(g)) /\ ~ Lifted(g)
      /\ S!ForDebt(h)' <=> it.status = "SUSPENDED" /\ it.reason = "subscription"
      /\ Lifted(h) <=> hotel[h].status = "SUSPENDED" /\ it.status \in {"ACTIVE", "TRIAL"}
  BY <1>5, <1>7, OneHotel
<1>9. NoNewDebtor /\ (sess[s].also => ~ S!ForDebt(h)')
  BY <1>7, <1>8 DEF NoNewDebtor, S!ForDebt
<1>10. \A g \in Hotels : Lifted(g) => g = h /\ sess[s].also
  BY <1>7, <1>8
<1> QED
  BY <1>3, <1>8, <1>9, <1>10

\* The sweep suspends one it has listed.
LEMMA SweepSuspends ==
  ASSUME SubTyped, S!SweepSuspend
  PROVE  /\ HotelsTyped' /\ NoneLifted
         /\ \A h \in Hotels : S!ForDebt(h)' => S!ForDebt(h) \/ \E l \in sess[Cron].left : l[1] = h
<1>1. PICK l \in sess[Cron].left :
         hotel' = [hotel EXCEPT ![l[1]].status = "SUSPENDED", ![l[1]].reason = "subscription"]
  BY DEF S!SweepSuspend
<1>2. Cron \in S!Handlers /\ sess[Cron].pc = "suspend"
  BY DEF S!SweepSuspend, S!At, S!Handlers
<1>3. l[1] \in Hotels
  BY <1>1, <1>2 DEF SubTyped, Fits
<1>4. PICK h \in Hotels : h = l[1]
  BY <1>3
<1> DEFINE it == [hotel[h] EXCEPT !.status = "SUSPENDED", !.reason = "subscription"]
<1>5. hotel[h] \in S!Hotel /\ hotel' = [hotel EXCEPT ![h] = it]
  BY <1>1, <1>4 DEF SubTyped
<1>6. it \in S!Hotel /\ it.status = "SUSPENDED"
  BY <1>5 DEF S!Hotel
<1> HIDE DEF it
<1> QED
  BY <1>4, <1>5, <1>6, OneHotel DEF NoneLifted

-----------------------------------------------------------------------------
(* The handlers.                                                           *)

\* Handler s goes on with what fits, and comes to approve and reactivate only as an
\* operator's request.
GoesOn(s) ==
    \E new : /\ Fits(new) /\ (ByOperator(new) => s \in Admins)
             /\ sess' = [sess EXCEPT ![s] = new]

\* What fits does so after a step.
LEMMA StillFits ==
  ASSUME SubTyped, InvoicesKept, NEW new, Fits(new)
  PROVE  Fits(new)'
BY DEF Fits, InvoicesKept

LEMMA OneGoesOn ==
  ASSUME SubTyped, InvoicesKept, NEW s \in S!Handlers, GoesOn(s)
  PROVE  /\ sess' \in [S!Handlers -> S!Session]
         /\ \A t \in S!Handlers : (Fits(sess[t]) /\ (ByOperator(sess[t]) => t \in Admins))'
<1>1. PICK new : /\ Fits(new) /\ (ByOperator(new) => s \in Admins)
                 /\ sess' = [sess EXCEPT ![s] = new]
  BY DEF GoesOn
<1>2. sess \in [S!Handlers -> S!Session] /\ new \in S!Session
  BY <1>1 DEF SubTyped, Fits
<1>3. \A t \in S!Handlers : sess'[t] = IF t = s THEN new ELSE sess[t]
  BY <1>1, <1>2
<1>4. Fits(new)' /\ \A t \in S!Handlers : Fits(sess[t]) /\ (ByOperator(sess[t]) => t \in Admins)
  BY <1>1, StillFits DEF SubTyped
<1>5. ASSUME NEW t \in S!Handlers PROVE Fits(sess[t])' /\ (ByOperator(sess[t])' => t \in Admins)
  <2>1. CASE t = s
    <3>1. Fits(sess[t])' <=> Fits(new)'
      BY <1>3, <2>1 DEF Fits
    <3>2. ByOperator(sess[t])' <=> ByOperator(new)
      BY <1>3, <2>1 DEF ByOperator
    <3> QED
      BY <1>1, <1>4, <2>1, <3>1, <3>2
  <2>2. CASE t # s
    <3>1. PICK old : old = sess[t]
      OBVIOUS
    <3>2. Fits(old)' /\ (ByOperator(old) => t \in Admins)
      BY <1>4, <3>1, StillFits
    <3>3. Fits(sess[t])' <=> Fits(old)'
      BY <1>3, <2>2, <3>1 DEF Fits
    <3>4. ByOperator(sess[t])' <=> ByOperator(old)
      BY <1>3, <2>2, <3>1 DEF ByOperator
    <3> QED
      BY <3>2, <3>3, <3>4
  <2> QED
    BY <2>1, <2>2
<1>6. sess' \in [S!Handlers -> S!Session]
  BY <1>1, <1>2
<1> QED
  BY <1>5, <1>6

LEMMA Finishes ==
  ASSUME NEW s, S!Finish(s)
  PROVE  GoesOn(s) /\ sess' = [sess EXCEPT ![s] = S!Idle]
<1>1. sess' = [sess EXCEPT ![s] = S!Idle]
  BY DEF S!Finish, S!Goto
<1>2. ~ ByOperator(S!Idle)
  BY DEF ByOperator, S!Idle, S!Locals
<1> HIDE DEF S!Idle
<1> QED
  BY <1>1, <1>2, IdleFits DEF GoesOn

LEMMA GoesTo ==
  ASSUME NEW s, NEW new, Fits(new), ByOperator(new) => s \in Admins, S!Goto(s, new)
  PROVE  GoesOn(s)
BY DEF GoesOn, S!Goto

\* The locals of a request.
LEMMA NewLocals ==
  ASSUME NEW h \in Hotels, NEW plan \in S!Plans, NEW n \in Invoices \cup {0}, NEW from \in S!Times \cup {S!NoTime},
         NEW end \in S!Times \cup {S!NoTime}, NEW also \in BOOLEAN
  PROVE  /\ Fits([S!Locals("approve", h) EXCEPT !.plan = plan])
         /\ Fits([S!Locals("reactivate", h) EXCEPT !.also = also])
         /\ Fits([S!Locals("setPlan", h) EXCEPT !.plan = plan, !.also = also])
         /\ from \in Dates => Fits([S!Locals("issue", h) EXCEPT !.from = from])
         /\ n \in Invoices /\ inv[n] # S!NoInvoice => Fits([S!Locals("link", h) EXCEPT !.n = n])
         /\ n \in Invoices /\ inv[n] # S!NoInvoice /\ inv[n].hotel = h /\ end \in S!Times =>
              Fits([S!Locals("pay", h) EXCEPT !.n = n, !.end = end])
<1>1. Fits([S!Locals("approve", h) EXCEPT !.plan = plan])
  BY DEF Fits, S!Locals, S!Session, S!NoTime
<1>2. Fits([S!Locals("reactivate", h) EXCEPT !.also = also])
  BY DEF Fits, S!Locals, S!Session, S!NoTime, S!Plans
<1>3. Fits([S!Locals("setPlan", h) EXCEPT !.plan = plan, !.also = also])
  BY DEF Fits, S!Locals, S!Session, S!NoTime
<1>4. from \in Dates => Fits([S!Locals("issue", h) EXCEPT !.from = from])
  BY DEF Fits, S!Locals, S!Session, S!NoTime, S!Plans
<1>5. n \in Invoices /\ inv[n] # S!NoInvoice => Fits([S!Locals("link", h) EXCEPT !.n = n])
  BY DEF Fits, S!Locals, S!Session, S!NoTime, S!Plans
<1>6. n \in Invoices /\ inv[n] # S!NoInvoice /\ inv[n].hotel = h /\ end \in S!Times =>
        Fits([S!Locals("pay", h) EXCEPT !.n = n, !.end = end])
  BY DEF Fits, S!Locals, S!Session, S!NoTime, S!Plans
<1> QED
  BY <1>1, <1>2, <1>3, <1>4, <1>5, <1>6

LEMMA NotByOperator ==
  ASSUME NEW h, NEW n, NEW from, NEW end, NEW also, NEW plan
  PROVE  /\ ~ ByOperator([S!Locals("setPlan", h) EXCEPT !.plan = plan, !.also = also])
         /\ ~ ByOperator([S!Locals("issue", h) EXCEPT !.from = from])
         /\ ~ ByOperator([S!Locals("link", h) EXCEPT !.n = n])
         /\ ~ ByOperator([S!Locals("pay", h) EXCEPT !.n = n, !.end = end])
BY DEF ByOperator, S!Locals

\* What an unpaid invoice that was read says.
LEMMA InvoiceRead ==
  ASSUME SubTyped, NEW n \in S!Issued
  PROVE  n \in Invoices /\ inv[n] # S!NoInvoice /\ inv[n].hotel \in Hotels /\ inv[n].end \in S!Times
BY DEF SubTyped, S!Issued, S!Invoice

LEMMA RequestGoesOn ==
  ASSUME SubTyped, NEW s \in Admins, S!Request(s)
  PROVE  sess' = sess \/ GoesOn(s)
<1>1. CASE S!ApproveRead(s)
  <2>1. PICK h \in Hotels : \E plan \in (Offers \cup {hotel[h].plan}) \ {"none"} :
           S!Goto(s, [S!Locals("approve", h) EXCEPT !.plan = plan])
    BY <1>1 DEF S!ApproveRead
  <2>2. PICK plan \in Offers \cup {hotel[h].plan} : S!Goto(s, [S!Locals("approve", h) EXCEPT !.plan = plan])
    BY <2>1
  <2>3. plan \in S!Plans
    BY <2>2, SubscriptionAssumption DEF S!Plans, SubTyped, S!Hotel
  <2>4. Fits([S!Locals("approve", h) EXCEPT !.plan = plan])
    BY <2>3 DEF Fits, S!Locals, S!Session, S!NoTime
  <2> QED
    BY <2>2, <2>4, GoesTo
<1>2. CASE S!ReactivateRead(s)
  <2>1. PICK h \in Hotels : S!Goto(s, [S!Locals("reactivate", h) EXCEPT !.also = hotel[h].approved])
    BY <1>2 DEF S!ReactivateRead
  <2>2. hotel[h].approved \in BOOLEAN
    BY DEF SubTyped, S!Hotel
  <2>3. Fits([S!Locals("reactivate", h) EXCEPT !.also = hotel[h].approved])
    BY <2>2 DEF Fits, S!Locals, S!Session, S!NoTime, S!Plans
  <2> QED
    BY <2>1, <2>3, GoesTo
<1>3. CASE S!SetPlanRead(s)
  <2>1. PICK h \in Hotels, plan \in Offers :
           S!Goto(s, [S!Locals("setPlan", h) EXCEPT !.plan = plan,
                !.also = hotel[h].status = "ACTIVE" /\ plan = "paid" /\ hotel[h].end = S!NoTime])
    BY <1>3 DEF S!SetPlanRead
  <2> DEFINE also == hotel[h].status = "ACTIVE" /\ plan = "paid" /\ hotel[h].end = S!NoTime
             new  == [S!Locals("setPlan", h) EXCEPT !.plan = plan, !.also = also]
  <2>2. plan \in S!Plans /\ also \in BOOLEAN
    BY SubscriptionAssumption DEF S!Plans
  <2>3. S!Goto(s, new)
    BY <2>1
  <2> HIDE DEF also
  <2>4. Fits(new) /\ ~ ByOperator(new)
    BY <2>2, NotByOperator DEF Fits, S!Locals, S!Session, S!NoTime
  <2> HIDE DEF new
  <2> QED
    BY <2>3, <2>4, GoesTo
<1>4. CASE S!IssueByHand(s)
  <2>1. PICK h \in Hotels : S!Goto(s, [S!Locals("issue", h) EXCEPT !.from = clock])
    BY <1>4 DEF S!IssueByHand
  <2>2. Fits([S!Locals("issue", h) EXCEPT !.from = clock])
    BY DatesAreTimes DEF SubTyped, Fits, S!Locals, S!Session, S!NoTime, S!Plans
  <2> QED
    BY <2>1, <2>2, GoesTo, NotByOperator
<1>5. CASE S!PayRead(s)
  <2>1. PICK n \in S!Issued : S!Goto(s, [S!Locals("pay", inv[n].hotel) EXCEPT !.n = n, !.end = inv[n].end])
    BY <1>5 DEF S!PayRead
  <2>2. Fits([S!Locals("pay", inv[n].hotel) EXCEPT !.n = n, !.end = inv[n].end])
    BY <2>1, InvoiceRead DEF Fits, S!Locals, S!Session, S!NoTime, S!Plans
  <2> QED
    BY <2>1, <2>2, GoesTo, NotByOperator
<1>6. CASE S!LinkRead(s)
  <2>1. PICK n \in S!Issued : S!Goto(s, [S!Locals("link", inv[n].hotel) EXCEPT !.n = n])
    BY <1>6 DEF S!LinkRead
  <2>2. Fits([S!Locals("link", inv[n].hotel) EXCEPT !.n = n])
    BY <2>1, InvoiceRead DEF Fits, S!Locals, S!Session, S!NoTime, S!Plans
  <2> QED
    BY <2>1, <2>2, GoesTo, NotByOperator
<1>7. CASE S!Suspend(s) \/ S!Cancel(s)
  BY <1>7 DEF S!Suspend, S!Cancel
<1> QED
  BY <1>1, <1>2, <1>3, <1>4, <1>5, <1>6, <1>7 DEF S!Request

LEMMA AfterIssueGoesOn ==
  ASSUME SubTyped, NEW s \in S!Handlers, sess[s].pc \in {"issue", "free", "create", "extend"}, S!AfterIssue(s)
  PROVE  GoesOn(s)
<1> DEFINE new == [sess[s] EXCEPT !.pc = "count"]
<1>1. S!Goto(s, new) \/ S!Finish(s)
  BY DEF S!AfterIssue
<1>2. Fits(new) /\ ~ ByOperator(new)
  BY DEF SubTyped, Fits, ByOperator, S!Session
<1> HIDE DEF new
<1> QED
  BY <1>1, <1>2, GoesTo, Finishes

LEMMA StepGoesOn ==
  ASSUME SubTyped, NEW s \in S!Handlers, S!Step(s)
  PROVE  GoesOn(s)
<1>0. sess[s] \in S!Session /\ Fits(sess[s])
  BY DEF SubTyped
<1>1. CASE S!ApproveWrite(s) \/ S!SetPlanWrite(s)
  <2>1. sess[s].h \in Hotels
    BY <1>0, <1>1 DEF S!ApproveWrite, S!SetPlanWrite, S!At, Fits
  <2>2. PICK h \in Hotels : h = sess[s].h
    BY <2>1
  <2>3. S!Finish(s) \/ S!Goto(s, [S!Locals("issue", h) EXCEPT !.from = clock])
    BY <1>1, <2>2 DEF S!ApproveWrite, S!SetPlanWrite
  <2>4. Fits([S!Locals("issue", h) EXCEPT !.from = clock])
    BY DatesAreTimes DEF SubTyped, Fits, S!Locals, S!Session, S!NoTime, S!Plans
  <2> QED
    BY <2>3, <2>4, GoesTo, Finishes, NotByOperator
<1>2. CASE S!ReactivateWrite(s) \/ S!LinkWrite(s) \/ S!PayHotelWrite(s)
  BY <1>2, Finishes DEF S!ReactivateWrite, S!LinkWrite, S!PayHotelWrite
<1>3. CASE S!IssueRead(s)
  <2>1. /\ sess[s].pc = "issue"
        /\ \/ S!AfterIssue(s)
           \/ S!Goto(s, [sess[s] EXCEPT !.pc = "free"])
           \/ S!Goto(s, [sess[s] EXCEPT !.pc = "create"])
    BY <1>3 DEF S!IssueRead, S!At
  <2>2. /\ Fits([sess[s] EXCEPT !.pc = "free"]) /\ Fits([sess[s] EXCEPT !.pc = "create"])
        /\ ~ ByOperator([sess[s] EXCEPT !.pc = "free"]) /\ ~ ByOperator([sess[s] EXCEPT !.pc = "create"])
    BY <1>0, <2>1 DEF Fits, ByOperator, S!Session
  <2> QED
    BY <2>1, <2>2, AfterIssueGoesOn, GoesTo
<1>4. CASE S!IssueFree(s) \/ S!IssueExtend(s)
  BY <1>4, AfterIssueGoesOn DEF S!IssueFree, S!IssueExtend, S!At
<1>5. CASE S!IssueCreate(s)
  <2> DEFINE new == [sess[s] EXCEPT !.pc = "extend", !.end = sess[s].from + Period]
  <2>1. sess[s].pc = "create" /\ (S!Goto(s, new) \/ S!Finish(s))
    BY <1>5 DEF S!IssueCreate, S!At
  <2>2. sess[s].from + Period \in S!Times
    BY <1>0, <2>1, DatesAreTimes DEF Fits
  <2>3. Fits(new) /\ ~ ByOperator(new)
    BY <1>0, <2>1, <2>2 DEF Fits, ByOperator, S!Session
  <2> HIDE DEF new
  <2> QED
    BY <2>1, <2>3, GoesTo, Finishes
<1>6. CASE S!PayInvoice(s)
  <2> DEFINE new == [sess[s] EXCEPT !.pc = "paid"]
  <2>1. sess[s].pc = "pay" /\ S!Goto(s, new)
    BY <1>6 DEF S!PayInvoice, S!At
  <2>2. Fits(new) /\ ~ ByOperator(new)
    BY <1>0, <2>1 DEF Fits, ByOperator, S!Session
  <2> HIDE DEF new
  <2> QED
    BY <2>1, <2>2, GoesTo
<1>7. CASE S!PayHotelRead(s)
  <2> DEFINE also == S!ForDebt(sess[s].h)
             end  == S!PaidThrough(sess[s].h, sess[s].end)
             new  == [sess[s] EXCEPT !.pc = "lift", !.also = also, !.end = end]
  <2>1. sess[s].pc = "paid" /\ S!Goto(s, new)
    BY <1>7 DEF S!PayHotelRead, S!At
  <2>2. sess[s].h \in Hotels /\ sess[s].end \in S!Times
    BY <1>0, <2>1 DEF Fits
  <2>3. also \in BOOLEAN
    BY DEF S!ForDebt
  <2>4. end \in S!Times
    <3>1. hotel[sess[s].h].end \in S!Times \cup {0}
      BY <2>2 DEF SubTyped, S!Hotel, S!NoTime
    <3> QED
      BY <2>2, <3>1 DEF S!PaidThrough, S!Times
  <2> HIDE DEF also, end
  <2>5. Fits(new) /\ ~ ByOperator(new)
    BY <1>0, <2>1, <2>3, <2>4 DEF Fits, ByOperator, S!Session
  <2> HIDE DEF new
  <2> QED
    BY <2>1, <2>5, GoesTo
<1> QED
  BY <1>1, <1>2, <1>3, <1>4, <1>5, <1>6, <1>7 DEF S!Step

LEMMA OthersGoOn ==
  ASSUME SubTyped, \/ S!WebhookPays \/ S!WebhookSkips \/ S!SweepMark \/ S!SweepStep \/ S!Tick
                   \/ \E n \in Invoices, link \in 1 .. MaxLinks : S!Charge(n, link)
  PROVE  sess' = sess \/ \E s \in {Cron, Gateway} : GoesOn(s)
<1>0. Fits(sess[Cron]) /\ sess[Cron] \in S!Session
  BY DEF SubTyped, S!Handlers
<1>1. CASE S!WebhookPays
  <2>1. PICK c \in charged : S!Goto(Gateway, [S!Locals("pay", inv[c[1]].hotel) EXCEPT !.n = c[1], !.end = inv[c[1]].end])
    BY <1>1 DEF S!WebhookPays
  <2>2. c[1] \in S!Issued
    BY <2>1 DEF SubTyped, S!Issued
  <2>3. PICK n \in S!Issued : n = c[1]
    BY <2>2
  <2>4. Fits([S!Locals("pay", inv[n].hotel) EXCEPT !.n = n, !.end = inv[n].end])
    BY InvoiceRead DEF Fits, S!Locals, S!Session, S!NoTime, S!Plans
  <2> QED
    BY <2>1, <2>3, <2>4, GoesTo, NotByOperator
<1>2. CASE S!SweepMark
  <2> DEFINE new == [S!Locals("list", "none") EXCEPT !.from = clock]
  <2>1. S!Goto(Cron, new)
    BY <1>2 DEF S!SweepMark
  <2>2. Fits(new) /\ ~ ByOperator(new)
    BY DatesAreTimes DEF SubTyped, Fits, ByOperator, S!Locals, S!Session, S!NoTime, S!Plans
  <2> HIDE DEF new
  <2> QED
    BY <2>1, <2>2, GoesTo
<1>3. CASE S!SweepList
  <2> DEFINE late == {h \in Hotels : hotel[h].status = "ACTIVE" /\ S!PastGrace(h, sess[Cron].from)} \X {S!NoTime}
             new  == [sess[Cron] EXCEPT !.pc = "suspend", !.left = late]
  <2>1. sess[Cron].pc = "list" /\ S!Goto(Cron, new)
    BY <1>3 DEF S!SweepList, S!At
  <2>2. late \subseteq Hotels \X {S!NoTime} /\ late \subseteq Hotels \X (S!Times \cup {S!NoTime})
    OBVIOUS
  <2> HIDE DEF late
  <2>3. Fits(new) /\ ~ ByOperator(new)
    BY <1>0, <2>1, <2>2 DEF Fits, ByOperator, S!Session
  <2> HIDE DEF new
  <2> QED
    BY <2>1, <2>3, GoesTo
<1>4. CASE S!SweepSuspend
  <2>1. PICK l \in sess[Cron].left : S!Goto(Cron, [sess[Cron] EXCEPT !.left = sess[Cron].left \ {l}])
    BY <1>4 DEF S!SweepSuspend
  <2> DEFINE rest == sess[Cron].left \ {l}
             new  == [sess[Cron] EXCEPT !.left = rest]
  <2>2. sess[Cron].pc = "suspend" /\ S!Goto(Cron, new)
    BY <1>4, <2>1 DEF S!SweepSuspend, S!At
  <2>3. rest \subseteq sess[Cron].left
    OBVIOUS
  <2> HIDE DEF rest
  <2>4. Fits(new) /\ ~ ByOperator(new)
    BY <1>0, <2>2, <2>3 DEF Fits, ByOperator, S!Session
  <2> HIDE DEF new
  <2> QED
    BY <2>2, <2>4, GoesTo
<1>5. CASE S!SweepRoll
  <2> DEFINE due  == {h \in Hotels : S!Ended(h, sess[Cron].from)}
             left == {<<h, hotel[h].end>> : h \in due}
             new  == [sess[Cron] EXCEPT !.pc = "count", !.left = left]
  <2>1. sess[Cron].pc = "suspend" /\ (S!Finish(Cron) \/ S!Goto(Cron, new))
    BY <1>5 DEF S!SweepRoll, S!At
  <2>2. sess[Cron].from \in Dates
    BY <1>0, <2>1 DEF Fits
  <2>3. \A h \in due : hotel[h].end \in Dates
    BY <2>2, SubscriptionAssumption DEF SubTyped, S!Hotel, S!Ended, S!NoTime, Dates, S!Times
  <2>4. left \subseteq Hotels \X Dates /\ left \subseteq Hotels \X (S!Times \cup {S!NoTime})
    BY <2>3, DatesAreTimes
  <2> HIDE DEF left
  <2>5. Fits(new) /\ ~ ByOperator(new)
    BY <1>0, <2>1, <2>4 DEF Fits, ByOperator, S!Session
  <2> HIDE DEF new
  <2> QED
    BY <2>1, <2>5, GoesTo, Finishes
<1>6. CASE S!SweepCount
  <2>1. PICK l \in sess[Cron].left :
          LET rest == [sess[Cron] EXCEPT !.h = l[1], !.from = l[2], !.left = sess[Cron].left \ {l}] IN
            S!Goto(Cron, [rest EXCEPT !.pc = "issue"]) \/ S!Finish(Cron) \/ S!Goto(Cron, rest)
    BY <1>6 DEF S!SweepCount
  <2> DEFINE left == sess[Cron].left \ {l}
             rest == [sess[Cron] EXCEPT !.h = l[1], !.from = l[2], !.left = left]
             next == [rest EXCEPT !.pc = "issue"]
  <2>2. sess[Cron].pc = "count"
    BY <1>6 DEF S!SweepCount, S!At
  <2>3. l[1] \in Hotels /\ l[2] \in Dates /\ l[2] \in S!Times
    BY <1>0, <2>2, DatesAreTimes DEF Fits
  <2>4. left \subseteq sess[Cron].left
    OBVIOUS
  <2>5. S!Goto(Cron, next) \/ S!Finish(Cron) \/ S!Goto(Cron, rest)
    BY <2>1
  <2> HIDE DEF left
  <2>6. Fits(rest) /\ ~ ByOperator(rest)
    BY <1>0, <2>2, <2>3, <2>4 DEF Fits, ByOperator, S!Session
  <2>7. Fits(next) /\ ~ ByOperator(next)
    BY <1>0, <2>2, <2>3, <2>4 DEF Fits, ByOperator, S!Session
  <2> HIDE DEF rest, next
  <2> QED
    BY <2>5, <2>6, <2>7, GoesTo, Finishes
<1>7. CASE S!WebhookSkips \/ S!Tick \/ \E n \in Invoices, link \in 1 .. MaxLinks : S!Charge(n, link)
  BY <1>7 DEF S!WebhookSkips, S!Tick, S!Charge
<1> QED
  BY <1>1, <1>2, <1>3, <1>4, <1>5, <1>6, <1>7 DEF S!SweepStep

\* The steps that write no hotel.
LEMMA HotelsStay ==
  ASSUME SubTyped, [S!Next]_S!vars
  PROVE  HotelsTyped'
<1>1. CASE hotel' = hotel
  BY <1>1 DEF HotelsTyped, SubTyped
<1>2. ASSUME NEW s \in Admins, S!Request(s)
      PROVE  hotel' = hotel \/ S!Suspend(s) \/ S!Cancel(s)
  BY <1>2 DEF S!Request, S!ApproveRead, S!ReactivateRead, S!SetPlanRead, S!IssueByHand, S!PayRead, S!LinkRead
<1>3. ASSUME NEW s \in S!Handlers, S!Step(s)
      PROVE  \/ hotel' = hotel
             \/ S!ApproveWrite(s) \/ S!ReactivateWrite(s) \/ S!SetPlanWrite(s) \/ S!IssueFree(s)
             \/ S!IssueExtend(s) \/ S!PayHotelWrite(s)
  BY <1>3 DEF S!Step, S!IssueRead, S!IssueCreate, S!LinkWrite, S!PayInvoice, S!PayHotelRead
<1>4. ASSUME \/ S!SweepMark \/ S!SweepList \/ S!SweepRoll \/ S!SweepCount
             \/ S!WebhookPays \/ S!WebhookSkips \/ S!Tick \/ S!Crash \/ UNCHANGED S!vars
             \/ \E n \in Invoices, link \in 1 .. MaxLinks : S!Charge(n, link)
      PROVE  hotel' = hotel
  BY <1>4 DEF S!SweepMark, S!SweepList, S!SweepRoll, S!SweepCount, S!WebhookPays,
     S!WebhookSkips, S!Tick, S!Crash, S!Charge, S!vars
<1>5. \/ hotel' = hotel
      \/ \E s \in Admins : S!Suspend(s) \/ S!Cancel(s)
      \/ \E s \in S!Handlers : \/ S!ApproveWrite(s) \/ S!ReactivateWrite(s) \/ S!SetPlanWrite(s) \/ S!IssueFree(s)
                               \/ S!IssueExtend(s) \/ S!PayHotelWrite(s)
      \/ S!SweepSuspend
  BY <1>2, <1>3, <1>4, Zenon DEF S!Next, S!SweepStep
<1> QED
  BY <1>1, <1>5, Suspends, Edits, Opens, PaysHotel, SweepSuspends

LEMMA SubTypedStep ==
  ASSUME SubTyped, [S!Next]_S!vars
  PROVE  SubTyped'
<1>1. InvoicesKept /\ hotel' \in [Hotels -> S!Hotel]
  BY InvoicesStay, HotelsStay DEF HotelsTyped
<1>2. /\ sess' \in [S!Handlers -> S!Session]
      /\ \A s \in S!Handlers : (Fits(sess[s]) /\ (ByOperator(sess[s]) => s \in Admins))'
  <2>1. Admins \subseteq S!Handlers /\ {Cron, Gateway} \subseteq S!Handlers
    BY DEF S!Handlers
  <2>2. CASE sess' = sess
    <3>1. ASSUME NEW s \in S!Handlers
          PROVE  (Fits(sess[s]) /\ (ByOperator(sess[s]) => s \in Admins))'
      <4>1. PICK me : me = sess[s]
        OBVIOUS
      <4>2. Fits(me)' /\ (ByOperator(me) => s \in Admins)
        BY <1>1, <4>1, StillFits DEF SubTyped
      <4>3. (Fits(sess[s])' <=> Fits(me)') /\ (ByOperator(sess[s])' <=> ByOperator(me))
        BY <2>2, <4>1 DEF Fits, ByOperator
      <4> QED
        BY <4>2, <4>3
    <3> QED
      BY <2>2, <3>1 DEF SubTyped
  <2>3. ASSUME NEW s \in S!Handlers, GoesOn(s)
        PROVE  /\ sess' \in [S!Handlers -> S!Session]
               /\ \A t \in S!Handlers : (Fits(sess[t]) /\ (ByOperator(sess[t]) => t \in Admins))'
    BY <1>1, <2>3, OneGoesOn
  <2>4. CASE S!Crash
    <3>1. sess' = [s \in S!Handlers |-> S!Idle]
      BY <2>4 DEF S!Crash
    <3>2. S!Idle \in S!Session /\ Fits(S!Idle)' /\ ~ ByOperator(S!Idle)
      BY <1>1, IdleFits, StillFits DEF Fits, ByOperator, S!Idle, S!Locals
    <3>3. \A s \in S!Handlers : (Fits(sess[s])' <=> Fits(S!Idle)') /\ (ByOperator(sess[s])' <=> ByOperator(S!Idle))
      BY <3>1 DEF Fits, ByOperator
    <3> HIDE DEF S!Idle
    <3> QED
      BY <3>1, <3>2, <3>3
  <2>5. \/ sess' = sess \/ S!Crash
        \/ \E s \in S!Handlers : GoesOn(s)
    <3>1. CASE UNCHANGED S!vars
      BY <3>1 DEF S!vars
    <3>2. ASSUME NEW s \in Admins, S!Request(s)
          PROVE  sess' = sess \/ \E t \in S!Handlers : GoesOn(t)
      BY <2>1, <3>2, RequestGoesOn
    <3>3. ASSUME NEW s \in S!Handlers, S!Step(s)
          PROVE  GoesOn(s)
      BY <3>3, StepGoesOn
    <3>4. ASSUME \/ S!WebhookPays \/ S!WebhookSkips \/ S!SweepMark \/ S!SweepStep \/ S!Tick
                 \/ \E n \in Invoices, link \in 1 .. MaxLinks : S!Charge(n, link)
          PROVE  sess' = sess \/ \E t \in S!Handlers : GoesOn(t)
      BY <2>1, <3>4, OthersGoOn
    <3> QED
      BY <3>1, <3>2, <3>3, <3>4, Zenon DEF S!Next
  <2> QED
    BY <2>2, <2>3, <2>4, <2>5
<1>3. clock' \in Dates /\ crashes' \in 0 .. MaxCrashes /\ apart' \in BOOLEAN
  <2>1. /\ clock' = clock \/ (clock < Horizon /\ clock' = clock + 1)
        /\ crashes' = crashes \/ (crashes < MaxCrashes /\ crashes' = crashes + 1)
    <3>1. CASE UNCHANGED S!vars
      BY <3>1 DEF S!vars
    <3>2. ASSUME NEW s \in Admins, S!Request(s)
          PROVE  UNCHANGED <<clock, crashes>>
      BY <3>2 DEF S!Request, S!ApproveRead, S!Suspend, S!ReactivateRead, S!Cancel, S!SetPlanRead, S!IssueByHand,
         S!PayRead, S!LinkRead
    <3>3. ASSUME NEW s \in S!Handlers, S!Step(s)
          PROVE  UNCHANGED <<clock, crashes>>
      BY <3>3 DEF S!Step, S!ApproveWrite, S!ReactivateWrite, S!SetPlanWrite, S!IssueRead, S!IssueFree,
         S!IssueCreate, S!IssueExtend, S!PayInvoice, S!PayHotelRead, S!PayHotelWrite, S!LinkWrite
    <3>4. ASSUME \/ S!SweepMark \/ S!SweepStep \/ S!WebhookPays \/ S!WebhookSkips
                 \/ \E n \in Invoices, link \in 1 .. MaxLinks : S!Charge(n, link)
          PROVE  UNCHANGED <<clock, crashes>>
      BY <3>4 DEF S!SweepMark, S!SweepStep, S!SweepList, S!SweepSuspend, S!SweepRoll, S!SweepCount, S!WebhookPays,
         S!WebhookSkips, S!Charge
    <3>5. ASSUME S!Tick \/ S!Crash
          PROVE  /\ clock' = clock \/ (clock < Horizon /\ clock' = clock + 1)
                 /\ crashes' = crashes \/ (crashes < MaxCrashes /\ crashes' = crashes + 1)
      BY <3>5 DEF S!Tick, S!Crash
    <3> QED
      BY <3>1, <3>2, <3>3, <3>4, <3>5, Zenon DEF S!Next
  <2>2. apart' \in BOOLEAN
    <3>1. CASE UNCHANGED S!vars
      BY <3>1 DEF S!vars, SubTyped
    <3>2. ASSUME NEW s \in Admins, S!Request(s)
          PROVE  apart' \in BOOLEAN
      BY <3>2 DEF S!Request, S!ApproveRead, S!Suspend, S!ReactivateRead, S!Cancel, S!SetPlanRead, S!IssueByHand,
         S!PayRead, S!LinkRead, S!Start
    <3>3. ASSUME NEW s \in S!Handlers, S!Step(s)
          PROVE  apart' = apart
      BY <3>3 DEF S!Step, S!ApproveWrite, S!ReactivateWrite, S!SetPlanWrite, S!IssueRead, S!IssueFree,
         S!IssueCreate, S!IssueExtend, S!PayInvoice, S!PayHotelRead, S!PayHotelWrite, S!LinkWrite
    <3>4. ASSUME S!SweepMark \/ S!WebhookPays \/ S!WebhookSkips \/ S!Crash
          PROVE  apart' \in BOOLEAN
      BY <3>4 DEF S!SweepMark, S!WebhookPays, S!WebhookSkips, S!Crash, S!Start
    <3>5. ASSUME \/ S!SweepStep \/ S!Tick
                 \/ \E n \in Invoices, link \in 1 .. MaxLinks : S!Charge(n, link)
          PROVE  apart' = apart
      BY <3>5 DEF S!SweepStep, S!SweepList, S!SweepSuspend, S!SweepRoll, S!SweepCount, S!Tick, S!Charge
    <3>6. apart \in BOOLEAN
      BY DEF SubTyped
    <3>7. apart' = apart => apart' \in BOOLEAN
      BY <3>6, Zenon
    <3> QED
      BY <3>1, <3>2, <3>3, <3>4, <3>5, <3>7, Zenon DEF S!Next
  <2> QED
    BY <2>1, <2>2, SubscriptionAssumption DEF SubTyped, Dates
<1>4. charged' \subseteq Invoices \X (1 .. MaxLinks) /\ \A c \in charged' : inv'[c[1]] # S!NoInvoice
  <2>1. ASSUME NEW n \in Invoices, NEW link \in 1 .. MaxLinks, S!Charge(n, link)
        PROVE  charged' = charged \cup {<<n, link>>} /\ inv[n] # S!NoInvoice
    BY <2>1 DEF S!Charge
  <2>2. ASSUME NEW s \in Admins, S!Request(s)
        PROVE  charged' = charged
    BY <2>2 DEF S!Request, S!ApproveRead, S!Suspend, S!ReactivateRead, S!Cancel, S!SetPlanRead, S!IssueByHand,
       S!PayRead, S!LinkRead
  <2>3. ASSUME NEW s \in S!Handlers, S!Step(s)
        PROVE  charged' = charged
    BY <2>3 DEF S!Step, S!ApproveWrite, S!ReactivateWrite, S!SetPlanWrite, S!IssueRead, S!IssueFree,
       S!IssueCreate, S!IssueExtend, S!PayInvoice, S!PayHotelRead, S!PayHotelWrite, S!LinkWrite
  <2>4. ASSUME S!SweepMark \/ S!SweepStep \/ S!WebhookPays \/ S!Tick \/ S!Crash \/ UNCHANGED S!vars
        PROVE  charged' = charged
    BY <2>4 DEF S!SweepMark, S!SweepStep, S!SweepList, S!SweepSuspend, S!SweepRoll, S!SweepCount, S!WebhookPays,
       S!Tick, S!Crash, S!vars
  <2>5. ASSUME S!WebhookSkips
        PROVE  charged' \subseteq charged
    BY <2>5 DEF S!WebhookSkips
  <2>6. \/ charged' \subseteq charged
        \/ \E n \in Invoices, link \in 1 .. MaxLinks : charged' = charged \cup {<<n, link>>} /\ inv[n] # S!NoInvoice
    <3>1. charged' = charged => charged' \subseteq charged
      OBVIOUS
    <3> QED
      BY <2>1, <2>2, <2>3, <2>4, <2>5, <3>1, Zenon DEF S!Next
  <2> QED
    BY <1>1, <2>6 DEF SubTyped, InvoicesKept
<1> QED
  BY <1>1, <1>2, <1>3, <1>4 DEF SubTyped, InvoicesKept

LEMMA SubscriptionMoves == ASSUME [PlatformNext]_platformVars PROVE [S!Next]_S!vars
BY DEF PlatformNext, GateStep, SubscriptionStep, AccountsStep, GatewayStep, platformVars, subscription, S!vars

LEMMA SubTypedHolds == PlatformSpec => []SubTyped
<1>1. PlatformInit => SubTyped
  BY SubInit
<1>2. SubTyped /\ [PlatformNext]_platformVars => SubTyped'
  BY SubscriptionMoves, SubTypedStep
<1> QED
  BY <1>1, <1>2, PTL DEF PlatformSpec

\* A paid invoice stays paid, whatever races with the sweep: markPaid, the webhook and
\* the daily sweep, for any number of hotels, invoices and operators.
THEOREM PaidStaysPaid == PlatformSpec => PaidIsFinal
<1>1. ASSUME SubTyped, [PlatformNext]_platformVars
      PROVE  [\A n \in Invoices : inv[n].status = "PAID" => inv'[n].status = "PAID"]_S!vars
  <2>1. InvoicesKept
    BY <1>1, SubscriptionMoves, InvoicesStay
  <2>2. \A n \in Invoices : inv[n].status = "PAID" => inv[n] # S!NoInvoice
    BY DEF S!NoInvoice
  <2> QED
    BY <2>1, <2>2 DEF InvoicesKept
<1> QED
  BY <1>1, SubTypedHolds, PTL DEF PlatformSpec, PaidIsFinal, S!PaidIsFinal


-----------------------------------------------------------------------------
(* Suspensions.                                                            *)

\* The hotel has an invoice that is overdue.
Owing(h) == \E n \in S!Issued : inv[n].hotel = h /\ inv[n].status = "OVERDUE"

\* A payment of the hotel is between its invoice and its hotel, and will lift it.
WillLift(h) == \E s \in S!Handlers :
    /\ sess[s].h = h
    /\ sess[s].pc = "paid" \/ (sess[s].pc = "lift" /\ sess[s].also)

\* While handlers kept apart: one is busy, who is suspended for debt owes or is about to
\* be lifted, the sweep suspends who owes, and a payment lifts who is suspended for debt.
ApartInv == apart =>
    /\ \A s, t \in S!Busy : s = t
    /\ \A h \in Hotels : S!ForDebt(h) => Owing(h) \/ WillLift(h)
    /\ \A s \in S!Handlers : sess[s].pc = "suspend" => \A l \in sess[s].left : Owing(l[1])
    /\ \A s \in S!Handlers : sess[s].pc = "lift" /\ sess[s].also => S!ForDebt(sess[s].h)

\* An invoice that is overdue stays so, except the one that is paid.
LEMMA OwingStays ==
  ASSUME SubTyped, NEW h,
         \A n \in Invoices : inv[n] # S!NoInvoice /\ inv[n].hotel = h /\ inv[n].status = "OVERDUE" =>
            inv'[n] # S!NoInvoice /\ inv'[n].hotel = h /\ inv'[n].status = "OVERDUE",
         Owing(h)
  PROVE  Owing(h)'
BY DEF Owing, S!Issued

LEMMA IdleIsIdle == S!Idle.pc = "idle"
BY DEF S!Idle, S!Locals

\* A handler at a statement is busy.
LEMMA AtIsBusy == ASSUME NEW s \in S!Handlers, sess[s].pc # "idle" PROVE s \in S!Busy
BY IdleIsIdle DEF S!Busy

\* The step of a handler begins with no other busy, and ends at a statement where it has
\* nothing to suspend or to lift.
LEMMA QuietApart ==
  ASSUME SubTyped, ApartInv, apart, NEW s \in S!Handlers, S!Busy \subseteq {s},
         sess[s].pc \notin {"paid", "lift"}, \A t \in S!Handlers \ {s} : sess'[t] = sess[t],
         sess'[s].pc \notin {"suspend", "lift"}, NoNewDebtor,
         \A n \in Invoices : inv[n] # S!NoInvoice /\ inv[n].status = "OVERDUE" =>
            inv'[n] # S!NoInvoice /\ inv'[n].hotel = inv[n].hotel /\ inv'[n].status = "OVERDUE"
  PROVE  ApartInv'
<1>1. \A t \in S!Handlers \ {s} : sess[t] = S!Idle /\ sess'[t] = S!Idle
  BY DEF S!Busy
<1>2. \A t \in S!Handlers \ {s} : sess[t].pc = "idle" /\ sess'[t].pc = "idle"
  BY <1>1, IdleIsIdle
<1>3. \A t, u \in S!Busy' : t = u
  BY <1>1 DEF S!Busy, S!Handlers
<1>4. \A h \in Hotels : ~ WillLift(h)
  BY <1>2 DEF WillLift
<1>5. \A h \in Hotels : S!ForDebt(h)' => Owing(h)'
  BY <1>4, OwingStays DEF NoNewDebtor, ApartInv
<1> QED
  BY <1>2, <1>3, <1>5 DEF ApartInv, S!Handlers

\* A request begins when no handler is busy, while they keep apart.
LEMMA RequestApart ==
  ASSUME SubTyped, ApartInv, "subscription" \notin AdminReasons, NEW s \in Admins, S!Request(s)
  PROVE  ApartInv'
<1> SUFFICES ASSUME apart'
             PROVE  ApartInv'
  BY DEF ApartInv
<1>1. apart /\ S!Busy = {}
  BY DEF S!Request, S!ApproveRead, S!Suspend, S!ReactivateRead, S!Cancel, S!SetPlanRead, S!IssueByHand,
     S!PayRead, S!LinkRead, S!Start
<1>2. s \in S!Handlers
  BY DEF S!Handlers
<1>3. sess[s].pc = "idle"
  BY <1>1, <1>2, IdleIsIdle DEF S!Busy
<1>4. NoNewDebtor
  <2>1. hotel' = hotel => NoNewDebtor
    BY DEF NoNewDebtor, S!ForDebt
  <2>2. hotel' = hotel \/ S!Suspend(s) \/ S!Cancel(s)
    BY DEF S!Request, S!ApproveRead, S!ReactivateRead, S!SetPlanRead, S!IssueByHand, S!PayRead, S!LinkRead
  <2> QED
    BY <2>1, <2>2, Suspends, Edits
<1>5. inv' = inv
  BY DEF S!Request, S!ApproveRead, S!Suspend, S!ReactivateRead, S!Cancel, S!SetPlanRead, S!IssueByHand,
     S!PayRead, S!LinkRead
<1>6. sess \in [S!Handlers -> S!Session]
  BY DEF SubTyped
<1>7. (\A t \in S!Handlers \ {s} : sess'[t] = sess[t]) /\ sess'[s].pc \notin {"suspend", "lift"}
  <2>1. CASE S!Suspend(s) \/ S!Cancel(s)
    BY <1>3, <2>1 DEF S!Suspend, S!Cancel
  <2>2. CASE S!ApproveRead(s)
    BY <1>2, <1>6, <2>2 DEF S!ApproveRead, S!Goto, S!Locals
  <2>3. CASE S!ReactivateRead(s)
    BY <1>2, <1>6, <2>3 DEF S!ReactivateRead, S!Goto, S!Locals
  <2>4. CASE S!SetPlanRead(s)
    BY <1>2, <1>6, <2>4 DEF S!SetPlanRead, S!Goto, S!Locals
  <2>5. CASE S!IssueByHand(s)
    BY <1>2, <1>6, <2>5 DEF S!IssueByHand, S!Goto, S!Locals
  <2>6. CASE S!PayRead(s)
    BY <1>2, <1>6, <2>6 DEF S!PayRead, S!Goto, S!Locals
  <2>7. CASE S!LinkRead(s)
    BY <1>2, <1>6, <2>7 DEF S!LinkRead, S!Goto, S!Locals
  <2> QED
    BY <2>1, <2>2, <2>3, <2>4, <2>5, <2>6, <2>7 DEF S!Request
<1> QED
  BY <1>1, <1>2, <1>3, <1>4, <1>5, <1>7, QuietApart

\* So do the webhook and the sweep.
LEMMA StartApart ==
  ASSUME SubTyped, ApartInv, S!WebhookPays \/ S!WebhookSkips \/ S!SweepMark
  PROVE  ApartInv'
<1> SUFFICES ASSUME apart'
             PROVE  ApartInv'
  BY DEF ApartInv
<1>1. apart /\ S!Busy = {} /\ hotel' = hotel
  BY DEF S!WebhookPays, S!WebhookSkips, S!SweepMark, S!Start
<1>2. Cron \in S!Handlers /\ Gateway \in S!Handlers /\ sess \in [S!Handlers -> S!Session]
  BY DEF S!Handlers, SubTyped
<1>3. \A s \in S!Handlers : sess[s].pc = "idle"
  BY <1>1, IdleIsIdle DEF S!Busy
<1>4. NoNewDebtor
  BY <1>1 DEF NoNewDebtor, S!ForDebt
<1>5. \A n \in Invoices : inv[n] # S!NoInvoice /\ inv[n].status = "OVERDUE" => inv'[n] = inv[n]
  <2>1. CASE inv' = inv
    BY <2>1
  <2> QED
    BY <2>1, Sweeps DEF S!WebhookPays, S!WebhookSkips
<1>6. \E s \in S!Handlers : (\A t \in S!Handlers \ {s} : sess'[t] = sess[t]) /\ sess'[s].pc \notin {"suspend", "lift"}
  <2>1. CASE S!WebhookPays
    <3>1. (\A t \in S!Handlers \ {Gateway} : sess'[t] = sess[t]) /\ sess'[Gateway].pc = "pay"
      BY <1>2, <2>1 DEF S!WebhookPays, S!Goto, S!Locals
    <3> QED
      BY <1>2, <3>1
  <2>2. CASE S!WebhookSkips
    BY <1>2, <1>3, <2>2 DEF S!WebhookSkips
  <2>3. CASE S!SweepMark
    <3>1. (\A t \in S!Handlers \ {Cron} : sess'[t] = sess[t]) /\ sess'[Cron].pc = "list"
      BY <1>2, <2>3 DEF S!SweepMark, S!Goto, S!Locals
    <3> QED
      BY <1>2, <3>1
  <2> QED
    BY <2>1, <2>2, <2>3
<1>7. PICK s \in S!Handlers : (\A t \in S!Handlers \ {s} : sess'[t] = sess[t]) /\ sess'[s].pc \notin {"suspend", "lift"}
  BY <1>6
<1>8. sess[s].pc \notin {"paid", "lift"}
  BY <1>3
<1>9. \A n \in Invoices : inv[n] # S!NoInvoice /\ inv[n].status = "OVERDUE" =>
        inv'[n] # S!NoInvoice /\ inv'[n].hotel = inv[n].hotel /\ inv'[n].status = "OVERDUE"
  BY <1>5
<1> QED
  BY <1>1, <1>4, <1>7, <1>8, <1>9, QuietApart

\* Where a handler is after it went on.
LEMMA WentTo ==
  ASSUME SubTyped, NEW s \in S!Handlers, NEW new, S!Goto(s, new)
  PROVE  sess'[s] = new /\ \A t \in S!Handlers \ {s} : sess'[t] = sess[t]
BY DEF SubTyped, S!Goto

LEMMA WentOn ==
  ASSUME NEW me \in S!Session, NEW pc, NEW end, NEW h, NEW from
  PROVE  /\ [me EXCEPT !.pc = pc].pc = pc /\ [me EXCEPT !.pc = pc].h = me.h
         /\ [me EXCEPT !.pc = pc, !.end = end].pc = pc
         /\ [S!Locals(pc, h) EXCEPT !.from = from].pc = pc
BY DEF S!Session, S!Locals

\* The handler that is busy goes on alone.
LEMMA StepApart ==
  ASSUME SubTyped, ApartInv, NEW s \in S!Handlers, S!Step(s)
  PROVE  ApartInv'
<1>0. apart' = apart
  BY DEF S!Step, S!ApproveWrite, S!ReactivateWrite, S!SetPlanWrite, S!IssueRead, S!IssueFree,
     S!IssueCreate, S!IssueExtend, S!PayInvoice, S!PayHotelRead, S!PayHotelWrite, S!LinkWrite
<1> SUFFICES ASSUME apart
             PROVE  ApartInv'
  BY <1>0 DEF ApartInv
<1>1. sess \in [S!Handlers -> S!Session] /\ Fits(sess[s])
  BY DEF SubTyped
<1>2. sess[s].pc # "idle"
  BY DEF S!Step, S!ApproveWrite, S!ReactivateWrite, S!SetPlanWrite, S!IssueRead, S!IssueFree,
     S!IssueCreate, S!IssueExtend, S!PayInvoice, S!PayHotelRead, S!PayHotelWrite, S!LinkWrite, S!At
<1>3. S!Busy \subseteq {s}
  BY <1>2, AtIsBusy DEF ApartInv
<1>4. \A t \in S!Handlers \ {s} : sess[t] = S!Idle /\ sess[t].pc = "idle"
  BY <1>3, IdleIsIdle DEF S!Busy
<1>6. S!Finish(s) => sess'[s].pc = "idle" /\ \A t \in S!Handlers \ {s} : sess'[t] = sess[t]
  BY WentTo, IdleIsIdle DEF S!Finish
<1>7. CASE \/ S!ApproveWrite(s) \/ S!ReactivateWrite(s) \/ S!SetPlanWrite(s) \/ S!IssueRead(s)
           \/ S!IssueFree(s) \/ S!IssueCreate(s) \/ S!IssueExtend(s) \/ S!LinkWrite(s)
  <2>1. sess[s].pc \notin {"paid", "lift"}
    BY <1>7 DEF S!ApproveWrite, S!ReactivateWrite, S!SetPlanWrite, S!IssueRead, S!IssueFree,
       S!IssueCreate, S!IssueExtend, S!LinkWrite, S!At
  <2>2. (\A t \in S!Handlers \ {s} : sess'[t] = sess[t]) /\ sess'[s].pc \notin {"suspend", "lift"}
    <3>1. \A new : S!Goto(s, new) /\ new.pc \notin {"suspend", "lift"} =>
            (\A t \in S!Handlers \ {s} : sess'[t] = sess[t]) /\ sess'[s].pc \notin {"suspend", "lift"}
      BY WentTo
    <3>2. PICK issue, free, create, count, extend :
            /\ issue = [S!Locals("issue", sess[s].h) EXCEPT !.from = clock]
            /\ free = [sess[s] EXCEPT !.pc = "free"] /\ create = [sess[s] EXCEPT !.pc = "create"]
            /\ count = [sess[s] EXCEPT !.pc = "count"]
            /\ extend = [sess[s] EXCEPT !.pc = "extend", !.end = sess[s].from + Period]
      OBVIOUS
    <3>3. /\ issue.pc = "issue" /\ free.pc = "free" /\ create.pc = "create" /\ count.pc = "count"
          /\ extend.pc = "extend"
      BY <1>1, <3>2, WentOn
    <3>4. S!AfterIssue(s) => S!Goto(s, count) \/ S!Finish(s)
      BY <3>2 DEF S!AfterIssue
    <3>5. \/ S!Finish(s) \/ S!Goto(s, issue) \/ S!Goto(s, free) \/ S!Goto(s, create)
          \/ S!Goto(s, extend) \/ S!Goto(s, count)
      BY <1>7, <3>2, <3>4, Zenon DEF S!ApproveWrite, S!SetPlanWrite, S!ReactivateWrite, S!LinkWrite, S!IssueRead,
         S!IssueFree, S!IssueExtend, S!IssueCreate
    <3> QED
      BY <1>6, <3>1, <3>3, <3>5
  <2>3. NoNewDebtor
    <3>1. hotel' = hotel => NoNewDebtor
      BY DEF NoNewDebtor, S!ForDebt
    <3> QED
      BY <1>7, <3>1, Opens, Edits DEF S!IssueRead, S!IssueCreate, S!LinkWrite
  <2>4. \A n \in Invoices : inv[n] # S!NoInvoice /\ inv[n].status = "OVERDUE" =>
          inv'[n] # S!NoInvoice /\ inv'[n].hotel = inv[n].hotel /\ inv'[n].status = "OVERDUE"
    <3>1. CASE inv' = inv
      BY <3>1
    <3>2. CASE S!IssueCreate(s)
      BY <3>2, Creates
    <3>3. CASE S!LinkWrite(s)
      BY <3>3, Links DEF InvoicesKept
    <3> QED
      BY <1>7, <3>1, <3>2, <3>3 DEF S!ApproveWrite, S!ReactivateWrite, S!SetPlanWrite, S!IssueRead, S!IssueFree,
         S!IssueExtend
  <2> QED
    BY <1>3, <2>1, <2>2, <2>3, <2>4, QuietApart
\* What holds of the others before and after.
<1>8. ASSUME \A t \in S!Handlers \ {s} : sess'[t] = sess[t]
      PROVE  /\ \A t, u \in S!Busy' : t = u
             /\ \A t \in S!Handlers \ {s} : sess'[t].pc = "idle"
             /\ \A h : WillLift(h) => sess[s].h = h
  BY <1>4, <1>8 DEF S!Busy, S!Handlers, WillLift
<1>9. CASE S!PayInvoice(s)
  <2> DEFINE new == [sess[s] EXCEPT !.pc = "paid"]
  <2>1. sess[s].pc = "pay" /\ S!Goto(s, new) /\ hotel' = hotel
    BY <1>9 DEF S!PayInvoice, S!At
  <2>2. sess'[s].pc = "paid" /\ sess'[s].h = sess[s].h /\ \A t \in S!Handlers \ {s} : sess'[t] = sess[t]
    <3>1. new.pc = "paid" /\ new.h = sess[s].h
      BY <1>1, WentOn
    <3> HIDE DEF new
    <3> QED
      BY <2>1, <3>1, WentTo
  <2>3. /\ \A t, u \in S!Busy' : t = u
        /\ \A t \in S!Handlers \ {s} : sess'[t].pc = "idle"
    BY <1>8, <2>2
  <2>4. \A h \in Hotels : ~ WillLift(h)
    BY <1>4, <2>1 DEF WillLift
  <2>5. ASSUME NEW h \in Hotels, S!ForDebt(h)'
        PROVE  (Owing(h) \/ WillLift(h))'
    <3>1. Owing(h)
      BY <2>1, <2>4, <2>5 DEF ApartInv, S!ForDebt
    <3>2. CASE h = sess[s].h
      BY <2>2, <3>2 DEF WillLift, S!Handlers
    <3>3. CASE h # sess[s].h
      <4>1. \A n \in Invoices : inv[n] # S!NoInvoice /\ inv[n].hotel # sess[s].h => inv'[n] = inv[n]
        BY <1>9, Pays
      <4>2. Owing(h)'
        BY <3>1, <3>3, <4>1, OwingStays
      <4> QED
        BY <4>2
    <3> QED
      BY <3>2, <3>3
  <2> QED
    BY <2>2, <2>3, <2>5 DEF ApartInv, S!Handlers
<1>10. CASE S!PayHotelRead(s)
  <2> DEFINE also == S!ForDebt(sess[s].h)
             end  == S!PaidThrough(sess[s].h, sess[s].end)
             new  == [sess[s] EXCEPT !.pc = "lift", !.also = also, !.end = end]
  <2>1. sess[s].pc = "paid" /\ S!Goto(s, new) /\ UNCHANGED <<hotel, inv>>
    BY <1>10 DEF S!PayHotelRead, S!At
  <2> HIDE DEF also, end
  <2>2. sess'[s].pc = "lift" /\ sess'[s].h = sess[s].h /\ sess'[s].also = also
        /\ \A t \in S!Handlers \ {s} : sess'[t] = sess[t]
    <3>1. new.pc = "lift" /\ new.h = sess[s].h /\ new.also = also
      BY <1>1 DEF S!Session
    <3> HIDE DEF new
    <3> QED
      BY <2>1, <3>1, WentTo
  <2>3. /\ \A t, u \in S!Busy' : t = u
        /\ \A t \in S!Handlers \ {s} : sess'[t].pc = "idle"
        /\ \A h : WillLift(h) => sess[s].h = h
    BY <1>8, <2>2
  <2>4. ASSUME NEW h \in Hotels, S!ForDebt(h)'
        PROVE  (Owing(h) \/ WillLift(h))'
    <3>1. S!ForDebt(h) /\ (Owing(h) \/ h = sess[s].h)
      BY <2>1, <2>3, <2>4 DEF ApartInv, S!ForDebt
    <3>2. Owing(h) => Owing(h)'
      BY <2>1 DEF Owing, S!Issued
    <3>3. h = sess[s].h => WillLift(h)'
      <4>1. h = sess[s].h => sess'[s].also
        BY <2>2, <3>1 DEF also
      <4> QED
        BY <2>2, <4>1 DEF WillLift, S!Handlers
    <3> QED
      BY <3>1, <3>2, <3>3
  <2>5. sess'[s].also => S!ForDebt(sess[s].h)'
    <3>1. sess'[s].also => S!ForDebt(sess[s].h)
      BY <2>2 DEF also
    <3> QED
      BY <2>1, <2>2, <3>1 DEF S!ForDebt
  <2> QED
    BY <2>2, <2>3, <2>4, <2>5 DEF ApartInv, S!Handlers
<1>11. CASE S!PayHotelWrite(s)
  <2>1. sess[s].pc = "lift" /\ S!Finish(s) /\ inv' = inv
    BY <1>11 DEF S!PayHotelWrite, S!At
  <2>2. sess'[s].pc = "idle" /\ \A t \in S!Handlers \ {s} : sess'[t] = sess[t]
    BY <1>6, <2>1
  <2>3. /\ \A t, u \in S!Busy' : t = u
        /\ \A t \in S!Handlers \ {s} : sess'[t].pc = "idle"
    BY <1>8, <2>2
  <2>4. NoNewDebtor /\ \A h \in Hotels : h = sess[s].h /\ sess[s].also => ~ S!ForDebt(h)'
    BY <1>11, PaysHotel
  <2>5. ASSUME NEW h \in Hotels, S!ForDebt(h)'
        PROVE  Owing(h)'
    <3>1. S!ForDebt(h)
      BY <2>4, <2>5 DEF NoNewDebtor
    <3>2. ~ WillLift(h)
      BY <1>4, <2>1, <2>4, <2>5 DEF WillLift
    <3> QED
      BY <2>1, <3>1, <3>2 DEF ApartInv, Owing, S!Issued
  <2> QED
    BY <2>2, <2>3, <2>5 DEF ApartInv, S!Handlers
<1> QED
  BY <1>7, <1>9, <1>10, <1>11 DEF S!Step

\* So does the sweep: it lists who owes, and suspends who is listed.
LEMMA SweepApart ==
  ASSUME SubTyped, ApartInv, S!SweepStep
  PROVE  ApartInv'
<1>0. apart' = apart /\ inv' = inv /\ Cron \in S!Handlers
  BY DEF S!SweepStep, S!SweepList, S!SweepSuspend, S!SweepRoll, S!SweepCount, S!Handlers
<1> SUFFICES ASSUME apart
             PROVE  ApartInv'
  BY <1>0 DEF ApartInv
<1>1. sess[Cron] \in S!Session
  BY <1>0 DEF SubTyped
<1>2. sess[Cron].pc \in {"list", "suspend", "count"}
  BY DEF S!SweepStep, S!SweepList, S!SweepSuspend, S!SweepRoll, S!SweepCount, S!At
<1>3. S!Busy \subseteq {Cron}
  BY <1>0, <1>2, AtIsBusy DEF ApartInv
<1>4. \A t \in S!Handlers \ {Cron} : sess[t] = S!Idle /\ sess[t].pc = "idle"
  BY <1>3, IdleIsIdle DEF S!Busy
<1>5. \A h \in Hotels : ~ WillLift(h)
  BY <1>2, <1>4 DEF WillLift
<1>6. \A h : Owing(h)' <=> Owing(h)
  BY <1>0 DEF Owing, S!Issued
<1>7. \A t \in S!Handlers \ {Cron} : sess'[t] = sess[t]
  BY <1>1, WentTo, <1>0 DEF S!SweepStep, S!SweepList, S!SweepSuspend, S!SweepRoll, S!SweepCount, S!Finish
<1>8. \A t, u \in S!Busy' : t = u
  BY <1>4, <1>7 DEF S!Busy, S!Handlers
<1>9. \A t \in S!Handlers \ {Cron} : sess'[t].pc = "idle"
  BY <1>4, <1>7
<1>10. CASE S!SweepRoll \/ S!SweepCount
  <2>1. hotel' = hotel
    BY <1>10 DEF S!SweepRoll, S!SweepCount
  <2>2. NoNewDebtor
    BY <2>1 DEF NoNewDebtor, S!ForDebt
  <2>3. sess'[Cron].pc \notin {"suspend", "lift"}
    <3>1. CASE S!Finish(Cron)
      BY <1>0, <3>1, WentTo, IdleIsIdle DEF S!Finish
    <3>2. ASSUME NEW new, S!Goto(Cron, new), new.pc \notin {"suspend", "lift"}
          PROVE  sess'[Cron].pc \notin {"suspend", "lift"}
      BY <1>0, <3>2, WentTo
    <3>3. CASE S!SweepRoll
      <4> DEFINE left == {<<h, hotel[h].end>> : h \in {h \in Hotels : S!Ended(h, sess[Cron].from)}}
                 new  == [sess[Cron] EXCEPT !.pc = "count", !.left = left]
      <4>1. S!Finish(Cron) \/ S!Goto(Cron, new)
        BY <3>3 DEF S!SweepRoll
      <4> HIDE DEF left
      <4>2. new.pc = "count"
        BY <1>1 DEF S!Session
      <4> HIDE DEF new
      <4> QED
        BY <3>1, <3>2, <4>1, <4>2
    <3>4. CASE S!SweepCount
      <4>1. PICK l \in sess[Cron].left :
              LET rest == [sess[Cron] EXCEPT !.h = l[1], !.from = l[2], !.left = sess[Cron].left \ {l}] IN
                S!Goto(Cron, [rest EXCEPT !.pc = "issue"]) \/ S!Finish(Cron) \/ S!Goto(Cron, rest)
        BY <3>4 DEF S!SweepCount
      <4> DEFINE left == sess[Cron].left \ {l}
                 rest == [sess[Cron] EXCEPT !.h = l[1], !.from = l[2], !.left = left]
                 next == [rest EXCEPT !.pc = "issue"]
      <4>2. sess[Cron].pc = "count" /\ (S!Goto(Cron, next) \/ S!Finish(Cron) \/ S!Goto(Cron, rest))
        BY <3>4, <4>1 DEF S!SweepCount, S!At
      <4> HIDE DEF left
      <4>3. rest.pc = "count" /\ next.pc = "issue"
        BY <1>1, <4>2 DEF S!Session
      <4> HIDE DEF rest, next
      <4> QED
        BY <3>1, <3>2, <4>2, <4>3
    <3> QED
      BY <1>10, <3>3, <3>4
  <2>4. \A n \in Invoices : inv[n] # S!NoInvoice /\ inv[n].status = "OVERDUE" =>
          inv'[n] # S!NoInvoice /\ inv'[n].hotel = inv[n].hotel /\ inv'[n].status = "OVERDUE"
    BY <1>0
  <2> QED
    BY <1>0, <1>2, <1>3, <1>7, <2>2, <2>3, <2>4, QuietApart
<1>11. CASE S!SweepList
  <2> DEFINE late == {h \in Hotels : hotel[h].status = "ACTIVE" /\ S!PastGrace(h, sess[Cron].from)}
             left == late \X {S!NoTime}
             new  == [sess[Cron] EXCEPT !.pc = "suspend", !.left = left]
  <2>1. S!Goto(Cron, new) /\ hotel' = hotel
    BY <1>11 DEF S!SweepList
  <2>2. \A l \in left : Owing(l[1])
    <3>1. \A h \in late : Owing(h)
      BY DEF S!PastGrace, Owing
    <3> HIDE DEF late
    <3> QED
      BY <3>1
  <2> HIDE DEF left
  <2>3. sess'[Cron].pc = "suspend" /\ sess'[Cron].left = left
    <3>1. new.pc = "suspend" /\ new.left = left
      BY <1>1 DEF S!Session
    <3> HIDE DEF new
    <3> QED
      BY <1>0, <2>1, <3>1, WentTo
  <2>4. \A h \in Hotels : S!ForDebt(h)' => Owing(h)'
    BY <1>5, <1>6, <2>1 DEF ApartInv, S!ForDebt
  <2>5. \A l \in sess'[Cron].left : Owing(l[1])'
    BY <1>6, <2>2, <2>3
  <2> QED
    BY <1>8, <1>9, <2>3, <2>4, <2>5 DEF ApartInv, S!Handlers
<1>12. CASE S!SweepSuspend
  <2>1. PICK l \in sess[Cron].left : S!Goto(Cron, [sess[Cron] EXCEPT !.left = sess[Cron].left \ {l}])
    BY <1>12 DEF S!SweepSuspend
  <2> DEFINE left == sess[Cron].left \ {l}
             new  == [sess[Cron] EXCEPT !.left = left]
  <2>2. sess[Cron].pc = "suspend" /\ S!Goto(Cron, new) /\ left \subseteq sess[Cron].left
    BY <1>12, <2>1 DEF S!SweepSuspend, S!At
  <2> HIDE DEF left
  <2>3. sess'[Cron].pc = "suspend" /\ sess'[Cron].left = left
    <3>1. new.pc = "suspend" /\ new.left = left
      BY <1>1, <2>2 DEF S!Session
    <3> HIDE DEF new
    <3> QED
      BY <1>0, <2>2, <3>1, WentTo
  <2>4. \A m \in sess[Cron].left : Owing(m[1])
    BY <1>0, <2>2 DEF ApartInv
  <2>5. \A h \in Hotels : S!ForDebt(h)' => Owing(h)'
    <3>1. \A h \in Hotels : S!ForDebt(h)' => S!ForDebt(h) \/ \E m \in sess[Cron].left : m[1] = h
      BY <1>12, SweepSuspends
    <3> QED
      BY <1>5, <1>6, <2>4, <3>1 DEF ApartInv
  <2>6. \A m \in sess'[Cron].left : Owing(m[1])'
    BY <1>6, <2>2, <2>3, <2>4
  <2> QED
    BY <1>8, <1>9, <2>3, <2>5, <2>6 DEF ApartInv, S!Handlers
<1> QED
  BY <1>10, <1>11, <1>12 DEF S!SweepStep

LEMMA ApartInit == ASSUME PlatformInit PROVE ApartInv
<1>1. S!Init
  BY DEF PlatformInit
<1>2. \A h \in Hotels : ~ S!ForDebt(h)
  BY <1>1 DEF S!Init, S!ForDebt
<1>3. \A s \in S!Handlers : sess[s] = S!Idle /\ sess[s].pc = "idle"
  BY <1>1, IdleIsIdle DEF S!Init
<1> QED
  BY <1>2, <1>3 DEF ApartInv, S!Busy

LEMMA ApartStep ==
  ASSUME SubTyped, ApartInv, "subscription" \notin AdminReasons, [S!Next]_S!vars
  PROVE  ApartInv'
<1>1. ASSUME NEW s \in Admins, S!Request(s)
      PROVE  ApartInv'
  BY <1>1, RequestApart
<1>2. ASSUME NEW s \in S!Handlers, S!Step(s)
      PROVE  ApartInv'
  BY <1>2, StepApart
<1>3. ASSUME S!WebhookPays \/ S!WebhookSkips \/ S!SweepMark
      PROVE  ApartInv'
  BY <1>3, StartApart
<1>4. ASSUME S!SweepStep
      PROVE  ApartInv'
  BY <1>4, SweepApart
<1>5. ASSUME UNCHANGED <<hotel, inv, sess, apart>>
      PROVE  ApartInv'
  BY <1>5 DEF ApartInv, S!Busy, S!ForDebt, Owing, WillLift, S!Issued
<1>6. ASSUME S!Tick \/ UNCHANGED S!vars \/ \E n \in Invoices, link \in 1 .. MaxLinks : S!Charge(n, link)
      PROVE  UNCHANGED <<hotel, inv, sess, apart>>
  BY <1>6 DEF S!Tick, S!Charge, S!vars
<1>7. ASSUME S!Crash
      PROVE  ApartInv'
  BY <1>7 DEF S!Crash, ApartInv
<1> QED
  BY <1>1, <1>2, <1>3, <1>4, <1>5, <1>6, <1>7, Zenon DEF S!Next

LEMMA ApartHolds == ASSUME "subscription" \notin AdminReasons PROVE PlatformSpec => []ApartInv
<1>1. PlatformInit => ApartInv
  BY ApartInit
<1>2. SubTyped /\ ApartInv /\ [PlatformNext]_platformVars => ApartInv'
  BY SubscriptionMoves, ApartStep
<1> QED
  BY <1>1, <1>2, SubTypedHolds, PTL DEF PlatformSpec

LEMMA OnlyDebtorsSuspended == ASSUME ApartInv PROVE S!SuspendedForDebt
<1> SUFFICES ASSUME apart, S!Busy = {}, NEW h \in Hotels, S!ForDebt(h)
             PROVE  Owing(h)
  BY DEF S!SuspendedForDebt, Owing
<1>1. \A s \in S!Handlers : sess[s].pc = "idle"
  BY IdleIsIdle DEF S!Busy
<1> QED
  BY <1>1 DEF ApartInv, WillLift

\* The handlers keep apart after a step only if they did before it.
LEMMA ApartBefore ==
  ASSUME SubTyped, [S!Next]_S!vars, apart'
  PROVE  apart
<1>1. ASSUME NEW s \in Admins, S!Request(s)
      PROVE  apart
  BY <1>1 DEF S!Request, S!ApproveRead, S!Suspend, S!ReactivateRead, S!Cancel, S!SetPlanRead, S!IssueByHand,
     S!PayRead, S!LinkRead, S!Start
<1>2. ASSUME NEW s \in S!Handlers, S!Step(s)
      PROVE  apart
  BY <1>2 DEF S!Step, S!ApproveWrite, S!ReactivateWrite, S!SetPlanWrite, S!IssueRead, S!IssueFree,
     S!IssueCreate, S!IssueExtend, S!PayInvoice, S!PayHotelRead, S!PayHotelWrite, S!LinkWrite
<1>3. ASSUME S!SweepMark \/ S!WebhookPays \/ S!WebhookSkips \/ S!SweepStep \/ S!Tick \/ S!Crash \/ UNCHANGED S!vars
             \/ \E n \in Invoices, link \in 1 .. MaxLinks : S!Charge(n, link)
      PROVE  apart
  BY <1>3 DEF S!SweepMark, S!WebhookPays, S!WebhookSkips, S!Crash, S!Start, S!SweepStep, S!SweepList,
     S!SweepSuspend, S!SweepRoll, S!SweepCount, S!Tick, S!Charge, S!vars
<1> QED
  BY <1>1, <1>2, <1>3, Zenon DEF S!Next

\* Who lifts a suspension: an operator that approves or reactivates, or a payment whose
\* handler read one for debt.
LEMMA WhoLifts ==
  ASSUME SubTyped, [S!Next]_S!vars, NEW h \in Hotels, Lifted(h)
  PROVE  \/ \E s \in Admins : S!ApproveWrite(s) \/ S!ReactivateWrite(s)
         \/ \E s \in S!Handlers : S!PayHotelWrite(s) /\ h = sess[s].h /\ sess[s].also
<1>1. hotel' # hotel
  BY DEF Lifted
<1>2. \A s \in Admins : ~ S!Request(s)
  <2> SUFFICES ASSUME NEW s \in Admins, S!Request(s)
               PROVE  FALSE
    OBVIOUS
  <2>1. S!Suspend(s) \/ S!Cancel(s)
    BY <1>1 DEF S!Request, S!ApproveRead, S!ReactivateRead, S!SetPlanRead, S!IssueByHand, S!PayRead, S!LinkRead
  <2> QED
    BY <2>1, Suspends, Edits DEF NoneLifted
<1>3. ASSUME NEW s \in S!Handlers, S!Step(s)
      PROVE  \/ S!ApproveWrite(s) \/ S!ReactivateWrite(s)
             \/ S!PayHotelWrite(s) /\ h = sess[s].h /\ sess[s].also
  <2>1. \/ S!ApproveWrite(s) \/ S!ReactivateWrite(s) \/ S!PayHotelWrite(s)
        \/ S!SetPlanWrite(s) \/ S!IssueFree(s) \/ S!IssueExtend(s)
    BY <1>1, <1>3 DEF S!Step, S!IssueRead, S!IssueCreate, S!LinkWrite, S!PayInvoice, S!PayHotelRead
  <2>2. ~ (S!SetPlanWrite(s) \/ S!IssueFree(s) \/ S!IssueExtend(s))
    BY Edits DEF NoneLifted
  <2>3. S!PayHotelWrite(s) => h = sess[s].h /\ sess[s].also
    BY PaysHotel
  <2> QED
    BY <2>1, <2>2, <2>3
<1>4. ASSUME NEW s \in S!Handlers, S!ApproveWrite(s) \/ S!ReactivateWrite(s)
      PROVE  s \in Admins
  BY <1>4 DEF SubTyped, ByOperator, S!ApproveWrite, S!ReactivateWrite, S!At
<1>5. ~ \/ S!SweepMark \/ S!SweepList \/ S!SweepRoll \/ S!SweepCount
        \/ S!WebhookPays \/ S!WebhookSkips \/ S!Tick \/ S!Crash \/ UNCHANGED S!vars
        \/ \E n \in Invoices, link \in 1 .. MaxLinks : S!Charge(n, link)
  BY <1>1 DEF S!SweepMark, S!SweepList, S!SweepRoll, S!SweepCount, S!WebhookPays, S!WebhookSkips,
     S!Tick, S!Crash, S!Charge, S!vars
<1>6. ~ S!SweepSuspend
  BY SweepSuspends DEF NoneLifted
<1> QED
  BY <1>2, <1>3, <1>4, <1>5, <1>6, Zenon DEF S!Next, S!SweepStep

\* Handlers of an operator, of the cron and of the provider's webhooks that do not overlap
\* or die suspend for the subscription only who owes, and a payment lifts no suspension
\* that an operator made for another reason: whatever the hotels, the invoices, the plans
\* and the order of the statements.  An operator may not give "subscription" as a reason:
\* suspend takes any text, and the code treats one with that word as a debt.
THEOREM SuspensionsAlwaysHold ==
  ASSUME "subscription" \notin AdminReasons
  PROVE  PlatformSpec => SuspensionsHold
<1>1. ApartInv => (part = "subscription" => S!SuspendedForDebt)
  BY OnlyDebtorsSuspended
<1>2. ASSUME SubTyped, ApartInv, [PlatformNext]_platformVars
      PROVE  [\A h \in Hotels :
                /\ apart'
                /\ hotel[h].status = "SUSPENDED" /\ hotel[h].reason = "other"
                /\ hotel'[h].status \in {"ACTIVE", "TRIAL"}
                => \E s \in Admins : S!ApproveWrite(s) \/ S!ReactivateWrite(s)]_S!vars
  <2> SUFFICES ASSUME NEW h \in Hotels, apart',
                      hotel[h].status = "SUSPENDED", hotel[h].reason = "other",
                      hotel'[h].status \in {"ACTIVE", "TRIAL"}
               PROVE  \E s \in Admins : S!ApproveWrite(s) \/ S!ReactivateWrite(s)
    OBVIOUS
  <2>1. [S!Next]_S!vars
    BY <1>2, SubscriptionMoves
  <2>2. apart /\ Lifted(h) /\ ~ S!ForDebt(h)
    BY <1>2, <2>1, ApartBefore DEF Lifted, S!ForDebt
  <2>3. ASSUME NEW s \in S!Handlers, S!PayHotelWrite(s), h = sess[s].h, sess[s].also
        PROVE  FALSE
    <3>1. sess[s].pc = "lift"
      BY <2>3 DEF S!PayHotelWrite, S!At
    <3>2. S!ForDebt(sess[s].h)
      BY <1>2, <2>2, <2>3, <3>1 DEF ApartInv
    <3> QED
      BY <2>2, <2>3, <3>2
  <2> QED
    BY <1>2, <2>1, <2>2, <2>3, WhoLifts
<1> QED
  BY <1>1, <1>2, SubTypedHolds, ApartHolds, PTL DEF PlatformSpec, SuspensionsHold, S!OperatorSuspensionStands

-----------------------------------------------------------------------------
(* Accounts                                                                *)
(*                                                                         *)
(* The sessions of a login, and the refreshes under way, come from one     *)
(* another: while no two refreshes matched one session there is one of     *)
(* them at a time, but for a refresh and the session it is about to        *)
(* revoke.  A deactivation that met no other leaves the owners it counted. *)

LEMMA AccountsMove ==
  ASSUME [PlatformNext]_platformVars
  PROVE  [A!Next]_A!vars
<1>1. CASE AccountsStep
  BY <1>1 DEF AccountsStep
<1> QED
  BY <1>1 DEF PlatformNext, platformVars, accounts, A!vars, GateStep, SubscriptionStep, GatewayStep

SessionRow == [of : Users \cup {0}, live : BOOLEAN, epoch : Nat, late : BOOLEAN,
               root : Sessions \cup {0}, forked : BOOLEAN]
RequestRow == [pc : {"idle", "issue", "rotate", "deactivate", "revoke"}, of : Users \cup {0},
               from : Sessions \cup {0}, epoch : Nat, late : BOOLEAN, forked : BOOLEAN]

LEMMA SessionIsItsFields ==
  \A s \in SessionRow : s = [of |-> s.of, live |-> s.live, epoch |-> s.epoch, late |-> s.late,
                             root |-> s.root, forked |-> s.forked]
BY DEF SessionRow

\* A session that was issued, and what it descends from.
IssuedRow(s) ==
    /\ session[s].of \in Users
    /\ session[s].root \in Sessions /\ session[session[s].root].root # 0
    /\ session[session[s].root].of = session[s].of

\* A request under way has its user, and a refresh a session of the same.
RequestKnows(h) ==
    /\ desk[h].pc = "idle" <=> desk[h] = A!Idle
    /\ desk[h].pc # "idle" => desk[h].of \in Users
    /\ desk[h].pc = "rotate" => desk[h].from # 0
    /\ desk[h].pc \notin {"rotate", "issue"} => desk[h].from = 0
    /\ desk[h].from # 0 => session[desk[h].from].root # 0 /\ session[desk[h].from].of = desk[h].of

AccountsTyped ==
    /\ user \in [Users -> [owner : BOOLEAN, active : BOOLEAN]]
    /\ session \in [Sessions -> SessionRow]
    /\ desk \in [Workers -> RequestRow]
    /\ epoch \in [Users -> Nat]
    /\ unguarded \in BOOLEAN
    /\ \A s \in Sessions : session[s].root = 0 => session[s] = A!NoSession
    /\ \A s \in Sessions : session[s].root # 0 => IssuedRow(s)
    /\ \A h \in Workers : RequestKnows(h)

LEMMA MadeHasRoot ==
  ASSUME AccountsTyped
  PROVE  /\ A!Made = {s \in Sessions : session[s].root # 0}
         /\ A!Live = {s \in Sessions : session[s].live}
         /\ A!Live \subseteq A!Made
<1>1. \A s \in Sessions : session[s] # A!NoSession <=> session[s].root # 0
  BY DEF AccountsTyped, A!NoSession
<1>2. \A s \in Sessions : session[s].live => session[s].root # 0
  BY DEF AccountsTyped, A!NoSession
<1> QED
  BY <1>1, <1>2 DEF A!Made, A!Live

LEMMA AccountTypes == AccountsTyped => A!TypeOK
<1> SUFFICES ASSUME AccountsTyped PROVE A!TypeOK
  OBVIOUS
<1>1. ASSUME NEW s \in A!Made
      PROVE  session[s].of \in Users /\ session[s].live \in BOOLEAN
             /\ session[s].root \in A!Made /\ session[session[s].root].of = session[s].of
  BY <1>1, MadeHasRoot DEF AccountsTyped, IssuedRow, SessionRow
<1>2. ASSUME NEW h \in Workers
      PROVE  /\ desk[h].pc \in {"idle", "issue", "rotate", "deactivate", "revoke"}
             /\ desk[h] # A!Idle => desk[h].of \in Users
             /\ desk[h].from \in Sessions \cup {0}
  BY <1>2 DEF AccountsTyped, RequestKnows, RequestRow
<1> QED
  BY <1>1, <1>2 DEF A!TypeOK, AccountsTyped

\* The lines of sessions: h is refreshing one of line r, and s is the live one.
Refreshing(h, r) == desk[h].from # 0 /\ session[desk[h].from].root = r /\ ~ desk[h].forked
LiveOf(s, r)     == session[s].live /\ session[s].root = r /\ ~ session[s].forked

LineIsOne(r) ==
    /\ \A s, t \in Sessions : LiveOf(s, r) /\ LiveOf(t, r) => s = t
    /\ \A g, h \in Workers : Refreshing(g, r) /\ Refreshing(h, r) => g = h
    /\ \A g \in Workers, s \in Sessions :
         Refreshing(g, r) /\ LiveOf(s, r) => desk[g].pc = "rotate" /\ desk[g].from = s

\* While deactivations keep apart, another owner than the one it is about remains.
OwnersKept ==
    ~ unguarded =>
        /\ A!Owners # {}
        /\ \A g, h \in Workers : desk[g].pc = "deactivate" /\ desk[h].pc = "deactivate" => g = h
        /\ \A h \in Workers : desk[h].pc = "deactivate" => \E u \in A!Owners : u # desk[h].of

AccountInv ==
    /\ AccountsTyped
    /\ \A r \in Sessions : LineIsOne(r)
    /\ A!RevocationHolds
    /\ OwnersKept

LEMMA AccountInit == A!Init => AccountInv
<1> SUFFICES ASSUME A!Init PROVE AccountInv
  OBVIOUS
<1>1. AccountsTyped
  BY UsersAssumption DEF A!Init, AccountsTyped, A!NoSession, A!Idle, A!Nobody, SessionRow, RequestRow, RequestKnows
<1>2. \A r \in Sessions : LineIsOne(r)
  BY DEF A!Init, A!NoSession, A!Idle, LineIsOne, Refreshing, LiveOf
<1>3. A!RevocationHolds
  BY DEF A!Init, A!NoSession, A!RevocationHolds, A!Live
<1>4. OwnersKept
  BY UsersAssumption DEF A!Init, A!Idle, OwnersKept, A!Owners
<1> QED
  BY <1>1, <1>2, <1>3, <1>4 DEF AccountInv

-----------------------------------------------------------------------------
(* The types of the logins.                                                *)

\* One request goes on, and no session changes.
LEMMA RequestTyped ==
  ASSUME AccountsTyped, NEW h \in Workers, NEW slot \in RequestRow,
         desk' = [desk EXCEPT ![h] = slot], session' = session,
         user' \in [Users -> [owner : BOOLEAN, active : BOOLEAN]], epoch' = epoch, unguarded' \in BOOLEAN,
         slot.pc = "idle" <=> slot = A!Idle,
         slot.pc # "idle" => slot.of \in Users,
         slot.pc = "rotate" => slot.from # 0,
         slot.pc \notin {"rotate", "issue"} => slot.from = 0,
         slot.from # 0 => session[slot.from].root # 0 /\ session[slot.from].of = slot.of
  PROVE  AccountsTyped'
<1>1. \A g \in Workers : desk'[g] = IF g = h THEN slot ELSE desk[g]
  BY DEF AccountsTyped
<1>2. \A g \in Workers : RequestKnows(g)'
  BY <1>1 DEF AccountsTyped, RequestKnows
<1> QED
  BY <1>2 DEF AccountsTyped, IssuedRow

LEMMA IdleRequest == A!Idle \in RequestRow
BY DEF A!Idle, A!Nobody, RequestRow

\* The sessions of a user, or one of them, are revoked.
LEMMA RevokedTyped ==
  ASSUME AccountsTyped, session' \in [Sessions -> SessionRow], epoch' \in [Users -> Nat],
         \A s \in Sessions : session'[s].root = session[s].root,
         \A s \in Sessions : session'[s].of = session[s].of,
         \A s \in Sessions : session[s].root = 0 => session'[s] = session[s],
         user' \in [Users -> [owner : BOOLEAN, active : BOOLEAN]], unguarded' \in BOOLEAN,
         desk' \in [Workers -> RequestRow],
         \A h \in Workers : \/ desk'[h] = desk[h]
                            \/ desk'[h] = A!Idle
                            \/ desk'[h] = [desk[h] EXCEPT !.pc = "issue"] /\ desk[h].pc = "rotate"
  PROVE  AccountsTyped'
<1>1. ASSUME NEW s \in Sessions, session'[s].root = 0
      PROVE  session'[s] = A!NoSession
  <2>1. session[s].root = 0
    BY <1>1
  <2> QED
    BY <2>1 DEF AccountsTyped
<1>2. ASSUME NEW s \in Sessions, session'[s].root # 0
      PROVE  IssuedRow(s)'
  <2>1. session[s].root # 0 /\ IssuedRow(s)
    BY <1>2 DEF AccountsTyped
  <2>2. session[s].root \in Sessions
    BY <2>1 DEF IssuedRow
  <2> QED
    BY <2>1, <2>2 DEF IssuedRow
<1>3. ASSUME NEW h \in Workers
      PROVE  RequestKnows(h)'
  <2>1. desk[h] \in RequestRow /\ RequestKnows(h) /\ desk[h].from \in Sessions \cup {0}
    BY DEF AccountsTyped, RequestRow
  <2>2. desk[h].from # 0 => session'[desk[h].from].root # 0 /\ session'[desk[h].from].of = desk[h].of
    <3>1. CASE desk[h].from = 0
      BY <3>1
    <3>2. CASE desk[h].from \in Sessions
      BY <2>1, <3>2 DEF RequestKnows
    <3> QED
      BY <2>1, <3>1, <3>2
  <2>3. CASE desk'[h] = desk[h]
    BY <2>1, <2>2, <2>3 DEF RequestKnows
  <2>4. CASE desk'[h] = A!Idle
    BY <2>4 DEF RequestKnows, A!Idle
  <2>5. CASE desk'[h] = [desk[h] EXCEPT !.pc = "issue"] /\ desk[h].pc = "rotate"
    <3>1. desk'[h].pc = "issue" /\ desk'[h].of = desk[h].of /\ desk'[h].from = desk[h].from
      BY <2>1, <2>5 DEF RequestRow
    <3>2. desk'[h] # A!Idle
      BY <3>1 DEF A!Idle
    <3> QED
      BY <2>1, <2>2, <2>5, <3>1, <3>2 DEF RequestKnows
  <2> QED
    BY <2>3, <2>4, <2>5
<1>4. /\ \A s \in Sessions : session'[s].root = 0 => session'[s] = A!NoSession
      /\ \A s \in Sessions : session'[s].root # 0 => IssuedRow(s)'
      /\ \A h \in Workers : RequestKnows(h)'
  BY <1>1, <1>2, <1>3
<1> QED
  BY <1>4 DEF AccountsTyped

LEMMA LoginTyped ==
  ASSUME AccountsTyped, NEW h \in Workers, NEW u \in Users, A!LoginStart(h, u)
  PROVE  AccountsTyped'
<1> DEFINE slot == [A!Idle EXCEPT !.pc = "issue", !.of = u, !.epoch = epoch[u]]
<1>1. slot \in RequestRow /\ slot.pc = "issue" /\ slot.of = u /\ slot.from = 0
  BY DEF AccountsTyped, A!Idle, RequestRow
<1>2. slot # A!Idle
  BY <1>1 DEF A!Idle
<1>3. desk' = [desk EXCEPT ![h] = slot] /\ UNCHANGED <<user, session, epoch, unguarded>>
  BY DEF A!LoginStart
<1> HIDE DEF slot
<1> QED
  BY <1>1, <1>2, <1>3, RequestTyped DEF AccountsTyped

\* What a refresh finds: its session is live, and whoever is at it too is marked.
LEMMA RefreshStarts ==
  ASSUME AccountsTyped, NEW h \in Workers, NEW s \in Sessions, A!RefreshStart(h, s)
  PROVE  /\ UNCHANGED <<user, session, epoch, unguarded>>
         /\ session[s].live /\ session[s].root # 0
         /\ desk' \in [Workers -> RequestRow]
         /\ desk'[h].pc = "rotate" /\ desk'[h].of = session[s].of /\ desk'[h].from = s
         /\ ~ desk'[h].forked => ~ session[s].forked
         /\ ~ desk'[h].forked => \A g \in Workers : desk[g].pc = "rotate" => desk[g].from # s
         /\ \A g \in Workers \ {h} :
              /\ desk'[g].pc = desk[g].pc /\ desk'[g].of = desk[g].of /\ desk'[g].from = desk[g].from
              /\ desk[g].pc # "rotate" => desk'[g] = desk[g]
              /\ ~ desk'[g].forked => ~ desk[g].forked /\ ~ (desk[g].pc = "rotate" /\ desk[g].from = s)
<1> DEFINE shared(g) == desk[g].pc = "rotate" /\ desk[g].from = s
           both == \E g \in Workers : shared(g)
           slot  == [A!Idle EXCEPT !.pc = "rotate", !.of = session[s].of, !.from = s,
                                  !.epoch = session[s].epoch, !.late = session[s].late,
                                  !.forked = both \/ session[s].forked]
           marked(g) == [desk[g] EXCEPT !.forked = TRUE]
<1>1. desk' = [g \in Workers |-> IF g = h THEN slot ELSE IF shared(g) THEN marked(g) ELSE desk[g]]
  BY DEF A!RefreshStart
<1>2. session[s].live /\ session[s].root # 0 /\ UNCHANGED <<user, session, epoch, unguarded>>
  BY MadeHasRoot DEF A!RefreshStart, A!Matches
<1>3. slot \in RequestRow
  <2>1. session[s] \in SessionRow /\ both \in BOOLEAN
    BY DEF AccountsTyped
  <2>2. (both \/ session[s].forked) \in BOOLEAN
    BY <2>1
  <2> HIDE DEF both
  <2> QED
    BY <2>1, <2>2 DEF A!Idle, RequestRow, SessionRow
<1>4. slot.pc = "rotate" /\ slot.of = session[s].of /\ slot.from = s /\ slot.forked = (both \/ session[s].forked)
  BY DEF A!Idle
<1>5. \A g \in Workers : /\ marked(g) \in RequestRow /\ marked(g).pc = desk[g].pc
                         /\ marked(g).of = desk[g].of /\ marked(g).from = desk[g].from
                         /\ marked(g).forked
  BY DEF AccountsTyped, RequestRow
<1>6. /\ desk'[h] = slot
      /\ \A g \in Workers \ {h} : desk'[g] = IF shared(g) THEN marked(g) ELSE desk[g]
  BY <1>1
<1>7. desk' \in [Workers -> RequestRow]
  <2> HIDE DEF slot, marked, shared
  <2> QED
    BY <1>1, <1>3, <1>5 DEF AccountsTyped
<1>8. ~ slot.forked => ~ session[s].forked /\ ~ both
  BY <1>4
<1> HIDE DEF slot, marked
<1> QED
  BY <1>2, <1>4, <1>5, <1>6, <1>7, <1>8

LEMMA RefreshTyped ==
  ASSUME AccountsTyped, NEW h \in Workers, NEW s \in Sessions, A!RefreshStart(h, s)
  PROVE  AccountsTyped'
<1>1. /\ UNCHANGED <<user, session, epoch, unguarded>>
      /\ session[s].root # 0 /\ IssuedRow(s)
      /\ desk' \in [Workers -> RequestRow]
      /\ desk'[h].pc = "rotate" /\ desk'[h].of = session[s].of /\ desk'[h].from = s
  BY RefreshStarts DEF AccountsTyped
<1>2. ASSUME NEW g \in Workers
      PROVE  RequestKnows(g)'
  <2>1. CASE g = h
    <3>1. s # 0 /\ desk'[h] # A!Idle
      BY <1>1, UsersAssumption DEF A!Idle
    <3> QED
      BY <1>1, <2>1, <3>1 DEF RequestKnows, IssuedRow
  <2>2. CASE g # h /\ desk[g].pc # "rotate"
    <3>1. desk'[g] = desk[g] /\ RequestKnows(g)
      BY <2>2, RefreshStarts DEF AccountsTyped
    <3> QED
      BY <1>1, <3>1 DEF RequestKnows
  <2>3. CASE g # h /\ desk[g].pc = "rotate"
    <3>1. /\ desk'[g].pc = "rotate" /\ desk'[g].of = desk[g].of /\ desk'[g].from = desk[g].from
          /\ RequestKnows(g)
      BY <2>3, RefreshStarts DEF AccountsTyped
    <3>2. desk'[g] # A!Idle
      BY <3>1 DEF A!Idle
    <3> QED
      BY <1>1, <2>3, <3>1, <3>2 DEF RequestKnows
  <2> QED
    BY <2>1, <2>2, <2>3
<1> QED
  BY <1>1, <1>2 DEF AccountsTyped, IssuedRow

\* A refresh revokes the session it matched.
LEMMA Rotates ==
  ASSUME AccountsTyped, NEW h \in Workers, A!RefreshRotate(h)
  PROVE  LET f == desk[h].from IN
         /\ desk[h].pc = "rotate" /\ f \in Sessions
         /\ session' = [session EXCEPT ![f] = [session[f] EXCEPT !.live = FALSE]]
         /\ desk' = [desk EXCEPT ![h] = [desk[h] EXCEPT !.pc = "issue"]]
         /\ UNCHANGED <<user, epoch, unguarded>>
<1>1. desk[h].pc = "rotate" /\ desk[h].from \in Sessions
  BY DEF A!RefreshRotate, AccountsTyped, RequestKnows, RequestRow
<1> QED
  BY <1>1 DEF A!RefreshRotate, A!Rotated, AccountsTyped

LEMMA RotateTyped ==
  ASSUME AccountsTyped, NEW h \in Workers, A!RefreshRotate(h)
  PROVE  AccountsTyped'
<1> DEFINE f == desk[h].from
<1>1. /\ desk[h].pc = "rotate" /\ f \in Sessions
      /\ session' = [session EXCEPT ![f] = [session[f] EXCEPT !.live = FALSE]]
      /\ desk' = [desk EXCEPT ![h] = [desk[h] EXCEPT !.pc = "issue"]]
      /\ UNCHANGED <<user, epoch, unguarded>>
  BY Rotates
<1>2. session[f] \in SessionRow /\ desk[h] \in RequestRow /\ session[f].root # 0
  BY <1>1, UsersAssumption DEF AccountsTyped, RequestKnows
<1>3. /\ session' \in [Sessions -> SessionRow]
      /\ \A s \in Sessions : session'[s].root = session[s].root
      /\ \A s \in Sessions : session'[s].of = session[s].of
      /\ \A s \in Sessions : session[s].root = 0 => session'[s] = session[s]
  <2>1. [session[f] EXCEPT !.live = FALSE] \in SessionRow
    BY <1>2 DEF SessionRow
  <2>2. /\ [session[f] EXCEPT !.live = FALSE].root = session[f].root
        /\ [session[f] EXCEPT !.live = FALSE].of = session[f].of
    BY <1>2 DEF SessionRow
  <2> QED
    BY <1>1, <1>2, <2>1, <2>2 DEF AccountsTyped
<1>4. /\ desk' \in [Workers -> RequestRow]
      /\ \A g \in Workers : \/ desk'[g] = desk[g]
                            \/ desk'[g] = [desk[g] EXCEPT !.pc = "issue"] /\ desk[g].pc = "rotate"
  BY <1>1, <1>2 DEF AccountsTyped, RequestRow
<1> QED
  BY <1>1, <1>3, <1>4, RevokedTyped DEF AccountsTyped

\* A session is issued: it is new, and of the line its request descends from.
LEMMA Issues ==
  ASSUME AccountsTyped, NEW h \in Workers, A!Issue(h)
  PROVE  \E s \in Sessions, new \in SessionRow :
           /\ desk[h].pc = "issue" /\ session[s].root = 0
           /\ new.of = desk[h].of /\ new.live /\ new.epoch = desk[h].epoch
           /\ desk[h].epoch = epoch[desk[h].of] \/ new.late
           /\ new.forked = desk[h].forked
           /\ new.root = IF desk[h].from = 0 THEN s ELSE session[desk[h].from].root
           /\ session' = [session EXCEPT ![s] = new]
           /\ desk' = [desk EXCEPT ![h] = A!Idle]
           /\ UNCHANGED <<user, epoch, unguarded>>
<1>1. PICK s \in Sessions \ A!Made :
        session' = [session EXCEPT ![s] =
             [of |-> desk[h].of, live |-> TRUE, epoch |-> desk[h].epoch,
              late |-> desk[h].late \/ desk[h].epoch # epoch[desk[h].of],
              root |-> IF desk[h].from = 0 THEN s ELSE session[desk[h].from].root,
              forked |-> desk[h].forked]]
  BY DEF A!Issue
<1> DEFINE late == desk[h].late \/ desk[h].epoch # epoch[desk[h].of]
           root == IF desk[h].from = 0 THEN s ELSE session[desk[h].from].root
           new  == [of |-> desk[h].of, live |-> TRUE, epoch |-> desk[h].epoch,
                    late |-> late, root |-> root, forked |-> desk[h].forked]
<1>2. /\ desk[h].pc = "issue" /\ desk' = [desk EXCEPT ![h] = A!Idle]
      /\ UNCHANGED <<user, epoch, unguarded>>
  BY DEF A!Issue
<1>3. s \in Sessions /\ session[s].root = 0
  BY <1>1, MadeHasRoot
<1>4. desk[h] \in RequestRow /\ desk[h].of \in Users
  BY <1>2 DEF AccountsTyped, RequestKnows
<1>5. root \in Sessions \cup {0}
  BY <1>3, <1>4 DEF AccountsTyped, SessionRow, RequestRow
<1>6. late \in BOOLEAN
  OBVIOUS
<1>7. new \in SessionRow
  <2> HIDE DEF late, root
  <2> QED
    BY <1>4, <1>5, <1>6 DEF SessionRow, RequestRow
<1>8. /\ new.of = desk[h].of /\ new.live /\ new.epoch = desk[h].epoch /\ new.forked = desk[h].forked
      /\ new.root = root /\ new.late = late
  OBVIOUS
<1>9. session' = [session EXCEPT ![s] = new]
  BY <1>1
<1>10. desk[h].epoch = epoch[desk[h].of] \/ new.late
  BY <1>8
<1> HIDE DEF new
<1> QED
  BY <1>2, <1>3, <1>7, <1>8, <1>9, <1>10

LEMMA IssueTyped ==
  ASSUME AccountsTyped, NEW h \in Workers, A!Issue(h)
  PROVE  AccountsTyped'
<1>1. PICK s \in Sessions, new \in SessionRow :
           /\ desk[h].pc = "issue" /\ session[s].root = 0
           /\ new.of = desk[h].of
           /\ new.root = IF desk[h].from = 0 THEN s ELSE session[desk[h].from].root
           /\ session' = [session EXCEPT ![s] = new]
           /\ desk' = [desk EXCEPT ![h] = A!Idle]
           /\ UNCHANGED <<user, epoch, unguarded>>
  BY Issues
<1>2. /\ desk[h].of \in Users /\ RequestKnows(h) /\ desk[h].from \in Sessions \cup {0}
  BY <1>1 DEF AccountsTyped, RequestKnows, RequestRow
<1>3. \A t \in Sessions : session'[t] = IF t = s THEN new ELSE session[t]
  BY <1>1 DEF AccountsTyped
<1>4. \A t \in Sessions : session[t].root # 0 => session'[t] = session[t]
  BY <1>1, <1>3
<1>5. new.root \in Sessions /\ new.root # 0 /\ session'[new.root].root # 0 /\ session'[new.root].of = new.of
  <2>1. CASE desk[h].from = 0
    <3>1. new.root = s /\ s # 0
      BY <1>1, <2>1, UsersAssumption
    <3> QED
      BY <1>3, <3>1
  <2>2. CASE desk[h].from # 0
    <3> DEFINE p == desk[h].from
    <3>1. p \in Sessions /\ session[p].root # 0 /\ session[p].of = desk[h].of /\ new.root = session[p].root
      BY <1>1, <1>2, <2>2 DEF RequestKnows
    <3>2. IssuedRow(p)
      BY <3>1 DEF AccountsTyped
    <3> HIDE DEF p
    <3>3. session[p].root \in Sessions /\ session[session[p].root].root # 0
          /\ session[session[p].root].of = session[p].of
      BY <3>2 DEF IssuedRow
    <3> QED
      BY <1>1, <1>4, <3>1, <3>3
  <2> QED
    BY <2>1, <2>2
<1>6. session' \in [Sessions -> SessionRow] /\ desk' \in [Workers -> RequestRow]
  BY <1>1, IdleRequest DEF AccountsTyped
<1>7. ASSUME NEW t \in Sessions
      PROVE  /\ session'[t].root = 0 => session'[t] = A!NoSession
             /\ session'[t].root # 0 => IssuedRow(t)'
  <2>1. CASE t = s
    BY <1>1, <1>2, <1>3, <1>5, <2>1 DEF IssuedRow
  <2>2. CASE t # s
    <3>1. session'[t] = session[t]
      BY <1>3, <2>2
    <3>2. session[t].root # 0 => IssuedRow(t) /\ session'[session[t].root] = session[session[t].root]
      BY <1>4 DEF AccountsTyped, IssuedRow
    <3> QED
      BY <3>1, <3>2 DEF AccountsTyped, IssuedRow
  <2> QED
    BY <2>1, <2>2
<1>8. ASSUME NEW g \in Workers
      PROVE  RequestKnows(g)'
  <2>1. CASE g = h
    BY <1>1, <2>1 DEF AccountsTyped, RequestKnows, A!Idle
  <2>2. CASE g # h
    <3>1. desk'[g] = desk[g] /\ RequestKnows(g) /\ desk[g].from \in Sessions \cup {0}
      BY <1>1, <2>2 DEF AccountsTyped, RequestRow
    <3>2. desk[g].from # 0 => session'[desk[g].from] = session[desk[g].from]
      BY <1>4, <3>1 DEF RequestKnows
    <3> QED
      BY <3>1, <3>2 DEF RequestKnows
  <2> QED
    BY <2>1, <2>2
<1> QED
  BY <1>1, <1>6, <1>7, <1>8 DEF AccountsTyped

\* The live sessions of a user are revoked.
LEMMA RevokesAll ==
  ASSUME AccountsTyped, NEW u \in Users, A!RevokeAll(u)
  PROVE  /\ session' \in [Sessions -> SessionRow] /\ epoch' \in [Users -> Nat]
         /\ \A s \in Sessions : session'[s].root = session[s].root /\ session'[s].of = session[s].of
         /\ \A s \in Sessions : session'[s].forked = session[s].forked
         /\ \A s \in Sessions : session[s].root = 0 => session'[s] = session[s]
         /\ \A s \in Sessions : session'[s].live => session'[s] = session[s] /\ session[s].of # u
         /\ \A v \in Users \ {u} : epoch'[v] = epoch[v]
<1> DEFINE dead(s) == [session[s] EXCEPT !.live = FALSE]
<1>1. A!Revoked(u) = {s \in Sessions : session[s].live /\ session[s].of = u}
  BY DEF A!Revoked, A!Live
<1>2. session' = [s \in Sessions |-> IF s \in A!Revoked(u) THEN dead(s) ELSE session[s]]
  BY DEF A!RevokeAll
<1>3. \A s \in Sessions : dead(s) \in SessionRow /\ dead(s).root = session[s].root
                         /\ dead(s).of = session[s].of /\ dead(s).forked = session[s].forked /\ ~ dead(s).live
  BY DEF AccountsTyped, SessionRow
<1>4. \A s \in Sessions : session[s].root = 0 => ~ session[s].live
  BY DEF AccountsTyped, A!NoSession
<1>5. epoch' \in [Users -> Nat] /\ \A v \in Users \ {u} : epoch'[v] = epoch[v]
  BY DEF A!RevokeAll, AccountsTyped
<1>6. \A s \in Sessions : session'[s] = IF session[s].live /\ session[s].of = u THEN dead(s) ELSE session[s]
  BY <1>1, <1>2
<1>7. session' \in [Sessions -> SessionRow]
  <2> HIDE DEF dead
  <2> QED
    BY <1>2, <1>3 DEF AccountsTyped
<1> HIDE DEF dead
<1> QED
  BY <1>3, <1>4, <1>5, <1>6, <1>7

LEMMA DeactivationTyped ==
  ASSUME AccountsTyped, NEW h \in Workers, NEW u \in Users, A!DeactivateStart(h, u)
  PROVE  AccountsTyped'
<1> DEFINE slot == [A!Idle EXCEPT !.pc = "deactivate", !.of = u]
<1>1. slot \in RequestRow /\ slot.pc = "deactivate" /\ slot.of = u /\ slot.from = 0
  BY DEF AccountsTyped, A!Idle, RequestRow
<1>2. slot # A!Idle
  BY <1>1 DEF A!Idle
<1>3. desk' = [desk EXCEPT ![h] = slot] /\ UNCHANGED <<user, session, epoch>> /\ unguarded' \in BOOLEAN
  BY DEF A!DeactivateStart
<1> HIDE DEF slot
<1> QED
  BY <1>1, <1>2, <1>3, RequestTyped DEF AccountsTyped

LEMMA DeactivateUserTyped ==
  ASSUME AccountsTyped, NEW h \in Workers, A!DeactivateUser(h)
  PROVE  AccountsTyped'
<1> DEFINE slot == [desk[h] EXCEPT !.pc = "revoke"]
<1>1. desk[h] \in RequestRow /\ RequestKnows(h) /\ desk[h].pc = "deactivate"
  BY DEF AccountsTyped, A!DeactivateUser
<1>2. slot \in RequestRow /\ slot.pc = "revoke" /\ slot.of = desk[h].of /\ slot.from = desk[h].from
  BY <1>1 DEF RequestRow
<1>3. slot # A!Idle
  BY <1>2 DEF A!Idle
<1>4. desk' = [desk EXCEPT ![h] = slot] /\ UNCHANGED <<session, epoch, unguarded>>
  BY <1>1 DEF A!DeactivateUser, AccountsTyped
<1>5. user' \in [Users -> [owner : BOOLEAN, active : BOOLEAN]]
  BY <1>1 DEF A!DeactivateUser, AccountsTyped, RequestKnows
<1>6. desk[h].of \in Users /\ desk[h].from = 0
  BY <1>1 DEF RequestKnows
<1> HIDE DEF slot
<1> QED
  BY <1>2, <1>3, <1>4, <1>5, <1>6, RequestTyped DEF AccountsTyped

LEMMA OtherTyped ==
  ASSUME AccountsTyped,
         \/ \E u \in Users : A!Revoke(u) \/ A!Update(u)
         \/ \E h \in Workers : A!Die(h) \/ A!DeactivateSessions(h)
  PROVE  AccountsTyped'
<1>1. ASSUME NEW u \in Users, A!Revoke(u)
      PROVE  AccountsTyped'
  BY <1>1, RevokesAll, RevokedTyped DEF A!Revoke, AccountsTyped
<1>2. ASSUME NEW u \in Users, A!Update(u)
      PROVE  AccountsTyped'
  BY <1>2 DEF A!Update, AccountsTyped, IssuedRow, RequestKnows
<1>3. ASSUME NEW h \in Workers, A!Die(h)
      PROVE  AccountsTyped'
  <2>1. A!Idle \in RequestRow /\ A!Idle.pc = "idle" /\ A!Idle.from = 0
    BY IdleRequest DEF A!Idle
  <2> QED
    BY <1>3, <2>1, RequestTyped DEF A!Die, AccountsTyped
<1>4. ASSUME NEW h \in Workers, A!DeactivateSessions(h)
      PROVE  AccountsTyped'
  <2>1. desk[h].of \in Users /\ A!RevokeAll(desk[h].of) /\ UNCHANGED <<user, unguarded>>
        /\ desk' = [desk EXCEPT ![h] = A!Idle]
    BY <1>4 DEF A!DeactivateSessions, AccountsTyped, RequestKnows
  <2>2. desk' \in [Workers -> RequestRow] /\ \A g \in Workers : desk'[g] = desk[g] \/ desk'[g] = A!Idle
    BY <2>1, IdleRequest DEF AccountsTyped
  <2> QED
    BY <2>1, <2>2, RevokesAll, RevokedTyped DEF AccountsTyped
<1> QED
  BY <1>1, <1>2, <1>3, <1>4

LEMMA AccountsTypedStep ==
  ASSUME AccountsTyped, [A!Next]_A!vars
  PROVE  AccountsTyped'
<1>1. CASE UNCHANGED A!vars
  BY <1>1 DEF A!vars, AccountsTyped, IssuedRow, RequestKnows
<1> QED
  BY <1>1, LoginTyped, RefreshTyped, RotateTyped, IssueTyped, DeactivationTyped, DeactivateUserTyped,
     OtherTyped DEF A!Next

-----------------------------------------------------------------------------
(* The lines of sessions.                                                  *)

\* Sessions and requests that are no more than they were keep a line one.
LEMMA LineShrinks ==
  ASSUME NEW r, LineIsOne(r),
         \A s \in Sessions : LiveOf(s, r)' => LiveOf(s, r),
         \A g \in Workers : Refreshing(g, r)' => Refreshing(g, r),
         \A g \in Workers : Refreshing(g, r)' => desk'[g].from = desk[g].from /\ desk'[g].pc = desk[g].pc
  PROVE  LineIsOne(r)'
BY DEF LineIsOne

LEMMA RefreshKeepsLine ==
  ASSUME AccountsTyped, NEW r \in Sessions, LineIsOne(r), NEW h \in Workers, NEW s \in Sessions,
         A!RefreshStart(h, s)
  PROVE  LineIsOne(r)'
<1>1. session' = session /\ session[s].live /\ desk'[h].pc = "rotate" /\ desk'[h].from = s
  BY RefreshStarts
<1>2. \A t \in Sessions : LiveOf(t, r)' <=> LiveOf(t, r)
  BY <1>1 DEF LiveOf
<1>3. ASSUME NEW g \in Workers \ {h}, Refreshing(g, r)'
      PROVE  /\ Refreshing(g, r) /\ ~ (desk[g].pc = "rotate" /\ desk[g].from = s)
             /\ desk'[g].from = desk[g].from /\ desk'[g].pc = desk[g].pc
  BY <1>1, <1>3, RefreshStarts DEF Refreshing
<1>4. ASSUME Refreshing(h, r)'
      PROVE  LiveOf(s, r)
  BY <1>1, <1>4, RefreshStarts DEF Refreshing, LiveOf
<1> QED
  BY <1>1, <1>2, <1>3, <1>4 DEF LineIsOne

LEMMA RotateKeepsLine ==
  ASSUME AccountsTyped, NEW r \in Sessions, LineIsOne(r), NEW h \in Workers, A!RefreshRotate(h)
  PROVE  LineIsOne(r)'
<1> DEFINE f == desk[h].from
<1>1. /\ desk[h].pc = "rotate" /\ f \in Sessions
      /\ session' = [session EXCEPT ![f] = [session[f] EXCEPT !.live = FALSE]]
      /\ desk' = [desk EXCEPT ![h] = [desk[h] EXCEPT !.pc = "issue"]]
  BY Rotates
<1>2. session[f] \in SessionRow /\ desk[h] \in RequestRow
  BY <1>1 DEF AccountsTyped
<1>3. \A s \in Sessions : LiveOf(s, r)' => LiveOf(s, r) /\ s # f
  BY <1>1, <1>2 DEF LiveOf, AccountsTyped, SessionRow
<1>4. \A s \in Sessions : session'[s].root = session[s].root
  BY <1>1, <1>2 DEF AccountsTyped, SessionRow
<1>5. \A g \in Workers : desk'[g].from = desk[g].from /\ desk'[g].forked = desk[g].forked
                         /\ (g # h => desk'[g].pc = desk[g].pc)
  BY <1>1, <1>2 DEF AccountsTyped, RequestRow
<1>6. \A g \in Workers : Refreshing(g, r)' => Refreshing(g, r)
  <2>1. \A g \in Workers : desk[g].from \in Sessions \cup {0}
    BY DEF AccountsTyped, RequestRow
  <2> QED
    BY <1>4, <1>5, <2>1 DEF Refreshing
<1> HIDE DEF f
<1>7. ASSUME NEW g \in Workers, NEW s \in Sessions, Refreshing(g, r)', LiveOf(s, r)'
      PROVE  desk'[g].pc = "rotate" /\ desk'[g].from = s
  <2>1. desk[g].pc = "rotate" /\ desk[g].from = s /\ s # f
    BY <1>3, <1>6, <1>7 DEF LineIsOne
  <2> QED
    BY <1>5, <2>1 DEF f
<1> QED
  BY <1>3, <1>6, <1>7 DEF LineIsOne

LEMMA IssueKeepsLine ==
  ASSUME AccountsTyped, NEW r \in Sessions, LineIsOne(r), NEW h \in Workers, A!Issue(h)
  PROVE  LineIsOne(r)'
<1>1. PICK s \in Sessions, new \in SessionRow :
           /\ desk[h].pc = "issue" /\ session[s].root = 0
           /\ new.forked = desk[h].forked
           /\ new.root = IF desk[h].from = 0 THEN s ELSE session[desk[h].from].root
           /\ session' = [session EXCEPT ![s] = new]
           /\ desk' = [desk EXCEPT ![h] = A!Idle]
  BY Issues
<1>2. \A t \in Sessions : session'[t] = IF t = s THEN new ELSE session[t]
  BY <1>1 DEF AccountsTyped
<1>3. \A t \in Sessions \ {s} : LiveOf(t, r)' <=> LiveOf(t, r)
  BY <1>2 DEF LiveOf
<1>4. \A g \in Workers : /\ RequestKnows(g) /\ desk[g].from \in Sessions \cup {0}
                         /\ desk[g].from # 0 => desk[g].from # s /\ session[desk[g].from].root # 0
  BY <1>1 DEF AccountsTyped, RequestKnows, RequestRow
<1>5. \A g \in Workers : Refreshing(g, r)' => g # h
  BY <1>1 DEF Refreshing, A!Idle, AccountsTyped
<1>6. \A g \in Workers : Refreshing(g, r)' => Refreshing(g, r) /\ desk'[g] = desk[g]
  <2>1. \A g \in Workers \ {h} : desk'[g] = desk[g]
    BY <1>1 DEF AccountsTyped
  <2>2. \A g \in Workers \ {h} : desk[g].from # 0 => session'[desk[g].from] = session[desk[g].from]
    BY <1>2, <1>4
  <2> QED
    BY <1>5, <2>1, <2>2 DEF Refreshing
<1>7. CASE desk[h].from = 0
  <2>1. new.root = s /\ s # 0
    BY <1>1, <1>7, UsersAssumption
  <2>2. \A t \in Sessions \ {s} : session[t].root = s => IssuedRow(t) /\ session[session[t].root].root # 0
    BY <2>1 DEF AccountsTyped, IssuedRow
  <2>3. \A t \in Sessions : session[t].root # s
    BY <1>1, <2>1, <2>2
  <2>4. CASE r = s
    <3>1. \A t \in Sessions : LiveOf(t, r)' => t = s
      BY <1>3, <2>3, <2>4 DEF LiveOf
    <3>2. \A g \in Workers : ~ Refreshing(g, r)'
      BY <1>4, <1>6, <2>3, <2>4 DEF Refreshing
    <3> QED
      BY <3>1, <3>2 DEF LineIsOne
  <2>5. CASE r # s
    <3>1. ~ LiveOf(s, r)'
      BY <1>2, <2>1, <2>5 DEF LiveOf
    <3> QED
      BY <1>3, <1>6, <3>1, LineShrinks
  <2> QED
    BY <2>4, <2>5
<1>8. CASE desk[h].from # 0
  <2>1. LiveOf(s, r)' => Refreshing(h, r)
    BY <1>1, <1>2, <1>8 DEF LiveOf, Refreshing
  <2>2. ASSUME Refreshing(h, r)
        PROVE  /\ \A t \in Sessions : ~ LiveOf(t, r)
               /\ \A g \in Workers : ~ Refreshing(g, r)'
    BY <1>1, <1>5, <1>6, <2>2 DEF LineIsOne
  <2>3. CASE Refreshing(h, r)
    <3>1. \A t \in Sessions : LiveOf(t, r)' => t = s
      BY <1>3, <2>2, <2>3
    <3> QED
      BY <2>2, <2>3, <3>1 DEF LineIsOne
  <2>4. CASE ~ Refreshing(h, r)
    <3>1. \A t \in Sessions : LiveOf(t, r)' => LiveOf(t, r)
      BY <1>3, <2>1, <2>4
    <3> QED
      BY <1>6, <3>1, LineShrinks
  <2> QED
    BY <2>3, <2>4
<1> QED
  BY <1>7, <1>8

\* Whatever else happens to sessions and requests only ends some of them.
LEMMA OthersKeepLine ==
  ASSUME AccountsTyped, AccountsTyped', NEW r \in Sessions, LineIsOne(r),
         \/ \E u \in Users : A!Revoke(u) \/ A!Update(u)
         \/ \E h \in Workers : \/ \E u \in Users : A!LoginStart(h, u) \/ A!DeactivateStart(h, u)
                               \/ A!Die(h) \/ A!DeactivateUser(h) \/ A!DeactivateSessions(h)
         \/ UNCHANGED A!vars
  PROVE  LineIsOne(r)'
<1>1. \A s \in Sessions : session'[s].root = session[s].root /\ (LiveOf(s, r)' => LiveOf(s, r))
  <2>1. CASE session' = session
    BY <2>1 DEF LiveOf
  <2>2. ASSUME NEW u \in Users, A!RevokeAll(u)
        PROVE  \A s \in Sessions : session'[s].root = session[s].root /\ (LiveOf(s, r)' => LiveOf(s, r))
    BY <2>2, RevokesAll DEF LiveOf
  <2>3. \A h \in Workers : A!DeactivateSessions(h) => desk[h].of \in Users
    BY DEF A!DeactivateSessions, AccountsTyped, RequestKnows
  <2> QED
    BY <2>1, <2>2, <2>3 DEF A!Revoke, A!Update, A!LoginStart, A!DeactivateStart, A!Die, A!DeactivateUser,
       A!DeactivateSessions, A!vars
<1>2. \A g \in Workers : desk'[g] = desk[g] \/ desk'[g].from = 0
  <2>1. CASE desk' = desk
    BY <2>1
  <2>2. ASSUME NEW h \in Workers,
               \/ \E u \in Users : A!LoginStart(h, u) \/ A!DeactivateStart(h, u)
               \/ A!Die(h) \/ A!DeactivateUser(h) \/ A!DeactivateSessions(h)
        PROVE  \A g \in Workers : desk'[g] = desk[g] \/ desk'[g].from = 0
    <3>1. \A g \in Workers \ {h} : desk'[g] = desk[g]
      BY <2>2 DEF A!LoginStart, A!DeactivateStart, A!Die, A!DeactivateUser, A!DeactivateSessions, AccountsTyped
    <3>2. ASSUME NEW u \in Users, A!LoginStart(h, u) \/ A!DeactivateStart(h, u)
          PROVE  desk'[h].from = 0
      BY <3>2 DEF A!LoginStart, A!DeactivateStart, AccountsTyped, A!Idle
    <3>3. CASE A!Die(h) \/ A!DeactivateSessions(h)
      BY <3>3 DEF A!Die, A!DeactivateSessions, AccountsTyped, A!Idle
    <3>4. CASE A!DeactivateUser(h)
      <4>1. desk'[h].pc = "revoke"
        BY <3>4 DEF A!DeactivateUser, AccountsTyped, RequestRow
      <4>2. desk'[h].from = 0
        BY <4>1 DEF AccountsTyped, RequestKnows
      <4> QED
        BY <3>1, <4>2
    <3> QED
      BY <2>2, <3>1, <3>2, <3>3, <3>4
  <2> QED
    BY <2>1, <2>2 DEF A!Revoke, A!Update, A!vars
<1>3. \A g \in Workers : desk[g].from \in Sessions \cup {0}
  BY DEF AccountsTyped, RequestRow
<1>4. \A g \in Workers : Refreshing(g, r)' => Refreshing(g, r) /\ desk'[g] = desk[g]
  BY <1>1, <1>2, <1>3 DEF Refreshing
<1> QED
  BY <1>1, <1>4, LineShrinks

LEMMA LinesStayOne ==
  ASSUME AccountsTyped, NEW r \in Sessions, LineIsOne(r), [A!Next]_A!vars
  PROVE  LineIsOne(r)'
<1>1. AccountsTyped'
  BY AccountsTypedStep
<1>2. ASSUME NEW h \in Workers, NEW s \in Sessions, A!RefreshStart(h, s)
      PROVE  LineIsOne(r)'
  BY <1>2, RefreshKeepsLine
<1>3. ASSUME NEW h \in Workers, A!RefreshRotate(h)
      PROVE  LineIsOne(r)'
  BY <1>3, RotateKeepsLine
<1>4. ASSUME NEW h \in Workers, A!Issue(h)
      PROVE  LineIsOne(r)'
  BY <1>1, <1>4, IssueKeepsLine
<1>5. CASE \/ \E u \in Users : A!Revoke(u) \/ A!Update(u)
           \/ \E h \in Workers : \/ \E u \in Users : A!LoginStart(h, u) \/ A!DeactivateStart(h, u)
                                 \/ A!Die(h) \/ A!DeactivateUser(h) \/ A!DeactivateSessions(h)
           \/ UNCHANGED A!vars
  BY <1>1, <1>5, OthersKeepLine
<1>6. \/ \E h \in Workers, s \in Sessions : A!RefreshStart(h, s)
      \/ \E h \in Workers : A!RefreshRotate(h)
      \/ \E h \in Workers : A!Issue(h)
      \/ \E u \in Users : A!Revoke(u) \/ A!Update(u)
      \/ \E h \in Workers : \/ \E u \in Users : A!LoginStart(h, u) \/ A!DeactivateStart(h, u)
                            \/ A!Die(h) \/ A!DeactivateUser(h) \/ A!DeactivateSessions(h)
      \/ UNCHANGED A!vars
  BY Zenon DEF A!Next
<1> QED
  BY <1>2, <1>3, <1>4, <1>5, <1>6

-----------------------------------------------------------------------------
(* Revocations and owners.                                                 *)

LEMMA RevocationStep ==
  ASSUME AccountsTyped, A!RevocationHolds, [A!Next]_A!vars
  PROVE  A!RevocationHolds'
<1> DEFINE Good(s) == session[s].live => session[s].epoch = epoch[session[s].of] \/ session[s].late
<1>0. \A s \in Sessions : Good(s)
  BY DEF A!RevocationHolds, A!Live
<1>1. ASSUME session' = session, epoch' = epoch
      PROVE  \A s \in Sessions : Good(s)'
  BY <1>0, <1>1
<1>2. ASSUME NEW u \in Users, A!RevokeAll(u)
      PROVE  \A s \in Sessions : Good(s)'
  <2>1. ASSUME NEW s \in Sessions, session'[s].live
        PROVE  session'[s] = session[s] /\ epoch'[session[s].of] = epoch[session[s].of]
    <3>1. session'[s] = session[s] /\ session[s].of # u /\ session[s].root # 0
      BY <1>2, <2>1, RevokesAll, MadeHasRoot
    <3>2. session[s].of \in Users
      BY <3>1 DEF AccountsTyped, IssuedRow
    <3> QED
      BY <1>2, <3>1, <3>2, RevokesAll
  <2> QED
    BY <1>0, <2>1
<1>3. ASSUME NEW h \in Workers, A!RefreshRotate(h)
      PROVE  \A s \in Sessions : Good(s)'
  <2>1. desk[h].from \in Sessions /\ epoch' = epoch
        /\ session' = [session EXCEPT ![desk[h].from] = [session[desk[h].from] EXCEPT !.live = FALSE]]
    BY <1>3, Rotates
  <2>2. \A s \in Sessions : session'[s].live => session'[s] = session[s]
    BY <2>1 DEF AccountsTyped, SessionRow
  <2> QED
    BY <1>0, <2>1, <2>2
<1>4. ASSUME NEW h \in Workers, A!Issue(h)
      PROVE  \A s \in Sessions : Good(s)'
  <2>1. PICK s \in Sessions, new \in SessionRow :
           /\ new.of = desk[h].of /\ new.epoch = desk[h].epoch
           /\ desk[h].epoch = epoch[desk[h].of] \/ new.late
           /\ session' = [session EXCEPT ![s] = new] /\ epoch' = epoch
    BY <1>4, Issues
  <2>2. \A t \in Sessions : session'[t] = IF t = s THEN new ELSE session[t]
    BY <2>1 DEF AccountsTyped
  <2> QED
    BY <1>0, <2>1, <2>2
<1>5. \A h \in Workers : A!DeactivateSessions(h) => desk[h].of \in Users /\ A!RevokeAll(desk[h].of)
  BY DEF A!DeactivateSessions, AccountsTyped, RequestKnows
<1>6. \/ session' = session /\ epoch' = epoch
      \/ \E u \in Users : A!RevokeAll(u)
      \/ \E h \in Workers : A!RefreshRotate(h)
      \/ \E h \in Workers : A!Issue(h)
  <2>1. CASE UNCHANGED A!vars
    BY <2>1 DEF A!vars
  <2>2. ASSUME NEW u \in Users, A!Revoke(u) \/ A!Update(u)
        PROVE  (session' = session /\ epoch' = epoch) \/ A!RevokeAll(u)
    BY <2>2 DEF A!Revoke, A!Update
  <2>3. ASSUME NEW h \in Workers, NEW u \in Users, A!LoginStart(h, u) \/ A!DeactivateStart(h, u)
        PROVE  session' = session /\ epoch' = epoch
    BY <2>3 DEF A!LoginStart, A!DeactivateStart
  <2>4. ASSUME NEW h \in Workers, NEW s \in Sessions, A!RefreshStart(h, s)
        PROVE  session' = session /\ epoch' = epoch
    BY <2>4 DEF A!RefreshStart
  <2>5. ASSUME NEW h \in Workers, A!Die(h) \/ A!DeactivateUser(h)
        PROVE  session' = session /\ epoch' = epoch
    BY <2>5 DEF A!Die, A!DeactivateUser
  <2> QED
    BY <1>5, <2>1, <2>2, <2>3, <2>4, <2>5 DEF A!Next
<1>7. \A s \in Sessions : Good(s)'
  BY <1>1, <1>2, <1>3, <1>4, <1>6
<1> QED
  BY <1>7 DEF A!RevocationHolds, A!Live

\* Of more than one owner another is there than any one.
LEMMA AnotherOwner ==
  ASSUME A!Counted > 1, NEW u \in A!Owners
  PROVE  \E v \in A!Owners : v # u
<1>1. A!Owners \subseteq Users /\ IsFiniteSet(A!Owners)
  BY UsersAssumption, FS_Subset DEF A!Owners
<1>2. Cardinality(A!Owners) > 1
  BY Zenon DEF A!Counted, A!Cardinality, Cardinality
<1>3. ASSUME \A v \in A!Owners : v = u
      PROVE  FALSE
  <2>1. A!Owners = {u}
    BY <1>3
  <2>2. Cardinality({u}) = 1
    BY FS_Singleton
  <2> QED
    BY <1>2, <2>1, <2>2
<1> QED
  BY <1>3

LEMMA OwnersStep ==
  ASSUME AccountsTyped, OwnersKept, [A!Next]_A!vars
  PROVE  OwnersKept'
<1>0. A!Owners = {u \in Users : user[u].owner /\ user[u].active}
  BY DEF A!Owners
<1>1. ASSUME NEW h \in Workers, NEW u \in Users, A!DeactivateStart(h, u)
      PROVE  OwnersKept'
  <2>1. /\ user' = user /\ desk' = [desk EXCEPT ![h] = [A!Idle EXCEPT !.pc = "deactivate", !.of = u]]
        /\ user[u].owner => A!Counted > 1
        /\ ~ unguarded' => ~ unguarded /\ \A g \in Workers : desk[g].pc # "deactivate"
    BY <1>1 DEF A!DeactivateStart
  <2>2. /\ desk'[h].pc = "deactivate" /\ desk'[h].of = u
        /\ \A g \in Workers \ {h} : desk'[g] = desk[g]
    BY <2>1 DEF AccountsTyped, A!Idle
  <2>3. A!Owners' = A!Owners
    BY <2>1 DEF A!Owners
  <2>4. ~ unguarded => \E v \in A!Owners : v # u
    <3>1. CASE u \in A!Owners
      BY <2>1, <3>1, AnotherOwner DEF A!Owners
    <3>2. CASE u \notin A!Owners
      BY <3>2 DEF OwnersKept
    <3> QED
      BY <3>1, <3>2
  <2> QED
    BY <2>1, <2>2, <2>3, <2>4 DEF OwnersKept
<1>2. ASSUME NEW h \in Workers, A!DeactivateUser(h)
      PROVE  OwnersKept'
  <2>1. /\ desk[h].pc = "deactivate" /\ desk[h].of \in Users /\ unguarded' = unguarded
        /\ user' = [user EXCEPT ![desk[h].of] = [user[desk[h].of] EXCEPT !.active = FALSE]]
        /\ desk' = [desk EXCEPT ![h] = [desk[h] EXCEPT !.pc = "revoke"]]
    BY <1>2 DEF A!DeactivateUser, AccountsTyped, RequestKnows
  <2>2. /\ desk'[h].pc = "revoke" /\ \A g \in Workers \ {h} : desk'[g] = desk[g]
    BY <2>1 DEF AccountsTyped, RequestRow
  <2>3. \A v \in A!Owners : v # desk[h].of => v \in A!Owners'
    BY <2>1 DEF A!Owners, AccountsTyped
  <2>4. ~ unguarded => \A g \in Workers : desk'[g].pc # "deactivate"
    BY <2>1, <2>2 DEF OwnersKept
  <2> QED
    BY <2>1, <2>3, <2>4 DEF OwnersKept
<1>3. ASSUME NEW u \in Users, A!Update(u)
      PROVE  OwnersKept'
  <2>1. PICK owner, active \in BOOLEAN :
          /\ user' = [user EXCEPT ![u] = [owner |-> owner, active |-> active]]
          /\ unguarded' = (unguarded \/ ~ owner \/ ~ active)
    BY <1>3 DEF A!Update
  <2>2. desk' = desk
    BY <1>3 DEF A!Update
  <2>3. ~ unguarded' => ~ unguarded /\ A!Owners \subseteq A!Owners'
    BY <2>1 DEF A!Owners, AccountsTyped
  <2> QED
    BY <2>2, <2>3 DEF OwnersKept
<1>4. ASSUME user' = user, unguarded' = unguarded,
             \A g \in Workers : desk'[g].pc = "deactivate" => desk'[g] = desk[g]
      PROVE  OwnersKept'
  BY <1>4 DEF OwnersKept, A!Owners
<1>5. ASSUME NEW h \in Workers,
             \/ \E u \in Users : A!LoginStart(h, u)
             \/ A!Issue(h) \/ A!Die(h) \/ A!DeactivateSessions(h) \/ A!RefreshRotate(h)
      PROVE  OwnersKept'
  <2>1. UNCHANGED <<user, unguarded>> /\ \A g \in Workers \ {h} : desk'[g] = desk[g]
    BY <1>5 DEF A!LoginStart, A!Issue, A!Die, A!DeactivateSessions, A!RefreshRotate, AccountsTyped
  <2>2. ASSUME NEW u \in Users, A!LoginStart(h, u)
        PROVE  desk'[h].pc # "deactivate"
    BY <2>2 DEF A!LoginStart, AccountsTyped, A!Idle
  <2>3. ASSUME A!Issue(h) \/ A!Die(h) \/ A!DeactivateSessions(h)
        PROVE  desk'[h].pc # "deactivate"
    BY <2>3 DEF A!Issue, A!Die, A!DeactivateSessions, AccountsTyped, A!Idle
  <2>4. ASSUME A!RefreshRotate(h)
        PROVE  desk'[h].pc # "deactivate"
    BY <2>4 DEF A!RefreshRotate, AccountsTyped, RequestRow
  <2>5. desk'[h].pc # "deactivate"
    BY <1>5, <2>2, <2>3, <2>4
  <2> QED
    BY <1>4, <2>1, <2>5
<1>6. ASSUME NEW h \in Workers, NEW s \in Sessions, A!RefreshStart(h, s)
      PROVE  OwnersKept'
  BY <1>4, <1>6, RefreshStarts
<1>7. CASE UNCHANGED A!vars
  BY <1>4, <1>7 DEF A!vars
<1>8. ASSUME NEW u \in Users, A!Revoke(u)
      PROVE  OwnersKept'
  BY <1>4, <1>8 DEF A!Revoke
<1>9. CASE \E u \in Users : A!Revoke(u) \/ A!Update(u)
  BY <1>3, <1>8, <1>9
<1>10. CASE \E h \in Workers : \/ \E u \in Users : A!LoginStart(h, u) \/ A!DeactivateStart(h, u)
                               \/ \E s \in Sessions : A!RefreshStart(h, s)
                               \/ A!RefreshRotate(h) \/ A!Issue(h) \/ A!Die(h)
                               \/ A!DeactivateUser(h) \/ A!DeactivateSessions(h)
  <2> PICK h \in Workers : \/ \E u \in Users : A!LoginStart(h, u) \/ A!DeactivateStart(h, u)
                           \/ \E s \in Sessions : A!RefreshStart(h, s)
                           \/ A!RefreshRotate(h) \/ A!Issue(h) \/ A!Die(h)
                           \/ A!DeactivateUser(h) \/ A!DeactivateSessions(h)
    BY <1>10
  <2>1. ASSUME NEW u \in Users, A!LoginStart(h, u)
        PROVE  OwnersKept'
    BY <1>5, <2>1
  <2>2. ASSUME NEW u \in Users, A!DeactivateStart(h, u)
        PROVE  OwnersKept'
    BY <1>1, <2>2
  <2>3. ASSUME NEW s \in Sessions, A!RefreshStart(h, s)
        PROVE  OwnersKept'
    BY <1>6, <2>3
  <2>4. CASE A!DeactivateUser(h)
    BY <1>2, <2>4
  <2>5. CASE A!RefreshRotate(h) \/ A!Issue(h) \/ A!Die(h) \/ A!DeactivateSessions(h)
    BY <1>5, <2>5, Zenon
  <2> QED
    BY <2>1, <2>2, <2>3, <2>4, <2>5
<1> QED
  BY <1>7, <1>9, <1>10 DEF A!Next

\* The invariant, in every state of the platform.
LEMMA AccountInvHolds == PlatformSpec => []AccountInv
<1>1. PlatformInit => AccountInv
  BY AccountInit DEF PlatformInit
<1>2. AccountInv /\ [PlatformNext]_platformVars => AccountInv'
  BY AccountsMove, AccountsTypedStep, LinesStayOne, RevocationStep, OwnersStep DEF AccountInv
<1> QED
  BY <1>1, <1>2, PTL DEF PlatformSpec

\* A login has one live session unless two refreshes matched one at once, a session
\* that lives began after the last revocation unless one fell between a check and an
\* insert, and a hotel keeps an owner unless deactivations overlap or update takes
\* one away: auth.service and users.service, for any staff, sessions and requests.
THEOREM LoginsAlwaysHold == PlatformSpec => []LoginsHold
<1>1. ASSUME AccountInv
      PROVE  A!RotationKeepsOne
  <2> SUFFICES ASSUME NEW s \in A!Live, NEW t \in A!Live, s # t, session[s].root = session[t].root,
                      ~ session[s].forked, ~ session[t].forked
               PROVE  FALSE
    BY DEF A!RotationKeepsOne
  <2>1. s \in Sessions /\ t \in Sessions /\ session[s].live /\ session[t].live /\ session[s].root \in Sessions
    BY <1>1, MadeHasRoot DEF AccountInv, AccountsTyped, IssuedRow
  <2> QED
    BY <1>1, <2>1 DEF AccountInv, LineIsOne, LiveOf
<1>2. AccountInv => LoginsHold
  BY <1>1 DEF LoginsHold, AccountInv, OwnersKept, A!OwnerRemains
<1> QED
  BY <1>2, AccountInvHolds, PTL


-----------------------------------------------------------------------------
(* The payments of guests.                                                 *)

Busy       == {"record", "store", "look", "mark", "confirm", "answer"}
MoneyRow   == [pc : Busy, money : G!Money, held : BOOLEAN]
HandlerRow == {G!Idle} \cup [pc : {"open"}, of : Reservations] \cup MoneyRow
AccountRow == [status : {"ACTIVE", "RECEIVED"}, of : Reservations, live : BOOLEAN]

\* The rows and what is at hand: a handler has a payment that was made, a transfer that
\* was made is on an account, and a payment that was not made has no row.
PaymentsTyped ==
    /\ booking \in [Reservations -> {"HELD", "CONFIRMED", "CANCELLED"}]
    /\ account \in [Accounts -> {G!NoAccount} \cup AccountRow]
    /\ paid \subseteq G!Money
    /\ into \in [Transfers -> {0} \cup Accounts]
    /\ rows \in [G!Money -> Nat]
    /\ answered \subseteq paid
    /\ handler \in [Workers -> HandlerRow]
    /\ faults \in 0 .. MaxFaults
    /\ \A h \in Workers : handler[h].pc \in Busy => handler[h].money \in paid
    /\ \A h \in Workers : handler[h].pc = "look" => handler[h].money \in Cards
    /\ \A h \in Workers : handler[h].pc = "mark" => handler[h].money \in Transfers
    /\ \A c \in Transfers \cap paid : into[c] \in Accounts /\ account[into[c]] # G!NoAccount
    /\ \A c \in G!Money \ paid : rows[c] = 0

LEMMA PaymentsInit == ASSUME PlatformInit PROVE PaymentsTyped
BY PaymentsAssumption DEF PlatformInit, G!Init, PaymentsTyped, HandlerRow, G!Idle, G!NoAccount, G!Money, Busy

\* What a handler that is busy holds.
LEMMA BusyRow ==
  ASSUME PaymentsTyped, NEW h \in Workers, handler[h].pc \in Busy
  PROVE  handler[h] \in MoneyRow /\ handler[h].money \in paid /\ handler[h].money \in G!Money
<1>1. handler[h] \in HandlerRow
  BY DEF PaymentsTyped
<1>2. handler[h] # G!Idle /\ handler[h] \notin [pc : {"open"}, of : Reservations]
  BY DEF G!Idle, Busy
<1> QED
  BY <1>1, <1>2 DEF PaymentsTyped, HandlerRow

\* A handler that goes on to p.
LEMMA Advances ==
  ASSUME PaymentsTyped, NEW h \in Workers, NEW p \in Busy, handler[h].pc \in Busy,
         handler' = [handler EXCEPT ![h].pc = p]
  PROVE  /\ handler' \in [Workers -> HandlerRow]
         /\ handler'[h].pc = p /\ handler'[h].money = handler[h].money /\ handler'[h].held = handler[h].held
         /\ \A g \in Workers \ {h} : handler'[g] = handler[g]
<1>1. handler[h] \in MoneyRow /\ handler \in [Workers -> HandlerRow]
  BY BusyRow DEF PaymentsTyped
<1> DEFINE slot == [handler[h] EXCEPT !.pc = p]
<1>2. slot \in MoneyRow /\ slot.pc = p /\ slot.money = handler[h].money /\ slot.held = handler[h].held
  BY <1>1 DEF MoneyRow
<1>3. slot \in HandlerRow
  BY <1>2 DEF HandlerRow
<1>4. handler' = [handler EXCEPT ![h] = slot]
  OBVIOUS
<1> HIDE DEF slot
<1> QED
  BY <1>1, <1>2, <1>3, <1>4

\* A handler that is done, or failed.
LEMMA Rests ==
  ASSUME PaymentsTyped, NEW h \in Workers, handler' = [handler EXCEPT ![h] = G!Idle]
  PROVE  /\ handler' \in [Workers -> HandlerRow]
         /\ handler'[h].pc = "idle"
         /\ \A g \in Workers \ {h} : handler'[g] = handler[g]
BY DEF PaymentsTyped, HandlerRow, G!Idle

\* A handler that begins.
LEMMA Begins ==
  ASSUME PaymentsTyped, NEW h \in Workers, NEW c \in paid, G!Begin(h, c)
  PROVE  /\ handler' \in [Workers -> HandlerRow]
         /\ handler'[h].money = c
         /\ handler'[h].held <=> c \in Transfers /\ booking[G!ReservationOf(c)] = "HELD"
         /\ \/ G!KeyOf(c) \in stored /\ c \in Cards /\ handler'[h].pc = "look"
            \/ G!KeyOf(c) \in stored /\ c \in Transfers /\ handler'[h].pc = "mark"
            \/ G!KeyOf(c) \notin stored /\ handler'[h].pc = "record"
               /\ exposed' = exposed \cup {k \in {G!KeyOf(c)} : \E g \in Workers : G!Carries(g, k)}
         /\ exposed \subseteq exposed'
         /\ \A g \in Workers \ {h} : handler'[g] = handler[g]
         /\ UNCHANGED <<booking, account, paid, into, stored, rows, answered, faults>>
<1> DEFINE p == IF G!Known(c) THEN G!AfterHit(c) ELSE "record"
           b == c \in Transfers /\ booking[G!ReservationOf(c)] = "HELD"
           slot == [pc |-> p, money |-> c, held |-> b]
<1>1. /\ handler' = [handler EXCEPT ![h] = slot]
      /\ exposed' = exposed \cup {k \in {G!KeyOf(c)} : ~ G!Known(c) /\ \E g \in Workers : G!Carries(g, k)}
      /\ UNCHANGED <<booking, account, paid, into, stored, rows, answered, faults>>
  BY DEF G!Begin
<1>2. c \in G!Money /\ (c \in Cards \/ c \in Transfers)
  BY DEF PaymentsTyped, G!Money
<1>3. p \in Busy
  BY DEF G!AfterHit, G!Afterwards, Busy
<1>4. \/ G!KeyOf(c) \in stored /\ c \in Cards /\ p = "look"
      \/ G!KeyOf(c) \in stored /\ c \in Transfers /\ p = "mark"
      \/ G!KeyOf(c) \notin stored /\ p = "record"
  BY <1>2 DEF G!Known, G!AfterHit, G!Afterwards
<1> HIDE DEF p, b
<1>5. slot \in HandlerRow
  <2>1. b \in BOOLEAN
    BY DEF b
  <2> QED
    BY <1>2, <1>3, <2>1 DEF HandlerRow, MoneyRow
<1>6. slot.pc = p /\ slot.money = c /\ slot.held = b
  OBVIOUS
<1> HIDE DEF slot
<1>7. handler' \in [Workers -> HandlerRow] /\ handler'[h] = slot /\ \A g \in Workers \ {h} : handler'[g] = handler[g]
  BY <1>1, <1>5 DEF PaymentsTyped
<1> QED
  BY <1>1, <1>4, <1>6, <1>7 DEF b, G!Known

\* The reservation a payment is for.
LEMMA PaidIsFor ==
  ASSUME PaymentsTyped, NEW c \in paid
  PROVE  G!ReservationOf(c) \in Reservations
<1>1. c \in Cards \/ c \in Transfers
  BY DEF PaymentsTyped, G!Money
<1>2. CASE c \in Cards
  BY <1>2, PaymentsAssumption DEF G!ReservationOf
<1>3. CASE c \in Transfers
  <2>1. c \notin Cards /\ into[c] \in Accounts /\ account[into[c]] # G!NoAccount
    BY <1>3, PaymentsAssumption DEF PaymentsTyped
  <2>2. account[into[c]] \in AccountRow
    BY <2>1 DEF PaymentsTyped
  <2> QED
    BY <2>1, <2>2 DEF G!ReservationOf, AccountRow
<1> QED
  BY <1>1, <1>2, <1>3

-----------------------------------------------------------------------------
(* What a step keeps.                                                      *)

\* What is paid stays paid, into the account it was, an account keeps its reservation
\* and stays marked, and a booking that left its hold is never held again.
Steady ==
    /\ paid \subseteq paid'
    /\ \A c \in Transfers \cap paid : into'[c] = into[c]
    /\ \A a \in Accounts : account[a] # G!NoAccount =>
         /\ account'[a] # G!NoAccount /\ account'[a].of = account[a].of
         /\ account[a].status = "RECEIVED" => account'[a].status = "RECEIVED"
    /\ \A r \in Reservations : booking[r] # "HELD" => booking'[r] # "HELD"
    /\ exposed \subseteq exposed'
    /\ account' \in [Accounts -> {G!NoAccount} \cup AccountRow]
    /\ booking' \in [Reservations -> {"HELD", "CONFIRMED", "CANCELLED"}]

LEMMA AccountsStand ==
  ASSUME PaymentsTyped,
         \/ account' = account
         \/ \E a \in Accounts : account[a] # G!NoAccount /\ account' = [account EXCEPT ![a].live = FALSE]
         \/ \E a \in Accounts : account[a] # G!NoAccount /\ account' = [account EXCEPT ![a].status = "RECEIVED"]
         \/ \E a \in Accounts, new \in AccountRow : account[a] = G!NoAccount /\ account' = [account EXCEPT ![a] = new]
  PROVE  /\ account' \in [Accounts -> {G!NoAccount} \cup AccountRow]
         /\ \A a \in Accounts : account[a] # G!NoAccount =>
              /\ account'[a] # G!NoAccount /\ account'[a].of = account[a].of
              /\ account[a].status = "RECEIVED" => account'[a].status = "RECEIVED"
<1>1. account \in [Accounts -> {G!NoAccount} \cup AccountRow]
  BY DEF PaymentsTyped
<1>2. \A slot \in AccountRow : slot # G!NoAccount
  BY DEF AccountRow, G!NoAccount
<1>3. ASSUME NEW a \in Accounts, NEW new \in AccountRow, account' = [account EXCEPT ![a] = new],
             account[a] # G!NoAccount => new.of = account[a].of
                                         /\ (account[a].status = "RECEIVED" => new.status = "RECEIVED")
      PROVE  /\ account' \in [Accounts -> {G!NoAccount} \cup AccountRow]
             /\ \A b \in Accounts : account[b] # G!NoAccount =>
                  /\ account'[b] # G!NoAccount /\ account'[b].of = account[b].of
                  /\ account[b].status = "RECEIVED" => account'[b].status = "RECEIVED"
  BY <1>1, <1>2, <1>3
<1>4. ASSUME NEW a \in Accounts, account[a] # G!NoAccount, account' = [account EXCEPT ![a].live = FALSE]
      PROVE  /\ [account[a] EXCEPT !.live = FALSE] \in AccountRow
             /\ [account[a] EXCEPT !.live = FALSE].of = account[a].of
             /\ [account[a] EXCEPT !.live = FALSE].status = account[a].status
             /\ account' = [account EXCEPT ![a] = [account[a] EXCEPT !.live = FALSE]]
  BY <1>1, <1>4 DEF AccountRow
<1>5. ASSUME NEW a \in Accounts, account[a] # G!NoAccount, account' = [account EXCEPT ![a].status = "RECEIVED"]
      PROVE  /\ [account[a] EXCEPT !.status = "RECEIVED"] \in AccountRow
             /\ [account[a] EXCEPT !.status = "RECEIVED"].of = account[a].of
             /\ [account[a] EXCEPT !.status = "RECEIVED"].status = "RECEIVED"
             /\ account' = [account EXCEPT ![a] = [account[a] EXCEPT !.status = "RECEIVED"]]
  BY <1>1, <1>5 DEF AccountRow
<1>6. CASE account' = account
  BY <1>1, <1>6
<1>7. CASE \E a \in Accounts : account[a] # G!NoAccount /\ account' = [account EXCEPT ![a].live = FALSE]
  <2> PICK a \in Accounts : account[a] # G!NoAccount /\ account' = [account EXCEPT ![a].live = FALSE]
    BY <1>7
  <2> QED
    BY <1>3, <1>4
<1>8. CASE \E a \in Accounts : account[a] # G!NoAccount /\ account' = [account EXCEPT ![a].status = "RECEIVED"]
  <2> PICK a \in Accounts : account[a] # G!NoAccount /\ account' = [account EXCEPT ![a].status = "RECEIVED"]
    BY <1>8
  <2> QED
    BY <1>3, <1>5
<1>9. CASE \E a \in Accounts, new \in AccountRow : account[a] = G!NoAccount /\ account' = [account EXCEPT ![a] = new]
  BY <1>3, <1>9
<1> QED
  BY <1>6, <1>7, <1>8, <1>9

\* What Next does to accounts, bookings and payments.
LEMMA PaymentsSteady ==
  ASSUME PaymentsTyped, [G!Next]_G!vars
  PROVE  Steady
<1> DEFINE Quiet == UNCHANGED <<booking, account, paid, into>> /\ exposed \subseteq exposed'
<1>1. ASSUME Quiet
      PROVE  Steady
  BY <1>1 DEF Steady, PaymentsTyped
<1>2. ASSUME NEW c \in Cards, G!PayByCard(c)
      PROVE  Steady
  BY <1>2 DEF G!PayByCard, Steady, PaymentsTyped
<1>3. ASSUME NEW c \in Transfers, NEW a \in Accounts, G!Transfer(c, a)
      PROVE  Steady
  BY <1>3 DEF G!Transfer, Steady, PaymentsTyped
<1>4. ASSUME NEW r \in Reservations, G!Release(r)
      PROVE  Steady
  BY <1>4 DEF G!Release, Steady, PaymentsTyped
<1>5. ASSUME NEW a \in Accounts, G!Expire(a)
      PROVE  Steady
  <2>1. UNCHANGED <<booking, paid, into, exposed>> /\ account[a] # G!NoAccount
        /\ account' = [account EXCEPT ![a].live = FALSE]
    BY <1>5 DEF G!Expire
  <2> QED
    BY <2>1, AccountsStand DEF Steady, PaymentsTyped
<1>6. ASSUME NEW h \in Workers, G!Open(h)
      PROVE  Steady
  <2>1. PICK a \in Accounts : account[a] = G!NoAccount
          /\ account' = [account EXCEPT ![a] = [status |-> "ACTIVE", of |-> handler[h].of, live |-> TRUE]]
    BY <1>6 DEF G!Open
  <2>2. handler[h].pc = "open" /\ UNCHANGED <<booking, paid, into, exposed>>
    BY <1>6 DEF G!Open
  <2>3. handler[h].of \in Reservations
    BY <2>2 DEF PaymentsTyped, HandlerRow, MoneyRow, Busy, G!Idle
  <2>4. [status |-> "ACTIVE", of |-> handler[h].of, live |-> TRUE] \in AccountRow
    BY <2>3 DEF AccountRow
  <2> QED
    BY <2>1, <2>2, <2>4, AccountsStand DEF Steady, PaymentsTyped
<1>7. ASSUME NEW h \in Workers, G!Mark(h)
      PROVE  Steady
  <2>1. /\ handler[h].pc = "mark" /\ UNCHANGED <<booking, paid, into, exposed>>
        /\ account' = [account EXCEPT ![into[handler[h].money]].status = "RECEIVED"]
    BY <1>7 DEF G!Mark
  <2>2. handler[h].money \in Transfers \cap paid
    BY <2>1 DEF PaymentsTyped, Busy
  <2>3. into[handler[h].money] \in Accounts /\ account[into[handler[h].money]] # G!NoAccount
    BY <2>2 DEF PaymentsTyped
  <2> QED
    BY <2>1, <2>3, AccountsStand DEF Steady, PaymentsTyped
<1>8. ASSUME NEW h \in Workers, G!Confirm(h)
      PROVE  Steady
  BY <1>8 DEF G!Confirm, Steady, PaymentsTyped
<1>9. CASE UNCHANGED G!vars
  BY <1>1, <1>9 DEF G!vars
<1>10. ASSUME NEW h \in Workers,
              \/ \E r \in Reservations : G!OpenStart(h, r)
              \/ \E c \in G!Money : G!Begin(h, c)
              \/ G!Record(h) \/ G!Store(h) \/ G!StoreFails(h) \/ G!Look(h)
              \/ G!ConfirmRefused(h) \/ G!Answer(h) \/ G!Fail(h)
       PROVE  Quiet
  BY <1>10 DEF G!OpenStart, G!Begin, G!Record, G!Store, G!StoreFails, G!Look, G!ConfirmRefused, G!Answer, G!Fail
<1>11. ASSUME NEW h \in Workers, (\E c \in Cards : G!Webhook(h, c)) \/ (\E c \in Transfers : G!Report(h, c))
       PROVE  \E c \in G!Money : G!Begin(h, c)
  BY <1>11 DEF G!Webhook, G!Report, G!Money
<1> HIDE DEF Quiet
<1>12. ASSUME NEW h \in Workers,
              \/ \E r \in Reservations : G!OpenStart(h, r)
              \/ \E c \in Cards : G!Webhook(h, c)
              \/ \E c \in Transfers : G!Report(h, c)
              \/ G!Proceed(h) \/ G!StoreFails(h) \/ G!Fail(h)
       PROVE  Steady
  <2>1. CASE \E r \in Reservations : G!OpenStart(h, r)
    BY <1>1, <1>10, <2>1
  <2>2. CASE (\E c \in Cards : G!Webhook(h, c)) \/ (\E c \in Transfers : G!Report(h, c))
    BY <1>1, <1>10, <1>11, <2>2
  <2>3. CASE G!StoreFails(h) \/ G!Fail(h)
    BY <1>1, <1>10, <2>3
  <2>4. CASE G!Record(h) \/ G!Store(h) \/ G!Look(h) \/ G!ConfirmRefused(h) \/ G!Answer(h)
    BY <1>1, <1>10, <2>4
  <2>5. CASE G!Open(h) \/ G!Mark(h) \/ G!Confirm(h)
    BY <1>6, <1>7, <1>8, <2>5
  <2> QED
    BY <1>12, <2>1, <2>2, <2>3, <2>4, <2>5, Zenon DEF G!Proceed
<1>13. CASE \E h \in Workers : \/ \E r \in Reservations : G!OpenStart(h, r)
                               \/ \E c \in Cards : G!Webhook(h, c)
                               \/ \E c \in Transfers : G!Report(h, c)
                               \/ G!Proceed(h) \/ G!StoreFails(h) \/ G!Fail(h)
  BY <1>12, <1>13, Zenon
<1>14. CASE \/ \E c \in Cards : G!PayByCard(c)
            \/ \E c \in Transfers, a \in Accounts : G!Transfer(c, a)
            \/ \E r \in Reservations : G!Release(r)
            \/ \E a \in Accounts : G!Expire(a)
  BY <1>2, <1>3, <1>4, <1>5, <1>14
<1> QED
  BY <1>9, <1>13, <1>14, Zenon DEF G!Next

-----------------------------------------------------------------------------
(* What a handler does in a step.                                          *)

\* It goes on to p, with the payment it has ...
Goes(h, p) ==
    /\ handler' \in [Workers -> HandlerRow]
    /\ handler'[h].pc = p /\ handler'[h].money = handler[h].money
    /\ \A g \in Workers \ {h} : handler'[g] = handler[g]

\* ... or has no payment any more.
Leaves(h) ==
    /\ handler' \in [Workers -> HandlerRow]
    /\ handler'[h].pc \notin Busy
    /\ \A g \in Workers \ {h} : handler'[g] = handler[g]

LEMMA Records ==
  ASSUME PaymentsTyped, NEW h \in Workers, G!Record(h)
  PROVE  /\ handler[h].pc = "record" /\ Goes(h, "store") /\ handler'[h].held = handler[h].held
         /\ rows' = [rows EXCEPT ![handler[h].money] = rows[handler[h].money] + 1]
         /\ UNCHANGED <<booking, account, paid, into, stored, answered, faults, exposed>>
<1>1. handler[h].pc = "record" /\ handler' = [handler EXCEPT ![h].pc = "store"]
  BY DEF G!Record
<1>2. handler[h].pc \in Busy /\ "store" \in Busy
  BY <1>1 DEF Busy
<1> QED
  BY <1>1, <1>2, Advances DEF G!Record, Goes

LEMMA Stores ==
  ASSUME PaymentsTyped, NEW h \in Workers, G!Store(h) \/ G!StoreFails(h)
  PROVE  /\ handler[h].pc = "store" /\ handler'[h].held = handler[h].held
         /\ \/ handler[h].money \in Cards /\ Goes(h, "look")
            \/ handler[h].money \in Transfers /\ Goes(h, "mark")
         /\ stored \subseteq stored' /\ stored' \subseteq stored \cup {G!KeyOf(handler[h].money)}
         /\ G!KeyOf(handler[h].money) \in stored' \cup exposed'
         /\ faults' \in 0 .. MaxFaults
         /\ UNCHANGED <<booking, account, paid, into, rows, answered>>
<1>1. handler[h].pc = "store" /\ handler' = [handler EXCEPT ![h].pc = G!Afterwards(handler[h].money)]
  BY DEF G!Store, G!StoreFails
<1>2. handler[h].pc \in Busy
  BY <1>1 DEF Busy
<1>3. handler[h].money \in Cards \/ handler[h].money \in Transfers
  BY <1>2, BusyRow DEF G!Money
<1>4. /\ G!Afterwards(handler[h].money) \in Busy
      /\ \/ handler[h].money \in Cards /\ G!Afterwards(handler[h].money) = "look"
         \/ handler[h].money \in Transfers /\ G!Afterwards(handler[h].money) = "mark"
  BY <1>3 DEF G!Afterwards, Busy
<1>5. Goes(h, G!Afterwards(handler[h].money)) /\ handler'[h].held = handler[h].held
  BY <1>1, <1>2, <1>4, Advances DEF Goes
<1>6. /\ stored \subseteq stored' /\ stored' \subseteq stored \cup {G!KeyOf(handler[h].money)}
      /\ G!KeyOf(handler[h].money) \in stored' \cup exposed'
      /\ UNCHANGED <<booking, account, paid, into, rows, answered>>
  BY DEF G!Store, G!StoreFails
<1>7. faults' \in 0 .. MaxFaults
  BY PaymentsAssumption DEF G!Store, G!StoreFails, PaymentsTyped
<1> QED
  BY <1>1, <1>4, <1>5, <1>6, <1>7

LEMMA Looks ==
  ASSUME PaymentsTyped, NEW h \in Workers, G!Look(h)
  PROVE  /\ handler[h].pc = "look" /\ handler[h].money \in Cards
         /\ \/ Goes(h, "confirm")
            \/ Goes(h, "answer") /\ booking[G!ReservationOf(handler[h].money)] # "HELD"
         /\ UNCHANGED <<booking, account, paid, into, stored, rows, answered, faults, exposed>>
<1> DEFINE held == booking[G!ReservationOf(handler[h].money)] = "HELD"
           p    == IF held THEN "confirm" ELSE "answer"
           slot  == [handler[h] EXCEPT !.held = held, !.pc = p]
<1>1. /\ handler[h].pc = "look"
      /\ handler' = [handler EXCEPT ![h].held = held, ![h].pc = p]
      /\ UNCHANGED <<booking, account, paid, into, stored, rows, answered, faults, exposed>>
  BY DEF G!Look
<1>2. handler[h].pc \in Busy /\ handler[h].money \in Cards
  BY <1>1 DEF Busy, PaymentsTyped
<1>3. handler[h] \in MoneyRow
  BY <1>2, BusyRow
<1>4. handler' = [handler EXCEPT ![h] = slot]
  BY <1>1
<1>5. p \in Busy /\ held \in BOOLEAN
  BY DEF Busy
<1>6. p = "confirm" \/ (p = "answer" /\ booking[G!ReservationOf(handler[h].money)] # "HELD")
  OBVIOUS
<1> HIDE DEF p, held
<1>7. slot \in MoneyRow /\ slot.pc = p /\ slot.money = handler[h].money
  BY <1>3, <1>5 DEF MoneyRow
<1> HIDE DEF slot
<1>8. Goes(h, p)
  BY <1>4, <1>7 DEF Goes, PaymentsTyped, HandlerRow
<1> QED
  BY <1>1, <1>2, <1>6, <1>8

LEMMA Marks ==
  ASSUME PaymentsTyped, NEW h \in Workers, G!Mark(h)
  PROVE  /\ handler[h].pc = "mark" /\ handler[h].money \in Transfers /\ handler'[h].held = handler[h].held
         /\ Goes(h, "confirm") \/ (Goes(h, "answer") /\ ~ handler[h].held)
         /\ account'[into[handler[h].money]].status = "RECEIVED"
         /\ UNCHANGED <<booking, paid, into, stored, rows, answered, faults, exposed>>
<1> DEFINE p == IF handler[h].held THEN "confirm" ELSE "answer"
<1>1. /\ handler[h].pc = "mark" /\ handler' = [handler EXCEPT ![h].pc = p]
      /\ account' = [account EXCEPT ![into[handler[h].money]].status = "RECEIVED"]
      /\ UNCHANGED <<booking, paid, into, stored, rows, answered, faults, exposed>>
  BY DEF G!Mark
<1>2. handler[h].pc \in Busy /\ p \in Busy /\ handler[h].money \in Transfers \cap paid
  BY <1>1 DEF Busy, PaymentsTyped
<1>3. (p = "confirm") \/ (p = "answer" /\ ~ handler[h].held)
  OBVIOUS
<1> HIDE DEF p
<1>4. Goes(h, p) /\ handler'[h].held = handler[h].held
  BY <1>1, <1>2, Advances DEF Goes
<1>5. into[handler[h].money] \in Accounts /\ account[into[handler[h].money]] \in AccountRow
  BY <1>2 DEF PaymentsTyped
<1>6. account'[into[handler[h].money]].status = "RECEIVED"
  BY <1>1, <1>5 DEF PaymentsTyped, AccountRow
<1> QED
  BY <1>1, <1>2, <1>3, <1>4, <1>6

LEMMA Confirms ==
  ASSUME PaymentsTyped, NEW h \in Workers, G!Confirm(h)
  PROVE  /\ handler[h].pc = "confirm" /\ Goes(h, "answer") /\ handler'[h].held = handler[h].held
         /\ booking'[G!ReservationOf(handler[h].money)] = "CONFIRMED"
         /\ UNCHANGED <<account, paid, into, stored, rows, answered, faults, exposed>>
<1>1. /\ handler[h].pc = "confirm" /\ handler' = [handler EXCEPT ![h].pc = "answer"]
      /\ booking' = [booking EXCEPT ![G!ReservationOf(handler[h].money)] = "CONFIRMED"]
      /\ UNCHANGED <<account, paid, into, stored, rows, answered, faults, exposed>>
  BY DEF G!Confirm
<1>2. handler[h].pc \in Busy /\ "answer" \in Busy
  BY <1>1 DEF Busy
<1>3. Goes(h, "answer") /\ handler'[h].held = handler[h].held
  BY <1>1, <1>2, Advances DEF Goes
<1>4. G!ReservationOf(handler[h].money) \in Reservations
  BY <1>2, BusyRow, PaidIsFor
<1> QED
  BY <1>1, <1>3, <1>4 DEF PaymentsTyped

\* The request, and the failure, of one that carries no row to be stored.
LEMMA Ends ==
  ASSUME PaymentsTyped, NEW h \in Workers,
         \/ \E r \in Reservations : G!OpenStart(h, r)
         \/ G!Open(h) \/ G!ConfirmRefused(h) \/ G!Fail(h) \/ G!Answer(h)
  PROVE  /\ Leaves(h)
         /\ handler[h].pc = "store" => G!KeyOf(handler[h].money) \in exposed'
         /\ \/ answered' = answered
            \/ handler[h].pc = "answer" /\ answered' = answered \cup {handler[h].money}
         /\ faults' \in 0 .. MaxFaults
         /\ UNCHANGED <<booking, paid, into, stored, rows>>
<1>1. ASSUME handler' = [handler EXCEPT ![h] = G!Idle]
      PROVE  Leaves(h)
  BY <1>1, Rests DEF Leaves, Busy
<1>2. ASSUME NEW r \in Reservations, G!OpenStart(h, r)
      PROVE  Leaves(h) /\ handler[h].pc = "idle"
  BY <1>2 DEF G!OpenStart, Leaves, PaymentsTyped, HandlerRow, Busy, G!Idle
<1>3. (G!Open(h) \/ G!ConfirmRefused(h) \/ G!Fail(h) \/ G!Answer(h)) => handler' = [handler EXCEPT ![h] = G!Idle]
  BY DEF G!Open, G!ConfirmRefused, G!Fail, G!Answer
<1>4. Leaves(h)
  BY <1>1, <1>2, <1>3
<1>5. handler[h].pc = "store" => G!KeyOf(handler[h].money) \in exposed'
  BY <1>2 DEF G!Open, G!ConfirmRefused, G!Fail, G!Answer
<1>6. /\ \/ answered' = answered
         \/ handler[h].pc = "answer" /\ answered' = answered \cup {handler[h].money}
      /\ UNCHANGED <<booking, paid, into, stored, rows>>
  BY DEF G!OpenStart, G!Open, G!ConfirmRefused, G!Fail, G!Answer
<1>7. faults' \in 0 .. MaxFaults
  <2>1. faults' = faults \/ (faults < MaxFaults /\ faults' = faults + 1)
    BY DEF G!OpenStart, G!Open, G!ConfirmRefused, G!Fail, G!Answer
  <2> QED
    BY <2>1, PaymentsAssumption DEF PaymentsTyped
<1> QED
  BY <1>4, <1>5, <1>6, <1>7

\* Everything else leaves the handlers alone.
LEMMA Outside ==
  ASSUME PaymentsTyped,
         \/ \E c \in Cards : G!PayByCard(c)
         \/ \E c \in Transfers, a \in Accounts : G!Transfer(c, a)
         \/ \E r \in Reservations : G!Release(r)
         \/ \E a \in Accounts : G!Expire(a)
         \/ UNCHANGED G!vars
  PROVE  /\ UNCHANGED <<handler, stored, rows, answered, faults, exposed>>
         /\ paid' = paid \/ \E c \in G!Money \ paid : paid' = paid \cup {c}
         /\ paid' \subseteq G!Money
         /\ into' \in [Transfers -> {0} \cup Accounts]
         /\ \A c \in Transfers \cap (paid' \ paid) : into'[c] \in Accounts /\ account'[into'[c]] # G!NoAccount
<1>1. ASSUME NEW c \in Cards, G!PayByCard(c)
      PROVE  /\ c \in G!Money \ paid /\ c \notin Transfers
             /\ paid' = paid \cup {c}
             /\ UNCHANGED <<into, handler, stored, rows, answered, faults, exposed>>
  BY <1>1, PaymentsAssumption DEF G!PayByCard, G!Money
<1>2. ASSUME NEW c \in Transfers, NEW a \in Accounts, G!Transfer(c, a)
      PROVE  /\ c \in G!Money \ paid
             /\ paid' = paid \cup {c}
             /\ into' = [into EXCEPT ![c] = a]
             /\ account' = account /\ account[a] # G!NoAccount
             /\ UNCHANGED <<handler, stored, rows, answered, faults, exposed>>
  BY <1>2 DEF G!Transfer, G!Money
<1>3. ASSUME \/ \E r \in Reservations : G!Release(r)
             \/ \E a \in Accounts : G!Expire(a)
             \/ UNCHANGED G!vars
      PROVE  UNCHANGED <<paid, into, handler, stored, rows, answered, faults, exposed>>
  BY <1>3 DEF G!Release, G!Expire, G!vars
<1>4. CASE \E c \in Cards : G!PayByCard(c)
  BY <1>1, <1>4 DEF PaymentsTyped
<1>5. CASE \E c \in Transfers, a \in Accounts : G!Transfer(c, a)
  <2> PICK c \in Transfers, a \in Accounts : G!Transfer(c, a)
    BY <1>5
  <2> QED
    BY <1>2 DEF PaymentsTyped, G!Money
<1>6. CASE \/ \E r \in Reservations : G!Release(r)
           \/ \E a \in Accounts : G!Expire(a)
           \/ UNCHANGED G!vars
  BY <1>3, <1>6 DEF PaymentsTyped
<1> QED
  BY <1>4, <1>5, <1>6

\* The steps of the payments, by what a handler does in them.
LEMMA PaymentSteps ==
  ASSUME [G!Next]_G!vars
  PROVE  \/ \/ \E c \in Cards : G!PayByCard(c)
            \/ \E c \in Transfers, a \in Accounts : G!Transfer(c, a)
            \/ \E r \in Reservations : G!Release(r)
            \/ \E a \in Accounts : G!Expire(a)
            \/ UNCHANGED G!vars
         \/ \E h \in Workers, c \in paid : G!Begin(h, c)
         \/ \E h \in Workers : G!Record(h)
         \/ \E h \in Workers : G!Store(h) \/ G!StoreFails(h)
         \/ \E h \in Workers : G!Look(h)
         \/ \E h \in Workers : G!Mark(h)
         \/ \E h \in Workers : G!Confirm(h)
         \/ \E h \in Workers : \/ \E r \in Reservations : G!OpenStart(h, r)
                               \/ G!Open(h) \/ G!ConfirmRefused(h) \/ G!Fail(h) \/ G!Answer(h)
<1>1. ASSUME NEW h \in Workers, (\E c \in Cards : G!Webhook(h, c)) \/ (\E c \in Transfers : G!Report(h, c))
      PROVE  \E c \in paid : G!Begin(h, c)
  BY <1>1 DEF G!Webhook, G!Report
<1> QED
  BY <1>1, Zenon DEF G!Next, G!Proceed

LEMMA PaymentsTypedStep ==
  ASSUME PaymentsTyped, [G!Next]_G!vars
  PROVE  PaymentsTyped'
<1>1. Steady
  BY PaymentsSteady
<1> DEFINE Keep == /\ handler' \in [Workers -> HandlerRow]
                   /\ \A h \in Workers : handler'[h].pc \in Busy => handler'[h].money \in paid'
                   /\ \A h \in Workers : handler'[h].pc = "look" => handler'[h].money \in Cards
                   /\ \A h \in Workers : handler'[h].pc = "mark" => handler'[h].money \in Transfers
           Kept == /\ answered' \subseteq paid' /\ faults' \in 0 .. MaxFaults
                   /\ UNCHANGED <<paid, into>>
                   /\ rows' \in [G!Money -> Nat] /\ \A c \in G!Money \ paid : rows'[c] = 0
<1>2. ASSUME Keep, Kept
      PROVE  PaymentsTyped'
  BY <1>1, <1>2 DEF PaymentsTyped, Steady
<1>3. ASSUME rows' = rows, faults' \in 0 .. MaxFaults, answered' \subseteq paid, UNCHANGED <<paid, into>>
      PROVE  Kept
  BY <1>3 DEF PaymentsTyped
<1>4. ASSUME NEW h \in Workers, handler' \in [Workers -> HandlerRow],
             \A g \in Workers \ {h} : handler'[g] = handler[g],
             \/ handler'[h].pc \notin Busy
             \/ /\ handler'[h].money \in paid
                /\ handler'[h].pc = "look" => handler'[h].money \in Cards
                /\ handler'[h].pc = "mark" => handler'[h].money \in Transfers
      PROVE  Keep
  <2>1. paid \subseteq paid'
    BY <1>1 DEF Steady
  <2> QED
    BY <1>4, <2>1 DEF PaymentsTyped, Busy
<1>5. ASSUME NEW h \in Workers, handler[h].pc \in Busy, NEW p, Goes(h, p),
             p = "look" => handler[h].money \in Cards, p = "mark" => handler[h].money \in Transfers
      PROVE  Keep
  BY <1>4, <1>5, BusyRow DEF Goes
<1> HIDE DEF Keep, Kept
<1>6. CASE \/ \E c \in Cards : G!PayByCard(c)
           \/ \E c \in Transfers, a \in Accounts : G!Transfer(c, a)
           \/ \E r \in Reservations : G!Release(r)
           \/ \E a \in Accounts : G!Expire(a)
           \/ UNCHANGED G!vars
  <2>1. /\ UNCHANGED <<handler, stored, rows, answered, faults, exposed>>
        /\ paid' = paid \/ \E c \in G!Money \ paid : paid' = paid \cup {c}
        /\ paid' \subseteq G!Money
        /\ into' \in [Transfers -> {0} \cup Accounts]
        /\ \A c \in Transfers \cap (paid' \ paid) : into'[c] \in Accounts /\ account'[into'[c]] # G!NoAccount
    BY <1>6, Outside
  <2> QED
    BY <1>1, <2>1 DEF PaymentsTyped, Steady
<1>7. ASSUME NEW h \in Workers, NEW c \in paid, G!Begin(h, c)
      PROVE  PaymentsTyped'
  <2>1. /\ handler' \in [Workers -> HandlerRow]
        /\ handler'[h].money = c
        /\ handler'[h].pc = "look" => c \in Cards
        /\ handler'[h].pc = "mark" => c \in Transfers
        /\ \A g \in Workers \ {h} : handler'[g] = handler[g]
        /\ UNCHANGED <<booking, account, paid, into, stored, rows, answered, faults>>
    BY <1>7, Begins
  <2>2. Keep
    BY <1>4, <2>1
  <2>3. Kept
    BY <1>3, <2>1 DEF PaymentsTyped
  <2> QED
    BY <1>2, <2>2, <2>3
<1>8. ASSUME NEW h \in Workers, G!Record(h)
      PROVE  PaymentsTyped'
  <2>1. /\ handler[h].pc = "record" /\ Goes(h, "store")
        /\ rows' = [rows EXCEPT ![handler[h].money] = rows[handler[h].money] + 1]
        /\ UNCHANGED <<booking, account, paid, into, stored, answered, faults, exposed>>
    BY <1>8, Records
  <2>2. handler[h].pc \in Busy
    BY <2>1 DEF Busy
  <2>3. handler[h].money \in paid /\ handler[h].money \in G!Money
    BY <2>2, BusyRow
  <2>4. Kept
    BY <2>1, <2>3 DEF Kept, PaymentsTyped
  <2>5. Keep
    BY <1>5, <2>1, <2>2
  <2> QED
    BY <1>2, <2>4, <2>5
<1>9. ASSUME NEW h \in Workers, G!Store(h) \/ G!StoreFails(h)
      PROVE  PaymentsTyped'
  <2>1. /\ handler[h].pc = "store"
        /\ \/ handler[h].money \in Cards /\ Goes(h, "look")
           \/ handler[h].money \in Transfers /\ Goes(h, "mark")
        /\ faults' \in 0 .. MaxFaults
        /\ UNCHANGED <<booking, account, paid, into, rows, answered>>
    BY <1>9, Stores
  <2>2. handler[h].pc \in Busy
    BY <2>1 DEF Busy
  <2>3. Keep
    BY <1>5, <2>1, <2>2
  <2>4. Kept
    BY <1>3, <2>1 DEF PaymentsTyped
  <2> QED
    BY <1>2, <2>3, <2>4
<1>10. ASSUME NEW h \in Workers, G!Look(h) \/ G!Mark(h) \/ G!Confirm(h)
       PROVE  PaymentsTyped'
  <2>1. /\ handler[h].pc \in {"look", "mark", "confirm"}
        /\ Goes(h, "confirm") \/ Goes(h, "answer")
        /\ UNCHANGED <<paid, into, stored, rows, answered, faults, exposed>>
    BY <1>10, Looks, Marks, Confirms
  <2>2. handler[h].pc \in Busy
    BY <2>1 DEF Busy
  <2>3. Keep
    BY <1>5, <2>1, <2>2
  <2>4. Kept
    BY <1>3, <2>1 DEF PaymentsTyped
  <2> QED
    BY <1>2, <2>3, <2>4
<1>11. ASSUME NEW h \in Workers, \/ \E r \in Reservations : G!OpenStart(h, r)
                                 \/ G!Open(h) \/ G!ConfirmRefused(h) \/ G!Fail(h) \/ G!Answer(h)
       PROVE  PaymentsTyped'
  <2>1. /\ Leaves(h)
        /\ \/ answered' = answered
           \/ handler[h].pc = "answer" /\ answered' = answered \cup {handler[h].money}
        /\ faults' \in 0 .. MaxFaults
        /\ UNCHANGED <<booking, paid, into, stored, rows>>
    BY <1>11, Ends
  <2>2. Keep
    BY <1>4, <2>1 DEF Leaves
  <2>3. answered' \subseteq paid
    BY <2>1 DEF PaymentsTyped, Busy
  <2>4. Kept
    BY <1>3, <2>1, <2>3
  <2> QED
    BY <1>2, <2>2, <2>4
<1> QED
  BY <1>6, <1>7, <1>8, <1>9, <1>10, <1>11, PaymentSteps

\* The key, the reservation and the account of what was paid do not change.
LEMMA PaidStands ==
  ASSUME PaymentsTyped, Steady, NEW c \in paid
  PROVE  /\ c \in paid' /\ G!KeyOf(c)' = G!KeyOf(c)
         /\ G!ReservationOf(c)' = G!ReservationOf(c)
<1>1. c \in paid' /\ (c \in Cards \/ c \in Transfers)
  BY DEF PaymentsTyped, G!Money, Steady
<1>2. CASE c \in Cards
  BY <1>1, <1>2 DEF G!KeyOf, G!ReservationOf
<1>3. CASE c \in Transfers
  <2>1. c \notin Cards /\ into'[c] = into[c] /\ into[c] \in Accounts /\ account[into[c]] # G!NoAccount
    BY <1>3, PaymentsAssumption DEF PaymentsTyped, Steady
  <2>2. account'[into[c]].of = account[into[c]].of
    BY <2>1 DEF Steady
  <2>3. G!ReservationOf(c)' = G!ReservationOf(c)
    BY <2>1, <2>2 DEF G!ReservationOf
  <2>4. CASE c \in Sessioned
    BY <1>1, <2>1, <2>3, <2>4 DEF G!KeyOf
  <2>5. CASE c \notin Sessioned
    BY <1>1, <2>1, <2>3, <2>5 DEF G!KeyOf
  <2> QED
    BY <2>4, <2>5
<1> QED
  BY <1>1, <1>2, <1>3

-----------------------------------------------------------------------------
(* What is answered is settled.                                            *)

\* The reservation of a payment left its hold, and its account is marked.
Settled(c) ==
    /\ booking[G!ReservationOf(c)] # "HELD"
    /\ c \in Transfers => account[into[c]].status = "RECEIVED"

\* A handler that goes to its answer has settled its payment, one that confirms has
\* marked the account, and one of a transfer that read no hold still finds none.
HandlerSettles(h) ==
    handler[h].pc \in Busy =>
        /\ handler[h].money \in Transfers /\ ~ handler[h].held =>
             booking[G!ReservationOf(handler[h].money)] # "HELD"
        /\ handler[h].pc = "confirm" /\ handler[h].money \in Transfers =>
             account[into[handler[h].money]].status = "RECEIVED"
        /\ handler[h].pc = "answer" => Settled(handler[h].money)

SettledInv ==
    /\ \A c \in answered : Settled(c)
    /\ \A h \in Workers : HandlerSettles(h)

\* Nothing takes that back.
LEMMA SettledStands ==
  ASSUME PaymentsTyped, Steady, NEW c \in paid
  PROVE  /\ booking[G!ReservationOf(c)] # "HELD" => (booking[G!ReservationOf(c)] # "HELD")'
         /\ c \in Transfers /\ account[into[c]].status = "RECEIVED" => (account[into[c]].status = "RECEIVED")'
         /\ Settled(c) => Settled(c)'
<1>1. G!ReservationOf(c)' = G!ReservationOf(c) /\ G!ReservationOf(c) \in Reservations
  BY PaidStands, PaidIsFor
<1>2. booking[G!ReservationOf(c)] # "HELD" => (booking[G!ReservationOf(c)] # "HELD")'
  BY <1>1 DEF Steady
<1>3. c \in Transfers /\ account[into[c]].status = "RECEIVED" => (account[into[c]].status = "RECEIVED")'
  <2>1. c \in Transfers => into'[c] = into[c] /\ into[c] \in Accounts /\ account[into[c]] # G!NoAccount
    BY DEF PaymentsTyped, Steady
  <2> QED
    BY <2>1 DEF Steady
<1> QED
  BY <1>2, <1>3 DEF Settled

LEMMA HandlerStands ==
  ASSUME PaymentsTyped, Steady, NEW h \in Workers, HandlerSettles(h),
         handler'[h] = handler[h] \/ handler'[h].pc \notin Busy
  PROVE  HandlerSettles(h)'
<1>1. CASE handler'[h].pc \notin Busy
  BY <1>1 DEF HandlerSettles
<1>2. CASE handler'[h] = handler[h] /\ handler[h].pc \in Busy
  <2>1. handler[h].money \in paid
    BY <1>2 DEF PaymentsTyped
  <2>2. PICK c \in paid : c = handler[h].money
    BY <2>1
  <2>3. G!ReservationOf(handler[h].money)' = G!ReservationOf(c)' /\ Settled(handler[h].money)' = Settled(c)'
    BY <1>2, <2>2 DEF Settled
  <2> QED
    BY <1>2, <2>2, <2>3, SettledStands DEF HandlerSettles
<1> QED
  BY <1>1, <1>2

\* One of the handlers takes a step and the others stand.
LEMMA SettlesIfOne ==
  ASSUME PaymentsTyped, Steady, SettledInv, NEW h \in Workers,
         \A g \in Workers \ {h} : handler'[g] = handler[g], HandlerSettles(h)',
         \A c \in answered' : c \in answered \/ (c \in paid /\ Settled(c))
  PROVE  SettledInv'
<1>1. \A c \in answered' : c \in paid /\ Settled(c)
  BY DEF SettledInv, PaymentsTyped
<1>2. \A c \in answered' : Settled(c)'
  BY <1>1, SettledStands
<1>3. \A g \in Workers : HandlerSettles(g)'
  BY HandlerStands DEF SettledInv
<1> QED
  BY <1>2, <1>3 DEF SettledInv

LEMMA SettledStep ==
  ASSUME PaymentsTyped, SettledInv, [G!Next]_G!vars
  PROVE  SettledInv'
<1>0. Steady
  BY PaymentsSteady
<1>1. CASE \/ \E c \in Cards : G!PayByCard(c)
           \/ \E c \in Transfers, a \in Accounts : G!Transfer(c, a)
           \/ \E r \in Reservations : G!Release(r)
           \/ \E a \in Accounts : G!Expire(a)
           \/ UNCHANGED G!vars
  <2>1. UNCHANGED <<handler, answered>>
    BY <1>1, Outside
  <2>2. \A h \in Workers : HandlerSettles(h)'
    BY <1>0, <2>1, HandlerStands DEF SettledInv
  <2>3. \A c \in answered : Settled(c)'
    BY <1>0, SettledStands DEF SettledInv, PaymentsTyped
  <2> QED
    BY <2>1, <2>2, <2>3 DEF SettledInv
\* The payment of the handler before the step, for what it is after it.
<1>2. ASSUME NEW h \in Workers, NEW p, Goes(h, p), handler[h].pc \in Busy
      PROVE  /\ handler[h].money \in paid /\ handler'[h].money = handler[h].money
             /\ G!ReservationOf(handler[h].money)' = G!ReservationOf(handler[h].money)
             /\ HandlerSettles(h)
             /\ Settled(handler[h].money) => Settled(handler[h].money)'
             /\ booking[G!ReservationOf(handler[h].money)] # "HELD" =>
                  (booking[G!ReservationOf(handler[h].money)] # "HELD")'
             /\ handler[h].money \in Transfers /\ account[into[handler[h].money]].status = "RECEIVED" =>
                  (account[into[handler[h].money]].status = "RECEIVED")'
  <2>1. PICK c \in paid : c = handler[h].money /\ handler'[h].money = c
    BY <1>2, BusyRow DEF Goes
  <2>2. /\ G!ReservationOf(handler[h].money)' = G!ReservationOf(c)'
        /\ Settled(handler[h].money)' = Settled(c)'
        /\ (account[into[handler[h].money]].status = "RECEIVED")' = (account[into[c]].status = "RECEIVED")'
    BY <2>1 DEF Settled
  <2> QED
    BY <1>0, <2>1, <2>2, PaidStands, SettledStands DEF SettledInv
<1>3. ASSUME NEW h \in Workers, NEW c \in paid, G!Begin(h, c)
      PROVE  SettledInv'
  <2>1. /\ handler'[h].money = c /\ handler'[h].pc \in {"look", "mark", "record"}
        /\ handler'[h].held <=> c \in Transfers /\ booking[G!ReservationOf(c)] = "HELD"
        /\ \A g \in Workers \ {h} : handler'[g] = handler[g]
        /\ UNCHANGED <<booking, account, paid, into, answered>>
    BY <1>3, Begins
  <2>2. booking[G!ReservationOf(c)] # "HELD" => booking'[G!ReservationOf(handler[h].money)'] # "HELD"
    BY <1>0, <2>1, SettledStands
  <2>3. HandlerSettles(h)'
    BY <2>1, <2>2 DEF HandlerSettles
  <2> QED
    BY <1>0, <2>1, <2>3, SettlesIfOne
<1>4. ASSUME NEW h \in Workers, G!Record(h) \/ G!Store(h) \/ G!StoreFails(h)
      PROVE  SettledInv'
  <2>1. /\ handler[h].pc \in {"record", "store"}
        /\ Goes(h, "store") \/ Goes(h, "look") \/ Goes(h, "mark")
        /\ handler'[h].held = handler[h].held /\ answered' = answered
    BY <1>4, Records, Stores
  <2>2. handler[h].pc \in Busy
    BY <2>1 DEF Busy
  <2>3. HandlerSettles(h)'
    BY <1>2, <2>1, <2>2 DEF HandlerSettles, Goes
  <2> QED
    BY <1>0, <2>1, <2>3, SettlesIfOne DEF Goes
<1>5. ASSUME NEW h \in Workers, G!Look(h)
      PROVE  SettledInv'
  <2>1. /\ handler[h].pc = "look" /\ handler[h].money \in Cards
        /\ \/ Goes(h, "confirm")
           \/ Goes(h, "answer") /\ booking[G!ReservationOf(handler[h].money)] # "HELD"
        /\ answered' = answered
    BY <1>5, Looks
  <2>2. handler[h].pc \in Busy /\ handler[h].money \notin Transfers
    BY <2>1, PaymentsAssumption DEF Busy
  <2>3. HandlerSettles(h)'
    BY <1>2, <2>1, <2>2 DEF HandlerSettles, Goes, Settled
  <2> QED
    BY <1>0, <2>1, <2>3, SettlesIfOne DEF Goes
<1>6. ASSUME NEW h \in Workers, G!Mark(h)
      PROVE  SettledInv'
  <2>1. /\ handler[h].pc = "mark" /\ handler[h].money \in Transfers /\ handler'[h].held = handler[h].held
        /\ Goes(h, "confirm") \/ (Goes(h, "answer") /\ ~ handler[h].held)
        /\ account'[into[handler[h].money]].status = "RECEIVED"
        /\ UNCHANGED <<into, answered>>
    BY <1>6, Marks
  <2>2. handler[h].pc \in Busy
    BY <2>1 DEF Busy
  <2>3. HandlerSettles(h)'
    BY <1>2, <2>1, <2>2 DEF HandlerSettles, Goes, Settled
  <2> QED
    BY <1>0, <2>1, <2>3, SettlesIfOne DEF Goes
<1>7. ASSUME NEW h \in Workers, G!Confirm(h)
      PROVE  SettledInv'
  <2>1. /\ handler[h].pc = "confirm" /\ Goes(h, "answer") /\ handler'[h].held = handler[h].held
        /\ booking'[G!ReservationOf(handler[h].money)] = "CONFIRMED"
        /\ answered' = answered
    BY <1>7, Confirms
  <2>2. handler[h].pc \in Busy
    BY <2>1 DEF Busy
  <2>3. HandlerSettles(h)'
    BY <1>2, <2>1, <2>2 DEF HandlerSettles, Goes, Settled
  <2> QED
    BY <1>0, <2>1, <2>3, SettlesIfOne DEF Goes
<1>8. ASSUME NEW h \in Workers, \/ \E r \in Reservations : G!OpenStart(h, r)
                                \/ G!Open(h) \/ G!ConfirmRefused(h) \/ G!Fail(h) \/ G!Answer(h)
      PROVE  SettledInv'
  <2>1. /\ Leaves(h)
        /\ \/ answered' = answered
           \/ handler[h].pc = "answer" /\ answered' = answered \cup {handler[h].money}
    BY <1>8, Ends
  <2>2. handler[h].pc = "answer" => handler[h].money \in paid /\ Settled(handler[h].money)
    BY DEF SettledInv, HandlerSettles, PaymentsTyped, Busy
  <2>3. HandlerSettles(h)'
    BY <2>1 DEF HandlerSettles, Leaves
  <2> QED
    BY <1>0, <2>1, <2>2, <2>3, SettlesIfOne DEF Leaves
<1> QED
  BY <1>1, <1>3, <1>4, <1>5, <1>6, <1>7, <1>8, PaymentSteps

\* What is answered with success is confirmed or gone, and its account marked: the
\* webhook of a checkout and the reconciliation of a transfer, delivered, repeated and
\* failed in any order.
THEOREM AnsweredAlwaysSettled == PlatformSpec => []AnsweredIsSettled
<1>1. PlatformInit => PaymentsTyped /\ SettledInv
  BY PaymentsInit DEF PlatformInit, G!Init, SettledInv, HandlerSettles, Busy, G!Idle
<1>2. [PlatformNext]_platformVars => [G!Next]_G!vars
  BY DEF PlatformNext, GateStep, SubscriptionStep, AccountsStep, GatewayStep, platformVars, gateway, G!vars
<1>3. PaymentsTyped /\ SettledInv /\ [PlatformNext]_platformVars => PaymentsTyped' /\ SettledInv'
  BY <1>2, PaymentsTypedStep, SettledStep
<1>4. SettledInv => AnsweredIsSettled
  BY DEF SettledInv, Settled, AnsweredIsSettled, G!AnsweredIsSettled
<1> QED
  BY <1>1, <1>3, <1>4, PTL DEF PlatformSpec


-----------------------------------------------------------------------------
(* A key has one row.                                                      *)

OfKey(k) == {c \in paid : G!KeyOf(c) = k}

\* How many rows the payments of a key have.
RowsOf(k) == SumFunctionOnSet(rows, OfKey(k))

AtStore(h, k) == handler[h].pc = "store" /\ G!KeyOf(handler[h].money) = k

\* A key that two never carried and that no fault left unstored: one carries it, what
\* is to be recorded has no row, and what has one is stored or will be.
OneRow(k) == k \notin exposed =>
    /\ \A g, h \in Workers : G!Carries(g, k) /\ G!Carries(h, k) => g = h
    /\ \A h \in Workers : handler[h].pc = "record" /\ G!KeyOf(handler[h].money) = k => RowsOf(k) = 0
    /\ RowsOf(k) <= 1
    /\ RowsOf(k) = 1 => k \in stored \/ \E h \in Workers : AtStore(h, k)

\* A key that is stored, or was at hand after its row, has one.
HasRow ==
    /\ \A k \in stored : RowsOf(k) >= 1
    /\ \A h \in Workers : handler[h].pc \in Busy \ {"record"} => RowsOf(G!KeyOf(handler[h].money)) >= 1
    /\ \A c \in answered : RowsOf(G!KeyOf(c)) >= 1

OnceInv == (\A k : OneRow(k)) /\ HasRow

LEMMA RowsNat ==
  ASSUME PaymentsTyped, NEW k
  PROVE  /\ IsFiniteSet(OfKey(k)) /\ OfKey(k) \subseteq G!Money
         /\ \A c \in OfKey(k) : rows[c] \in Nat
         /\ RowsOf(k) \in Nat
<1>1. IsFiniteSet(G!Money)
  BY PaymentsAssumption, FS_Union DEF G!Money
<1>2. OfKey(k) \subseteq G!Money
  BY DEF OfKey, PaymentsTyped
<1>3. IsFiniteSet(OfKey(k)) /\ \A c \in OfKey(k) : rows[c] \in Nat
  BY <1>1, <1>2, FS_Subset DEF PaymentsTyped
<1> HIDE DEF OfKey
<1> QED
  BY <1>2, <1>3, SumNat DEF RowsOf

\* A payment that has just been made changes no count.
LEMMA RowsStand ==
  ASSUME PaymentsTyped, PaymentsTyped', Steady, NEW k, rows' = rows,
         paid' = paid \/ \E c \in G!Money \ paid : paid' = paid \cup {c}
  PROVE  RowsOf(k)' = RowsOf(k)
<1>1. /\ IsFiniteSet(OfKey(k)) /\ OfKey(k) \subseteq G!Money /\ RowsOf(k) \in Nat
      /\ \A c \in OfKey(k) : rows[c] \in Nat
  BY RowsNat
<1>2. \A c \in paid : G!KeyOf(c)' = G!KeyOf(c)
  BY PaidStands
<1>3. CASE paid' = paid
  <2>1. OfKey(k)' = OfKey(k)
    BY <1>2, <1>3 DEF OfKey
  <2> QED
    BY <2>1 DEF RowsOf
<1>4. CASE \E c \in G!Money \ paid : paid' = paid \cup {c}
  <2>1. PICK c \in G!Money \ paid : paid' = paid \cup {c}
    BY <1>4
  <2>2. OfKey(k)' = OfKey(k) \/ OfKey(k)' = OfKey(k) \cup {c}
    BY <1>2, <2>1 DEF OfKey
  <2>3. c \notin OfKey(k) /\ rows[c] = 0
    BY <2>1 DEF OfKey, PaymentsTyped
  <2>4. SumFunctionOnSet(rows, OfKey(k) \cup {c}) = rows[c] + SumFunctionOnSet(rows, OfKey(k))
    <3> HIDE DEF OfKey
    <3> QED
      BY <1>1, <2>3, SumAdd
  <2> QED
    BY <1>1, <2>2, <2>3, <2>4 DEF RowsOf
<1> QED
  BY <1>3, <1>4

\* A row that is made counts for its key, and for no other.
LEMMA RowsGrow ==
  ASSUME PaymentsTyped, PaymentsTyped', Steady, NEW c \in paid, UNCHANGED <<paid, into, account>>,
         rows' = [rows EXCEPT ![c] = rows[c] + 1], NEW k
  PROVE  RowsOf(k)' = IF G!KeyOf(c) = k THEN RowsOf(k) + 1 ELSE RowsOf(k)
<1>1. /\ IsFiniteSet(OfKey(k)) /\ OfKey(k) \subseteq G!Money /\ RowsOf(k) \in Nat
      /\ \A d \in OfKey(k) : rows[d] \in Nat
  BY RowsNat
<1>2. OfKey(k)' = OfKey(k)
  <2>1. \A d \in paid : G!KeyOf(d)' = G!KeyOf(d)
    BY PaidStands
  <2> QED
    BY <2>1 DEF OfKey
<1>0. PICK g : g = rows'
  OBVIOUS
<1>3. c \in G!Money /\ rows[c] \in Nat /\ g[c] = rows[c] + 1
  BY <1>0 DEF PaymentsTyped
<1>4. \A d \in OfKey(k) \ {c} : g[d] = rows[d]
  BY <1>0, <1>1 DEF PaymentsTyped
<1>5. \A d \in OfKey(k) : g[d] \in Nat
  BY <1>1, <1>3, <1>4
<1>6. c \in OfKey(k) <=> G!KeyOf(c) = k
  BY DEF OfKey
<1> HIDE DEF OfKey
<1>7. IsFiniteSet(OfKey(k) \ {c})
  BY <1>1, FS_Subset
<1>8. SumFunctionOnSet(g, OfKey(k) \ {c}) = SumFunctionOnSet(rows, OfKey(k) \ {c})
  BY <1>4, <1>7, SumSame
<1>9. CASE c \in OfKey(k)
  <2>1. SumFunctionOnSet(rows, OfKey(k)) = rows[c] + SumFunctionOnSet(rows, OfKey(k) \ {c})
    BY <1>1, <1>9, SumRemove
  <2>2. SumFunctionOnSet(g, OfKey(k)) = g[c] + SumFunctionOnSet(g, OfKey(k) \ {c})
    BY <1>1, <1>5, <1>9, SumRemove
  <2>3. SumFunctionOnSet(rows, OfKey(k) \ {c}) \in Int
    BY <1>1, <1>7, SumInt
  <2> QED
    BY <1>0, <1>2, <1>3, <1>6, <1>8, <1>9, <2>1, <2>2, <2>3 DEF RowsOf
<1>10. CASE c \notin OfKey(k)
  <2>1. OfKey(k) \ {c} = OfKey(k)
    BY <1>10
  <2> QED
    BY <1>0, <1>2, <1>6, <1>8, <1>10, <2>1 DEF RowsOf
<1> QED
  BY <1>9, <1>10

\* A step that makes no row and begins nothing: who carries a key carried it, and
\* who was to store it does, or has, or the key is exposed.
LEMMA OneRowStands ==
  ASSUME NEW k, OneRow(k), exposed \subseteq exposed', stored \subseteq stored', RowsOf(k)' = RowsOf(k),
         \A h \in Workers :
             /\ G!Carries(h, k)' => G!Carries(h, k)
             /\ (handler[h].pc = "record" /\ G!KeyOf(handler[h].money) = k)'
                  => handler[h].pc = "record" /\ G!KeyOf(handler[h].money) = k
             /\ AtStore(h, k) => AtStore(h, k)' \/ k \in stored' \cup exposed'
  PROVE  OneRow(k)'
BY DEF OneRow

\* The key of a handler's payment, before and after.
LEMMA SameKey ==
  ASSUME PaymentsTyped, Steady, NEW h \in Workers, handler[h].pc \in Busy, handler'[h].money = handler[h].money
  PROVE  G!KeyOf(handler[h].money)' = G!KeyOf(handler[h].money)
<1>1. PICK c \in paid : c = handler[h].money
  BY BusyRow
<1>2. G!KeyOf(handler[h].money)' = G!KeyOf(c)'
  BY <1>1
<1> QED
  BY <1>1, <1>2, PaidStands

\* A handler that stands carries what it carried.
LEMMA SameCarrier ==
  ASSUME PaymentsTyped, Steady, NEW h \in Workers, handler'[h] = handler[h], NEW k
  PROVE  /\ G!Carries(h, k)' <=> G!Carries(h, k)
         /\ AtStore(h, k)' <=> AtStore(h, k)
         /\ (handler[h].pc = "record" /\ G!KeyOf(handler[h].money) = k)'
              <=> handler[h].pc = "record" /\ G!KeyOf(handler[h].money) = k
<1>1. CASE handler[h].pc \notin Busy
  BY <1>1 DEF G!Carries, AtStore, Busy
<1>2. CASE handler[h].pc \in Busy
  <2>1. G!KeyOf(handler[h].money)' = G!KeyOf(handler[h].money)
    BY <1>2, SameKey
  <2> QED
    BY <2>1 DEF G!Carries, AtStore
<1> QED
  BY <1>1, <1>2

\* The steps that make no row and begin no recording keep one row to a key.
LEMMA QuietOneRow ==
  ASSUME PaymentsTyped, PaymentsTyped', Steady, NEW k, OneRow(k), rows' = rows, stored \subseteq stored',
         paid' = paid \/ \E c \in G!Money \ paid : paid' = paid \cup {c},
         NEW h, \A g \in Workers \ {h} : handler'[g] = handler[g],
         handler'[h].pc \notin {"record", "store"} \/ handler'[h] = handler[h],
         handler[h].pc = "store" => G!KeyOf(handler[h].money) \in stored' \cup exposed' \/ handler'[h] = handler[h]
  PROVE  OneRow(k)'
<1>1. RowsOf(k)' = RowsOf(k) /\ exposed \subseteq exposed'
  BY RowsStand DEF Steady
<1>2. ASSUME NEW g \in Workers, handler'[g] = handler[g]
      PROVE  /\ G!Carries(g, k)' => G!Carries(g, k)
             /\ (handler[g].pc = "record" /\ G!KeyOf(handler[g].money) = k)'
                  => handler[g].pc = "record" /\ G!KeyOf(handler[g].money) = k
             /\ AtStore(g, k) => AtStore(g, k)' \/ k \in stored' \cup exposed'
  BY <1>2, SameCarrier
<1>3. ASSUME handler'[h] # handler[h]
      PROVE  /\ ~ G!Carries(h, k)'
             /\ ~ (handler[h].pc = "record" /\ G!KeyOf(handler[h].money) = k)'
             /\ AtStore(h, k) => k \in stored' \cup exposed'
  BY <1>3 DEF G!Carries, AtStore
<1>4. \A g \in Workers :
        /\ G!Carries(g, k)' => G!Carries(g, k)
        /\ (handler[g].pc = "record" /\ G!KeyOf(handler[g].money) = k)'
             => handler[g].pc = "record" /\ G!KeyOf(handler[g].money) = k
        /\ AtStore(g, k) => AtStore(g, k)' \/ k \in stored' \cup exposed'
  BY <1>2, <1>3
<1> QED
  BY <1>1, <1>4, OneRowStands

\* A recording begins for a key without a response: it has no row, or is exposed.
LEMMA BeginOneRow ==
  ASSUME PaymentsTyped, PaymentsTyped', Steady, NEW k, OneRow(k), NEW h \in Workers, NEW c \in paid,
         G!KeyOf(c) \notin stored, handler'[h].money = c, handler'[h].pc = "record",
         \A g \in Workers \ {h} : handler'[g] = handler[g],
         exposed' = exposed \cup {x \in {G!KeyOf(c)} : \E g \in Workers : G!Carries(g, x)},
         ~ G!Carries(h, k), UNCHANGED <<booking, account, paid, into, stored, rows, answered, faults>>
  PROVE  OneRow(k)'
<1>1. RowsOf(k)' = RowsOf(k) /\ RowsOf(k) \in Nat
  BY RowsStand, RowsNat
<1>2. G!KeyOf(handler[h].money)' = G!KeyOf(c)
  <2>1. G!KeyOf(handler[h].money)' = G!KeyOf(c)'
    OBVIOUS
  <2> QED
    BY <2>1, PaidStands
<1>3. \A g \in Workers \ {h} :
        /\ G!Carries(g, k)' <=> G!Carries(g, k)
        /\ AtStore(g, k)' <=> AtStore(g, k)
        /\ (handler[g].pc = "record" /\ G!KeyOf(handler[g].money) = k)'
             <=> handler[g].pc = "record" /\ G!KeyOf(handler[g].money) = k
  BY SameCarrier
<1>4. ~ AtStore(h, k)
  BY DEF G!Carries, AtStore
<1>5. CASE G!KeyOf(c) = k
  <2> SUFFICES ASSUME k \notin exposed'
               PROVE  OneRow(k)'
    BY DEF OneRow
  <2>1. \A g \in Workers : ~ G!Carries(g, k)
    BY <1>5
  <2>2. \A g \in Workers : ~ AtStore(g, k)
    BY <2>1 DEF G!Carries, AtStore
  <2>3. k \notin exposed /\ k \notin stored
    BY <1>5
  <2>4. RowsOf(k) = 0
    BY <1>1, <2>2, <2>3 DEF OneRow
  <2>5. \A g \in Workers \ {h} : ~ G!Carries(g, k)'
    BY <1>3, <2>1
  <2> QED
    BY <1>1, <2>4, <2>5 DEF OneRow
<1>6. CASE G!KeyOf(c) # k
  <2>1. /\ ~ G!Carries(h, k)'
        /\ ~ (handler[h].pc = "record" /\ G!KeyOf(handler[h].money) = k)'
    BY <1>2, <1>6 DEF G!Carries
  <2> QED
    BY <1>1, <1>3, <1>4, <2>1, OneRowStands
<1> QED
  BY <1>5, <1>6

\* The row is made: it had none, and the one who made it goes on to store its key.
LEMMA RecordOneRow ==
  ASSUME PaymentsTyped, PaymentsTyped', Steady, NEW k, OneRow(k), NEW h \in Workers, handler[h].pc = "record",
         Goes(h, "store"), rows' = [rows EXCEPT ![handler[h].money] = rows[handler[h].money] + 1],
         UNCHANGED <<booking, account, paid, into, stored, answered, faults, exposed>>
  PROVE  OneRow(k)'
<1>0. handler[h].pc \in Busy
  BY DEF Busy
<1>1. PICK c \in paid : c = handler[h].money
  BY <1>0, BusyRow
<1>2. RowsOf(k)' = (IF G!KeyOf(c) = k THEN RowsOf(k) + 1 ELSE RowsOf(k)) /\ RowsOf(k) \in Nat
  BY <1>1, RowsGrow, RowsNat
<1>3. G!KeyOf(handler[h].money)' = G!KeyOf(c)
  BY <1>0, <1>1, SameKey DEF Goes
<1>4. \A g \in Workers \ {h} :
        /\ G!Carries(g, k)' <=> G!Carries(g, k)
        /\ AtStore(g, k)' <=> AtStore(g, k)
        /\ (handler[g].pc = "record" /\ G!KeyOf(handler[g].money) = k)'
             <=> handler[g].pc = "record" /\ G!KeyOf(handler[g].money) = k
  BY SameCarrier DEF Goes
<1>5. CASE G!KeyOf(c) = k
  <2> SUFFICES ASSUME k \notin exposed
               PROVE  OneRow(k)'
    BY DEF OneRow
  <2>1. G!Carries(h, k) /\ RowsOf(k) = 0
    BY <1>1, <1>5 DEF G!Carries, OneRow
  <2>2. \A g \in Workers \ {h} : ~ G!Carries(g, k)
    BY <2>1 DEF OneRow
  <2>3. \A g \in Workers \ {h} : ~ G!Carries(g, k)'
    BY <1>4, <2>2
  <2>4. AtStore(h, k)'
    BY <1>3, <1>5 DEF AtStore, Goes
  <2>5. RowsOf(k)' = 1
    BY <1>2, <1>5, <2>1
  <2>6. \A g \in Workers : (handler[g].pc # "record" \/ G!KeyOf(handler[g].money) # k)'
    BY <2>3 DEF G!Carries, Goes
  <2> QED
    BY <2>3, <2>4, <2>5, <2>6 DEF OneRow
<1>6. CASE G!KeyOf(c) # k
  <2>1. /\ ~ G!Carries(h, k)' /\ ~ AtStore(h, k)
        /\ ~ (handler[h].pc = "record" /\ G!KeyOf(handler[h].money) = k)'
    BY <1>1, <1>3, <1>6 DEF G!Carries, AtStore
  <2>2. RowsOf(k)' = RowsOf(k)
    BY <1>2, <1>6
  <2> QED
    BY <1>4, <2>1, <2>2, OneRowStands
<1> QED
  BY <1>5, <1>6

-----------------------------------------------------------------------------
(* What has a row keeps it.                                                *)

LEMMA RowsNeverLost ==
  ASSUME PaymentsTyped, PaymentsTyped', Steady, NEW k, RowsOf(k) >= 1,
         \/ /\ rows' = rows
            /\ paid' = paid \/ \E c \in G!Money \ paid : paid' = paid \cup {c}
         \/ /\ UNCHANGED <<paid, into, account>>
            /\ \E c \in paid : rows' = [rows EXCEPT ![c] = rows[c] + 1]
  PROVE  RowsOf(k)' >= 1
<1>1. RowsOf(k) \in Nat
  BY RowsNat
<1>2. CASE rows' = rows /\ (paid' = paid \/ \E c \in G!Money \ paid : paid' = paid \cup {c})
  BY <1>1, <1>2, RowsStand
<1>3. CASE UNCHANGED <<paid, into, account>> /\ \E c \in paid : rows' = [rows EXCEPT ![c] = rows[c] + 1]
  <2>1. PICK c \in paid : rows' = [rows EXCEPT ![c] = rows[c] + 1]
    BY <1>3
  <2>2. RowsOf(k)' = IF G!KeyOf(c) = k THEN RowsOf(k) + 1 ELSE RowsOf(k)
    BY <1>3, <2>1, RowsGrow
  <2> QED
    BY <1>1, <2>2
<1> QED
  BY <1>2, <1>3

\* After a step, if the handler that took it has a row when it should.
LEMMA HasRowStands ==
  ASSUME PaymentsTyped, PaymentsTyped', Steady, HasRow,
         \A k : RowsOf(k) >= 1 => RowsOf(k)' >= 1,
         NEW h, \A g \in Workers \ {h} : handler'[g] = handler[g],
         \/ handler'[h] = handler[h]
         \/ handler'[h].pc \in Busy \ {"record"} => RowsOf(G!KeyOf(handler[h].money))' >= 1,
         \A k \in stored' : k \in stored \/ RowsOf(k)' >= 1,
         \A c \in answered' : c \in answered \/ (c \in paid /\ RowsOf(G!KeyOf(c)) >= 1)
  PROVE  HasRow'
<1>1. \A k \in stored' : RowsOf(k)' >= 1
  BY DEF HasRow
<1>2. ASSUME NEW c \in answered' PROVE (RowsOf(G!KeyOf(c)))' >= 1
  <2>1. c \in paid /\ RowsOf(G!KeyOf(c)) >= 1
    BY <1>2 DEF HasRow, PaymentsTyped
  <2>2. G!KeyOf(c)' = G!KeyOf(c)
    BY <2>1, PaidStands
  <2>3. (RowsOf(G!KeyOf(c)))' = SumFunctionOnSet(rows', {d \in paid' : G!KeyOf(d)' = G!KeyOf(c)'})
    BY DEF RowsOf, OfKey
  <2>4. PICK k : k = G!KeyOf(c)
    OBVIOUS
  <2>5. RowsOf(k)' = SumFunctionOnSet(rows', {d \in paid' : G!KeyOf(d)' = k})
    BY DEF RowsOf, OfKey
  <2> QED
    BY <2>1, <2>2, <2>3, <2>4, <2>5
<1>3. ASSUME NEW g \in Workers, handler'[g] = handler[g], handler[g].pc \in Busy \ {"record"}
      PROVE  (RowsOf(G!KeyOf(handler[g].money)))' >= 1
  <2>1. G!KeyOf(handler[g].money)' = G!KeyOf(handler[g].money)
    BY <1>3, SameKey
  <2>2. PICK k : k = G!KeyOf(handler[g].money) /\ RowsOf(k) >= 1
    BY <1>3 DEF HasRow
  <2>3. RowsOf(k)' = SumFunctionOnSet(rows', {d \in paid' : G!KeyOf(d)' = k})
    BY DEF RowsOf, OfKey
  <2>4. (RowsOf(G!KeyOf(handler[g].money)))' =
          SumFunctionOnSet(rows', {d \in paid' : G!KeyOf(d)' = G!KeyOf(handler[g].money)'})
    BY DEF RowsOf, OfKey
  <2> QED
    BY <2>1, <2>2, <2>3, <2>4
<1>4. \A g \in Workers : handler'[g].pc \in Busy \ {"record"} => (RowsOf(G!KeyOf(handler[g].money)))' >= 1
  BY <1>3
<1> QED
  BY <1>1, <1>2, <1>4 DEF HasRow

LEMMA OnceStep ==
  ASSUME PaymentsTyped, OnceInv, [G!Next]_G!vars
  PROVE  OnceInv'
<1>0. Steady /\ PaymentsTyped'
  BY PaymentsSteady, PaymentsTypedStep
<1>1. (\A k : OneRow(k)) /\ HasRow
  BY DEF OnceInv
\* A step that makes no row and begins no recording.
<1>2. ASSUME rows' = rows, stored \subseteq stored',
             paid' = paid \/ \E c \in G!Money \ paid : paid' = paid \cup {c},
             NEW h, \A g \in Workers \ {h} : handler'[g] = handler[g],
             handler'[h].pc \notin {"record", "store"} \/ handler'[h] = handler[h],
             handler[h].pc = "store" =>
               G!KeyOf(handler[h].money) \in stored' \cup exposed' \/ handler'[h] = handler[h],
             \/ handler'[h] = handler[h]
             \/ handler'[h].pc \in Busy \ {"record"} =>
                  \E k : k = G!KeyOf(handler[h].money)' /\ RowsOf(k) >= 1,
             \A k \in stored' : k \in stored \/ RowsOf(k) >= 1,
             \A c \in answered' : c \in answered \/ (c \in paid /\ RowsOf(G!KeyOf(c)) >= 1)
      PROVE  OnceInv'
  <2>1. \A k : OneRow(k)'
    BY <1>0, <1>1, <1>2, QuietOneRow
  <2>2. \A k : RowsOf(k) >= 1 => RowsOf(k)' >= 1
    BY <1>0, <1>2, RowsNeverLost
  <2>3. HasRow'
    BY <1>0, <1>1, <1>2, <2>2, HasRowStands
  <2> QED
    BY <2>1, <2>3 DEF OnceInv
\* What the key of the handler's payment is, and that it has a row when it should.
<1>3. ASSUME NEW h \in Workers, handler[h].pc \in Busy, handler'[h].money = handler[h].money
      PROVE  G!KeyOf(handler[h].money)' = G!KeyOf(handler[h].money)
  BY <1>0, <1>3, SameKey
<1>4. \A h \in Workers : handler[h].pc \in Busy \ {"record"} => RowsOf(G!KeyOf(handler[h].money)) >= 1
  BY <1>1 DEF HasRow
<1>5. CASE \/ \E c \in Cards : G!PayByCard(c)
           \/ \E c \in Transfers, a \in Accounts : G!Transfer(c, a)
           \/ \E r \in Reservations : G!Release(r)
           \/ \E a \in Accounts : G!Expire(a)
           \/ UNCHANGED G!vars
  <2>1. /\ UNCHANGED <<handler, stored, rows, answered, faults, exposed>>
        /\ paid' = paid \/ \E c \in G!Money \ paid : paid' = paid \cup {c}
    BY <1>5, Outside
  <2> QED
    BY <1>2, <2>1
<1>6. ASSUME NEW h \in Workers, NEW c \in paid, G!Begin(h, c)
      PROVE  OnceInv'
  <2>1. /\ handler'[h].money = c
        /\ \/ G!KeyOf(c) \in stored /\ handler'[h].pc \in {"look", "mark"}
           \/ G!KeyOf(c) \notin stored /\ handler'[h].pc = "record"
              /\ exposed' = exposed \cup {k \in {G!KeyOf(c)} : \E g \in Workers : G!Carries(g, k)}
        /\ \A g \in Workers \ {h} : handler'[g] = handler[g]
        /\ UNCHANGED <<booking, account, paid, into, stored, rows, answered, faults>>
    BY <1>6, Begins
  <2>2. handler[h].pc = "idle"
    BY <1>6 DEF G!Begin, G!Idle
  <2>3. CASE G!KeyOf(c) \in stored /\ handler'[h].pc \in {"look", "mark"}
    <3>1. G!KeyOf(handler[h].money)' = G!KeyOf(c)
      <4>1. G!KeyOf(handler[h].money)' = G!KeyOf(c)'
        BY <2>1
      <4> QED
        BY <1>0, <4>1, PaidStands
    <3>2. \E k : k = G!KeyOf(handler[h].money)' /\ RowsOf(k) >= 1
      BY <1>1, <2>3, <3>1 DEF HasRow
    <3> QED
      BY <1>2, <2>1, <2>2, <2>3, <3>2
  <2>4. CASE G!KeyOf(c) \notin stored /\ handler'[h].pc = "record"
    <3>1. exposed' = exposed \cup {k \in {G!KeyOf(c)} : \E g \in Workers : G!Carries(g, k)}
      BY <2>1, <2>4
    <3>2. \A k : OneRow(k)'
      BY <1>0, <1>1, <2>1, <2>2, <2>4, <3>1, BeginOneRow DEF G!Carries
    <3>3. \A k : RowsOf(k) >= 1 => RowsOf(k)' >= 1
      BY <1>0, <2>1, RowsNeverLost
    <3>4. HasRow'
      BY <1>0, <1>1, <2>1, <2>4, <3>3, HasRowStands
    <3> QED
      BY <3>2, <3>4 DEF OnceInv
  <2> QED
    BY <2>1, <2>3, <2>4
<1>7. ASSUME NEW h \in Workers, G!Record(h)
      PROVE  OnceInv'
  <2>1. /\ handler[h].pc = "record" /\ Goes(h, "store")
        /\ rows' = [rows EXCEPT ![handler[h].money] = rows[handler[h].money] + 1]
        /\ UNCHANGED <<booking, account, paid, into, stored, answered, faults, exposed>>
    BY <1>7, Records
  <2>2. handler[h].pc \in Busy
    BY <2>1 DEF Busy
  <2>3. PICK c \in paid : c = handler[h].money
    BY <2>2, BusyRow
  <2>4. \A k : OneRow(k)'
    BY <1>0, <1>1, <2>1, RecordOneRow
  <2>5. \A k : RowsOf(k) >= 1 => RowsOf(k)' >= 1
    BY <1>0, <2>1, <2>3, RowsNeverLost
  <2>6. (RowsOf(G!KeyOf(handler[h].money)))' >= 1
    <3>1. PICK k : k = G!KeyOf(c)
      OBVIOUS
    <3>2. RowsOf(k)' = RowsOf(k) + 1 /\ RowsOf(k) \in Nat
      BY <1>0, <2>1, <2>3, <3>1, RowsGrow, RowsNat
    <3>3. G!KeyOf(handler[h].money)' = k
      BY <1>3, <2>1, <2>2, <2>3, <3>1 DEF Goes
    <3>4. RowsOf(k)' = SumFunctionOnSet(rows', {d \in paid' : G!KeyOf(d)' = k})
      BY DEF RowsOf, OfKey
    <3>5. (RowsOf(G!KeyOf(handler[h].money)))' =
            SumFunctionOnSet(rows', {d \in paid' : G!KeyOf(d)' = G!KeyOf(handler[h].money)'})
      BY DEF RowsOf, OfKey
    <3> QED
      BY <3>2, <3>3, <3>4, <3>5
  <2>7. HasRow'
    BY <1>0, <1>1, <2>1, <2>5, <2>6, HasRowStands DEF Goes
  <2> QED
    BY <2>4, <2>7 DEF OnceInv
<1>8. ASSUME NEW h \in Workers, NEW p, Goes(h, p), p \notin {"record", "store"},
             handler[h].pc \in Busy \ {"record"}, UNCHANGED <<paid, rows, answered>>,
             stored \subseteq stored', stored' \subseteq stored \cup {G!KeyOf(handler[h].money)},
             handler[h].pc = "store" => G!KeyOf(handler[h].money) \in stored' \cup exposed'
      PROVE  OnceInv'
  <2>1. RowsOf(G!KeyOf(handler[h].money)) >= 1
    BY <1>4, <1>8
  <2>2. G!KeyOf(handler[h].money)' = G!KeyOf(handler[h].money)
    BY <1>3, <1>8 DEF Goes
  <2>3. \E k : k = G!KeyOf(handler[h].money)' /\ RowsOf(k) >= 1
    BY <2>1, <2>2
  <2>4. \A k \in stored' : k \in stored \/ RowsOf(k) >= 1
    BY <1>8, <2>1
  <2> QED
    BY <1>2, <1>8, <2>3, <2>4 DEF Goes
<1>9. ASSUME NEW h \in Workers, G!Store(h) \/ G!StoreFails(h)
      PROVE  OnceInv'
  <2>1. /\ handler[h].pc = "store"
        /\ Goes(h, "look") \/ Goes(h, "mark")
        /\ stored \subseteq stored' /\ stored' \subseteq stored \cup {G!KeyOf(handler[h].money)}
        /\ G!KeyOf(handler[h].money) \in stored' \cup exposed'
        /\ UNCHANGED <<booking, account, paid, into, rows, answered>>
    BY <1>9, Stores
  <2> QED
    BY <1>8, <2>1 DEF Busy
<1>10. ASSUME NEW h \in Workers, G!Look(h) \/ G!Mark(h) \/ G!Confirm(h)
       PROVE  OnceInv'
  <2>1. /\ handler[h].pc \in {"look", "mark", "confirm"}
        /\ Goes(h, "confirm") \/ Goes(h, "answer")
        /\ UNCHANGED <<paid, into, stored, rows, answered, faults, exposed>>
    BY <1>0, <1>10, Looks, Marks, Confirms
  <2> QED
    BY <1>8, <2>1 DEF Busy
<1>11. ASSUME NEW h \in Workers, \/ \E r \in Reservations : G!OpenStart(h, r)
                                 \/ G!Open(h) \/ G!ConfirmRefused(h) \/ G!Fail(h) \/ G!Answer(h)
       PROVE  OnceInv'
  <2>1. /\ Leaves(h)
        /\ handler[h].pc = "store" => G!KeyOf(handler[h].money) \in exposed'
        /\ \/ answered' = answered
           \/ handler[h].pc = "answer" /\ answered' = answered \cup {handler[h].money}
        /\ UNCHANGED <<booking, paid, into, stored, rows>>
    BY <1>11, Ends
  <2>2. handler[h].pc = "answer" => handler[h].money \in paid /\ RowsOf(G!KeyOf(handler[h].money)) >= 1
    BY <1>4 DEF PaymentsTyped, Busy
  <2>3. handler'[h].pc \notin {"record", "store"} /\ handler'[h].pc \notin Busy
    BY <2>1 DEF Leaves, Busy
  <2> QED
    BY <1>2, <2>1, <2>2, <2>3 DEF Leaves
<1> QED
  BY <1>5, <1>6, <1>7, <1>9, <1>10, <1>11, PaymentSteps

\* The model's sums are those of the theorems.
LEMMA SameAtGateway == \A f, s : G!SumFunctionOnSet(f, s) = SumFunctionOnSet(f, s)
BY Zenon DEF G!SumFunctionOnSet, G!FoldFunctionOnSet, G!MapThenFoldSet, SumFunctionOnSet,
   FoldFunctionOnSet, MapThenFoldSet

LEMMA OnceInitially == ASSUME PlatformInit PROVE OnceInv
<1>1. /\ paid = {} /\ stored = {} /\ answered = {}
      /\ \A h \in Workers : handler[h].pc = "idle"
  BY DEF PlatformInit, G!Init, G!Idle
<1>2. \A k : OfKey(k) = {}
  BY <1>1 DEF OfKey
<1>3. \A k : RowsOf(k) = 0
  BY <1>2, SumEmpty DEF RowsOf
<1> QED
  BY <1>1, <1>3 DEF OnceInv, OneRow, HasRow, G!Carries, Busy

\* However often an event is delivered or reported, its key has one row, and one as soon
\* as it was answered, unless two handlers carried the key at once or a response was
\* not stored: handleWebhook, reconcileTransfer and recordPayment's idempotency key.
THEOREM PaymentsRecordedOnce == PlatformSpec => []RecordedOncePerKey
<1>1. PlatformInit => PaymentsTyped /\ OnceInv
  BY PaymentsInit, OnceInitially
<1>2. [PlatformNext]_platformVars => [G!Next]_G!vars
  BY DEF PlatformNext, GateStep, SubscriptionStep, AccountsStep, GatewayStep, platformVars, gateway, G!vars
<1>3. PaymentsTyped /\ OnceInv /\ [PlatformNext]_platformVars => PaymentsTyped' /\ OnceInv'
  BY <1>2, PaymentsTypedStep, OnceStep
<1>4. ASSUME PaymentsTyped, OnceInv
      PROVE  RecordedOncePerKey
  <2> SUFFICES ASSUME NEW c \in paid
               PROVE  /\ SumFunctionOnSet(rows, G!Twins(c)) > 1 => G!KeyOf(c) \in exposed
                      /\ c \in answered => SumFunctionOnSet(rows, G!Twins(c)) >= 1
    BY SameAtGateway DEF RecordedOncePerKey, G!RecordedOncePerKey
  <2>1. SumFunctionOnSet(rows, G!Twins(c)) = RowsOf(G!KeyOf(c))
    BY DEF RowsOf, OfKey, G!Twins
  <2>2. RowsOf(G!KeyOf(c)) \in Nat
    BY <1>4, RowsNat
  <2> QED
    BY <1>4, <2>1, <2>2 DEF OnceInv, OneRow, HasRow
<1> QED
  BY <1>1, <1>3, <1>4, PTL DEF PlatformSpec

-----------------------------------------------------------------------------
(* The types of every part.                                                *)

LEMMA GateMoves == ASSUME [PlatformNext]_platformVars PROVE [Next]_vars
<1>1. CASE GateStep
  BY <1>1 DEF GateStep
<1> QED
  BY <1>1 DEF PlatformNext, platformVars, gate, SubscriptionStep, AccountsStep, GatewayStep

LEMMA GateHolds == PlatformSpec => []GateInv
<1>1. PlatformInit => GateInv
  BY GateInit DEF PlatformInit
<1>2. GateInv /\ [PlatformNext]_platformVars => GateInv'
  BY GateMoves, GateInvStep
<1> QED
  BY <1>1, <1>2, PTL DEF PlatformSpec

LEMMA SubscriptionTypes == SubTyped => S!TypeOK
BY DEF SubTyped, S!TypeOK, Dates

\* What is stored is the key of a payment that was made.
StoredIsPaid == \A k \in stored : \E c \in paid : k = G!KeyOf(c)

LEMMA StoredStep ==
  ASSUME PaymentsTyped, StoredIsPaid, [G!Next]_G!vars
  PROVE  StoredIsPaid'
<1>1. Steady
  BY PaymentsSteady
<1>2. \A c \in paid : c \in paid' /\ G!KeyOf(c)' = G!KeyOf(c)
  BY <1>1, PaidStands
<1>3. stored' = stored \/ \E h \in Workers : G!Store(h) \/ G!StoreFails(h)
  BY PaymentSteps, Zenon DEF G!PayByCard, G!Transfer, G!Release, G!Expire, G!vars, G!Begin, G!Record, G!Look,
     G!Mark, G!Confirm, G!OpenStart, G!Open, G!ConfirmRefused, G!Fail, G!Answer
<1>4. ASSUME NEW h \in Workers, G!Store(h) \/ G!StoreFails(h)
      PROVE  \E c \in paid : stored' \subseteq stored \cup {G!KeyOf(c)}
  <2>1. handler[h].pc \in Busy /\ stored' \subseteq stored \cup {G!KeyOf(handler[h].money)}
    BY <1>4, Stores DEF Busy
  <2> QED
    BY <2>1, BusyRow
<1> QED
  BY <1>2, <1>3, <1>4 DEF StoredIsPaid

LEMMA PaymentTypes == PaymentsTyped /\ StoredIsPaid => G!TypeOK
BY DEF PaymentsTyped, StoredIsPaid, G!TypeOK, HandlerRow, AccountRow, MoneyRow, Busy

\* The rows, the locals and the histories of every part keep their types: the accounts of
\* the platform with their invoices, the logins, the payments and the gate.
THEOREM RowsStayTyped == PlatformSpec => []RowsTyped
<1>1. PlatformInit => PaymentsTyped /\ StoredIsPaid
  BY PaymentsInit DEF PlatformInit, G!Init, StoredIsPaid
<1>2. [PlatformNext]_platformVars => [G!Next]_G!vars
  BY DEF PlatformNext, GateStep, SubscriptionStep, AccountsStep, GatewayStep, platformVars, gateway, G!vars
<1>3. /\ PaymentsTyped /\ StoredIsPaid /\ [PlatformNext]_platformVars
      => PaymentsTyped' /\ StoredIsPaid'
  BY <1>2, PaymentsTypedStep, StoredStep
<1> DEFINE OneOfThem == part \in {"gate", "subscription", "accounts", "gateway"}
<1>4. PlatformInit => OneOfThem
  BY DEF PlatformInit
<1>5. OneOfThem /\ [PlatformNext]_platformVars => OneOfThem'
  BY DEF PlatformNext, platformVars, GateStep, SubscriptionStep, AccountsStep, GatewayStep
<1>6. /\ OneOfThem /\ GateInv /\ SubTyped /\ AccountInv /\ PaymentsTyped /\ StoredIsPaid
      => RowsTyped
  BY SubscriptionTypes, AccountTypes, PaymentTypes DEF RowsTyped, GateInv, AccountInv
<1> QED
  BY <1>1, <1>3, <1>4, <1>5, <1>6, GateHolds, SubTypedHolds, AccountInvHolds, PTL DEF PlatformSpec

=============================================================================
