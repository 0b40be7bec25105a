------------------------------- MODULE Stock -------------------------------
(***************************************************************************)
(* The book quantity of inventory items and everything that moves it:      *)
(* inventory.service (move, recordCount), the delivery of a purchase order *)
(* (procurement.service), an order sent to the kitchen (orders.service),   *)
(* and a bar pour (pour.service).                                          *)
(*                                                                         *)
(* move reads the item, inserts the movement and then writes an absolute   *)
(* quantity, outside a transaction except when recordCount calls it.  The  *)
(* read and the insert are one step here: nothing reads the movements back *)
(* to decide anything.  A delivery or a kitchen order moves item after     *)
(* item, and writes its own status last.                                   *)
(*                                                                         *)
(* Abstracted: units, costs, suppliers; what else happens to a restaurant  *)
(* order (module Ledger).                                                  *)
(***************************************************************************)
EXTENDS Integers, FiniteSets, Sequences, SequencesExt

CONSTANTS
    Items,       \* inventory items
    Clerks,      \* bound: requests in flight
    Opening,     \* the quantity an item is created with
    Reorder,     \* reorderPoint
    Drafts,      \* bound: the items a purchase order is for, each a set of them
    Bought,      \* the quantity of each item on the purchase order
    Quantities,  \* bound: quantities a request carries
    MaxRequests, \* bound: requests that move stock
    MaxDeaths    \* bound: handlers that die

VARIABLES
    qty,      \* qty[i]: currentQty
    moved,    \* moved[i]: the sum of the item's StockMovement rows
    counted,  \* counted[i]: the last StockCount, and moved[i] when it was taken
    po,       \* the purchase order's status and its items
    meal,     \* the restaurant order's status and its lines not voided, one per item
    clerk,    \* clerk[c]: the request in flight
    requests, deaths,  \* used up
    posted,   \* history: posted[i]: movements of the purchase order
    served,   \* history: served[i]: movements of the restaurant order
    parts,    \* history: partial deliveries
    torn,     \* history: items that two moves held at once, or whose move died
    mixed,    \* history: orders that two handlers held at once, or whose handler died
    unseen    \* history: items depleted to their reorder point and not yet signalled

vars == <<qty, moved, counted, po, meal, clerk, requests, deaths,
          posted, served, parts, torn, mixed, unseen>>

POStatuses == {"DRAFT", "PENDING_APPROVAL", "APPROVED", "SENT", "PARTIALLY_RECEIVED", "RECEIVED"}
MovementTypes == {"PURCHASE_IN", "SALE_OUT", "WASTAGE", "ADJUSTMENT"}
Depleting     == {"SALE_OUT", "WASTAGE"}

NoSheet == [expected |-> 0, counted |-> 0, at |-> 0]
Idle    == [op |-> "idle", pc |-> "idle", todo |-> <<>>, before |-> 0, sheet |-> NoSheet]

Init ==
    /\ qty = [i \in Items |-> Opening]
    /\ moved = [i \in Items |-> 0]
    /\ counted = [i \in Items |-> [qty |-> Opening, at |-> 0]]
    /\ po = [status |-> "none", items |-> {}]
    /\ meal = [status |-> "OPEN", lines |-> Items]
    /\ clerk = [c \in Clerks |-> Idle]
    /\ requests = 0 /\ deaths = 0
    /\ posted = [i \in Items |-> 0] /\ served = [i \in Items |-> 0]
    /\ parts = 0
    /\ torn = {} /\ mixed = {} /\ unseen = {}

-----------------------------------------------------------------------------
(* inventory.service: move                                                 *)

\* PURCHASE_IN adds and SALE_OUT and WASTAGE take the magnitude; the others carry
\* their sign.
SignedDelta(type, quantity) ==
    LET magnitude == IF quantity < 0 THEN -quantity ELSE quantity IN
    CASE type = "PURCHASE_IN" -> magnitude
      [] type \in Depleting   -> -magnitude
      [] OTHER                -> quantity

Movement(i, type, quantity) ==
    [item |-> i, delta |-> SignedDelta(type, quantity), depletes |-> type \in Depleting]

\* Fault: an item at its reorder point is not low yet.
CrossesBelow(m, before, after) == m.depletes /\ after < Reorder /\ before >= Reorder

\* The low-stock signal is due.
Crosses(m, before, after) == m.depletes /\ after <= Reorder /\ before > Reorder

\* The order a request is about, if any.
About(op) == IF op \in {"submit", "approve", "send", "receive", "receivePart"} THEN "po"
             ELSE IF op \in {"kitchen", "void"} THEN "meal" ELSE "none"

\* Somebody has read item i and not written it yet.
Held(i) == \E c \in Clerks : clerk[c].pc \in {"write", "correct"} /\ clerk[c].todo[1].item = i

\* A request begins, with its first movement or, having none, with its last statement.
Begin(c, op, moves) ==
    /\ clerk[c] = Idle
    /\ clerk' = [clerk EXCEPT ![c] = [op |-> op, pc |-> IF moves = <<>> THEN "finish" ELSE "record",
                                    todo |-> moves, before |-> 0, sheet |-> NoSheet]]
    /\ mixed' = IF \E d \in Clerks : About(clerk[d].op) = About(op)
                  THEN mixed \cup ({About(op)} \ {"none"}) ELSE mixed

Spend == requests < MaxRequests /\ requests' = requests + 1

\* A movement or a wastage by hand, or a bar pour (whose PourLog row goes first).
MoveStart(c) ==
    /\ Spend
    /\ \E i \in Items, type \in MovementTypes, q \in Quantities :
         Begin(c, "move", <<Movement(i, type, q)>>)
    /\ UNCHANGED <<qty, moved, counted, po, meal, deaths, posted, served, parts, torn, unseen>>

\* The item is read and the movement inserted.
MoveRecord(c) ==
    /\ clerk[c].pc = "record"
    /\ LET m == clerk[c].todo[1]  of == About(clerk[c].op) IN
        /\ clerk' = [clerk EXCEPT ![c].pc = "write", ![c].before = qty[m.item]]
        /\ moved' = [moved EXCEPT ![m.item] = @ + m.delta]
        /\ torn' = IF Held(m.item) THEN torn \cup {m.item} ELSE torn
        /\ posted' = [posted EXCEPT ![m.item] = IF of = "po" THEN @ + 1 ELSE @]
        /\ served' = [served EXCEPT ![m.item] = IF of = "meal" THEN @ + 1 ELSE @]
    /\ UNCHANGED <<qty, counted, po, meal, requests, deaths, parts, mixed, unseen>>

\* A clerk goes on to the next movement, to the last statement, or home.
Onward(s) ==
    IF Len(s.todo) > 1 THEN [s EXCEPT !.todo = Tail(@), !.pc = "record", !.before = 0]
    ELSE IF About(s.op) = "none" THEN Idle
    ELSE [Idle EXCEPT !.op = s.op, !.pc = "finish"]

\* The absolute quantity is written.
MoveWrite(c) ==
    /\ clerk[c].pc = "write"
    /\ LET s == clerk[c]  m == s.todo[1]  after == s.before + m.delta IN
        /\ qty' = [qty EXCEPT ![m.item] = after]
        /\ clerk' = [clerk EXCEPT ![c] = IF Crosses(m, s.before, after)
                                         THEN [s EXCEPT !.pc = "signal"] ELSE Onward(s)]
        /\ unseen' = IF after > Reorder THEN unseen \ {m.item}
                     ELSE IF m.depletes /\ qty[m.item] > Reorder
                     THEN unseen \cup {m.item} ELSE unseen
    /\ UNCHANGED <<moved, counted, po, meal, requests, deaths, posted, served, parts, torn, mixed>>

\* The low-stock event and its notification.
MoveSignal(c) ==
    /\ clerk[c].pc = "signal"
    /\ unseen' = unseen \ {clerk[c].todo[1].item}
    /\ clerk' = [clerk EXCEPT ![c] = Onward(clerk[c])]
    /\ UNCHANGED <<qty, moved, counted, po, meal, requests, deaths, posted, served, parts, torn, mixed>>

-----------------------------------------------------------------------------
(* inventory.service: recordCount                                          *)

\* Fault: the correction has the sign of the variance.
CorrectionAsVariance(expected, count) == expected - count

\* The movement from the expected quantity to the counted one.
Correction(expected, count) == count - expected

\* The expected quantity is read before the transaction ...
CountStart(c) ==
    /\ Spend
    /\ clerk[c] = Idle
    /\ \E i \in Items, n \in Quantities \cap Nat :
        /\ clerk' = [clerk EXCEPT ![c] =
             [op |-> "count", pc |-> "tally", before |-> 0,
              todo |-> <<Movement(i, "COUNT_CORRECTION", Correction(qty[i], n))>>,
              sheet |-> [expected |-> qty[i], counted |-> n, at |-> moved[i]]]]
        /\ torn' = IF Held(i) THEN torn \cup {i} ELSE torn
    /\ UNCHANGED <<qty, moved, counted, po, meal, deaths, posted, served, parts, mixed, unseen>>

\* ... the transaction inserts the count and, if there is a variance, move reads
\* the item again ...
CountRead(c) ==
    /\ clerk[c].pc = "tally"
    /\ LET s == clerk[c]  i == s.todo[1].item IN
        IF s.sheet.expected = s.sheet.counted
          THEN /\ counted' = [counted EXCEPT ![i] = [qty |-> s.sheet.counted, at |-> s.sheet.at]]
               /\ clerk' = [clerk EXCEPT ![c] = Idle]
               /\ UNCHANGED torn
          ELSE /\ clerk' = [clerk EXCEPT ![c].pc = "correct", ![c].before = qty[i]]
               /\ torn' = IF Held(i) THEN torn \cup {i} ELSE torn
               /\ UNCHANGED counted
    /\ UNCHANGED <<qty, moved, po, meal, requests, deaths, posted, served, parts, mixed, unseen>>

\* ... and it commits.
CountCommit(c) ==
    /\ clerk[c].pc = "correct"
    /\ LET s == clerk[c]  m == s.todo[1]  after == s.before + m.delta IN
        /\ qty' = [qty EXCEPT ![m.item] = after]
        /\ moved' = [moved EXCEPT ![m.item] = @ + m.delta]
        /\ counted' = [counted EXCEPT ![m.item] = [qty |-> s.sheet.counted,
                                                   at |-> s.sheet.at + m.delta]]
        /\ unseen' = IF after > Reorder THEN unseen \ {m.item} ELSE unseen
        /\ clerk' = [clerk EXCEPT ![c] = Idle]
    /\ UNCHANGED <<po, meal, requests, deaths, posted, served, parts, torn, mixed>>

-----------------------------------------------------------------------------
(* procurement.service                                                     *)

\* draftPO, from a list or from the items at or below their reorder points; an
\* empty one is refused.
Draft(items) ==
    /\ po.status = "none"
    /\ po' = [status |-> "DRAFT", items |-> items]
    /\ UNCHANGED <<qty, moved, counted, meal, clerk, requests, deaths,
                   posted, served, parts, torn, mixed, unseen>>

Receivable == {"SENT", "APPROVED", "PARTIALLY_RECEIVED"}

\* The statuses from which a request moves the order, and to which.
From == [submit |-> {"DRAFT"}, approve |-> {"PENDING_APPROVAL", "DRAFT"}, send |-> {"APPROVED"},
         receive |-> Receivable, receivePart |-> Receivable]
To == [submit |-> "PENDING_APPROVAL", approve |-> "APPROVED", send |-> "SENT",
       receive |-> "RECEIVED", receivePart |-> "PARTIALLY_RECEIVED"]

\* The order is read and its status checked; a delivery then moves every item in,
\* a partial one too, in the order they stand on it.
POStart(c, op) ==
    /\ po.status \in From[op]
    /\ IF op \in {"receive", "receivePart"}
         THEN Spend /\ \E items \in SetToSeqs(po.items) :
                Begin(c, op, [k \in DOMAIN items |-> Movement(items[k], "PURCHASE_IN", Bought)])
         ELSE UNCHANGED requests /\ Begin(c, op, <<>>)
    /\ UNCHANGED <<qty, moved, counted, po, meal, deaths, posted, served, parts, torn, unseen>>

\* The status is written.
POFinish(c) ==
    /\ clerk[c].pc = "finish" /\ About(clerk[c].op) = "po"
    /\ po' = [po EXCEPT !.status = To[clerk[c].op]]
    /\ parts' = IF clerk[c].op = "receivePart" THEN parts + 1 ELSE parts
    /\ clerk' = [clerk EXCEPT ![c] = Idle]
    /\ UNCHANGED <<qty, moved, counted, meal, requests, deaths, posted, served, torn, mixed, unseen>>

-----------------------------------------------------------------------------
(* orders.service                                                          *)

\* Fault: an order already in the kitchen may be sent again.
SendableAgain == {"OPEN", "SENT_TO_KITCHEN"}

Sendable == {"OPEN"}

\* sendToKitchen: an order just opened, whose lines not voided use up their recipes,
\* in whatever order they are read ...
KitchenStart(c) ==
    /\ meal.status \in Sendable
    /\ Spend
    /\ \E lines \in SetToSeqs(meal.lines) :
         Begin(c, "kitchen", [k \in DOMAIN lines |-> Movement(lines[k], "SALE_OUT", 1)])
    /\ UNCHANGED <<qty, moved, counted, po, meal, deaths, posted, served, parts, torn, unseen>>

\* ... and its status.
KitchenFinish(c) ==
    /\ clerk[c].pc = "finish" /\ clerk[c].op = "kitchen"
    /\ meal' = [meal EXCEPT !.status = "SENT_TO_KITCHEN"]
    /\ clerk' = [clerk EXCEPT ![c] = Idle]
    /\ UNCHANGED <<qty, moved, counted, po, requests, deaths, posted, served, parts, torn, mixed, unseen>>

\* voidLine: of an order in any status; what was used up stays used up.
VoidLine(i) ==
    /\ i \in meal.lines
    /\ meal' = [meal EXCEPT !.lines = @ \ {i}]
    /\ UNCHANGED <<qty, moved, counted, po, clerk, requests, deaths,
                   posted, served, parts, torn, mixed, unseen>>

\* A handler dies; a transaction it had open is rolled back.
Die(c) ==
    /\ clerk[c] # Idle /\ deaths < MaxDeaths
    /\ deaths' = deaths + 1
    /\ torn' = IF clerk[c].pc \in {"write", "signal"}
                 THEN torn \cup {clerk[c].todo[1].item} ELSE torn
    /\ mixed' = mixed \cup ({About(clerk[c].op)} \ {"none"})
    /\ clerk' = [clerk EXCEPT ![c] = Idle]
    /\ UNCHANGED <<qty, moved, counted, po, meal, requests, posted, served, parts, unseen>>

Next ==
    \/ \E c \in Clerks :
        \/ MoveStart(c) \/ MoveRecord(c) \/ MoveWrite(c) \/ MoveSignal(c)
        \/ CountStart(c) \/ CountRead(c) \/ CountCommit(c)
        \/ (\E op \in DOMAIN From : POStart(c, op)) \/ POFinish(c)
        \/ KitchenStart(c) \/ KitchenFinish(c) \/ Die(c)
    \/ \E items \in Drafts : Draft(items)
    \/ \E i \in Items : VoidLine(i)

Spec == Init /\ [][Next]_vars

-----------------------------------------------------------------------------
(* Properties                                                              *)

Kinds == {"move", "count", "kitchen"} \cup DOMAIN From

\* The values the rows and the locals of the handlers can have.
TypeOK ==
    /\ \A f \in {qty, moved} : f \in [Items -> Int]
    /\ counted \in [Items -> [qty : Int, at : Int]]
    /\ po \in [status : POStatuses \cup {"none"}, items : SUBSET Items]
    /\ meal \in [status : {"OPEN", "SENT_TO_KITCHEN"}, lines : SUBSET Items]
    /\ \A c \in Clerks :
        /\ clerk[c].op \in Kinds \cup {"idle"}
        /\ clerk[c].pc \in {"idle", "record", "write", "signal", "tally", "correct", "finish"}
        /\ \A k \in DOMAIN clerk[c].todo : clerk[c].todo[k].item \in Items
    /\ \A f \in {posted, served} : f \in [Items -> Nat]
    /\ torn \subseteq Items /\ unseen \subseteq Items /\ mixed \subseteq {"po", "meal"}

AtRest(i) == ~ \E c \in Clerks : clerk[c].pc \in {"write", "signal", "correct"} /\ clerk[c].todo[1].item = i

\* "Record a signed stock movement and adjust currentQty atomically", "correct the
\* book quantity to the physical count": the quantity of an item is what it opened
\* with plus its movements, and what was counted plus the movements since, through
\* any interleaving in which no two requests hold the item at once and none dies
\* on it.
BooksAgree ==
    \A i \in Items \ torn : AtRest(i) =>
        /\ qty[i] = Opening + moved[i]
        /\ qty[i] = counted[i].qty + moved[i] - counted[i].at

\* "Low-stock signal when a depleting move crosses the reorder point": an item that
\* a sale, a pour or a wastage took to its reorder point has been signalled, under
\* the same conditions.
LowStockSignalled == \A i \in Items \ torn : AtRest(i) => i \notin unseen

Handling(order) == \E c \in Clerks : About(clerk[c].op) = order

\* "Receive a delivery -> PURCHASE_IN movements", "send to kitchen and deplete":
\* an order that no two handlers had at once and none died with was received in
\* full once for every partial receipt and once at the end, and depleted each of
\* its ingredients once when it went to the kitchen, and never before.
PostedOnce ==
    /\ "po" \notin mixed /\ ~ Handling("po") =>
         \A i \in Items : posted[i] = IF i \in po.items
             THEN parts + (IF po.status = "RECEIVED" THEN 1 ELSE 0) ELSE 0
    /\ "meal" \notin mixed /\ ~ Handling("meal") =>
         \A i \in Items :
            /\ served[i] <= 1
            /\ meal.status = "OPEN" => served[i] = 0
            /\ meal.status # "OPEN" /\ i \in meal.lines => served[i] = 1

=============================================================================
