------------------------------ MODULE Pricing ------------------------------
(***************************************************************************)
(* The rate calendar of one room type, the suggestions that change it and  *)
(* the quotes read from it: rates.service, revenue.service's suggestions   *)
(* and its autopilot, pricing.service's quote.                             *)
(*                                                                         *)
(* No operation has a transaction: a calendar range is written day by day, *)
(* suggestions are deleted and made one by one, a suggestion's price goes  *)
(* into the calendar before the suggestion is APPLIED.  A handler may die  *)
(* between any two statements.                                             *)
(*                                                                         *)
(* Abstracted: how demand makes a price (any of Suggested); minimum and    *)
(* maximum stays and closed arrivals, which restrict only the first night; *)
(* the server's clock keeps UTC, so that a day is a day.                   *)
(***************************************************************************)
EXTENDS Integers, FiniteSetsExt

CONSTANTS
    Days,         \* bound: the days of the calendar, 1 .. n
    Base,         \* RoomType.basePrice
    Suggested,    \* the prices demand may suggest
    Ranges,       \* what setCalendar is called with: from, to, price (0: none given), stop
    Plans,        \* the rate plans: kind and value
    Suggestions,  \* bound: PriceSuggestion rows, numbered in order of creation
    Handlers,     \* bound: requests in flight
    MaxCalls,     \* bound: requests made
    MaxDeaths     \* bound: handlers that fail or die

VARIABLES
    rate,      \* rate[d]: the DailyRate of day d, or NoRate
    sug,       \* sug[n]: the PriceSuggestion row, or NoRow
    desk,      \* desk[h]: the request in flight
    calls,
    deaths,
    source,    \* history: source[d]: the suggestion whose price day d has, or 0
    muddled    \* history: suggestions decided or deleted in mid-application or after it

vars == <<rate, sug, desk, calls, deaths, source, muddled>>

NoRate  == [price |-> 0, stop |-> FALSE]
NoRange == [from |-> 0, to |-> 0, price |-> 0, stop |-> FALSE]
NoRow   == [status |-> "none", day |-> 0, price |-> 0, beside |-> FALSE]
Idle    == [pc |-> "idle", day |-> 0, range |-> NoRange, rows |-> {}, auto |-> FALSE, beside |-> FALSE]

Init ==
    /\ rate = [d \in Days |-> NoRate]
    /\ sug = [n \in Suggestions |-> NoRow]
    /\ desk = [h \in Handlers |-> Idle]
    /\ calls = 0
    /\ deaths = 0
    /\ source = [d \in Days |-> 0]
    /\ muddled = {}

Pending == {n \in Suggestions : sug[n].status = "SUGGESTED"}
LastDay == Max(Days)

Call == calls < MaxCalls /\ calls' = calls + 1

-----------------------------------------------------------------------------
(* rates.service                                                           *)

SetCalendarStart(h, range) ==
    /\ Call /\ desk[h] = Idle
    /\ desk' = [desk EXCEPT ![h] = [Idle EXCEPT !.pc = "set", !.day = range.from, !.range = range]]
    /\ UNCHANGED <<rate, sug, deaths, source, muddled>>

\* The upsert of one day; without a price the day gets the base price.
SetCalendarDay(h) ==
    /\ desk[h].pc = "set"
    /\ LET d == desk[h].day  range == desk[h].range IN
        /\ rate' = [rate EXCEPT ![d] =
             [price |-> IF range.price = 0 THEN Base ELSE range.price, stop |-> range.stop]]
        /\ source' = [source EXCEPT ![d] = 0]
        /\ desk' = [desk EXCEPT ![h] = IF d = range.to THEN Idle ELSE [@ EXCEPT !.day = d + 1]]
    /\ UNCHANGED <<sug, calls, deaths, muddled>>

\* setDay: only the price changes.
SetDay(n) ==
    /\ rate' = [rate EXCEPT ![sug[n].day].price = sug[n].price]
    /\ source' = [source EXCEPT ![sug[n].day] = n]

-----------------------------------------------------------------------------
(* revenue.service: generateSuggestions                                    *)

Generating == {g \in Handlers : desk[g].pc \in {"clear", "make"}}

GenerateStart(h, auto) ==
    /\ Call /\ desk[h] = Idle
    /\ desk' = [g \in Handlers |->
         IF g = h
           THEN [Idle EXCEPT !.pc = "clear", !.auto = auto, !.beside = Generating # {}]
           ELSE IF g \in Generating THEN [desk[g] EXCEPT !.beside = TRUE] ELSE desk[g]]
    /\ UNCHANGED <<rate, sug, deaths, source, muddled>>

\* Fault: only the suggestions of the first day are replaced.
ReplacedFirst == {n \in Pending : sug[n].day = Min(Days)}

\* "Replaces any still-pending rows".
Replaced == Pending

\* The suggestion is being applied by somebody.
HeldRow(n) == \E g \in Handlers : desk[g].pc \in {"price", "mark"} /\ n \in desk[g].rows

Clear(h) ==
    /\ desk[h].pc = "clear"
    /\ sug' = [n \in Suggestions |->
         IF n \in Replaced THEN [sug[n] EXCEPT !.status = "deleted"] ELSE sug[n]]
    /\ muddled' = muddled \cup {n \in Replaced : HeldRow(n) \/ n \in {source[d] : d \in Days}}
    /\ desk' = [desk EXCEPT ![h].pc = "make", ![h].day = Min(Days)]
    /\ UNCHANGED <<rate, calls, deaths, source>>

\* The suggestion of one day, at the price of its demand; then the next, and in the end
\* the autopilot goes on to what is pending.
Make(h) ==
    /\ desk[h].pc = "make"
    /\ \E n \in Suggestions, p \in Suggested :
        /\ sug[n] = NoRow /\ \A m \in Suggestions : sug[m] = NoRow => n <= m
        /\ sug' = [sug EXCEPT ![n] =
             [status |-> "SUGGESTED", day |-> desk[h].day, price |-> p, beside |-> desk[h].beside]]
    /\ LET s == desk[h] IN
         desk' = [desk EXCEPT ![h] =
           IF s.day < LastDay THEN [s EXCEPT !.day = s.day + 1]
           ELSE IF s.auto THEN [Idle EXCEPT !.pc = "list"]
           ELSE Idle]
    /\ UNCHANGED <<rate, calls, deaths, source, muddled>>

-----------------------------------------------------------------------------
(* revenue.service: decide, apply, autoApply                               *)

\* decide looks at nothing but the id.
Decide(n, status) ==
    /\ Call
    /\ sug[n].status \notin {"none", "deleted"}
    /\ sug' = [sug EXCEPT ![n].status = status]
    /\ muddled' = muddled \cup {m \in {n} : HeldRow(m) \/ m \in {source[d] : d \in Days}}
    /\ UNCHANGED <<rate, desk, deaths, source>>

\* apply, of an APPROVED suggestion.
ApplyStart(h, n) ==
    /\ Call /\ desk[h] = Idle
    /\ sug[n].status = "APPROVED"
    /\ desk' = [desk EXCEPT ![h] = [Idle EXCEPT !.pc = "price", !.rows = {n}]]
    /\ UNCHANGED <<rate, sug, deaths, source, muddled>>

\* autoApply: whatever is pending now, its own suggestions or another's.
AutoList(h) ==
    /\ desk[h].pc = "list"
    /\ desk' = [desk EXCEPT ![h] =
         IF Pending = {} THEN Idle ELSE [Idle EXCEPT !.pc = "price", !.rows = Pending]]
    /\ UNCHANGED <<rate, sug, calls, deaths, source, muddled>>

\* Fault: the autopilot leaves its suggestions pending.
MarkedAsRead == "SUGGESTED"

Marked == "APPLIED"

\* The price goes into the calendar, of a row as it was read ...
ApplyPrice(h) ==
    /\ desk[h].pc = "price"
    /\ \E n \in desk[h].rows :
        /\ SetDay(n)
        /\ desk' = [desk EXCEPT ![h].pc = "mark", ![h].day = n]
    /\ UNCHANGED <<sug, calls, deaths, muddled>>

\* ... and the row is APPLIED, whatever was decided meanwhile; if it was deleted the
\* update fails and the rest is left.
ApplyMark(h) ==
    /\ desk[h].pc = "mark"
    /\ LET n == desk[h].day  rest == desk[h].rows \ {n} IN
        IF sug[n].status = "deleted"
          THEN desk' = [desk EXCEPT ![h] = Idle] /\ UNCHANGED sug
          ELSE /\ sug' = [sug EXCEPT ![n].status = Marked]
               /\ desk' = [desk EXCEPT ![h] =
                    IF rest = {} THEN Idle ELSE [Idle EXCEPT !.pc = "price", !.rows = rest]]
    /\ UNCHANGED <<rate, calls, deaths, source, muddled>>

\* A statement fails or the process dies.
Die(h) ==
    /\ desk[h] # Idle
    /\ deaths < MaxDeaths
    /\ deaths' = deaths + 1
    /\ muddled' = IF desk[h].pc = "mark" THEN muddled \cup {desk[h].day} ELSE muddled
    /\ desk' = [desk EXCEPT ![h] = Idle]
    /\ UNCHANGED <<rate, sug, calls, source>>

-----------------------------------------------------------------------------
(* pricing.service: quote                                                  *)

\* Fault: the night of the departure is paid for.
NightsOfWithLast(in, out) == in .. out

\* The nights of a stay; one for a day's use.
NightsOf(in, out) == in .. (IF out > in THEN out - 1 ELSE in)

\* Math.round(price * (1 + value / 100)): halves go up.
Percent(price, value) == (2 * price * (100 + value) + 100) \div 200

NotNegative(x) == IF x < 0 THEN 0 ELSE x

\* applyPlan
Adjusted(plan, price) ==
    CASE plan.kind = "ABSOLUTE" -> plan.value
      [] plan.kind = "FIXED"    -> NotNegative(price + plan.value)
      [] plan.kind = "PERCENT"  -> NotNegative(Percent(price, plan.value))

RateOf(d) == IF d \in Days THEN rate[d] ELSE NoRate

PriceOf(d) == IF RateOf(d) = NoRate THEN Base ELSE RateOf(d).price

Total(plan, in, out) ==
    SumFunctionOnSet([d \in NightsOf(in, out) |-> Adjusted(plan, PriceOf(d))], NightsOf(in, out))

Blocked(in, out) == \E d \in NightsOf(in, out) : RateOf(d).stop

-----------------------------------------------------------------------------

Next ==
    \/ \E n \in Suggestions, s \in {"APPROVED", "REJECTED"} : Decide(n, s)
    \/ \E h \in Handlers :
        \/ \E range \in Ranges : SetCalendarStart(h, range)
        \/ SetCalendarDay(h)
        \/ \E auto \in BOOLEAN : GenerateStart(h, auto)
        \/ Clear(h) \/ Make(h)
        \/ \E n \in Suggestions : ApplyStart(h, n)
        \/ AutoList(h) \/ ApplyPrice(h) \/ ApplyMark(h)
        \/ Die(h)

Spec == Init /\ [][Next]_vars

-----------------------------------------------------------------------------
(* Properties                                                              *)

\* The values the rows and the requests can have.
TypeOK ==
    /\ rate \in [Days -> [price : Nat, stop : BOOLEAN]]
    /\ \A n \in Suggestions :
        /\ sug[n].status \in {"none", "SUGGESTED", "APPROVED", "REJECTED", "APPLIED", "deleted"}
        /\ sug[n].day \in Days \cup {0} /\ sug[n].price \in Suggested \cup {0}
    /\ \A h \in Handlers :
        /\ desk[h].pc \in {"idle", "set", "clear", "make", "list", "price", "mark"}
        /\ desk[h].rows \subseteq Suggestions
    /\ source \in [Days -> Suggestions \cup {0}]

\* "Suggest, approve, apply": a price of the calendar that came from a suggestion
\* traces to one that says it was applied, for that day and at that price, once
\* its application is over; unless somebody decided about it meanwhile or later,
\* a new generation deleted it, or its handler died.
PricesTrace ==
    \A d \in Days : LET n == source[d] IN
        n # 0 /\ n \notin muddled /\ ~ HeldRow(n) =>
            sug[n].status = "APPLIED" /\ sug[n].day = d /\ rate[d].price = sug[n].price

\* "Replaces any still-pending rows": a day has one pending suggestion, unless two
\* generations ran beside each other.
OnePendingPerDay ==
    \A m, n \in Pending : m < n /\ sug[m].day = sug[n].day => sug[m].beside \/ sug[n].beside

\* A stay costs what its parts cost, whatever the calendar and the plan, and is closed
\* as soon as a part of it is.
QuotesAdd ==
    \A in, mid, out \in Days \cup {LastDay + 1} : in < mid /\ mid < out =>
        /\ \A plan \in Plans : Total(plan, in, out) = Total(plan, in, mid) + Total(plan, mid, out)
        /\ Blocked(in, out) = (Blocked(in, mid) \/ Blocked(mid, out))

=============================================================================
