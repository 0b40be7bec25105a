---------------------------- MODULE MCBackOffice ----------------------------
(* BackOffice with the values of its constants that a configuration cannot *)
(* spell.                                                                  *)
EXTENDS BackOffice, TLC

\* Two messages of one sender and one of another, which ask to stop and to start.
Phones == <<1, 1, 2>>
Words  == <<"stop", "other", "start">>

\* The bodies a webhook may carry.
Bodies == {<<1>>, <<2>>, <<1, 3>>}

\* One tax on top of the price and one inside it.
Rates == {[percentBps |-> 7500, inclusive |-> FALSE], [percentBps |-> 5000, inclusive |-> TRUE]}

\* Payments, and a refund.
Sums == {-2, 1, 2}

\* The calendar is closed as a whole, at the prices it has.
Closure == {[from |-> 1, to |-> 2, price |-> 0, stop |-> TRUE]}

\* A rate plan of every kind.
Tariffs == {[kind |-> "ABSOLUTE", value |-> 3], [kind |-> "FIXED", value |-> -3],
            [kind |-> "PERCENT", value |-> 25]}

AnyHandler == Permutations(Handlers)

=============================================================================
