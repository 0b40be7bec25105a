--------------------------- MODULE MCOfflineSync ---------------------------
(* Model values for the instances of OfflineSync.                          *)
EXTENDS OfflineSync, TLC

CONSTANTS book, pay, arrive, report, r1, r2

KindOf == [o \in Ops |-> CASE o = book   -> "reservation"
                           [] o = pay    -> "payment"
                           [] o = arrive -> "checkIn"
                           [] o = report -> "ticket"
                           [] OTHER      -> "other"]

RequestSymmetry == Permutations(Requests)

=============================================================================
