------------------------------ MODULE MCLedger ------------------------------
(* Model values and symmetry for the instances of Postings.                 *)
EXTENDS Postings, TLC

CONSTANTS f1, f2, h1, h2

Refunds == {-1, 1}

HandlerSymmetry == Permutations(Handlers)

=============================================================================
