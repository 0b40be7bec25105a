----------------------------- MODULE MCPlatform -----------------------------
(* Platform with the values of its constants that a configuration cannot   *)
(* spell.                                                                  *)
EXTENDS Platform, TLC

\* Every card pays for one reservation.
OfOne == [c \in Cards |-> 1]

\* All transfers are of one amount, so that those into one account share a key.
OneAmount == [c \in Transfers |-> 1]

AnyNames == Permutations(Workers) \cup Permutations(Users) \cup Permutations(Terms)

=============================================================================
