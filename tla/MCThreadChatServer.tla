------------------------- MODULE MCThreadChatServer -------------------------
(* Instances of ThreadChatServer for TLC.                                    *)
EXTENDS ThreadChatServer, TLC

CONSTANTS a, b, d   \* the connections, as model values

QuotaTwo == [c \in Conns |-> IF c = d THEN 0 ELSE 1]
QuotaOneTwice == [c \in Conns |-> IF c = a THEN 2 ELSE 0]
QuotaNone == [c \in Conns |-> 0]

FdSymmetry == Permutations(Fds)
\* a and b have the same Quota in QuotaTwo.
OrderSymmetry == FdSymmetry \cup Permutations({a, b})
FullSymmetry == FdSymmetry \cup Permutations(Conns)
=============================================================================
