-------------------------- MODULE MCIocpChatServer --------------------------
(* Instances of IocpChatServer for TLC.                                      *)
EXTENDS IocpChatServer, TLC

CONSTANTS a, b, d   \* the connections, as model values

\* One client that speaks twice, for the order of messages.
QuotaOneTwice == [c \in Conns |-> IF c = a THEN 2 ELSE 0]
\* One message of one client.
QuotaOneOnce == [c \in Conns |-> IF c = a THEN 1 ELSE 0]
\* One message of every client.
QuotaEach == [c \in Conns |-> 1]
QuotaNone == [c \in Conns |-> 0]

\* Threads, and SOCKET values, are interchangeable; so are connections as far
\* as Quota does not tell them apart.
ThreadSymmetry == Permutations(Workers) \cup Permutations(Handles)
FullSymmetry == ThreadSymmetry \cup Permutations(Conns)
=============================================================================
