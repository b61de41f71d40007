---------------------------- MODULE MCIocpStudy ----------------------------
(* IocpStudyServers with two clients and two workers.                        *)
EXTENDS IocpStudyServers, TLC

CONSTANTS c1, c2, w1, w2

MCQuota == [c \in Conns |-> IF c = c1 THEN 2 ELSE 0]

vars == <<program, net, server>>
WorkerSymmetry == Permutations(Workers)

Spec == Init /\ [][Next /\ UNCHANGED program]_vars
=============================================================================
