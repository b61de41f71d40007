---------------------------- MODULE SelectServer ----------------------------
(* 0707/linux/echo_selectserv.c: an echo server in one thread that waits for *)
(* all its sockets with select.  A timeout of select changes nothing and is  *)
(* no step.                                                                  *)
EXTENDS Sockets

VARIABLES pc,             \* in select, in the scan over i, ended by a signal
          reads, cpyReads, fdMax, i

server == <<pc, reads, cpyReads, fdMax, i>>

All == Fds \cup {Serv}

TypeOK ==
    /\ NetTypeOK
    /\ pc \in {"wait", "scan", "dead"}
    /\ reads \in SUBSET All /\ cpyReads \in SUBSET All
    /\ fdMax \in All /\ i \in Nat

\* reads holds serv_sock, and fd_max is its number.
Init ==
    /\ NetInit
    /\ pc = "wait" /\ reads = {Serv} /\ cpyReads = {} /\ fdMax = Serv /\ i = 0

Ready(f) == IF f = Serv THEN backlog # <<>> ELSE Readable(owner[f])

\* cpy_reads = reads; select(fd_max + 1, &cpy_reads, ...)
Select ==
    /\ pc = "wait"
    /\ \E f \in reads : f <= fdMax /\ Ready(f)
    /\ cpyReads' = {f \in reads : f <= fdMax /\ Ready(f)}
    /\ pc' = "scan" /\ i' = 0
    /\ UNCHANGED <<net, reads, fdMax>>

\* The descriptor at which the scan stops next.
Hits == {f \in cpyReads : i <= f /\ f <= fdMax}
At(f) == pc = "scan" /\ Hits # {} /\ f = Min(Hits)

\* Mutant: fd_max is left as it was.
AcceptKeepsMax ==
    /\ At(Serv)
    /\ AcceptAs(LowestFree)
    /\ reads' = reads \cup {LowestFree}
    /\ i' = Serv + 1
    /\ UNCHANGED <<peer, sent, taken, got, pc, cpyReads, fdMax>>

Accept ==
    /\ At(Serv)
    /\ AcceptAs(LowestFree)
    /\ reads' = reads \cup {LowestFree}
    /\ fdMax' = IF fdMax < LowestFree THEN LowestFree ELSE fdMax
    /\ i' = Serv + 1
    /\ UNCHANGED <<peer, sent, taken, got, pc, cpyReads>>

Echo(f) ==
    LET c == owner[f] IN
    /\ At(f) /\ f # Serv /\ HasData(c)
    /\ TakeUnit(c)
    /\ IF RaisesSigpipe({c})
       THEN pc' = "dead" /\ UNCHANGED <<peer, got, i>>
       ELSE WriteTo({c}, NextUnit(c)) /\ i' = f + 1 /\ UNCHANGED pc
    /\ UNCHANGED <<backlog, since, sent, owner, reads, cpyReads, fdMax>>

\* read returned 0.
Close(f) ==
    /\ At(f) /\ f # Serv /\ AtEnd(owner[f])
    /\ reads' = reads \ {f}
    /\ CloseFd(f)
    /\ i' = f + 1
    /\ UNCHANGED <<peer, backlog, since, sent, taken, got, pc, cpyReads, fdMax>>

\* read returned -1, and so does the write of -1 bytes.
Fail(f) ==
    LET c == owner[f] IN
    /\ At(f) /\ f # Serv /\ Failed(c)
    /\ peer' = [peer EXCEPT ![c] = Reported(c)]
    /\ i' = f + 1
    /\ UNCHANGED <<backlog, since, sent, taken, got, owner, pc, reads, cpyReads, fdMax>>

ScanEnds ==
    /\ pc = "scan" /\ Hits = {}
    /\ pc' = "wait" /\ cpyReads' = {}
    /\ UNCHANGED <<net, reads, fdMax, i>>

Server ==
    \/ Select \/ Accept \/ ScanEnds
    \/ \E f \in Fds : Echo(f) \/ Close(f) \/ Fail(f)

Client(c) == Connect(c) \/ ClientSend(c) \/ ClientShut(c) \/ ClientReset(c)

Next == Server \/ \E c \in Conns : Client(c) /\ UNCHANGED server
=============================================================================
