--------------------------- MODULE SelectServerWin ---------------------------
(* 0707/windows/echo_selectserv_win.c.  An fd_set of Windows is an array of  *)
(* sockets: FD_CLR moves the rest down, and select moves the sockets that    *)
(* are ready to the front and leaves the rest of the array as it was.        *)
EXTENDS Sockets

VARIABLES pc,     \* in select, in the scan over i, after the loop
          reads,  \* reads.fd_array
          ready,  \* the sockets of cpyReads
          arr,    \* cpyReads.fd_array, what is behind its end included
          i

server == <<pc, reads, ready, arr, i>>

All == Fds \cup {Serv}

TypeOK ==
    /\ NetTypeOK
    /\ pc \in {"wait", "scan", "ended"}
    /\ reads \in Seq(All) /\ ready \in SUBSET All
    /\ arr \in Seq(All) /\ i \in Nat

Init ==
    /\ NetInit
    /\ pc = "wait" /\ reads = <<Serv>> /\ ready = {} /\ arr = <<>> /\ i = 1

Listed(f) == \E k \in 1 .. Len(reads) : reads[k] = f
Invalid(f) == f # Serv /\ owner[f] = NoConn
Ready(f) == IF f = Serv THEN backlog # <<>> ELSE Readable(owner[f])

Select ==
    LET hits == {k \in 1 .. Len(reads) : Ready(reads[k])}
        Rank(k) == Cardinality({j \in hits : j <= k}) IN
    /\ pc = "wait" /\ \A f \in Fds : Listed(f) => ~Invalid(f)
    /\ hits # {}
    /\ ready' = {reads[k] : k \in hits}
    /\ arr' = [k \in 1 .. Len(reads) |->
                 reads[IF \E j \in hits : Rank(j) = k
                       THEN CHOOSE j \in hits : Rank(j) = k ELSE k]]
    /\ pc' = "scan" /\ i' = 1
    /\ UNCHANGED <<net, reads>>

\* select fails on a closed socket: break, and the end of the process closes
\* every connection.
SelectFails ==
    /\ pc = "wait" /\ \E f \in Fds : Listed(f) /\ Invalid(f)
    /\ pc' = "ended"
    /\ owner' = [f \in Fds |-> NoConn]
    /\ UNCHANGED <<peer, backlog, since, sent, taken, got, reads, ready, arr, i>>

At(f) == pc = "scan" /\ i <= Len(reads) /\ reads[i] = f
Hit(f) == At(f) /\ f \in ready

Skip ==
    /\ pc = "scan" /\ i <= Len(reads) /\ reads[i] \notin ready
    /\ i' = i + 1
    /\ UNCHANGED <<net, pc, reads, ready, arr>>

\* FD_SET adds nothing twice.
Accept(f) ==
    /\ Hit(Serv)
    /\ AcceptAs(f)
    /\ reads' = IF Listed(f) THEN reads ELSE Append(reads, f)
    /\ i' = i + 1
    /\ UNCHANGED <<peer, sent, taken, got, pc, ready, arr>>

Echo(f) ==
    /\ Hit(f) /\ f # Serv /\ owner[f] # NoConn /\ HasData(owner[f])
    /\ TakeUnit(owner[f])
    /\ WriteTo({owner[f]}, NextUnit(owner[f]))
    /\ i' = i + 1
    /\ UNCHANGED <<backlog, since, sent, owner, pc, reads, ready, arr>>

\* closesocket(cpyReads.fd_array[i]), which need not be the socket that was
\* at reads.fd_array[i]; a second close of a socket fails.
Close(f) ==
    /\ Hit(f) /\ f # Serv /\ owner[f] # NoConn /\ AtEnd(owner[f])
    /\ reads' = SubSeq(reads, 1, i - 1) \o SubSeq(reads, i + 1, Len(reads))
    /\ owner' = [g \in Fds |-> IF g = arr[i] THEN NoConn ELSE owner[g]]
    /\ i' = i + 1
    /\ UNCHANGED <<peer, backlog, since, sent, taken, got, pc, ready, arr>>

\* recv returned -1: the connection is broken, or the socket closed.  The send
\* of -1 bytes fails too.
Fail(f) ==
    /\ Hit(f) /\ f # Serv /\ (owner[f] # NoConn => Failed(owner[f]))
    /\ i' = i + 1
    /\ UNCHANGED <<net, pc, reads, ready, arr>>

ScanEnds ==
    /\ pc = "scan" /\ i > Len(reads)
    /\ pc' = "wait" /\ ready' = {} /\ arr' = <<>> /\ i' = 1
    /\ UNCHANGED <<net, reads>>

Server ==
    \/ Select \/ SelectFails \/ Skip \/ ScanEnds
    \/ \E f \in Fds : Accept(f) \/ Echo(f) \/ Close(f) \/ Fail(f)

Client(c) == Connect(c) \/ ClientSend(c) \/ ClientShut(c) \/ ClientReset(c)

Next == Server \/ \E c \in Conns : Client(c) /\ UNCHANGED server
=============================================================================
