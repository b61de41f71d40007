-------------------------- MODULE AsyncNotifyServer --------------------------
(* 0721/windows: AsynNotiEchoServ_win.c and AsynNotiChatServ_win.c.  Every   *)
(* socket has an event object; main waits for any of them, then looks at     *)
(* each from the lowest signaled one on.  The sockets and their events are   *)
(* kept in two parallel arrays.                                              *)
(*                                                                           *)
(* An event object is named after the connection it was created for (Serv    *)
(* for the listening socket).  WSAEnumNetworkEvents and what is done with    *)
(* its answer are one step: what arrives in between is recorded again by     *)
(* the call that answers it.  Errors other than a broken connection are left *)
(* out, as are more than WSA_MAXIMUM_WAIT_EVENTS sockets.                    *)
EXTENDS Sockets

VARIABLES pc, i,
          hSockArr, hEventArr, numOfClntSock,
          signaled,   \* event objects in the signaled state
          record      \* the network events recorded for a socket

server == <<pc, i, hSockArr, hEventArr, numOfClntSock, signaled, record>>

Events == Conns \cup {Serv}
Slots == 0 .. Cardinality(Fds) + 1

TypeOK ==
    /\ NetTypeOK
    /\ pc \in {"wait", "scan"} /\ i \in Nat
    /\ hSockArr \in [Slots -> Fds \cup {Serv}]
    /\ hEventArr \in [Slots -> Events]
    /\ numOfClntSock \in Nat
    /\ signaled \in SUBSET Events
    /\ record \in [Conns -> SUBSET {"READ", "CLOSE", "ABORT"}]

\* The listening socket and its event are at index 0; the arrays are not
\* initialised, and slots that were never written are never read.
Listening ==
    /\ NetInit
    /\ pc = "wait" /\ i = 0
    /\ hSockArr = [k \in Slots |-> Serv] /\ hEventArr = [k \in Slots |-> Serv]
    /\ numOfClntSock = 1
    /\ signaled = {} /\ record = [c \in Conns |-> {}]

StartEchoServ == program = "notify_echo" /\ Listening
StartChatServ == program = "notify_chat" /\ Listening

Init == StartEchoServ \/ StartChatServ

-----------------------------------------------------------------------------
(* Windows records an event and signals the event object.                    *)

ConnectSignals(c) ==
    /\ Connect(c)
    /\ signaled' = signaled \cup {Serv}
    /\ UNCHANGED <<pc, i, hSockArr, hEventArr, numOfClntSock, record>>

Notify(c, what) ==
    /\ IF c \in Served
       THEN /\ record' = [record EXCEPT ![c] = @ \cup {what}]
            /\ signaled' = signaled \cup {c}
       ELSE UNCHANGED <<record, signaled>>
    /\ UNCHANGED <<pc, i, hSockArr, hEventArr, numOfClntSock>>

Arrives(c) ==
    \/ ClientSend(c) /\ Notify(c, "READ")
    \/ ClientShut(c) /\ Notify(c, "CLOSE")
    \/ ClientReset(c) /\ Notify(c, "ABORT")

\* What WSAEventSelect finds to record on a new socket.
Pending(c) ==
    (IF HasData(c) THEN {"READ"} ELSE {})
    \cup (IF peer[c] = "shut" THEN {"CLOSE"} ELSE {})
    \cup (IF peer[c] = "reset" THEN {"ABORT"} ELSE {})

-----------------------------------------------------------------------------
(* main                                                                      *)

\* WSAWaitForMultipleEvents returns the lowest signaled index.
Wait ==
    /\ pc = "wait"
    /\ LET hits == {k \in 0 .. numOfClntSock - 1 : hEventArr[k] \in signaled}
       IN hits # {} /\ i' = Min(hits)
    /\ pc' = "scan"
    /\ UNCHANGED <<net, hSockArr, hEventArr, numOfClntSock, signaled, record>>

ScanEnds ==
    /\ pc = "scan" /\ i >= numOfClntSock
    /\ pc' = "wait"
    /\ UNCHANGED <<net, i, hSockArr, hEventArr, numOfClntSock, signaled, record>>

Skip ==
    /\ pc = "scan" /\ i < numOfClntSock /\ hEventArr[i] \notin signaled
    /\ i' = i + 1
    /\ UNCHANGED <<net, pc, hSockArr, hEventArr, numOfClntSock, signaled, record>>

Signaled(s) ==
    /\ pc = "scan" /\ i < numOfClntSock
    /\ hEventArr[i] \in signaled /\ hSockArr[i] = s

\* FD_ACCEPT.  accept signals again if another connection waits.
Accept(f) ==
    LET c == Head(backlog) IN
    /\ Signaled(Serv)
    /\ AcceptAs(f)
    /\ hSockArr' = [hSockArr EXCEPT ![numOfClntSock] = f]
    /\ hEventArr' = [hEventArr EXCEPT ![numOfClntSock] = c]
    /\ numOfClntSock' = numOfClntSock + 1
    /\ record' = [record EXCEPT ![c] = Pending(c)]
    /\ signaled' = (signaled \ {hEventArr[i]})
                   \cup (IF Pending(c) # {} THEN {c} ELSE {})
                   \cup (IF Tail(backlog) # <<>> THEN {Serv} ELSE {})
    /\ i' = i + 1
    /\ UNCHANGED <<peer, sent, taken, got, pc>>

\* send to the client itself, or SendAll: to every socket in the array (the
\* send on the listening socket fails).
Recipients(f) ==
    IF program = "notify_chat"
    THEN {owner[hSockArr[k]] : k \in {j \in 0 .. numOfClntSock - 1 :
                                        hSockArr[j] # Serv}}
    ELSE {owner[f]}

\* FD_READ without FD_CLOSE: one recv, after which what is left is recorded
\* again.  recv fails if the data was lost with the connection.
Read(f) ==
    LET c == owner[f] IN
    /\ Signaled(f) /\ record[c] = {"READ"}
    /\ IF HasData(c)
       THEN TakeUnit(c) /\ WriteTo(Recipients(f), NextUnit(c))
       ELSE UNCHANGED <<taken, peer, got>>
    /\ LET left == IF taken[c] + 1 < sent[c] THEN {"READ"} ELSE {} IN
       /\ record' = [record EXCEPT ![c] = left]
       /\ signaled' = IF left = {} THEN signaled \ {hEventArr[i]} ELSE signaled
    /\ i' = i + 1
    /\ UNCHANGED <<backlog, since, sent, owner, pc, hSockArr, hEventArr, numOfClntSock>>

\* CompressSockets and CompressEvents, called with the count already reduced.
Compressed(arr) ==
    [k \in Slots |-> IF i <= k /\ k < numOfClntSock - 1 THEN arr[k + 1] ELSE arr[k]]

\* Mutant: CompressEvents is forgotten.
CloseOneArray(f) ==
    LET c == owner[f] IN
    /\ Signaled(f) /\ "CLOSE" \in record[c]
    /\ CloseFd(f)
    /\ UNCHANGED <<taken, peer, got>>
    /\ hSockArr' = Compressed(hSockArr)
    /\ numOfClntSock' = numOfClntSock - 1
    /\ record' = [record EXCEPT ![c] = {}]
    /\ signaled' = signaled \ {hEventArr[i]}
    /\ i' = i + 1
    /\ UNCHANGED <<backlog, since, sent, pc, hEventArr>>

\* FD_CLOSE, after FD_READ if that was recorded too: one more recv, and what
\* is left after it is lost.
Close(f) ==
    LET c == owner[f] IN
    /\ Signaled(f) /\ "CLOSE" \in record[c] /\ "ABORT" \notin record[c]
    /\ IF "READ" \in record[c] /\ HasData(c)
       THEN TakeUnit(c) /\ WriteTo(Recipients(f), NextUnit(c))
       ELSE UNCHANGED <<taken, peer, got>>
    /\ CloseFd(f)
    /\ hSockArr' = Compressed(hSockArr) /\ hEventArr' = Compressed(hEventArr)
    /\ numOfClntSock' = numOfClntSock - 1
    /\ record' = [record EXCEPT ![c] = {}]
    /\ signaled' = signaled \ {hEventArr[i]}
    /\ i' = i + 1
    /\ UNCHANGED <<backlog, since, sent, pc>>

\* FD_CLOSE with an error: the break leaves the scan, and the socket stays.
Abort(f) ==
    LET c == owner[f] IN
    /\ Signaled(f) /\ "ABORT" \in record[c]
    /\ IF "READ" \in record[c] /\ HasData(c)
       THEN TakeUnit(c) /\ WriteTo(Recipients(f), NextUnit(c))
       ELSE UNCHANGED <<taken, peer, got>>
    /\ record' = [record EXCEPT ![c] = {}]
    /\ signaled' = signaled \ {hEventArr[i]}
    /\ pc' = "wait"
    /\ UNCHANGED <<backlog, since, sent, owner, i, hSockArr, hEventArr, numOfClntSock>>

-----------------------------------------------------------------------------
Server ==
    \/ Wait \/ ScanEnds \/ Skip
    \/ \E f \in Fds : Accept(f) \/ Read(f) \/ Close(f) \/ Abort(f)

EchoServ == program = "notify_echo" /\ Server
ChatServ == program = "notify_chat" /\ Server

Next == EchoServ \/ ChatServ \/ \E c \in Conns : ConnectSignals(c) \/ Arrives(c)

-----------------------------------------------------------------------------
\* The two arrays stay parallel and complete: next to each connected socket
\* is the event object that Windows signals for it.
Paired ==
    /\ {hSockArr[k] : k \in 1 .. numOfClntSock - 1} = {f \in Fds : owner[f] # NoConn}
    /\ hSockArr[0] = Serv /\ hEventArr[0] = Serv
    /\ \A k \in 1 .. numOfClntSock - 1 : hEventArr[k] = owner[hSockArr[k]]

\* No event gets lost: what a client has sent, or its leaving, is signaled on
\* an event object that main waits for until main has dealt with it.
NoLostEvent ==
    \A c \in Served :
       peer[c] = "shut" \/ (HasData(c) /\ peer[c] = "open")
          => c \in signaled /\ \E k \in 1 .. numOfClntSock - 1 : hEventArr[k] = c
=============================================================================
