-------------------------- MODULE LockedEchoServer --------------------------
(* 0719/linux/echo_serv.c: a thread for each client, and one mutex that a    *)
(* thread holds as long as it serves its client, since message is shared.    *)
(* Every thread is given the address of main's clnt_sock, and copies what is *)
(* there when it starts.                                                     *)
EXTENDS Sockets

VARIABLES pc, clntSock,  \* main
          mutex,         \* the thread that holds it
          thread, sock,  \* where a thread is, its clnt_sock
          message        \* shared

server == <<pc, clntSock, mutex, thread, sock, message>>

Threads == 1 .. Cardinality(Conns)
NoUnit == [from |-> NoConn, num |-> 0]

TypeOK ==
    /\ NetTypeOK
    /\ pc \in {"accept", "create", "dead"} /\ clntSock \in Fds \cup {Serv}
    /\ mutex \in Threads \cup {0}
    /\ thread \in [Threads -> {"none", "start", "lock", "read", "write", "close", "ended"}]
    /\ sock \in [Threads -> Fds \cup {Serv}]
    /\ message \in Unit \cup {NoUnit}

Init ==
    /\ NetInit
    /\ program = "locked"
    /\ pc = "accept" /\ clntSock = Serv /\ mutex = 0
    /\ thread = [t \in Threads |-> "none"] /\ sock = [t \in Threads |-> Serv]
    /\ message = NoUnit

Accept ==
    /\ pc = "accept"
    /\ AcceptAs(LowestFree)
    /\ clntSock' = LowestFree /\ pc' = "create"
    /\ UNCHANGED <<peer, sent, taken, got, mutex, thread, sock, message>>

Create ==
    /\ pc = "create"
    /\ \E t \in Threads :
          /\ thread[t] = "none" /\ \A u \in Threads : u < t => thread[u] # "none"
          /\ thread' = [thread EXCEPT ![t] = "start"]
    /\ pc' = "accept"
    /\ UNCHANGED <<net, clntSock, mutex, sock, message>>

-----------------------------------------------------------------------------
(* echo_clnt; the end of the process ends every thread.                      *)

At(t, label) == pc # "dead" /\ thread[t] = label
Goto(t, label) == thread' = [thread EXCEPT ![t] = label]
Client(t) == owner[sock[t]]

Start(t) ==
    /\ At(t, "start")
    /\ sock' = [sock EXCEPT ![t] = clntSock]
    /\ Goto(t, "lock")
    /\ UNCHANGED <<net, pc, clntSock, mutex, message>>

Lock(t) ==
    /\ At(t, "lock") /\ mutex = 0
    /\ mutex' = t
    /\ Goto(t, "read")
    /\ UNCHANGED <<net, pc, clntSock, sock, message>>

Read(t) ==
    /\ At(t, "read") /\ Client(t) # NoConn /\ HasData(Client(t))
    /\ TakeUnit(Client(t))
    /\ message' = NextUnit(Client(t))
    /\ Goto(t, "write")
    /\ UNCHANGED <<peer, backlog, sent, got, since, owner, pc, clntSock, mutex, sock>>

\* The descriptor may have been closed by another thread that was given it.
Write(t) ==
    LET to == {Client(t)} \ {NoConn} IN
    /\ At(t, "write")
    /\ IF RaisesSigpipe(to)
       THEN pc' = "dead" /\ UNCHANGED <<peer, got, thread>>
       ELSE WriteTo(to, message) /\ Goto(t, "read") /\ UNCHANGED pc
    /\ UNCHANGED <<backlog, sent, taken, since, owner, clntSock, mutex, sock, message>>

\* read returned -1.  On a descriptor that another thread has closed this
\* repeats for ever, which is no step, and the mutex stays locked.
ReadFails(t) ==
    /\ At(t, "read") /\ Client(t) # NoConn /\ Failed(Client(t))
    /\ peer' = [peer EXCEPT ![Client(t)] = Reported(Client(t))]
    /\ UNCHANGED <<backlog, sent, taken, got, since, owner, server>>

ReadEnd(t) ==
    /\ At(t, "read") /\ Client(t) # NoConn /\ AtEnd(Client(t))
    /\ mutex' = 0
    /\ Goto(t, "close")
    /\ UNCHANGED <<net, pc, clntSock, sock, message>>

Close(t) ==
    /\ At(t, "close")
    /\ CloseFd(sock[t])
    /\ Goto(t, "ended")
    /\ UNCHANGED <<peer, backlog, sent, taken, got, since, pc, clntSock, mutex,
                   sock, message>>

Thread(t) ==
    \/ Start(t) \/ Lock(t) \/ Read(t) \/ Write(t)
    \/ ReadFails(t) \/ ReadEnd(t) \/ Close(t)

Server == Accept \/ Create \/ \E t \in Threads : Thread(t)

Peer(c) == Connect(c) \/ ClientSend(c) \/ ClientShut(c) \/ ClientReset(c)

Next == Server \/ \E c \in Conns : Peer(c) /\ UNCHANGED server
=============================================================================
