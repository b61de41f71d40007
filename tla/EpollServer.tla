---------------------------- MODULE EpollServer ----------------------------
(* The five epoll servers of 0709/linux.  They differ in three things:       *)
(*   epoll       echo_epollserv.c: level trigger, one read                   *)
(*   epoll_lt    echo_EPLTserv.c: the same, with a smaller buffer            *)
(*   epoll_once  echo_EPET_problem.c: edge trigger, one read                 *)
(*   epoll_drain echo_EPETserv.c: edge trigger, reads until EAGAIN           *)
(*   epoll_chat  chat_EPETserv.c: the same, but broadcasts and so keeps the  *)
(*               array clnt_arr of its clients                               *)
EXTENDS Sockets

VARIABLES pc,      \* in epoll_wait, between events, reading, ended by a signal
          batch,   \* the entries of ep_events not looked at yet
          fd,      \* the entry in hand
          edge,    \* sockets with an event that epoll_wait has not reported
          clntArr, clntNum

server == <<pc, batch, fd, edge, clntArr, clntNum>>

All == Fds \cup {Serv}
\* clnt_arr is longer than the number of clients of any instance.
Slots == 0 .. Cardinality(Fds)

Edges == program \notin {"epoll", "epoll_lt"}
Drains == program \in {"epoll_drain", "epoll_chat"}
Chats == program = "epoll_chat"

TypeOK ==
    /\ NetTypeOK
    /\ pc \in {"wait", "next", "read", "dead"}
    /\ batch \in SUBSET All /\ fd \in All
    /\ edge \in SUBSET Conns
    /\ clntArr \in [Slots -> All] /\ clntNum \in 0 .. Cardinality(Fds)

\* The listening socket is in the interest list; clnt_arr is filled with 0.
Listening ==
    /\ NetInit
    /\ pc = "wait" /\ batch = {} /\ fd = Serv /\ edge = {}
    /\ clntArr = [k \in Slots |-> Serv] /\ clntNum = 0

StartEpollServ == program = "epoll" /\ Listening
StartEPLTServ == program = "epoll_lt" /\ Listening
StartEPETProblem == program = "epoll_once" /\ Listening
StartEPETServ == program = "epoll_drain" /\ Listening
StartChatEPETServ == program = "epoll_chat" /\ Listening

Init ==
    \/ StartEpollServ \/ StartEPLTServ \/ StartEPETProblem
    \/ StartEPETServ \/ StartChatEPETServ

-----------------------------------------------------------------------------
Mark(cs) == edge' = IF Edges THEN edge \cup cs ELSE edge

\* Input, the end of the stream or an error has arrived: an edge, if the
\* server has the socket in its interest list.
Arrives(c) ==
    /\ ClientSend(c) \/ ClientShut(c) \/ ClientReset(c)
    /\ Mark({c} \cap Served)
    /\ UNCHANGED <<pc, batch, fd, clntArr, clntNum>>

\* The listening socket is level-triggered in every program.
EventOn(f) ==
    IF f = Serv THEN backlog # <<>>
    ELSE owner[f] # NoConn /\ IF Edges THEN owner[f] \in edge
                              ELSE Readable(owner[f])

Wait ==
    /\ pc = "wait"
    /\ \E f \in All : EventOn(f)
    /\ batch' = {f \in All : EventOn(f)}
    /\ edge' = {}
    /\ pc' = "next"
    /\ UNCHANGED <<net, fd, clntArr, clntNum>>

\* Mutant: the new client is counted twice.
AcceptCountsTwice ==
    /\ pc = "next" /\ Serv \in batch
    /\ AcceptAs(LowestFree)
    /\ clntArr' = IF Chats THEN [clntArr EXCEPT ![clntNum] = LowestFree]
                  ELSE clntArr
    /\ clntNum' = IF Chats THEN clntNum + 2 ELSE clntNum
    /\ Mark({c \in {Head(backlog)} : Readable(c)})
    /\ batch' = batch \ {Serv}
    /\ UNCHANGED <<peer, sent, taken, got, pc, fd>>

\* accept, registration, EPOLL_CTL_ADD (which reports what is there already).
Accept ==
    /\ pc = "next" /\ Serv \in batch
    /\ AcceptAs(LowestFree)
    /\ clntArr' = IF Chats THEN [clntArr EXCEPT ![clntNum] = LowestFree]
                  ELSE clntArr
    /\ clntNum' = IF Chats THEN clntNum + 1 ELSE clntNum
    /\ Mark({c \in {Head(backlog)} : Readable(c)})
    /\ batch' = batch \ {Serv}
    /\ UNCHANGED <<peer, sent, taken, got, pc, fd>>

\* The entries of ep_events come in any order.
Pick ==
    /\ pc = "next"
    /\ \E f \in batch \ {Serv} : fd' = f /\ batch' = batch \ {f}
    /\ pc' = "read"
    /\ UNCHANGED <<net, edge, clntArr, clntNum>>

BatchEnds ==
    /\ pc = "next" /\ batch = {}
    /\ pc' = "wait"
    /\ UNCHANGED <<net, batch, fd, edge, clntArr, clntNum>>

-----------------------------------------------------------------------------
\* The programs that read once are done with the event after one read.
AfterRead == IF Drains THEN "read" ELSE "next"

\* Mutant: the broadcast starts at the second slot.
RecipientsFromOne(f) ==
    IF Chats THEN {owner[clntArr[k]] : k \in {j \in 1 .. clntNum - 1 :
                                               clntArr[j] # f}}
    ELSE {owner[f]}

\* Who gets what was read from f.
Recipients(f) ==
    IF Chats THEN {owner[clntArr[k]] : k \in {j \in 0 .. clntNum - 1 :
                                               clntArr[j] # f}}
    ELSE {owner[f]}

\* A reset that comes back is an event too.
ReadData ==
    LET c == owner[fd] IN
    /\ pc = "read" /\ HasData(c)
    /\ TakeUnit(c)
    /\ IF RaisesSigpipe(Recipients(fd))
       THEN pc' = "dead" /\ UNCHANGED <<peer, got, edge>>
       ELSE /\ WriteTo(Recipients(fd), NextUnit(c))
            /\ Mark({d \in Conns : peer'[d] # peer[d]})
            /\ pc' = AfterRead
    /\ UNCHANGED <<backlog, since, sent, owner, batch, fd, clntArr, clntNum>>

\* The first index of f, and clnt_arr without it (reading one slot too far).
IndexOf(f) == Min({k \in 0 .. clntNum - 1 : clntArr[k] = f})
Removed(f) ==
    [k \in Slots |-> IF IndexOf(f) <= k /\ k < clntNum THEN clntArr[k + 1]
                     ELSE clntArr[k]]

\* Mutant: the client stays in clnt_arr.
ReadEndKeeps ==
    /\ pc = "read" /\ AtEnd(owner[fd])
    /\ CloseFd(fd)
    /\ edge' = edge \ {owner[fd]}
    /\ pc' = "next"
    /\ UNCHANGED <<peer, backlog, since, sent, taken, got, batch, fd, clntArr, clntNum>>

\* EPOLL_CTL_DEL, close, and out of clnt_arr.
ReadEnd ==
    /\ pc = "read" /\ AtEnd(owner[fd])
    /\ CloseFd(fd)
    /\ edge' = edge \ {owner[fd]}
    /\ clntArr' = IF Chats THEN Removed(fd) ELSE clntArr
    /\ clntNum' = IF Chats THEN clntNum - 1 ELSE clntNum
    /\ pc' = "next"
    /\ UNCHANGED <<peer, backlog, since, sent, taken, got, batch, fd>>

\* -1, and not for want of data: the write of -1 bytes fails too, or the
\* loop reads again.
ReadFails ==
    LET c == owner[fd] IN
    /\ pc = "read" /\ Failed(c)
    /\ peer' = [peer EXCEPT ![c] = Reported(c)]
    /\ pc' = AfterRead
    /\ UNCHANGED <<backlog, since, sent, taken, got, owner, batch, fd, edge,
                   clntArr, clntNum>>

\* Mutant: the loop may be left before EAGAIN.
ReadOnce ==
    /\ pc = "read" /\ Drains
    /\ pc' = "next"
    /\ UNCHANGED <<net, batch, fd, edge, clntArr, clntNum>>

\* Mutant: any -1 ends the client.
AgainCloses ==
    /\ pc = "read" /\ Drains /\ ~Readable(owner[fd])
    /\ CloseFd(fd)
    /\ edge' = edge \ {owner[fd]}
    /\ pc' = "next"
    /\ UNCHANGED <<peer, backlog, since, sent, taken, got, batch, fd, clntArr, clntNum>>

\* -1 with EAGAIN.  A program whose sockets block would wait here instead.
ReadAgain ==
    /\ pc = "read" /\ Drains /\ ~Readable(owner[fd])
    /\ pc' = "next"
    /\ UNCHANGED <<net, batch, fd, edge, clntArr, clntNum>>

-----------------------------------------------------------------------------
Server ==
    \/ Wait \/ Accept \/ Pick \/ BatchEnds
    \/ ReadData \/ ReadEnd \/ ReadFails \/ ReadAgain

EpollServ == program = "epoll" /\ Server
EPLTServ == program = "epoll_lt" /\ Server
EPETProblem == program = "epoll_once" /\ Server
EPETServ == program = "epoll_drain" /\ Server
ChatEPETServ == program = "epoll_chat" /\ Server

Next ==
    \/ EpollServ \/ EPLTServ \/ EPETProblem \/ EPETServ \/ ChatEPETServ
    \/ \E c \in Conns : \/ Connect(c) /\ UNCHANGED server
                        \/ Arrives(c)

-----------------------------------------------------------------------------
\* Between two batches clnt_arr lists every connected client once, and nobody
\* else, so a broadcast neither misses a client nor writes to a descriptor
\* that was closed or has become another client's.
RegistryExact ==
    Chats /\ pc \in {"wait", "next"} =>
       /\ clntNum = Cardinality(Served)
       /\ {owner[clntArr[k]] : k \in 0 .. clntNum - 1} = Served
=============================================================================
