--------------------------- MODULE MCSocketServers ---------------------------
(* One of the servers that modules on top of Sockets describe, chosen at the *)
(* start, and its clients.  The variables of the others keep the values they *)
(* start with.                                                               *)
EXTENDS Sockets, TLC

CONSTANTS c1, c2, Rounds, StoreReads

ASSUME RoundsAssumption == Rounds \in Nat /\ StoreReads \in Nat

VARIABLES pc, i, fd,                                   \* of several
          reads, cpyReads, fdMax,                      \* select
          fdArray, ready, arr,                         \* select on Windows
          batch, edge, clntArr, clntNum,               \* epoll
          hSockArr, hEventArr, numOfClntSock, signaled, record,  \* events
          kid, chld, pipe, stored,                     \* fork
          op, apc, msg,                                \* completion routines
          clntSock, mutex, thread, sock, message,      \* threads and a mutex
          handler, stray                               \* web

Sel == INSTANCE SelectServer
Win == INSTANCE SelectServerWin WITH reads <- fdArray
Epoll == INSTANCE EpollServer
Async == INSTANCE AsyncNotifyServer
Iter == INSTANCE IterativeServers
Forks == INSTANCE ForkServers WITH reads <- stored
Routines == INSTANCE CompletionRoutineServer
Locked == INSTANCE LockedEchoServer
Web == INSTANCE WebServer

selectVars == <<reads, cpyReads, fdMax>>
winVars == <<fdArray, ready, arr>>
epollVars == <<batch, edge, clntArr, clntNum>>
asyncVars == <<hSockArr, hEventArr, numOfClntSock, signaled, record>>
forkVars == <<kid, chld, pipe, stored>>
routineVars == <<op, apc, msg>>
lockedVars == <<clntSock, mutex, thread, sock, message>>
webVars == <<handler, stray>>
vars == <<program, net, pc, i, fd, selectVars, winVars, epollVars, asyncVars,
          forkVars, routineVars, lockedVars, webVars>>

MCQuota == [c \in Conns |-> IF c = c1 THEN 2 ELSE 1]

NoSelect == reads = {} /\ cpyReads = {} /\ fdMax = 0
NoWin == fdArray = <<>> /\ ready = {} /\ arr = <<>>
NoEpoll == batch = {} /\ edge = {} /\ clntArr = <<>> /\ clntNum = 0
NoAsync == 
    /\ hSockArr = <<>> /\ hEventArr = <<>> /\ numOfClntSock = 0
    /\ signaled = {} /\ record = <<>>
NoForks == kid = <<>> /\ chld = FALSE /\ pipe = 0 /\ stored = 0
NoRoutines == op = <<>> /\ apc = <<>> /\ msg = <<>>
NoLocked == clntSock = 0 /\ mutex = 0 /\ thread = <<>> /\ sock = <<>> /\ message = <<>>
NoWeb == handler = {} /\ stray = FALSE

OnEpoll == program \in {"epoll", "epoll_lt", "epoll_once", "epoll_drain", "epoll_chat"}
OnEvents == program \in {"notify_echo", "notify_chat"}
Iterates == program \in {"iter", "iter_win", "iter_reuse", "iter_std"}
OnForks == program \in {"fork", "fork_store"}

Init ==
    \/ /\ Sel!Init /\ program = "select" /\ fd = 0
       /\ NoWin /\ NoEpoll /\ NoAsync /\ NoForks
       /\ NoRoutines /\ NoLocked /\ NoWeb
    \/ /\ Win!Init /\ program = "select_win" /\ fd = 0
       /\ NoSelect /\ NoEpoll /\ NoAsync /\ NoForks
       /\ NoRoutines /\ NoLocked /\ NoWeb
    \/ /\ Epoll!Init /\ i = 0
       /\ NoSelect /\ NoWin /\ NoAsync /\ NoForks
       /\ NoRoutines /\ NoLocked /\ NoWeb
    \/ /\ Async!Init /\ fd = 0
       /\ NoSelect /\ NoWin /\ NoEpoll /\ NoForks
       /\ NoRoutines /\ NoLocked /\ NoWeb
    \/ /\ Iter!Init
       /\ NoSelect /\ NoWin /\ NoEpoll /\ NoAsync
       /\ NoForks /\ NoRoutines /\ NoLocked /\ NoWeb
    \/ /\ Forks!Init /\ i = 0
       /\ NoSelect /\ NoWin /\ NoEpoll /\ NoAsync
       /\ NoRoutines /\ NoLocked /\ NoWeb
    \/ /\ Routines!Init /\ i = 0 /\ fd = 0
       /\ NoSelect /\ NoWin /\ NoEpoll /\ NoAsync
       /\ NoForks /\ NoLocked /\ NoWeb
    \/ /\ Locked!Init /\ i = 0 /\ fd = 0
       /\ NoSelect /\ NoWin /\ NoEpoll /\ NoAsync
       /\ NoForks /\ NoRoutines /\ NoWeb
    \/ /\ Web!Init /\ pc = "none" /\ i = 0 /\ fd = 0
       /\ NoSelect /\ NoWin /\ NoEpoll /\ NoAsync
       /\ NoForks /\ NoRoutines /\ NoLocked

IdleSel == UNCHANGED <<fd, winVars, epollVars, asyncVars, forkVars, routineVars, lockedVars, webVars>>
IdleWin == UNCHANGED <<fd, selectVars, epollVars, asyncVars, forkVars, routineVars, lockedVars, webVars>>
IdleEpoll == UNCHANGED <<i, selectVars, winVars, asyncVars, forkVars, routineVars, lockedVars, webVars>>
IdleAsync == UNCHANGED <<fd, selectVars, winVars, epollVars, forkVars, routineVars, lockedVars, webVars>>
IdleIter == UNCHANGED <<selectVars, winVars, epollVars, asyncVars, forkVars, routineVars, lockedVars, webVars>>
IdleForks == UNCHANGED <<i, selectVars, winVars, epollVars, asyncVars, routineVars, lockedVars, webVars>>
IdleRoutines == UNCHANGED <<i, fd, selectVars, winVars, epollVars, asyncVars, forkVars, lockedVars, webVars>>
IdleLocked == UNCHANGED <<i, fd, selectVars, winVars, epollVars, asyncVars, forkVars, routineVars, webVars>>
IdleWeb == UNCHANGED <<pc, i, fd, selectVars, winVars, epollVars, asyncVars, forkVars, routineVars, lockedVars>>

SelNext == program = "select" /\ Sel!Next /\ IdleSel /\ UNCHANGED program
WinNext == program = "select_win" /\ Win!Next /\ IdleWin /\ UNCHANGED program
EpollNext == OnEpoll /\ Epoll!Next /\ IdleEpoll /\ UNCHANGED program
AsyncNext == OnEvents /\ Async!Next /\ IdleAsync /\ UNCHANGED program
IterNext == Iterates /\ Iter!Next /\ IdleIter /\ UNCHANGED program
ForksNext == OnForks /\ Forks!Next /\ IdleForks /\ UNCHANGED program
RoutinesNext == program = "routines" /\ Routines!Next /\ IdleRoutines /\ UNCHANGED program
LockedNext == program = "locked" /\ Locked!Next /\ IdleLocked /\ UNCHANGED program
WebNext == program = "web" /\ Web!Next /\ IdleWeb /\ UNCHANGED program

Next ==
    \/ SelNext \/ WinNext \/ EpollNext \/ AsyncNext \/ IterNext
    \/ ForksNext \/ RoutinesNext \/ LockedNext \/ WebNext

\* A program runs while it can.
Server ==
    /\ UNCHANGED program
    /\ \/ program = "select" /\ Sel!Server /\ IdleSel
       \/ program = "select_win" /\ Win!Server /\ IdleWin
       \/ OnEpoll /\ Epoll!Server /\ IdleEpoll
       \/ OnEvents /\ Async!Server /\ IdleAsync
       \/ Iterates /\ Iter!Server /\ IdleIter
       \/ OnForks /\ Forks!Server /\ IdleForks
       \/ program = "routines" /\ Routines!Server /\ IdleRoutines
       \/ program = "locked" /\ Locked!Server /\ IdleLocked
       \/ program = "web" /\ Web!Server /\ IdleWeb

Spec == Init /\ [][Next]_vars
FairSpec == Spec /\ WF_vars(Server)

-----------------------------------------------------------------------------
Stopped == pc \in {"dead", "ended"}

\* The variables keep the types of the program that runs.
TypeOK ==
    /\ program = "select" => Sel!TypeOK
    /\ program = "select_win" => Win!TypeOK
    /\ OnEpoll => Epoll!TypeOK
    /\ OnEvents => Async!TypeOK
    /\ Iterates => Iter!TypeOK
    /\ OnForks => Forks!TypeOK
    /\ program = "routines" => Routines!TypeOK
    /\ program = "locked" => Locked!TypeOK
    /\ program = "web" => Web!TypeOK

\* Whose units a client is sent.
Owed(d, c) ==
    CASE program = "epoll_chat" -> d # c
      [] program = "notify_chat" -> TRUE
      [] OTHER -> d = c

\* Whose units it never is: those of another that it is not owed, except that
\* echo_serv.c may close a descriptor under a thread that has read from it, and
\* then writes to whoever got that descriptor next.
Barred(d, c) == ~Owed(d, c) /\ ~(program = "locked" /\ Over(c))

\* Whose unit has been read and is not written yet.
Midway ==
    CASE program = "routines" ->
            {c \in Conns : op[c] \in {"recvd", "send"} /\ msg[c].from = c}
      [] program = "locked" ->
            {c \in Conns : message.from = c /\ \E t \in DOMAIN thread : thread[t] = "write"}
      [] OTHER -> {}

\* How much of what was read from c has been passed on.
Passed(c) == IF c \in Midway THEN taken[c] - 1 ELSE taken[c]

\* Every client that stays is sent, in order, once and without a gap, what the
\* server reads from the moment it was accepted, and nothing else: its own
\* units from the echo servers, everybody else's from chat_EPETserv.c,
\* everybody's from AsynNotiChatServ_win.c.  The web server sends a client the
\* answer to its own request.
InStep ==
    \A d \in {d \in Served : peer[d] = "open"}, c \in Conns :
       /\ Owed(d, c) => Carries(got[d], c, since[d][c], Passed(c))
       /\ Barred(d, c) => \A k \in 1 .. Len(got[d]) : got[d][k].from # c

ClientsInStep == IF program = "web" THEN Web!OwnAnswer ELSE Stopped \/ InStep

\* A server closes the connection of a client that has ended or is broken, and
\* no other, after it has read everything.  Not so: FD_CLOSE, which may come
\* before all was read; echo_selectserv_win.c, which closes whatever is at
\* index i of the other array; echo_serv.c, where two threads may close one
\* descriptor; the web server, which closes when it has answered.
ClosesEnded ==
    [][\A c \in Served \ Served' :
          CASE program \in {"select_win", "locked", "web"} -> TRUE
            [] OnEvents -> peer[c] # "open"
            [] OTHER -> AtEnd(c) \/ Failed(c) \/ peer[c] = "gone"]_vars

\* The servers that keep arrays of their clients keep them exact: clnt_arr of
\* chat_EPETserv.c between two batches, hSockArr and hEventArr of the event
\* programs always, next to each socket the event object Windows signals.
RegistryExact ==
    /\ OnEpoll => Epoll!RegistryExact
    /\ OnEvents => Async!Paired

\* The event programs lose no event.
NoLostEvent == OnEvents => Async!NoLostEvent

-----------------------------------------------------------------------------
\* Programs that may leave a client waiting for ever: echo_EPET_problem.c,
\* echo_serv.c (for a client whose descriptor no thread was given, or behind
\* one that stays), and the iterative servers behind a client that stays or,
\* on Windows, is broken.
Waits ==
    \/ program \in {"epoll_once", "locked"}
    \/ Iterates /\ \E c \in Conns : peer[c] = "open" \/ peer[c] = "reset"

\* However often clients leave, a moment comes again when each that has left,
\* or whose broken connection Linux has reported, was accepted, read to its end
\* and closed, unless the server stops.
EndServed ==
    []<>(Stopped \/ Waits \/ \A c \in Conns : peer[c] \in {"shut", "gone"} => Over(c))

\* However often clients send, a moment comes again when all that the clients
\* that stay have sent is read; the web server reads one request.
InputRead ==
    []<>(Stopped \/ Waits \/ program = "web"
         \/ \A c \in Conns : peer[c] = "open" => ~HasData(c))
=============================================================================
