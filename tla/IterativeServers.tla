-------------------------- MODULE IterativeServers --------------------------
(* Echo servers that serve one client after the other and then end:          *)
(*   iter       0703/linux/echo_server.c, five clients                       *)
(*   iter_win   0703/windows/echo_server_win.c, five clients                 *)
(*   iter_reuse 0705/linux/reuseaddr_eserver.c, one client                   *)
(*   iter_std   0708/linux/echo_stdserver.c, five clients, through FILEs     *)
EXTENDS Sockets

CONSTANT Rounds   \* bound: the clients of a server that takes five

VARIABLES pc,     \* in accept, in the loop of one client, after the end
          fd, i   \* the client's socket, the clients served

server == <<pc, fd, i>>

Last == IF program = "iter_reuse" THEN 1 ELSE Rounds

TypeOK ==
    /\ NetTypeOK
    /\ pc \in {"accept", "serve", "ended", "dead"}
    /\ fd \in Fds \cup {Serv} /\ i \in 0 .. Last

Listening == NetInit /\ pc = "accept" /\ fd = Serv /\ i = 0

StartServer == program = "iter" /\ Listening
StartServerWin == program = "iter_win" /\ Listening
StartReuse == program = "iter_reuse" /\ Listening
StartStd == program = "iter_std" /\ Listening

Init == StartServer \/ StartServerWin \/ StartReuse \/ StartStd

Accept(f) ==
    /\ pc = "accept" /\ i < Last
    /\ OnWindows \/ f = LowestFree
    /\ AcceptAs(f)
    /\ fd' = f /\ pc' = "serve"
    /\ UNCHANGED <<peer, sent, taken, got, i>>

EndServer ==
    /\ pc = "accept" /\ i = Last
    /\ pc' = "ended"
    /\ UNCHANGED <<net, fd, i>>

Echo ==
    LET c == owner[fd] IN
    /\ pc = "serve" /\ HasData(c)
    /\ TakeUnit(c)
    /\ IF RaisesSigpipe({c})
       THEN pc' = "dead" /\ UNCHANGED <<peer, got>>
       ELSE WriteTo({c}, NextUnit(c)) /\ UNCHANGED pc
    /\ UNCHANGED <<backlog, sent, since, owner, fd, i>>

\* read returned 0: the loop ends.
Close ==
    /\ pc = "serve" /\ AtEnd(owner[fd])
    /\ CloseFd(fd)
    /\ i' = i + 1 /\ pc' = "accept"
    /\ UNCHANGED <<peer, backlog, sent, taken, got, since, fd>>

\* read returned -1, and so does the write of -1 bytes.  On Windows this
\* repeats for ever, which is no step.
Fail ==
    LET c == owner[fd] IN
    /\ pc = "serve" /\ Failed(c)
    /\ peer' = [peer EXCEPT ![c] = Reported(c)]
    /\ UNCHANGED <<backlog, sent, taken, got, since, owner, server>>

\* feof is asked before fgets: when that finds the end, or an error, the last
\* message is sent once more.
StdEnd ==
    LET c == owner[fd] IN
    /\ pc = "serve"
    /\ AtEnd(c) \/ Failed(c)
    /\ IF Failed(c) \/ RaisesSigpipe({c})
       THEN pc' = "dead" /\ UNCHANGED <<peer, owner, i>>
       ELSE /\ Transmit({c})
            /\ CloseFd(fd)
            /\ i' = i + 1 /\ pc' = "accept"
    /\ UNCHANGED <<backlog, sent, taken, got, since, fd>>

Plain == Echo \/ Close \/ Fail \/ EndServer \/ \E f \in Fds : Accept(f)

EchoServer == program = "iter" /\ Plain
EchoServerWin == program = "iter_win" /\ Plain
ReuseaddrEserver == program = "iter_reuse" /\ Plain
EchoStdserver ==
    /\ program = "iter_std"
    /\ Echo \/ StdEnd \/ EndServer \/ \E f \in Fds : Accept(f)

Server == EchoServer \/ EchoServerWin \/ ReuseaddrEserver \/ EchoStdserver

Client(c) == Connect(c) \/ ClientSend(c) \/ ClientShut(c) \/ ClientReset(c)

Next == Server \/ \E c \in Conns : Client(c) /\ UNCHANGED server
=============================================================================
