-------------------------- MODULE IocpStudyServers --------------------------
(* The four C servers on an I/O completion port that came before             *)
(* src/src/cpp/server, with the life of their IO_INFO (PER_IO_DATA) blocks:  *)
(*   iocp_c       src/src/c/chat_server.cpp: broadcasts with WSASend         *)
(*   iocp_wsasend 0727/windows/IOCPChatServWSASend_win.c: the same           *)
(*   iocp_send    0726/windows/IOCPChatServ_win.c: broadcasts with send      *)
(*   iocp_echo    0726/windows/IOCPEchoServ_win.c: answers with WSASend      *)
(*                                                                           *)
(* An update of clntArr and numOfClnt is one step here and the two are a     *)
(* sequence: how overlapping updates damage them is in IocpChatServer, and   *)
(* so is what becomes of the temp_buf that the first two send from.  A       *)
(* CLNT_INFO (PER_HANDLE_DATA) is named after the connection it describes.   *)
EXTENDS Sockets

CONSTANTS Workers,  \* EchoThreadMain threads
          Blocks,   \* IO_INFO blocks of the heap, numbers
          Overlaps  \* bound: units a client sends to overlapped broadcasts

\* No block is at address 0.
ASSUME StudyAssumption == 0 \notin Blocks

VARIABLES mpc, reg,      \* main: where it is, the socket accepted last
          clntArr,
          info,          \* the CLNT_INFO of a connection on the heap
          io, buf,       \* rwMode of the blocks on the heap; their buffers, in
                         \* the programs that send from them
          recvs, out,    \* WSARecv, WSASend calls outstanding on a connection
          cq,            \* the completion queue
          wpc, cur, idx  \* the workers

server == <<mpc, reg, clntArr, info, io, buf, recvs, out, cq, wpc, cur, idx>>

None == [key |-> NoConn, io |-> 0, bytes |-> 0]
NoUnit == [from |-> NoConn, num |-> 0]
Completion == [key : Conns \cup {NoConn}, io : Blocks \cup {0}, bytes : 0 .. 1]

Echo == program = "iocp_echo"
Synchronous == program = "iocp_send"

TypeOK ==
    /\ NetTypeOK
    /\ mpc \in {"accept", "register", "arm"} /\ reg \in Fds \cup {Serv}
    /\ clntArr \in Seq(Fds)
    /\ info \in [Conns -> {"none", "live", "freed"}]
    /\ io \in [Blocks -> {"free", "READ", "WRITE"}]
    /\ buf \in [Blocks -> Unit \cup {NoUnit}]
    /\ recvs \in [Conns -> SUBSET Blocks]
    /\ out \in [Conns -> Seq(Blocks)]
    /\ cq \in Seq(Completion)
    /\ wpc \in [Workers -> {"get", "handle", "remove", "send", "rearm"}]
    /\ cur \in [Workers -> Completion] /\ idx \in [Workers -> Nat]

Listening ==
    /\ NetInit
    /\ mpc = "accept" /\ reg = Serv /\ clntArr = <<>>
    /\ info = [c \in Conns |-> "none"]
    /\ io = [b \in Blocks |-> "free"]
    /\ buf = [b \in Blocks |-> NoUnit]
    /\ recvs = [c \in Conns |-> {}] /\ out = [c \in Conns |-> <<>>] /\ cq = <<>>
    /\ wpc = [w \in Workers |-> "get"]
    /\ cur = [w \in Workers |-> None] /\ idx = [w \in Workers |-> 0]

StartCServ == program = "iocp_c" /\ Listening
StartWSASendServ == program = "iocp_wsasend" /\ Listening
StartSendServ == program = "iocp_send" /\ Listening
StartEchoServ == program = "iocp_echo" /\ Listening

Init == StartCServ \/ StartWSASendServ \/ StartSendServ \/ StartEchoServ

-----------------------------------------------------------------------------
(* Calls.                                                                    *)

\* malloc: a block nobody has, for READ or WRITE; that there is none is left
\* out.
NewBlock == Min({b \in Blocks : io[b] = "free"})
Malloc(mode) ==
    /\ NewBlock \in Blocks /\ io[NewBlock] = "free"
    /\ io' = [io EXCEPT ![NewBlock] = mode]

\* WSARecv starts, or fails at once on a broken connection.
PostReceive(c, b) ==
    recvs' = IF peer[c] = "reset" THEN recvs ELSE [recvs EXCEPT ![c] = @ \cup {b}]

\* WSASend starts, or fails at once on a broken or closed socket.
PostSend(f, b) ==
    out' = IF owner[f] = NoConn THEN out
           ELSE IF peer[owner[f]] = "reset" THEN out
           ELSE [out EXCEPT ![owner[f]] = Append(@, b)]

\* Only a socket that CreateIoCompletionPort has bound to the port reports.
Reports(c, s) ==
    IF info[c] = "none" THEN <<>>
    ELSE [k \in 1 .. Len(s) |-> [key |-> c, io |-> s[k], bytes |-> 1]]

ReceiveCompletes(c) ==
    /\ \E b \in recvs[c] :
          /\ recvs' = [recvs EXCEPT ![c] = @ \ {b}]
          /\ \/ /\ HasData(c)
                /\ TakeUnit(c)
                /\ buf' = IF Echo \/ Synchronous THEN [buf EXCEPT ![b] = NextUnit(c)]
                          ELSE buf
                /\ cq' = Append(cq, [key |-> c, io |-> b, bytes |-> 1])
             \/ /\ AtEnd(c) \/ Failed(c)
                /\ cq' = Append(cq, [key |-> c, io |-> b, bytes |-> 0])
                /\ UNCHANGED <<taken, buf>>
    /\ UNCHANGED <<peer, backlog, sent, got, since, owner,
                   mpc, reg, clntArr, info, io, out, wpc, cur, idx>>

\* What is sent is what the buffer holds when it is sent.
SendCompletes(c) ==
    /\ out[c] # <<>>
    /\ IF Echo THEN WriteTo({c}, buf[Head(out[c])])
       ELSE Transmit({c}) /\ UNCHANGED got
    /\ out' = [out EXCEPT ![c] = Tail(@)]
    /\ cq' = cq \o Reports(c, <<Head(out[c])>>)
    /\ UNCHANGED <<backlog, sent, taken, since, owner,
                   mpc, reg, clntArr, info, io, buf, recvs, wpc, cur, idx>>

-----------------------------------------------------------------------------
(* main                                                                      *)

Accept(f) ==
    /\ mpc = "accept"
    /\ AcceptAs(f)
    /\ reg' = f
    /\ mpc' = IF Echo THEN "arm" ELSE "register"
    /\ UNCHANGED <<peer, sent, taken, got,
                   clntArr, info, io, buf, recvs, out, cq, wpc, cur, idx>>

Register ==
    /\ mpc = "register"
    /\ clntArr' = Append(clntArr, reg)
    /\ mpc' = "arm"
    /\ UNCHANGED <<net, reg, info, io, buf, recvs, out, cq, wpc, cur, idx>>

\* handleInfo, CreateIoCompletionPort, ioInfo, WSARecv.
Arm ==
    /\ mpc = "arm"
    /\ info' = [info EXCEPT ![owner[reg]] = "live"]
    /\ Malloc("READ")
    /\ PostReceive(owner[reg], NewBlock)
    /\ mpc' = "accept" /\ reg' = Serv
    /\ UNCHANGED <<net, clntArr, buf, out, cq, wpc, cur, idx>>

-----------------------------------------------------------------------------
(* EchoThreadMain                                                            *)

Goto(w, label) == wpc' = [wpc EXCEPT ![w] = label]
Free(b) == io' = [io EXCEPT ![b] = "free"]
Again(w) ==
    /\ Goto(w, "get")
    /\ cur' = [cur EXCEPT ![w] = None] /\ idx' = [idx EXCEPT ![w] = 0]

GetCompletion(w) ==
    /\ wpc[w] = "get" /\ cq # <<>>
    /\ cur' = [cur EXCEPT ![w] = Head(cq)]
    /\ cq' = Tail(cq)
    /\ Goto(w, "handle")
    /\ UNCHANGED <<net, mpc, reg, clntArr, info, io, buf, recvs, out, idx>>

Mode(w) == io[cur[w].io]
\* The socket in the CLNT_INFO of the worker's completion.
Sock(w) == CHOOSE f \in Fds : owner[f] = cur[w].key

\* "message sent"
HandleWrite(w) ==
    /\ wpc[w] = "handle" /\ Mode(w) = "WRITE"
    /\ Free(cur[w].io)
    /\ buf' = [buf EXCEPT ![cur[w].io] = NoUnit]
    /\ Again(w)
    /\ UNCHANGED <<net, mpc, reg, clntArr, info, recvs, out, cq>>

\* closesocket ends the sends outstanding; then two calls of free.
HandleEnd(w) ==
    LET c == cur[w].key IN
    /\ wpc[w] = "handle" /\ Mode(w) = "READ" /\ cur[w].bytes = 0
    /\ CloseFd(Sock(w))
    /\ out' = [out EXCEPT ![c] = <<>>]
    /\ cq' = cq \o Reports(c, out[c])
    /\ info' = [info EXCEPT ![c] = "freed"]
    /\ Free(cur[w].io)
    /\ IF Echo THEN Again(w)
       ELSE /\ Goto(w, "remove")
            /\ idx' = [idx EXCEPT ![w] = Sock(w)]
            /\ cur' = [cur EXCEPT ![w] = None]
    /\ UNCHANGED <<peer, backlog, sent, taken, got, since,
                   mpc, reg, clntArr, buf, recvs>>

\* The first entry of the socket closed goes and the rest moves down.
Remove(w) ==
    LET at == {k \in 1 .. Len(clntArr) : clntArr[k] = idx[w]} IN
    /\ wpc[w] = "remove"
    /\ clntArr' = IF at = {} THEN SubSeq(clntArr, 1, Len(clntArr) - 1)
                  ELSE SubSeq(clntArr, 1, Min(at) - 1)
                       \o SubSeq(clntArr, Min(at) + 1, Len(clntArr))
    /\ Again(w)
    /\ UNCHANGED <<net, mpc, reg, info, io, buf, recvs, out, cq>>

IsMessage(w) == wpc[w] = "handle" /\ Mode(w) = "READ" /\ cur[w].bytes > 0

\* strcpy to temp_buf, free(ioInfo).
CopyMessage(w) ==
    /\ ~Echo /\ ~Synchronous /\ IsMessage(w)
    /\ Free(cur[w].io)
    /\ Goto(w, "send")
    /\ cur' = [cur EXCEPT ![w].io = 0]
    /\ UNCHANGED <<net, mpc, reg, clntArr, info, buf, recvs, out, cq, idx>>

\* One iteration of the broadcast: a block for each WSASend ...
SendOverlapped(w) ==
    /\ ~Synchronous /\ wpc[w] = "send" /\ idx[w] < Len(clntArr)
    /\ Malloc("WRITE")
    /\ PostSend(clntArr[idx[w] + 1], NewBlock)
    /\ idx' = [idx EXCEPT ![w] = @ + 1]
    /\ UNCHANGED <<net, mpc, reg, clntArr, info, buf, recvs, cq, wpc, cur>>

\* Mutant: the next receive starts before the broadcast.
BroadcastMessageRearms(w) ==
    /\ Synchronous /\ IsMessage(w)
    /\ Goto(w, "send")
    /\ Malloc("READ")
    /\ PostReceive(cur[w].key, NewBlock)
    /\ UNCHANGED <<net, mpc, reg, clntArr, info, buf, out, cq, cur, idx>>

\* The buffer of the receive is sent from.
BroadcastMessage(w) ==
    /\ Synchronous /\ IsMessage(w)
    /\ Goto(w, "send")
    /\ UNCHANGED <<net, mpc, reg, clntArr, info, io, buf, recvs, out, cq, cur, idx>>

\* ... or a send that returns when the data is on its way.
SendSynchronous(w) ==
    /\ Synchronous /\ wpc[w] = "send" /\ idx[w] < Len(clntArr)
    /\ WriteTo({owner[clntArr[idx[w] + 1]]} \ {NoConn}, buf[cur[w].io])
    /\ idx' = [idx EXCEPT ![w] = @ + 1]
    /\ UNCHANGED <<backlog, sent, taken, since, owner,
                   mpc, reg, clntArr, info, io, buf, recvs, out, cq, wpc, cur>>

SendEnds(w) ==
    /\ wpc[w] = "send" /\ idx[w] >= Len(clntArr)
    /\ Goto(w, "rearm")
    /\ UNCHANGED <<net, mpc, reg, clntArr, info, io, buf, recvs, out, cq, cur, idx>>

\* Mutant: the block that carries the answer receives the next message.
EchoMessageShared(w) ==
    /\ Echo /\ IsMessage(w)
    /\ io' = [io EXCEPT ![cur[w].io] = "READ"]
    /\ PostSend(Sock(w), cur[w].io)
    /\ PostReceive(cur[w].key, cur[w].io)
    /\ Again(w)
    /\ UNCHANGED <<net, mpc, reg, clntArr, info, buf, cq>>

\* Mutant: the block is freed as soon as WSASend has returned.
EchoMessageFrees(w) ==
    /\ Echo /\ IsMessage(w)
    /\ Free(cur[w].io)
    /\ buf' = [buf EXCEPT ![cur[w].io] = NoUnit]
    /\ PostSend(Sock(w), cur[w].io)
    /\ Goto(w, "rearm")
    /\ cur' = [cur EXCEPT ![w].io = 0]
    /\ UNCHANGED <<net, mpc, reg, clntArr, info, recvs, cq, idx>>

\* The block of the receive carries the answer.
EchoMessage(w) ==
    /\ Echo /\ IsMessage(w)
    /\ io' = [io EXCEPT ![cur[w].io] = "WRITE"]
    /\ PostSend(Sock(w), cur[w].io)
    /\ Goto(w, "rearm")
    /\ cur' = [cur EXCEPT ![w].io = 0]
    /\ UNCHANGED <<net, mpc, reg, clntArr, info, buf, recvs, cq, idx>>

\* The next receive, with a new block.  The program that sends from the
\* block of the last one does not free it.
Rearm(w) ==
    /\ wpc[w] = "rearm"
    /\ Malloc("READ")
    /\ PostReceive(cur[w].key, NewBlock)
    /\ Again(w)
    /\ UNCHANGED <<net, mpc, reg, clntArr, info, buf, out, cq>>

-----------------------------------------------------------------------------
Main == (\E f \in Fds : Accept(f)) \/ Register \/ Arm
Receive(w) == GetCompletion(w) \/ HandleEnd(w) \/ Rearm(w)
Overlapped(w) == CopyMessage(w) \/ SendOverlapped(w) \/ SendEnds(w) \/ Remove(w) \/ HandleWrite(w)

CServ(w) == program = "iocp_c" /\ (Receive(w) \/ Overlapped(w))
WSASendServ(w) == program = "iocp_wsasend" /\ (Receive(w) \/ Overlapped(w))
SendServ(w) ==
    /\ program = "iocp_send"
    /\ \/ Receive(w) \/ BroadcastMessage(w) \/ SendSynchronous(w)
       \/ SendEnds(w) \/ Remove(w)
EchoServ(w) ==
    program = "iocp_echo" /\ (Receive(w) \/ EchoMessage(w) \/ HandleWrite(w))

Worker(w) == CServ(w) \/ WSASendServ(w) \/ SendServ(w) \/ EchoServ(w)
Kernel(c) == ReceiveCompletes(c) \/ SendCompletes(c)

Speak(c) ==
    /\ ClientSend(c)
    /\ Echo \/ Synchronous \/ sent'[c] <= Overlaps

Client(c) == Connect(c) \/ Speak(c) \/ ClientShut(c) \/ ClientReset(c)

Next ==
    \/ Main
    \/ \E w \in Workers : Worker(w)
    \/ \E c \in Conns : Kernel(c) \/ (Client(c) /\ UNCHANGED server)

-----------------------------------------------------------------------------
\* Who has a block: outstanding calls, queued completions, workers.
Holders(b) ==
    {<<"recv", c>> : c \in {c \in Conns : b \in recvs[c]}}
    \cup (UNION {{<<"send", c, k>> : k \in {k \in 1 .. Len(out[c]) : out[c][k] = b}} : c \in Conns})
    \cup {<<"done", k>> : k \in {k \in 1 .. Len(cq) : cq[k].io = b}}
    \cup {<<"held", w>> : w \in {w \in Workers : cur[w].io = b}}

\* A block that the system or a worker still has is on the heap, and only one
\* of them has it: no OVERLAPPED serves two operations, none is freed twice.
\* The echo server forgets a block only if a connection breaks.
BlocksOwned ==
    \A b \in Blocks :
       /\ Cardinality(Holders(b)) <= 1
       /\ Holders(b) # {} => io[b] # "free"
       /\ Echo /\ io[b] # "free" /\ Holders(b) = {} => \E c \in Conns : peer[c] = "reset"

\* Without overlapped sends every completion is one of a receive, and the
\* CLNT_INFO it brings is on the heap (IOCPChatServ_win.c:114).
KeyLive ==
    Synchronous => \A w \in Workers : wpc[w] = "handle" => info[cur[w].key] = "live"

\* The echo server answers each client with its own units, each once and in
\* order, from buffers nobody has changed since; a client of the server that
\* broadcasts with send never sees a unit after a later one of the same client
\* (it may see one twice, while clntArr holds its reused socket twice).
SentInOrder ==
    \A d \in Conns : \A k \in 1 .. Len(got[d]) :
       LET u == got[d][k] IN
       /\ Echo => u = [from |-> d, num |-> k]
       /\ Synchronous => \A j \in 1 .. k : got[d][j].from = u.from => got[d][j].num <= u.num
=============================================================================
