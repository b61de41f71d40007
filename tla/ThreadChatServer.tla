-------------------------- MODULE ThreadChatServer --------------------------
(* The chat server that creates a thread per client: 0719/linux/chat_serv.c  *)
(* and 0720/windows/chat_serv_win.c.  main accepts, registers the socket     *)
(* under a mutex and starts a thread with the ADDRESS of its own variable    *)
(* clnt_sock; handle_clnt reads that variable when it starts, serves its     *)
(* client, and takes it out of the registry at the end of the stream.        *)
(*                                                                           *)
(* Granularity: each system call and each iteration of the broadcast loop is *)
(* a step.  The critical sections that make no call (main registers, a       *)
(* thread removes) are one step each, taken when the mutex is free; the one  *)
(* of send_msg is not.                                                       *)
(* Abstractions: one read returns one message; a client always has room for  *)
(* what is written to it.                                                    *)
EXTENDS Integers, Sequences, FiniteSets

CONSTANTS Conns,    \* accepted connections; the thread made for c is called c
          Fds,      \* socket descriptors, free again after close
          MaxClnt,  \* MAX_CLNT
          Quota,    \* bound: messages a client may send
          Breaks,   \* bound: connections that may break
          Platform, \* which of the two programs
          NoFd, NoConn, Free

ASSUME PlatformAssumption == Platform \in {"linux", "windows"}
ASSUME QuotaAssumption == Quota \in [Conns -> Nat]
ASSUME RoomAssumption == MaxClnt \in Nat \ {0}
ASSUME NullAssumption == NoFd \notin Fds /\ NoConn \notin Conns /\ Free \notin Conns

VARIABLES
    peer, sent, taken,  \* the clients, and how much of them was read
    owner,              \* the connection a descriptor denotes
    got,                \* history: the messages written to each client
    clntSocks, clntCnt, mutex,
    mpc, clntSock, last,     \* main; last is the connection just accepted
    pc, sock, msg, idx, fdOf \* the threads; fdOf is the socket meant for each

net == <<peer, sent, taken, owner, got>>
registry == <<clntSocks, clntCnt>>
main == <<mpc, clntSock, last>>
threads == <<pc, sock, msg, idx, fdOf>>
vars == <<net, registry, mutex, main, threads>>

Slots == 0 .. MaxClnt - 1
Message == [from : Conns, num : Nat]
Error == [from |-> NoConn, num |-> 0]   \* read returned -1

TypeOK ==
    /\ peer \in [Conns -> {"none", "open", "shut", "gone", "reset"}]
    /\ sent \in [Conns -> Nat] /\ taken \in [Conns -> Nat]
    /\ owner \in [Fds -> Conns \cup {NoConn}]
    /\ got \in [Conns -> Seq(Message)]
    /\ clntSocks \in [Slots -> Fds \cup {NoFd}] /\ clntCnt \in Int
    /\ mutex \in Conns \cup {Free}
    /\ mpc \in {"accept", "register", "create", "dead"}
    /\ clntSock \in Fds \cup {NoFd} /\ last \in Conns \cup {NoConn}
    /\ pc \in [Conns -> {"none", "start", "read", "lock", "send",
                         "leave", "close", "end"}]
    /\ sock \in [Conns -> Fds \cup {NoFd}]
    /\ msg \in [Conns -> Message \cup {Error}]
    /\ idx \in [Conns -> Nat]
    /\ fdOf \in [Conns -> Fds \cup {NoFd}]

Init ==
    /\ peer = [c \in Conns |-> "none"]
    /\ sent = [c \in Conns |-> 0] /\ taken = [c \in Conns |-> 0]
    /\ owner = [f \in Fds |-> NoConn]
    /\ got = [c \in Conns |-> <<>>]
    /\ clntSocks = [k \in Slots |-> NoFd] /\ clntCnt = 0
    /\ mutex = Free
    /\ mpc = "accept" /\ clntSock = NoFd /\ last = NoConn
    /\ pc = [c \in Conns |-> "none"]
    /\ sock = [c \in Conns |-> NoFd]
    /\ msg = [c \in Conns |-> Error]
    /\ idx = [c \in Conns |-> 0]
    /\ fdOf = [c \in Conns |-> NoFd]

-----------------------------------------------------------------------------
(* The clients.  A broken connection ("reset") reports an error: on Windows  *)
(* every time, on Linux once, and then it is "gone": a read returns 0 and a  *)
(* write raises SIGPIPE.                                                     *)

ClientSend(c) ==
    /\ peer[c] = "open" /\ sent[c] < Quota[c]
    /\ sent' = [sent EXCEPT ![c] = @ + 1]
    /\ UNCHANGED <<peer, taken, owner, got, registry, mutex, main, threads>>

ClientShut(c) ==
    /\ peer[c] = "open"
    /\ peer' = [peer EXCEPT ![c] = "shut"]
    /\ UNCHANGED <<sent, taken, owner, got, registry, mutex, main, threads>>

\* The connection breaks; some of what was not read may be lost.
ClientReset(c) ==
    /\ peer[c] = "open" /\ c \in Breaks
    /\ peer' = [peer EXCEPT ![c] = "reset"]
    /\ \E n \in taken[c] .. sent[c] : sent' = [sent EXCEPT ![c] = n]
    /\ UNCHANGED <<taken, owner, got, registry, mutex, main, threads>>

-----------------------------------------------------------------------------
(* main                                                                      *)

MainGoto(label) == mpc' = label

\* clnt_sock = accept(...): the variable every starting thread will read.
Accept(c, f) ==
    /\ mpc = "accept" /\ peer[c] = "none" /\ owner[f] = NoConn
    /\ peer' = [peer EXCEPT ![c] = "open"]
    /\ owner' = [owner EXCEPT ![f] = c]
    /\ clntSock' = f /\ last' = c
    /\ fdOf' = [fdOf EXCEPT ![c] = f]
    /\ MainGoto("register")
    /\ UNCHANGED <<sent, taken, got, registry, mutex, pc, sock, msg, idx>>

\* Mutant: the counter is set to the index of the slot just filled.
RegisterKeepsCount ==
    /\ mpc = "register" /\ mutex = Free
    /\ clntSocks' = [k \in Slots |-> IF k = clntCnt THEN clntSock
                                     ELSE clntSocks[k]]
    /\ MainGoto("create")
    /\ UNCHANGED <<net, clntCnt, mutex, clntSock, last, threads>>

\* lock; clnt_socks[clnt_cnt++] = clnt_sock; unlock
Register ==
    /\ mpc = "register" /\ mutex = Free
    /\ clntSocks' = [k \in Slots |-> IF k = clntCnt THEN clntSock
                                     ELSE clntSocks[k]]
    /\ clntCnt' = clntCnt + 1
    /\ MainGoto("create")
    /\ UNCHANGED <<net, mutex, clntSock, last, threads>>

CreateThread ==
    /\ mpc = "create"
    /\ pc' = [pc EXCEPT ![last] = "start"]
    /\ MainGoto("accept") /\ last' = NoConn
    /\ UNCHANGED <<net, registry, mutex, clntSock, sock, msg, idx, fdOf>>

-----------------------------------------------------------------------------
(* handle_clnt and send_msg                                                  *)

Goto(t, label) == pc' = [pc EXCEPT ![t] = label]

\* int clnt_sock = *((int*)arg): whatever main's variable holds by now.
Start(t) ==
    /\ pc[t] = "start"
    /\ sock' = [sock EXCEPT ![t] = clntSock]
    /\ Goto(t, "read")
    /\ UNCHANGED <<net, registry, mutex, main, msg, idx, fdOf>>

\* Mutant: the message is labelled with the descriptor it came from.
ReadMessageOfSocket(t) ==
    LET c == owner[sock[t]] IN
    /\ pc[t] = "read" /\ c # NoConn /\ taken[c] < sent[c]
    /\ taken' = [taken EXCEPT ![c] = @ + 1]
    /\ msg' = [msg EXCEPT ![t] = [from |-> sock[t], num |-> taken[c] + 1]]
    /\ Goto(t, "lock")
    /\ UNCHANGED <<peer, sent, owner, got, registry, mutex, main,
                   sock, idx, fdOf>>

\* read blocks until there is a message or the end of the stream.
ReadMessage(t) ==
    LET c == owner[sock[t]] IN
    /\ pc[t] = "read" /\ c # NoConn /\ taken[c] < sent[c]
    /\ taken' = [taken EXCEPT ![c] = @ + 1]
    /\ msg' = [msg EXCEPT ![t] = [from |-> c, num |-> taken[c] + 1]]
    /\ Goto(t, "lock")
    /\ UNCHANGED <<peer, sent, owner, got, registry, mutex, main,
                   sock, idx, fdOf>>

Ended(c) == peer[c] \in {"shut", "gone"}

\* Mutant: the end of the stream is handled like a message.
ReadEofAsMessage(t) ==
    LET c == owner[sock[t]] IN
    /\ pc[t] = "read" /\ c # NoConn /\ taken[c] = sent[c] /\ Ended(c)
    /\ msg' = [msg EXCEPT ![t] = Error]
    /\ Goto(t, "lock")
    /\ UNCHANGED <<net, registry, mutex, main, sock, idx, fdOf>>

ReadEof(t) ==
    LET c == owner[sock[t]] IN
    /\ pc[t] = "read" /\ c # NoConn /\ taken[c] = sent[c] /\ Ended(c)
    /\ Goto(t, "leave")
    /\ UNCHANGED <<net, registry, mutex, main, sock, msg, idx, fdOf>>

ErrorReported(c) == IF Platform = "linux" THEN "gone" ELSE peer[c]

\* Another thread closed the descriptor, or the connection broke: -1 is not
\* 0, so the loop goes on.
ReadError(t) ==
    LET c == owner[sock[t]] IN
    /\ pc[t] = "read"
    /\ \/ c = NoConn /\ UNCHANGED peer
       \/ /\ c # NoConn /\ peer[c] = "reset" /\ taken[c] = sent[c]
          /\ peer' = [peer EXCEPT ![c] = ErrorReported(c)]
    /\ msg' = [msg EXCEPT ![t] = Error]
    /\ Goto(t, "lock")
    /\ UNCHANGED <<sent, taken, owner, got, registry, mutex, main,
                   sock, idx, fdOf>>

\* Mutant: send_msg takes no lock.
SendNoLock(t) ==
    /\ pc[t] = "lock"
    /\ Goto(t, "send")
    /\ UNCHANGED <<net, registry, mutex, main, sock, msg, idx, fdOf>>

SendLock(t) ==
    /\ pc[t] = "lock" /\ mutex = Free
    /\ mutex' = t /\ Goto(t, "send")
    /\ UNCHANGED <<net, registry, main, sock, msg, idx, fdOf>>

\* What clnt_socks[k] may be read as: past the array, anything.
Loaded(k) == IF k \in Slots THEN {clntSocks[k]} ELSE Fds \cup {NoFd}

\* What the descriptors in clnt_socks[k] denote.
Recipients(k) ==
    {owner[f] : f \in Loaded(k) \cap Fds}
        \cup (IF NoFd \in Loaded(k) THEN {NoConn} ELSE {})

\* What write may do to its peer when the length is not -1: a client that has
\* closed answers with a reset, which may arrive before the next write.
Written(c) ==
    CASE peer[c] = "shut" -> {"shut", IF Platform = "linux" THEN "gone" ELSE "reset"}
      [] peer[c] = "reset" -> {ErrorReported(c)}
      [] OTHER -> {peer[c]}

\* write(clnt_socks[i], msg, len): fails for len = -1, for a closed socket and
\* for a broken connection.
SendOne(t) ==
    /\ pc[t] = "send" /\ idx[t] < clntCnt
    /\ \E c \in Recipients(idx[t]) :
          IF c = NoConn \/ msg[t] = Error
          THEN UNCHANGED <<peer, got>>
          ELSE /\ peer[c] # "gone"
               /\ \E p \in Written(c) : peer' = [peer EXCEPT ![c] = p]
               /\ got' = IF peer[c] = "open"
                         THEN [got EXCEPT ![c] = Append(@, msg[t])] ELSE got
    /\ idx' = [idx EXCEPT ![t] = @ + 1]
    /\ UNCHANGED <<sent, taken, owner, registry, mutex, main, pc, sock, msg, fdOf>>

\* The same write when SIGPIPE, which the program does not handle, ends it.
SendPipe(t) ==
    /\ pc[t] = "send" /\ idx[t] < clntCnt
    /\ msg[t] # Error
    /\ \E c \in Recipients(idx[t]) \ {NoConn} : peer[c] = "gone"
    /\ MainGoto("dead")
    /\ UNCHANGED <<net, registry, mutex, clntSock, last, threads>>

\* Mutant: the loop stops one client early.
SendDoneEarly(t) ==
    /\ pc[t] = "send" /\ idx[t] >= clntCnt - 1
    /\ idx' = [idx EXCEPT ![t] = 0]
    /\ mutex' = Free /\ Goto(t, "read")
    /\ UNCHANGED <<net, registry, main, sock, msg, fdOf>>

SendDone(t) ==
    /\ pc[t] = "send" /\ idx[t] >= clntCnt
    /\ idx' = [idx EXCEPT ![t] = 0]
    /\ mutex' = Free /\ Goto(t, "read")
    /\ UNCHANGED <<net, registry, main, sock, msg, fdOf>>

\* The first registered index of a socket, -1 if there is none.
IndexOf(f) ==
    LET at == {k \in Slots : k < clntCnt /\ clntSocks[k] = f}
    IN IF at = {} THEN -1 ELSE CHOOSE k \in at : \A l \in at : k <= l

\* The Windows program moves every later slot down, the Linux program writes
\* slot i over and over (its inner loop counts j and uses i).  past is what
\* the memory behind the array holds.
Following(k, past) == IF k + 1 \in Slots THEN clntSocks[k + 1] ELSE past

ShiftLinux(i, past) ==
    [k \in Slots |-> IF k = i /\ k < clntCnt - 1
                     THEN Following(k, past) ELSE clntSocks[k]]

ShiftWindows(i, past) ==
    [k \in Slots |-> IF i >= 0 /\ k >= i /\ k < clntCnt - 1
                     THEN Following(k, past) ELSE clntSocks[k]]

ShiftFrom(i, past) ==
    IF Platform = "windows" THEN ShiftWindows(i, past) ELSE ShiftLinux(i, past)

\* Mutant: the thread leaves without unlocking.
RemoveNoUnlock(t) ==
    /\ pc[t] = "leave" /\ mutex = Free
    /\ \E past \in Loaded(clntCnt - 1) :
          clntSocks' = ShiftFrom(IndexOf(sock[t]), past)
    /\ clntCnt' = clntCnt - 1
    /\ mutex' = t /\ Goto(t, "close")
    /\ UNCHANGED <<net, main, sock, msg, idx, fdOf>>

\* Lock, take the socket out, clnt_cnt-- (whether it was found or not), unlock.
Remove(t) ==
    /\ pc[t] = "leave" /\ mutex = Free
    /\ \E past \in Loaded(clntCnt - 1) :
          clntSocks' = ShiftFrom(IndexOf(sock[t]), past)
    /\ clntCnt' = clntCnt - 1
    /\ Goto(t, "close")
    /\ UNCHANGED <<net, mutex, main, sock, msg, idx, fdOf>>

\* close(clnt_sock): without effect on a descriptor closed before.
Close(t) ==
    /\ pc[t] = "close"
    /\ owner' = [owner EXCEPT ![sock[t]] = NoConn]
    /\ Goto(t, "end")
    /\ UNCHANGED <<peer, sent, taken, got, registry, mutex, main,
                   sock, msg, idx, fdOf>>

-----------------------------------------------------------------------------
MainStep ==
    \/ \E c \in Conns, f \in Fds : Accept(c, f)
    \/ Register \/ CreateThread

Running == mpc # "dead"

ThreadStep(t) ==
    \/ Start(t) \/ ReadMessage(t) \/ ReadEof(t) \/ ReadError(t)
    \/ SendLock(t) \/ SendOne(t) \/ SendPipe(t) \/ SendDone(t)
    \/ Remove(t) \/ Close(t)

Thread(t) == Running /\ ThreadStep(t)

Next ==
    \/ MainStep
    \/ \E c \in Conns : \/ Thread(c) \/ ClientSend(c) \/ ClientShut(c)
                        \/ ClientReset(c)

Spec == Init /\ [][Next]_vars

\* Every thread that can take a step takes one in the end; nothing is assumed
\* about who gets the mutex.
FairSpec ==
    /\ Spec
    /\ WF_vars(Register \/ CreateThread)
    /\ \A t \in Conns : WF_vars(Thread(t))

-----------------------------------------------------------------------------
\* The connections main has registered and no thread has taken out.
Registered ==
    {c \in Conns : \/ pc[c] \notin {"none", "close", "end"}
                   \/ last = c /\ mpc = "create"}

\* A thread got the socket of a later client than the one it was made for.
Mixed == \E t \in Conns : sock[t] # NoFd /\ sock[t] # fdOf[t]

\* Whenever the mutex is free, clnt_cnt counts the clients whose threads have
\* not finished, even when threads got each other's sockets.
CountBalanced == mutex = Free => clntCnt = Cardinality(Registered)

\* As long as every thread got its own socket, the registry lists exactly the
\* sockets of the clients that are being served whenever the mutex is free.
RegistryExact ==
    mutex = Free /\ ~Mixed =>
       {clntSocks[k] : k \in 0 .. clntCnt - 1} = {fdOf[c] : c \in Registered}

\* Any two clients see the messages that reach both of them in one order.
AgreedOrder ==
    \A c, d \in Conns :
       \A i, j \in 1 .. Len(got[c]) : \A k, l \in 1 .. Len(got[d]) :
          i < j /\ k < l /\ got[c][i] = got[d][l] /\ got[c][j] = got[d][k]
             => got[c][i] = got[c][j]

\* A message that a thread has read reaches its own sender, who is registered
\* until the thread finishes, before the thread reads again.
Echoed ==
    \A c \in Conns :
       ~Mixed /\ pc[c] = "read" /\ peer[c] = "open" =>
          \A n \in 1 .. taken[c] :
             \E i \in 1 .. Len(got[c]) : got[c][i] = [from |-> c, num |-> n]

\* Unless sockets are mixed up or SIGPIPE ends it, the Linux server finishes
\* with every client that closed or broke off.
EofServed ==
    \A c \in Conns :
       Ended(c) \/ peer[c] = "reset" ~> pc[c] = "end" \/ Mixed \/ ~Running

\* Nobody keeps the mutex while the server runs.
MutexReleased == \A t \in Conns : mutex = t ~> mutex # t \/ ~Running

\* The removal at the end of handle_clnt removes the disconnected client and
\* leaves the others registered.
DisconnectedRemoved == RegistryExact
=============================================================================
