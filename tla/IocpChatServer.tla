--------------------------- MODULE IocpChatServer ---------------------------
(* The chat server of src/src/cpp/server: the main thread runs               *)
(* IOCP::AcceptRoutine, a pool of worker threads runs EchoThreadMain on one  *)
(* I/O completion port, and both share the unprotected client registry       *)
(* CLNT::clntArr / CLNT::numOfClnt.                                          *)
(*                                                                           *)
(* Granularity: every access to shared memory and every call to the kernel   *)
(* is a step of its own, except that one iteration of a loop over clntArr    *)
(* (test, body, increment) is one step.  Memory no other thread can reach    *)
(* (an IO_INFO before it is posted or after it completed) is not state.      *)
(* Abstractions: what one receive returns is one message; a CLNT_INFO and    *)
(* the connection it describes are the same value c; a store or a load       *)
(* outside clntArr touches memory the model does not have.                   *)
EXTENDS Integers, Sequences, FiniteSets

CONSTANTS Workers,      \* EchoThreadMain threads
          Conns,        \* connections, in the order nobody knows
          Handles,      \* SOCKET values; one is free again after closesocket
          MaxClnt,      \* MAX_CLNT, the length of clntArr
          Quota,        \* bound: how many messages each connection may send
          NoHandle, NoConn, None

ASSUME QuotaAssumption == Quota \in [Conns -> Nat]
ASSUME RoomAssumption == MaxClnt \in Nat \ {0}
ASSUME NullAssumption ==
    NoHandle \notin Handles /\ NoConn \notin Conns

VARIABLES
    \* the network and the kernel
    peer,        \* how far the client at the other end has got
    sent, taken, \* messages the client sent / the server's receives returned
    owner,       \* the connection a SOCKET value denotes
    recvs,       \* WSARecv calls outstanding on a connection
    out,         \* WSASend calls outstanding on a connection, oldest first
    cq,          \* the completion queue of hComPort
    \* the program
    info,        \* the CLNT_INFO of a connection on the heap
    hClntSock,   \* its field
    clntArr, numOfClnt,
    mpc, reg,    \* the main thread in AcceptRoutine
    pc, cur, idx, cnt, tempBuf,  \* the workers in EchoThreadMain
    \* history
    overlap,     \* two registry updates have overlapped
    due, shaken  \* whom a broadcast still owes; broadcasts that met a removal

kernel == <<peer, sent, taken, owner, recvs, out, cq>>
heap == <<info, hClntSock>>
registry == <<clntArr, numOfClnt>>
main == <<mpc, reg>>
workers == <<pc, cur, idx, cnt, tempBuf>>
history == <<overlap, due, shaken>>
vars == <<kernel, heap, registry, main, workers, history>>

Slots == 0 .. MaxClnt - 1
Message == [from : Conns, num : Nat]
Completion == [op : {"READ", "WRITE"}, conn : Conns, num : Nat]
Send == [buf : Workers, msg : Message]
Leaving == {"delete", "find", "shift", "load", "store"}

TypeOK ==
    /\ peer \in [Conns -> {"none", "open", "shut", "reset"}]
    /\ sent \in [Conns -> Nat] /\ taken \in [Conns -> Nat]
    /\ owner \in [Handles -> Conns \cup {NoConn}]
    /\ recvs \in [Conns -> Nat]
    /\ out \in [Conns -> Seq(Send)]
    /\ cq \in Seq(Completion)
    /\ info \in [Conns -> {"none", "live", "freed"}]
    /\ hClntSock \in [Conns -> Handles \cup {NoHandle}]
    /\ clntArr \in [Slots -> Handles \cup {NoHandle}]
    /\ numOfClnt \in Int
    /\ mpc \in {"accept", "load", "store", "arm"}
    /\ reg \in [conn : Conns \cup {NoConn}, at : Int,
                todo : SUBSET {"slot", "count"}]
    /\ pc \in [Workers -> {"get", "deref", "send", "rearm", "close"}
                          \cup Leaving]
    /\ cur \in [Workers -> Completion \cup {None}]
    /\ idx \in [Workers -> Nat]
    /\ cnt \in [Workers -> Int]
    /\ tempBuf \in [Workers -> Message \cup {None}]
    /\ overlap \in BOOLEAN
    /\ due \in [Workers -> SUBSET Conns]
    /\ shaken \in SUBSET Workers

Init ==
    /\ peer = [c \in Conns |-> "none"]
    /\ sent = [c \in Conns |-> 0] /\ taken = [c \in Conns |-> 0]
    /\ owner = [h \in Handles |-> NoConn]
    /\ recvs = [c \in Conns |-> 0]
    /\ out = [c \in Conns |-> <<>>]
    /\ cq = <<>>
    /\ info = [c \in Conns |-> "none"]
    /\ hClntSock = [c \in Conns |-> NoHandle]
    /\ clntArr = [k \in Slots |-> NoHandle] /\ numOfClnt = 0
    /\ mpc = "accept" /\ reg = [conn |-> NoConn, at |-> 0, todo |-> {}]
    /\ pc = [w \in Workers |-> "get"]
    /\ cur = [w \in Workers |-> None]
    /\ idx = [w \in Workers |-> 0]
    /\ cnt = [w \in Workers |-> 0]
    /\ tempBuf = [w \in Workers |-> None]
    /\ overlap = FALSE
    /\ due = [w \in Workers |-> {}] /\ shaken = {}

-----------------------------------------------------------------------------
(* The clients and the kernel.                                               *)

Connected == {c \in Conns : \E h \in Handles : owner[h] = c}

ClientSend(c) ==
    /\ peer[c] = "open" /\ sent[c] < Quota[c]
    /\ sent' = [sent EXCEPT ![c] = @ + 1]
    /\ UNCHANGED <<peer, taken, owner, recvs, out, cq,
                   heap, registry, main, workers, history>>

\* The client closes in good order: a FIN follows what it sent.
ClientShut(c) ==
    /\ peer[c] = "open"
    /\ peer' = [peer EXCEPT ![c] = "shut"]
    /\ UNCHANGED <<sent, taken, owner, recvs, out, cq,
                   heap, registry, main, workers, history>>

\* Every outstanding send of c is over: each reports to the port, if the
\* socket has been associated with it (which is when CLNT_INFO exists).
Cancel(c) ==
    /\ out' = [out EXCEPT ![c] = <<>>]
    /\ cq' = IF info[c] = "none" THEN cq
             ELSE cq \o [k \in 1 .. Len(out[c]) |->
                           [op |-> "WRITE", conn |-> c, num |-> 0]]

\* The connection breaks (the process dies, or the server wrote to a client
\* that had closed): what was not yet received is gone.
ClientReset(c) ==
    /\ peer[c] \in {"open", "shut"} /\ c \in Connected
    /\ peer' = [peer EXCEPT ![c] = "reset"]
    /\ sent' = [sent EXCEPT ![c] = taken[c]]
    /\ Cancel(c)
    /\ UNCHANGED <<taken, owner, recvs,
                   heap, registry, main, workers, history>>

\* An outstanding receive completes with the next message, or with 0 bytes
\* at the end of the stream or when the connection broke (the FALSE that
\* GetQueuedCompletionStatus then returns is ignored).
ReceiveCompletes(c) ==
    /\ recvs[c] > 0
    /\ recvs' = [recvs EXCEPT ![c] = @ - 1]
    /\ \/ /\ taken[c] < sent[c]
          /\ taken' = [taken EXCEPT ![c] = @ + 1]
          /\ cq' = Append(cq, [op |-> "READ", conn |-> c, num |-> taken[c] + 1])
       \/ /\ taken[c] = sent[c] /\ peer[c] \in {"shut", "reset"}
          /\ cq' = Append(cq, [op |-> "READ", conn |-> c, num |-> 0])
          /\ UNCHANGED taken
    /\ UNCHANGED <<peer, sent, owner, out,
                   heap, registry, main, workers, history>>

\* The oldest outstanding send has been transmitted from its buffer.
SendCompletes(c) ==
    /\ out[c] # <<>>
    /\ out' = [out EXCEPT ![c] = Tail(@)]
    /\ cq' = IF info[c] = "none" THEN cq
             ELSE Append(cq, [op |-> "WRITE", conn |-> c, num |-> 0])
    /\ UNCHANGED <<peer, sent, taken, owner, recvs,
                   heap, registry, main, workers, history>>

\* Mutant: no receive is posted for a client that has closed its end.
PostReceiveIfOpen(c) ==
    recvs' = IF peer[c] # "open" THEN recvs
             ELSE [recvs EXCEPT ![c] = @ + 1]

\* WSARecv: outstanding, or failed at once on a broken connection.  The
\* program looks at neither result.
PostReceive(c) ==
    recvs' = IF peer[c] = "reset" THEN recvs
             ELSE [recvs EXCEPT ![c] = @ + 1]

-----------------------------------------------------------------------------
(* IOCP::AcceptRoutine                                                       *)

Accept(c, h) ==
    /\ mpc = "accept" /\ peer[c] = "none" /\ owner[h] = NoConn
    /\ peer' = [peer EXCEPT ![c] = "open"]
    /\ owner' = [owner EXCEPT ![h] = c]
    /\ hClntSock' = [hClntSock EXCEPT ![c] = h]
    /\ mpc' = "load" /\ reg' = [reg EXCEPT !.conn = c]
    /\ overlap' = (overlap \/ \E w \in Workers : pc[w] \in Leaving)
    /\ UNCHANGED <<sent, taken, recvs, out, cq, info, registry, workers,
                   due, shaken>>

\* clntArr[numOfClnt++] = hClntSock: one load of the counter ...
RegisterLoad ==
    /\ mpc = "load"
    /\ mpc' = "store"
    /\ reg' = [reg EXCEPT !.at = numOfClnt, !.todo = {"slot", "count"}]
    /\ UNCHANGED <<kernel, heap, registry, workers, history>>

\* ... and two stores, in the order the compiler chose.
RegisterStore(what) ==
    /\ mpc = "store" /\ what \in reg.todo
    /\ reg' = [reg EXCEPT !.todo = @ \ {what}]
    /\ mpc' = IF reg.todo = {what} THEN "arm" ELSE "store"
    /\ IF what = "count"
       THEN numOfClnt' = reg.at + 1 /\ UNCHANGED clntArr
       ELSE /\ clntArr' = [k \in Slots |-> IF k = reg.at
                                           THEN hClntSock[reg.conn]
                                           ELSE clntArr[k]]
            /\ UNCHANGED numOfClnt
    /\ UNCHANGED <<kernel, heap, workers, history>>

\* CLNT_INFO is filled, the socket joins the port, the first receive starts.
Arm ==
    /\ mpc = "arm"
    /\ info' = [info EXCEPT ![reg.conn] = "live"]
    /\ PostReceive(reg.conn)
    /\ mpc' = "accept" /\ reg' = [conn |-> NoConn, at |-> 0, todo |-> {}]
    /\ UNCHANGED <<peer, sent, taken, owner, out, cq, hClntSock,
                   registry, workers, history>>

-----------------------------------------------------------------------------
(* EchoThreadMain                                                            *)

\* Any handle clntArr[k] may be read as, inside the array or past its end.
Loaded(k) == IF k \in Slots THEN {clntArr[k]} ELSE Handles \cup {NoHandle}

\* The end of the loop body: back to GetQueuedCompletionStatus.
Again(w) ==
    /\ pc' = [pc EXCEPT ![w] = "get"]
    /\ cur' = [cur EXCEPT ![w] = None]
    /\ idx' = [idx EXCEPT ![w] = 0]
    /\ cnt' = [cnt EXCEPT ![w] = 0]
    /\ due' = [due EXCEPT ![w] = {}]
    /\ shaken' = shaken \ {w}
    /\ UNCHANGED <<tempBuf, overlap>>

Goto(w, label) == pc' = [pc EXCEPT ![w] = label]

\* Mutant: a worker waits until completions come in pairs.
GetCompletionPair(w) ==
    /\ pc[w] = "get" /\ Len(cq) > 1
    /\ cur' = [cur EXCEPT ![w] = Head(cq)]
    /\ cq' = Tail(cq)
    /\ Goto(w, "deref")
    /\ UNCHANGED <<peer, sent, taken, owner, recvs, out, heap, registry, main,
                   idx, cnt, tempBuf, history>>

GetCompletion(w) ==
    /\ pc[w] = "get" /\ cq # <<>>
    /\ cur' = [cur EXCEPT ![w] = Head(cq)]
    /\ cq' = Tail(cq)
    /\ Goto(w, "deref")
    /\ UNCHANGED <<peer, sent, taken, owner, recvs, out, heap, registry, main,
                   idx, cnt, tempBuf, history>>

\* Mutant: every completion, of a send too, starts the next receive.
DerefWriteRearms(w) ==
    /\ pc[w] = "deref" /\ cur[w].op = "WRITE"
    /\ PostReceive(cur[w].conn)
    /\ Again(w)
    /\ UNCHANGED <<peer, sent, taken, owner, out, cq, heap, registry, main>>

\* sock = clntInfo->hClntSock and the branches on rwMode and bytesTrans.  A
\* message goes to tempBuf, which earlier sends may still be reading.
DerefWrite(w) ==
    /\ pc[w] = "deref" /\ cur[w].op = "WRITE"
    /\ Again(w)
    /\ UNCHANGED <<kernel, heap, registry, main>>

\* Mutant: bytesTrans is tested without rwMode.
DerefEofAnyMode(w) ==
    /\ pc[w] = "deref" /\ cur[w].num = 0
    /\ Goto(w, "close")
    /\ UNCHANGED <<kernel, heap, registry, main,
                   cur, idx, cnt, tempBuf, history>>

\* Mutant: the end of the stream is taken for an empty message and dropped.
DerefEofDropped(w) ==
    /\ pc[w] = "deref" /\ cur[w].op = "READ" /\ cur[w].num = 0
    /\ Again(w)
    /\ UNCHANGED <<kernel, heap, registry, main>>

DerefEof(w) ==
    /\ pc[w] = "deref" /\ cur[w].op = "READ" /\ cur[w].num = 0
    /\ Goto(w, "close")
    /\ UNCHANGED <<kernel, heap, registry, main,
                   cur, idx, cnt, tempBuf, history>>

\* Mutant: the whole completion is copied, not the message.
DerefMessageWhole(w) ==
    /\ pc[w] = "deref" /\ cur[w].op = "READ" /\ cur[w].num # 0
    /\ tempBuf' = [tempBuf EXCEPT ![w] = cur[w]]
    /\ Goto(w, "send")
    /\ UNCHANGED <<kernel, heap, registry, main, cur, idx, cnt, history>>

\* Mutant: the next receive is started before the broadcast.
DerefMessageRearms(w) ==
    /\ pc[w] = "deref" /\ cur[w].op = "READ" /\ cur[w].num # 0
    /\ tempBuf' = [tempBuf EXCEPT ![w] = [from |-> cur[w].conn,
                                          num |-> cur[w].num]]
    /\ PostReceive(cur[w].conn)
    /\ Goto(w, "send")
    /\ UNCHANGED <<peer, sent, taken, owner, out, cq, heap, registry, main,
                   cur, idx, cnt, history>>

DerefMessage(w) ==
    /\ pc[w] = "deref" /\ cur[w].op = "READ" /\ cur[w].num # 0
    /\ tempBuf' = [tempBuf EXCEPT ![w] = [from |-> cur[w].conn,
                                          num |-> cur[w].num]]
    /\ Goto(w, "send")
    /\ due' = [due EXCEPT ![w] = Connected \ {reg.conn}]
    /\ shaken' = IF \E v \in Workers : pc[v] \in Leaving
                 THEN shaken \cup {w} ELSE shaken
    /\ UNCHANGED <<kernel, heap, registry, main, cur, idx, cnt, overlap>>

\* WSASend on a SOCKET value: outstanding on the connection the value denotes
\* now, or failed at once.
PostSend(w, h) ==
    LET c == owner[h] IN
    IF h \in Handles /\ c \in Conns /\ peer[c] # "reset"
    THEN out' = [out EXCEPT ![c] = Append(@, [buf |-> w, msg |-> tempBuf[w]])]
    ELSE UNCHANGED out

\* One iteration of the broadcast loop.
Broadcast(w) ==
    /\ pc[w] = "send" /\ idx[w] < numOfClnt
    /\ \E h \in Loaded(idx[w]) :
          /\ PostSend(w, h)
          /\ due' = [due EXCEPT ![w] = {c \in @ : hClntSock[c] # h}]
    /\ idx' = [idx EXCEPT ![w] = @ + 1]
    /\ UNCHANGED <<peer, sent, taken, owner, recvs, cq, heap, registry, main,
                   pc, cur, cnt, tempBuf, overlap, shaken>>

\* Mutant: the loop runs to numOfClnt - 1.
BroadcastEndsEarly(w) ==
    /\ pc[w] = "send" /\ idx[w] >= numOfClnt - 1
    /\ Goto(w, "rearm")
    /\ UNCHANGED <<kernel, heap, registry, main,
                   cur, idx, cnt, tempBuf, history>>

BroadcastEnds(w) ==
    /\ pc[w] = "send" /\ idx[w] >= numOfClnt
    /\ Goto(w, "rearm")
    /\ UNCHANGED <<kernel, heap, registry, main,
                   cur, idx, cnt, tempBuf, history>>

Rearm(w) ==
    /\ pc[w] = "rearm"
    /\ PostReceive(cur[w].conn)
    /\ Again(w)
    /\ UNCHANGED <<peer, sent, taken, owner, out, cq, heap, registry, main>>

\* closesocket(sock): the handle is free for the next accept at once.
CloseSocket(w) ==
    LET c == cur[w].conn IN
    /\ pc[w] = "close"
    /\ owner' = [h \in Handles |-> IF h = hClntSock[c] THEN NoConn
                                   ELSE owner[h]]
    /\ Cancel(c)
    /\ Goto(w, "delete")
    /\ overlap' = (overlap \/ mpc \in {"load", "store"}
                           \/ \E v \in Workers : pc[v] \in Leaving)
    /\ due' = [v \in Workers |-> due[v] \ {c}]
    /\ shaken' = {v \in Workers : v \in shaken \/ pc[v] \in {"send", "rearm"}}
    /\ UNCHANGED <<peer, sent, taken, recvs, heap, registry, main,
                   cur, idx, cnt, tempBuf>>

DeleteInfo(w) ==
    /\ pc[w] = "delete"
    /\ info' = [info EXCEPT ![cur[w].conn] = "freed"]
    /\ Goto(w, "find")
    /\ UNCHANGED <<kernel, hClntSock, registry, main,
                   cur, idx, cnt, tempBuf, history>>

\* One iteration of the loop that looks for sock in clntArr.
Find(w) ==
    /\ pc[w] = "find"
    /\ \/ /\ idx[w] < numOfClnt
          /\ \E h \in Loaded(idx[w]) :
                IF h = hClntSock[cur[w].conn]
                THEN Goto(w, "shift") /\ UNCHANGED idx
                ELSE idx' = [idx EXCEPT ![w] = @ + 1] /\ UNCHANGED pc
       \/ /\ idx[w] >= numOfClnt
          /\ Goto(w, "load") /\ UNCHANGED idx
    /\ UNCHANGED <<kernel, heap, registry, main, cur, cnt, tempBuf, history>>

\* Mutant: only the slot after the removed one moves.
ShiftOnce(w) ==
    /\ pc[w] = "shift"
    /\ \E h \in Loaded(idx[w] + 1) :
          clntArr' = [k \in Slots |-> IF k = idx[w] THEN h ELSE clntArr[k]]
    /\ Goto(w, "load")
    /\ UNCHANGED <<kernel, heap, numOfClnt, main,
                   cur, idx, cnt, tempBuf, history>>

\* One iteration of clntArr[j] = clntArr[j + 1].
Shift(w) ==
    /\ pc[w] = "shift"
    /\ \/ /\ idx[w] < numOfClnt
          /\ \E h \in Loaded(idx[w] + 1) :
                clntArr' = [k \in Slots |-> IF k = idx[w] THEN h
                                            ELSE clntArr[k]]
          /\ idx' = [idx EXCEPT ![w] = @ + 1] /\ UNCHANGED pc
       \/ /\ idx[w] >= numOfClnt
          /\ Goto(w, "load") /\ UNCHANGED <<clntArr, idx>>
    /\ UNCHANGED <<kernel, heap, numOfClnt, main, cur, cnt, tempBuf, history>>

\* numOfClnt--, found or not: a load and a store.
CountLoad(w) ==
    /\ pc[w] = "load"
    /\ cnt' = [cnt EXCEPT ![w] = numOfClnt]
    /\ Goto(w, "store")
    /\ UNCHANGED <<kernel, heap, registry, main, cur, idx, tempBuf, history>>

CountStore(w) ==
    /\ pc[w] = "store"
    /\ numOfClnt' = cnt[w] - 1
    /\ Again(w)
    /\ UNCHANGED <<kernel, heap, clntArr, main>>

-----------------------------------------------------------------------------
Client(c) == ClientSend(c) \/ ClientShut(c) \/ ClientReset(c)

Main ==
    \/ \E c \in Conns, h \in Handles : Accept(c, h)
    \/ RegisterLoad
    \/ \E what \in {"slot", "count"} : RegisterStore(what)
    \/ Arm

Worker(w) ==
    \/ GetCompletion(w) \/ DerefWrite(w) \/ DerefEof(w) \/ DerefMessage(w)
    \/ Broadcast(w) \/ BroadcastEnds(w) \/ Rearm(w)
    \/ CloseSocket(w) \/ DeleteInfo(w) \/ Find(w) \/ Shift(w)
    \/ CountLoad(w) \/ CountStore(w)

Next ==
    \/ Main
    \/ \E w \in Workers : Worker(w)
    \/ \E c \in Conns : Client(c) \/ ReceiveCompletes(c) \/ SendCompletes(c)

Spec == Init /\ [][Next]_vars

\* Windows schedules every thread that can run and completes every receive
\* that can complete.  Nothing obliges a client to do anything, nor to read
\* what it is sent, so sends may stay outstanding for ever.
Fairness ==
    /\ WF_vars(RegisterLoad \/ Arm)
    /\ WF_vars(\E what \in {"slot", "count"} : RegisterStore(what))
    /\ \A w \in Workers : WF_vars(Worker(w))
    /\ \A c \in Conns : WF_vars(ReceiveCompletes(c))

FairSpec == Spec /\ Fairness

-----------------------------------------------------------------------------
(* What the code must guarantee.                                             *)

\* The three places where the right to receive on c can be, apart from an
\* outstanding receive.
Arming(c) == mpc # "accept" /\ reg.conn = c
Queued(c) == {k \in 1 .. Len(cq) : cq[k].op = "READ" /\ cq[k].conn = c}
Holding(w, c) ==
    /\ pc[w] \in {"deref", "send", "rearm", "close", "delete"}
    /\ cur[w].op = "READ" /\ cur[w].conn = c

\* A connection has at most one receive in progress, counted from the WSARecv
\* to the moment a worker has finished with its result: two workers never
\* handle the input of one client at the same time.
OneReceive ==
    \A c \in Conns :
       /\ recvs[c] <= 1
       /\ \A k, l \in Queued(c) : k = l
       /\ \A v, w \in Workers : Holding(v, c) /\ Holding(w, c) => v = w
       /\ recvs[c] = 1 => Queued(c) = {}
       /\ \A w \in Workers : Holding(w, c) => recvs[c] = 0 /\ Queued(c) = {}
       /\ Arming(c) => /\ recvs[c] = 0 /\ Queued(c) = {}
                       /\ \A w \in Workers : ~Holding(w, c)

\* The CLNT_INFO that a receive reports through the completion key is on the
\* heap until the worker that handles its end deletes it, and it is deleted
\* once (the `sock = clntInfo->hClntSock` of a READ reads valid memory).
ReadKeyLive ==
    \A c \in Conns :
       recvs[c] > 0 \/ Queued(c) # {} \/ (\E w \in Workers : Holding(w, c))
          => info[c] = "live"

\* Two messages of one client wait for transmission to another client in the
\* order in which they were received, though different workers broadcast them.
SendsInOrder ==
    \A c \in Conns : \A k, l \in 1 .. Len(out[c]) :
       k < l /\ out[c][k].msg.from = out[c][l].msg.from
          => out[c][k].msg.num <= out[c][l].msg.num

Updating == mpc \in {"load", "store"} \/ \E w \in Workers : pc[w] \in Leaving

\* As long as no two updates of the registry have overlapped, clntArr and
\* numOfClnt list every connected client once and nobody else whenever no
\* update is under way.
RegistryExact ==
    ~overlap /\ ~Updating =>
       /\ numOfClnt = Cardinality(Connected)
       /\ {clntArr[k] : k \in 0 .. numOfClnt - 1}
             = {hClntSock[c] : c \in Connected}

\* A broadcast that no removal disturbed has been posted to every client that
\* was registered when it began and has not left since.
BroadcastComplete ==
    \A w \in Workers :
       pc[w] = "rearm" /\ w \notin shaken /\ ~overlap => due[w] = {}

\* Every message a client sent is received, unless its connection breaks.
MessageServed ==
    \A c \in Conns : \A n \in 1 .. Quota[c] :
       sent[c] >= n ~> taken[c] >= n \/ peer[c] = "reset"

\* A client that closes in good order is closed and its memory released on
\* the server, unless its connection breaks first.
FinServed ==
    \A c \in Conns :
       peer[c] = "shut" ~> info[c] = "freed" \/ peer[c] = "reset"

\* Each connection goes through the life ReceiveStrand describes.
phase == [c \in Conns |->
            CASE recvs[c] > 0 -> "armed"
              [] recvs[c] = 0 /\ Queued(c) # {} -> "fired"
              [] \E w \in Workers : Holding(w, c) -> "held"
              [] OTHER -> IF info[c] = "none" THEN "new" ELSE "over"]

Strand == INSTANCE ReceiveStrand
StrandSpec == Strand!Spec
StrandLiveSpec == Strand!LiveSpec

-----------------------------------------------------------------------------
(* What the repository says of the code, and the code does not keep.         *)

\* The buffer of an overlapped send is left alone until the send completes.
BuffersStable ==
    \A c \in Conns : \A k \in 1 .. Len(out[c]) :
       tempBuf[out[c][k].buf] = out[c][k].msg

\* clntInfo, in use for later completions, has not been freed when a worker
\* reads the socket from it.
KeyLive ==
    \A w \in Workers : pc[w] = "deref" => info[cur[w].conn] = "live"

\* Adding and removing client information keeps the registry right.
RegistryAlwaysExact ==
    ~Updating => {clntArr[k] : k \in 0 .. numOfClnt - 1}
                   = {hClntSock[c] : c \in Connected}
=============================================================================
