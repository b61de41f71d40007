------------------------ MODULE IocpChatServerProofs ------------------------
(* Theorems about IocpChatServer for any number of workers, connections,     *)
(* handles and messages.                                                     *)
EXTENDS IocpChatServer, TLAPS

-----------------------------------------------------------------------------
(* The completion queue.                                                     *)

\* The completions of cancelled sends form a sequence of completions.
LEMMA CancelType ==
    ASSUME TypeOK, NEW c \in Conns, Cancel(c)
    PROVE  cq' \in Seq(Completion) /\ out' \in [Conns -> Seq(Send)]
<1>1. out[c] \in Seq(Send) /\ Len(out[c]) \in Nat
  BY DEF TypeOK
<1> DEFINE W == [k \in 1 .. Len(out[c]) |->
                   [op |-> "WRITE", conn |-> c, num |-> 0]]
<1>2. W \in Seq(Completion)
  BY <1>1 DEF Completion
<1>3. cq \o W \in Seq(Completion)
  BY <1>2 DEF TypeOK
<1>4. out' \in [Conns -> Seq(Send)]
  BY DEF TypeOK, Cancel
<1> QED
  BY <1>3, <1>4 DEF TypeOK, Cancel

\* Posting a receive counts it.
LEMMA PostReceiveType ==
    ASSUME TypeOK, NEW c \in Conns, PostReceive(c)
    PROVE  recvs' \in [Conns -> Nat]
BY DEF TypeOK, PostReceive

-----------------------------------------------------------------------------
(* Type correctness.                                                         *)

\* A thread past its accept has a connection, a worker past its dequeue has a
\* completion, and one that broadcasts or closes has the end of a receive.
Shape ==
    /\ mpc # "accept" => reg.conn \in Conns
    /\ \A w \in Workers : pc[w] # "get" => cur[w] \in Completion
    /\ \A w \in Workers : pc[w] \notin {"get", "deref"} => cur[w].op = "READ"
    /\ \A w \in Workers : pc[w] = "send" => tempBuf[w] \in Message

Typed == TypeOK /\ Shape

LEMMA TypeInit == Init => Typed
<1> SUFFICES ASSUME Init PROVE Typed
  OBVIOUS
<1>1. out \in [Conns -> Seq(Send)] /\ cq \in Seq(Completion)
  BY DEF Init
<1>2. reg \in [conn : Conns \cup {NoConn}, at : Int,
               todo : SUBSET {"slot", "count"}]
  BY DEF Init
<1>3. clntArr \in [Slots -> Handles \cup {NoHandle}]
  BY DEF Init
<1>4. due \in [Workers -> SUBSET Conns] /\ shaken \in SUBSET Workers
  BY DEF Init
<1>5. Shape
  BY DEF Init, Shape
<1> QED
  BY <1>1, <1>2, <1>3, <1>4, <1>5 DEF Init, TypeOK, Typed

LEMMA TypeMain == Typed /\ Main => Typed'
<1> SUFFICES ASSUME TypeOK, Shape, Main PROVE TypeOK' /\ Shape'
  BY DEF Typed
<1>1. ASSUME NEW c \in Conns, NEW h \in Handles, Accept(c, h)
      PROVE  TypeOK' /\ Shape'
  BY <1>1 DEF TypeOK, Shape, Accept, registry, workers
<1>2. ASSUME RegisterLoad PROVE TypeOK' /\ Shape'
  BY <1>2 DEF TypeOK, Shape, RegisterLoad,
              kernel, heap, registry, workers, history
<1>3. ASSUME NEW what \in {"slot", "count"}, RegisterStore(what)
      PROVE  TypeOK' /\ Shape'
  <2>1. reg \in [conn : Conns \cup {NoConn}, at : Int,
                 todo : SUBSET {"slot", "count"}]
    BY DEF TypeOK
  <2>2. /\ reg' = [reg EXCEPT !.todo = @ \ {what}]
        /\ mpc' \in {"store", "arm"} /\ mpc = "store"
    BY <1>3 DEF RegisterStore
  <2>3. /\ reg' \in [conn : Conns \cup {NoConn}, at : Int,
                     todo : SUBSET {"slot", "count"}]
        /\ reg'.conn = reg.conn
    BY <2>1, <2>2
  <2>4. hClntSock[reg.conn] \in Handles \cup {NoHandle}
    BY <2>2 DEF TypeOK, Shape
  <2>5. /\ numOfClnt' \in Int
        /\ clntArr' \in [Slots -> Handles \cup {NoHandle}]
    <3>1. CASE what = "count"
      BY <1>3, <2>1, <3>1 DEF RegisterStore, TypeOK
    <3>2. CASE what = "slot"
      BY <1>3, <2>4, <3>2, ZenonT(40) DEF RegisterStore, TypeOK
    <3> QED
      BY <3>1, <3>2
  <2>6. Shape'
    BY <1>3, <2>2, <2>3 DEF Shape, RegisterStore, workers
  <2> QED
    BY <1>3, <2>2, <2>3, <2>5, <2>6
    DEF TypeOK, RegisterStore, kernel, heap, workers, history
<1>4. ASSUME Arm PROVE TypeOK' /\ Shape'
  <2>1. reg' \in [conn : Conns \cup {NoConn}, at : Int,
                  todo : SUBSET {"slot", "count"}]
    BY <1>4 DEF Arm
  <2>2. /\ recvs' \in [Conns -> Nat]
        /\ info' \in [Conns -> {"none", "live", "freed"}]
    <3>1. reg.conn \in Conns
      BY <1>4 DEF Arm, Shape
    <3> QED
      BY <1>4, <3>1, PostReceiveType DEF Arm, TypeOK
  <2>3. mpc' = "accept"
    BY <1>4 DEF Arm
  <2>4. UNCHANGED <<peer, sent, taken, owner, out, cq, hClntSock,
                    registry, workers, history>>
    BY <1>4 DEF Arm
  <2>5. TypeOK'
    BY <2>1, <2>2, <2>3, <2>4 DEF TypeOK, registry, workers, history
  <2>6. Shape'
    BY <2>3, <2>4 DEF Shape, workers
  <2> QED
    BY <2>5, <2>6
<1> QED
  BY <1>1, <1>2, <1>3, <1>4 DEF Main

\* One more iteration keeps the loop index a natural number.
LEMMA IndexStepType ==
    ASSUME TypeOK, NEW w \in Workers
    PROVE  [idx EXCEPT ![w] = @ + 1] \in [Workers -> Nat]
<1>1. idx \in [Workers -> Nat]
  BY DEF TypeOK
<1>2. idx[w] + 1 \in Nat
  BY <1>1
<1> QED
  BY <1>1, <1>2

\* The end of a worker's loop body leaves every type as it was.
LEMMA AgainTyped ==
    ASSUME TypeOK, Shape, NEW w \in Workers, Again(w)
    PROVE  /\ pc' \in [Workers -> {"get", "deref", "send", "rearm", "close"}
                                  \cup Leaving]
           /\ cur' \in [Workers -> Completion \cup {None}]
           /\ idx' \in [Workers -> Nat]
           /\ cnt' \in [Workers -> Int]
           /\ tempBuf' \in [Workers -> Message \cup {None}]
           /\ overlap' \in BOOLEAN
           /\ due' \in [Workers -> SUBSET Conns]
           /\ shaken' \in SUBSET Workers
           /\ \A v \in Workers : pc'[v] # "get" => cur'[v] \in Completion
           /\ \A v \in Workers : pc'[v] \notin {"get", "deref"}
                                    => cur'[v].op = "READ"
           /\ \A v \in Workers : pc'[v] = "send" => tempBuf'[v] \in Message
<1>1. pc' = [pc EXCEPT ![w] = "get"] /\ cur' = [cur EXCEPT ![w] = None]
  BY DEF Again
<1>2. pc'[w] = "get" /\ \A v \in Workers \ {w} : pc'[v] = pc[v] /\ cur'[v] = cur[v]
  BY <1>1 DEF TypeOK
<1>3. /\ \A v \in Workers : pc'[v] # "get" => cur'[v] \in Completion
      /\ \A v \in Workers : pc'[v] \notin {"get", "deref"}
                               => cur'[v].op = "READ"
      /\ \A v \in Workers : pc'[v] = "send" => tempBuf'[v] \in Message
  BY <1>2 DEF Shape, Again
<1> QED
  BY <1>1, <1>3 DEF TypeOK, Again

LEMMA TypeWorker ==
    ASSUME Typed, NEW w \in Workers, Worker(w)
    PROVE  Typed'
<1> SUFFICES ASSUME TypeOK, Shape PROVE TypeOK' /\ Shape'
  BY DEF Typed
<1>1. CASE GetCompletion(w)
  <2>1. /\ cq \in Seq(Completion) /\ cq # <<>> 
        /\ cur' = [cur EXCEPT ![w] = Head(cq)] /\ cq' = Tail(cq)
        /\ pc' = [pc EXCEPT ![w] = "deref"]
    BY <1>1 DEF GetCompletion, Goto, TypeOK
  <2>2. Head(cq) \in Completion /\ Tail(cq) \in Seq(Completion)
    BY <2>1
  <2>3. /\ cur' \in [Workers -> Completion \cup {None}]
        /\ cq' \in Seq(Completion)
        /\ pc' \in [Workers -> {"get", "deref", "send", "rearm", "close"}
                               \cup Leaving]
    BY <2>1, <2>2 DEF TypeOK
  <2>4. UNCHANGED <<peer, sent, taken, owner, recvs, out, heap, registry,
                    main, idx, cnt, tempBuf, history>>
    BY <1>1 DEF GetCompletion
  <2>5. TypeOK'
    BY <2>3, <2>4 DEF TypeOK, heap, registry, main, history
  <2>6. Shape'
    BY <2>1, <2>2, <2>4 DEF Shape, TypeOK, main
  <2> QED
    BY <2>5, <2>6
<1>2. CASE DerefWrite(w)
  <2>1. UNCHANGED <<kernel, heap, registry, main>> /\ Again(w)
    BY <1>2 DEF DerefWrite
  <2> QED
    BY <2>1, AgainTyped DEF TypeOK, Shape, kernel, heap, registry, main
<1>3. CASE DerefEof(w)
  BY <1>3 DEF TypeOK, Shape, DerefEof, Goto, kernel, heap, registry, main,
              history
<1>4. CASE DerefMessage(w)
  <2>1. cur[w] \in Completion /\ cur[w].op = "READ"
    BY <1>4 DEF DerefMessage, Shape
  <2>2. [from |-> cur[w].conn, num |-> cur[w].num] \in Message
    BY <2>1 DEF Completion, Message
  <2>3. /\ tempBuf' \in [Workers -> Message \cup {None}]
        /\ tempBuf'[w] \in Message
        /\ \A v \in Workers \ {w} : tempBuf'[v] = tempBuf[v]
        /\ due' \in [Workers -> SUBSET Conns]
        /\ shaken' \in SUBSET Workers
    BY <1>4, <2>2 DEF DerefMessage, TypeOK, Connected
  <2>4. UNCHANGED <<kernel, heap, registry, main, cur, idx, cnt, overlap>>
    BY <1>4 DEF DerefMessage
  <2>5. pc' = [pc EXCEPT ![w] = "send"]
    BY <1>4 DEF DerefMessage, Goto
  <2>6. TypeOK'
    BY <2>3, <2>4, <2>5 DEF TypeOK, kernel, heap, registry, main
  <2>7. Shape'
    BY <2>1, <2>3, <2>4, <2>5 DEF Shape, TypeOK, main
  <2> QED
    BY <2>6, <2>7
<1>5. CASE Broadcast(w)
  <2>1. UNCHANGED <<peer, sent, taken, owner, recvs, cq, heap, registry, main,
                    pc, cur, cnt, tempBuf, overlap, shaken>>
    BY <1>5 DEF Broadcast
  <2>2. idx' \in [Workers -> Nat] /\ due' \in [Workers -> SUBSET Conns]
    BY <1>5 DEF Broadcast, TypeOK
  <2>3. PICK h : PostSend(w, h)
    BY <1>5 DEF Broadcast
  <2>4. out' \in [Conns -> Seq(Send)]
    <3>1. CASE out' = out
      BY <3>1 DEF TypeOK
    <3>2. CASE out' # out
      <4> DEFINE m == [buf |-> w, msg |-> tempBuf[w]]
      <4>1. owner[h] \in Conns
            /\ out' = [out EXCEPT ![owner[h]] = Append(@, m)]
        BY <2>3, <3>2 DEF PostSend
      <4>2. tempBuf[w] \in Message
        BY <1>5 DEF Broadcast, Shape
      <4>3. m \in Send
        BY <4>2 DEF Send
      <4>4. Append(out[owner[h]], m) \in Seq(Send)
        BY <4>1, <4>3 DEF TypeOK
      <4> QED
        BY <4>1, <4>4 DEF TypeOK
    <3> QED
      BY <3>1, <3>2
  <2> QED
    BY <2>1, <2>2, <2>4 DEF TypeOK, Shape, heap, registry, main
<1>6. CASE BroadcastEnds(w)
  BY <1>6 DEF TypeOK, Shape, BroadcastEnds, Goto, kernel, heap, registry,
              main, history
<1>7. CASE Rearm(w)
  <2>1. UNCHANGED <<peer, sent, taken, owner, out, cq, heap, registry, main>>
        /\ Again(w) /\ PostReceive(cur[w].conn) /\ pc[w] = "rearm"
    BY <1>7 DEF Rearm
  <2>2. cur[w].conn \in Conns
    BY <2>1 DEF Shape, Completion
  <2> QED
    BY <2>1, <2>2, AgainTyped, PostReceiveType
    DEF TypeOK, Shape, heap, registry, main
<1>8. CASE CloseSocket(w)
  <2>1. cur[w] \in Completion
    BY <1>8 DEF CloseSocket, Shape
  <2>2. cur[w].conn \in Conns
    BY <2>1 DEF Completion
  <2>3. cq' \in Seq(Completion) /\ out' \in [Conns -> Seq(Send)]
    BY <1>8, <2>2, CancelType DEF CloseSocket
  <2>4. /\ owner' \in [Handles -> Conns \cup {NoConn}]
        /\ overlap' \in BOOLEAN
        /\ due' \in [Workers -> SUBSET Conns]
        /\ shaken' \in SUBSET Workers
    BY <1>8 DEF CloseSocket, TypeOK
  <2>5. pc' = [pc EXCEPT ![w] = "delete"] /\ pc[w] = "close"
    BY <1>8 DEF CloseSocket, Goto
  <2>6. UNCHANGED <<peer, sent, taken, recvs, heap, registry, main,
                    cur, idx, cnt, tempBuf>>
    BY <1>8 DEF CloseSocket
  <2>7. TypeOK'
    BY <2>3, <2>4, <2>5, <2>6 DEF TypeOK, heap, registry, main, Leaving
  <2>8. Shape'
    BY <2>5, <2>6 DEF Shape, TypeOK, main
  <2> QED
    BY <2>7, <2>8
<1>9. CASE DeleteInfo(w)
  BY <1>9 DEF TypeOK, Shape, DeleteInfo, Goto, kernel, registry, main,
              history, Leaving
<1>10. CASE Find(w)
  <2>1. UNCHANGED <<kernel, heap, registry, main, cur, cnt, tempBuf, history>>
    BY <1>10 DEF Find
  <2>2. \/ pc' = pc /\ idx' = [idx EXCEPT ![w] = @ + 1]
        \/ pc' = [pc EXCEPT ![w] = "shift"] /\ idx' = idx
        \/ pc' = [pc EXCEPT ![w] = "load"] /\ idx' = idx
    BY <1>10 DEF Find, Goto
  <2>3. pc[w] = "find"
    BY <1>10 DEF Find
  <2>4. idx' \in [Workers -> Nat]
    BY <2>2, IndexStepType DEF TypeOK
  <2>5. TypeOK'
    BY <2>1, <2>2, <2>4
    DEF TypeOK, kernel, heap, registry, main, history, Leaving
  <2>6. Shape'
    BY <2>1, <2>2, <2>3 DEF Shape, TypeOK, main
  <2> QED
    BY <2>5, <2>6
<1>11. CASE Shift(w)
  <2>1. UNCHANGED <<kernel, heap, numOfClnt, main, cur, cnt, tempBuf, history>>
    BY <1>11 DEF Shift
  <2>2. idx' \in [Workers -> Nat]
    <3>1. idx' = idx \/ idx' = [idx EXCEPT ![w] = @ + 1]
      BY <1>11 DEF Shift
    <3> QED
      BY <3>1, IndexStepType DEF TypeOK
  <2>3. clntArr' \in [Slots -> Handles \cup {NoHandle}]
    BY <1>11 DEF Shift, TypeOK, Loaded
  <2>4. pc' = pc \/ pc' = [pc EXCEPT ![w] = "load"]
    BY <1>11 DEF Shift, Goto
  <2>5. pc[w] = "shift"
    BY <1>11 DEF Shift
  <2>6. TypeOK'
    BY <2>1, <2>2, <2>3, <2>4 DEF TypeOK, kernel, heap, main, history, Leaving
  <2>7. Shape'
    BY <2>1, <2>4, <2>5 DEF Shape, TypeOK, main
  <2> QED
    BY <2>6, <2>7
<1>12. CASE CountLoad(w)
  BY <1>12 DEF TypeOK, Shape, CountLoad, Goto, kernel, heap, registry, main,
               history, Leaving
<1>13. CASE CountStore(w)
  <2>1. UNCHANGED <<kernel, heap, clntArr, main>> /\ Again(w)
        /\ numOfClnt' = cnt[w] - 1
    BY <1>13 DEF CountStore
  <2>2. numOfClnt' \in Int
    BY <2>1 DEF TypeOK
  <2> QED
    BY <2>1, <2>2, AgainTyped DEF TypeOK, Shape, kernel, heap, main
<1> QED
  BY <1>1, <1>2, <1>3, <1>4, <1>5, <1>6, <1>7, <1>8, <1>9, <1>10, <1>11,
     <1>12, <1>13 DEF Worker

LEMMA TypeNetwork ==
    ASSUME Typed, NEW c \in Conns,
           Client(c) \/ ReceiveCompletes(c) \/ SendCompletes(c)
    PROVE  Typed'
<1> SUFFICES ASSUME TypeOK, Shape PROVE TypeOK' /\ Shape'
  BY DEF Typed
<1>1. CASE ClientSend(c)
  <2>1. sent[c] + 1 \in Nat
    BY DEF TypeOK
  <2> QED
    BY <1>1, <2>1 DEF TypeOK, Shape, ClientSend, heap, registry, main, workers,
                      history
<1>2. CASE ClientShut(c)
  BY <1>2 DEF TypeOK, Shape, ClientShut, heap, registry, main, workers, history
<1>3. CASE ClientReset(c)
  <2>1. cq' \in Seq(Completion) /\ out' \in [Conns -> Seq(Send)]
    BY <1>3, CancelType DEF ClientReset
  <2>2. /\ peer' \in [Conns -> {"none", "open", "shut", "reset"}]
        /\ sent' \in [Conns -> Nat]
    BY <1>3 DEF ClientReset, TypeOK
  <2>3. UNCHANGED <<taken, owner, recvs, heap, registry, main, workers, history>>
    BY <1>3 DEF ClientReset
  <2> QED
    BY <2>1, <2>2, <2>3
    DEF TypeOK, Shape, heap, registry, main, workers, history
<1>4. CASE ReceiveCompletes(c)
  <2>1. recvs' \in [Conns -> Nat]
    <3>1. recvs[c] - 1 \in Nat /\ recvs' = [recvs EXCEPT ![c] = @ - 1]
      BY <1>4, SMTT(30) DEF ReceiveCompletes, TypeOK
    <3> QED
      BY <3>1 DEF TypeOK
  <2>2. /\ taken' \in [Conns -> Nat]
        /\ \E n \in Nat :
              cq' = Append(cq, [op |-> "READ", conn |-> c, num |-> n])
    <3>1. taken[c] + 1 \in Nat /\ 0 \in Nat /\ taken \in [Conns -> Nat]
      BY DEF TypeOK
    <3>2. CASE taken' = taken
      BY <1>4, <3>1, <3>2 DEF ReceiveCompletes
    <3>3. CASE taken' = [taken EXCEPT ![c] = taken[c] + 1]
      BY <1>4, <3>1, <3>3 DEF ReceiveCompletes
    <3> QED
      BY <1>4, <3>2, <3>3 DEF ReceiveCompletes
  <2>3. cq' \in Seq(Completion)
    BY <2>2 DEF TypeOK, Completion
  <2>4. UNCHANGED <<peer, sent, owner, out, heap, registry, main, workers,
                    history>>
    BY <1>4 DEF ReceiveCompletes
  <2> QED
    BY <2>1, <2>2, <2>3, <2>4
    DEF TypeOK, Shape, heap, registry, main, workers, history
<1>5. CASE SendCompletes(c)
  <2>1. out' \in [Conns -> Seq(Send)]
    <3>1. out[c] \in Seq(Send) /\ out[c] # <<>>
      BY <1>5 DEF TypeOK, SendCompletes
    <3>2. Tail(out[c]) \in Seq(Send)
      BY <3>1
    <3> QED
      BY <1>5, <3>2 DEF TypeOK, SendCompletes
  <2>2. cq' \in Seq(Completion)
    <3>1. [op |-> "WRITE", conn |-> c, num |-> 0] \in Completion
      BY DEF Completion
    <3> QED
      BY <1>5, <3>1 DEF TypeOK, SendCompletes
  <2>3. UNCHANGED <<peer, sent, taken, owner, recvs, heap, registry, main,
                    workers, history>>
    BY <1>5 DEF SendCompletes
  <2> QED
    BY <2>1, <2>2, <2>3
    DEF TypeOK, Shape, heap, registry, main, workers, history
<1> QED
  BY <1>1, <1>2, <1>3, <1>4, <1>5 DEF Client

LEMMA TypeStep == Typed /\ [Next]_vars => Typed'
<1>1. Typed /\ UNCHANGED vars => Typed'
  BY DEF Typed, TypeOK, Shape, vars, kernel, heap, registry, main, workers,
         history
<1> QED
  BY <1>1, TypeMain, TypeWorker, TypeNetwork DEF Next

\* The state stays within its types in every behaviour, whatever the number of
\* threads, clients and handles: in particular no count of outstanding
\* receives goes below zero, and every thread that reads the current
\* connection or completion has one.
THEOREM TypeCorrect == Spec => []TypeOK
<1>1. Spec => []Typed
  BY TypeInit, TypeStep, PTL DEF Spec
<1>2. Typed => TypeOK
  BY DEF Typed
<1> QED
  BY <1>1, <1>2, PTL

-----------------------------------------------------------------------------
(* One receive per connection.                                               *)

\* What the two invariants say of one connection.
Alone(c) ==
    /\ recvs[c] <= 1
    /\ \A k, l \in Queued(c) : k = l
    /\ \A v, w \in Workers : Holding(v, c) /\ Holding(w, c) => v = w
    /\ recvs[c] = 1 => Queued(c) = {}
    /\ \A w \in Workers : Holding(w, c) => recvs[c] = 0 /\ Queued(c) = {}
    /\ Arming(c) => /\ recvs[c] = 0 /\ Queued(c) = {}
                    /\ \A w \in Workers : ~Holding(w, c)

KeyKept(c) ==
    recvs[c] > 0 \/ Queued(c) # {} \/ (\E w \in Workers : Holding(w, c))
       => info[c] = "live"

\* A connection nobody has accepted has no part in anything.
Fresh(c) ==
    /\ peer[c] = "none" => /\ recvs[c] = 0 /\ Queued(c) = {} /\ ~Arming(c)
                           /\ \A w \in Workers : ~Holding(w, c)
                           /\ info[c] = "none"
    /\ Arming(c) => info[c] = "none"

Good(c) == Alone(c) /\ KeyKept(c) /\ Fresh(c)

ReceiveInv == Typed /\ \A c \in Conns : Good(c)

\* How the completion queue changes as seen from one connection.
LEMMA QueuedSame ==
    ASSUME NEW d, UNCHANGED cq
    PROVE  Queued(d)' = Queued(d)
BY DEF Queued

LEMMA QueuedWrites ==
    ASSUME TypeOK, NEW c \in Conns, Cancel(c), NEW d
    PROVE  Queued(d)' = Queued(d)
<1>1. CASE cq' = cq
  BY <1>1 DEF Queued
<1>2. CASE info[c] # "none"
  <2> DEFINE W == [k \in 1 .. Len(out[c]) |->
                     [op |-> "WRITE", conn |-> c, num |-> 0]]
  <2>1. Len(out[c]) \in Nat
    BY DEF TypeOK
  <2>2. W \in Seq(Completion) /\ Len(W) = Len(out[c])
    BY <2>1 DEF Completion
  <2>3. cq' = cq \o W /\ cq \in Seq(Completion)
    BY <1>2 DEF Cancel, TypeOK
  <2>4. /\ Len(cq') = Len(cq) + Len(W) /\ Len(cq) \in Nat
        /\ \A k \in 1 .. Len(cq) : cq'[k] = cq[k]
        /\ \A k \in 1 .. Len(cq') : k > Len(cq) => cq'[k] = W[k - Len(cq)]
    BY <2>2, <2>3
  <2>5. \A k \in 1 .. Len(cq') : k > Len(cq) => cq'[k].op = "WRITE"
    BY <2>1, <2>2, <2>4
  <2> HIDE DEF W
  <2>6. Len(W) \in Nat
    BY <2>1, <2>2
  <2> QED
    BY <2>4, <2>5, <2>6 DEF Queued
<1> QED
  BY <1>1, <1>2 DEF Cancel

LEMMA QueuedAppend ==
    ASSUME TypeOK, NEW e \in Completion, cq' = Append(cq, e), NEW d
    PROVE  Queued(d)' = IF e.op = "READ" /\ e.conn = d
                        THEN Queued(d) \cup {Len(cq) + 1} ELSE Queued(d)
<1>1. /\ cq \in Seq(Completion) /\ Len(cq) \in Nat
      /\ Len(cq') = Len(cq) + 1 /\ cq'[Len(cq) + 1] = e
      /\ \A k \in 1 .. Len(cq) : cq'[k] = cq[k]
  BY DEF TypeOK
<1> QED
  BY <1>1 DEF Queued

LEMMA QueuedTail ==
    ASSUME TypeOK, cq # <<>>, cq' = Tail(cq), NEW d
    PROVE  /\ \A k \in Queued(d)' : k \in Nat /\ k # 0 /\ k + 1 \in Queued(d)
           /\ Head(cq).op = "READ" /\ Head(cq).conn = d => 1 \in Queued(d)
<1>1. /\ cq \in Seq(Completion) /\ Len(cq) \in Nat /\ Len(cq) # 0
      /\ Len(cq') = Len(cq) - 1 /\ Head(cq) = cq[1]
      /\ \A k \in 1 .. Len(cq') : cq'[k] = cq[k + 1]
  BY DEF TypeOK
<1> QED
  BY <1>1 DEF Queued

LEMMA QueuedTailOther ==
    ASSUME TypeOK, cq # <<>>, cq' = Tail(cq), NEW d,
           ~(Head(cq).op = "READ" /\ Head(cq).conn = d)
    PROVE  Queued(d)' = {} <=> Queued(d) = {}
<1>1. /\ cq \in Seq(Completion) /\ Len(cq) \in Nat /\ Len(cq) # 0
      /\ Len(cq') = Len(cq) - 1 /\ Head(cq) = cq[1]
      /\ \A k \in 1 .. Len(cq') : cq'[k] = cq[k + 1]
  BY DEF TypeOK
<1>2. \A k \in Queued(d) : k - 1 \in Queued(d)'
  BY <1>1 DEF Queued
<1>3. \A k \in Queued(d)' : k + 1 \in Queued(d)
  BY <1>1 DEF Queued
<1> QED
  BY <1>2, <1>3

\* A step that gives a connection nothing new leaves it good.
LEMMA Frame ==
    ASSUME NEW d, Good(d),
           recvs'[d] = recvs[d], info'[d] = info[d],
           peer'[d] = "none" => peer[d] = "none",
           Queued(d) = {} => Queued(d)' = {},
           \A k, l \in Queued(d)' : k = l,
           \A w \in Workers : Holding(w, d)' => Holding(w, d),
           Arming(d)' => Arming(d)
    PROVE  Good(d)'
BY DEF Good, Alone, KeyKept, Fresh

LEMMA ReceiveInit == Init => ReceiveInv
<1> SUFFICES ASSUME Init, NEW c \in Conns PROVE Good(c)
  BY TypeInit DEF ReceiveInv
<1>1. Queued(c) = {}
  BY DEF Init, Queued
<1>2. /\ recvs[c] = 0 /\ ~Arming(c) /\ info[c] = "none"
      /\ \A w \in Workers : ~Holding(w, c)
  BY DEF Init, Arming, Holding
<1> QED
  BY <1>1, <1>2 DEF Good, Alone, KeyKept, Fresh

LEMMA ReceiveMain ==
    ASSUME ReceiveInv, Main, NEW d \in Conns
    PROVE  Good(d)'
<1> USE DEF ReceiveInv
<1>1. ASSUME NEW c \in Conns, NEW h \in Handles, Accept(c, h)
      PROVE  Good(d)'
  <2>1. /\ \A w \in Workers : Holding(w, d)' <=> Holding(w, d)
        /\ Queued(d)' = Queued(d)
    BY <1>1 DEF Accept, Holding, workers, Queued
  <2>2. /\ peer[c] = "none" /\ mpc = "accept" /\ reg'.conn = c
        /\ peer' = [peer EXCEPT ![c] = "open"]
        /\ recvs' = recvs /\ info' = info
    BY <1>1 DEF Accept, Typed, TypeOK
  <2>3. CASE c = d
    BY <2>1, <2>2, <2>3 DEF Good, Alone, KeyKept, Fresh, Typed, TypeOK
  <2>4. CASE c # d
    <3>1. ~Arming(d)'
      BY <2>2, <2>4 DEF Arming
    <3>2. peer'[d] = peer[d] /\ Good(d)
      BY <2>2, <2>4 DEF Typed, TypeOK
    <3> QED
      BY <2>1, <2>2, <3>1, <3>2 DEF Good, Alone, KeyKept, Fresh
  <2> QED
    BY <2>3, <2>4
<1>2. CASE RegisterLoad
  <2>1. UNCHANGED <<kernel, heap, workers>> /\ reg'.conn = reg.conn
        /\ mpc = "load"
    BY <1>2 DEF RegisterLoad, Typed, TypeOK
  <2>2. /\ \A w \in Workers : Holding(w, d)' <=> Holding(w, d)
        /\ Queued(d)' = Queued(d)
        /\ Arming(d)' => Arming(d)
    BY <2>1 DEF kernel, workers, Holding, Queued, Arming
  <2> QED
    BY <2>1, <2>2, Frame DEF kernel, heap, Good, Alone
<1>3. ASSUME NEW what \in {"slot", "count"}, RegisterStore(what)
      PROVE  Good(d)'
  <2>1. UNCHANGED <<kernel, heap, workers>> /\ reg'.conn = reg.conn
        /\ mpc = "store"
    BY <1>3 DEF RegisterStore, Typed, TypeOK
  <2>2. /\ \A w \in Workers : Holding(w, d)' <=> Holding(w, d)
        /\ Queued(d)' = Queued(d)
        /\ Arming(d)' => Arming(d)
    BY <2>1 DEF kernel, workers, Holding, Queued, Arming
  <2> QED
    BY <2>1, <2>2, Frame DEF kernel, heap, Good, Alone
<1>4. CASE Arm
  <2>1. /\ \A w \in Workers : Holding(w, d)' <=> Holding(w, d)
        /\ Queued(d)' = Queued(d) /\ ~Arming(d)' /\ peer' = peer
    BY <1>4 DEF Arm, Holding, Queued, Arming, workers
  <2>2. reg.conn \in Conns /\ Arming(reg.conn)
    BY <1>4 DEF Arm, Typed, Shape, Arming
  <2>3. CASE reg.conn = d
    <3>1. /\ Arming(d) /\ recvs[d] = 0 /\ info'[d] = "live"
          /\ recvs'[d] \in {0, 1}
      BY <1>4, <2>2, <2>3 DEF Arm, PostReceive, Typed, TypeOK, Good, Alone
    <3> QED
      BY <2>1, <3>1 DEF Good, Alone, KeyKept, Fresh
  <2>4. CASE reg.conn # d
    <3>1. recvs'[d] = recvs[d] /\ info'[d] = info[d]
      BY <1>4, <2>4 DEF Arm, PostReceive, Typed, TypeOK
    <3> QED
      BY <2>1, <3>1, Frame DEF Good, Alone
  <2> QED
    BY <2>3, <2>4
<1> QED
  BY <1>1, <1>2, <1>3, <1>4 DEF Main

\* Steps of a worker that neither start nor finish with a receive.
LEMMA WorkerFrame ==
    ASSUME ReceiveInv, NEW w \in Workers, NEW d \in Conns,
           UNCHANGED <<peer, recvs, info, main>>,
           Queued(d)' = Queued(d),
           \A v \in Workers : v # w => pc'[v] = pc[v] /\ cur'[v] = cur[v],
           Holding(w, d)' => Holding(w, d)
    PROVE  Good(d)'
<1>1. \A v \in Workers : Holding(v, d)' => Holding(v, d)
  BY DEF Holding
<1>2. Arming(d)' => Arming(d)
  BY DEF Arming, main
<1> QED
  BY <1>1, <1>2, Frame DEF ReceiveInv, Good, Alone

LEMMA ReceiveWorker ==
    ASSUME ReceiveInv, NEW w \in Workers, Worker(w), NEW d \in Conns
    PROVE  Good(d)'
<1>0. /\ pc \in [Workers -> {"get", "deref", "send", "rearm", "close"}
                            \cup Leaving]
      /\ cur \in [Workers -> Completion \cup {None}]
      /\ recvs \in [Conns -> Nat]
      /\ info \in [Conns -> {"none", "live", "freed"}]
      /\ Good(d) /\ TypeOK /\ Shape
  BY DEF ReceiveInv, Typed, TypeOK
<1>1. CASE GetCompletion(w)
  <2>1. /\ pc[w] = "get" /\ cq # <<>> /\ cq' = Tail(cq)
        /\ cur' = [cur EXCEPT ![w] = Head(cq)]
        /\ pc' = [pc EXCEPT ![w] = "deref"]
        /\ UNCHANGED <<peer, recvs, info, main>>
    BY <1>1 DEF GetCompletion, Goto, heap
  <2>2. /\ \A k \in Queued(d)' : k \in Nat /\ k # 0 /\ k + 1 \in Queued(d)
        /\ Head(cq).op = "READ" /\ Head(cq).conn = d => 1 \in Queued(d)
    BY <1>0, <2>1, QueuedTail
  <2>3. \A v \in Workers : v # w => (Holding(v, d)' <=> Holding(v, d))
    BY <1>0, <2>1 DEF Holding
  <2>4. ~Holding(w, d)
    BY <2>1 DEF Holding
  <2>5. Arming(d)' <=> Arming(d)
    BY <2>1 DEF Arming, main
  <2>6. \A k, l \in Queued(d)' : k = l
    BY <1>0, <2>2 DEF Good, Alone
  <2>7. CASE Head(cq).op = "READ" /\ Head(cq).conn = d
    <3>1. 1 \in Queued(d)
      BY <2>2, <2>7
    <3>2. Queued(d)' = {}
      BY <1>0, <2>2, <3>1 DEF Good, Alone
    <3>3. /\ recvs[d] = 0 /\ info[d] = "live" /\ peer[d] # "none"
          /\ ~Arming(d) /\ \A v \in Workers : ~Holding(v, d)
      BY <1>0, <3>1 DEF Good, Alone, KeyKept, Fresh
    <3> QED
      BY <2>1, <2>3, <2>5, <3>2, <3>3 DEF Good, Alone, KeyKept, Fresh
  <2>8. CASE ~(Head(cq).op = "READ" /\ Head(cq).conn = d)
    <3>1. ~Holding(w, d)'
      BY <1>0, <2>1, <2>8 DEF Holding
    <3>2. Queued(d) = {} => Queued(d)' = {}
      BY <2>2
    <3> QED
      BY <1>0, <2>1, <2>3, <2>5, <2>6, <3>1, <3>2, Frame
  <2> QED
    BY <2>7, <2>8
<1>2. CASE DerefWrite(w)
  BY <1>0, <1>2, WorkerFrame, QueuedSame
  DEF DerefWrite, Again, Holding, kernel, heap
<1>3. CASE DerefEof(w)
  BY <1>0, <1>3, WorkerFrame, QueuedSame
  DEF DerefEof, Goto, Holding, kernel, heap
<1>4. CASE DerefMessage(w)
  BY <1>0, <1>4, WorkerFrame, QueuedSame
  DEF DerefMessage, Goto, Holding, kernel, heap
<1>5. CASE Broadcast(w)
  BY <1>0, <1>5, WorkerFrame, QueuedSame DEF Broadcast, Holding, heap
<1>6. CASE BroadcastEnds(w)
  BY <1>0, <1>6, WorkerFrame, QueuedSame
  DEF BroadcastEnds, Goto, Holding, kernel, heap
<1>7. CASE Rearm(w)
  <2> DEFINE c == cur[w].conn
  <2>1. /\ pc[w] = "rearm" /\ pc' = [pc EXCEPT ![w] = "get"]
        /\ cur' = [cur EXCEPT ![w] = None]
        /\ UNCHANGED <<peer, cq, info, main>> /\ PostReceive(c)
    BY <1>7 DEF Rearm, Again, heap
  <2>2. c \in Conns /\ Holding(w, c)
    BY <1>0, <2>1 DEF Shape, Completion, Holding
  <2>3. /\ Queued(d)' = Queued(d) /\ (Arming(d)' <=> Arming(d))
        /\ \A v \in Workers : Holding(v, d)' => Holding(v, d) /\ v # w
    BY <1>0, <2>1 DEF Queued, Arming, main, Holding
  <2>4. CASE c = d
    <3>1. /\ recvs[d] = 0 /\ Queued(d) = {} /\ info[d] = "live"
          /\ peer[d] # "none" /\ ~Arming(d)
          /\ \A v \in Workers : Holding(v, d) => v = w
      BY <1>0, <2>2, <2>4 DEF Good, Alone, KeyKept, Fresh
    <3>2. recvs'[d] \in {0, 1}
      BY <1>0, <2>1, <2>4, <3>1 DEF PostReceive
    <3> QED
      BY <2>1, <2>3, <3>1, <3>2 DEF Good, Alone, KeyKept, Fresh
  <2>5. CASE c # d
    <3>1. recvs'[d] = recvs[d]
      BY <1>0, <2>1, <2>2, <2>5 DEF PostReceive
    <3> QED
      BY <1>0, <2>1, <2>3, <3>1, Frame DEF Good, Alone
  <2> QED
    BY <2>4, <2>5
<1>8. CASE CloseSocket(w)
  <2>1. /\ pc[w] = "close" /\ pc' = [pc EXCEPT ![w] = "delete"]
        /\ UNCHANGED <<cur, peer, recvs, info, main>> /\ Cancel(cur[w].conn)
    BY <1>8 DEF CloseSocket, Goto, heap
  <2>2. cur[w].conn \in Conns
    BY <1>0, <2>1 DEF Shape, Completion
  <2>3. Queued(d)' = Queued(d)
    BY <1>0, <2>1, <2>2, QueuedWrites
  <2>4. Holding(w, d)' => Holding(w, d)
    BY <1>0, <2>1 DEF Holding
  <2> QED
    BY <1>0, <2>1, <2>3, <2>4, WorkerFrame
<1>9. CASE DeleteInfo(w)
  <2> DEFINE c == cur[w].conn
  <2>1. /\ pc[w] = "delete" /\ pc' = [pc EXCEPT ![w] = "find"]
        /\ info' = [info EXCEPT ![c] = "freed"]
        /\ UNCHANGED <<cur, cq, peer, recvs, main>>
    BY <1>9 DEF DeleteInfo, Goto, kernel
  <2>2. c \in Conns /\ Holding(w, c)
    BY <1>0, <2>1 DEF Shape, Completion, Holding
  <2>3. /\ Queued(d)' = Queued(d) /\ (Arming(d)' <=> Arming(d))
        /\ \A v \in Workers : Holding(v, d)' => Holding(v, d) /\ v # w
    BY <1>0, <2>1 DEF Queued, Arming, main, Holding
  <2>4. CASE c = d
    <3>1. /\ recvs[d] = 0 /\ Queued(d) = {} /\ peer[d] # "none" /\ ~Arming(d)
          /\ \A v \in Workers : Holding(v, d) => v = w
      BY <1>0, <2>2, <2>4 DEF Good, Alone, Fresh
    <3> QED
      BY <2>1, <2>3, <3>1 DEF Good, Alone, KeyKept, Fresh
  <2>5. CASE c # d
    <3>1. info'[d] = info[d]
      BY <1>0, <2>1, <2>5
    <3> QED
      BY <1>0, <2>1, <2>3, <3>1, Frame DEF Good, Alone
  <2> QED
    BY <2>4, <2>5
<1>10. CASE Find(w)
  BY <1>0, <1>10, WorkerFrame, QueuedSame
  DEF Find, Goto, Holding, kernel, heap
<1>11. CASE Shift(w)
  BY <1>0, <1>11, WorkerFrame, QueuedSame
  DEF Shift, Goto, Holding, kernel, heap
<1>12. CASE CountLoad(w)
  BY <1>0, <1>12, WorkerFrame, QueuedSame
  DEF CountLoad, Goto, Holding, kernel, heap
<1>13. CASE CountStore(w)
  BY <1>0, <1>13, WorkerFrame, QueuedSame
  DEF CountStore, Again, Holding, kernel, heap
<1> QED
  BY <1>1, <1>2, <1>3, <1>4, <1>5, <1>6, <1>7, <1>8, <1>9, <1>10, <1>11,
     <1>12, <1>13 DEF Worker

LEMMA ReceiveNetwork ==
    ASSUME ReceiveInv, NEW c \in Conns, NEW d \in Conns,
           Client(c) \/ ReceiveCompletes(c) \/ SendCompletes(c)
    PROVE  Good(d)'
<1>0. /\ peer \in [Conns -> {"none", "open", "shut", "reset"}]
      /\ recvs \in [Conns -> Nat]
      /\ Good(d) /\ TypeOK /\ Shape
  BY DEF ReceiveInv, Typed, TypeOK
<1>1. /\ UNCHANGED <<info, main, workers>>
      /\ peer'[d] = "none" => peer[d] = "none"
  BY <1>0 DEF Client, ClientSend, ClientShut, ClientReset, ReceiveCompletes,
              SendCompletes, heap
<1>2. /\ Arming(d)' <=> Arming(d)
      /\ \A w \in Workers : Holding(w, d)' <=> Holding(w, d)
  BY <1>1 DEF Arming, Holding, main, workers
<1>3. CASE Client(c) \/ SendCompletes(c)
  <2>1. recvs' = recvs
    BY <1>3 DEF Client, ClientSend, ClientShut, ClientReset, SendCompletes
  <2>2. Queued(d)' = Queued(d)
    <3>1. CASE cq' = cq
      BY <3>1, QueuedSame
    <3>2. CASE ClientReset(c)
      BY <1>0, <3>2, QueuedWrites DEF ClientReset
    <3>3. CASE SendCompletes(c) /\ cq' # cq
      <4> DEFINE e == [op |-> "WRITE", conn |-> c, num |-> 0]
      <4>1. e \in Completion /\ cq' = Append(cq, e) /\ e.op # "READ"
        BY <3>3 DEF SendCompletes, Completion
      <4> HIDE DEF e
      <4> QED
        BY <1>0, <4>1, QueuedAppend
    <3> QED
      BY <1>3, <3>1, <3>2, <3>3 DEF Client, ClientSend, ClientShut
  <2> QED
    BY <1>0, <1>1, <1>2, <2>1, <2>2, Frame DEF Good, Alone
<1>4. CASE ReceiveCompletes(c)
  <2>1. PICK n \in Nat :
           cq' = Append(cq, [op |-> "READ", conn |-> c, num |-> n])
    <3>1. taken[c] + 1 \in Nat /\ 0 \in Nat
      BY <1>0, SMTT(30) DEF TypeOK
    <3> QED
      BY <1>4, <3>1 DEF ReceiveCompletes
  <2> DEFINE e == [op |-> "READ", conn |-> c, num |-> n]
  <2>2. e \in Completion /\ cq' = Append(cq, e) /\ e.op = "READ" /\ e.conn = c
    BY <2>1 DEF Completion
  <2> HIDE DEF e
  <2>3. /\ recvs[c] > 0 /\ recvs' = [recvs EXCEPT ![c] = @ - 1]
        /\ peer' = peer
    BY <1>4 DEF ReceiveCompletes
  <2>4. CASE c = d
    <3>1. /\ recvs[d] = 1 /\ Queued(d) = {} /\ info[d] = "live"
          /\ peer[d] # "none" /\ ~Arming(d)
          /\ \A w \in Workers : ~Holding(w, d)
      BY <1>0, <2>3, <2>4 DEF Good, Alone, KeyKept, Fresh
    <3>2. Queued(d)' = {Len(cq) + 1}
      BY <1>0, <2>2, <2>4, <3>1, QueuedAppend
    <3>3. recvs'[d] = 0
      BY <1>0, <2>3, <2>4, <3>1
    <3> QED
      BY <1>1, <1>2, <2>3, <3>1, <3>2, <3>3 DEF Good, Alone, KeyKept, Fresh
  <2>5. CASE c # d
    <3>1. Queued(d)' = Queued(d) /\ recvs'[d] = recvs[d]
      BY <1>0, <2>2, <2>3, <2>5, QueuedAppend
    <3> QED
      BY <1>0, <1>1, <1>2, <3>1, Frame DEF Good, Alone
  <2> QED
    BY <2>4, <2>5
<1> QED
  BY <1>3, <1>4

LEMMA ReceiveStep == ReceiveInv /\ [Next]_vars => ReceiveInv'
<1> SUFFICES ASSUME ReceiveInv, [Next]_vars PROVE ReceiveInv'
  OBVIOUS
<1>1. Typed'
  BY TypeStep DEF ReceiveInv
<1>2. ASSUME NEW d \in Conns PROVE Good(d)'
  <2>1. CASE Next
    BY <2>1, ReceiveMain, ReceiveWorker, ReceiveNetwork DEF Next
  <2>2. CASE UNCHANGED vars
    BY <2>2 DEF ReceiveInv, Good, Alone, KeyKept, Fresh, Arming, Holding,
                Queued, vars, kernel, heap, main, workers
  <2> QED
    BY <2>1, <2>2
<1> QED
  BY <1>1, <1>2 DEF ReceiveInv

LEMMA ReceiveAlways == Spec => []ReceiveInv
BY ReceiveInit, ReceiveStep, PTL DEF Spec

\* However many workers serve the port, the input of one client is in one
\* place at a time: outstanding, in the queue, or with one worker.
THEOREM OneReceiveHolds == Spec => []OneReceive
<1>1. ReceiveInv => OneReceive
  BY DEF ReceiveInv, Good, Alone, OneReceive
<1> QED
  BY <1>1, ReceiveAlways, PTL

\* The CLNT_INFO reported with the end of a receive is always on the heap.
THEOREM ReadKeyLiveHolds == Spec => []ReadKeyLive
<1>1. ReceiveInv => ReadKeyLive
  BY DEF ReceiveInv, Good, KeyKept, ReadKeyLive
<1> QED
  BY <1>1, ReceiveAlways, PTL

-----------------------------------------------------------------------------
(* The broadcasts of one client's messages stay in order.                    *)

\* Whoever handles a message of c handles the last one taken from it, and no
\* copy on its way to a client is of a later one.
Latest(c) ==
    /\ \A k \in Queued(c) : cq[k].num \in {0, taken[c]}
    /\ \A w \in Workers : Holding(w, c) =>
          /\ cur[w].num \in {0, taken[c]}
          /\ pc[w] = "send" => tempBuf[w] = [from |-> c, num |-> taken[c]]
    /\ \A d \in Conns : \A k \in 1 .. Len(out[d]) :
          out[d][k].msg.from = c => out[d][k].msg.num <= taken[c]

OrderInv == ReceiveInv /\ (\A c \in Conns : Latest(c)) /\ SendsInOrder

\* What a step does to the sends outstanding on one connection.
LEMMA OutStep ==
    ASSUME Typed, Next, NEW d \in Conns
    PROVE  \/ out'[d] = out[d]
           \/ out'[d] = <<>>
           \/ out[d] # <<>> /\ out'[d] = Tail(out[d])
           \/ \E w \in Workers : /\ pc[w] = "send"
                                 /\ out'[d] = Append(out[d],
                                       [buf |-> w, msg |-> tempBuf[w]])
<1>0. out \in [Conns -> Seq(Send)] /\ TypeOK /\ Shape
  BY DEF Typed, TypeOK
<1>1. CASE Main
  BY <1>1 DEF Main, Accept, RegisterLoad, RegisterStore, Arm, kernel
<1>2. ASSUME NEW w \in Workers, Worker(w), out' # out
      PROVE  Broadcast(w) \/ CloseSocket(w)
  BY <1>2 DEF Worker, GetCompletion, DerefWrite, DerefEof, DerefMessage,
              BroadcastEnds, Rearm, DeleteInfo, Find, Shift, CountLoad,
              CountStore, kernel
<1>3. ASSUME NEW w \in Workers, Broadcast(w), out' # out
      PROVE  out'[d] = out[d]
             \/ out'[d] = Append(out[d], [buf |-> w, msg |-> tempBuf[w]])
  <2>1. PICK h : PostSend(w, h)
    BY <1>3 DEF Broadcast
  <2> DEFINE m == [buf |-> w, msg |-> tempBuf[w]]
  <2>2. out' = [out EXCEPT ![owner[h]] = Append(@, m)]
    BY <1>3, <2>1 DEF PostSend
  <2> QED
    BY <1>0, <2>2
<1>4. ASSUME NEW w \in Workers, CloseSocket(w)
      PROVE  out'[d] = out[d] \/ out'[d] = <<>>
  BY <1>0, <1>4 DEF CloseSocket, Cancel
<1>5. ASSUME NEW c \in Conns, Client(c)
      PROVE  out'[d] = out[d] \/ out'[d] = <<>>
  BY <1>0, <1>5 DEF Client, ClientSend, ClientShut, ClientReset, Cancel
<1>6. ASSUME NEW c \in Conns, ReceiveCompletes(c) PROVE out' = out
  BY <1>6 DEF ReceiveCompletes
<1>7. ASSUME NEW c \in Conns, SendCompletes(c)
      PROVE  out'[d] = out[d] \/ (out[d] # <<>> /\ out'[d] = Tail(out[d]))
  BY <1>0, <1>7 DEF SendCompletes
<1>8. ASSUME NEW w \in Workers, Broadcast(w) PROVE pc[w] = "send"
  BY <1>8 DEF Broadcast
<1> QED
  BY <1>1, <1>2, <1>3, <1>4, <1>5, <1>6, <1>7, <1>8 DEF Next

\* Where the results in the queue come from.
LEMMA QueueStep ==
    ASSUME Typed, Next, NEW d \in Conns, NEW k \in Queued(d)'
    PROVE  \/ \E l \in Queued(d) : cq'[k] = cq[l]
           \/ recvs[d] > 0 /\ cq'[k].num \in {0, taken'[d]}
<1>0. /\ TypeOK /\ Shape /\ taken \in [Conns -> Nat]
      /\ cq \in Seq(Completion) /\ Len(cq) \in Nat
      /\ k \in 1 .. Len(cq') /\ cq'[k].op = "READ" /\ cq'[k].conn = d
  <2>1. k \in 1 .. Len(cq') /\ cq'[k].op = "READ" /\ cq'[k].conn = d
    BY DEF Queued
  <2>2. TypeOK /\ Shape
    BY DEF Typed
  <2>3. cq \in Seq(Completion) /\ taken \in [Conns -> Nat]
    BY <2>2 DEF TypeOK
  <2> QED
    BY <2>1, <2>2, <2>3
<1>1. CASE cq' = cq
  BY <1>0, <1>1 DEF Queued
<1>2. ASSUME NEW c \in Conns, Cancel(c), cq' # cq
      PROVE  \E l \in Queued(d) : cq'[k] = cq[l]
  <2> DEFINE W == [i \in 1 .. Len(out[c]) |->
                     [op |-> "WRITE", conn |-> c, num |-> 0]]
  <2>1. Len(out[c]) \in Nat
    BY <1>0 DEF TypeOK
  <2>2. W \in Seq(Completion) /\ Len(W) = Len(out[c])
    BY <2>1 DEF Completion
  <2>3. cq' = cq \o W
    BY <1>2 DEF Cancel
  <2>4. /\ Len(cq') = Len(cq) + Len(W)
        /\ k \in 1 .. Len(cq) => cq'[k] = cq[k]
        /\ k > Len(cq) => cq'[k] = W[k - Len(cq)] /\ k - Len(cq) \in 1 .. Len(W)
    BY <1>0, <2>2, <2>3
  <2>5. k > Len(cq) => cq'[k].op = "WRITE"
    BY <2>2, <2>4
  <2> HIDE DEF W
  <2>6. k \in 1 .. Len(cq)
    BY <1>0, <2>5
  <2> QED
    BY <1>0, <2>4, <2>6 DEF Queued
<1>3. ASSUME NEW e \in Completion, cq' = Append(cq, e), cq'[k] # e
      PROVE  \E l \in Queued(d) : cq'[k] = cq[l]
  <2>1. k \in 1 .. Len(cq) /\ cq'[k] = cq[k]
    BY <1>0, <1>3
  <2> QED
    BY <1>0, <2>1 DEF Queued
<1>4. CASE Main
  BY <1>1, <1>4 DEF Main, Accept, RegisterLoad, RegisterStore, Arm, kernel
<1>5. ASSUME NEW w \in Workers, Worker(w)
      PROVE  \E l \in Queued(d) : cq'[k] = cq[l]
  <2>1. CASE GetCompletion(w)
    <3>1. /\ cq # <<>> /\ cq' = Tail(cq)
      BY <2>1 DEF GetCompletion
    <3>2. k + 1 \in 1 .. Len(cq) /\ cq'[k] = cq[k + 1]
      BY <1>0, <3>1
    <3> QED
      BY <1>0, <3>2 DEF Queued
  <2>2. CASE CloseSocket(w)
    <3>1. cur[w].conn \in Conns /\ Cancel(cur[w].conn)
      BY <1>0, <2>2 DEF CloseSocket, Shape, Completion
    <3> QED
      BY <1>0, <1>2, <3>1 DEF Queued
  <2>3. CASE ~GetCompletion(w) /\ ~CloseSocket(w)
    <3>1. cq' = cq
      BY <1>5, <2>3
      DEF Worker, DerefWrite, DerefEof, DerefMessage, Broadcast,
          BroadcastEnds, Rearm, DeleteInfo, Find, Shift, CountLoad,
          CountStore, kernel
    <3> QED
      BY <1>0, <3>1 DEF Queued
  <2> QED
    BY <2>1, <2>2, <2>3
<1>6. ASSUME NEW c \in Conns, Client(c)
      PROVE  \E l \in Queued(d) : cq'[k] = cq[l]
  BY <1>0, <1>2, <1>6
  DEF Client, ClientSend, ClientShut, ClientReset, Queued
<1>7. ASSUME NEW c \in Conns, SendCompletes(c), cq' # cq
      PROVE  \E l \in Queued(d) : cq'[k] = cq[l]
  <2> DEFINE e == [op |-> "WRITE", conn |-> c, num |-> 0]
  <2>1. e \in Completion /\ cq' = Append(cq, e) /\ e.op = "WRITE"
    BY <1>7 DEF SendCompletes, Completion
  <2> HIDE DEF e
  <2> QED
    BY <1>0, <1>3, <2>1
<1>8. ASSUME NEW c \in Conns, ReceiveCompletes(c)
      PROVE  \/ \E l \in Queued(d) : cq'[k] = cq[l]
             \/ recvs[d] > 0 /\ cq'[k].num \in {0, taken'[d]}
  <2>1. PICK n \in {0, taken'[c]} \cap Nat :
           cq' = Append(cq, [op |-> "READ", conn |-> c, num |-> n])
    <3>1. taken[c] + 1 \in Nat /\ 0 \in Nat
      BY <1>0
    <3> QED
      BY <1>0, <1>8, <3>1 DEF ReceiveCompletes
  <2> DEFINE e == [op |-> "READ", conn |-> c, num |-> n]
  <2>2. e \in Completion /\ cq' = Append(cq, e)
        /\ e.conn = c /\ e.num \in {0, taken'[c]}
    BY <2>1 DEF Completion
  <2>3. recvs[c] > 0
    BY <1>8 DEF ReceiveCompletes
  <2> HIDE DEF e
  <2> QED
    BY <1>0, <1>3, <2>2, <2>3
<1> QED
  BY <1>1, <1>4, <1>5, <1>6, <1>7, <1>8 DEF Next

\* How a worker comes to hold the input of a client, and a message of it.
LEMMA HeldStep ==
    ASSUME Typed, Next, NEW d \in Conns, NEW w \in Workers, Holding(w, d)'
    PROVE  \/ 1 \in Queued(d) /\ cur'[w] = cq[1] /\ pc'[w] = "deref"
           \/ /\ Holding(w, d) /\ cur'[w] = cur[w]
              /\ pc[w] = "delete" => pc'[w] = "delete"
              /\ pc'[w] = "send" =>
                    \/ pc[w] = "send" /\ tempBuf'[w] = tempBuf[w]
                    \/ /\ cur[w].num # 0
                       /\ tempBuf'[w] = [from |-> d, num |-> cur[w].num]
<1>0. /\ pc \in [Workers -> {"get", "deref", "send", "rearm", "close"}
                            \cup Leaving]
      /\ cur \in [Workers -> Completion \cup {None}]
      /\ tempBuf \in [Workers -> Message \cup {None}]
      /\ TypeOK /\ Shape
  BY DEF Typed, TypeOK
<1>1. CASE pc'[w] = pc[w] /\ cur'[w] = cur[w] /\ tempBuf'[w] = tempBuf[w]
  BY <1>1 DEF Holding
<1>2. CASE Main
  BY <1>1, <1>2
  DEF Main, Accept, RegisterLoad, RegisterStore, Arm, workers
<1>3. ASSUME NEW c \in Conns,
             Client(c) \/ ReceiveCompletes(c) \/ SendCompletes(c)
      PROVE  UNCHANGED workers
  BY <1>3 DEF Client, ClientSend, ClientShut, ClientReset, ReceiveCompletes,
              SendCompletes
<1>4. ASSUME NEW v \in Workers, Worker(v), v # w
      PROVE  pc'[w] = pc[w] /\ cur'[w] = cur[w] /\ tempBuf'[w] = tempBuf[w]
  BY <1>0, <1>4
  DEF Worker, GetCompletion, DerefWrite, DerefEof, DerefMessage, Broadcast,
      BroadcastEnds, Rearm, CloseSocket, DeleteInfo, Find, Shift, CountLoad,
      CountStore, Again, Goto
<1>5. CASE GetCompletion(w)
  <2>1. /\ pc[w] = "get" /\ cq # <<>>
        /\ cur' = [cur EXCEPT ![w] = Head(cq)]
        /\ pc' = [pc EXCEPT ![w] = "deref"]
    BY <1>5 DEF GetCompletion, Goto
  <2>2. cur'[w] = Head(cq) /\ pc'[w] = "deref"
    BY <1>0, <2>1
  <2>3. Head(cq) = cq[1] /\ 1 \in 1 .. Len(cq)
    BY <1>0, <2>1 DEF TypeOK
  <2> QED
    BY <2>2, <2>3 DEF Holding, Queued
<1>6. CASE DerefMessage(w)
  <2>1. /\ pc[w] = "deref" /\ cur[w].op = "READ" /\ cur[w].num # 0
        /\ cur' = cur /\ pc'[w] = "send"
        /\ tempBuf'[w] = [from |-> cur[w].conn, num |-> cur[w].num]
    BY <1>0, <1>6 DEF DerefMessage, Goto
  <2> QED
    BY <2>1 DEF Holding
<1>7. CASE DerefWrite(w) \/ Rearm(w) \/ CountStore(w)
  <2>1. pc'[w] = "get"
    BY <1>0, <1>7 DEF DerefWrite, Rearm, CountStore, Again
  <2> QED
    BY <2>1 DEF Holding
<1>8. CASE DerefEof(w) \/ BroadcastEnds(w) \/ CloseSocket(w)
  <2>1. /\ pc[w] \in {"deref", "send", "close"} /\ cur' = cur
        /\ pc'[w] \in {"close", "rearm", "delete"}
    BY <1>0, <1>8 DEF DerefEof, BroadcastEnds, CloseSocket, Goto
  <2> QED
    BY <2>1 DEF Holding
<1>9. CASE DeleteInfo(w) \/ Find(w) \/ Shift(w) \/ CountLoad(w)
  <2>1. pc'[w] \in {"find", "shift", "load", "store"}
    BY <1>0, <1>9 DEF DeleteInfo, Find, Shift, CountLoad, Goto
  <2> QED
    BY <2>1 DEF Holding
<1>10. CASE Broadcast(w)
  BY <1>1, <1>10 DEF Broadcast
<1>11. ASSUME Worker(w)
       PROVE  \/ 1 \in Queued(d) /\ cur'[w] = cq[1] /\ pc'[w] = "deref"
              \/ /\ Holding(w, d) /\ cur'[w] = cur[w]
                 /\ pc[w] = "delete" => pc'[w] = "delete"
                 /\ pc'[w] = "send" =>
                       \/ pc[w] = "send" /\ tempBuf'[w] = tempBuf[w]
                       \/ /\ cur[w].num # 0
                          /\ tempBuf'[w] = [from |-> d, num |-> cur[w].num]
  BY <1>5, <1>6, <1>7, <1>8, <1>9, <1>10, <1>11 DEF Worker
<1> QED
  BY <1>1, <1>2, <1>3, <1>4, <1>11 DEF Next, workers

\* A message is taken from a connection only while nobody has its input.
LEMMA TakenStep ==
    ASSUME Typed, Next, NEW d \in Conns
    PROVE  taken'[d] = taken[d] \/ (recvs[d] > 0 /\ taken'[d] = taken[d] + 1)
<1>0. taken \in [Conns -> Nat]
  BY DEF Typed, TypeOK
<1>1. CASE UNCHANGED taken
  BY <1>1
<1>2. CASE Main
  BY <1>2 DEF Main, Accept, RegisterLoad, RegisterStore, Arm, kernel
<1>3. ASSUME NEW w \in Workers, Worker(w) PROVE UNCHANGED taken
  BY <1>3
  DEF Worker, GetCompletion, DerefWrite, DerefEof, DerefMessage, Broadcast,
      BroadcastEnds, Rearm, CloseSocket, DeleteInfo, Find, Shift, CountLoad,
      CountStore, kernel
<1>4. ASSUME NEW c \in Conns, Client(c) \/ SendCompletes(c)
      PROVE  UNCHANGED taken
  BY <1>4 DEF Client, ClientSend, ClientShut, ClientReset, SendCompletes
<1>5. ASSUME NEW c \in Conns, ReceiveCompletes(c)
      PROVE  taken'[d] = taken[d] \/ (recvs[d] > 0 /\ taken'[d] = taken[d] + 1)
  BY <1>0, <1>5 DEF ReceiveCompletes
<1> QED
  BY <1>1, <1>2, <1>3, <1>4, <1>5 DEF Next

\* What a broadcasting worker is about to post.
LEMMA Posting ==
    ASSUME OrderInv, NEW w \in Workers, pc[w] = "send"
    PROVE  /\ tempBuf[w] = [from |-> cur[w].conn, num |-> taken[cur[w].conn]]
           /\ cur[w].conn \in Conns /\ tempBuf[w] \in Message
<1>1. cur[w] \in Completion /\ cur[w].op = "READ" /\ tempBuf[w] \in Message
  BY DEF OrderInv, ReceiveInv, Typed, Shape
<1>2. cur[w].conn \in Conns /\ Holding(w, cur[w].conn)
  BY <1>1 DEF Completion, Holding
<1> QED
  BY <1>1, <1>2 DEF OrderInv, Latest

\* Every send outstanding after a step was there before, behind those that
\* were ahead of it, or is the one the step posted, behind all others.
LEMMA OutEntries ==
    ASSUME OrderInv, Next, NEW d \in Conns, NEW k \in 1 .. Len(out'[d])
    PROVE  \/ \E i \in 0 .. 1 :
                 /\ k + i \in 1 .. Len(out[d])
                 /\ \A j \in 1 .. k : /\ j + i \in 1 .. Len(out[d])
                                      /\ out'[d][j] = out[d][j + i]
           \/ \E c \in Conns :
                 /\ out'[d][k].msg = [from |-> c, num |-> taken[c]]
                 /\ \A j \in 1 .. k : j # k => /\ j \in 1 .. Len(out[d])
                                               /\ out'[d][j] = out[d][j]
<1>1. Typed /\ out[d] \in Seq(Send) /\ Len(out[d]) \in Nat
  <2>1. Typed
    BY DEF OrderInv, ReceiveInv
  <2>2. out[d] \in Seq(Send)
    BY <2>1 DEF Typed, TypeOK
  <2> QED
    BY <2>1, <2>2
<1>2. CASE out'[d] = out[d]
  BY <1>1, <1>2
<1>3. CASE out'[d] = <<>>
  BY <1>3
<1>4. CASE out[d] # <<>> /\ out'[d] = Tail(out[d])
  BY <1>1, <1>4
<1>5. ASSUME NEW w \in Workers, pc[w] = "send",
             out'[d] = Append(out[d], [buf |-> w, msg |-> tempBuf[w]])
      PROVE  \/ /\ k + 0 \in 1 .. Len(out[d])
                /\ \A j \in 1 .. k : /\ j + 0 \in 1 .. Len(out[d])
                                     /\ out'[d][j] = out[d][j + 0]
             \/ \E c \in Conns :
                   /\ out'[d][k].msg = [from |-> c, num |-> taken[c]]
                   /\ \A j \in 1 .. k : j # k => /\ j \in 1 .. Len(out[d])
                                                 /\ out'[d][j] = out[d][j]
  <2> DEFINE m == [buf |-> w, msg |-> tempBuf[w]]
  <2>1. /\ cur[w].conn \in Conns /\ m \in Send
        /\ m.msg = [from |-> cur[w].conn, num |-> taken[cur[w].conn]]
    BY <1>5, Posting DEF Send
  <2>2. out'[d] = Append(out[d], m)
    BY <1>5
  <2> HIDE DEF m
  <2>3. /\ Len(out'[d]) = Len(out[d]) + 1 /\ out'[d][Len(out[d]) + 1] = m
        /\ \A j \in 1 .. Len(out[d]) : out'[d][j] = out[d][j]
    BY <1>1, <2>1, <2>2
  <2> QED
    BY <1>1, <2>1, <2>3, SMTT(30)
<1>6. CASE \E w \in Workers :
              /\ pc[w] = "send"
              /\ out'[d] = Append(out[d], [buf |-> w, msg |-> tempBuf[w]])
  <2>1. PICK w \in Workers :
              /\ pc[w] = "send"
              /\ out'[d] = Append(out[d], [buf |-> w, msg |-> tempBuf[w]])
    BY <1>6
  <2>2. 0 \in 0 .. 1
    OBVIOUS
  <2> QED
    BY <1>5, <2>1, <2>2
<1> QED
  BY <1>1, <1>2, <1>3, <1>4, <1>6, OutStep

LEMMA OutTyped ==
    ASSUME OrderInv, Next, NEW d \in Conns
    PROVE  Len(out'[d]) \in Nat
<1>1. Typed'
  BY TypeStep DEF OrderInv, ReceiveInv
<1>2. out' \in [Conns -> Seq(Send)]
  BY <1>1 DEF Typed, TypeOK
<1>3. out'[d] \in Seq(Send)
  BY <1>2
<1> QED
  BY <1>3

LEMMA LatestStep ==
    ASSUME OrderInv, Next, NEW c \in Conns
    PROVE  Latest(c)'
<1>0. /\ Typed /\ Good(c) /\ Latest(c) /\ taken \in [Conns -> Nat]
      /\ \A d \in Conns : Latest(d)
      /\ \A d \in Conns : \A k \in 1 .. Len(out[d]) : out[d][k] \in Send
  BY SMTT(30) DEF OrderInv, ReceiveInv, Typed, TypeOK
<1>1. taken'[c] = taken[c] \/ (/\ taken'[c] = taken[c] + 1 /\ Queued(c) = {}
                               /\ \A w \in Workers : ~Holding(w, c))
  <2>1. recvs[c] > 0 => recvs[c] = 1
    BY <1>0 DEF Good, Alone, Typed, TypeOK
  <2> QED
    BY <1>0, <2>1, TakenStep DEF Good, Alone
<1>2. taken[c] <= taken'[c]
  BY <1>0, <1>1
<1>3. \A k \in Queued(c)' : cq'[k].num \in {0, taken'[c]}
  <2> TAKE k \in Queued(c)'
  <2>1. CASE \E l \in Queued(c) : cq'[k] = cq[l]
    BY <1>0, <1>1, <2>1 DEF Latest
  <2> QED
    BY <1>0, <2>1, QueueStep
<1>4. ASSUME NEW w \in Workers, Holding(w, c)'
      PROVE  /\ cur'[w].num \in {0, taken'[c]}
             /\ pc'[w] = "send" =>
                   tempBuf'[w] = [from |-> c, num |-> taken'[c]]
  <2>1. CASE 1 \in Queued(c) /\ cur'[w] = cq[1] /\ pc'[w] = "deref"
    BY <1>0, <1>1, <2>1 DEF Latest
  <2>2. CASE /\ Holding(w, c) /\ cur'[w] = cur[w]
             /\ pc'[w] = "send" =>
                   \/ pc[w] = "send" /\ tempBuf'[w] = tempBuf[w]
                   \/ /\ cur[w].num # 0
                      /\ tempBuf'[w] = [from |-> c, num |-> cur[w].num]
    BY <1>0, <1>1, <2>2 DEF Latest
  <2> QED
    BY <1>0, <1>4, <2>1, <2>2, HeldStep
<1>5. ASSUME NEW d \in Conns, NEW k \in 1 .. Len(out'[d]),
             out'[d][k].msg.from = c
      PROVE  out'[d][k].msg.num <= taken'[c]
  <2>1. CASE \E l \in 1 .. Len(out[d]) : out'[d][k] = out[d][l]
    <3>1. PICK l \in 1 .. Len(out[d]) : out'[d][k] = out[d][l]
      BY <2>1
    <3>2. out[d][l].msg.num \in Nat /\ out[d][l].msg.num <= taken[c]
      BY <1>0, <1>5, <3>1 DEF Latest, Send, Message
    <3> QED
      BY <1>0, <1>1, <3>1, <3>2
  <2>2. CASE \E e \in Conns : out'[d][k].msg = [from |-> e, num |-> taken[e]]
    BY <1>2, <1>5, <2>2
  <2>3. k \in 1 .. k
    BY <1>5, OutTyped
  <2> QED
    BY <2>1, <2>2, <2>3, OutEntries
<1> QED
  BY <1>3, <1>4, <1>5 DEF Latest

LEMMA OrderStep == OrderInv /\ [Next]_vars => OrderInv'
<1> SUFFICES ASSUME OrderInv, [Next]_vars PROVE OrderInv'
  OBVIOUS
<1>1. CASE UNCHANGED vars
  <2>1. UNCHANGED <<taken, out, cq, pc, cur, tempBuf>>
    BY <1>1 DEF vars, kernel, workers
  <2>2. ReceiveInv'
    BY <1>1, ReceiveStep DEF OrderInv
  <2> QED
    BY <2>1, <2>2 DEF OrderInv, Latest, SendsInOrder, Queued, Holding
<1>2. CASE Next
  <2>1. ReceiveInv'
    BY <1>2, ReceiveStep DEF OrderInv
  <2>2. ASSUME NEW d \in Conns, NEW k \in 1 .. Len(out'[d]),
               NEW l \in 1 .. Len(out'[d]), k < l,
               out'[d][k].msg.from = out'[d][l].msg.from
        PROVE  out'[d][k].msg.num <= out'[d][l].msg.num
    <3>1. k \in 1 .. l /\ l \in 1 .. l /\ k # l
      BY <2>2, OutTyped
    <3>2. CASE \E i \in 0 .. 1 :
                  /\ l + i \in 1 .. Len(out[d])
                  /\ \A j \in 1 .. l : /\ j + i \in 1 .. Len(out[d])
                                       /\ out'[d][j] = out[d][j + i]
      <4>1. PICK i \in 0 .. 1 :
                  \A j \in 1 .. l : /\ j + i \in 1 .. Len(out[d])
                                    /\ out'[d][j] = out[d][j + i]
        BY <3>2
      <4>2. k + i < l + i
        BY <2>2, <3>1
      <4> QED
        BY <2>2, <3>1, <4>1, <4>2 DEF OrderInv, SendsInOrder
    <3>3. CASE \E c \in Conns :
                  /\ out'[d][l].msg = [from |-> c, num |-> taken[c]]
                  /\ \A j \in 1 .. l : j # l => /\ j \in 1 .. Len(out[d])
                                                /\ out'[d][j] = out[d][j]
      <4>1. PICK c \in Conns :
                  /\ out'[d][l].msg = [from |-> c, num |-> taken[c]]
                  /\ \A j \in 1 .. l : j # l => /\ j \in 1 .. Len(out[d])
                                                /\ out'[d][j] = out[d][j]
        BY <3>3
      <4>2. k \in 1 .. Len(out[d]) /\ out'[d][k] = out[d][k]
        BY <3>1, <4>1
      <4>3. out[d][k].msg.from = c
        BY <2>2, <4>1, <4>2
      <4> QED
        BY <4>1, <4>2, <4>3 DEF OrderInv, Latest
    <3> QED
      BY <1>2, <3>2, <3>3, OutEntries
  <2> QED
    BY <1>2, <2>1, <2>2, LatestStep DEF OrderInv, SendsInOrder
<1> QED
  BY <1>1, <1>2

LEMMA OrderInit == Init => OrderInv
<1> SUFFICES ASSUME Init PROVE OrderInv
  OBVIOUS
<1>1. ReceiveInv
  BY ReceiveInit
<1>2. /\ \A c \in Conns : Len(out[c]) = 0 /\ Queued(c) = {}
      /\ \A c \in Conns, w \in Workers : ~Holding(w, c)
  BY DEF Init, Queued, Holding
<1> QED
  BY <1>1, <1>2 DEF OrderInv, Latest, SendsInOrder

\* However the broadcasts of different workers interleave, and whatever the
\* registry has become, each client is sent the messages of another client in
\* the order in which the server received them.
THEOREM SendsInOrderHolds == Spec => []SendsInOrder
<1>1. Spec => []OrderInv
  BY OrderInit, OrderStep, PTL DEF Spec
<1>2. OrderInv => SendsInOrder
  BY DEF OrderInv
<1> QED
  BY <1>1, <1>2, PTL

-----------------------------------------------------------------------------
(* Each connection lives the life of ReceiveStrand.                          *)

\* Where a connection is, read off the four facts phase depends on.
LEMMA PhaseOf ==
    ASSUME ReceiveInv, NEW c \in Conns
    PROVE  /\ recvs[c] > 0 => phase[c] = "armed"
           /\ recvs[c] = 0 /\ Queued(c) # {} => phase[c] = "fired"
           /\ \A w \in Workers : Holding(w, c) => phase[c] = "held"
           /\ recvs[c] = 0 /\ Queued(c) = {}
              /\ (\A w \in Workers : ~Holding(w, c))
                 => phase[c] = IF info[c] = "none" THEN "new" ELSE "over"
<1>1. recvs[c] \in Nat /\ Good(c)
  BY DEF ReceiveInv, Typed, TypeOK
<1> QED
  BY <1>1 DEF phase, Good, Alone

\* The same of the next state.
LEMMA PhaseNext ==
    ASSUME ReceiveInv', NEW c \in Conns
    PROVE  /\ recvs'[c] = 0 /\ Queued(c)' # {} => phase'[c] = "fired"
           /\ \A w \in Workers : Holding(w, c)' => phase'[c] = "held"
<1>1. recvs'[c] \in Nat /\ Good(c)'
  BY DEF ReceiveInv, Typed, TypeOK
<1>2. recvs'[c] = 0 => ~(recvs'[c] > 0)
  OBVIOUS
<1>3. recvs'[c] = 0 /\ Queued(c)' # {} => phase'[c] = "fired"
  BY <1>1, <1>2 DEF phase, Good, Alone
<1>4. ASSUME NEW w \in Workers, Holding(w, c)' PROVE phase'[c] = "held"
  <2>1. recvs'[c] = 0 /\ Queued(c)' = {}
    BY <1>1, <1>4 DEF Good, Alone
  <2> QED
    BY <1>2, <1>4, <2>1 DEF phase
<1> QED
  BY <1>3, <1>4

LEMMA PhaseSame ==
    ASSUME ReceiveInv, ReceiveInv', NEW c \in Conns,
           recvs'[c] = recvs[c], Queued(c)' = {} <=> Queued(c) = {},
           \A w \in Workers : Holding(w, c)' <=> Holding(w, c),
           info'[c] = "none" <=> info[c] = "none"
    PROVE  phase'[c] = phase[c]
BY DEF phase

\* A step that changes the phase of one connection is a move of that one.
LEMMA OneMove ==
    ASSUME NEW c \in Conns, NEW from, NEW to,
           phase[c] = from, phase'[c] = to,
           \A d \in Conns : d # c => phase'[d] = phase[d]
    PROVE  Strand!Move(c, from, to)
<1>1. phase' = [d \in Conns |-> phase'[d]] /\ phase = [d \in Conns |-> phase[d]]
  BY DEF phase
<1> HIDE DEF phase
<1>2. [phase EXCEPT ![c] = to] = [d \in Conns |-> IF d = c THEN to ELSE phase[d]]
  BY <1>1
<1>3. phase' = [phase EXCEPT ![c] = to]
  BY <1>1, <1>2
<1> QED
  BY <1>3 DEF Strand!Move

LEMMA Moved ==
    ASSUME NEW c \in Conns, NEW from, NEW to, from # to, Strand!Move(c, from, to)
    PROVE  phase'[c] # phase[c]
<1>1. phase = [d \in Conns |-> phase[d]]
  BY DEF phase
<1>2. phase[c] = from /\ phase' = [phase EXCEPT ![c] = to]
  BY DEF Strand!Move
<1> QED
  BY <1>1, <1>2

LEMMA NoMove ==
    ASSUME \A d \in Conns : phase'[d] = phase[d]
    PROVE  UNCHANGED phase
<1>1. phase' = [d \in Conns |-> phase'[d]] /\ phase = [d \in Conns |-> phase[d]]
  BY DEF phase
<1> QED
  BY <1>1

LEMMA StrandMain ==
    ASSUME ReceiveInv, ReceiveInv', Main
    PROVE  [Strand!Next]_phase
<1>0. TypeOK /\ Shape /\ \A c \in Conns : Good(c)
  BY DEF ReceiveInv, Typed
<1>1. CASE ~Arm
  <2>1. /\ UNCHANGED <<recvs, cq, info, workers>>
    BY <1>1 DEF Main, Accept, RegisterLoad, RegisterStore, kernel, heap
  <2>2. \A d \in Conns : phase'[d] = phase[d]
    BY <2>1, PhaseSame DEF Queued, Holding, workers
  <2> QED
    BY <2>2, NoMove
<1>2. CASE Arm
  <2> DEFINE c == reg.conn
  <2>1. c \in Conns /\ Arming(c)
    BY <1>0, <1>2 DEF Arm, Shape, Arming
  <2>2. /\ recvs[c] = 0 /\ Queued(c) = {} /\ info[c] = "none"
        /\ \A w \in Workers : ~Holding(w, c)
    BY <1>0, <2>1 DEF Good, Alone, Fresh
  <2>3. /\ \A d \in Conns : Queued(d)' = Queued(d)
        /\ \A d \in Conns, w \in Workers : Holding(w, d)' <=> Holding(w, d)
    BY <1>2 DEF Arm, Queued, Holding, workers
  <2>4. /\ info' = [info EXCEPT ![c] = "live"] /\ recvs'[c] \in {0, 1}
        /\ \A d \in Conns : d # c => recvs'[d] = recvs[d]
    BY <1>0, <1>2, <2>1, <2>2 DEF Arm, PostReceive, TypeOK
  <2>5. phase[c] = "new"
    BY <2>1, <2>2, PhaseOf
  <2>6. \A d \in Conns : d # c => phase'[d] = phase[d]
    BY <1>0, <2>3, <2>4, PhaseSame DEF TypeOK
  <2>7. phase'[c] \in {"armed", "over"}
    <3>1. info'[c] = "live"
      BY <1>0, <2>1, <2>4 DEF TypeOK
    <3> QED
      BY <2>1, <2>2, <2>3, <2>4, <3>1 DEF phase
  <2>8. Strand!Move(c, "new", "armed") \/ Strand!Move(c, "new", "over")
    BY <2>1, <2>5, <2>6, <2>7, OneMove
  <2> QED
    BY <2>1, <2>8, Moved DEF Strand!Next, Strand!Start
<1> QED
  BY <1>1, <1>2

LEMMA StrandNetwork ==
    ASSUME ReceiveInv, ReceiveInv', NEW c \in Conns,
           Client(c) \/ ReceiveCompletes(c) \/ SendCompletes(c)
    PROVE  [Strand!Next]_phase
<1>0. TypeOK /\ \A d \in Conns : Good(d)
  BY DEF ReceiveInv, Typed
<1>1. UNCHANGED <<info, workers>>
  BY DEF Client, ClientSend, ClientShut, ClientReset, ReceiveCompletes,
         SendCompletes, heap
<1>2. \A d \in Conns, w \in Workers : Holding(w, d)' <=> Holding(w, d)
  BY <1>1 DEF Holding, workers
<1>3. CASE Client(c) \/ SendCompletes(c)
  <2>1. recvs' = recvs
    BY <1>3 DEF Client, ClientSend, ClientShut, ClientReset, SendCompletes
  <2>2. ASSUME NEW d \in Conns PROVE Queued(d)' = Queued(d)
    <3>1. CASE cq' = cq
      BY <3>1, QueuedSame
    <3>2. CASE ClientReset(c)
      BY <1>0, <3>2, QueuedWrites DEF ClientReset
    <3>3. CASE SendCompletes(c) /\ cq' # cq
      <4> DEFINE e == [op |-> "WRITE", conn |-> c, num |-> 0]
      <4>1. e \in Completion /\ cq' = Append(cq, e) /\ e.op # "READ"
        BY <3>3 DEF SendCompletes, Completion
      <4> HIDE DEF e
      <4> QED
        BY <1>0, <4>1, QueuedAppend
    <3> QED
      BY <1>3, <3>1, <3>2, <3>3 DEF Client, ClientSend, ClientShut
  <2>3. \A d \in Conns : phase'[d] = phase[d]
    BY <1>1, <1>2, <2>1, <2>2, PhaseSame
  <2> QED
    BY <2>3, NoMove
<1>4. CASE ReceiveCompletes(c)
  <2>1. PICK n \in Nat :
           cq' = Append(cq, [op |-> "READ", conn |-> c, num |-> n])
    <3>1. taken[c] + 1 \in Nat /\ 0 \in Nat
      BY <1>0 DEF TypeOK
    <3> QED
      BY <1>4, <3>1 DEF ReceiveCompletes
  <2> DEFINE e == [op |-> "READ", conn |-> c, num |-> n]
  <2>2. e \in Completion /\ cq' = Append(cq, e) /\ e.op = "READ" /\ e.conn = c
    BY <2>1 DEF Completion
  <2> HIDE DEF e
  <2>3. recvs[c] > 0 /\ recvs' = [recvs EXCEPT ![c] = @ - 1]
    BY <1>4 DEF ReceiveCompletes
  <2>4. recvs[c] = 1 /\ recvs'[c] = 0
    BY <1>0, <2>3 DEF Good, Alone, TypeOK
  <2>5. Queued(c)' # {}
    BY <1>0, <2>2, QueuedAppend
  <2>6. phase[c] = "armed" /\ phase'[c] = "fired"
    <3>1. phase[c] = "armed"
      BY <2>3, PhaseOf
    <3>2. phase'[c] = "fired"
      BY <2>4, <2>5, PhaseNext
    <3> QED
      BY <3>1, <3>2
  <2>7. ASSUME NEW d \in Conns, d # c PROVE phase'[d] = phase[d]
    <3>1. Queued(d)' = Queued(d)
      BY <1>0, <2>2, <2>7, QueuedAppend
    <3>2. recvs'[d] = recvs[d]
      BY <1>0, <2>3, <2>7 DEF TypeOK
    <3> QED
      BY <1>1, <1>2, <3>1, <3>2, PhaseSame
  <2>8. Strand!Move(c, "armed", "fired")
    BY <2>6, <2>7, OneMove
  <2> QED
    BY <2>8, Moved DEF Strand!Next, Strand!Fire
<1> QED
  BY <1>3, <1>4

LEMMA StrandWorker ==
    ASSUME ReceiveInv, ReceiveInv', NEW w \in Workers, Worker(w)
    PROVE  [Strand!Next]_phase
<1>0. /\ pc \in [Workers -> {"get", "deref", "send", "rearm", "close"}
                            \cup Leaving]
      /\ cur \in [Workers -> Completion \cup {None}]
      /\ recvs \in [Conns -> Nat]
      /\ info \in [Conns -> {"none", "live", "freed"}]
      /\ TypeOK /\ Shape /\ \A d \in Conns : Good(d)
  BY DEF ReceiveInv, Typed, TypeOK
<1> DEFINE c == cur[w].conn
<1>1. CASE GetCompletion(w)
  <2>1. /\ pc[w] = "get" /\ cq # <<>> /\ cq' = Tail(cq)
        /\ cur' = [cur EXCEPT ![w] = Head(cq)]
        /\ pc' = [pc EXCEPT ![w] = "deref"]
        /\ UNCHANGED <<recvs, info>>
    BY <1>1 DEF GetCompletion, Goto, heap
  <2>2. PICK r \in Conns : r = Head(cq).conn
    <3>1. Head(cq) \in Completion
      BY <1>0, <2>1 DEF TypeOK
    <3> QED
      BY <3>1 DEF Completion
  <2>3. \A d \in Conns : \A v \in Workers :
           v # w => (Holding(v, d)' <=> Holding(v, d))
    BY <1>0, <2>1 DEF Holding
  <2>4. \A d \in Conns : ~Holding(w, d)
    BY <2>1 DEF Holding
  <2>5. ASSUME NEW d \in Conns, ~(Head(cq).op = "READ" /\ r = d)
        PROVE  phase'[d] = phase[d]
    <3>1. ~Holding(w, d)'
      BY <1>0, <2>1, <2>2, <2>5 DEF Holding
    <3>2. Queued(d)' = {} <=> Queued(d) = {}
      BY <1>0, <2>1, <2>2, <2>5, QueuedTailOther
    <3> QED
      BY <2>1, <2>3, <2>4, <3>1, <3>2, PhaseSame
  <2>6. CASE Head(cq).op = "READ"
    <3>1. 1 \in Queued(r)
      BY <1>0, <2>1, <2>2, <2>6, QueuedTail
    <3>2. recvs[r] = 0 /\ Queued(r) # {}
      BY <1>0, <2>2, <3>1 DEF Good, Alone
    <3>3. phase[r] = "fired"
      BY <2>2, <3>2, PhaseOf
    <3>4. Holding(w, r)'
      <4>1. pc'[w] = "deref" /\ cur'[w] = Head(cq)
        BY <1>0, <2>1
      <4> QED
        BY <2>2, <2>6, <4>1 DEF Holding
    <3>5. phase'[r] = "held"
      BY <2>2, <3>4, PhaseNext
    <3>6. Strand!Move(r, "fired", "held")
      BY <2>2, <2>5, <3>3, <3>5, OneMove
    <3> QED
      BY <2>2, <3>6, Moved DEF Strand!Next, Strand!Take
  <2>7. CASE Head(cq).op # "READ"
    BY <2>5, <2>7, NoMove
  <2> QED
    BY <2>6, <2>7
<1>2. ASSUME UNCHANGED <<recvs, info>>,
             \A d \in Conns : Queued(d)' = Queued(d),
             \A v \in Workers : v # w => pc'[v] = pc[v] /\ cur'[v] = cur[v],
             \A d \in Conns : Holding(w, d)' <=> Holding(w, d)
      PROVE  [Strand!Next]_phase
  <2>1. \A d \in Conns : \A v \in Workers : Holding(v, d)' <=> Holding(v, d)
    BY <1>2 DEF Holding
  <2>2. \A d \in Conns : phase'[d] = phase[d]
    BY <1>2, <2>1, PhaseSame
  <2> QED
    BY <2>2, NoMove
<1>3. CASE DerefWrite(w)
  BY <1>0, <1>2, <1>3, QueuedSame
  DEF DerefWrite, Again, Holding, kernel, heap
<1>4. CASE DerefEof(w) \/ DerefMessage(w) \/ Broadcast(w) \/ BroadcastEnds(w)
  BY <1>0, <1>2, <1>4, QueuedSame
  DEF DerefEof, DerefMessage, Broadcast, BroadcastEnds, Goto, Holding,
      kernel, heap
<1>5. CASE CloseSocket(w)
  <2>1. /\ pc[w] = "close" /\ pc' = [pc EXCEPT ![w] = "delete"]
        /\ UNCHANGED <<cur, recvs, info>> /\ Cancel(c)
    BY <1>5 DEF CloseSocket, Goto, heap
  <2>2. c \in Conns
    BY <1>0, <2>1 DEF Shape, Completion
  <2>3. \A d \in Conns : Queued(d)' = Queued(d)
    BY <1>0, <2>1, <2>2, QueuedWrites
  <2> QED
    BY <1>0, <1>2, <2>1, <2>3 DEF Holding
<1>6. CASE Find(w) \/ Shift(w) \/ CountLoad(w) \/ CountStore(w)
  BY <1>0, <1>2, <1>6, QueuedSame
  DEF Find, Shift, CountLoad, CountStore, Again, Goto, Holding, kernel, heap
<1>7. ASSUME c \in Conns, Holding(w, c), pc'[w] \in {"get", "find"},
             UNCHANGED cq,
             \A v \in Workers : v # w => pc'[v] = pc[v] /\ cur'[v] = cur[v],
             \A d \in Conns : d # c => recvs'[d] = recvs[d] /\ info'[d] = info[d],
             NEW to, recvs'[c] > 0 => to = "armed",
             recvs'[c] = 0 => to = "over" /\ info'[c] # "none"
      PROVE  Strand!Move(c, "held", to)
  <2>1. \A d \in Conns : Queued(d)' = Queued(d)
    BY <1>7, QueuedSame
  <2>2. \A d \in Conns : ~Holding(w, d)'
    BY <1>7 DEF Holding
  <2>3. \A d \in Conns : \A v \in Workers :
           v # w => (Holding(v, d)' <=> Holding(v, d))
    BY <1>7 DEF Holding
  <2>4. \A d \in Conns : d # c => ~Holding(w, d)
    BY <1>7 DEF Holding
  <2>5. Queued(c) = {} /\ \A v \in Workers : Holding(v, c) => v = w
    BY <1>0, <1>7 DEF Good, Alone
  <2>6. \A d \in Conns : d # c => phase'[d] = phase[d]
    BY <1>7, <2>1, <2>2, <2>3, <2>4, PhaseSame
  <2>7. phase[c] = "held"
    BY <1>7, PhaseOf
  <2>8. phase'[c] = to
    <3>1. recvs'[c] \in Nat
      BY <1>7 DEF ReceiveInv, Typed, TypeOK
    <3> QED
      BY <1>7, <2>1, <2>2, <2>3, <2>5, <3>1 DEF phase
  <2> QED
    BY <1>7, <2>6, <2>7, <2>8, OneMove
<1>8. CASE Rearm(w)
  <2>1. /\ pc[w] = "rearm" /\ pc' = [pc EXCEPT ![w] = "get"]
        /\ cur' = [cur EXCEPT ![w] = None]
        /\ UNCHANGED <<cq, info>> /\ PostReceive(c)
    BY <1>8 DEF Rearm, Again, heap
  <2>2. c \in Conns /\ Holding(w, c) /\ info[c] = "live" /\ recvs[c] = 0
    BY <1>0, <2>1 DEF Shape, Completion, Holding, Good, Alone, KeyKept
  <2>3. /\ recvs'[c] \in {0, 1}
        /\ \A d \in Conns : d # c => recvs'[d] = recvs[d]
    BY <1>0, <2>1, <2>2 DEF PostReceive
  <2>4. /\ pc'[w] = "get"
        /\ \A v \in Workers : v # w => pc'[v] = pc[v] /\ cur'[v] = cur[v]
    BY <1>0, <2>1
  <2>5. Strand!Move(c, "held", IF recvs'[c] = 0 THEN "over" ELSE "armed")
    BY <1>7, <2>1, <2>2, <2>3, <2>4
  <2> QED
    BY <2>2, <2>5, Moved DEF Strand!Next, Strand!GiveBack, Strand!GiveUp
<1>9. CASE DeleteInfo(w)
  <2>1. /\ pc[w] = "delete" /\ pc' = [pc EXCEPT ![w] = "find"]
        /\ info' = [info EXCEPT ![c] = "freed"]
        /\ UNCHANGED <<cur, cq, recvs>>
    BY <1>9 DEF DeleteInfo, Goto, kernel
  <2>2. c \in Conns /\ Holding(w, c) /\ recvs[c] = 0
    BY <1>0, <2>1 DEF Shape, Completion, Holding, Good, Alone
  <2>3. /\ pc'[w] = "find" /\ info'[c] = "freed"
        /\ \A v \in Workers : v # w => pc'[v] = pc[v] /\ cur'[v] = cur[v]
        /\ \A d \in Conns : d # c => info'[d] = info[d]
    BY <1>0, <2>1, <2>2
  <2>4. Strand!Move(c, "held", "over")
    BY <1>7, <2>1, <2>2, <2>3
  <2> QED
    BY <2>2, <2>4, Moved DEF Strand!Next, Strand!GiveUp
<1> QED
  BY <1>1, <1>3, <1>4, <1>5, <1>6, <1>8, <1>9 DEF Worker

\* AcceptRoutine and EchoThreadMain together implement ReceiveStrand: whatever
\* the other threads do, a connection goes from posted receive to queued
\* result to one handling thread and back, and once given up stays so.
THEOREM StrandRefines == Spec => StrandSpec
<1>1. Init => Strand!Init
  <2> SUFFICES ASSUME Init PROVE Strand!Init
    OBVIOUS
  <2>1. \A c \in Conns : phase[c] = "new"
    <3>1. ReceiveInv
      BY ReceiveInit
    <3>2. \A c \in Conns : /\ recvs[c] = 0 /\ Queued(c) = {} /\ info[c] = "none"
                           /\ \A w \in Workers : ~Holding(w, c)
      BY DEF Init, Queued, Holding
    <3> QED
      BY <3>1, <3>2, PhaseOf
  <2>2. phase = [c \in Conns |-> phase[c]]
    BY DEF phase
  <2> QED
    BY <2>1, <2>2 DEF Strand!Init
<1>2. ReceiveInv /\ ReceiveInv' /\ [Next]_vars => [Strand!Next]_phase
  <2> SUFFICES ASSUME ReceiveInv, ReceiveInv', [Next]_vars
               PROVE  [Strand!Next]_phase
    OBVIOUS
  <2>1. CASE Next
    BY <2>1, StrandMain, StrandWorker, StrandNetwork DEF Next
  <2>2. CASE UNCHANGED vars
    BY <2>2 DEF phase, Queued, Holding, vars, kernel, heap, workers
  <2> QED
    BY <2>1, <2>2
<1> QED
  BY <1>1, <1>2, ReceiveAlways, PTL DEF Spec, StrandSpec, Strand!Spec
=============================================================================
