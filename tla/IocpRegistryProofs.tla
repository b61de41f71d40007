------------------------- MODULE IocpRegistryProofs -------------------------
(* Theorems about the unprotected client registry of IocpChatServer, which   *)
(* is right as long as no two updates of it overlap.                         *)
EXTENDS IocpChatServerProofs, FiniteSetTheorems

\* clntArr has a slot for every SOCKET the process can have open.
Room == IsFiniteSet(Handles) /\ Cardinality(Handles) <= MaxClnt

-----------------------------------------------------------------------------
(* Which connection a handle denotes.                                        *)

\* The input of c is on its way, or in the hands of somebody who has not
\* closed the socket.
Alive(c) ==
    \/ Arming(c) \/ recvs[c] > 0 \/ Queued(c) # {}
    \/ \E w \in Workers : Holding(w, c) /\ pc[w] # "delete"

\* A handle denotes an accepted connection that knows it; a connection whose
\* input is on its way has not been closed.
Handled ==
    /\ \A h \in Handles : owner[h] # NoConn =>
          hClntSock[owner[h]] = h /\ peer[owner[h]] # "none"
    /\ \A c \in Conns : Alive(c) =>
          hClntSock[c] \in Handles /\ owner[hClntSock[c]] = c

\* What the steps of the system do to the handles.
LEMMA HandlesStep ==
    ASSUME Typed, Next
    PROVE  \/ UNCHANGED <<owner, hClntSock>>
           \/ \E c \in Conns, h \in Handles : Accept(c, h)
           \/ \E w \in Workers : CloseSocket(w)
<1>1. CASE Main
  BY <1>1 DEF Main, RegisterLoad, RegisterStore, Arm, kernel, heap
<1>2. ASSUME NEW w \in Workers, Worker(w), ~CloseSocket(w)
      PROVE  UNCHANGED <<owner, hClntSock>>
  BY <1>2
  DEF Worker, GetCompletion, DerefWrite, DerefEof, DerefMessage, Broadcast,
      BroadcastEnds, Rearm, DeleteInfo, Find, Shift, CountLoad, CountStore,
      kernel, heap
<1>3. ASSUME NEW c \in Conns,
             Client(c) \/ ReceiveCompletes(c) \/ SendCompletes(c)
      PROVE  UNCHANGED <<owner, hClntSock>>
  BY <1>3 DEF Client, ClientSend, ClientShut, ClientReset, ReceiveCompletes,
              SendCompletes, heap
<1> QED
  BY <1>1, <1>2, <1>3 DEF Next

\* A client that has connected once stays known to the network.
LEMMA PeerStep ==
    ASSUME Typed, Next, NEW c \in Conns, peer[c] # "none"
    PROVE  peer'[c] # "none"
<1>0. peer \in [Conns -> {"none", "open", "shut", "reset"}]
  BY DEF Typed, TypeOK
<1>1. CASE Main
  BY <1>0, <1>1 DEF Main, Accept, RegisterLoad, RegisterStore, Arm, kernel
<1>2. ASSUME NEW w \in Workers, Worker(w) PROVE UNCHANGED peer
  BY <1>2
  DEF Worker, GetCompletion, DerefWrite, DerefEof, DerefMessage, Broadcast,
      BroadcastEnds, Rearm, CloseSocket, DeleteInfo, Find, Shift, CountLoad,
      CountStore, kernel
<1>3. ASSUME NEW d \in Conns,
             Client(d) \/ ReceiveCompletes(d) \/ SendCompletes(d)
      PROVE  peer'[c] # "none"
  BY <1>0, <1>3 DEF Client, ClientSend, ClientShut, ClientReset,
                    ReceiveCompletes, SendCompletes
<1> QED
  BY <1>1, <1>2, <1>3 DEF Next

\* The input of a connection is never on its way again once it was not, except
\* when it is accepted.
LEMMA AliveStep ==
    ASSUME Typed, Next, NEW d \in Conns, Alive(d)'
    PROVE  Alive(d) \/ \E h \in Handles : Accept(d, h)
<1>0. /\ recvs \in [Conns -> Nat] /\ Shape
      /\ cur \in [Workers -> Completion \cup {None}]
  BY DEF Typed, TypeOK
<1>1. ASSUME Arming(d)', ~Arming(d)
      PROVE  \E h \in Handles : Accept(d, h)
  <2>1. CASE UNCHANGED <<mpc, reg>>
    BY <1>1, <2>1 DEF Arming
  <2>2. CASE Main
    <3>1. CASE RegisterLoad \/ Arm
               \/ \E what \in {"slot", "count"} : RegisterStore(what)
      <4>1. mpc # "accept" /\ (mpc' = "accept" \/ reg'.conn = reg.conn)
        BY <3>1 DEF RegisterLoad, RegisterStore, Arm, Typed, TypeOK
      <4> QED
        BY <1>1, <4>1 DEF Arming
    <3>2. ASSUME NEW c \in Conns, NEW h \in Handles, Accept(c, h)
          PROVE  Accept(d, h)
      <4>1. reg'.conn = c
        BY <3>2 DEF Accept, Typed, TypeOK
      <4> QED
        BY <1>1, <3>2, <4>1 DEF Arming
    <3> QED
      BY <2>2, <3>1, <3>2 DEF Main
  <2>3. ASSUME NEW w \in Workers, Worker(w) PROVE UNCHANGED <<mpc, reg>>
    BY <2>3
    DEF Worker, GetCompletion, DerefWrite, DerefEof, DerefMessage, Broadcast,
        BroadcastEnds, Rearm, CloseSocket, DeleteInfo, Find, Shift,
        CountLoad, CountStore, main
  <2>4. ASSUME NEW c \in Conns,
               Client(c) \/ ReceiveCompletes(c) \/ SendCompletes(c)
        PROVE  UNCHANGED <<mpc, reg>>
    BY <2>4 DEF Client, ClientSend, ClientShut, ClientReset,
                ReceiveCompletes, SendCompletes, main
  <2> QED
    BY <2>1, <2>2, <2>3, <2>4 DEF Next
<1>2. ASSUME recvs'[d] > 0, ~(recvs[d] > 0) PROVE Alive(d)
  <2>1. CASE UNCHANGED recvs
    BY <1>2, <2>1
  <2>2. CASE Arm
    <3>1. mpc = "arm" /\ PostReceive(reg.conn)
      BY <2>2 DEF Arm
    <3>2. reg.conn = d
      BY <1>0, <1>2, <3>1 DEF PostReceive
    <3> QED
      BY <3>1, <3>2 DEF Alive, Arming
  <2>3. ASSUME NEW w \in Workers, Rearm(w) PROVE Alive(d)
    <3>1. pc[w] = "rearm" /\ PostReceive(cur[w].conn)
      BY <2>3 DEF Rearm
    <3>2. cur[w].conn = d
      BY <1>0, <1>2, <3>1 DEF PostReceive
    <3>3. Holding(w, d)
      BY <1>0, <3>1, <3>2 DEF Shape, Holding
    <3> QED
      BY <3>1, <3>3 DEF Alive
  <2>4. ASSUME NEW c \in Conns, ReceiveCompletes(c) PROVE ~(recvs'[d] > 0)
    BY <1>0, <1>2, <2>4 DEF ReceiveCompletes
  <2>5. CASE Main /\ ~Arm
    BY <2>1, <2>5 DEF Main, Accept, RegisterLoad, RegisterStore, kernel
  <2>6. ASSUME NEW w \in Workers, Worker(w), ~Rearm(w)
        PROVE  UNCHANGED recvs
    BY <2>6
    DEF Worker, GetCompletion, DerefWrite, DerefEof, DerefMessage, Broadcast,
        BroadcastEnds, CloseSocket, DeleteInfo, Find, Shift, CountLoad,
        CountStore, kernel
  <2>7. ASSUME NEW c \in Conns, Client(c) \/ SendCompletes(c)
        PROVE  UNCHANGED recvs
    BY <2>7 DEF Client, ClientSend, ClientShut, ClientReset, SendCompletes
  <2> QED
    BY <1>2, <2>1, <2>2, <2>3, <2>4, <2>5, <2>6, <2>7 DEF Next
<1>3. ASSUME NEW k \in Queued(d)' PROVE Alive(d)
  BY <1>3, QueueStep DEF Alive
<1>4. ASSUME NEW w \in Workers, Holding(w, d)', pc'[w] # "delete"
      PROVE  Alive(d)
  BY <1>4, HeldStep DEF Alive
<1> QED
  BY <1>1, <1>2, <1>3, <1>4 DEF Alive

\* The worker that closes a socket ends the life of the connection.
LEMMA CloseEnds ==
    ASSUME ReceiveInv, ReceiveInv', NEW w \in Workers, CloseSocket(w)
    PROVE  \E c \in Conns : c = cur[w].conn /\ Alive(c) /\ ~Alive(c)'
<1>0. PICK c \in Conns : c = cur[w].conn
  <2>1. pc[w] = "close"
    BY DEF CloseSocket
  <2>2. cur[w] \in Completion
    BY <2>1 DEF ReceiveInv, Typed, Shape
  <2> QED
    BY <2>2 DEF Completion
<1>1. /\ pc[w] = "close" /\ pc' = [pc EXCEPT ![w] = "delete"]
      /\ UNCHANGED <<cur, recvs, mpc, reg>> /\ Cancel(c)
  BY <1>0 DEF CloseSocket, Goto, main
<1>2. c \in Conns /\ Holding(w, c)
  BY <1>0, <1>1 DEF ReceiveInv, Typed, Shape, Holding
<1>3. pc'[w] = "delete"
  BY <1>1 DEF ReceiveInv, Typed, TypeOK
<1>4. Holding(w, c)'
  BY <1>1, <1>2, <1>3 DEF Holding
<1>5. Good(c)'
  BY <1>2 DEF ReceiveInv
<1>6. /\ ~Arming(c)' /\ recvs'[c] = 0 /\ Queued(c)' = {}
      /\ \A v \in Workers : Holding(v, c)' => v = w
  BY <1>4, <1>5 DEF Good, Alone
<1>7. ~(recvs'[c] > 0)
  BY <1>6
<1>8. ~Alive(c)'
  BY <1>3, <1>6, <1>7 DEF Alive
<1>9. Alive(c)
  BY <1>1, <1>2 DEF Alive
<1> QED
  BY <1>0, <1>8, <1>9

LEMMA HandledStep ==
    ASSUME ReceiveInv, ReceiveInv', Handled, Next
    PROVE  Handled'
<1>0. /\ Typed /\ owner \in [Handles -> Conns \cup {NoConn}]
      /\ hClntSock \in [Conns -> Handles \cup {NoHandle}]
  BY DEF ReceiveInv, Typed, TypeOK
<1>1. CASE /\ UNCHANGED <<owner, hClntSock>>
           /\ \A d \in Conns : Alive(d)' => Alive(d)
  <2>1. \A h \in Handles : owner[h] # NoConn => owner[h] \in Conns
    BY <1>0
  <2> QED
    BY <1>0, <1>1, <2>1, PeerStep DEF Handled
<1>2. ASSUME NEW c \in Conns, NEW h \in Handles, Accept(c, h)
      PROVE  Handled'
  <2>1. /\ peer[c] = "none" /\ owner[h] = NoConn
        /\ owner' = [owner EXCEPT ![h] = c]
        /\ hClntSock' = [hClntSock EXCEPT ![c] = h]
        /\ peer' = [peer EXCEPT ![c] = "open"]
    BY <1>2 DEF Accept
  <2>2. /\ owner'[h] = c /\ hClntSock'[c] = h /\ peer'[c] # "none"
        /\ \A g \in Handles : g # h => owner'[g] = owner[g]
        /\ \A d \in Conns : d # c => hClntSock'[d] = hClntSock[d]
    BY <1>0, <2>1 DEF Typed, TypeOK
  <2>3. ASSUME NEW g \in Handles, g # h, owner'[g] # NoConn
        PROVE  hClntSock'[owner'[g]] = g /\ peer'[owner'[g]] # "none"
    <3>1. owner'[g] = owner[g] /\ owner[g] \in Conns
      BY <1>0, <2>2, <2>3
    <3>2. hClntSock[owner[g]] = g /\ peer[owner[g]] # "none"
      BY <2>3, <3>1 DEF Handled
    <3>3. owner[g] # c
      BY <2>1, <3>2
    <3> QED
      BY <1>0, <1>2, <2>2, <3>1, <3>2, <3>3, PeerStep
  <2>4. ASSUME NEW d \in Conns, d # c, Alive(d)'
        PROVE  hClntSock'[d] \in Handles /\ owner'[hClntSock'[d]] = d
    <3>1. ~\E g \in Handles : Accept(d, g)
      <4> SUFFICES ASSUME NEW g \in Handles, Accept(d, g) PROVE FALSE
        OBVIOUS
      <4>1. reg'.conn = d
        BY DEF Accept, ReceiveInv, Typed, TypeOK
      <4>2. reg'.conn = c
        BY <1>2 DEF Accept, ReceiveInv, Typed, TypeOK
      <4> QED
        BY <2>4, <4>1, <4>2
    <3>2. Alive(d)
      BY <1>0, <2>4, <3>1, AliveStep
    <3>3. hClntSock[d] \in Handles /\ owner[hClntSock[d]] = d /\ d # NoConn
      BY <3>2, NullAssumption DEF Handled
    <3>4. hClntSock[d] # h
      BY <2>1, <3>3
    <3> QED
      BY <2>2, <2>4, <3>3, <3>4
  <2> QED
    BY <2>2, <2>3, <2>4 DEF Handled
<1>3. ASSUME NEW w \in Workers, CloseSocket(w)
      PROVE  Handled'
  <2>0. PICK c \in Conns : c = cur[w].conn /\ Alive(c) /\ ~Alive(c)'
    BY <1>3, CloseEnds
  <2>1. /\ owner' = [h \in Handles |-> IF h = hClntSock[c] THEN NoConn
                                       ELSE owner[h]]
        /\ UNCHANGED <<hClntSock, peer>>
        /\ ~\E d \in Conns, g \in Handles : Accept(d, g)
    <3>1. /\ owner' = [h \in Handles |-> IF h = hClntSock[c] THEN NoConn
                                         ELSE owner[h]]
          /\ UNCHANGED <<hClntSock, peer, mpc>>
      BY <1>3, <2>0 DEF CloseSocket, heap, main
    <3>2. ~\E d \in Conns, g \in Handles : Accept(d, g)
      BY <3>1 DEF Accept
    <3> QED
      BY <3>1, <3>2
  <2>2. c \in Conns /\ Alive(c) /\ ~Alive(c)'
    BY <2>0
  <2>3. ASSUME NEW d \in Conns, Alive(d)'
        PROVE  hClntSock'[d] \in Handles /\ owner'[hClntSock'[d]] = d
    <3>1. Alive(d) /\ d # c
      BY <1>0, <2>1, <2>2, <2>3, AliveStep
    <3>2. /\ hClntSock[d] \in Handles /\ owner[hClntSock[d]] = d
          /\ owner[hClntSock[c]] = c
      BY <2>2, <3>1 DEF Handled
    <3> QED
      BY <2>1, <3>1, <3>2
  <2>4. \A h \in Handles : owner'[h] # NoConn => owner'[h] = owner[h]
    BY <2>1
  <2> QED
    BY <2>1, <2>3, <2>4 DEF Handled
<1>4. CASE ~(\E c \in Conns, h \in Handles : Accept(c, h))
           /\ ~(\E w \in Workers : CloseSocket(w))
  <2>1. UNCHANGED <<owner, hClntSock>>
    BY <1>0, <1>4, HandlesStep
  <2>2. \A d \in Conns : Alive(d)' => Alive(d)
    BY <1>0, <1>4, AliveStep
  <2> QED
    BY <1>1, <2>1, <2>2
<1> QED
  BY <1>2, <1>3, <1>4

-----------------------------------------------------------------------------
(* The registry.                                                             *)

\* One update at a time.
Exclusive ==
    ~overlap =>
       /\ mpc \in {"load", "store"} => \A w \in Workers : pc[w] \notin Leaving
       /\ \A v, w \in Workers : pc[v] \in Leaving /\ pc[w] \in Leaving => v = w

\* The slots in K list the clients in S, each once.
Lists(K, S) ==
    /\ \A k \in K : \E c \in S : clntArr[k] = hClntSock[c]
    /\ \A c \in S : \E k \in K : clntArr[k] = hClntSock[c]
    /\ \A k, l \in K : clntArr[k] = clntArr[l] => k = l

\* The slots that still count while worker w closes the gap at idx[w].
Kept(w) == IF idx[w] < numOfClnt THEN (0 .. numOfClnt - 1) \ {idx[w]}
           ELSE 0 .. numOfClnt - 2

\* The clients whose registration is complete.
Registered ==
    Connected \ (IF mpc \in {"load", "store"} THEN {reg.conn} ELSE {})

\* How many slots of the registry are in order while no removal is under way.
Length == IF mpc = "store" THEN reg.at ELSE numOfClnt

\* No removal under way: at most the last client is being added.
Standing ==
    (\A w \in Workers : pc[w] \notin Leaving) =>
       /\ Length = Cardinality(Registered)
       /\ Lists(0 .. Length - 1, Registered)
       /\ mpc = "store" =>
             /\ reg.todo # {}
             /\ numOfClnt = IF "count" \in reg.todo THEN reg.at ELSE reg.at + 1
             /\ "slot" \notin reg.todo => clntArr[reg.at] = hClntSock[reg.conn]

\* Worker w is removing the client it has closed.
Removing(w) ==
    LET c == cur[w].conn IN
    /\ c \notin Connected /\ numOfClnt = Cardinality(Connected) + 1
    /\ hClntSock[c] \in Handles /\ owner[hClntSock[c]] = NoConn
    /\ pc[w] \in {"delete", "find"} =>
          /\ Lists(0 .. numOfClnt - 1, Connected \cup {c})
          /\ idx[w] <= numOfClnt
          /\ \A k \in 0 .. idx[w] - 1 : clntArr[k] # hClntSock[c]
    /\ pc[w] = "shift" => idx[w] <= numOfClnt /\ Lists(Kept(w), Connected)
    /\ pc[w] \in {"load", "store"} => Lists(0 .. numOfClnt - 2, Connected)
    /\ pc[w] = "store" => cnt[w] = numOfClnt

InRegistry ==
    ~overlap =>
       /\ numOfClnt \in 0 .. MaxClnt
       /\ Standing
       /\ \A w \in Workers : pc[w] \in Leaving => Removing(w)

\* A worker starts each of its loops at slot 0.
IndexZero ==
    \A w \in Workers : pc[w] \in {"get", "deref", "close"} => idx[w] = 0

\* A worker in EchoThreadMain moves from one place in it to another.
LEMMA WorkerMoves ==
    ASSUME Typed, NEW w \in Workers, Worker(w)
    PROVE  /\ \A v \in Workers : v # w => /\ pc'[v] = pc[v]
                                        /\ cur'[v] = cur[v]
                                        /\ idx'[v] = idx[v]
                                        /\ cnt'[v] = cnt[v]
           /\ UNCHANGED <<mpc, reg, hClntSock>>
           /\ overlap => overlap'
           /\ ~CloseSocket(w) => UNCHANGED <<owner, overlap>>
           /\ pc'[w] \in Leaving /\ pc[w] \notin Leaving => CloseSocket(w)
<1>0. /\ pc \in [Workers -> {"get", "deref", "send", "rearm", "close"}
                            \cup Leaving]
      /\ cur \in [Workers -> Completion \cup {None}]
      /\ idx \in [Workers -> Nat] /\ cnt \in [Workers -> Int]
  BY DEF Typed, TypeOK
<1>1. \A v \in Workers : v # w => /\ pc'[v] = pc[v] /\ cur'[v] = cur[v]
                                 /\ idx'[v] = idx[v] /\ cnt'[v] = cnt[v]
  BY <1>0
  DEF Worker, GetCompletion, DerefWrite, DerefEof, DerefMessage, Broadcast,
      BroadcastEnds, Rearm, CloseSocket, DeleteInfo, Find, Shift, CountLoad,
      CountStore, Again, Goto
<1>2. UNCHANGED <<mpc, reg, hClntSock>>
  BY DEF Worker, GetCompletion, DerefWrite, DerefEof, DerefMessage, Broadcast,
         BroadcastEnds, Rearm, CloseSocket, DeleteInfo, Find, Shift,
         CountLoad, CountStore, main, heap
<1>3. ~CloseSocket(w) => UNCHANGED <<owner, overlap>>
  BY DEF Worker, GetCompletion, DerefWrite, DerefEof, DerefMessage, Broadcast,
         BroadcastEnds, Rearm, DeleteInfo, Find, Shift, CountLoad, CountStore,
         Again, kernel, history
<1>4. CloseSocket(w) => (overlap => overlap')
  BY DEF CloseSocket
<1>5. ASSUME pc[w] \notin Leaving, ~CloseSocket(w)
      PROVE  pc'[w] \notin Leaving
  BY <1>0, <1>5
  DEF Worker, GetCompletion, DerefWrite, DerefEof, DerefMessage, Broadcast,
      BroadcastEnds, Rearm, DeleteInfo, Find, Shift, CountLoad, CountStore,
      Again, Goto, Leaving
<1> QED
  BY <1>1, <1>2, <1>3, <1>4, <1>5

\* Neither a client nor the kernel touches what the program keeps.
LEMMA NetworkKeeps ==
    ASSUME NEW c \in Conns,
           Client(c) \/ ReceiveCompletes(c) \/ SendCompletes(c)
    PROVE  UNCHANGED <<heap, registry, main, workers, history, owner>>
BY DEF Client, ClientSend, ClientShut, ClientReset, ReceiveCompletes,
       SendCompletes

\* The main thread does not touch what the workers keep.
LEMMA MainKeeps ==
    ASSUME Main
    PROVE  /\ UNCHANGED <<workers, due, shaken>>
           /\ overlap => overlap'
           /\ mpc' = "load" => \E c \in Conns, h \in Handles : Accept(c, h)
           /\ mpc' = "store" => mpc \in {"load", "store"} /\ UNCHANGED overlap
<1>1. ASSUME NEW c \in Conns, NEW h \in Handles, Accept(c, h)
      PROVE  UNCHANGED <<workers, due, shaken>> /\ mpc' = "load"
             /\ (overlap => overlap')
  BY <1>1 DEF Accept
<1>2. CASE RegisterLoad \/ Arm
  BY <1>2 DEF RegisterLoad, Arm, history
<1>3. ASSUME NEW what \in {"slot", "count"}, RegisterStore(what)
      PROVE  /\ UNCHANGED <<workers, history>> /\ mpc = "store"
             /\ mpc' \in {"store", "arm"}
  BY <1>3 DEF RegisterStore
<1> QED
  BY <1>1, <1>2, <1>3 DEF Main, history

LEMMA ExclusiveStep ==
    ASSUME Typed, Exclusive, [Next]_vars
    PROVE  Exclusive'
<1>1. CASE Main
  <2>1. UNCHANGED pc
    BY <1>1, MainKeeps DEF workers
  <2>2. ASSUME NEW c \in Conns, NEW h \in Handles, Accept(c, h), ~overlap'
        PROVE  \A w \in Workers : pc[w] \notin Leaving
    BY <2>2 DEF Accept
  <2> QED
    BY <1>1, <2>1, <2>2, MainKeeps DEF Exclusive
<1>2. ASSUME NEW w \in Workers, Worker(w) PROVE Exclusive'
  <2>1. CASE CloseSocket(w)
    <3>1. ~overlap' => /\ mpc \notin {"load", "store"}
                       /\ \A v \in Workers : pc[v] \notin Leaving
      BY <2>1 DEF CloseSocket
    <3> QED
      BY <1>2, <3>1, WorkerMoves DEF Exclusive
  <2>2. CASE ~CloseSocket(w)
    <3>1. \A v \in Workers : pc'[v] \in Leaving => pc[v] \in Leaving
      BY <1>2, <2>2, WorkerMoves
    <3> QED
      BY <1>2, <2>2, <3>1, WorkerMoves DEF Exclusive
  <2> QED
    BY <2>1, <2>2
<1>3. ASSUME NEW c \in Conns,
             Client(c) \/ ReceiveCompletes(c) \/ SendCompletes(c)
      PROVE  Exclusive'
  BY <1>3, NetworkKeeps DEF Exclusive, main, workers, history
<1>4. CASE UNCHANGED vars
  BY <1>4 DEF Exclusive, vars, main, workers, history
<1> QED
  BY <1>1, <1>2, <1>3, <1>4 DEF Next

LEMMA IndexZeroStep ==
    ASSUME Typed, IndexZero, [Next]_vars
    PROVE  IndexZero'
<1>0. /\ pc \in [Workers -> {"get", "deref", "send", "rearm", "close"}
                            \cup Leaving]
      /\ idx \in [Workers -> Nat]
  BY DEF Typed, TypeOK
<1>1. CASE Main
  BY <1>1, MainKeeps DEF IndexZero, workers
<1>2. ASSUME NEW w \in Workers, Worker(w) PROVE IndexZero'
  <2>1. pc'[w] \in {"get", "deref", "close"} => idx'[w] = 0
    BY <1>0, <1>2
    DEF Worker, GetCompletion, DerefWrite, DerefEof, DerefMessage, Broadcast,
        BroadcastEnds, Rearm, CloseSocket, DeleteInfo, Find, Shift,
        CountLoad, CountStore, Again, Goto, Leaving, IndexZero
  <2> QED
    BY <1>2, <2>1, WorkerMoves DEF IndexZero
<1>3. ASSUME NEW c \in Conns,
             Client(c) \/ ReceiveCompletes(c) \/ SendCompletes(c)
      PROVE  IndexZero'
  BY <1>3, NetworkKeeps DEF IndexZero, workers
<1>4. CASE UNCHANGED vars
  BY <1>4 DEF IndexZero, vars, workers
<1> QED
  BY <1>1, <1>2, <1>3, <1>4 DEF Next

-----------------------------------------------------------------------------
(* Clients and handles correspond one to one.                                *)

LEMMA Known ==
    ASSUME Typed, Handled, NEW c \in Connected
    PROVE  /\ c \in Conns /\ c # NoConn /\ peer[c] # "none"
           /\ hClntSock[c] \in Handles /\ owner[hClntSock[c]] = c
<1>1. PICK h \in Handles : owner[h] = c
  BY DEF Connected
<1>2. c \in Conns /\ c # NoConn
  BY NullAssumption DEF Connected
<1>3. hClntSock[c] = h /\ peer[c] # "none"
  BY <1>1, <1>2 DEF Handled
<1> QED
  BY <1>1, <1>2, <1>3

LEMMA LivingConnected ==
    ASSUME Typed, Handled, NEW c \in Conns, Alive(c)
    PROVE  c \in Connected
BY DEF Handled, Connected

\* There is no more to register than clntArr has slots.
LEMMA ConnectedFits ==
    ASSUME Room, Typed, Handled
    PROVE  /\ IsFiniteSet(Connected)
           /\ Cardinality(Connected) \in 0 .. MaxClnt
<1> DEFINE g == [c \in Connected |-> hClntSock[c]]
<1>1. /\ g \in [Connected -> Handles]
      /\ \A c, d \in Connected : g[c] = g[d] => c = d
  BY Known
<1>2. g \in Injection(Connected, Handles)
  BY <1>1 DEF Injection, IsInjective
<1>3. IsFiniteSet(Connected) /\ Cardinality(Connected) <= Cardinality(Handles)
  BY <1>2, FS_Injection DEF Room
<1>4. Cardinality(Connected) \in Nat /\ Cardinality(Handles) \in Nat
  BY <1>3, FS_CardinalityType DEF Room
<1> QED
  BY <1>3, <1>4, RoomAssumption DEF Room

\* The client being registered is connected, but not registered.
LEMMA RegisteringConnected ==
    ASSUME Room, Typed, Handled, mpc \in {"load", "store"}
    PROVE  /\ reg.conn \in Connected /\ Registered = Connected \ {reg.conn}
           /\ Connected = Registered \cup {reg.conn}
           /\ Cardinality(Registered) \in 0 .. MaxClnt - 1
           /\ Cardinality(Connected) = Cardinality(Registered) + 1
<1>1. reg.conn \in Conns /\ Alive(reg.conn)
  BY DEF Typed, Shape, Alive, Arming
<1>2. reg.conn \in Connected /\ Registered = Connected \ {reg.conn}
  BY <1>1, LivingConnected DEF Registered
<1>3. Cardinality(Registered) = Cardinality(Connected) - 1
  BY <1>2, ConnectedFits, FS_RemoveElement
<1>4. IsFiniteSet(Registered) /\ Cardinality(Registered) \in Nat
  BY <1>2, ConnectedFits, FS_RemoveElement, FS_CardinalityType
<1>5. Connected = Registered \cup {reg.conn}
  BY <1>2
<1>6. Cardinality(Connected) \in 0 .. MaxClnt /\ MaxClnt \in Nat
  BY ConnectedFits, RoomAssumption
<1> QED
  BY <1>2, <1>3, <1>4, <1>5, <1>6

-----------------------------------------------------------------------------
(* The main thread adds a client.                                            *)

LEMMA AcceptListed ==
    ASSUME Typed, Handled, InRegistry,
           NEW c \in Conns, NEW h \in Handles, Accept(c, h)
    PROVE  InRegistry'
<1> SUFFICES ASSUME ~overlap' PROVE InRegistry'
  BY DEF InRegistry
<1>1. /\ mpc = "accept" /\ mpc' = "load" /\ reg'.conn = c
      /\ peer[c] = "none" /\ owner[h] = NoConn
      /\ owner' = [owner EXCEPT ![h] = c]
      /\ hClntSock' = [hClntSock EXCEPT ![c] = h]
      /\ UNCHANGED <<clntArr, numOfClnt, pc>>
      /\ ~overlap /\ \A w \in Workers : pc[w] \notin Leaving
  BY DEF Accept, registry, workers, Typed, TypeOK
<1>2. Registered = Connected /\ c \notin Connected
  BY <1>1, Known DEF Registered
<1>3. \A e \in Conns : e \in Connected' => e \in Connected \/ e = c
  BY <1>1 DEF Connected, Typed, TypeOK
<1>4. \A e \in Connected : e \in Conns /\ e \in Connected'
  <2> SUFFICES ASSUME NEW e \in Connected PROVE e \in Conns /\ e \in Connected'
    OBVIOUS
  <2>1. e \in Conns /\ hClntSock[e] \in Handles /\ owner[hClntSock[e]] = e
        /\ e # NoConn
    BY Known
  <2>2. owner'[hClntSock[e]] = e
    BY <1>1, <2>1 DEF Typed, TypeOK
  <2> QED
    BY <2>1, <2>2 DEF Connected
<1>5. Connected' \subseteq Conns
  BY DEF Connected
<1>6. Registered' = Connected
  BY <1>1, <1>2, <1>3, <1>4, <1>5 DEF Registered
<1>7. \A e \in Connected : hClntSock'[e] = hClntSock[e]
  BY <1>1, <1>2, <1>4 DEF Typed, TypeOK
<1>8. Length = numOfClnt /\ Length' = numOfClnt
  BY <1>1 DEF Length
<1>9. /\ numOfClnt \in 0 .. MaxClnt
      /\ numOfClnt = Cardinality(Connected)
      /\ Lists(0 .. numOfClnt - 1, Connected)
  BY <1>1, <1>2, <1>8 DEF InRegistry, Standing
<1> QED
  BY <1>1, <1>6, <1>7, <1>8, <1>9 DEF InRegistry, Standing, Lists

LEMMA RegisterListed ==
    ASSUME Room, Typed, Handled, Exclusive, InRegistry,
           RegisterLoad \/ \E what \in {"slot", "count"} : RegisterStore(what)
    PROVE  InRegistry'
<1> SUFFICES ASSUME ~overlap' PROVE InRegistry'
  BY DEF InRegistry
<1>1. /\ mpc \in {"load", "store"} /\ ~overlap
      /\ UNCHANGED <<owner, hClntSock, pc>>
      /\ reg'.conn = reg.conn
  BY DEF RegisterLoad, RegisterStore, kernel, heap, workers, history,
         Typed, TypeOK
<1>2. /\ \A w \in Workers : pc[w] \notin Leaving /\ pc'[w] \notin Leaving
      /\ numOfClnt \in 0 .. MaxClnt /\ Standing
  BY <1>1 DEF Exclusive, InRegistry
<1>3. Connected' = Connected
  BY <1>1 DEF Connected
<1>4. /\ Length = Cardinality(Registered)
      /\ Lists(0 .. Length - 1, Registered)
      /\ mpc = "store" =>
            /\ reg.todo # {}
            /\ numOfClnt = IF "count" \in reg.todo THEN reg.at ELSE reg.at + 1
            /\ "slot" \notin reg.todo => clntArr[reg.at] = hClntSock[reg.conn]
  BY <1>2 DEF Standing
<1>5. /\ reg.conn \in Connected /\ Registered = Connected \ {reg.conn}
      /\ Connected = Registered \cup {reg.conn}
      /\ Cardinality(Registered) \in 0 .. MaxClnt - 1
      /\ Cardinality(Connected) = Cardinality(Registered) + 1
  BY <1>1, RegisteringConnected
<1>6. CASE RegisterLoad
  <2>1. /\ mpc = "load" /\ mpc' = "store" /\ UNCHANGED <<clntArr, numOfClnt>>
        /\ reg'.at = numOfClnt /\ reg'.todo = {"slot", "count"}
    BY <1>6 DEF RegisterLoad, registry, Typed, TypeOK
  <2>2. Length = numOfClnt /\ Length' = numOfClnt /\ Registered' = Registered
    BY <1>1, <1>3, <2>1 DEF Length, Registered
  <2>3. Lists(0 .. Length - 1, Registered)'
    BY <1>1, <1>4, <2>1, <2>2 DEF Lists
  <2>4. Standing'
    BY <1>4, <2>1, <2>2, <2>3 DEF Standing
  <2> QED
    BY <1>2, <2>1, <2>4 DEF InRegistry
<1>7. ASSUME NEW what \in {"slot", "count"}, RegisterStore(what)
      PROVE  InRegistry'
  <2>1. /\ mpc = "store" /\ what \in reg.todo
        /\ reg'.at = reg.at /\ reg'.todo = reg.todo \ {what}
        /\ mpc' = IF reg.todo = {what} THEN "arm" ELSE "store"
        /\ reg.todo \subseteq {"slot", "count"} /\ reg.at \in Int
    BY <1>7 DEF RegisterStore, Typed, TypeOK
  <2>2. Length = reg.at /\ reg.at \in 0 .. MaxClnt - 1
    BY <1>4, <1>5, <2>1 DEF Length
  <2>3. what = "count" => numOfClnt' = reg.at + 1 /\ UNCHANGED clntArr
    BY <1>7 DEF RegisterStore
  <2>4. /\ \A k \in 0 .. reg.at - 1 : clntArr'[k] = clntArr[k]
        /\ what = "slot" => UNCHANGED numOfClnt
        /\ "slot" \notin reg'.todo => clntArr'[reg.at] = hClntSock[reg.conn]
    <3>1. CASE what = "count"
      BY <1>4, <2>1, <2>3, <3>1
    <3>2. CASE what = "slot"
      <4>1. /\ clntArr' = [k \in Slots |-> IF k = reg.at
                                           THEN hClntSock[reg.conn]
                                           ELSE clntArr[k]]
            /\ UNCHANGED numOfClnt
        BY <1>7, <3>2 DEF RegisterStore
      <4>2. /\ reg.at \in Slots
            /\ \A k \in 0 .. reg.at - 1 : k \in Slots /\ k # reg.at
        BY <2>2, RoomAssumption DEF Slots
      <4> QED
        BY <4>1, <4>2
    <3> QED
      BY <3>1, <3>2
  <2>5. /\ numOfClnt' \in 0 .. MaxClnt
        /\ numOfClnt' = IF "count" \in reg'.todo THEN reg.at ELSE reg.at + 1
    <3>1. CASE what = "count"
      <4>1. numOfClnt' = reg.at + 1 /\ "count" \notin reg'.todo
        BY <2>1, <2>3, <3>1
      <4> QED
        BY <2>2, <4>1, RoomAssumption
    <3>2. CASE what = "slot"
      <4>1. /\ numOfClnt' = numOfClnt
            /\ "count" \in reg'.todo <=> "count" \in reg.todo
        BY <2>1, <2>4, <3>2
      <4> QED
        BY <1>2, <1>4, <2>1, <4>1
    <3> QED
      BY <3>1, <3>2
  <2>6. CASE mpc' = "store"
    <3>1. Length' = reg.at /\ Registered' = Registered /\ reg'.todo # {}
      BY <1>1, <1>3, <2>1, <2>6 DEF Length, Registered
    <3>2. Lists(0 .. Length - 1, Registered)'
      BY <1>1, <1>4, <2>2, <2>4, <3>1 DEF Lists
    <3> QED
      BY <1>1, <1>2, <1>4, <2>1, <2>2, <2>4, <2>5, <2>6, <3>1, <3>2
      DEF InRegistry, Standing
  <2>7. CASE mpc' = "arm"
    <3>1. /\ Length' = reg.at + 1 /\ Registered' = Connected
          /\ clntArr'[reg.at] = hClntSock[reg.conn]
      BY <1>3, <2>1, <2>4, <2>5, <2>7 DEF Length, Registered
    <3>2. \A c \in Registered : hClntSock[c] # hClntSock[reg.conn]
      BY <1>5, Known
    <3>3. Lists(0 .. Length - 1, Registered)'
      <4>1. \A k \in 0 .. reg.at : k \in 0 .. reg.at - 1 \/ k = reg.at
        BY <2>2
      <4>2. \A k \in 0 .. reg.at - 1 : k \in 0 .. reg.at /\ k # reg.at
        BY <2>2
      <4>3. \A k \in 0 .. reg.at :
               \E c \in Connected : clntArr'[k] = hClntSock[c]
        BY <1>4, <1>5, <2>2, <2>4, <3>1, <4>1 DEF Lists
      <4>4. \A c \in Connected :
               \E k \in 0 .. reg.at : clntArr'[k] = hClntSock[c]
        BY <1>4, <1>5, <2>2, <2>4, <3>1, <4>2, SMTT(30) DEF Lists
      <4>5. \A k, l \in 0 .. reg.at : clntArr'[k] = clntArr'[l] => k = l
        BY <1>4, <2>2, <2>4, <3>1, <3>2, <4>1 DEF Lists
      <4>6. 0 .. Length' - 1 = 0 .. reg.at
        BY <2>2, <3>1
      <4> QED
        BY <1>1, <3>1, <4>3, <4>4, <4>5, <4>6 DEF Lists
    <3> QED
      BY <1>2, <1>4, <1>5, <2>2, <2>5, <2>7, <3>1, <3>3
      DEF InRegistry, Standing
  <2> QED
    BY <2>1, <2>6, <2>7
<1> QED
  BY <1>6, <1>7

\* A step that leaves the registry, the handles and the removals alone.
LEMMA ListedSame ==
    ASSUME InRegistry, UNCHANGED <<clntArr, numOfClnt, owner, hClntSock>>,
           overlap => overlap', Length' = Length, Registered' = Registered,
           mpc' = "store" => mpc = "store" /\ UNCHANGED reg,
           \A w \in Workers : pc'[w] \in Leaving <=> pc[w] \in Leaving,
           \A w \in Workers : pc[w] \in Leaving =>
              /\ pc'[w] = pc[w] /\ cur'[w] = cur[w]
              /\ idx'[w] = idx[w] /\ cnt'[w] = cnt[w]
    PROVE  InRegistry'
<1> SUFFICES ASSUME ~overlap' PROVE InRegistry'
  BY DEF InRegistry
<1>1. ~overlap
  OBVIOUS
<1>2. Connected' = Connected
  BY DEF Connected
<1>3. Standing'
  BY <1>1 DEF InRegistry, Standing, Lists
<1>4. ASSUME NEW w \in Workers, pc'[w] \in Leaving PROVE Removing(w)'
  BY <1>1, <1>2, <1>4 DEF InRegistry, Removing, Lists, Kept
<1> QED
  BY <1>1, <1>3, <1>4 DEF InRegistry

-----------------------------------------------------------------------------
(* A worker removes a client.                                                *)

LEMMA CloseListed ==
    ASSUME Room, ReceiveInv, ReceiveInv', Handled, IndexZero, InRegistry,
           NEW w \in Workers, CloseSocket(w)
    PROVE  InRegistry'
<1> SUFFICES ASSUME ~overlap' PROVE InRegistry'
  BY DEF InRegistry
<1>0. Typed
  BY DEF ReceiveInv
<1>1. PICK c \in Conns : c = cur[w].conn /\ Alive(c)
  BY CloseEnds
<1>2. /\ owner' = [h \in Handles |-> IF h = hClntSock[c] THEN NoConn
                                     ELSE owner[h]]
      /\ pc' = [pc EXCEPT ![w] = "delete"] /\ pc[w] = "close"
      /\ UNCHANGED <<clntArr, numOfClnt, hClntSock, mpc, reg, cur, idx>>
      /\ ~overlap /\ mpc \notin {"load", "store"}
      /\ \A v \in Workers : pc[v] \notin Leaving
  BY <1>1 DEF CloseSocket, Goto, registry, heap, main
<1>3. /\ pc'[w] = "delete"
      /\ \A v \in Workers : v # w => pc'[v] \notin Leaving
  BY <1>0, <1>2 DEF Typed, TypeOK
<1>4. c \in Connected /\ hClntSock[c] \in Handles
  BY <1>0, <1>1, LivingConnected, Known
<1>5. Connected' = Connected \ {c}
  <2>1. \A d \in Connected : d # c => d \in Connected'
    <3> SUFFICES ASSUME NEW d \in Connected, d # c PROVE d \in Connected'
      OBVIOUS
    <3>1. d \in Conns /\ hClntSock[d] \in Handles /\ owner[hClntSock[d]] = d
          /\ owner[hClntSock[c]] = c
      BY <1>0, <1>4, Known
    <3>2. owner'[hClntSock[d]] = d
      BY <1>2, <3>1
    <3> QED
      BY <3>1, <3>2 DEF Connected
  <2>2. \A d \in Connected' : d \in Connected /\ d # c
    <3> SUFFICES ASSUME NEW d \in Conns, NEW h \in Handles, owner'[h] = d
                 PROVE  d \in Connected /\ d # c
      BY DEF Connected
    <3>1. h # hClntSock[c] /\ owner[h] = d
      BY <1>2, NullAssumption
    <3>2. d \in Connected /\ hClntSock[d] = h
      BY <3>1, NullAssumption DEF Connected, Handled
    <3> QED
      BY <3>1, <3>2
  <2> QED
    BY <2>1, <2>2
<1>6. /\ numOfClnt \in 0 .. MaxClnt
      /\ numOfClnt = Cardinality(Connected)
      /\ Lists(0 .. numOfClnt - 1, Connected)
  BY <1>2 DEF InRegistry, Standing, Length, Registered
<1>7. /\ Cardinality(Connected') = Cardinality(Connected) - 1
      /\ Cardinality(Connected') \in Nat
  BY <1>0, <1>4, <1>5, ConnectedFits, FS_RemoveElement, FS_CardinalityType
<1>8. Connected' \cup {c} = Connected /\ c \notin Connected'
  BY <1>4, <1>5
<1>9. numOfClnt = Cardinality(Connected') + 1
  BY <1>6, <1>7
<1>10. owner'[hClntSock[c]] = NoConn /\ idx'[w] = 0 /\ cur'[w].conn = c
  BY <1>1, <1>2, <1>4 DEF IndexZero
<1>11. Lists(0 .. numOfClnt - 1, Connected \cup {c})'
  BY <1>2, <1>6, <1>8 DEF Lists
<1>12. Removing(w)'
  BY <1>2, <1>3, <1>4, <1>6, <1>8, <1>9, <1>10, <1>11 DEF Removing, Lists
<1> QED
  BY <1>2, <1>3, <1>6, <1>12 DEF InRegistry, Standing, Leaving

\* What a removal starts each of its steps from.
LEMMA RemovingNow ==
    ASSUME Typed, Exclusive, InRegistry, ~overlap,
           NEW w \in Workers, pc[w] \in Leaving
    PROVE  /\ Removing(w) /\ cur[w].conn \in Conns
           /\ numOfClnt \in 0 .. MaxClnt
           /\ mpc \notin {"load", "store"}
           /\ \A v \in Workers : v # w => pc[v] \notin Leaving
<1>1. cur[w] \in Completion
  BY DEF Typed, Shape, Leaving
<1> QED
  BY <1>1 DEF Completion, Exclusive, InRegistry

\* While a removal goes on there is nothing else to keep in order.
LEMMA RemovalGoesOn ==
    ASSUME Exclusive, ~overlap, NEW w \in Workers,
           numOfClnt \in 0 .. MaxClnt, UNCHANGED numOfClnt,
           pc[w] \in Leaving, pc'[w] \in Leaving, Removing(w)',
           \A v \in Workers : v # w => pc'[v] = pc[v]
    PROVE  InRegistry'
BY DEF InRegistry, Standing, Exclusive

LEMMA FindListed ==
    ASSUME Typed, Handled, Exclusive, InRegistry, NEW w \in Workers, Worker(w),
           DeleteInfo(w) \/ Find(w)
    PROVE  InRegistry'
<1> SUFFICES ASSUME ~overlap' PROVE InRegistry'
  BY DEF InRegistry
<1> DEFINE c == cur[w].conn
<1>0. /\ pc \in [Workers -> {"get", "deref", "send", "rearm", "close"}
                            \cup Leaving]
      /\ idx \in [Workers -> Nat]
  BY DEF Typed, TypeOK
<1>1. /\ UNCHANGED <<clntArr, numOfClnt, owner, hClntSock, cur, cnt, overlap>>
      /\ pc[w] \in {"delete", "find"} /\ pc[w] \in Leaving
  BY DEF DeleteInfo, Find, kernel, registry, heap, history, Leaving
<1>2. /\ Removing(w) /\ c \in Conns /\ numOfClnt \in 0 .. MaxClnt
      /\ \A v \in Workers : v # w => pc'[v] = pc[v]
  BY <1>1, RemovingNow, WorkerMoves
<1>3. /\ c \notin Connected /\ numOfClnt = Cardinality(Connected) + 1
      /\ hClntSock[c] \in Handles /\ owner[hClntSock[c]] = NoConn
      /\ Lists(0 .. numOfClnt - 1, Connected \cup {c})
      /\ idx[w] <= numOfClnt
      /\ \A k \in 0 .. idx[w] - 1 : clntArr[k] # hClntSock[c]
  BY <1>1, <1>2 DEF Removing
<1>4. Connected' = Connected
  BY <1>1 DEF Connected
<1>5. CASE DeleteInfo(w)
  <2>1. pc'[w] = "find" /\ idx' = idx
    BY <1>0, <1>5 DEF DeleteInfo, Goto
  <2>2. Removing(w)'
    BY <1>1, <1>3, <1>4, <2>1 DEF Removing, Lists
  <2> QED
    BY <1>1, <1>2, <2>1, <2>2, RemovalGoesOn DEF Leaving
<1>6. CASE Find(w) /\ idx[w] < numOfClnt
  <2>1. idx[w] \in Slots /\ Loaded(idx[w]) = {clntArr[idx[w]]}
          /\ ~(idx[w] >= numOfClnt)
    BY <1>0, <1>2, <1>6, RoomAssumption DEF Slots, Loaded
  <2>2. CASE clntArr[idx[w]] = hClntSock[c]
    <3>1. pc' = [pc EXCEPT ![w] = "shift"] /\ idx' = idx
      BY <1>6, <2>1, <2>2 DEF Find, Goto
    <3>2. pc'[w] = "shift"
      BY <1>0, <3>1
    <3>3. Kept(w)' = (0 .. numOfClnt - 1) \ {idx[w]}
      BY <1>1, <1>6, <3>1 DEF Kept
    <3>4. \A d \in Connected : hClntSock[d] # hClntSock[c]
      BY <1>3, Known
    <3>5. Lists((0 .. numOfClnt - 1) \ {idx[w]}, Connected)
      BY <1>0, <1>2, <1>3, <1>6, <2>2, <3>4 DEF Lists
    <3>6. Removing(w)'
      BY <1>1, <1>3, <1>4, <3>1, <3>2, <3>3, <3>5 DEF Removing, Lists
    <3> QED
      BY <1>1, <1>2, <3>2, <3>6, RemovalGoesOn DEF Leaving
  <2>3. CASE clntArr[idx[w]] # hClntSock[c]
    <3>1. pc' = pc /\ idx' = [idx EXCEPT ![w] = @ + 1]
      BY <1>6, <2>1, <2>3 DEF Find
    <3>2. idx'[w] = idx[w] + 1
      BY <1>0, <3>1
    <3>3. /\ idx'[w] <= numOfClnt
          /\ \A k \in 0 .. idx'[w] - 1 : clntArr[k] # hClntSock[c]
      BY <1>0, <1>2, <1>3, <1>6, <2>3, <3>2
    <3>4. Removing(w)'
      BY <1>1, <1>3, <1>4, <3>1, <3>3, <1>6 DEF Removing, Lists, Find
    <3> QED
      BY <1>1, <1>2, <3>1, <3>4, RemovalGoesOn
  <2> QED
    BY <2>2, <2>3
<1>7. CASE Find(w) /\ idx[w] >= numOfClnt
  <2>1. PICK k \in 0 .. numOfClnt - 1 : clntArr[k] = hClntSock[c]
    BY <1>3 DEF Lists
  <2>2. k \in 0 .. idx[w] - 1
    BY <1>0, <1>2, <1>7
  <2> QED
    BY <1>3, <2>1, <2>2
<1>8. idx[w] < numOfClnt \/ idx[w] >= numOfClnt
  BY <1>0, <1>2
<1> QED
  BY <1>5, <1>6, <1>7, <1>8

LEMMA ShiftListed ==
    ASSUME Typed, Exclusive, InRegistry, NEW w \in Workers, Worker(w), Shift(w)
    PROVE  InRegistry'
<1> SUFFICES ASSUME ~overlap' PROVE InRegistry'
  BY DEF InRegistry
<1> DEFINE c == cur[w].conn
           i == idx[w]
           n == numOfClnt
<1>0. /\ pc \in [Workers -> {"get", "deref", "send", "rearm", "close"}
                            \cup Leaving]
      /\ idx \in [Workers -> Nat]
      /\ clntArr \in [Slots -> Handles \cup {NoHandle}]
  BY DEF Typed, TypeOK
<1>1. /\ UNCHANGED <<numOfClnt, owner, hClntSock, cur, cnt, overlap>>
      /\ pc[w] = "shift" /\ pc[w] \in Leaving
  BY DEF Shift, kernel, heap, history, Leaving
<1>2. /\ Removing(w) /\ c \in Conns /\ n \in 0 .. MaxClnt
      /\ \A v \in Workers : v # w => pc'[v] = pc[v]
  BY <1>1, RemovingNow, WorkerMoves
<1>3. /\ c \notin Connected /\ n = Cardinality(Connected) + 1
      /\ hClntSock[c] \in Handles /\ owner[hClntSock[c]] = NoConn
      /\ i <= n /\ Lists(Kept(w), Connected)
  BY <1>1, <1>2 DEF Removing
<1>4. Connected' = Connected
  BY <1>1 DEF Connected
<1>5. CASE i < n
  <2>0. ~(i >= n)
    BY <1>0, <1>2, <1>5
  <2>1. PICK h \in Loaded(i + 1) :
           clntArr' = [k \in Slots |-> IF k = i THEN h ELSE clntArr[k]]
    BY <2>0 DEF Shift
  <2>2. pc' = pc /\ idx' = [idx EXCEPT ![w] = @ + 1]
    BY <2>0 DEF Shift
  <2>3. idx'[w] = i + 1
    BY <1>0, <2>2
  <2>4. Kept(w) = (0 .. n - 1) \ {i}
    BY <1>5 DEF Kept
  <2>5. /\ 0 .. n - 1 \subseteq Slots /\ i \in 0 .. n - 1
        /\ \A k \in 0 .. n - 1 : k # i => clntArr'[k] = clntArr[k]
        /\ i + 1 < n => clntArr'[i] = clntArr[i + 1] /\ i + 1 \in 0 .. n - 1
    <3>1. 0 .. n - 1 \subseteq Slots /\ i \in 0 .. n - 1
          /\ (i + 1 < n => i + 1 \in 0 .. n - 1)
      BY <1>0, <1>2, <1>5, RoomAssumption DEF Slots
    <3>2. i + 1 < n => h = clntArr[i + 1]
      BY <3>1 DEF Loaded
    <3> QED
      BY <2>1, <3>1, <3>2
  <2>6. Lists(Kept(w), Connected)'
    <3>1. CASE i + 1 < n
      <4>1. Kept(w)' = (0 .. n - 1) \ {i + 1}
        BY <1>1, <2>3, <3>1 DEF Kept
      <4>2. \A k \in (0 .. n - 1) \ {i + 1} : \E l \in (0 .. n - 1) \ {i} :
               /\ l = (IF k = i THEN i + 1 ELSE k)
               /\ clntArr'[k] = clntArr[l]
        BY <1>0, <2>5, <3>1
      <4>3. \A l \in (0 .. n - 1) \ {i} : \E k \in (0 .. n - 1) \ {i + 1} :
               clntArr'[k] = clntArr[l]
        BY <1>0, <2>5, <3>1
      <4>4. \A k \in (0 .. n - 1) \ {i + 1} :
               \E d \in Connected : clntArr'[k] = hClntSock[d]
        BY <1>3, <2>4, <4>2 DEF Lists
      <4>5. \A d \in Connected : \E k \in (0 .. n - 1) \ {i + 1} :
               clntArr'[k] = hClntSock[d]
        BY <1>3, <2>4, <4>3 DEF Lists
      <4>6. \A k, l \in (0 .. n - 1) \ {i + 1} :
               clntArr'[k] = clntArr'[l] => k = l
        <5> SUFFICES ASSUME NEW k \in (0 .. n - 1) \ {i + 1},
                            NEW l \in (0 .. n - 1) \ {i + 1},
                            clntArr'[k] = clntArr'[l]
                     PROVE  k = l
          OBVIOUS
        <5> DEFINE k1 == IF k = i THEN i + 1 ELSE k
                   l1 == IF l = i THEN i + 1 ELSE l
        <5>1. /\ k1 \in (0 .. n - 1) \ {i} /\ clntArr'[k] = clntArr[k1]
              /\ l1 \in (0 .. n - 1) \ {i} /\ clntArr'[l] = clntArr[l1]
          BY <4>2
        <5>2. \A p, q \in (0 .. n - 1) \ {i} :
                 clntArr[p] = clntArr[q] => p = q
          BY <1>3, <2>4 DEF Lists
        <5> HIDE DEF k1, l1
        <5>3. k1 = l1
          BY <5>1, <5>2
        <5> QED
          BY <1>0, <5>3 DEF k1, l1
      <4> QED
        BY <1>1, <1>4, <4>1, <4>4, <4>5, <4>6 DEF Lists
    <3>2. CASE i + 1 >= n
      <4>1. Kept(w)' = 0 .. n - 2
        BY <1>0, <1>1, <1>2, <2>3, <3>2 DEF Kept
      <4>2. (0 .. n - 1) \ {i} = 0 .. n - 2
        BY <1>0, <1>2, <1>5, <3>2
      <4>3. \A k \in 0 .. n - 2 : clntArr'[k] = clntArr[k]
        BY <2>5, <4>2
      <4>4. Lists(0 .. n - 2, Connected)
        BY <1>3, <2>4, <4>2
      <4> QED
        BY <1>1, <1>4, <4>1, <4>3, <4>4 DEF Lists
    <3> QED
      BY <1>0, <1>2, <3>1, <3>2
  <2>7. idx'[w] <= n
    BY <1>0, <1>2, <1>5, <2>3
  <2>8. Removing(w)'
    BY <1>1, <1>3, <1>4, <2>2, <2>6, <2>7 DEF Removing
  <2> QED
    BY <1>1, <1>2, <2>2, <2>8, RemovalGoesOn
<1>6. CASE i >= n
  <2>1. pc' = [pc EXCEPT ![w] = "load"] /\ UNCHANGED <<clntArr, idx>>
    BY <1>0, <1>2, <1>6 DEF Shift, Goto
  <2>2. pc'[w] = "load"
    BY <1>0, <2>1
  <2>3. Kept(w) = 0 .. n - 2
    BY <1>0, <1>2, <1>6 DEF Kept
  <2>4. Lists(0 .. n - 2, Connected)'
    BY <1>1, <1>3, <1>4, <2>1, <2>3 DEF Lists
  <2>5. Removing(w)'
    BY <1>1, <1>3, <1>4, <2>1, <2>2, <2>4 DEF Removing
  <2> QED
    BY <1>1, <1>2, <2>2, <2>5, RemovalGoesOn DEF Leaving
<1> QED
  BY <1>0, <1>2, <1>5, <1>6

LEMMA CountListed ==
    ASSUME Room, Typed, Handled, Exclusive, InRegistry,
           NEW w \in Workers, Worker(w), CountLoad(w) \/ CountStore(w)
    PROVE  InRegistry'
<1> SUFFICES ASSUME ~overlap' PROVE InRegistry'
  BY DEF InRegistry
<1> DEFINE c == cur[w].conn
<1>0. /\ pc \in [Workers -> {"get", "deref", "send", "rearm", "close"}
                            \cup Leaving]
      /\ cnt \in [Workers -> Int]
  BY DEF Typed, TypeOK
<1>1. /\ UNCHANGED <<clntArr, owner, hClntSock, mpc, reg, overlap>>
      /\ pc[w] \in {"load", "store"} /\ pc[w] \in Leaving
  BY DEF CountLoad, CountStore, Again, kernel, registry, heap, main, history,
         Leaving
<1>2. /\ Removing(w) /\ c \in Conns /\ numOfClnt \in 0 .. MaxClnt
      /\ mpc \notin {"load", "store"}
      /\ \A v \in Workers : v # w => pc'[v] = pc[v] /\ pc[v] \notin Leaving
  BY <1>1, RemovingNow, WorkerMoves
<1>3. /\ c \notin Connected /\ numOfClnt = Cardinality(Connected) + 1
      /\ hClntSock[c] \in Handles /\ owner[hClntSock[c]] = NoConn
      /\ Lists(0 .. numOfClnt - 2, Connected)
      /\ pc[w] = "store" => cnt[w] = numOfClnt
  BY <1>1, <1>2 DEF Removing
<1>4. Connected' = Connected
  BY <1>1 DEF Connected
<1>5. CASE CountLoad(w)
  <2>1. /\ pc'[w] = "store" /\ UNCHANGED <<numOfClnt, cur, idx>>
        /\ cnt'[w] = numOfClnt
    BY <1>0, <1>5 DEF CountLoad, Goto, registry
  <2>2. Lists(0 .. numOfClnt - 2, Connected)'
    BY <1>1, <1>3, <1>4, <2>1 DEF Lists
  <2>3. Removing(w)'
    BY <1>1, <1>3, <1>4, <2>1, <2>2 DEF Removing
  <2> QED
    BY <1>1, <1>2, <2>1, <2>3, RemovalGoesOn DEF Leaving
<1>6. CASE CountStore(w)
  <2>1. pc[w] = "store" /\ pc'[w] = "get" /\ numOfClnt' = cnt[w] - 1
    BY <1>0, <1>6 DEF CountStore, Again
  <2>2. numOfClnt' = Cardinality(Connected)
    BY <1>2, <1>3, <2>1, ConnectedFits
  <2>3. numOfClnt' \in 0 .. MaxClnt /\ 0 .. numOfClnt' - 1 = 0 .. numOfClnt - 2
    BY <1>2, <1>3, <2>2, ConnectedFits
  <2>4. Length' = numOfClnt' /\ Registered' = Connected
    BY <1>1, <1>2, <1>4 DEF Length, Registered
  <2>5. Lists(0 .. Length - 1, Registered)'
    <3>1. 0 .. Length' - 1 = 0 .. numOfClnt - 2
      BY <2>3, <2>4
    <3>2. clntArr' = clntArr /\ hClntSock' = hClntSock
      BY <1>1
    <3>3. Lists(0 .. numOfClnt - 2, Connected)
      BY <1>3
    <3> QED
      BY <2>4, <3>1, <3>2, <3>3 DEF Lists
  <2>6. Standing'
    BY <1>1, <1>2, <2>2, <2>4, <2>5 DEF Standing
  <2>7. \A v \in Workers : pc'[v] \notin Leaving
    BY <1>2, <2>1 DEF Leaving
  <2> QED
    BY <2>3, <2>6, <2>7 DEF InRegistry
<1> QED
  BY <1>5, <1>6

LEMMA ListedStep ==
    ASSUME Room, ReceiveInv, ReceiveInv', Handled, Exclusive, IndexZero,
           InRegistry, [Next]_vars
    PROVE  InRegistry'
<1>0. Typed
  BY DEF ReceiveInv
<1>1. CASE Main /\ ~Arm
  BY <1>0, <1>1, AcceptListed, RegisterListed DEF Main
<1>2. CASE Arm
  <2>1. /\ UNCHANGED <<clntArr, numOfClnt, owner, hClntSock, workers, overlap>>
        /\ mpc = "arm" /\ mpc' = "accept"
    BY <1>2 DEF Arm, registry, history
  <2>2. Length' = Length /\ Registered' = Registered
    BY <2>1 DEF Length, Registered, Connected
  <2> QED
    BY <2>1, <2>2, ListedSame DEF workers
<1>3. ASSUME NEW w \in Workers, Worker(w), pc[w] \notin Leaving,
             ~CloseSocket(w)
      PROVE  InRegistry'
  <2>1. UNCHANGED <<clntArr, numOfClnt>>
    BY <1>3
    DEF Worker, GetCompletion, DerefWrite, DerefEof, DerefMessage, Broadcast,
        BroadcastEnds, Rearm, DeleteInfo, Find, Shift, CountLoad, CountStore,
        registry, Leaving
  <2>2. /\ UNCHANGED <<owner, hClntSock, mpc, reg, overlap>>
        /\ \A v \in Workers : v # w => /\ pc'[v] = pc[v] /\ cur'[v] = cur[v]
                                       /\ idx'[v] = idx[v] /\ cnt'[v] = cnt[v]
        /\ pc'[w] \notin Leaving
    BY <1>0, <1>3, WorkerMoves
  <2>3. Length' = Length /\ Registered' = Registered
    BY <2>1, <2>2 DEF Length, Registered, Connected
  <2> QED
    BY <1>3, <2>1, <2>2, <2>3, ListedSame
<1>4. ASSUME NEW w \in Workers, Worker(w), pc[w] \in Leaving
      PROVE  InRegistry'
  <2>1. DeleteInfo(w) \/ Find(w) \/ Shift(w) \/ CountLoad(w) \/ CountStore(w)
    BY <1>4
    DEF Worker, GetCompletion, DerefWrite, DerefEof, DerefMessage, Broadcast,
        BroadcastEnds, Rearm, CloseSocket, Leaving
  <2> QED
    BY <1>0, <1>4, <2>1, FindListed, ShiftListed, CountListed
<1>5. ASSUME NEW c \in Conns,
             Client(c) \/ ReceiveCompletes(c) \/ SendCompletes(c)
      PROVE  InRegistry'
  <2>1. UNCHANGED <<heap, registry, main, workers, history, owner>>
    BY <1>5, NetworkKeeps
  <2>2. Length' = Length /\ Registered' = Registered
    BY <2>1 DEF Length, Registered, Connected, registry, main
  <2> QED
    BY <2>1, <2>2, ListedSame DEF heap, registry, main, workers, history
<1>6. CASE UNCHANGED vars
  <2>1. UNCHANGED <<heap, registry, main, workers, history, owner>>
    BY <1>6 DEF vars, kernel
  <2>2. Length' = Length /\ Registered' = Registered
    BY <2>1 DEF Length, Registered, Connected, registry, main
  <2> QED
    BY <2>1, <2>2, ListedSame DEF heap, registry, main, workers, history
<1> QED
  BY <1>1, <1>2, <1>3, <1>4, <1>5, <1>6, CloseListed DEF Next

-----------------------------------------------------------------------------
(* Broadcasts.                                                               *)

\* What an undisturbed broadcast owes is in the slots it has not come to.
Owed(w) ==
    /\ pc[w] = "send" =>
          /\ \A v \in Workers : pc[v] \notin Leaving
          /\ due[w] \subseteq Registered
          /\ \A c \in due[w] : \E k \in idx[w] .. Length - 1 :
                clntArr[k] = hClntSock[c]
    /\ pc[w] = "rearm" => due[w] = {}

Owing == ~overlap => \A w \in Workers : w \notin shaken => Owed(w)

RegistryInv ==
    /\ ReceiveInv /\ Handled /\ Exclusive /\ IndexZero
    /\ InRegistry /\ Owing

\* What is in order stays so, and where it is, while the main thread works.
LEMMA MainExtends ==
    ASSUME Room, Typed, Handled, InRegistry, Main, ~overlap',
           \A v \in Workers : pc[v] \notin Leaving
    PROVE  /\ Registered \subseteq Registered'
           /\ Length \in Int /\ Length' \in Int /\ Length <= Length'
           /\ \A k \in 0 .. Length - 1 : clntArr'[k] = clntArr[k]
           /\ \A c \in Registered : hClntSock'[c] = hClntSock[c]
<1>0. /\ numOfClnt \in Int /\ reg.at \in Int /\ ~overlap
      /\ hClntSock \in [Conns -> Handles \cup {NoHandle}]
      /\ owner \in [Handles -> Conns \cup {NoConn}]
  BY MainKeeps DEF Typed, TypeOK
<1>1. ASSUME NEW c \in Conns, NEW h \in Handles, Accept(c, h)
      PROVE  /\ Registered \subseteq Registered'
             /\ Length' = Length /\ Length \in Int /\ UNCHANGED clntArr
             /\ \A e \in Registered : hClntSock'[e] = hClntSock[e]
  <2>1. /\ mpc = "accept" /\ mpc' = "load" /\ reg'.conn = c
        /\ peer[c] = "none" /\ owner[h] = NoConn
        /\ owner' = [owner EXCEPT ![h] = c]
        /\ hClntSock' = [hClntSock EXCEPT ![c] = h]
        /\ UNCHANGED <<clntArr, numOfClnt>>
    BY <1>1 DEF Accept, registry, Typed, TypeOK
  <2>2. Registered = Connected
    BY <2>1 DEF Registered
  <2>3. ASSUME NEW e \in Connected
        PROVE  e \in Registered' /\ hClntSock'[e] = hClntSock[e]
    <3>1. e \in Conns /\ hClntSock[e] \in Handles /\ owner[hClntSock[e]] = e
          /\ e # NoConn /\ e # c
      BY <2>1, Known
    <3>2. owner'[hClntSock[e]] = e /\ hClntSock'[e] = hClntSock[e]
      BY <1>0, <2>1, <3>1
    <3>3. e \in Connected'
      BY <3>1, <3>2 DEF Connected
    <3> QED
      BY <2>1, <3>1, <3>2, <3>3 DEF Registered
  <2> QED
    BY <1>0, <2>1, <2>2, <2>3 DEF Length
<1>2. CASE RegisterLoad
  <2>1. /\ mpc = "load" /\ mpc' = "store" /\ reg'.conn = reg.conn
        /\ UNCHANGED <<owner, hClntSock, clntArr, numOfClnt>>
        /\ reg'.at = numOfClnt
    BY <1>2 DEF RegisterLoad, kernel, heap, registry, Typed, TypeOK
  <2> QED
    BY <1>0, <2>1 DEF Length, Registered, Connected
<1>3. ASSUME NEW what \in {"slot", "count"}, RegisterStore(what)
      PROVE  /\ Registered \subseteq Registered' /\ UNCHANGED hClntSock
             /\ Length \in Int /\ Length' \in Int /\ Length <= Length'
             /\ \A k \in 0 .. Length - 1 : clntArr'[k] = clntArr[k]
  <2>1. /\ mpc = "store" /\ mpc' \in {"store", "arm"} /\ what \in reg.todo
        /\ mpc' = IF reg.todo = {what} THEN "arm" ELSE "store"
        /\ reg'.conn = reg.conn /\ reg'.at = reg.at
        /\ UNCHANGED <<owner, hClntSock>>
        /\ what = "count" => numOfClnt' = reg.at + 1 /\ UNCHANGED clntArr
        /\ what # "count" =>
              /\ UNCHANGED numOfClnt
              /\ clntArr' = [k \in Slots |-> IF k = reg.at
                                             THEN hClntSock[reg.conn]
                                             ELSE clntArr[k]]
    BY <1>3 DEF RegisterStore, kernel, heap, Typed, TypeOK
  <2>2. Connected' = Connected
    BY <2>1 DEF Connected
  <2>3. Registered \subseteq Registered'
    BY <2>1, <2>2 DEF Registered
  <2>4. Length = reg.at
    BY <2>1 DEF Length
  <2>5. /\ numOfClnt = IF "count" \in reg.todo THEN reg.at ELSE reg.at + 1
        /\ Length = Cardinality(Registered)
    BY <1>0, <2>1 DEF InRegistry, Standing
  <2>6. reg.at \in 0 .. MaxClnt - 1
    BY <2>1, <2>4, <2>5, RegisteringConnected
  <2>7. mpc' = "arm" => numOfClnt' = reg.at + 1
    <3>1. CASE what = "count"
      BY <2>1, <3>1
    <3>2. CASE what = "slot"
      <4>1. mpc' = "arm" => "count" \notin reg.todo
        BY <2>1, <3>2
      <4> QED
        BY <2>1, <2>5, <3>2, <4>1
    <3> QED
      BY <3>1, <3>2
  <2>8. Length' \in {reg.at, reg.at + 1}
    BY <2>1, <2>7 DEF Length
  <2>9. \A k \in 0 .. reg.at - 1 : clntArr'[k] = clntArr[k]
    <3>1. \A k \in 0 .. reg.at - 1 : k \in Slots /\ k # reg.at
      BY <2>6, RoomAssumption DEF Slots
    <3> QED
      BY <2>1, <3>1
  <2> QED
    BY <1>0, <2>1, <2>3, <2>4, <2>8, <2>9
<1>4. CASE Arm
  <2>1. /\ mpc = "arm" /\ mpc' = "accept"
        /\ UNCHANGED <<owner, hClntSock, clntArr, numOfClnt>>
    BY <1>4 DEF Arm, registry
  <2> QED
    BY <1>0, <2>1 DEF Length, Registered, Connected
<1>5. Length' = Length /\ Length \in Int
         => Length' \in Int /\ Length <= Length'
  OBVIOUS
<1> QED
  BY <1>1, <1>2, <1>3, <1>4, <1>5 DEF Main

LEMMA LaterSlot ==
    \A i \in Nat : \A m, n \in Int : m <= n =>
       \A k \in i .. m - 1 : k \in 0 .. m - 1 /\ k \in i .. n - 1
OBVIOUS

LEMMA OwingMain ==
    ASSUME Room, Typed, Handled, InRegistry, Owing, Main
    PROVE  Owing'
<1> SUFFICES ASSUME ~overlap', NEW w \in Workers, w \notin shaken'
             PROVE  Owed(w)'
  BY DEF Owing
<1>1. UNCHANGED <<pc, idx, due, shaken>> /\ ~overlap
  BY MainKeeps DEF workers
<1>2. Owed(w)
  BY <1>1 DEF Owing
<1>3. CASE pc[w] = "send"
  <2>1. /\ \A v \in Workers : pc[v] \notin Leaving
        /\ due[w] \subseteq Registered
        /\ \A c \in due[w] : \E k \in idx[w] .. Length - 1 :
              clntArr[k] = hClntSock[c]
    BY <1>2, <1>3 DEF Owed
  <2>2. /\ Registered \subseteq Registered'
        /\ Length \in Int /\ Length' \in Int /\ Length <= Length'
        /\ \A k \in 0 .. Length - 1 : clntArr'[k] = clntArr[k]
        /\ \A c \in Registered : hClntSock'[c] = hClntSock[c]
    BY <2>1, MainExtends
  <2>3. ASSUME NEW c \in due[w]
        PROVE  \E k \in idx[w] .. Length' - 1 : clntArr'[k] = hClntSock'[c]
    <3>1. PICK k \in idx[w] .. Length - 1 : clntArr[k] = hClntSock[c]
      BY <2>1
    <3>2. idx[w] \in Nat
      BY DEF Typed, TypeOK
    <3>3. Length \in Int /\ Length' \in Int /\ Length <= Length'
      BY <2>2
    <3>4. k \in idx[w] .. Length - 1
      BY <3>1
    <3>5. k \in 0 .. Length - 1 /\ k \in idx[w] .. Length' - 1
      BY <3>2, <3>3, <3>4, LaterSlot
    <3> QED
      BY <2>1, <2>2, <3>1, <3>5
  <2> QED
    BY <1>1, <1>3, <2>1, <2>2, <2>3 DEF Owed
<1> QED
  BY <1>1, <1>2, <1>3 DEF Owed

\* A step of one worker that is not a removal leaves the other broadcasts.
LEMMA OwingOthers ==
    ASSUME Typed, Owing, ~overlap, NEW w \in Workers, Worker(w),
           ~CloseSocket(w), NEW v \in Workers, v # w, v \notin shaken'
    PROVE  Owed(v)'
<1>1. /\ due \in [Workers -> SUBSET Conns] /\ idx \in [Workers -> Nat]
  BY DEF Typed, TypeOK
<1>2. /\ due'[v] = due[v] /\ (shaken \ {w}) \subseteq shaken'
  BY <1>1
  DEF Worker, GetCompletion, DerefWrite, DerefEof, DerefMessage, Broadcast,
      BroadcastEnds, Rearm, DeleteInfo, Find, Shift, CountLoad, CountStore,
      Again, history
<1>3. /\ UNCHANGED <<owner, hClntSock, mpc, reg>>
      /\ pc'[v] = pc[v] /\ idx'[v] = idx[v]
      /\ \A u \in Workers : pc'[u] \in Leaving => pc[u] \in Leaving
  BY WorkerMoves
<1>4. Owed(v)
  BY <1>2 DEF Owing
<1>5. CASE pc[w] \in Leaving
  BY <1>2, <1>3, <1>4, <1>5 DEF Owed
<1>6. CASE pc[w] \notin Leaving
  <2>1. UNCHANGED <<clntArr, numOfClnt>>
    BY <1>6
    DEF Worker, GetCompletion, DerefWrite, DerefEof, DerefMessage, Broadcast,
        BroadcastEnds, Rearm, DeleteInfo, Find, Shift, CountLoad, CountStore,
        registry, Leaving
  <2>2. Length' = Length /\ Registered' = Registered
    BY <1>3, <2>1 DEF Length, Registered, Connected
  <2> QED
    BY <1>2, <1>3, <1>4, <2>1, <2>2 DEF Owed
<1> QED
  BY <1>5, <1>6

\* How many slots count, and how many are in order.
LEMMA LengthCounted ==
    ASSUME Typed, InRegistry, ~overlap, \A v \in Workers : pc[v] \notin Leaving
    PROVE  /\ Length \in Int /\ Length <= numOfClnt
           /\ numOfClnt \in 0 .. MaxClnt
           /\ Lists(0 .. Length - 1, Registered)
BY DEF InRegistry, Standing, Length, Typed, TypeOK

LEMMA OwingSelf ==
    ASSUME Typed, IndexZero, InRegistry, Owing, ~overlap,
           NEW w \in Workers, Worker(w), ~CloseSocket(w), w \notin shaken'
    PROVE  Owed(w)'
<1>0. /\ pc \in [Workers -> {"get", "deref", "send", "rearm", "close"}
                            \cup Leaving]
      /\ idx \in [Workers -> Nat]
      /\ due \in [Workers -> SUBSET Conns] /\ shaken \in SUBSET Workers
  BY DEF Typed, TypeOK
<1>1. CASE DerefMessage(w)
  <2>1. /\ pc[w] = "deref" /\ pc' = [pc EXCEPT ![w] = "send"]
        /\ due' = [due EXCEPT ![w] = Connected \ {reg.conn}]
        /\ shaken' = IF \E v \in Workers : pc[v] \in Leaving
                     THEN shaken \cup {w} ELSE shaken
        /\ UNCHANGED <<owner, clntArr, numOfClnt, hClntSock, mpc, reg, idx>>
    BY <1>1 DEF DerefMessage, Goto, kernel, heap, registry, main
  <2>2. \A v \in Workers : pc[v] \notin Leaving
    BY <2>1
  <2>3. /\ pc'[w] = "send" /\ idx'[w] = 0 /\ due'[w] = Connected \ {reg.conn}
        /\ \A v \in Workers : pc'[v] \notin Leaving
    BY <1>0, <2>1, <2>2 DEF IndexZero, Leaving
  <2>4. Length' = Length /\ Registered' = Registered
    BY <2>1 DEF Length, Registered, Connected
  <2>5. due'[w] \subseteq Registered
    BY <2>3 DEF Registered
  <2>6. \A c \in due'[w] : \E k \in 0 .. Length - 1 : clntArr[k] = hClntSock[c]
    BY <2>2, <2>5, LengthCounted DEF Lists
  <2> QED
    BY <2>1, <2>3, <2>4, <2>5, <2>6 DEF Owed
<1>2. CASE Broadcast(w)
  <2>1. PICK h \in Loaded(idx[w]) :
           due' = [due EXCEPT ![w] = {c \in @ : hClntSock[c] # h}]
    BY <1>2 DEF Broadcast
  <2>2. /\ pc[w] = "send" /\ idx[w] < numOfClnt
        /\ idx' = [idx EXCEPT ![w] = @ + 1]
        /\ UNCHANGED <<owner, clntArr, numOfClnt, hClntSock, mpc, reg, pc,
                       shaken>>
    BY <1>2 DEF Broadcast, heap, registry, main
  <2>3. /\ \A v \in Workers : pc[v] \notin Leaving
        /\ due[w] \subseteq Registered
        /\ \A c \in due[w] : \E k \in idx[w] .. Length - 1 :
              clntArr[k] = hClntSock[c]
    BY <2>2 DEF Owing, Owed
  <2>4. h = clntArr[idx[w]]
    <3>1. idx[w] \in Slots
      BY <1>0, <2>2, <2>3, LengthCounted, RoomAssumption DEF Slots
    <3> QED
      BY <2>1, <3>1 DEF Loaded
  <2>5. idx'[w] = idx[w] + 1 /\ due'[w] = {c \in due[w] : hClntSock[c] # h}
    BY <1>0, <2>1, <2>2
  <2>6. Length' = Length /\ Registered' = Registered
    BY <2>2 DEF Length, Registered, Connected
  <2>7. ASSUME NEW c \in due'[w]
        PROVE  \E k \in idx'[w] .. Length - 1 : clntArr[k] = hClntSock[c]
    <3>1. PICK k \in idx[w] .. Length - 1 : clntArr[k] = hClntSock[c]
      BY <2>3, <2>5
    <3>2. k # idx[w]
      BY <2>4, <2>5, <3>1
    <3>3. k \in idx'[w] .. Length - 1
      BY <1>0, <2>3, <2>5, <3>2, LengthCounted
    <3> QED
      BY <3>1, <3>3
  <2> QED
    BY <2>2, <2>3, <2>5, <2>6, <2>7 DEF Owed
<1>3. CASE BroadcastEnds(w)
  <2>1. /\ pc[w] = "send" /\ idx[w] >= numOfClnt
        /\ pc' = [pc EXCEPT ![w] = "rearm"] /\ UNCHANGED <<due, shaken>>
    BY <1>3 DEF BroadcastEnds, Goto, history
  <2>2. /\ \A v \in Workers : pc[v] \notin Leaving
        /\ \A c \in due[w] : \E k \in idx[w] .. Length - 1 :
              clntArr[k] = hClntSock[c]
    BY <2>1 DEF Owing, Owed
  <2>3. idx[w] .. Length - 1 = {}
    BY <1>0, <2>1, <2>2, LengthCounted
  <2>4. pc'[w] = "rearm" /\ due'[w] = {}
    BY <1>0, <2>1, <2>2, <2>3
  <2> QED
    BY <2>4 DEF Owed
<1>4. CASE ~DerefMessage(w) /\ ~Broadcast(w) /\ ~BroadcastEnds(w)
  <2>1. pc'[w] \notin {"send", "rearm"}
    BY <1>0, <1>4
    DEF Worker, GetCompletion, DerefWrite, DerefEof, Rearm, DeleteInfo, Find,
        Shift, CountLoad, CountStore, Again, Goto, Leaving
  <2> QED
    BY <2>1 DEF Owed
<1> QED
  BY <1>1, <1>2, <1>3, <1>4

LEMMA OwingStep ==
    ASSUME Room, RegistryInv, [Next]_vars
    PROVE  Owing'
<1>0. Typed /\ Handled /\ IndexZero /\ InRegistry /\ Owing
  BY DEF RegistryInv, ReceiveInv
<1>1. CASE Main
  BY <1>0, <1>1, OwingMain
<1>2. ASSUME NEW w \in Workers, Worker(w), ~CloseSocket(w)
      PROVE  Owing'
  <2>1. overlap' = overlap
    BY <1>0, <1>2, WorkerMoves
  <2> QED
    BY <1>0, <1>2, <2>1, OwingOthers, OwingSelf DEF Owing
<1>3. ASSUME NEW w \in Workers, CloseSocket(w)
      PROVE  Owing'
  <2>1. /\ pc' = [pc EXCEPT ![w] = "delete"]
        /\ shaken' = {v \in Workers : \/ v \in shaken
                                      \/ pc[v] \in {"send", "rearm"}}
    BY <1>3 DEF CloseSocket, Goto
  <2>2. \A v \in Workers : v \notin shaken' => pc'[v] \notin {"send", "rearm"}
    BY <1>0, <2>1 DEF Typed, TypeOK
  <2> QED
    BY <2>2 DEF Owing, Owed
<1>4. CASE UNCHANGED <<heap, registry, main, workers, history, owner>>
  BY <1>0, <1>4
  DEF Owing, Owed, Length, Registered, Connected,
      heap, registry, main, workers, history
<1> QED
  BY <1>1, <1>2, <1>3, <1>4, NetworkKeeps DEF Next, vars, kernel

-----------------------------------------------------------------------------
(* Nothing but overlapping updates spoils the registry.                      *)

LEMMA RegistryInit == Room /\ Init => RegistryInv
<1> SUFFICES ASSUME Room, Init PROVE RegistryInv
  OBVIOUS
<1>1. ReceiveInv
  BY ReceiveInit
<1>2. Connected = {} /\ Registered = {} /\ 0 .. Length - 1 = {}
      /\ Length = 0 /\ numOfClnt = 0
  BY NullAssumption DEF Init, Connected, Registered, Length
<1>3. Handled
  BY DEF Init, Handled, Alive, Arming, Queued, Holding
<1>4. Exclusive /\ IndexZero /\ Owing
  BY DEF Init, Exclusive, IndexZero, Owing, Owed, Leaving
<1>5. InRegistry
  BY <1>2, FS_EmptySet, RoomAssumption
  DEF Init, InRegistry, Standing, Lists, Leaving
<1> QED
  BY <1>1, <1>3, <1>4, <1>5 DEF RegistryInv

LEMMA RegistryStep == Room /\ RegistryInv /\ [Next]_vars => RegistryInv'
<1> SUFFICES ASSUME Room, RegistryInv, [Next]_vars PROVE RegistryInv'
  OBVIOUS
<1>1. ReceiveInv' /\ ReceiveInv /\ Typed
  BY ReceiveStep DEF RegistryInv, ReceiveInv
<1>2. Handled'
  <2>1. CASE UNCHANGED vars
    BY <2>1 DEF RegistryInv, Handled, Alive, Arming, Queued, Holding,
                vars, kernel, heap, main, workers
  <2> QED
    BY <1>1, <2>1, HandledStep DEF RegistryInv
<1>3. Exclusive' /\ IndexZero' /\ InRegistry' /\ Owing'
  BY <1>1, ExclusiveStep, IndexZeroStep, ListedStep, OwingStep DEF RegistryInv
<1> QED
  BY <1>1, <1>2, <1>3 DEF RegistryInv

LEMMA RegistryAlways == ASSUME Room PROVE Spec => []RegistryInv
<1>1. Init => RegistryInv
  BY RegistryInit
<1>2. RegistryInv /\ [Next]_vars => RegistryInv'
  BY RegistryStep
<1> QED
  BY <1>1, <1>2, PTL DEF Spec

\* As long as no two of the unprotected updates have overlapped, clntArr and
\* numOfClnt list every connected client once and nobody else: adding and
\* removing are right, only not together.  Room is what the code takes for
\* granted of MAX_CLNT.
THEOREM RegistryExactHolds == ASSUME Room PROVE Spec => []RegistryExact
<1>1. RegistryInv => RegistryExact
  <2> SUFFICES ASSUME RegistryInv, ~overlap, ~Updating PROVE
                  /\ numOfClnt = Cardinality(Connected)
                  /\ {clntArr[k] : k \in 0 .. numOfClnt - 1}
                        = {hClntSock[c] : c \in Connected}
    BY DEF RegistryExact
  <2>1. Length = numOfClnt /\ Registered = Connected
    BY DEF Updating, Length, Registered
  <2>2. Standing
    BY DEF RegistryInv, InRegistry
  <2>3. /\ numOfClnt = Cardinality(Connected)
        /\ Lists(0 .. numOfClnt - 1, Connected)
    BY <2>1, <2>2 DEF Standing, Updating
  <2> QED
    BY <2>3 DEF Lists
<1> QED
  BY <1>1, RegistryAlways, PTL

\* A broadcast that met no removal, while no two updates have overlapped, has
\* been posted to every client that was registered when it began, although the
\* main thread may have added clients under its loop.
THEOREM BroadcastCompleteHolds == ASSUME Room PROVE Spec => []BroadcastComplete
<1>1. RegistryInv => BroadcastComplete
  BY DEF RegistryInv, Owing, Owed, BroadcastComplete
<1> QED
  BY <1>1, RegistryAlways, PTL
=============================================================================
