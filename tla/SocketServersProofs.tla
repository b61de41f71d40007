------------------------ MODULE SocketServersProofs ------------------------
(* Theorems about servers of MCSocketServers, for any number of clients and  *)
(* descriptors.                                                              *)
EXTENDS MCSocketServers, SocketsProofs

-----------------------------------------------------------------------------
(* AsyncNotifyServer: the two arrays and the events.                         *)

Room == Cardinality(Fds)

AsyncTyped ==
    /\ OnEvents
    /\ pc \in {"wait", "scan"} /\ i \in Nat
    /\ hSockArr \in [0 .. Room + 1 -> Fds \cup {Serv}]
    /\ hEventArr \in [0 .. Room + 1 -> Conns \cup {Serv}]
    /\ numOfClntSock \in 1 .. Room + 1
    /\ signaled \in SUBSET (Conns \cup {Serv})
    /\ record \in [Conns -> SUBSET {"READ", "CLOSE", "ABORT"}]

\* Paired, slot by slot, with no socket in two slots.
Parallel ==
    /\ hSockArr[0] = Serv /\ hEventArr[0] = Serv
    /\ \A k \in 1 .. numOfClntSock - 1 :
          /\ hSockArr[k] \in Fds /\ owner[hSockArr[k]] # NoConn
          /\ hEventArr[k] = owner[hSockArr[k]]
    /\ \A f \in Fds : owner[f] # NoConn =>
          \E k \in 1 .. numOfClntSock - 1 : hSockArr[k] = f
    /\ \A k, l \in 1 .. numOfClntSock - 1 : hSockArr[k] = hSockArr[l] => k = l

\* What Windows has recorded of a connection has happened to it, and its end
\* stays recorded until main closes it.
Recorded ==
    \A c \in Conns :
       /\ c \in Served /\ peer[c] = "shut" => "CLOSE" \in record[c]
       /\ "CLOSE" \in record[c] => peer[c] \in {"shut", "reset"}
       /\ "ABORT" \in record[c] => peer[c] = "reset"

\* Whatever is left to do is signaled.
Signaling ==
    \A c \in Served :
       peer[c] = "shut" \/ (HasData(c) /\ peer[c] = "open") => c \in signaled

AsyncInv == Network /\ AsyncTyped /\ Parallel /\ Recorded /\ Signaling

LEMMA RoomIsNat == Room \in Nat
BY SocketsAssumption, FS_CardinalityType DEF Room

LEMMA AsyncStart == ASSUME Async!Init PROVE AsyncInv
<1>0. NetInit /\ OnEvents /\ Async!Listening
  BY DEF Async!Init, Async!StartEchoServ, Async!StartChatServ, Async!Listening,
         Async!NetInit, NetInit, OnEvents
<1>1. Network
  BY <1>0, NetworkInit
<1>a. /\ pc = "wait" /\ i = 0 /\ numOfClntSock = 1 /\ signaled = {}
      /\ hSockArr = [k \in 0 .. Room + 1 |-> Serv]
      /\ hEventArr = [k \in 0 .. Room + 1 |-> Serv]
      /\ record = [c \in Conns |-> {}]
  BY <1>0 DEF Async!Listening, Async!Slots, Room, Async!Cardinality, Cardinality
<1>2. AsyncTyped
  BY <1>0, <1>a, RoomIsNat DEF AsyncTyped
<1>3. Served = {} /\ \A f \in Fds : owner[f] = NoConn
  BY <1>0, SocketsAssumption DEF NetInit, Served
<1>4. Parallel
  BY <1>a, <1>3, RoomIsNat DEF Parallel
<1>5. Recorded /\ Signaling
  BY <1>0, <1>3 DEF Recorded, Signaling, Async!Listening
<1> QED
  BY <1>1, <1>2, <1>4, <1>5 DEF AsyncInv

LEMMA AsyncConnect ==
    ASSUME AsyncInv, UNCHANGED program, NEW c \in Conns, Async!ConnectSignals(c)
    PROVE  AsyncInv'
<1>1. Connect(c)
  BY DEF Async!ConnectSignals, Async!Connect, Connect
<1>2. Network' /\ Served' = Served
  BY <1>1, NetworkConnect DEF AsyncInv
<1>3. /\ signaled' = signaled \cup {Serv}
      /\ UNCHANGED <<pc, i, hSockArr, hEventArr, numOfClntSock, record>>
      /\ UNCHANGED <<sent, taken, owner>>
      /\ peer[c] = "none" /\ peer' = [peer EXCEPT ![c] = "open"]
  BY <1>1 DEF Async!ConnectSignals, Connect
<1>4. AsyncTyped' /\ Parallel'
  BY <1>3 DEF AsyncInv, AsyncTyped, Parallel, OnEvents
<1>5. c \notin Served /\ \A d \in Conns \ {c} : peer'[d] = peer[d]
  BY <1>3 DEF AsyncInv, Network, NetTyped, OnePlace
<1>6. Recorded'
  BY <1>2, <1>3, <1>5 DEF AsyncInv, Recorded
<1>7. Signaling'
  BY <1>2, <1>3, <1>5 DEF AsyncInv, Signaling, HasData, Served
<1> QED
  BY <1>2, <1>4, <1>6, <1>7 DEF AsyncInv

LEMMA AsyncArrives ==
    ASSUME AsyncInv, UNCHANGED program, NEW c \in Conns, Async!Arrives(c)
    PROVE  AsyncInv'
<1> PICK what \in {"READ", "CLOSE", "ABORT"} :
       /\ Async!Notify(c, what)
       /\ \/ what = "READ" /\ ClientSend(c)
          \/ what = "CLOSE" /\ ClientShut(c)
          \/ what = "ABORT" /\ ClientReset(c)
  BY DEF Async!Arrives, Async!ClientSend, Async!ClientShut, Async!ClientReset,
         ClientSend, ClientShut, ClientReset
<1>0. NetTyped /\ Network
  BY DEF AsyncInv, Network
<1>1. /\ UNCHANGED <<backlog, taken, owner>>
      /\ peer[c] = "open" /\ peer' \in [Conns -> Peers]
      /\ peer'[c] = IF what = "READ" THEN "open" ELSE IF what = "CLOSE" THEN "shut" ELSE "reset"
      /\ \A d \in Conns \ {c} : peer'[d] = peer[d]
  BY <1>0 DEF ClientSend, ClientShut, ClientReset, NetTyped, Peers
<1>2. /\ sent' \in [Conns -> Nat]
      /\ \A d \in Conns \ {c} : sent'[d] = sent[d]
      /\ what = "CLOSE" => sent' = sent
  <2>0. sent \in [Conns -> Nat] /\ taken[c] \in Nat /\ Quota[c] \in Nat
    BY <1>0, SocketsAssumption DEF NetTyped
  <2>1. CASE what = "READ" /\ ClientSend(c)
    BY <2>0, <2>1 DEF ClientSend
  <2>2. CASE what = "CLOSE" /\ ClientShut(c)
    BY <2>0, <2>2 DEF ClientShut
  <2>3. CASE what = "ABORT" /\ ClientReset(c)
    BY <2>0, <2>3 DEF ClientReset
  <2> QED
    BY <2>1, <2>2, <2>3
<1>3. Network' /\ Served' = Served
  BY <1>0, <1>1, <1>2, NetworkOn DEF NetTyped, Served
<1>4. /\ UNCHANGED <<pc, i, hSockArr, hEventArr, numOfClntSock>>
      /\ c \in Served => record' = [record EXCEPT ![c] = @ \cup {what}]
                         /\ signaled' = signaled \cup {c}
      /\ c \notin Served => UNCHANGED <<record, signaled>>
  BY DEF Async!Notify, Async!Served, Served
<1>5. AsyncTyped' /\ Parallel'
  BY <1>1, <1>4 DEF AsyncInv, AsyncTyped, Parallel, OnEvents
<1>6. /\ \A d \in Conns \ {c} : record'[d] = record[d]
      /\ record'[c] = IF c \in Served THEN record[c] \cup {what} ELSE record[c]
  BY <1>4 DEF AsyncInv, AsyncTyped
<1>7. Recorded'
  BY <1>1, <1>3, <1>6 DEF AsyncInv, Recorded
<1>8. Signaling'
  BY <1>1, <1>2, <1>3, <1>4 DEF AsyncInv, Signaling, HasData, Served
<1> QED
  BY <1>3, <1>5, <1>7, <1>8 DEF AsyncInv

LEMMA AsyncScan ==
    ASSUME AsyncInv, UNCHANGED program, Async!Wait \/ Async!ScanEnds \/ Async!Skip
    PROVE  AsyncInv'
<1>0. UNCHANGED <<peer, backlog, sent, taken, owner, hSockArr, hEventArr, numOfClntSock, signaled, record>>
  BY DEF Async!Wait, Async!ScanEnds, Async!Skip, Async!net
<1>1. i' \in Nat
  <2>1. CASE Async!Wait
    <3> DEFINE hits == {k \in 0 .. numOfClntSock - 1 : hEventArr[k] \in signaled}
    <3>1. hits # {} /\ i' = Min(hits) /\ hits \in SUBSET Nat
      BY <2>1 DEF Async!Wait, Async!Min, Min
    <3> HIDE DEF hits
    <3> QED
      BY <3>1, MinIsLeast
  <2> QED
    BY <2>1 DEF Async!ScanEnds, Async!Skip, AsyncInv, AsyncTyped
<1>2. AsyncTyped'
  BY <1>0, <1>1 DEF Async!Wait, Async!ScanEnds, Async!Skip, AsyncInv, AsyncTyped, OnEvents
<1>3. Network'
  BY <1>0 DEF AsyncInv, Network, NetTyped, OnePlace, Served, Waiting
<1> QED
  BY <1>0, <1>2, <1>3 DEF AsyncInv, Parallel, Recorded, Signaling, HasData, Served

\* The entry the scan has come to.
LEMMA AsyncEntry ==
    ASSUME AsyncInv, NEW s \in Fds \cup {Serv}, Async!Signaled(s)
    PROVE  /\ i \in 0 .. numOfClntSock - 1 /\ hSockArr[i] = s /\ hEventArr[i] \in signaled
           /\ s = Serv => i = 0 /\ hEventArr[i] = Serv
           /\ s \in Fds => /\ i \in 1 .. numOfClntSock - 1 /\ owner[s] \in Served
                           /\ hEventArr[i] = owner[s]
<1>1. i \in 0 .. numOfClntSock - 1 /\ hSockArr[i] = s /\ hEventArr[i] \in signaled
  BY DEF Async!Signaled, AsyncInv, AsyncTyped
<1>2. Serv \notin Fds
  BY SocketsAssumption
<1>3. \A k \in 1 .. numOfClntSock - 1 :
         hSockArr[k] \in Fds /\ owner[hSockArr[k]] # NoConn /\ hEventArr[k] = owner[hSockArr[k]]
  BY DEF AsyncInv, Parallel
<1>4. hSockArr[0] = Serv /\ hEventArr[0] = Serv
  BY DEF AsyncInv, Parallel
<1>5. s = Serv => i = 0
  BY <1>1, <1>2, <1>3
<1>6. s \in Fds => i \in 1 .. numOfClntSock - 1
  BY <1>1, <1>2, <1>4
<1>7. \A f \in Fds : owner[f] # NoConn => owner[f] \in Served
  BY DEF AsyncInv, Network, NetTyped, Served
<1> QED
  BY <1>1, <1>3, <1>4, <1>5, <1>6, <1>7

\* There is a slot for the next client.
LEMMA AsyncRoom ==
    ASSUME AsyncInv, NEW f \in Fds, owner[f] = NoConn
    PROVE  numOfClntSock <= Room
<1> DEFINE S == 1 .. numOfClntSock - 1
           g == [k \in S |-> hSockArr[k]]
<1>0. numOfClntSock \in Nat \ {0} /\ Room \in Nat
  BY RoomIsNat DEF AsyncInv, AsyncTyped
<1>1. IsFiniteSet(Fds \ {f}) /\ Cardinality(Fds \ {f}) = Room - 1
  BY SocketsAssumption, FS_RemoveElement DEF Room
<1>2. g \in [S -> Fds \ {f}] /\ \A k, l \in S : g[k] = g[l] => k = l
  BY DEF AsyncInv, Parallel
<1>3. g \in Injection(S, Fds \ {f})
  <2> HIDE DEF g, S
  <2> QED
    BY <1>2 DEF Injection, IsInjective
<1>4. Cardinality(S) <= Room - 1
  BY <1>1, <1>3, FS_Injection
<1>5. Cardinality(S) = numOfClntSock - 1
  BY <1>0, FS_Interval
<1> QED
  BY <1>0, <1>4, <1>5

LEMMA AsyncAccept ==
    ASSUME AsyncInv, UNCHANGED program, NEW f \in Fds, Async!Accept(f)
    PROVE  AsyncInv'
<1> DEFINE c == Head(backlog)
<1>0. /\ AcceptAs(f) /\ UNCHANGED <<peer, sent, taken>>
      /\ Async!Signaled(Serv) /\ owner[f] = NoConn
  BY DEF Async!Accept, Async!AcceptAs, AcceptAs
<1>1. /\ Network' /\ c \in Conns \ Served /\ Served' = Served \cup {c}
      /\ owner' = [owner EXCEPT ![f] = c]
  BY <1>0, NetworkAccept DEF AsyncInv
<1>2. /\ hSockArr' = [hSockArr EXCEPT ![numOfClntSock] = f]
      /\ hEventArr' = [hEventArr EXCEPT ![numOfClntSock] = c]
      /\ numOfClntSock' = numOfClntSock + 1
      /\ record' = [record EXCEPT ![c] = Async!Pending(c)]
      /\ signaled' = (signaled \ {hEventArr[i]})
                     \cup (IF Async!Pending(c) # {} THEN {c} ELSE {})
                     \cup (IF Tail(backlog) # <<>> THEN {Serv} ELSE {})
      /\ i' = i + 1 /\ UNCHANGED pc
  BY DEF Async!Accept
<1>3. hEventArr[i] = Serv /\ numOfClntSock \in 1 .. Room /\ Serv \notin Conns /\ c # NoConn
  BY <1>0, <1>1, AsyncEntry, AsyncRoom, SocketsAssumption DEF AsyncInv, AsyncTyped
<1>4. Async!Pending(c) = (IF HasData(c) THEN {"READ"} ELSE {})
                         \cup (IF peer[c] = "shut" THEN {"CLOSE"} ELSE {})
                         \cup (IF peer[c] = "reset" THEN {"ABORT"} ELSE {})
  BY DEF Async!Pending, Async!HasData, HasData
<1> HIDE DEF c
<1>5. AsyncTyped'
  BY <1>1, <1>2, <1>3, <1>4, RoomIsNat DEF AsyncInv, AsyncTyped, OnEvents
<1>6. Parallel'
  <2> USE <1>1, <1>2, <1>3, RoomIsNat DEF AsyncInv, AsyncTyped, Parallel, Network, NetTyped
  <2>1. hSockArr'[0] = Serv /\ hEventArr'[0] = Serv
    OBVIOUS
  <2>2. \A k \in 1 .. numOfClntSock - 1 :
           hSockArr'[k] = hSockArr[k] /\ hEventArr'[k] = hEventArr[k] /\ hSockArr[k] # f
    BY <1>0
  <2>3. hSockArr'[numOfClntSock] = f /\ hEventArr'[numOfClntSock] = c
        /\ 1 .. numOfClntSock' - 1 = (1 .. numOfClntSock - 1) \cup {numOfClntSock}
    OBVIOUS
  <2>4. \A g \in Fds : owner'[g] # NoConn => \E k \in 1 .. numOfClntSock' - 1 : hSockArr'[k] = g
    <3> SUFFICES ASSUME NEW g \in Fds, owner'[g] # NoConn
                 PROVE  \E k \in 1 .. numOfClntSock' - 1 : hSockArr'[k] = g
      OBVIOUS
    <3>1. CASE g = f
      BY <2>3, <3>1
    <3>2. CASE g # f
      <4>1. PICK k \in 1 .. numOfClntSock - 1 : hSockArr[k] = g
        BY <3>2
      <4> QED
        BY <2>2, <2>3, <4>1
    <3> QED
      BY <3>1, <3>2
  <2>5. \A k \in 1 .. numOfClntSock' - 1 :
          /\ hSockArr'[k] \in Fds /\ owner'[hSockArr'[k]] # NoConn
          /\ hEventArr'[k] = owner'[hSockArr'[k]]
    BY <2>2, <2>3
  <2>6. \A k, l \in 1 .. numOfClntSock' - 1 : hSockArr'[k] = hSockArr'[l] => k = l
    BY <2>2, <2>3, SMTT(30)
  <2> QED
    BY <2>1, <2>4, <2>5, <2>6
<1>7. Recorded'
  <2>1. record'[c] = Async!Pending(c) /\ \A d \in Conns \ {c} : record'[d] = record[d]
    BY <1>1, <1>2 DEF AsyncInv, AsyncTyped
  <2> QED
    BY <1>0, <1>1, <1>4, <2>1 DEF AsyncInv, Recorded
<1>8. Signaling'
  <2>1. \A d \in Served : d \in signaled => d \in signaled'
    BY <1>2, <1>3 DEF Served
  <2>2. peer[c] = "shut" \/ HasData(c) => c \in signaled'
    BY <1>2, <1>4
  <2> QED
    BY <1>0, <1>1, <2>1, <2>2 DEF AsyncInv, Signaling, HasData
<1> QED
  BY <1>1, <1>5, <1>6, <1>7, <1>8 DEF AsyncInv

\* What the three handlers of a signaled client have in common: the client is
\* in hand, it may be read from, and the event is reset.
LEMMA AsyncHandles ==
    ASSUME AsyncInv, UNCHANGED program, NEW f \in Fds,
           Async!Signaled(f), UNCHANGED sent,
           \/ Async!TakeUnit(owner[f])
              /\ Async!WriteTo(Async!Recipients(f), Async!NextUnit(owner[f]))
           \/ UNCHANGED <<taken, peer, got>>
    PROVE  /\ i \in 1 .. numOfClntSock - 1 /\ hSockArr[i] = f
           /\ owner[f] \in Served /\ owner[f] \in Conns
           /\ hEventArr[i] = owner[f] /\ owner[f] \in signaled
           /\ peer' \in [Conns -> Peers] /\ taken' \in [Conns -> Nat]
           /\ \A d \in Conns : \/ peer'[d] = peer[d]
                               \/ peer[d] = "shut" /\ peer'[d] = "reset"
           /\ \A d \in Conns \ {owner[f]} : taken'[d] = taken[d]
<1>1. /\ i \in 1 .. numOfClntSock - 1 /\ hSockArr[i] = f /\ owner[f] \in Served
      /\ hEventArr[i] = owner[f] /\ owner[f] \in signaled
  BY AsyncEntry
<1>2. owner[f] \in Conns /\ NetTyped /\ OnWindows
  BY <1>1 DEF Served, AsyncInv, Network, AsyncTyped, OnEvents, OnWindows
<1> DEFINE cs == Async!Recipients(f)
           u == Async!NextUnit(owner[f])
<1>3. \/ TakeUnit(owner[f]) /\ WriteTo(cs, u)
      \/ UNCHANGED <<taken, peer, got>>
  <2> HIDE DEF cs, u
  <2>1. CASE Async!TakeUnit(owner[f]) /\ Async!WriteTo(cs, u)
    BY <2>1 DEF Async!TakeUnit, TakeUnit, Async!WriteTo, WriteTo, Async!Transmit, Transmit,
           Async!Reported, Reported, Async!OnWindows, OnWindows
  <2> QED
    BY <2>1 DEF cs, u
<1> HIDE DEF cs, u
<1> QED
  BY <1>1, <1>2, <1>3, ReadStep

LEMMA AsyncRead ==
    ASSUME AsyncInv, UNCHANGED program, NEW f \in Fds, Async!Read(f)
    PROVE  AsyncInv'
<1> DEFINE c == owner[f]
<1>0. /\ Async!Signaled(f) /\ record[c] = {"READ"}
      /\ IF HasData(c) THEN Async!TakeUnit(c) /\ Async!WriteTo(Async!Recipients(f), Async!NextUnit(c))
         ELSE UNCHANGED <<taken, peer, got>>
      /\ record' = [record EXCEPT ![c] = IF taken[c] + 1 < sent[c] THEN {"READ"} ELSE {}]
      /\ signaled' = IF taken[c] + 1 < sent[c] THEN signaled ELSE signaled \ {hEventArr[i]}
      /\ i' = i + 1
      /\ UNCHANGED <<backlog, sent, owner, pc, hSockArr, hEventArr, numOfClntSock>>
  BY DEF Async!Read, Async!HasData, HasData
<1>1. /\ i \in 1 .. numOfClntSock - 1 /\ c \in Served /\ c \in Conns
      /\ hEventArr[i] = c /\ c \in signaled
      /\ peer' \in [Conns -> Peers] /\ taken' \in [Conns -> Nat]
      /\ \A d \in Conns : \/ peer'[d] = peer[d]
                          \/ peer[d] = "shut" /\ peer'[d] = "reset"
      /\ \A d \in Conns \ {c} : taken'[d] = taken[d]
  BY <1>0, AsyncHandles
<1>2. HasData(c) => taken'[c] = taken[c] + 1
  BY <1>0, <1>1 DEF Async!TakeUnit, AsyncInv, Network, NetTyped
<1>3. ~HasData(c) => taken' = taken
  BY <1>0
<1> HIDE DEF c
<1>4. NetTyped'
  BY <1>0, <1>1 DEF AsyncInv, Network, NetTyped
<1>5. Network' /\ Served' = Served
  BY <1>0, <1>1, <1>4, NetworkOn DEF AsyncInv, Served
<1>6. AsyncTyped' /\ Parallel'
  <2>1. signaled' \subseteq signaled /\ record' \in [Conns -> SUBSET {"READ", "CLOSE", "ABORT"}]
    BY <1>0, <1>1 DEF AsyncInv, AsyncTyped
  <2>2. i' \in Nat
    BY <1>0, <1>1
  <2>3. AsyncTyped'
    BY <1>0, <2>1, <2>2 DEF AsyncInv, AsyncTyped, OnEvents
  <2> QED
    BY <1>0, <2>3 DEF AsyncInv, Parallel
<1>7. peer[c] # "shut" /\ "CLOSE" \notin record[c] /\ "ABORT" \notin record[c]
  BY <1>0, <1>1 DEF AsyncInv, Recorded
<1>8. /\ \A d \in Conns \ {c} : record'[d] = record[d]
      /\ record'[c] = {"READ"} \/ record'[c] = {}
  BY <1>0, <1>1 DEF AsyncInv, AsyncTyped
<1>9. Recorded'
  BY <1>1, <1>5, <1>7, <1>8 DEF AsyncInv, Recorded
<1>10. \A d \in Served \ {c} : d \in signaled => d \in signaled'
  BY <1>0, <1>1
<1>11. taken'[c] < sent'[c] => c \in signaled'
  BY <1>0, <1>1, <1>2, <1>3 DEF HasData
<1>12. Signaling'
  <2> SUFFICES ASSUME NEW d \in Served,
                      peer'[d] = "shut" \/ (taken'[d] < sent'[d] /\ peer'[d] = "open")
               PROVE  d \in signaled'
    BY <1>5 DEF Signaling, HasData
  <2>1. CASE d = c
    BY <1>1, <1>7, <1>11, <2>1
  <2>2. CASE d # c
    <3>1. d \in Conns /\ peer'[d] = peer[d] /\ taken'[d] = taken[d] /\ sent'[d] = sent[d]
      BY <1>0, <1>1, <2>2 DEF Served
    <3> QED
      BY <1>10, <2>2, <3>1 DEF AsyncInv, Signaling, HasData
  <2> QED
    BY <2>1, <2>2
<1> QED
  BY <1>5, <1>6, <1>9, <1>12 DEF AsyncInv

LEMMA AsyncAbort ==
    ASSUME AsyncInv, UNCHANGED program, NEW f \in Fds, Async!Abort(f)
    PROVE  AsyncInv'
<1> DEFINE c == owner[f]
<1>0. /\ Async!Signaled(f) /\ "ABORT" \in record[c]
      /\ \/ Async!TakeUnit(c) /\ Async!WriteTo(Async!Recipients(f), Async!NextUnit(c))
         \/ UNCHANGED <<taken, peer, got>>
      /\ record' = [record EXCEPT ![c] = {}]
      /\ signaled' = signaled \ {hEventArr[i]}
      /\ pc' = "wait"
      /\ UNCHANGED <<backlog, sent, owner, i, hSockArr, hEventArr, numOfClntSock>>
  BY DEF Async!Abort
<1>1. /\ i \in 1 .. numOfClntSock - 1 /\ c \in Served /\ c \in Conns
      /\ hEventArr[i] = c
      /\ peer' \in [Conns -> Peers] /\ taken' \in [Conns -> Nat]
      /\ \A d \in Conns : \/ peer'[d] = peer[d]
                          \/ peer[d] = "shut" /\ peer'[d] = "reset"
      /\ \A d \in Conns \ {c} : taken'[d] = taken[d]
  BY <1>0, AsyncHandles
<1> HIDE DEF c
<1>4. NetTyped'
  BY <1>0, <1>1 DEF AsyncInv, Network, NetTyped
<1>5. Network' /\ Served' = Served
  BY <1>0, <1>1, <1>4, NetworkOn DEF AsyncInv, Served
<1>6. AsyncTyped' /\ Parallel'
  BY <1>0, <1>1 DEF AsyncInv, AsyncTyped, Parallel, OnEvents
<1>7. peer[c] = "reset" /\ peer'[c] = "reset"
  BY <1>0, <1>1 DEF AsyncInv, Recorded
<1>8. record'[c] = {} /\ \A d \in Conns \ {c} : record'[d] = record[d]
  BY <1>0, <1>1 DEF AsyncInv, AsyncTyped
<1>9. Recorded'
  BY <1>1, <1>5, <1>7, <1>8 DEF AsyncInv, Recorded
<1>10. \A d \in Served \ {c} : d \in signaled => d \in signaled'
  BY <1>0, <1>1
<1>12. Signaling'
  BY <1>0, <1>1, <1>5, <1>7, <1>10 DEF AsyncInv, Signaling, HasData, Served
<1> QED
  BY <1>5, <1>6, <1>9, <1>12 DEF AsyncInv

\* CompressSockets and CompressEvents: slot k gets what was in slot k, or in
\* the next one from the one closed on; no other slot is lost.
From(k) == IF k < i THEN k ELSE k + 1

LEMMA FromSlots ==
    ASSUME numOfClntSock \in 1 .. Room + 1, i \in 1 .. numOfClntSock - 1
    PROVE  /\ \A k \in 1 .. numOfClntSock - 2 :
                 From(k) \in (1 .. numOfClntSock - 1) \ {i}
           /\ \A k, l \in 1 .. numOfClntSock - 2 : From(k) = From(l) => k = l
           /\ \A m \in (1 .. numOfClntSock - 1) \ {i} :
                 \E k \in 1 .. numOfClntSock - 2 : From(k) = m
<1> USE RoomIsNat DEF From
<1>1. ASSUME NEW m \in (1 .. numOfClntSock - 1) \ {i}
      PROVE  \E k \in 1 .. numOfClntSock - 2 : From(k) = m
  <2>1. CASE m < i
    <3>1. m \in 1 .. numOfClntSock - 2 /\ From(m) = m
      BY <2>1
    <3> QED
      BY <3>1
  <2>2. CASE m > i
    <3>1. m - 1 \in 1 .. numOfClntSock - 2 /\ From(m - 1) = m
      BY <2>2
    <3> QED
      BY <3>1
  <2> QED
    BY <2>1, <2>2
<1> QED
  BY <1>1

LEMMA CompressedSlots ==
    ASSUME AsyncTyped, NEW S, NEW table \in [0 .. Room + 1 -> S],
           i \in 1 .. numOfClntSock - 1
    PROVE  /\ Async!Compressed(table) \in [0 .. Room + 1 -> S]
           /\ Async!Compressed(table)[0] = table[0]
           /\ \A k \in 1 .. numOfClntSock - 2 :
                 Async!Compressed(table)[k] = table[From(k)]
<1>1. Async!Compressed(table) =
        [k \in 0 .. Room + 1 |->
           IF i <= k /\ k < numOfClntSock - 1 THEN table[k + 1] ELSE table[k]]
  BY DEF Async!Compressed, Async!Slots, Room, Async!Cardinality, Cardinality
<1>2. numOfClntSock \in 1 .. Room + 1
  BY DEF AsyncTyped
<1>3. \A k \in 0 .. Room + 1 : k < numOfClntSock - 1 => k + 1 \in 0 .. Room + 1
  BY <1>2, RoomIsNat
<1> QED
  BY <1>1, <1>2, <1>3, RoomIsNat DEF From

LEMMA AsyncClose ==
    ASSUME AsyncInv, UNCHANGED program, NEW f \in Fds, Async!Close(f)
    PROVE  AsyncInv'
<1> DEFINE c == owner[f]
           n == numOfClntSock
<1>0. /\ Async!Signaled(f) /\ "CLOSE" \in record[c]
      /\ \/ Async!TakeUnit(c) /\ Async!WriteTo(Async!Recipients(f), Async!NextUnit(c))
         \/ UNCHANGED <<taken, peer, got>>
      /\ CloseFd(f)
      /\ hSockArr' = Async!Compressed(hSockArr)
      /\ hEventArr' = Async!Compressed(hEventArr)
      /\ numOfClntSock' = n - 1
      /\ record' = [record EXCEPT ![c] = {}]
      /\ signaled' = signaled \ {hEventArr[i]}
      /\ i' = i + 1
      /\ UNCHANGED <<backlog, sent, pc>>
  BY DEF Async!Close, Async!CloseFd, CloseFd
<1>1. /\ i \in 1 .. n - 1 /\ hSockArr[i] = f /\ c \in Served /\ c \in Conns
      /\ hEventArr[i] = c
      /\ peer' \in [Conns -> Peers] /\ taken' \in [Conns -> Nat]
      /\ \A d \in Conns : \/ peer'[d] = peer[d]
                          \/ peer[d] = "shut" /\ peer'[d] = "reset"
      /\ \A d \in Conns \ {c} : taken'[d] = taken[d]
  BY <1>0, AsyncHandles
<1>2. /\ Served' = Served \ {c} /\ owner' \in [Fds -> Conns \cup {NoConn}]
      /\ owner' = [owner EXCEPT ![f] = NoConn] /\ owner \in [Fds -> Conns \cup {NoConn}]
  BY <1>0, ServedClose DEF AsyncInv, Network, NetTyped, CloseFd
<1>3. n \in 1 .. Room + 1 /\ Room \in Nat /\ i \in Nat
  BY RoomIsNat DEF AsyncInv, AsyncTyped
<1>4. /\ hSockArr' \in [0 .. Room + 1 -> Fds \cup {Serv}] /\ hSockArr'[0] = hSockArr[0]
      /\ hEventArr' \in [0 .. Room + 1 -> Conns \cup {Serv}] /\ hEventArr'[0] = hEventArr[0]
      /\ \A k \in 1 .. n - 2 : hSockArr'[k] = hSockArr[From(k)] /\ hEventArr'[k] = hEventArr[From(k)]
  <2>0. /\ AsyncTyped /\ hSockArr \in [0 .. Room + 1 -> Fds \cup {Serv}]
        /\ hEventArr \in [0 .. Room + 1 -> Conns \cup {Serv}]
        /\ i \in 1 .. numOfClntSock - 1
    BY <1>1 DEF AsyncInv, AsyncTyped
  <2>1. /\ hSockArr' \in [0 .. Room + 1 -> Fds \cup {Serv}] /\ hSockArr'[0] = hSockArr[0]
        /\ \A k \in 1 .. n - 2 : hSockArr'[k] = hSockArr[From(k)]
    BY <1>0, <2>0, CompressedSlots
  <2>2. /\ hEventArr' \in [0 .. Room + 1 -> Conns \cup {Serv}] /\ hEventArr'[0] = hEventArr[0]
        /\ \A k \in 1 .. n - 2 : hEventArr'[k] = hEventArr[From(k)]
    BY <1>0, <2>0, CompressedSlots
  <2> QED
    BY <2>1, <2>2
<1> HIDE DEF c
<1>5. NetTyped'
  BY <1>0, <1>1, <1>2 DEF AsyncInv, Network, NetTyped
<1>6. Network'
  BY <1>0, <1>1, <1>5, NetworkOn DEF AsyncInv
<1>7. AsyncTyped'
  <2>1. signaled' \subseteq signaled /\ record' \in [Conns -> SUBSET {"READ", "CLOSE", "ABORT"}]
    BY <1>0, <1>1 DEF AsyncInv, AsyncTyped
  <2>2. i' \in Nat /\ numOfClntSock' \in 1 .. Room + 1
    BY <1>0, <1>1, <1>3
  <2> QED
    BY <1>0, <1>4, <2>1, <2>2 DEF AsyncInv, AsyncTyped, OnEvents
<1>8. Parallel'
  <2> USE FromSlots, <1>1, <1>3
  <2>0. 1 .. numOfClntSock' - 1 = 1 .. n - 2
    BY <1>0
  <2>1. hSockArr'[0] = Serv /\ hEventArr'[0] = Serv
    BY <1>4 DEF AsyncInv, Parallel
  <2>2. ASSUME NEW k \in 1 .. n - 2
        PROVE  /\ hSockArr'[k] \in Fds /\ owner'[hSockArr'[k]] # NoConn
               /\ hEventArr'[k] = owner'[hSockArr'[k]]
    <3>1. From(k) \in 1 .. n - 1 /\ From(k) # i
      OBVIOUS
    <3>2. hSockArr[From(k)] \in Fds \ {f}
      BY <3>1 DEF AsyncInv, Parallel
    <3>3. owner'[hSockArr[From(k)]] = owner[hSockArr[From(k)]]
      BY <1>2, <3>2
    <3>4. /\ owner[hSockArr[From(k)]] # NoConn
          /\ hEventArr[From(k)] = owner[hSockArr[From(k)]]
      BY <3>1 DEF AsyncInv, Parallel
    <3> QED
      BY <1>4, <3>2, <3>3, <3>4
  <2>3. ASSUME NEW g \in Fds, owner'[g] # NoConn
        PROVE  \E k \in 1 .. n - 2 : hSockArr'[k] = g
    <3>1. g # f /\ owner[g] # NoConn
      BY <1>2, <2>3
    <3>2. PICK m \in 1 .. n - 1 : hSockArr[m] = g
      BY <3>1 DEF AsyncInv, Parallel
    <3>3. m \in (1 .. n - 1) \ {i}
      BY <3>1, <3>2
    <3>4. PICK k \in 1 .. n - 2 : From(k) = m
      BY <3>3
    <3> QED
      BY <1>4, <3>2, <3>4
  <2>4. ASSUME NEW k \in 1 .. n - 2, NEW l \in 1 .. n - 2, hSockArr'[k] = hSockArr'[l]
        PROVE  k = l
    <3>1. From(k) \in 1 .. n - 1 /\ From(l) \in 1 .. n - 1
          /\ hSockArr[From(k)] = hSockArr[From(l)]
      BY <1>4, <2>4
    <3>2. From(k) = From(l)
      BY <3>1 DEF AsyncInv, Parallel
    <3> QED
      BY <3>2
  <2> QED
    BY <2>0, <2>1, <2>2, <2>3, <2>4 DEF Parallel
<1>9. record'[c] = {} /\ \A d \in Conns \ {c} : record'[d] = record[d]
  BY <1>0, <1>1 DEF AsyncInv, AsyncTyped
<1>10. Recorded'
  <2> SUFFICES ASSUME NEW d \in Conns
               PROVE  /\ d \in Served' /\ peer'[d] = "shut" => "CLOSE" \in record'[d]
                      /\ "CLOSE" \in record'[d] => peer'[d] \in {"shut", "reset"}
                      /\ "ABORT" \in record'[d] => peer'[d] = "reset"
    BY DEF Recorded
  <2> QED
    BY <1>1, <1>2, <1>9 DEF AsyncInv, Recorded
<1>11. Signaling'
  <2> SUFFICES ASSUME NEW d \in Served',
                      peer'[d] = "shut" \/ (taken'[d] < sent'[d] /\ peer'[d] = "open")
               PROVE  d \in signaled'
    BY DEF Signaling, HasData
  <2>1. d \in Served /\ d # c /\ d \in Conns
    BY <1>2 DEF Served
  <2>2. peer'[d] = peer[d] /\ taken'[d] = taken[d] /\ sent'[d] = sent[d]
    BY <1>0, <1>1, <2>1
  <2>3. d \in signaled
    BY <2>1, <2>2 DEF AsyncInv, Signaling, HasData
  <2> QED
    BY <1>0, <1>1, <2>1, <2>3
<1> QED
  BY <1>6, <1>7, <1>8, <1>10, <1>11 DEF AsyncInv

LEMMA AsyncStep == ASSUME AsyncInv, UNCHANGED program, Async!Next PROVE AsyncInv'
<1>1. CASE Async!Server
  <2>1. CASE Async!Wait \/ Async!ScanEnds \/ Async!Skip
    BY <2>1, AsyncScan
  <2>2. CASE \E f \in Fds : Async!Accept(f) \/ Async!Read(f) \/ Async!Close(f) \/ Async!Abort(f)
    BY <2>2, AsyncAccept, AsyncRead, AsyncClose, AsyncAbort
  <2> QED
    BY <1>1, <2>1, <2>2 DEF Async!Server
<1>2. CASE \E c \in Conns : Async!ConnectSignals(c) \/ Async!Arrives(c)
  BY <1>2, AsyncConnect, AsyncArrives
<1> QED
  BY <1>1, <1>2 DEF Async!Next, Async!EchoServ, Async!ChatServ

-----------------------------------------------------------------------------
(* EpollServer: the batch and clnt_arr.                                      *)

EpollTyped ==
    /\ OnEpoll
    /\ clntArr \in [0 .. Room -> Fds \cup {Serv}]
    /\ clntNum \in 0 .. Room

\* A descriptor that has an event is open until the event is dealt with.
Batched ==
    /\ \A f \in batch \ {Serv} : f \in Fds /\ owner[f] # NoConn
    /\ pc = "read" => fd \in Fds /\ owner[fd] # NoConn /\ fd \notin batch

\* clnt_arr has each open descriptor once, and no other.
Listed ==
    program = "epoll_chat" =>
       /\ \A k \in 0 .. clntNum - 1 : clntArr[k] \in Fds /\ owner[clntArr[k]] # NoConn
       /\ \A f \in Fds : owner[f] # NoConn => \E k \in 0 .. clntNum - 1 : clntArr[k] = f
       /\ \A k, l \in 0 .. clntNum - 1 : clntArr[k] = clntArr[l] => k = l

EpollInv == Network /\ EpollTyped /\ Batched /\ Listed

LEMMA EpollStart == ASSUME Epoll!Init PROVE EpollInv
<1>0. NetInit /\ OnEpoll /\ Epoll!Listening
  BY DEF Epoll!Init, Epoll!StartEpollServ, Epoll!StartEPLTServ, Epoll!StartEPETProblem,
         Epoll!StartEPETServ, Epoll!StartChatEPETServ, Epoll!Listening,
         Epoll!NetInit, NetInit, OnEpoll
<1>1. Network
  BY <1>0, NetworkInit
<1>2. /\ pc = "wait" /\ batch = {} /\ clntNum = 0
      /\ clntArr = [k \in 0 .. Room |-> Serv]
  BY <1>0 DEF Epoll!Listening, Epoll!Slots, Room, Epoll!Cardinality, Cardinality
<1>3. EpollTyped
  BY <1>0, <1>2, RoomIsNat DEF EpollTyped
<1>4. Batched /\ Listed
  BY <1>0, <1>2 DEF NetInit, Batched, Listed
<1> QED
  BY <1>1, <1>3, <1>4 DEF EpollInv

\* The steps that leave the arrays alone.
LEMMA EpollKeeps ==
    ASSUME EpollInv, Network', Batched',
           UNCHANGED <<program, owner, clntArr, clntNum>>
    PROVE  EpollInv'
BY DEF EpollInv, EpollTyped, Listed, OnEpoll

LEMMA EpollClients ==
    ASSUME EpollInv, UNCHANGED program, NEW c \in Conns,
           (Epoll!Connect(c) /\ UNCHANGED Epoll!server) \/ Epoll!Arrives(c)
    PROVE  EpollInv'
<1>1. \/ Connect(c)
      \/ ClientSend(c) \/ ClientShut(c) \/ ClientReset(c)
  BY DEF Epoll!Connect, Connect, Epoll!Arrives, Epoll!ClientSend, ClientSend,
         Epoll!ClientShut, ClientShut, Epoll!ClientReset, ClientReset
<1>2. UNCHANGED <<owner, pc, batch, fd, clntArr, clntNum>>
  BY DEF Epoll!Connect, Epoll!server, Epoll!Arrives, Epoll!ClientSend,
         Epoll!ClientShut, Epoll!ClientReset
<1>3. Network'
  BY <1>1, NetworkConnect, NetworkArrives DEF EpollInv
<1> QED
  BY <1>2, <1>3, EpollKeeps DEF EpollInv, Batched

LEMMA EpollWaits ==
    ASSUME EpollInv, UNCHANGED program, Epoll!Wait \/ Epoll!Pick \/ Epoll!BatchEnds \/ Epoll!ReadAgain
    PROVE  EpollInv'
<1>1. UNCHANGED <<peer, backlog, sent, taken, owner, clntArr, clntNum>>
  BY DEF Epoll!Wait, Epoll!Pick, Epoll!BatchEnds, Epoll!ReadAgain, Epoll!net
<1>2. Network'
  BY <1>1 DEF EpollInv, Network, NetTyped, OnePlace, Served, Waiting
<1>3. Batched'
  <2>1. CASE Epoll!Wait
    <3>1. batch' = {f \in Fds \cup {Serv} : Epoll!EventOn(f)} /\ pc' = "next"
      BY <2>1 DEF Epoll!Wait, Epoll!All
    <3>2. \A f \in Fds : Epoll!EventOn(f) => owner[f] # NoConn
      BY SocketsAssumption DEF Epoll!EventOn
    <3> QED
      BY <1>1, <3>1, <3>2 DEF Batched
  <2>2. CASE Epoll!Pick
    BY <1>1, <2>2 DEF Epoll!Pick, EpollInv, Batched
  <2>3. CASE Epoll!BatchEnds
    BY <1>1, <2>3 DEF Epoll!BatchEnds, EpollInv, Batched
  <2>4. CASE Epoll!ReadAgain
    BY <1>1, <2>4 DEF Epoll!ReadAgain, EpollInv, Batched
  <2> QED
    BY <2>1, <2>2, <2>3, <2>4
<1> QED
  BY <1>1, <1>2, <1>3, EpollKeeps

LEMMA EpollReads ==
    ASSUME EpollInv, UNCHANGED program, Epoll!ReadData \/ Epoll!ReadFails
    PROVE  EpollInv'
<1>0. NetTyped /\ Network /\ Batched
  BY DEF EpollInv, Network
<1>1. /\ UNCHANGED <<backlog, sent, owner, batch, fd, clntArr, clntNum>>
      /\ pc = "read"
  BY DEF Epoll!ReadData, Epoll!ReadFails
<1>2. taken' \in [Conns -> Nat]
  <2>1. taken \in [Conns -> Nat] /\ owner[fd] \in Conns
    BY <1>0, <1>1 DEF Batched, NetTyped
  <2>2. CASE Epoll!ReadData
    <3>1. taken' = [taken EXCEPT ![owner[fd]] = @ + 1]
      BY <2>2 DEF Epoll!ReadData, Epoll!TakeUnit
    <3> QED
      BY <2>1, <3>1
  <2>3. CASE Epoll!ReadFails
    BY <2>1, <2>3 DEF Epoll!ReadFails
  <2> QED
    BY <2>2, <2>3
<1>3. /\ peer' \in [Conns -> Peers]
      /\ \A c \in Conns : peer[c] # "none" => peer'[c] # "none"
  <2>1. CASE UNCHANGED peer
    BY <1>0, <2>1 DEF NetTyped
  <2>2. CASE Epoll!ReadData
    <3>1. UNCHANGED peer \/ Epoll!Transmit(Epoll!Recipients(fd))
      BY <2>2 DEF Epoll!ReadData, Epoll!WriteTo
    <3> DEFINE cs == Epoll!Recipients(fd)
    <3>2. UNCHANGED peer \/ Transmit(cs)
      <4> HIDE DEF cs
      <4>1. Epoll!Transmit(cs) => Transmit(cs)
        BY DEF Epoll!Transmit, Transmit, Epoll!Reported, Reported,
               Epoll!OnWindows, OnWindows
      <4> QED
        BY <3>1, <4>1 DEF cs
    <3> HIDE DEF cs
    <3> QED
      BY <1>0, <2>1, <3>2, TransmitStep
  <2>3. CASE Epoll!ReadFails
    <3>1. peer[owner[fd]] = "reset"
          /\ peer' = [peer EXCEPT ![owner[fd]] = Reported(owner[fd])]
      BY <2>3 DEF Epoll!ReadFails, Epoll!Failed, Epoll!Reported, Reported,
                  Epoll!OnWindows, OnWindows
    <3> QED
      BY <1>0, <3>1 DEF NetTyped, Peers, Reported
  <2> QED
    BY <2>2, <2>3
<1>4. Network'
  BY <1>0, <1>1, <1>2, <1>3, NetworkOn DEF NetTyped
<1>5. Batched'
  BY <1>0, <1>1 DEF Batched
<1> QED
  BY <1>1, <1>4, <1>5, EpollKeeps

LEMMA EpollRoom ==
    ASSUME EpollInv, program = "epoll_chat", NEW f \in Fds, owner[f] = NoConn
    PROVE  clntNum + 1 \in 0 .. Room
<1> DEFINE S == 0 .. clntNum - 1
           g == [k \in S |-> clntArr[k]]
<1>0. clntNum \in Nat /\ Room \in Nat
  BY RoomIsNat DEF EpollInv, EpollTyped
<1>1. IsFiniteSet(Fds \ {f}) /\ Cardinality(Fds \ {f}) = Room - 1
  BY SocketsAssumption, FS_RemoveElement DEF Room
<1>2. g \in [S -> Fds \ {f}] /\ \A k, l \in S : g[k] = g[l] => k = l
  BY DEF EpollInv, Listed
<1>3. g \in Injection(S, Fds \ {f})
  <2> HIDE DEF g, S
  <2> QED
    BY <1>2 DEF Injection, IsInjective
<1>4. Cardinality(S) <= Room - 1
  BY <1>1, <1>3, FS_Injection
<1>5. Cardinality(S) = clntNum
  BY <1>0, FS_Interval
<1> QED
  BY <1>0, <1>4, <1>5

LEMMA EpollAccept ==
    ASSUME EpollInv, UNCHANGED program, Epoll!Accept
    PROVE  EpollInv'
<1> DEFINE f == Epoll!LowestFree
           c == Head(backlog)
<1>0. /\ AcceptAs(f) /\ UNCHANGED <<peer, sent, taken, pc, fd>>
      /\ f \in Fds /\ owner[f] = NoConn /\ pc = "next"
      /\ batch' = batch \ {Serv}
      /\ program = "epoll_chat" => /\ clntArr' = [clntArr EXCEPT ![clntNum] = f]
                                   /\ clntNum' = clntNum + 1
      /\ program # "epoll_chat" => UNCHANGED <<clntArr, clntNum>>
  BY DEF Epoll!Accept, Epoll!AcceptAs, AcceptAs, Epoll!Chats
<1> HIDE DEF f
<1>1. /\ Network' /\ c \in Conns \ Served /\ owner' = [owner EXCEPT ![f] = c]
  BY <1>0, NetworkAccept DEF EpollInv
<1> HIDE DEF c
<1>2. /\ owner \in [Fds -> Conns \cup {NoConn}] /\ c # NoConn
      /\ clntArr \in [0 .. Room -> Fds \cup {Serv}] /\ clntNum \in 0 .. Room /\ Room \in Nat
  BY <1>1, SocketsAssumption, RoomIsNat DEF EpollInv, Network, NetTyped, EpollTyped
<1>3. program = "epoll_chat" => clntNum + 1 \in 0 .. Room
  BY <1>0, EpollRoom
<1>4. EpollTyped'
  BY <1>0, <1>2, <1>3 DEF EpollInv, EpollTyped, OnEpoll
<1>5. Batched'
  BY <1>0, <1>1, <1>2 DEF EpollInv, Batched
<1>6. Listed'
  <2> SUFFICES ASSUME program = "epoll_chat" PROVE Listed'
    BY DEF Listed
  <2>1. /\ clntNum' = clntNum + 1 /\ clntArr'[clntNum] = f
        /\ \A k \in 0 .. clntNum - 1 : clntArr'[k] = clntArr[k]
        /\ 0 .. clntNum' - 1 = (0 .. clntNum - 1) \cup {clntNum}
    BY <1>0, <1>2
  <2>2. \A k \in 0 .. clntNum - 1 : clntArr[k] \in Fds \ {f} /\ owner[clntArr[k]] # NoConn
    BY <1>0 DEF EpollInv, Listed
  <2>3. \A k \in 0 .. clntNum' - 1 : clntArr'[k] \in Fds /\ owner'[clntArr'[k]] # NoConn
    BY <1>0, <1>1, <1>2, <2>1, <2>2
  <2>4. \A g \in Fds : owner'[g] # NoConn => \E k \in 0 .. clntNum' - 1 : clntArr'[k] = g
    <3> SUFFICES ASSUME NEW g \in Fds, owner'[g] # NoConn
                 PROVE  \E k \in 0 .. clntNum' - 1 : clntArr'[k] = g
      OBVIOUS
    <3>1. CASE g = f
      BY <2>1, <3>1
    <3>2. CASE g # f
      <4>1. owner[g] # NoConn
        BY <1>1, <1>2, <3>2
      <4>2. PICK k \in 0 .. clntNum - 1 : clntArr[k] = g
        BY <4>1 DEF EpollInv, Listed
      <4> QED
        BY <2>1, <4>2
    <3> QED
      BY <3>1, <3>2
  <2>5. \A k, l \in 0 .. clntNum - 1 : clntArr[k] = clntArr[l] => k = l
    BY DEF EpollInv, Listed
  <2>6. \A k, l \in 0 .. clntNum' - 1 : clntArr'[k] = clntArr'[l] => k = l
    BY <2>1, <2>2, <2>5
  <2> QED
    BY <2>3, <2>4, <2>6 DEF Listed
<1> QED
  BY <1>1, <1>4, <1>5, <1>6 DEF EpollInv

\* Where slot k of clnt_arr comes from when the one of slot m closes.
After(k, m) == IF k < m THEN k ELSE k + 1

LEMMA AfterSlots ==
    ASSUME NEW n \in Nat, NEW m \in 0 .. n - 1
    PROVE  /\ \A k \in 0 .. n - 2 : After(k, m) \in (0 .. n - 1) \ {m}
           /\ \A k, l \in 0 .. n - 2 : After(k, m) = After(l, m) => k = l
           /\ \A j \in (0 .. n - 1) \ {m} : \E k \in 0 .. n - 2 : After(k, m) = j
<1> USE DEF After
<1>1. ASSUME NEW j \in (0 .. n - 1) \ {m}
      PROVE  \E k \in 0 .. n - 2 : After(k, m) = j
  <2>1. CASE j < m
    <3>1. j \in 0 .. n - 2 /\ After(j, m) = j
      BY <2>1
    <3> QED
      BY <3>1
  <2>2. CASE j > m
    <3>1. j - 1 \in 0 .. n - 2 /\ After(j - 1, m) = j
      BY <2>2
    <3> QED
      BY <3>1
  <2> QED
    BY <2>1, <2>2
<1> QED
  BY <1>1

LEMMA EpollEnd ==
    ASSUME EpollInv, UNCHANGED program, Epoll!ReadEnd
    PROVE  EpollInv'
<1>0. /\ pc = "read" /\ pc' = "next" /\ CloseFd(fd)
      /\ UNCHANGED <<peer, backlog, sent, taken, batch>>
      /\ program = "epoll_chat" => clntArr' = Epoll!Removed(fd) /\ clntNum' = clntNum - 1
      /\ program # "epoll_chat" => UNCHANGED <<clntArr, clntNum>>
  BY DEF Epoll!ReadEnd, Epoll!CloseFd, CloseFd, Epoll!Chats
<1>1. fd \in Fds /\ owner[fd] # NoConn /\ fd \notin batch
  BY <1>0 DEF EpollInv, Batched
<1>2. /\ owner \in [Fds -> Conns \cup {NoConn}]
      /\ owner' = [owner EXCEPT ![fd] = NoConn]
      /\ clntArr \in [0 .. Room -> Fds \cup {Serv}] /\ clntNum \in 0 .. Room /\ Room \in Nat
  BY <1>0, RoomIsNat DEF EpollInv, Network, NetTyped, EpollTyped, CloseFd
<1>3. Network'
  <2>1. NetTyped'
    BY <1>0, <1>1, <1>2 DEF EpollInv, Network, NetTyped
  <2> QED
    BY <1>0, <1>1, <2>1, NetworkOn DEF EpollInv
<1>4. Batched'
  BY <1>0, <1>1, <1>2 DEF EpollInv, Batched
<1>5. CASE program # "epoll_chat"
  BY <1>0, <1>3, <1>4, <1>5 DEF EpollInv, EpollTyped, OnEpoll, Listed
<1>6. CASE program = "epoll_chat"
  <2> DEFINE at == {k \in 0 .. clntNum - 1 : clntArr[k] = fd}
             m == Min(at)
  <2>1. /\ \A k \in 0 .. clntNum - 1 : clntArr[k] \in Fds /\ owner[clntArr[k]] # NoConn
        /\ \A f \in Fds : owner[f] # NoConn => \E k \in 0 .. clntNum - 1 : clntArr[k] = f
        /\ \A k, l \in 0 .. clntNum - 1 : clntArr[k] = clntArr[l] => k = l
    BY <1>6 DEF EpollInv, Listed
  <2>2. at # {} /\ at \in SUBSET Nat
    BY <1>1, <2>1
  <2>3. m \in at
    <3> HIDE DEF at
    <3> QED
      BY <2>2, MinIsLeast
  <2>4. clntArr' = [k \in 0 .. Room |-> IF m <= k /\ k < clntNum THEN clntArr[k + 1] ELSE clntArr[k]]
        /\ clntNum' = clntNum - 1
    BY <1>0, <1>6 DEF Epoll!Removed, Epoll!IndexOf, Epoll!Slots, Room, Epoll!Min, Min,
                      Epoll!Cardinality, Cardinality
  <2>5. m \in 0 .. clntNum - 1 /\ clntArr[m] = fd
    BY <2>3
  <2> HIDE DEF m, at
  <2> DEFINE n == clntNum
  <2>6. \A k \in 0 .. n - 2 : clntArr'[k] = clntArr[After(k, m)]
    BY <1>2, <2>4, <2>5 DEF After
  <2>7. EpollTyped'
    <3>1. clntArr' \in [0 .. Room -> Fds \cup {Serv}]
      BY <1>2, <2>4
    <3> QED
      BY <1>2, <2>4, <2>5, <3>1 DEF EpollInv, EpollTyped, OnEpoll
  <2>8. /\ n \in Nat /\ 0 .. clntNum' - 1 = 0 .. n - 2
    BY <1>2, <2>4
  <2>9. /\ \A k \in 0 .. n - 2 : After(k, m) \in (0 .. n - 1) \ {m}
        /\ \A k, l \in 0 .. n - 2 : After(k, m) = After(l, m) => k = l
        /\ \A j \in (0 .. n - 1) \ {m} : \E k \in 0 .. n - 2 : After(k, m) = j
    BY <2>5, <2>8, AfterSlots
  <2>10. ASSUME NEW k \in 0 .. n - 2
         PROVE  clntArr'[k] \in Fds /\ owner'[clntArr'[k]] # NoConn
    <3>1. After(k, m) \in 0 .. n - 1 /\ After(k, m) # m
      BY <2>9
    <3>2. clntArr[After(k, m)] \in Fds \ {fd} /\ owner[clntArr[After(k, m)]] # NoConn
      BY <2>1, <2>5, <3>1
    <3> QED
      BY <1>2, <2>6, <3>2
  <2>11. ASSUME NEW f \in Fds, owner'[f] # NoConn
         PROVE  \E k \in 0 .. n - 2 : clntArr'[k] = f
    <3>1. f # fd /\ owner[f] # NoConn
      BY <1>2, <2>11
    <3>2. PICK j \in 0 .. n - 1 : clntArr[j] = f
      BY <2>1, <3>1
    <3>3. j \in (0 .. n - 1) \ {m}
      BY <2>5, <3>1, <3>2
    <3>4. PICK k \in 0 .. n - 2 : After(k, m) = j
      BY <2>9, <3>3
    <3> QED
      BY <2>6, <3>2, <3>4
  <2>12. ASSUME NEW k \in 0 .. n - 2, NEW l \in 0 .. n - 2, clntArr'[k] = clntArr'[l]
         PROVE  k = l
    <3>1. After(k, m) \in 0 .. n - 1 /\ After(l, m) \in 0 .. n - 1
          /\ clntArr[After(k, m)] = clntArr[After(l, m)]
      BY <2>6, <2>9, <2>12
    <3>2. After(k, m) = After(l, m)
      BY <2>1, <3>1
    <3> QED
      BY <2>9, <3>2
  <2>13. Listed'
    BY <2>8, <2>10, <2>11, <2>12 DEF Listed
  <2> QED
    BY <1>3, <1>4, <2>7, <2>13 DEF EpollInv
<1> QED
  BY <1>5, <1>6

LEMMA EpollStep == ASSUME EpollInv, UNCHANGED program, Epoll!Next PROVE EpollInv'
<1>1. CASE Epoll!Server
  BY <1>1, EpollWaits, EpollAccept, EpollReads, EpollEnd DEF Epoll!Server
<1>2. CASE \E c \in Conns : (Epoll!Connect(c) /\ UNCHANGED Epoll!server) \/ Epoll!Arrives(c)
  BY <1>2, EpollClients
<1> QED
  BY <1>1, <1>2 DEF Epoll!Next, Epoll!EpollServ, Epoll!EPLTServ, Epoll!EPETProblem,
                    Epoll!EPETServ, Epoll!ChatEPETServ

-----------------------------------------------------------------------------
(* The invariants of one server in all of MCSocketServers.                   *)

LEMMA Starts ==
    ASSUME Init
    PROVE  /\ OnEvents => Async!Init
           /\ OnEpoll => Epoll!Init
<1>1. /\ Async!Init => OnEvents /\ ~OnEpoll
      /\ Epoll!Init => OnEpoll /\ ~OnEvents
  BY DEF Async!Init, Async!StartEchoServ, Async!StartChatServ, OnEvents, OnEpoll,
         Epoll!Init, Epoll!StartEpollServ, Epoll!StartEPLTServ, Epoll!StartEPETProblem,
         Epoll!StartEPETServ, Epoll!StartChatEPETServ
<1>2. /\ Iter!Init => ~OnEvents /\ ~OnEpoll
      /\ Forks!Init => ~OnEvents /\ ~OnEpoll
  BY DEF OnEvents, OnEpoll, Iter!Init, Iter!StartServer, Iter!StartServerWin,
         Iter!StartReuse, Iter!StartStd, Forks!Init, Forks!StartMpserv, Forks!StartStoreserv
<1>3. /\ Routines!Init => ~OnEvents /\ ~OnEpoll
      /\ Locked!Init => ~OnEvents /\ ~OnEpoll
      /\ Web!Init => ~OnEvents /\ ~OnEpoll
  BY DEF OnEvents, OnEpoll, Routines!Init, Locked!Init, Web!Init
<1>4. program \in {"select", "select_win"} => ~OnEvents /\ ~OnEpoll
  BY DEF OnEvents, OnEpoll
<1> QED
  BY <1>1, <1>2, <1>3, <1>4 DEF Init

LEMMA KeepsProgram ==
    ASSUME [Next]_vars
    PROVE  /\ program' = program
           /\ OnEvents => Async!Next \/ UNCHANGED vars
           /\ OnEpoll => Epoll!Next \/ UNCHANGED vars
<1>1. OnEvents => ~OnEpoll
  BY DEF OnEvents, OnEpoll
<1>2. /\ SelNext \/ WinNext \/ IterNext \/ ForksNext => ~OnEvents /\ ~OnEpoll
      /\ RoutinesNext \/ LockedNext \/ WebNext => ~OnEvents /\ ~OnEpoll
  BY DEF OnEvents, OnEpoll, SelNext, WinNext, IterNext, Iterates, ForksNext, OnForks,
         RoutinesNext, LockedNext, WebNext
<1>3. /\ EpollNext => OnEpoll /\ Epoll!Next
      /\ AsyncNext => OnEvents /\ Async!Next
  BY DEF EpollNext, AsyncNext
<1>4. program' = program
  BY DEF Next, SelNext, WinNext, EpollNext, AsyncNext, IterNext, ForksNext,
         RoutinesNext, LockedNext, WebNext, vars
<1> QED
  BY <1>1, <1>2, <1>3, <1>4 DEF Next

LEMMA AsyncUnchanged == ASSUME AsyncInv, UNCHANGED vars PROVE AsyncInv'
<1>1. UNCHANGED <<program, peer, backlog, sent, taken, owner, pc, i, hSockArr,
                  hEventArr, numOfClntSock, signaled, record>>
  BY DEF vars, net, asyncVars
<1>2. Network'
  BY <1>1 DEF AsyncInv, Network, NetTyped, OnePlace, Served, Waiting
<1>3. AsyncTyped' /\ Parallel'
  BY <1>1 DEF AsyncInv, AsyncTyped, OnEvents, Parallel
<1>4. Recorded' /\ Signaling'
  BY <1>1 DEF AsyncInv, Recorded, Signaling, HasData, Served
<1> QED
  BY <1>2, <1>3, <1>4 DEF AsyncInv

LEMMA AsyncAlways == Spec => [](OnEvents => AsyncInv)
<1>1. Init => (OnEvents => AsyncInv)
  BY Starts, AsyncStart
<1>2. (OnEvents => AsyncInv) /\ [Next]_vars => (OnEvents => AsyncInv)'
  <2> SUFFICES ASSUME OnEvents => AsyncInv, [Next]_vars, OnEvents'
               PROVE  AsyncInv'
    OBVIOUS
  <2>1. OnEvents /\ UNCHANGED program
    BY KeepsProgram DEF OnEvents
  <2> QED
    BY <2>1, KeepsProgram, AsyncStep, AsyncUnchanged
<1> QED
  BY <1>1, <1>2, PTL DEF Spec

\* No event of AsynNotiEchoServ_win.c or AsynNotiChatServ_win.c is lost: what a
\* client has sent, or its leaving, is signaled on an event object that main
\* waits for until main has dealt with it.
THEOREM NoLostEventHolds == Spec => []NoLostEvent
<1>1. (OnEvents => AsyncInv) => NoLostEvent
  <2> SUFFICES ASSUME AsyncInv, NEW c \in Served,
                      peer[c] = "shut" \/ (HasData(c) /\ peer[c] = "open")
               PROVE  c \in signaled /\ \E k \in 1 .. numOfClntSock - 1 : hEventArr[k] = c
    BY DEF NoLostEvent, Async!NoLostEvent, Async!Served, Served, Async!HasData, HasData
  <2>1. PICK f \in Fds : owner[f] = c
    BY DEF Served
  <2>2. owner[f] # NoConn
    BY <2>1, SocketsAssumption DEF Served
  <2>3. PICK k \in 1 .. numOfClntSock - 1 : hSockArr[k] = f
    BY <2>2 DEF AsyncInv, Parallel
  <2> QED
    BY <2>1, <2>3 DEF AsyncInv, Parallel, Signaling
<1> QED
  BY <1>1, AsyncAlways, PTL

LEMMA EpollUnchanged == ASSUME EpollInv, UNCHANGED vars PROVE EpollInv'
<1>1. UNCHANGED <<program, peer, backlog, sent, taken, owner, pc, fd, batch, clntArr, clntNum>>
  BY DEF vars, net, epollVars
<1>2. Network'
  BY <1>1 DEF EpollInv, Network, NetTyped, OnePlace, Served, Waiting
<1> QED
  BY <1>1, <1>2, EpollKeeps DEF EpollInv, Batched

LEMMA EpollAlways == Spec => [](OnEpoll => EpollInv)
<1>1. Init => (OnEpoll => EpollInv)
  BY Starts, EpollStart
<1>2. (OnEpoll => EpollInv) /\ [Next]_vars => (OnEpoll => EpollInv)'
  <2> SUFFICES ASSUME OnEpoll => EpollInv, [Next]_vars, OnEpoll'
               PROVE  EpollInv'
    OBVIOUS
  <2>1. OnEpoll /\ UNCHANGED program
    BY KeepsProgram DEF OnEpoll
  <2> QED
    BY <2>1, KeepsProgram, EpollStep, EpollUnchanged
<1> QED
  BY <1>1, <1>2, PTL DEF Spec

\* The arrays of clients are exact: clnt_arr of chat_EPETserv.c lists every
\* connected client once and nobody else, hSockArr and hEventArr of the event
\* programs stay parallel through CompressSockets and CompressEvents.
THEOREM RegistryExactHolds == Spec => []RegistryExact
<1>1. EpollInv => Epoll!RegistryExact
  <2> SUFFICES ASSUME EpollInv, program = "epoll_chat"
               PROVE  /\ clntNum = Epoll!Cardinality(Served)
                      /\ {owner[clntArr[k]] : k \in 0 .. clntNum - 1} = Served
    BY DEF Epoll!RegistryExact, Epoll!Chats, Epoll!Served, Served
  <2> DEFINE S == 0 .. clntNum - 1
             g == [k \in S |-> owner[clntArr[k]]]
  <2>1. /\ \A k \in S : clntArr[k] \in Fds /\ owner[clntArr[k]] # NoConn
        /\ \A f \in Fds : owner[f] # NoConn => \E k \in S : clntArr[k] = f
        /\ \A k, l \in S : clntArr[k] = clntArr[l] => k = l
    BY DEF EpollInv, Listed
  <2>2. /\ owner \in [Fds -> Conns \cup {NoConn}] /\ clntNum \in Nat
        /\ \A e, f \in Fds : owner[e] = owner[f] /\ owner[e] # NoConn => e = f
    BY RoomIsNat DEF EpollInv, Network, NetTyped, OnePlace, EpollTyped
  <2> HIDE DEF S
  <2>3. \A k \in S : g[k] \in Served
    BY <2>1, <2>2 DEF Served
  <2>4. \A k, l \in S : g[k] = g[l] => k = l
    BY <2>1, <2>2
  <2>5. \A c \in Served : \E k \in S : g[k] = c
    <3> SUFFICES ASSUME NEW c \in Served PROVE \E k \in S : g[k] = c
      OBVIOUS
    <3>1. PICK f \in Fds : owner[f] = c
      BY DEF Served
    <3>2. owner[f] # NoConn
      BY <3>1, SocketsAssumption DEF Served
    <3>3. PICK k \in S : clntArr[k] = f
      BY <2>1, <3>2
    <3> QED
      BY <3>1, <3>3
  <2>6. g \in Bijection(S, Served)
    <3>1. g \in [S -> Served]
      BY <2>3
    <3> HIDE DEF g
    <3> QED
      BY <3>1, <2>4, <2>5, Zenon DEF Bijection, Injection, Surjection, IsInjective
  <2>7. IsFiniteSet(S) /\ Cardinality(S) = clntNum
    BY <2>2, FS_Interval DEF S
  <2>8. Cardinality(Served) = clntNum
    <3>1. ExistsBijection(S, Served)
      BY <2>6 DEF ExistsBijection
    <3> QED
      BY <2>7, <3>1, FS_Bijection
  <2>9. {owner[clntArr[k]] : k \in S} = Served
    BY <2>3, <2>5
  <2>10. Epoll!Cardinality(Served) = Cardinality(Served)
    BY DEF Epoll!Cardinality, Cardinality
  <2> QED
    BY <2>8, <2>9, <2>10 DEF S
<1>2. AsyncInv => Async!Paired
  BY DEF AsyncInv, Parallel, Async!Paired
<1>3. (OnEpoll => EpollInv) /\ (OnEvents => AsyncInv) => RegistryExact
  BY <1>1, <1>2 DEF RegistryExact
<1> QED
  BY <1>3, AsyncAlways, EpollAlways, PTL

-----------------------------------------------------------------------------
(* What closes a connection.                                                 *)

Ended(c) == AtEnd(c) \/ Failed(c) \/ peer[c] = "gone"

\* A step that gives up only connections that have ended, and after which a
\* connection that has ended still has.
Orderly ==
    /\ NetTyped'
    /\ \A c \in Conns : Ended(c) => Ended(c)'
    /\ \A c \in Served \ Served' : Ended(c)

LEMMA EndedStays ==
    ASSUME NetTyped, NetTyped',
           \A c \in Conns :
              /\ taken'[c] >= taken[c]
              /\ peer[c] \in {"shut", "reset", "gone"} =>
                    sent'[c] = sent[c] /\ peer'[c] \in {"shut", "reset", "gone"}
              /\ peer[c] = "gone" => peer'[c] = "gone"
    PROVE  \A c \in Conns : Ended(c) => Ended(c)'
<1> SUFFICES ASSUME NEW c \in Conns, Ended(c) PROVE Ended(c)'
  OBVIOUS
<1>1. /\ sent[c] \in Nat /\ taken[c] \in Nat /\ sent'[c] \in Nat /\ taken'[c] \in Nat
  BY DEF NetTyped
<1>2. CASE peer[c] = "gone"
  BY <1>2 DEF Ended
<1>3. CASE ~(taken[c] < sent[c]) /\ peer[c] \in {"shut", "reset", "gone"}
  <2>1. ~(taken'[c] < sent'[c]) /\ peer'[c] \in {"shut", "reset", "gone"}
    BY <1>1, <1>3
  <2> QED
    BY <2>1 DEF Ended, AtEnd, Failed, HasData
<1> QED
  BY <1>2, <1>3 DEF Ended, AtEnd, Failed, HasData

LEMMA OrderlyIdle ==
    ASSUME NetTyped, UNCHANGED <<peer, backlog, sent, taken, owner>>
    PROVE  Orderly
BY DEF NetTyped, Orderly, Served, Ended, AtEnd, Failed, HasData

LEMMA OrderlyClient ==
    ASSUME NetTyped, NEW c \in Conns,
           Connect(c) \/ ClientSend(c) \/ ClientShut(c) \/ ClientReset(c)
    PROVE  Orderly
<1>0. /\ sent \in [Conns -> Nat] /\ taken \in [Conns -> Nat] /\ Quota[c] \in Nat
      /\ peer \in [Conns -> Peers] /\ backlog \in Seq(Conns)
      /\ owner \in [Fds -> Conns \cup {NoConn}]
  BY SocketsAssumption DEF NetTyped
<1>1. /\ UNCHANGED <<taken, owner>> /\ peer[c] \in {"none", "open"}
      /\ \E p \in {"open", "shut", "reset"} : peer' = [peer EXCEPT ![c] = p]
  BY <1>0 DEF Connect, ClientSend, ClientShut, ClientReset
<1>2. sent' \in [Conns -> Nat] /\ \A d \in Conns \ {c} : sent'[d] = sent[d]
  <2>1. CASE Connect(c)
    BY <1>0, <2>1 DEF Connect
  <2>2. CASE ClientSend(c)
    BY <1>0, <2>2 DEF ClientSend
  <2>3. CASE ClientShut(c)
    BY <1>0, <2>3 DEF ClientShut
  <2>4. CASE ClientReset(c)
    <3>1. taken[c] \in Nat /\ sent[c] \in Nat
      BY <1>0
    <3> QED
      BY <1>0, <2>4, <3>1 DEF ClientReset
  <2> QED
    BY <2>1, <2>2, <2>3, <2>4
<1>3. backlog' \in Seq(Conns)
  <2>1. Append(backlog, c) \in Seq(Conns)
    BY <1>0, AppendProperties
  <2> QED
    BY <1>0, <2>1 DEF Connect, ClientSend, ClientShut, ClientReset
<1>4. peer' \in [Conns -> Peers] /\ \A d \in Conns \ {c} : peer'[d] = peer[d]
  BY <1>0, <1>1 DEF Peers
<1>5. NetTyped'
  BY <1>0, <1>1, <1>2, <1>3, <1>4 DEF NetTyped
<1>6. \A d \in Conns : taken'[d] >= taken[d]
  BY <1>0, <1>1
<1>7. \A d \in Conns : Ended(d) => Ended(d)'
  BY <1>1, <1>2, <1>4, <1>5, <1>6, EndedStays
<1> QED
  BY <1>1, <1>5, <1>7 DEF Orderly, Served

LEMMA OrderlyAccept ==
    ASSUME NetTyped, NEW f, AcceptAs(f), UNCHANGED <<peer, sent, taken>>
    PROVE  Orderly
<1>1. /\ Head(backlog) \in Conns /\ Tail(backlog) \in Seq(Conns) /\ owner[f] = NoConn
      /\ owner' = [owner EXCEPT ![f] = Head(backlog)] /\ backlog' = Tail(backlog)
      /\ owner \in [Fds -> Conns \cup {NoConn}]
  BY HeadTailProperties, EmptySeq DEF AcceptAs, NetTyped
<1>2. NetTyped'
  BY <1>1 DEF NetTyped
<1>3. ASSUME NEW c \in Served PROVE c \in Served'
  <2>1. PICK g \in Fds : owner[g] = c
    BY DEF Served
  <2>2. g # f /\ c \in Conns
    BY <1>1, <2>1, SocketsAssumption DEF Served
  <2> QED
    BY <1>1, <2>1, <2>2 DEF Served
<1> QED
  BY <1>2, <1>3 DEF Orderly, Ended, AtEnd, Failed, HasData

\* Reading a broken connection.
LEMMA OrderlyFail ==
    ASSUME NetTyped, NEW c, Failed(c), peer' = [peer EXCEPT ![c] = Reported(c)],
           UNCHANGED <<sent, taken, backlog, owner>>
    PROVE  Orderly
<1>1. /\ peer' \in [Conns -> Peers]
      /\ \A d \in Conns : \/ peer'[d] = peer[d]
                          \/ peer[d] = "reset" /\ peer'[d] = "gone"
  BY DEF NetTyped, Peers, Failed, Reported
<1>2. NetTyped' /\ \A d \in Conns : taken'[d] >= taken[d]
  BY <1>1 DEF NetTyped
<1>3. \A d \in Conns : Ended(d) => Ended(d)'
  BY <1>1, <1>2, EndedStays
<1> QED
  BY <1>2, <1>3 DEF Orderly, Served

\* Giving up connections that have ended.
LEMMA OrderlyClose ==
    ASSUME NetTyped, NEW left, owner' = [f \in Fds |-> IF f \in left THEN NoConn ELSE owner[f]],
           \A f \in left : owner[f] \in Conns => Ended(owner[f]),
           NEW c, taken' = [taken EXCEPT ![c] = @ + 1] \/ UNCHANGED taken,
           NEW cs, UNCHANGED peer \/ Transmit(cs),
           UNCHANGED <<sent, backlog>>
    PROVE  Orderly
<1>1. taken' \in [Conns -> Nat] /\ \A d \in Conns : taken'[d] >= taken[d]
  <2>0. taken \in [Conns -> Nat]
    BY DEF NetTyped
  <2>1. CASE c \in Conns
    BY <2>0, <2>1
  <2>2. CASE c \notin Conns
    <3>1. taken' = taken
      BY <2>0, <2>2
    <3> QED
      BY <2>0, <3>1
  <2> QED
    BY <2>1, <2>2
<1>2. /\ peer' \in [Conns -> Peers]
      /\ \A d \in Conns : \/ peer'[d] = peer[d]
                          \/ peer[d] \in {"shut", "reset"} /\ peer'[d] \in {"reset", "gone"}
  <2>1. CASE UNCHANGED peer
    BY <2>1 DEF NetTyped
  <2>2. CASE Transmit(cs)
    BY <2>2, TransmitStep
  <2> QED
    BY <2>1, <2>2
<1>3. NetTyped'
  BY <1>1, <1>2 DEF NetTyped
<1>4. \A d \in Conns : Ended(d) => Ended(d)'
  BY <1>1, <1>2, <1>3, EndedStays
<1>5. ASSUME NEW d \in Served \ Served' PROVE Ended(d)
  <2>1. PICK f \in Fds : owner[f] = d
    BY DEF Served
  <2>2. d \in Conns /\ owner'[f] # d
    BY DEF Served
  <2> QED
    BY <2>1, <2>2
<1> QED
  BY <1>3, <1>4, <1>5 DEF Orderly
\* A read, with the write that follows it.
LEMMA OrderlyRead ==
    ASSUME NetTyped, NEW c, taken' = [taken EXCEPT ![c] = @ + 1] \/ UNCHANGED taken,
           NEW cs, UNCHANGED peer \/ Transmit(cs),
           UNCHANGED <<sent, backlog, owner>>
    PROVE  Orderly
<1> DEFINE left == {}
<1>1. owner' = [f \in Fds |-> IF f \in left THEN NoConn ELSE owner[f]]
  BY DEF NetTyped
<1>2. \A f \in left : owner[f] \in Conns => Ended(owner[f])
  OBVIOUS
<1> HIDE DEF left
<1> QED
  BY <1>1, <1>2, OrderlyClose

\* close of one descriptor.
LEMMA OrderlyCloseFd ==
    ASSUME NetTyped, NEW f, owner' = [owner EXCEPT ![f] = NoConn], Ended(owner[f]),
           NEW cs, UNCHANGED peer \/ Transmit(cs),
           UNCHANGED <<sent, taken, backlog>>
    PROVE  Orderly
<1>1. owner' = [g \in Fds |-> IF g \in {f} THEN NoConn ELSE owner[g]]
  BY DEF NetTyped
<1> QED
  BY <1>1, OrderlyClose

\* echo_selectserv.c
LEMMA SelOrderly == ASSUME NetTyped, Sel!Next PROVE Orderly
<1> USE DEF Sel!net, Sel!server
<1>1. CASE \E c \in Conns : Sel!Client(c) /\ UNCHANGED Sel!server
  <2>1. \E c \in Conns : Connect(c) \/ ClientSend(c) \/ ClientShut(c) \/ ClientReset(c)
    BY <1>1 DEF Sel!Client, Sel!Connect, Connect, Sel!ClientSend, ClientSend,
                Sel!ClientShut, ClientShut, Sel!ClientReset, ClientReset
  <2> QED
    BY <2>1, OrderlyClient
<1>2. CASE Sel!Select \/ Sel!ScanEnds
  BY <1>2, OrderlyIdle DEF Sel!Select, Sel!ScanEnds
<1>3. CASE Sel!Accept
  <2> DEFINE f == Sel!LowestFree
  <2>1. AcceptAs(f) /\ UNCHANGED <<peer, sent, taken>>
    BY <1>3 DEF Sel!Accept, Sel!AcceptAs, AcceptAs
  <2> HIDE DEF f
  <2> QED
    BY <2>1, OrderlyAccept
<1>4. CASE \E f \in Fds : Sel!Echo(f)
  <2> PICK f \in Fds : Sel!Echo(f)
    BY <1>4
  <2> DEFINE c == owner[f]
  <2>1. /\ taken' = [taken EXCEPT ![c] = @ + 1]
        /\ UNCHANGED peer \/ Transmit({c})
        /\ UNCHANGED <<sent, backlog, owner>>
    BY DEF Sel!Echo, Sel!TakeUnit, Sel!WriteTo, Sel!Transmit, Transmit,
           Sel!Reported, Reported, Sel!OnWindows, OnWindows
  <2> HIDE DEF c
  <2> QED
    BY <2>1, OrderlyRead
<1>5. CASE \E f \in Fds : Sel!Close(f)
  <2> PICK f \in Fds : Sel!Close(f)
    BY <1>5
  <2>1. /\ owner' = [owner EXCEPT ![f] = NoConn] /\ AtEnd(owner[f])
        /\ UNCHANGED <<peer, taken, sent, backlog>>
    BY DEF Sel!Close, Sel!CloseFd, Sel!AtEnd, AtEnd, Sel!HasData, HasData
  <2> QED
    BY <2>1, OrderlyCloseFd DEF Ended
<1>6. CASE \E f \in Fds : Sel!Fail(f)
  <2> PICK f \in Fds : Sel!Fail(f)
    BY <1>6
  <2>1. /\ Failed(owner[f]) /\ peer' = [peer EXCEPT ![owner[f]] = Reported(owner[f])]
        /\ UNCHANGED <<sent, taken, backlog, owner>>
    BY DEF Sel!Fail, Sel!Failed, Failed, Sel!HasData, HasData,
           Sel!Reported, Reported, Sel!OnWindows, OnWindows
  <2> QED
    BY <2>1, OrderlyFail
<1> QED
  BY <1>1, <1>2, <1>3, <1>4, <1>5, <1>6 DEF Sel!Next, Sel!Server

\* echo_server.c, echo_server_win.c, reuseaddr_eserver.c and echo_stdserver.c
LEMMA IterOrderly == ASSUME NetTyped, Iter!Next PROVE Orderly
<1> USE DEF Iter!net, Iter!server
<1>1. CASE \E c \in Conns : Iter!Client(c) /\ UNCHANGED Iter!server
  <2>1. \E c \in Conns : Connect(c) \/ ClientSend(c) \/ ClientShut(c) \/ ClientReset(c)
    BY <1>1 DEF Iter!Client, Iter!Connect, Connect, Iter!ClientSend, ClientSend,
                Iter!ClientShut, ClientShut, Iter!ClientReset, ClientReset
  <2> QED
    BY <2>1, OrderlyClient
<1>2. CASE Iter!EndServer
  BY <1>2, OrderlyIdle DEF Iter!EndServer
<1>3. CASE \E f \in Fds : Iter!Accept(f)
  <2>1. PICK f \in Fds : AcceptAs(f) /\ UNCHANGED <<peer, sent, taken>>
    BY <1>3 DEF Iter!Accept, Iter!AcceptAs, AcceptAs
  <2> QED
    BY <2>1, OrderlyAccept
<1> DEFINE c == owner[fd]
<1>4. CASE Iter!Echo
  <2>1. /\ taken' = [taken EXCEPT ![c] = @ + 1]
        /\ UNCHANGED peer \/ Transmit({c})
        /\ UNCHANGED <<sent, backlog, owner>>
    BY <1>4 DEF Iter!Echo, Iter!TakeUnit, Iter!WriteTo, Iter!Transmit, Transmit,
           Iter!Reported, Reported, Iter!OnWindows, OnWindows
  <2> HIDE DEF c
  <2> QED
    BY <2>1, OrderlyRead
<1>5. CASE Iter!Close
  <2>1. /\ owner' = [owner EXCEPT ![fd] = NoConn] /\ AtEnd(c)
        /\ UNCHANGED <<peer, taken, sent, backlog>>
    BY <1>5 DEF Iter!Close, Iter!CloseFd, Iter!AtEnd, AtEnd, Iter!HasData, HasData
  <2> QED
    BY <2>1, OrderlyCloseFd DEF Ended
<1>6. CASE Iter!Fail
  <2>1. /\ Failed(c) /\ peer' = [peer EXCEPT ![c] = Reported(c)]
        /\ UNCHANGED <<sent, taken, backlog, owner>>
    BY <1>6 DEF Iter!Fail, Iter!Failed, Failed, Iter!HasData, HasData,
           Iter!Reported, Reported, Iter!OnWindows, OnWindows
  <2> HIDE DEF c
  <2> QED
    BY <2>1, OrderlyFail
<1>7. CASE Iter!StdEnd
  <2>1. /\ \/ UNCHANGED <<peer, owner>>
           \/ AtEnd(c) /\ Transmit({c}) /\ owner' = [owner EXCEPT ![fd] = NoConn]
        /\ UNCHANGED <<taken, sent, backlog>>
    BY <1>7 DEF Iter!StdEnd, Iter!CloseFd, Iter!AtEnd, AtEnd, Iter!Failed, Failed,
           Iter!HasData, HasData, Iter!Transmit, Transmit, Iter!Reported, Reported,
           Iter!OnWindows, OnWindows
  <2> HIDE DEF c
  <2>2. CASE UNCHANGED <<peer, owner>>
    BY <2>1, <2>2, OrderlyIdle
  <2>3. CASE AtEnd(c) /\ Transmit({c}) /\ owner' = [owner EXCEPT ![fd] = NoConn]
    BY <2>1, <2>3, OrderlyCloseFd DEF Ended, c
  <2> QED
    BY <2>1, <2>2, <2>3
<1> QED
  BY <1>1, <1>2, <1>3, <1>4, <1>5, <1>6, <1>7
     DEF Iter!Next, Iter!Server, Iter!EchoServer, Iter!EchoServerWin,
         Iter!ReuseaddrEserver, Iter!EchoStdserver, Iter!Plain

\* A child that has exited had a client that has ended.
ForksInv ==
    /\ NetTyped
    /\ kid \in [Conns -> {"none", "serve", "pipe", "zombie", "reaped"}]
    /\ \A c \in Conns : kid[c] \in {"zombie", "reaped"} => Ended(c)

\* echo_mpserv.c and echo_storeserv.c
LEMMA ForksOrderly == ASSUME ForksInv, Forks!Next PROVE Orderly /\ ForksInv'
<1> USE DEF Forks!net, Forks!server
<1>0. NetTyped
  BY DEF ForksInv
<1>k. ASSUME Orderly,
             \A c \in Conns : \/ kid'[c] = kid[c]
                              \/ kid'[c] \in {"serve", "pipe"}
                              \/ kid[c] = "zombie" /\ kid'[c] = "reaped"
                              \/ kid'[c] = "zombie" /\ Ended(c),
             kid' \in [Conns -> {"none", "serve", "pipe", "zombie", "reaped"}]
      PROVE  Orderly /\ ForksInv'
  BY <1>k DEF Orderly, ForksInv
<1>1. CASE \E c \in Conns : Forks!Client(c) /\ UNCHANGED Forks!server
  <2>1. \E c \in Conns : Connect(c) \/ ClientSend(c) \/ ClientShut(c) \/ ClientReset(c)
    BY <1>1 DEF Forks!Client, Forks!Connect, Connect, Forks!ClientSend, ClientSend,
                Forks!ClientShut, ClientShut, Forks!ClientReset, ClientReset
  <2> QED
    BY <1>0, <1>1, <1>k, <2>1, OrderlyClient DEF ForksInv
<1>2. CASE Forks!Fork \/ Forks!Reap \/ Forks!Store \/ \E c \in Conns : Forks!KidStores(c)
  <2>1. UNCHANGED <<peer, backlog, sent, taken, owner>>
    BY <1>2 DEF Forks!Fork, Forks!Reap, Forks!Store, Forks!KidStores
  <2>2. CASE Forks!Fork
    BY <1>0, <1>k, <2>1, <2>2, OrderlyIdle DEF Forks!Fork, ForksInv
  <2>3. CASE Forks!Reap
    BY <1>0, <1>k, <2>1, <2>3, OrderlyIdle DEF Forks!Reap, ForksInv
  <2>4. CASE Forks!Store
    BY <1>0, <1>k, <2>1, <2>4, OrderlyIdle DEF Forks!Store, ForksInv
  <2>5. CASE \E c \in Conns : Forks!KidStores(c)
    BY <1>0, <1>k, <2>1, <2>5, OrderlyIdle DEF Forks!KidStores, ForksInv
  <2> QED
    BY <1>2, <2>2, <2>3, <2>4, <2>5
<1>3. CASE Forks!Accept
  <2> DEFINE f == Forks!LowestFree
  <2>1. AcceptAs(f) /\ UNCHANGED <<peer, sent, taken, kid>>
    BY <1>3 DEF Forks!Accept, Forks!AcceptAs, AcceptAs
  <2> HIDE DEF f
  <2> QED
    BY <1>0, <1>k, <2>1, OrderlyAccept DEF ForksInv
<1>4. CASE Forks!ParentClose
  <2>1. /\ UNCHANGED <<peer, sent, taken, backlog, kid>>
        /\ \/ kid[owner[fd]] \in {"zombie", "reaped"} /\ owner' = [owner EXCEPT ![fd] = NoConn]
           \/ UNCHANGED owner
    BY <1>4 DEF Forks!ParentClose, Forks!CloseFd
  <2>2. CASE UNCHANGED owner
    BY <1>0, <1>k, <2>1, <2>2, OrderlyIdle DEF ForksInv
  <2>3. CASE kid[owner[fd]] \in {"zombie", "reaped"} /\ owner' = [owner EXCEPT ![fd] = NoConn]
    <3> DEFINE left == {fd}
    <3>1. owner' = [g \in Fds |-> IF g \in left THEN NoConn ELSE owner[g]]
      BY <1>0, <2>3 DEF NetTyped
    <3>2. \A f \in left : owner[f] \in Conns => Ended(owner[f])
      BY <2>3 DEF ForksInv
    <3> HIDE DEF left
    <3> QED
      BY <1>0, <1>k, <2>1, <3>1, <3>2, OrderlyClose DEF ForksInv
  <2> QED
    BY <2>1, <2>2, <2>3
<1>5. ASSUME NEW c \in Conns, Forks!Kid(c) PROVE Orderly /\ ForksInv'
  <2> DEFINE left == {f \in Fds : owner[f] = c /\ f # fd}
  <2>1. Forks!Exit(c) => /\ kid' = [kid EXCEPT ![c] = "zombie"]
                         /\ owner' = [f \in Fds |-> IF f \in left THEN NoConn ELSE owner[f]]
    BY DEF Forks!Exit
  <2>2. Ended(c) => \A f \in left : owner[f] \in Conns => Ended(owner[f])
    OBVIOUS
  <2> HIDE DEF left
  <2>3. CASE Forks!KidEnds(c)
    <3>1. Ended(c) /\ Forks!Exit(c) /\ UNCHANGED <<peer, sent, taken, backlog>>
      BY <2>3 DEF Forks!KidEnds, Forks!AtEnd, Ended, AtEnd, Forks!HasData, HasData
    <3> QED
      BY <1>0, <1>k, <2>1, <2>2, <3>1, OrderlyClose DEF ForksInv
  <2>4. CASE Forks!KidEchoes(c)
    <3>1. /\ taken' = [taken EXCEPT ![c] = @ + 1]
          /\ UNCHANGED <<sent, backlog>>
          /\ \/ peer[c] = "gone" /\ Forks!Exit(c) /\ UNCHANGED peer
             \/ /\ Transmit({c}) /\ UNCHANGED owner
                /\ kid' = [kid EXCEPT ![c] = "pipe"] \/ UNCHANGED kid
      BY <2>4 DEF Forks!KidEchoes, Forks!TakeUnit, Forks!RaisesSigpipe, Forks!WriteTo,
             Forks!Transmit, Transmit, Forks!Reported, Reported, Forks!OnWindows, OnWindows
    <3>2. CASE peer[c] = "gone" /\ Forks!Exit(c) /\ UNCHANGED peer
      BY <1>0, <1>k, <2>1, <2>2, <3>1, <3>2, OrderlyClose DEF ForksInv, Ended
    <3>3. CASE Transmit({c}) /\ UNCHANGED owner /\ (kid' = [kid EXCEPT ![c] = "pipe"] \/ UNCHANGED kid)
      BY <1>0, <1>k, <3>1, <3>3, OrderlyRead DEF ForksInv
    <3> QED
      BY <3>1, <3>2, <3>3
  <2>5. CASE Forks!KidFails(c)
    <3>1. /\ Failed(c) /\ peer' = [peer EXCEPT ![c] = Reported(c)]
          /\ UNCHANGED <<sent, taken, backlog, owner, kid>>
      BY <2>5 DEF Forks!KidFails, Forks!Failed, Failed, Forks!HasData, HasData,
             Forks!Reported, Reported, Forks!OnWindows, OnWindows
    <3> QED
      BY <1>0, <1>k, <3>1, OrderlyFail DEF ForksInv
  <2> QED
    BY <1>5, <2>3, <2>4, <2>5 DEF Forks!Kid
<1> QED
  BY <1>1, <1>2, <1>3, <1>4, <1>5
     DEF Forks!Next, Forks!Server, Forks!EchoMpserv, Forks!EchoStoreserv, Forks!Parent

\* A receive that brought nothing was on a connection that has ended.
RoutinesInv ==
    /\ NetTyped
    /\ op \in [Conns -> {"none", "recv", "recvd", "send", "sent", "failed"}]
    /\ msg \in [Conns -> Unit \cup {Routines!NoUnit}]
    /\ \A c \in Conns : op[c] = "recvd" /\ msg[c] = Routines!NoUnit => Ended(c)

\* CmplRouEchoServ_win.c
LEMMA RoutinesOrderly == ASSUME RoutinesInv, Routines!Next PROVE Orderly /\ RoutinesInv'
<1> USE DEF Routines!net, Routines!server
<1>0. NetTyped
  BY DEF RoutinesInv
<1>k. ASSUME Orderly,
             op' \in [Conns -> {"none", "recv", "recvd", "send", "sent", "failed"}],
             msg' \in [Conns -> Unit \cup {Routines!NoUnit}],
             \A c \in Conns : \/ op'[c] = op[c] /\ msg'[c] = msg[c]
                              \/ op'[c] # "recvd"
                              \/ msg'[c] # Routines!NoUnit
                              \/ Ended(c)
      PROVE  Orderly /\ RoutinesInv'
  <2>1. \A c \in Conns : op'[c] = "recvd" /\ msg'[c] = Routines!NoUnit => Ended(c)
    BY <1>k DEF RoutinesInv
  <2>2. NetTyped' /\ \A c \in Conns : Ended(c) => Ended(c)'
    BY <1>k DEF Orderly
  <2>3. Routines!NoUnit' = Routines!NoUnit /\ Unit' = Unit
    BY DEF Routines!NoUnit, Unit
  <2> QED
    BY <1>k, <2>1, <2>2, <2>3 DEF RoutinesInv
<1>1. CASE \E c \in Conns : Routines!Client(c) /\ UNCHANGED Routines!server
  <2>1. \E c \in Conns : Connect(c) \/ ClientSend(c) \/ ClientShut(c) \/ ClientReset(c)
    BY <1>1 DEF Routines!Client, Routines!Connect, Connect, Routines!ClientSend, ClientSend,
                Routines!ClientShut, ClientShut, Routines!ClientReset, ClientReset
  <2> QED
    BY <1>0, <1>1, <1>k, <2>1, OrderlyClient DEF RoutinesInv
<1>2. CASE Routines!Wake
  BY <1>0, <1>k, <1>2, OrderlyIdle DEF Routines!Wake, RoutinesInv
<1>p. ASSUME NEW d, NEW call \in {"recv", "send"}, Routines!Post(d, call)
      PROVE  /\ op' \in [Conns -> {"none", "recv", "recvd", "send", "sent", "failed"}]
             /\ \A c \in Conns : op'[c] = op[c] \/ op'[c] # "recvd"
  BY <1>p DEF Routines!Post, RoutinesInv
<1>3. CASE \E f \in Fds : Routines!Accept(f)
  <2>1. PICK f \in Fds : /\ AcceptAs(f) /\ UNCHANGED <<peer, sent, taken, msg>>
                         /\ Routines!Post(Head(backlog), "recv")
    BY <1>3 DEF Routines!Accept, Routines!AcceptAs, AcceptAs
  <2> QED
    BY <1>0, <1>k, <1>p, <2>1, OrderlyAccept DEF RoutinesInv
<1>4. ASSUME NEW c \in Conns, Routines!ReceiveCompletes(c) PROVE Orderly /\ RoutinesInv'
  <2>0. op' = [op EXCEPT ![c] = "recvd"] /\ UNCHANGED <<peer, backlog, sent, owner>>
    BY <1>4 DEF Routines!ReceiveCompletes
  <2>1. CASE HasData(c)
    <3>1. /\ taken' = [taken EXCEPT ![c] = @ + 1]
          /\ msg' = [msg EXCEPT ![c] = [from |-> c, num |-> taken[c] + 1]]
      BY <1>4, <2>1 DEF Routines!ReceiveCompletes, Routines!HasData, HasData,
         Routines!TakeUnit, Routines!NextUnit
    <3>2. taken[c] + 1 \in Nat
      BY <1>0 DEF NetTyped
    <3>3. [from |-> c, num |-> taken[c] + 1] \in Unit
      BY <3>2 DEF Unit
    <3>4. [from |-> c, num |-> taken[c] + 1] # Routines!NoUnit
      BY SocketsAssumption DEF Routines!NoUnit
    <3>5. Orderly
      BY <1>0, <2>0, <3>1, OrderlyRead
    <3> QED
      BY <1>k, <2>0, <3>1, <3>3, <3>4, <3>5 DEF RoutinesInv
  <2>2. CASE ~HasData(c)
    <3>1. /\ msg' = [msg EXCEPT ![c] = Routines!NoUnit] /\ UNCHANGED taken
          /\ Ended(c)
      BY <1>4, <2>2 DEF Routines!ReceiveCompletes, Routines!Readable, Routines!AtEnd, AtEnd,
         Routines!Failed, Failed, Routines!HasData, HasData, Ended
    <3> QED
      BY <1>0, <1>k, <2>0, <3>1, OrderlyIdle DEF RoutinesInv
  <2> QED
    BY <2>1, <2>2
<1>5. ASSUME NEW c \in Conns, Routines!SendCompletes(c) PROVE Orderly /\ RoutinesInv'
  <2>1. /\ Transmit({c}) /\ op' = [op EXCEPT ![c] = "sent"]
        /\ UNCHANGED <<backlog, sent, taken, owner, msg>>
    BY <1>5 DEF Routines!SendCompletes, Routines!WriteTo, Routines!Transmit, Transmit,
       Routines!Reported, Reported, Routines!OnWindows, OnWindows
  <2> QED
    BY <1>0, <1>k, <2>1, OrderlyRead DEF RoutinesInv
<1>6. ASSUME NEW c \in Conns, Routines!ReadEnd(c) PROVE Orderly /\ RoutinesInv'
  <2> DEFINE left == {f \in Fds : owner[f] = c}
  <2>1. /\ owner' = [f \in Fds |-> IF f \in left THEN NoConn ELSE owner[f]]
        /\ op[c] = "recvd" /\ msg[c] = Routines!NoUnit
        /\ op' = [op EXCEPT ![c] = "none"]
        /\ UNCHANGED <<peer, backlog, sent, taken, msg>>
    BY <1>6 DEF Routines!ReadEnd, Routines!Due
  <2>2. Ended(c)
    BY <2>1 DEF RoutinesInv
  <2>3. \A f \in left : owner[f] \in Conns => Ended(owner[f])
    BY <2>2
  <2> HIDE DEF left
  <2> QED
    BY <1>0, <1>k, <2>1, <2>3, OrderlyClose DEF RoutinesInv
<1>7. ASSUME NEW c \in Conns, Routines!ReadCompRoutine(c) \/ Routines!WriteCompRoutine(c)
      PROVE  Orderly /\ RoutinesInv'
  <2>1. /\ UNCHANGED <<peer, backlog, sent, taken, owner, msg>>
        /\ Routines!Post(c, "send") \/ Routines!Post(c, "recv")
    BY <1>7 DEF Routines!ReadCompRoutine, Routines!WriteCompRoutine
  <2> QED
    BY <1>0, <1>k, <1>p, <2>1, OrderlyIdle DEF RoutinesInv
<1> QED
  BY <1>1, <1>2, <1>3, <1>4, <1>5, <1>6, <1>7
     DEF Routines!Next, Routines!Server, Routines!Routine

\* Only FD_CLOSE, of a client that has left, closes a socket of the event
\* programs.
LEMMA AsyncCloses ==
    ASSUME AsyncInv, Async!Next, NEW c \in Served \ Served'
    PROVE  peer[c] # "open"
<1>1. ASSUME UNCHANGED owner PROVE FALSE
  BY <1>1 DEF Served
<1>2. ASSUME NEW f \in Fds, Async!Accept(f) PROVE FALSE
  <2>1. AcceptAs(f) /\ UNCHANGED <<peer, sent, taken>>
    BY <1>2 DEF Async!Accept, Async!AcceptAs, AcceptAs
  <2> QED
    BY <2>1, NetworkAccept DEF AsyncInv
<1>3. ASSUME NEW f \in Fds, Async!Close(f) PROVE peer[c] # "open"
  <2>1. CloseFd(f) /\ "CLOSE" \in record[owner[f]]
    BY <1>3 DEF Async!Close, Async!CloseFd, CloseFd
  <2>2. c = owner[f] /\ c \in Conns
    BY <2>1, ServedClose DEF AsyncInv, Served
  <2> QED
    BY <2>1, <2>2 DEF AsyncInv, Recorded
<1>4. UNCHANGED owner \/ \E f \in Fds : Async!Accept(f) \/ Async!Close(f)
  BY DEF Async!Next, Async!EchoServ, Async!ChatServ, Async!Server, Async!Wait,
         Async!ScanEnds, Async!Skip, Async!Read, Async!Abort, Async!ConnectSignals,
         Async!Arrives, Async!Connect, Async!ClientSend, Async!ClientShut,
         Async!ClientReset, Async!net
<1> QED
  BY <1>1, <1>2, <1>3, <1>4

LEMMA EpollCloses ==
    ASSUME EpollInv, Epoll!Next, NEW c \in Served \ Served'
    PROVE  Ended(c)
<1>1. ASSUME UNCHANGED owner PROVE FALSE
  BY <1>1 DEF Served
<1>2. ASSUME Epoll!Accept PROVE FALSE
  <2> DEFINE f == Epoll!LowestFree
  <2>1. AcceptAs(f) /\ f \in Fds /\ UNCHANGED <<peer, sent, taken>>
    BY <1>2 DEF Epoll!Accept, Epoll!AcceptAs, AcceptAs
  <2> HIDE DEF f
  <2> QED
    BY <2>1, NetworkAccept DEF EpollInv
<1>3. ASSUME Epoll!ReadEnd PROVE Ended(c)
  <2>1. CloseFd(fd) /\ AtEnd(owner[fd]) /\ pc = "read"
    BY <1>3 DEF Epoll!ReadEnd, Epoll!CloseFd, CloseFd, Epoll!AtEnd, AtEnd,
                Epoll!HasData, HasData
  <2>2. c = owner[fd]
    BY <2>1, ServedClose DEF EpollInv, Batched
  <2> QED
    BY <2>1, <2>2 DEF Ended
<1>4. UNCHANGED owner \/ Epoll!Accept \/ Epoll!ReadEnd
  BY DEF Epoll!Next, Epoll!EpollServ, Epoll!EPLTServ, Epoll!EPETProblem,
         Epoll!EPETServ, Epoll!ChatEPETServ, Epoll!Server, Epoll!Wait, Epoll!Pick,
         Epoll!BatchEnds, Epoll!ReadData, Epoll!ReadFails, Epoll!ReadAgain, Epoll!Arrives,
         Epoll!Connect, Epoll!ClientSend, Epoll!ClientShut, Epoll!ClientReset, Epoll!net
<1> QED
  BY <1>1, <1>2, <1>3, <1>4

OthersInv ==
    /\ program = "select" \/ Iterates => NetTyped
    /\ OnForks => ForksInv
    /\ program = "routines" => RoutinesInv

LEMMA OthersStart == ASSUME Init PROVE OthersInv
<1>1. NetInit => NetTyped
  BY DEF NetInit, NetTyped, Peers
<1>2. CASE Sel!Init /\ program = "select"
  BY <1>1, <1>2 DEF OthersInv, Iterates, OnForks, Sel!Init, Sel!NetInit, NetInit
<1>3. CASE Iter!Init
  <2>1. NetInit /\ Iterates
    BY <1>3 DEF Iter!Init, Iter!StartServer, Iter!StartServerWin, Iter!StartReuse,
       Iter!StartStd, Iter!Listening, Iter!NetInit, NetInit, Iterates
  <2> QED
    BY <1>1, <2>1 DEF OthersInv, Iterates, OnForks
<1>4. CASE Forks!Init
  <2>1. NetInit /\ OnForks /\ kid = [c \in Conns |-> "none"]
    BY <1>4 DEF Forks!Init, Forks!StartMpserv, Forks!StartStoreserv, Forks!Listening,
       Forks!NetInit, NetInit, OnForks
  <2>2. ForksInv
    BY <1>1, <2>1 DEF ForksInv
  <2> QED
    BY <2>1, <2>2 DEF OthersInv, Iterates, OnForks
<1>5. CASE Routines!Init
  <2>1. /\ NetInit /\ program = "routines" /\ op = [c \in Conns |-> "none"]
        /\ msg = [c \in Conns |-> Routines!NoUnit]
    BY <1>5 DEF Routines!Init, Routines!NetInit, NetInit
  <2>2. RoutinesInv
    BY <1>1, <2>1 DEF RoutinesInv
  <2> QED
    BY <2>1, <2>2 DEF OthersInv, Iterates, OnForks
<1>6. CASE program \in {"select_win", "locked", "web"} \/ OnEpoll \/ OnEvents
  BY <1>6 DEF OthersInv, Iterates, OnForks, OnEpoll, OnEvents
<1>7. \/ Sel!Init /\ program = "select"
      \/ Iter!Init \/ Forks!Init \/ Routines!Init
      \/ program \in {"select_win", "locked", "web"} \/ OnEpoll \/ OnEvents
  BY Starts DEF Init, Locked!Init, Web!Init, Epoll!Init, Epoll!StartEpollServ,
     Epoll!StartEPLTServ, Epoll!StartEPETProblem, Epoll!StartEPETServ,
     Epoll!StartChatEPETServ, Async!Init, Async!StartEchoServ, Async!StartChatServ,
     OnEpoll, OnEvents
<1> QED
  BY <1>2, <1>3, <1>4, <1>5, <1>6, <1>7

LEMMA OthersUnchanged == ASSUME OthersInv, UNCHANGED vars PROVE OthersInv'
<1>1. UNCHANGED <<program, peer, backlog, sent, taken, owner, kid, op, msg>>
  BY DEF vars, net, forkVars, routineVars
<1>2. NetTyped => NetTyped'
  BY <1>1 DEF NetTyped
<1>3. ForksInv => ForksInv'
  BY <1>1, <1>2 DEF ForksInv, Ended, AtEnd, Failed, HasData
<1>4. RoutinesInv => RoutinesInv'
  BY <1>1, <1>2 DEF RoutinesInv, Ended, AtEnd, Failed, HasData, Routines!NoUnit, Unit
<1> QED
  BY <1>1, <1>2, <1>3, <1>4 DEF OthersInv, Iterates, OnForks

\* One step of the others keeps their invariant and closes in order.
LEMMA OthersStep ==
    ASSUME OthersInv, Next
    PROVE  /\ OthersInv'
           /\ program = "select" \/ Iterates \/ OnForks \/ program = "routines"
                => \A c \in Served \ Served' : Ended(c)
<1>0. program' = program
  BY KeepsProgram
<1>1. CASE SelNext
  <2>1. Orderly /\ program = "select"
    BY <1>1, SelOrderly DEF SelNext, OthersInv
  <2> QED
    BY <1>0, <2>1 DEF Orderly, OthersInv, Iterates, OnForks
<1>2. CASE IterNext
  <2>1. Orderly /\ Iterates
    BY <1>2, IterOrderly DEF IterNext, OthersInv
  <2> QED
    BY <1>0, <2>1 DEF Orderly, OthersInv, Iterates, OnForks
<1>3. CASE ForksNext
  <2>1. Orderly /\ ForksInv' /\ OnForks
    BY <1>3, ForksOrderly DEF ForksNext, OthersInv
  <2> QED
    BY <1>0, <2>1 DEF Orderly, OthersInv, Iterates, OnForks
<1>4. CASE RoutinesNext
  <2>1. Orderly /\ RoutinesInv' /\ program = "routines"
    BY <1>4, RoutinesOrderly DEF RoutinesNext, OthersInv
  <2> QED
    BY <1>0, <2>1 DEF Orderly, OthersInv, Iterates, OnForks
<1>5. CASE WinNext \/ EpollNext \/ AsyncNext \/ LockedNext \/ WebNext
  BY <1>0, <1>5 DEF OthersInv, Iterates, OnForks, WinNext, EpollNext, AsyncNext,
                    LockedNext, WebNext, OnEpoll, OnEvents
<1> QED
  BY <1>1, <1>2, <1>3, <1>4, <1>5 DEF Next

LEMMA OthersAlways == Spec => []OthersInv
<1>1. OthersInv /\ [Next]_vars => OthersInv'
  BY OthersStep, OthersUnchanged
<1> QED
  BY OthersStart, <1>1, PTL DEF Spec

\* A server closes the connection of a client that has ended or is broken, and
\* no other, after it has read everything: of a forked child that has exited,
\* and of a completion routine that was told of no bytes, this is known from
\* what the step before saw; the event programs have what Windows recorded.
THEOREM ClosesEndedHolds == Spec => ClosesEnded
<1> DEFINE Known == /\ OthersInv /\ (OnEpoll => EpollInv) /\ (OnEvents => AsyncInv)
           Closes == \A c \in Served \ Served' :
                        CASE program \in {"select_win", "locked", "web"} -> TRUE
                          [] OnEvents -> peer[c] # "open"
                          [] OTHER -> AtEnd(c) \/ Failed(c) \/ peer[c] = "gone"
<1>1. Spec => []Known
  BY OthersAlways, EpollAlways, AsyncAlways, PTL
<1>2. Known /\ [Next]_vars => [Closes]_vars
  <2> SUFFICES ASSUME Known, Next, NEW c \in Served \ Served'
               PROVE  CASE program \in {"select_win", "locked", "web"} -> TRUE
                        [] OnEvents -> peer[c] # "open"
                        [] OTHER -> AtEnd(c) \/ Failed(c) \/ peer[c] = "gone"
    OBVIOUS
  <2>1. CASE program \in {"select_win", "locked", "web"}
    BY <2>1 DEF OnEvents
  <2>2. CASE OnEvents
    <3>1. Async!Next \/ UNCHANGED vars
      BY <2>2, KeepsProgram
    <3>2. peer[c] # "open"
      BY <2>2, <3>1, AsyncCloses DEF Served, vars, net
    <3> QED
      BY <2>2, <3>2 DEF OnEvents
  <2>3. CASE OnEpoll
    <3>1. Epoll!Next \/ UNCHANGED vars
      BY <2>3, KeepsProgram
    <3>2. Ended(c)
      BY <2>3, <3>1, EpollCloses DEF Served, vars, net
    <3> QED
      BY <2>3, <3>2 DEF OnEvents, OnEpoll, Ended
  <2>4. CASE program = "select" \/ Iterates \/ OnForks \/ program = "routines"
    <3>1. Ended(c)
      BY <2>4, OthersStep
    <3> QED
      BY <2>4, <3>1 DEF OnEvents, Iterates, OnForks, Ended
  <2> QED
    BY <2>1, <2>2, <2>3, <2>4 DEF Next, SelNext, WinNext, EpollNext, AsyncNext, IterNext,
       ForksNext, RoutinesNext, LockedNext, WebNext
<1> QED
  BY <1>1, <1>2, PTL DEF Spec, ClosesEnded

-----------------------------------------------------------------------------
(* What clients are sent.                                                    *)

Fresh(d) == peer[d] = "none" \/ Waiting(d)

\* InStep, client by client, and the clients that nothing was sent to yet.
Tuned ==
    /\ \A d \in Conns : Fresh(d) => got[d] = <<>>
    /\ \A d \in Conns : d \in Served /\ peer[d] = "open" =>
          \A c \in Conns :
             /\ Owed(d, c) => Carries(got[d], c, since[d][c], Passed(c))
             /\ Barred(d, c) => \A k \in 1 .. Len(got[d]) : got[d][k].from # c

LEMMA TunedIsInStep == ASSUME Tuned PROVE InStep
BY DEF Tuned, InStep, Served

\* A step that changes nothing of what a client is owed,
Steady(d) ==
    \A c \in Conns : /\ Owed(d, c) => Passed(c)' = Passed(c)
                     /\ Barred(d, c)' => Barred(d, c)
\* or writes a unit to it that it is owed, or was not barred from.
Hears(d, u) ==
    /\ ~Barred(d, u.from)'
    /\ Owed(d, u.from) => u.num = Passed(u.from) + 1 /\ Passed(u.from)' = Passed(u.from) + 1
    /\ \A c \in Conns : /\ Owed(d, c) /\ c # u.from => Passed(c)' = Passed(c)
                        /\ Barred(d, c)' => Barred(d, c)

LEMMA TunedOn ==
    ASSUME Netted, Netted', Tuned, UNCHANGED program,
           \A d \in Conns : Fresh(d)' => Fresh(d) /\ got'[d] = got[d],
           \A d \in Conns : d \in Served' /\ peer'[d] = "open" =>
              /\ since'[d] = since[d] /\ d \in Served /\ peer[d] = "open"
              /\ \/ got'[d] = got[d] /\ Steady(d)
                 \/ \E u \in Unit : got'[d] = Append(got[d], u) /\ Hears(d, u)
    PROVE  Tuned'
<1>1. \A d \in Conns : Fresh(d)' => got'[d] = <<>>
  BY DEF Tuned
<1>2. ASSUME NEW d \in Conns, d \in Served', peer'[d] = "open", NEW c \in Conns
      PROVE  /\ Owed(d, c) => Carries(got'[d], c, since'[d][c], Passed(c)')
             /\ Barred(d, c)' => \A k \in 1 .. Len(got'[d]) : got'[d][k].from # c
  <2>1. /\ Owed(d, c) => Carries(got[d], c, since[d][c], Passed(c))
        /\ Barred(d, c) => \A k \in 1 .. Len(got[d]) : got[d][k].from # c
        /\ since'[d] = since[d]
    BY <1>2 DEF Tuned
  <2>2. CASE got'[d] = got[d] /\ Steady(d)
    BY <2>1, <2>2 DEF Steady
  <2>3. ASSUME NEW u \in Unit, got'[d] = Append(got[d], u), Hears(d, u)
        PROVE  /\ Owed(d, c) => Carries(got'[d], c, since'[d][c], Passed(c)')
               /\ Barred(d, c)' => \A k \in 1 .. Len(got'[d]) : got'[d][k].from # c
    <3>1. /\ got[d] \in Seq(Unit) /\ since[d][c] \in Nat /\ Passed(c) \in Int
          /\ u.from \in Conns
      <4>1. got[d] \in Seq(Unit) /\ since[d] \in [Conns -> Nat] /\ taken[c] \in Nat
        BY DEF Netted, Noted, Network, NetTyped
      <4>2. Passed(c) \in Int
        BY <4>1 DEF Passed
      <4>3. u.from \in Conns
        BY DEF Unit
      <4> QED
        BY <4>1, <4>2, <4>3
    <3>2. ASSUME Owed(d, c), c = u.from PROVE Carries(got'[d], c, since'[d][c], Passed(c)')
      <4>1. u.num = Passed(c) + 1 /\ Passed(c)' = Passed(c) + 1
        BY <2>3, <3>2 DEF Hears
      <4>2. Carries(Append(got[d], u), c, since[d][c], Passed(c) + 1)
        BY <2>1, <3>1, <3>2, <4>1, CarriesNext
      <4> QED
        BY <2>1, <2>3, <4>1, <4>2
    <3>3. ASSUME Owed(d, c), c # u.from PROVE Carries(got'[d], c, since'[d][c], Passed(c)')
      <4>1. Passed(c)' = Passed(c)
        BY <2>3, <3>3 DEF Hears
      <4> QED
        BY <2>1, <2>3, <3>1, <3>3, <4>1, CarriesOther
    <3>4. ASSUME Barred(d, c)' PROVE \A k \in 1 .. Len(got'[d]) : got'[d][k].from # c
      <4>1. Barred(d, c) /\ c # u.from
        BY <2>3, <3>1, <3>4 DEF Hears
      <4>2. /\ Len(got[d]) \in Nat /\ Len(got'[d]) = Len(got[d]) + 1
            /\ got'[d][Len(got[d]) + 1] = u
            /\ \A k \in 1 .. Len(got[d]) : got'[d][k] = got[d][k]
        BY <2>3, <3>1, AppendProperties
      <4> QED
        BY <2>1, <4>1, <4>2, SMTT(30)
    <3> QED
      BY <3>2, <3>3, <3>4
  <2> QED
    BY <1>2, <2>2, <2>3
<1>3. \A d, c \in Conns : Owed(d, c)' = Owed(d, c)
  BY DEF Owed
<1> QED
  BY <1>1, <1>2, <1>3 DEF Tuned

\* A client is accepted.
LEMMA TunedAccept ==
    ASSUME Netted, Netted', Tuned, UNCHANGED program, NEW f \in Fds, AcceptAs(f),
           UNCHANGED <<peer, sent, taken, got>>,
           \A d \in Served : Steady(d),
           \A c \in Conns : Owed(Head(backlog), c) => c \notin Midway'
    PROVE  Tuned'
<1>0. Head(backlog) \in Conns
  BY NetworkAccept DEF Netted
<1> PICK h \in Conns : h = Head(backlog)
  BY <1>0
<1>1. /\ h \in Conns \ Served /\ Served' = Served \cup {h}
      /\ since' = [since EXCEPT ![h] = taken] /\ backlog' = Tail(backlog)
  BY NetworkAccept DEF AcceptAs, Netted
<1>2. backlog \in Seq(Conns) /\ backlog # <<>> /\ Len(backlog) \in Nat /\ h = backlog[1] /\ Len(backlog) >= 1
  BY HeadTailProperties, EmptySeq DEF AcceptAs, Netted, Network, NetTyped
<1>3. Waiting(h)
  BY <1>2 DEF Waiting
<1>4. ASSUME NEW d \in Conns, Fresh(d)' PROVE Fresh(d)
  <2>1. CASE peer[d] = "none"
    BY <2>1 DEF Fresh
  <2>2. CASE Waiting(d)'
    <3>1. PICK k \in 1 .. Len(backlog') : backlog'[k] = d
      BY <2>2 DEF Waiting
    <3>2. k + 1 \in 1 .. Len(backlog) /\ backlog[k + 1] = d
      BY <1>1, <1>2, <3>1, HeadTailProperties
    <3> QED
      BY <3>2 DEF Fresh, Waiting
  <2> QED
    BY <1>4, <2>1, <2>2 DEF Fresh
<1>5. \A d \in Conns : Fresh(d)' => got'[d] = <<>>
  BY <1>4 DEF Tuned
<1>6. \A d, c \in Conns : Owed(d, c)' = Owed(d, c)
  BY DEF Owed
<1>7. ASSUME NEW d \in Served, peer[d] = "open", NEW c \in Conns
      PROVE  /\ Owed(d, c) => Carries(got'[d], c, since'[d][c], Passed(c)')
             /\ Barred(d, c)' => \A k \in 1 .. Len(got'[d]) : got'[d][k].from # c
  <2>1. d \in Conns /\ d # h /\ since'[d] = since[d]
    BY <1>1, SMTT(30) DEF Served, Netted, Noted
  <2> QED
    BY <1>7, <2>1 DEF Tuned, Steady
<1>8. ASSUME NEW c \in Conns
      PROVE  /\ Owed(h, c) => Carries(got'[h], c, since'[h][c], Passed(c)')
             /\ Barred(h, c)' => \A k \in 1 .. Len(got'[h]) : got'[h][k].from # c
  <2>1. got[h] = <<>>
    BY <1>1, <1>3 DEF Tuned, Fresh
  <2>2. since'[h] = taken /\ taken[c] \in Nat
    BY <1>1 DEF Netted, Noted, Network, NetTyped
  <2>3. Owed(h, c) => Passed(c)' = taken[c]
    BY DEF Passed
  <2> QED
    BY <2>1, <2>2, <2>3, CarriesNone
<1>9. ASSUME NEW d \in Conns, d \in Served', peer'[d] = "open", NEW c \in Conns
      PROVE  /\ Owed(d, c)' => Carries(got'[d], c, since'[d][c], Passed(c)')
             /\ Barred(d, c)' => \A k \in 1 .. Len(got'[d]) : got'[d][k].from # c
  <2>1. CASE d = h
    BY <1>6, <1>8, <2>1
  <2>2. CASE d # h
    <3>1. d \in Served /\ peer[d] = "open"
      BY <1>1, <1>9, <2>2
    <3> QED
      BY <1>6, <1>7, <3>1
  <2> QED
    BY <2>1, <2>2
<1> QED
  BY <1>5, <1>9 DEF Tuned

\* A client connects, sends or leaves.
LEMMA TunedClient ==
    ASSUME Netted, Netted', Tuned, UNCHANGED program, NEW c \in Conns,
           Connect(c) \/ ClientSend(c) \/ ClientShut(c) \/ ClientReset(c),
           \A d \in Conns : Steady(d)
    PROVE  Tuned'
<1>1. Served' = Served /\ UNCHANGED <<taken, got, since>>
  BY NettedClient
<1>2. ASSUME NEW d \in Conns, Fresh(d)' PROVE Fresh(d)
  <2>1. CASE Connect(c)
    <3>1. /\ backlog \in Seq(Conns) /\ backlog' = Append(backlog, c) /\ peer[c] = "none"
          /\ peer' = [peer EXCEPT ![c] = "open"] /\ peer \in [Conns -> Peers]
      BY <2>1 DEF Connect, Netted, Network, NetTyped
    <3>2. \A k \in 1 .. Len(backlog') : backlog'[k] = c \/ (k \in 1 .. Len(backlog) /\ backlog'[k] = backlog[k])
      BY <3>1, AppendProperties
    <3> QED
      BY <1>2, <3>1, <3>2 DEF Fresh, Waiting
  <2>2. CASE ClientSend(c) \/ ClientShut(c) \/ ClientReset(c)
    <3>1. backlog' = backlog /\ (peer'[d] = "none" => peer[d] = "none")
      BY <2>2 DEF ClientSend, ClientShut, ClientReset, Netted, Network, NetTyped
    <3> QED
      BY <1>2, <3>1 DEF Fresh, Waiting
  <2> QED
    BY <2>1, <2>2
<1>3. ASSUME NEW d \in Conns, d \in Served', peer'[d] = "open" PROVE peer[d] = "open"
  <2>1. peer[d] # "none"
    BY <1>1, <1>3 DEF Netted, Network, OnePlace
  <2> QED
    BY <1>3, <2>1 DEF Connect, ClientSend, ClientShut, ClientReset, Netted, Network, NetTyped
<1> QED
  BY <1>1, <1>2, <1>3, TunedOn

\* A step of the server that writes nothing.
LEMMA TunedQuiet ==
    ASSUME Netted, Tuned, UNCHANGED program, Moves, Shrinks,
           UNCHANGED <<backlog, sent, got, since>>, taken' \in [Conns -> Nat],
           \A d \in Served : peer[d] = "open" => Steady(d)
    PROVE  Tuned'
<1>1. Netted' /\ Served' \subseteq Served
  BY NettedOn DEF Netted, Noted
<1>2. \A d \in Conns : Fresh(d)' => Fresh(d)
  BY DEF Fresh, Waiting, Moves
<1>3. \A d \in Conns : peer'[d] = "open" => peer[d] = "open"
  BY DEF Moves
<1> QED
  BY <1>1, <1>2, <1>3, TunedOn

\* A step of the server that writes u to the clients of cs.
LEMMA TunedWrite ==
    ASSUME Netted, Tuned, UNCHANGED program, Shrinks,
           UNCHANGED <<backlog, sent, since>>, taken' \in [Conns -> Nat],
           NEW cs, cs \cap Conns \subseteq Served, NEW u \in Unit, WriteTo(cs, u),
           \A d \in Served : peer[d] = "open" => IF d \in cs THEN Hears(d, u) ELSE Steady(d)
    PROVE  Tuned'
<1>1. /\ Moves /\ got' \in [Conns -> Seq(Unit)]
      /\ \A d \in Conns : IF d \in cs /\ peer[d] = "open"
                          THEN got'[d] = Append(got[d], u)
                          ELSE got'[d] = got[d]
  BY WriteTyped
<1>2. Netted' /\ Served' \subseteq Served
  BY <1>1, NettedOn
<1>3. ASSUME NEW d \in Conns, Fresh(d)' PROVE Fresh(d) /\ got'[d] = got[d]
  <2>1. Fresh(d)
    BY <1>1, <1>3 DEF Fresh, Waiting, Moves
  <2>2. d \notin Served
    BY <2>1 DEF Fresh, Netted, Network, OnePlace
  <2> QED
    BY <1>1, <2>1, <2>2
<1>4. ASSUME NEW d \in Conns, d \in Served', peer'[d] = "open"
      PROVE  /\ since'[d] = since[d] /\ d \in Served /\ peer[d] = "open"
             /\ \/ got'[d] = got[d] /\ Steady(d)
                \/ \E w \in Unit : got'[d] = Append(got[d], w) /\ Hears(d, w)
  <2>1. d \in Served /\ peer[d] = "open"
    BY <1>1, <1>2, <1>4 DEF Moves
  <2> QED
    BY <1>1, <2>1
<1> QED
  BY <1>2, <1>3, <1>4, TunedOn

\* Where a unit is passed on in the step that reads it.
AtOnce == program \notin {"routines", "locked", "web"}

LEMMA AtOncePassed ==
    ASSUME AtOnce, UNCHANGED program
    PROVE  /\ \A c \in Conns : Passed(c) = taken[c] /\ Passed(c)' = taken'[c]
           /\ \A d, c \in Conns : Barred(d, c)' = Barred(d, c)
<1>1. Midway = {} /\ Midway' = {}
  BY DEF AtOnce, Midway
<1>2. \A d, c \in Conns : Barred(d, c)' = Barred(d, c)
  BY DEF AtOnce, Barred, Owed
<1> QED
  BY <1>1, <1>2 DEF Passed

LEMMA AtOnceSteady ==
    ASSUME AtOnce, UNCHANGED <<program, taken>>
    PROVE  /\ \A d \in Conns : Steady(d)
           /\ \A d, c \in Conns : Owed(d, c) => c \notin Midway'
<1>1. Midway' = {}
  BY DEF AtOnce, Midway
<1> QED
  BY <1>1, AtOncePassed DEF Steady

\* Reading a unit and writing it to the clients it is owed to, with
\* connections closed or not.
LEMMA AtOnceWrite ==
    ASSUME AtOnce, Netted, Tuned, UNCHANGED program, Shrinks,
           UNCHANGED <<backlog, sent, since>>,
           NEW c \in Conns, TakeUnit(c),
           NEW cs, WriteTo(cs, NextUnit(c)),
           cs \cap Conns \subseteq Served,
           \A d \in Served : d \in cs <=> Owed(d, c)
    PROVE  Netted' /\ Tuned'
<1>1. /\ taken' \in [Conns -> Nat] /\ taken'[c] = taken[c] + 1
      /\ \A d \in Conns \ {c} : taken'[d] = taken[d]
      /\ NextUnit(c) \in Unit
  BY TakeTyped DEF Netted, Network
<1>2. PICK u \in Unit : u = [from |-> c, num |-> taken[c] + 1] /\ u = NextUnit(c)
  BY <1>1 DEF NextUnit
<1>3. u.from = c /\ u.num = taken[c] + 1
  BY <1>2
<1>4. ASSUME NEW d \in Served PROVE IF d \in cs THEN Hears(d, u) ELSE Steady(d)
  <2>1. d \in Conns
    BY DEF Served
  <2>2. CASE d \in cs
    <3>1. Owed(d, c) /\ ~Barred(d, c)'
      BY <2>1, <2>2, AtOncePassed DEF Barred
    <3> QED
      BY <1>1, <1>3, <2>1, <2>2, <3>1, AtOncePassed DEF Hears
  <2>3. CASE d \notin cs
    BY <1>1, <2>1, <2>3, AtOncePassed DEF Steady
  <2> QED
    BY <2>2, <2>3
<1>5. WriteTo(cs, u)
  BY <1>2
<1>6. Tuned'
  BY <1>1, <1>4, <1>5, TunedWrite
<1>7. Netted'
  BY <1>1, <1>5, WriteTyped, NettedOn
<1> QED
  BY <1>6, <1>7

\* What holds of a server that passes units on at once, as long as it runs.
Followed == Netted /\ (Stopped \/ Tuned)

LEMMA FollowedInit == ASSUME NetInit PROVE Followed
<1>1. Netted
  BY NettedInit
<1>2. \A d \in Conns : d \notin Served /\ got[d] = <<>>
  BY SocketsAssumption DEF NetInit, Served
<1> QED
  BY <1>1, <1>2 DEF Followed, Tuned

LEMMA FollowedIdle ==
    ASSUME AtOnce, Followed, UNCHANGED <<program, net>>, Stopped => Stopped'
    PROVE  Followed'
<1>0. /\ UNCHANGED <<peer, backlog, sent, taken, got, since, owner>>
      /\ Netted
  BY DEF net, Followed
<1>1. Netted'
  BY NettedIdle DEF Followed
<1>2. Moves /\ Shrinks /\ taken' \in [Conns -> Nat]
  BY <1>0 DEF Netted, Network, NetTyped, Moves, Shrinks
<1>3. Tuned => Tuned'
  BY <1>0, <1>2, AtOnceSteady, TunedQuiet DEF Served
<1> QED
  BY <1>1, <1>3 DEF Followed

LEMMA FollowedClient ==
    ASSUME AtOnce, Followed, UNCHANGED <<program, pc>>, NEW c \in Conns,
           Connect(c) \/ ClientSend(c) \/ ClientShut(c) \/ ClientReset(c)
    PROVE  Followed'
<1>1. Netted' /\ UNCHANGED taken
  BY NettedClient DEF Followed
<1>2. Tuned => Tuned'
  BY <1>1, AtOnceSteady, TunedClient DEF Followed
<1> QED
  BY <1>1, <1>2 DEF Followed, Stopped

LEMMA FollowedAccept ==
    ASSUME AtOnce, Followed, UNCHANGED program, Stopped => Stopped',
           NEW f \in Fds, AcceptAs(f), UNCHANGED <<peer, sent, taken, got>>
    PROVE  Followed'
<1>1. Netted'
  BY NettedAccept DEF Followed
<1>2. Head(backlog) \in Conns
  BY NetworkAccept DEF Followed, Netted
<1>3. Tuned => Tuned'
  BY <1>1, <1>2, AtOnceSteady, TunedAccept DEF Followed, Served
<1> QED
  BY <1>1, <1>3 DEF Followed

\* Connections break or are closed.
LEMMA FollowedClose ==
    ASSUME AtOnce, Followed, UNCHANGED program, Stopped => Stopped', Moves, Shrinks,
           UNCHANGED <<backlog, sent, taken, got, since>>
    PROVE  Followed'
<1>1. Netted' /\ taken' \in [Conns -> Nat]
  BY NettedOn DEF Followed, Netted, Noted, Network, NetTyped
<1>2. Tuned => Tuned'
  BY <1>1, AtOnceSteady, TunedQuiet DEF Followed, Served
<1> QED
  BY <1>1, <1>2 DEF Followed

LEMMA FollowedWrite ==
    ASSUME AtOnce, Followed, ~Stopped, UNCHANGED program, Shrinks,
           UNCHANGED <<backlog, sent, since>>,
           NEW c \in Conns, TakeUnit(c),
           NEW cs, WriteTo(cs, NextUnit(c)),
           cs \cap Conns \subseteq Served,
           \A d \in Served : d \in cs <=> Owed(d, c)
    PROVE  Followed'
BY AtOnceWrite DEF Followed

\* A signal ends the server after a read.
LEMMA FollowedDies ==
    ASSUME Followed, Stopped', NEW c \in Conns, TakeUnit(c),
           UNCHANGED <<peer, backlog, sent, got, since, owner>>
    PROVE  Followed'
<1>1. taken' \in [Conns -> Nat]
  BY TakeTyped DEF Followed, Netted, Network
<1>2. Netted /\ got \in [Conns -> Seq(Unit)]
  BY DEF Followed, Netted, Noted
<1>3. Moves /\ Shrinks
  BY DEF Followed, Netted, Network, NetTyped, Moves, Shrinks
<1> QED
  BY <1>1, <1>2, <1>3, NettedOn DEF Followed

LEMMA ShrinksNot == ASSUME NetTyped, UNCHANGED owner PROVE Shrinks
BY DEF NetTyped, Shrinks

LEMMA ShrinksClose == ASSUME NetTyped, NEW f, CloseFd(f) PROVE Shrinks
BY DEF NetTyped, Shrinks, CloseFd

\* echo_selectserv.c: what is in the sets is open.
SelInv ==
    /\ Followed
    /\ pc \in {"wait", "scan", "dead"}
    /\ reads \subseteq Fds \cup {Serv} /\ cpyReads \subseteq Fds \cup {Serv}
    /\ fdMax \in Fds \cup {Serv} /\ i \in Nat
    /\ \A f \in reads \ {Serv} : owner[f] # NoConn
    /\ \A f \in cpyReads \ {Serv} : i <= f => owner[f] # NoConn

LEMMA SelFollows ==
    ASSUME program = "select", UNCHANGED program, SelInv, Sel!Next
    PROVE  SelInv'
<1> USE DEF Sel!net, Sel!server
<1>0. /\ AtOnce /\ Followed /\ Network /\ NetTyped
      /\ \A f \in Fds \cup {Serv} : f \in Nat
      /\ Serv \notin Fds
  BY SocketsAssumption DEF AtOnce, SelInv, Followed, Netted, Network
<1>1. CASE \E c \in Conns : Sel!Client(c) /\ UNCHANGED Sel!server
  <2>1. PICK c \in Conns : Connect(c) \/ ClientSend(c) \/ ClientShut(c) \/ ClientReset(c)
    BY <1>1 DEF Sel!Client, Sel!Connect, Connect, Sel!ClientSend, ClientSend,
                Sel!ClientShut, ClientShut, Sel!ClientReset, ClientReset
  <2>2. UNCHANGED <<pc, reads, cpyReads, fdMax, i, owner>>
    BY <1>1, <2>1 DEF Connect, ClientSend, ClientShut, ClientReset
  <2>3. Followed'
    BY <1>0, <2>1, <2>2, FollowedClient
  <2> QED
    BY <2>2, <2>3 DEF SelInv
<1>2. CASE Sel!Select
  <2>1. /\ UNCHANGED net /\ UNCHANGED <<owner, reads, fdMax>>
        /\ pc = "wait" /\ pc' = "scan" /\ i' = 0 /\ cpyReads' \subseteq reads
    BY <1>2 DEF Sel!Select, net
  <2>2. Followed'
    BY <1>0, <2>1, FollowedIdle DEF Stopped
  <2> QED
    BY <2>1, <2>2 DEF SelInv
<1>3. CASE Sel!ScanEnds
  <2>1. /\ UNCHANGED net /\ UNCHANGED <<owner, reads, fdMax, i>>
        /\ pc = "scan" /\ pc' = "wait" /\ cpyReads' = {}
    BY <1>3 DEF Sel!ScanEnds, net
  <2>2. Followed'
    BY <1>0, <2>1, FollowedIdle DEF Stopped
  <2> QED
    BY <2>1, <2>2 DEF SelInv
<1>h. ASSUME NEW f, Sel!At(f)
      PROVE  pc = "scan" /\ f \in cpyReads /\ f \in Nat /\ i <= f /\ f <= fdMax
  <2> DEFINE S == {g \in cpyReads : i <= g /\ g <= fdMax}
  <2>1. pc = "scan" /\ S # {} /\ f = Min(S)
    BY <1>h DEF Sel!At, Sel!Hits, Sel!Min, Min
  <2>2. S \subseteq Nat
    BY <1>0 DEF SelInv
  <2>3. f \in S
    <3> HIDE DEF S
    <3> QED
      BY <2>1, <2>2, MinIsLeast
  <2> QED
    BY <2>1, <2>2, <2>3
<1>4. CASE Sel!Accept
  <2> PICK f : f = Sel!LowestFree
    OBVIOUS
  <2>1. /\ AcceptAs(f) /\ UNCHANGED <<peer, sent, taken, got, pc, cpyReads>>
        /\ f \in Fds /\ owner[f] = NoConn
        /\ reads' = reads \cup {f} /\ i' = Serv + 1
        /\ fdMax' \in {f, fdMax}
        /\ Sel!At(Serv)
    BY <1>4 DEF Sel!Accept, Sel!AcceptAs, AcceptAs
  <2>2. Followed'
    BY <1>0, <2>1, FollowedAccept DEF Stopped
  <2>3. pc = "scan" /\ i <= Serv /\ Serv + 1 \in Nat
    BY <1>0, <1>h, <2>1
  <2>4. owner' = [owner EXCEPT ![f] = Head(backlog)] /\ Head(backlog) \in Conns
    BY <1>0, <2>1, NetworkAccept
  <2>5. \A g \in Fds : owner[g] # NoConn => owner'[g] # NoConn
    BY <1>0, <2>1, <2>4 DEF NetTyped
  <2>6. owner'[f] # NoConn
    BY <1>0, <2>1, <2>4, SocketsAssumption DEF NetTyped
  <2>7. \A g \in cpyReads' \ {Serv} : i' <= g => owner'[g] # NoConn
    <3> SUFFICES ASSUME NEW g \in cpyReads \ {Serv}, Serv + 1 <= g PROVE owner'[g] # NoConn
      BY <2>1
    <3>1. i <= g /\ g \in Fds
      BY <1>0, <2>3 DEF SelInv
    <3> QED
      BY <2>5, <3>1 DEF SelInv
  <2> QED
    BY <2>1, <2>2, <2>3, <2>5, <2>6, <2>7 DEF SelInv
<1>k. ASSUME Followed', NEW f \in cpyReads, f \in Nat, i <= f, i' = i \/ i' = f + 1,
             pc' \in {"scan", "dead"}, UNCHANGED <<cpyReads, fdMax>>, reads' \subseteq reads,
             \A g \in Fds \ {f} : owner'[g] = owner[g],
             owner'[f] = owner[f] \/ (i' = f + 1 /\ f \notin reads')
      PROVE  SelInv'
  <2>1. \A g \in reads' \ {Serv} : owner'[g] # NoConn
    BY <1>k DEF SelInv
  <2>2. ASSUME NEW g \in cpyReads \ {Serv}, i' <= g PROVE owner'[g] # NoConn
    <3>1. g \in Fds /\ g \in Nat /\ i \in Nat
      BY <1>0 DEF SelInv
    <3>2. i <= g /\ (i' = f + 1 => g # f)
      BY <1>k, <2>2, <3>1
    <3> QED
      BY <1>k, <3>1, <3>2 DEF SelInv
  <2>3. i' \in Nat
    BY <1>k DEF SelInv
  <2> QED
    BY <1>k, <2>1, <2>2, <2>3 DEF SelInv
<1>5. CASE \E f \in Fds : Sel!Echo(f)
  <2> PICK f \in Fds : Sel!Echo(f)
    BY <1>5
  <2>1. /\ Sel!At(f) /\ UNCHANGED <<backlog, since, sent, owner, reads, cpyReads, fdMax>>
        /\ TakeUnit(owner[f])
        /\ \/ pc' = "dead" /\ UNCHANGED <<peer, got, i>>
           \/ WriteTo({owner[f]}, NextUnit(owner[f])) /\ i' = f + 1 /\ UNCHANGED pc
    BY DEF Sel!Echo, Sel!TakeUnit, TakeUnit, Sel!WriteTo, WriteTo, Sel!Transmit, Transmit,
           Sel!NextUnit, NextUnit, Sel!Reported, Reported, Sel!OnWindows, OnWindows
  <2>2. pc = "scan" /\ f \in cpyReads /\ i <= f /\ f \in Nat
    BY <1>h, <2>1
  <2>3. owner[f] # NoConn
    BY <1>0, <2>2 DEF SelInv
  <2> PICK c \in Conns : c = owner[f]
    BY <1>0, <2>3 DEF NetTyped
  <2>4. \A d \in Served : d \in {c} <=> Owed(d, c)
    BY DEF Owed
  <2>5. Followed'
    <3>1. CASE pc' = "dead" /\ UNCHANGED <<peer, got, i>>
      BY <1>0, <2>1, <3>1, FollowedDies DEF Stopped
    <3>2. CASE WriteTo({c}, NextUnit(c)) /\ i' = f + 1 /\ UNCHANGED pc
      <4>1. {c} \cap Conns \subseteq Served
        BY DEF Served
      <4> QED
        BY <1>0, <2>1, <2>2, <2>4, <3>2, <4>1, FollowedWrite, ShrinksNot DEF Stopped
    <3> QED
      BY <2>1, <3>1, <3>2
  <2> QED
    BY <1>k, <2>1, <2>2, <2>5
<1>6. CASE \E f \in Fds : Sel!Close(f)
  <2> PICK f \in Fds : Sel!Close(f)
    BY <1>6
  <2>1. /\ Sel!At(f) /\ CloseFd(f) /\ reads' = reads \ {f} /\ i' = f + 1
        /\ UNCHANGED <<peer, backlog, since, sent, taken, got, pc, cpyReads, fdMax>>
    BY DEF Sel!Close, Sel!CloseFd, CloseFd
  <2>2. pc = "scan" /\ f \in cpyReads /\ i <= f /\ f \in Nat
    BY <1>h, <2>1
  <2>3. Followed'
    BY <1>0, <2>1, <2>2, FollowedClose, MovesNot, ShrinksClose DEF Stopped
  <2>4. \A g \in Fds \ {f} : owner'[g] = owner[g]
    BY <1>0, <2>1 DEF CloseFd, NetTyped
  <2> QED
    BY <1>k, <2>1, <2>2, <2>3, <2>4
<1>7. CASE \E f \in Fds : Sel!Fail(f)
  <2> PICK f \in Fds : Sel!Fail(f)
    BY <1>7
  <2>1. /\ Sel!At(f) /\ i' = f + 1
        /\ Failed(owner[f]) /\ peer' = [peer EXCEPT ![owner[f]] = Reported(owner[f])]
        /\ UNCHANGED <<backlog, since, sent, taken, got, owner, pc, reads, cpyReads, fdMax>>
    BY DEF Sel!Fail, Sel!Failed, Failed, Sel!HasData, HasData,
           Sel!Reported, Reported, Sel!OnWindows, OnWindows
  <2>2. pc = "scan" /\ f \in cpyReads /\ i <= f /\ f \in Nat
    BY <1>h, <2>1
  <2>3. Followed'
    BY <1>0, <2>1, <2>2, FollowedClose, MovesFail, ShrinksNot DEF Stopped
  <2> QED
    BY <1>k, <2>1, <2>2, <2>3
<1> QED
  BY <1>1, <1>2, <1>3, <1>4, <1>5, <1>6, <1>7 DEF Sel!Next, Sel!Server

\* echo_selectserv_win.c
WinInv ==
    /\ Followed
    /\ pc \in {"wait", "scan", "ended"} /\ i \in Nat \ {0}
    /\ fdArray \in Seq(Fds \cup {Serv}) /\ arr \in Seq(Fds \cup {Serv})
    /\ ready \subseteq Fds \cup {Serv}

LEMMA WinFollows ==
    ASSUME program = "select_win", UNCHANGED program, WinInv, Win!Next
    PROVE  WinInv'
<1> USE DEF Win!net, Win!server
<1>0. /\ AtOnce /\ Followed /\ Network /\ NetTyped /\ i + 1 \in Nat \ {0}
      /\ Len(fdArray) \in Nat /\ \A k \in 1 .. Len(fdArray) : fdArray[k] \in Fds \cup {Serv}
  BY DEF AtOnce, WinInv, Followed, Netted, Network
<1>1. CASE \E c \in Conns : Win!Client(c) /\ UNCHANGED Win!server
  <2>1. PICK c \in Conns : Connect(c) \/ ClientSend(c) \/ ClientShut(c) \/ ClientReset(c)
    BY <1>1 DEF Win!Client, Win!Connect, Connect, Win!ClientSend, ClientSend,
                Win!ClientShut, ClientShut, Win!ClientReset, ClientReset
  <2>2. UNCHANGED <<pc, fdArray, ready, arr, i>>
    BY <1>1
  <2>3. Followed'
    BY <1>0, <2>1, <2>2, FollowedClient
  <2> QED
    BY <2>2, <2>3 DEF WinInv
<1>2. CASE Win!Select
  <2> DEFINE hits == {k \in 1 .. Len(fdArray) : Win!Ready(fdArray[k])}
             Rank(k) == Win!Cardinality({j \in hits : j <= k})
             At(k) == IF \E j \in hits : Rank(j) = k THEN CHOOSE j \in hits : Rank(j) = k ELSE k
  <2>1. /\ UNCHANGED net /\ UNCHANGED fdArray
        /\ pc = "wait" /\ pc' = "scan" /\ i' = 1
        /\ ready' = {fdArray[k] : k \in hits}
        /\ arr' = [k \in 1 .. Len(fdArray) |-> fdArray[At(k)]]
    BY <1>2 DEF Win!Select, net
  <2>2. Followed'
    BY <1>0, <2>1, FollowedIdle DEF Stopped
  <2>3. ASSUME NEW k \in 1 .. Len(fdArray) PROVE At(k) \in 1 .. Len(fdArray)
    <3> HIDE DEF Rank
    <3>1. CASE \E j \in hits : Rank(j) = k
      <4>1. (CHOOSE j \in hits : Rank(j) = k) \in hits
        BY <3>1
      <4> HIDE DEF hits
      <4>2. At(k) \in hits
        BY <3>1, <4>1
      <4> QED
        BY <4>2 DEF hits
    <3>2. CASE ~\E j \in hits : Rank(j) = k
      BY <3>2
    <3> QED
      BY <3>1, <3>2
  <2>4. ready' \subseteq Fds \cup {Serv}
    BY <1>0, <2>1
  <2> HIDE DEF hits, Rank, At
  <2>5. arr' \in [1 .. Len(fdArray) -> Fds \cup {Serv}]
    BY <1>0, <2>1, <2>3
  <2>6. arr' \in Seq(Fds \cup {Serv})
    BY <1>0, <2>5, SeqDef
  <2> QED
    BY <2>1, <2>2, <2>4, <2>6 DEF WinInv
<1>3. CASE Win!SelectFails
  <2>1. /\ owner' = [f \in Fds |-> NoConn] /\ pc' = "ended"
        /\ UNCHANGED <<peer, backlog, since, sent, taken, got, fdArray, ready, arr, i>>
    BY <1>3 DEF Win!SelectFails
  <2>2. Shrinks
    BY <2>1 DEF Shrinks
  <2>3. Followed'
    BY <1>0, <2>1, <2>2, FollowedClose, MovesNot DEF Stopped
  <2> QED
    BY <2>1, <2>3 DEF WinInv
<1>4. CASE Win!Skip \/ Win!ScanEnds \/ \E f \in Fds : Win!Fail(f)
  <2>1. /\ UNCHANGED net /\ UNCHANGED fdArray /\ pc = "scan" /\ pc' \in {"scan", "wait"}
        /\ ready' = ready \/ ready' = {} 
        /\ arr' = arr \/ arr' = <<>> 
        /\ i' = i + 1 \/ i' = 1
    BY <1>4 DEF Win!Skip, Win!ScanEnds, Win!Fail, Win!Hit, Win!At, net
  <2>2. Followed'
    BY <1>0, <2>1, FollowedIdle DEF Stopped
  <2>3. arr' \in Seq(Fds \cup {Serv})
    <3>1. <<>> \in Seq(Fds \cup {Serv})
      BY EmptySeq
    <3> QED
      BY <2>1, <3>1 DEF WinInv
  <2>4. i' \in Nat \ {0}
    BY <1>0, <2>1
  <2>5. ready' \subseteq Fds \cup {Serv}
    BY <2>1 DEF WinInv
  <2> QED
    BY <2>1, <2>2, <2>3, <2>4, <2>5 DEF WinInv
<1>5. CASE \E f \in Fds : Win!Accept(f)
  <2> PICK f \in Fds : Win!Accept(f)
    BY <1>5
  <2>1. /\ AcceptAs(f) /\ UNCHANGED <<peer, sent, taken, got, pc, ready, arr>>
        /\ fdArray' = fdArray \/ fdArray' = Append(fdArray, f)
        /\ i' = i + 1 /\ pc = "scan"
    BY DEF Win!Accept, Win!AcceptAs, AcceptAs, Win!Hit, Win!At
  <2>2. Followed'
    BY <1>0, <2>1, FollowedAccept DEF Stopped
  <2>3. fdArray' \in Seq(Fds \cup {Serv})
    BY <2>1, AppendProperties DEF WinInv
  <2> QED
    BY <1>0, <2>1, <2>2, <2>3 DEF WinInv
<1>6. CASE \E f \in Fds : Win!Echo(f)
  <2> PICK f \in Fds : Win!Echo(f)
    BY <1>6
  <2>1. /\ owner[f] # NoConn /\ TakeUnit(owner[f])
        /\ WriteTo({owner[f]}, NextUnit(owner[f]))
        /\ i' = i + 1 /\ pc = "scan"
        /\ UNCHANGED <<backlog, since, sent, owner, pc, fdArray, ready, arr>>
    BY DEF Win!Echo, Win!TakeUnit, TakeUnit, Win!WriteTo, WriteTo, Win!Transmit, Transmit,
           Win!NextUnit, NextUnit, Win!Reported, Reported, Win!OnWindows, OnWindows,
           Win!Hit, Win!At
  <2> PICK c \in Conns : c = owner[f]
    BY <1>0, <2>1 DEF NetTyped
  <2>2. /\ \A d \in Served : d \in {c} <=> Owed(d, c)
        /\ {c} \cap Conns \subseteq Served
    BY DEF Owed, Served
  <2>3. Followed'
    BY <1>0, <2>1, <2>2, FollowedWrite, ShrinksNot DEF Stopped
  <2> QED
    BY <1>0, <2>1, <2>3 DEF WinInv
<1>7. CASE \E f \in Fds : Win!Close(f)
  <2> PICK f \in Fds : Win!Close(f)
    BY <1>7
  <2>1. /\ fdArray' = SubSeq(fdArray, 1, i - 1) \o SubSeq(fdArray, i + 1, Len(fdArray))
        /\ owner' = [g \in Fds |-> IF g = arr[i] THEN NoConn ELSE owner[g]]
        /\ i <= Len(fdArray) /\ i' = i + 1 /\ pc = "scan"
        /\ UNCHANGED <<peer, backlog, since, sent, taken, got, pc, ready, arr>>
    BY DEF Win!Close, Win!Hit, Win!At
  <2>2. Shrinks
    BY <1>0, <2>1 DEF Shrinks, NetTyped
  <2>3. Followed'
    BY <1>0, <2>1, <2>2, FollowedClose, MovesNot DEF Stopped
  <2>4. fdArray' \in Seq(Fds \cup {Serv})
    <3>1. /\ SubSeq(fdArray, 1, i - 1) \in Seq(Fds \cup {Serv})
          /\ SubSeq(fdArray, i + 1, Len(fdArray)) \in Seq(Fds \cup {Serv})
      BY <1>0, <2>1, SubSeqProperties DEF WinInv
    <3> QED
      BY <2>1, <3>1, ConcatProperties
  <2> QED
    BY <1>0, <2>1, <2>3, <2>4 DEF WinInv
<1> QED
  BY <1>1, <1>2, <1>3, <1>4, <1>5, <1>6, <1>7 DEF Win!Next, Win!Server

\* echo_server.c, echo_server_win.c, reuseaddr_eserver.c and echo_stdserver.c
IterInv ==
    /\ Followed
    /\ pc \in {"accept", "serve", "ended", "dead"}
    /\ fd \in Fds \cup {Serv} /\ i \in 0 .. Iter!Last
    /\ pc = "serve" => fd \in Fds /\ owner[fd] \in Conns
    /\ pc = "serve" => i < Iter!Last

LEMMA IterFollows ==
    ASSUME Iterates, UNCHANGED program, IterInv, Iter!Next
    PROVE  IterInv'
<1> USE DEF Iter!net, Iter!server
<1>0. /\ AtOnce /\ Followed /\ Network /\ NetTyped /\ Iter!Last' = Iter!Last
  BY DEF AtOnce, Iterates, IterInv, Followed, Netted, Network, Iter!Last
<1>1. CASE \E c \in Conns : Iter!Client(c) /\ UNCHANGED Iter!server
  <2>1. PICK c \in Conns : Connect(c) \/ ClientSend(c) \/ ClientShut(c) \/ ClientReset(c)
    BY <1>1 DEF Iter!Client, Iter!Connect, Connect, Iter!ClientSend, ClientSend,
                Iter!ClientShut, ClientShut, Iter!ClientReset, ClientReset
  <2>2. UNCHANGED <<pc, fd, i, owner>>
    BY <1>1, <2>1 DEF Connect, ClientSend, ClientShut, ClientReset
  <2>3. Followed'
    BY <1>0, <2>1, <2>2, FollowedClient
  <2> QED
    BY <1>0, <2>2, <2>3 DEF IterInv
<1>2. CASE Iter!EndServer
  <2>1. UNCHANGED net /\ UNCHANGED <<fd, i>> /\ pc' = "ended"
    BY <1>2 DEF Iter!EndServer, net
  <2>2. Followed'
    BY <1>0, <2>1, FollowedIdle DEF Stopped
  <2> QED
    BY <1>0, <2>1, <2>2 DEF IterInv
<1>3. CASE \E f \in Fds : Iter!Accept(f)
  <2> PICK f \in Fds : Iter!Accept(f)
    BY <1>3
  <2>1. /\ AcceptAs(f) /\ UNCHANGED <<peer, sent, taken, got, i>>
        /\ pc = "accept" /\ i < Iter!Last /\ fd' = f /\ pc' = "serve"
    BY DEF Iter!Accept, Iter!AcceptAs, AcceptAs
  <2>2. Followed'
    BY <1>0, <2>1, FollowedAccept DEF Stopped
  <2>3. owner' = [owner EXCEPT ![f] = Head(backlog)] /\ Head(backlog) \in Conns
    BY <1>0, <2>1, NetworkAccept
  <2>4. owner'[f] \in Conns
    BY <1>0, <2>3 DEF NetTyped
  <2> QED
    BY <1>0, <2>1, <2>2, <2>4 DEF IterInv
<1>s. ASSUME pc = "serve"
      PROVE  /\ fd \in Fds /\ owner[fd] \in Conns /\ i < Iter!Last
             /\ i + 1 \in 0 .. Iter!Last /\ ~Stopped
  <2>1. Iter!Last \in Nat
    BY RoundsAssumption DEF Iter!Last
  <2> QED
    BY <1>s, <2>1 DEF IterInv, Stopped
<1>4. CASE Iter!Echo
  <2>1. /\ pc = "serve" /\ UNCHANGED <<backlog, since, sent, owner, fd, i>>
        /\ TakeUnit(owner[fd])
        /\ \/ pc' = "dead" /\ UNCHANGED <<peer, got>>
           \/ WriteTo({owner[fd]}, NextUnit(owner[fd])) /\ UNCHANGED pc
    BY <1>4 DEF Iter!Echo, Iter!TakeUnit, TakeUnit, Iter!WriteTo, WriteTo, Iter!Transmit, Transmit,
           Iter!NextUnit, NextUnit, Iter!Reported, Reported, Iter!OnWindows, OnWindows
  <2> PICK c \in Conns : c = owner[fd]
    BY <1>s, <2>1
  <2>2. /\ \A d \in Served : d \in {c} <=> Owed(d, c)
        /\ {c} \cap Conns \subseteq Served
    BY <1>s, <2>1 DEF Owed, Served, Iterates
  <2>3. Followed'
    <3>1. CASE pc' = "dead" /\ UNCHANGED <<peer, got>>
      BY <1>0, <2>1, <3>1, FollowedDies DEF Stopped
    <3>2. CASE WriteTo({c}, NextUnit(c)) /\ UNCHANGED pc
      BY <1>0, <1>s, <2>1, <2>2, <3>2, FollowedWrite, ShrinksNot
    <3> QED
      BY <2>1, <3>1, <3>2
  <2> QED
    BY <1>0, <2>1, <2>3 DEF IterInv
<1>5. CASE Iter!Close
  <2>1. /\ pc = "serve" /\ CloseFd(fd) /\ i' = i + 1 /\ pc' = "accept"
        /\ UNCHANGED <<peer, backlog, since, sent, taken, got, fd>>
    BY <1>5 DEF Iter!Close, Iter!CloseFd, CloseFd
  <2>2. Followed'
    BY <1>0, <1>s, <2>1, FollowedClose, MovesNot, ShrinksClose
  <2> QED
    BY <1>0, <1>s, <2>1, <2>2 DEF IterInv
<1>6. CASE Iter!Fail
  <2>1. /\ pc = "serve" /\ Failed(owner[fd])
        /\ peer' = [peer EXCEPT ![owner[fd]] = Reported(owner[fd])]
        /\ UNCHANGED <<backlog, since, sent, taken, got, owner, pc, fd, i>>
    BY <1>6 DEF Iter!Fail, Iter!Failed, Failed, Iter!HasData, HasData,
           Iter!Reported, Reported, Iter!OnWindows, OnWindows
  <2>2. Followed'
    BY <1>0, <1>s, <2>1, FollowedClose, MovesFail, ShrinksNot
  <2> QED
    BY <1>0, <2>1, <2>2 DEF IterInv
<1>7. CASE Iter!StdEnd
  <2>1. /\ pc = "serve" /\ UNCHANGED <<backlog, since, sent, taken, got, fd>>
        /\ \/ pc' = "dead" /\ UNCHANGED <<peer, owner, i>>
           \/ Transmit({owner[fd]}) /\ CloseFd(fd) /\ i' = i + 1 /\ pc' = "accept"
    BY <1>7 DEF Iter!StdEnd, Iter!CloseFd, CloseFd, Iter!Transmit, Transmit,
           Iter!Reported, Reported, Iter!OnWindows, OnWindows
  <2>2. Moves /\ Shrinks
    BY <1>0, <2>1, MovesTransmit, MovesNot, ShrinksNot, ShrinksClose
  <2>3. Followed'
    BY <1>0, <1>s, <2>1, <2>2, FollowedClose
  <2> QED
    BY <1>0, <1>s, <2>1, <2>3 DEF IterInv
<1> QED
  BY <1>1, <1>2, <1>3, <1>4, <1>5, <1>6, <1>7
     DEF Iter!Next, Iter!Server, Iter!EchoServer, Iter!EchoServerWin,
         Iter!ReuseaddrEserver, Iter!EchoStdserver, Iter!Plain

\* The epoll servers: what they keep besides their arrays.
EpollOwn ==
    /\ Followed
    /\ pc \in {"wait", "next", "read", "dead"}
    /\ batch \subseteq Fds \cup {Serv} /\ fd \in Fds \cup {Serv} /\ edge \subseteq Conns

\* Who gets what was read from fd is who it is owed to.
LEMMA EpollOwes ==
    ASSUME EpollInv, pc = "read"
    PROVE  /\ fd \in Fds /\ owner[fd] \in Conns
           /\ Epoll!Recipients(fd) \cap Conns \subseteq Served
           /\ \A d \in Served : d \in Epoll!Recipients(fd) <=> Owed(d, owner[fd])
<1> DEFINE cs == Epoll!Recipients(fd)
<1>1. fd \in Fds /\ owner[fd] # NoConn
  BY DEF EpollInv, Batched
<1>2. owner[fd] \in Conns
  BY <1>1 DEF EpollInv, Network, NetTyped
<1>3. CASE program = "epoll_chat"
  <2>1. /\ \A k \in 0 .. clntNum - 1 : clntArr[k] \in Fds /\ owner[clntArr[k]] # NoConn
        /\ \A f \in Fds : owner[f] # NoConn => \E k \in 0 .. clntNum - 1 : clntArr[k] = f
    BY <1>3 DEF EpollInv, Listed
  <2>2. cs = {owner[clntArr[k]] : k \in {j \in 0 .. clntNum - 1 : clntArr[j] # fd}}
    BY <1>3 DEF Epoll!Recipients, Epoll!Chats
  <2> HIDE DEF cs
  <2>3. ASSUME NEW d \in cs PROVE d # owner[fd] /\ (d \in Conns => d \in Served)
    <3>1. PICK k \in 0 .. clntNum - 1 : clntArr[k] # fd /\ d = owner[clntArr[k]]
      BY <2>2
    <3>2. clntArr[k] \in Fds /\ owner[clntArr[k]] # NoConn
      BY <2>1
    <3> QED
      BY <1>1, <3>1, <3>2 DEF EpollInv, Network, OnePlace, Served
  <2>4. ASSUME NEW d \in Served, d # owner[fd] PROVE d \in cs
    <3>1. PICK f \in Fds : owner[f] = d
      BY DEF Served
    <3>2. owner[f] # NoConn /\ f # fd
      BY <2>4, <3>1, SocketsAssumption DEF Served
    <3>3. PICK k \in 0 .. clntNum - 1 : clntArr[k] = f
      BY <2>1, <3>2
    <3> QED
      BY <2>2, <3>1, <3>2, <3>3
  <2>5. \A d : Owed(d, owner[fd]) <=> owner[fd] # d
    BY <1>3 DEF Owed
  <2> QED
    BY <1>1, <1>2, <2>3, <2>4, <2>5 DEF cs
<1>4. CASE program # "epoll_chat"
  <2>1. cs = {owner[fd]}
    BY <1>4 DEF Epoll!Recipients, Epoll!Chats
  <2>2. \A d : Owed(d, owner[fd]) <=> d = owner[fd]
    BY <1>4 DEF Owed, EpollInv, EpollTyped, OnEpoll
  <2> QED
    BY <1>1, <1>2, <2>1, <2>2 DEF Served
<1> QED
  BY <1>3, <1>4

LEMMA EpollFollows ==
    ASSUME EpollInv, EpollOwn, UNCHANGED program, Epoll!Next
    PROVE  EpollOwn'
<1> USE DEF Epoll!net, Epoll!server
<1>0. /\ AtOnce /\ Followed /\ Network /\ NetTyped
      /\ owner \in [Fds -> Conns \cup {NoConn}]
  BY DEF AtOnce, EpollInv, EpollTyped, OnEpoll, EpollOwn, Followed, Netted, Network, NetTyped
<1>m. \A cs : cs \subseteq Conns => (Epoll!Mark(cs) => edge' \subseteq Conns)
  BY DEF Epoll!Mark, EpollOwn
<1>1. CASE \E c \in Conns : (Epoll!Connect(c) /\ UNCHANGED Epoll!server) \/ Epoll!Arrives(c)
  <2>1. PICK c \in Conns : (Epoll!Connect(c) /\ UNCHANGED Epoll!server) \/ Epoll!Arrives(c)
    BY <1>1
  <2>2. Connect(c) \/ ClientSend(c) \/ ClientShut(c) \/ ClientReset(c)
    BY <2>1 DEF Epoll!Connect, Connect, Epoll!Arrives, Epoll!ClientSend, ClientSend,
                Epoll!ClientShut, ClientShut, Epoll!ClientReset, ClientReset
  <2>3. UNCHANGED <<pc, batch, fd>>
    BY <2>1 DEF Epoll!Arrives
  <2>4. UNCHANGED edge \/ \E cs : cs \subseteq Conns /\ Epoll!Mark(cs)
    BY <2>1 DEF Epoll!Arrives
  <2>5. edge' \subseteq Conns
    BY <1>m, <2>4 DEF EpollOwn
  <2>6. Followed'
    BY <1>0, <2>2, <2>3, FollowedClient
  <2> QED
    BY <2>3, <2>5, <2>6 DEF EpollOwn
<1>2. CASE Epoll!Wait \/ Epoll!Pick \/ Epoll!BatchEnds \/ Epoll!ReadAgain
  <2>1. /\ UNCHANGED net /\ ~Stopped /\ pc' \in {"wait", "next", "read"}
        /\ batch' \subseteq Fds \cup {Serv} /\ fd' \in Fds \cup {Serv} /\ edge' \subseteq Conns
    BY <1>2 DEF Epoll!Wait, Epoll!Pick, Epoll!BatchEnds, Epoll!ReadAgain, net, Stopped,
                EpollOwn, Epoll!All
  <2>2. Followed'
    BY <1>0, <2>1, FollowedIdle
  <2> QED
    BY <2>1, <2>2 DEF EpollOwn
<1>3. CASE Epoll!Accept
  <2> PICK f : f = Epoll!LowestFree
    OBVIOUS
  <2>1. /\ AcceptAs(f) /\ UNCHANGED <<peer, sent, taken, got, pc, fd>>
        /\ f \in Fds /\ pc = "next" /\ batch' = batch \ {Serv}
        /\ Epoll!Mark({c \in {Head(backlog)} : Epoll!Readable(c)})
    BY <1>3 DEF Epoll!Accept, Epoll!AcceptAs, AcceptAs
  <2>2. Followed'
    BY <1>0, <2>1, FollowedAccept DEF Stopped
  <2>3. Head(backlog) \in Conns
    BY <1>0, <2>1, NetworkAccept
  <2>4. edge' \subseteq Conns
    BY <1>m, <2>1, <2>3
  <2> QED
    BY <2>1, <2>2, <2>4 DEF EpollOwn
<1>4. CASE Epoll!ReadData
  <2> PICK cs : cs = Epoll!Recipients(fd)
    OBVIOUS
  <2> PICK u : u = NextUnit(owner[fd])
    OBVIOUS
  <2>w. Epoll!WriteTo(cs, u) => WriteTo(cs, u)
    BY DEF Epoll!WriteTo, WriteTo, Epoll!Transmit, Transmit, Epoll!Reported, Reported,
           Epoll!OnWindows, OnWindows
  <2>v. /\ pc = "read" /\ TakeUnit(owner[fd])
        /\ UNCHANGED <<backlog, sent, since, owner, batch, fd>>
        /\ \/ pc' = "dead" /\ UNCHANGED <<peer, got, edge>>
           \/ /\ Epoll!WriteTo(cs, u) /\ pc' \in {"read", "next"}
              /\ Epoll!Mark({d \in Conns : peer'[d] # peer[d]})
    <3>1. Epoll!NextUnit(owner[fd]) = u /\ Epoll!AfterRead \in {"read", "next"}
      BY DEF Epoll!NextUnit, NextUnit, Epoll!AfterRead
    <3> QED
      BY <1>4, <3>1 DEF Epoll!ReadData, Epoll!TakeUnit, TakeUnit
  <2>0. /\ pc = "read" /\ TakeUnit(owner[fd])
        /\ UNCHANGED <<backlog, sent, since, owner, batch, fd>>
        /\ \/ pc' = "dead" /\ UNCHANGED <<peer, got, edge>>
           \/ /\ WriteTo(cs, NextUnit(owner[fd])) /\ pc' \in {"read", "next"}
              /\ Epoll!Mark({d \in Conns : peer'[d] # peer[d]})
    BY <2>v, <2>w
  <2>1. /\ owner[fd] \in Conns /\ cs \cap Conns \subseteq Served
        /\ \A d \in Served : d \in cs <=> Owed(d, owner[fd])
    BY <2>0, EpollOwes
  <2> PICK c \in Conns : c = owner[fd]
    BY <2>1
  <2>2. Followed'
    <3>1. CASE pc' = "dead" /\ UNCHANGED <<peer, got, edge>>
      BY <1>0, <2>0, <3>1, FollowedDies DEF Stopped
    <3>2. CASE WriteTo(cs, NextUnit(c))
      BY <1>0, <2>0, <2>1, <3>2, FollowedWrite, ShrinksNot DEF Stopped
    <3> QED
      BY <2>0, <3>1, <3>2
  <2>3. edge' \subseteq Conns
    BY <1>m, <2>0 DEF EpollOwn
  <2> QED
    BY <2>0, <2>2, <2>3 DEF EpollOwn
<1>5. CASE Epoll!ReadEnd
  <2>1. /\ pc = "read" /\ CloseFd(fd) /\ pc' = "next" /\ edge' \subseteq edge
        /\ UNCHANGED <<peer, backlog, since, sent, taken, got, batch, fd>>
    BY <1>5 DEF Epoll!ReadEnd, Epoll!CloseFd, CloseFd
  <2>2. fd \in Fds
    BY <2>1, EpollOwes
  <2>3. Followed'
    BY <1>0, <2>1, <2>2, FollowedClose, MovesNot, ShrinksClose DEF Stopped
  <2> QED
    BY <2>1, <2>3 DEF EpollOwn
<1>6. CASE Epoll!ReadFails
  <2>1. /\ pc = "read" /\ pc' \in {"read", "next"} /\ Failed(owner[fd])
        /\ peer' = [peer EXCEPT ![owner[fd]] = Reported(owner[fd])]
        /\ UNCHANGED <<backlog, since, sent, taken, got, owner, batch, fd, edge>>
    BY <1>6 DEF Epoll!ReadFails, Epoll!Failed, Failed, Epoll!HasData, HasData,
           Epoll!Reported, Reported, Epoll!OnWindows, OnWindows, Epoll!AfterRead
  <2>2. Followed'
    BY <1>0, <2>1, FollowedClose, MovesFail, ShrinksNot DEF Stopped
  <2> QED
    BY <2>1, <2>2 DEF EpollOwn
<1> QED
  BY <1>1, <1>2, <1>3, <1>4, <1>5, <1>6
     DEF Epoll!Next, Epoll!EpollServ, Epoll!EPLTServ, Epoll!EPETProblem,
         Epoll!EPETServ, Epoll!ChatEPETServ, Epoll!Server

\* The event programs: who gets what was read is who it is owed to.
LEMMA AsyncOwes ==
    ASSUME AsyncInv, NEW f \in Fds, owner[f] \in Conns
    PROVE  /\ Async!Recipients(f) \cap Conns \subseteq Served
           /\ \A d \in Served : d \in Async!Recipients(f) <=> Owed(d, owner[f])
<1> DEFINE cs == Async!Recipients(f)
<1>1. CASE program = "notify_chat"
  <2>1. cs = {owner[hSockArr[k]] : k \in {j \in 0 .. numOfClntSock - 1 : hSockArr[j] # Serv}}
    BY <1>1 DEF Async!Recipients
  <2> HIDE DEF cs
  <2>2. /\ hSockArr[0] = Serv
        /\ \A k \in 1 .. numOfClntSock - 1 : hSockArr[k] \in Fds
        /\ \A g \in Fds : owner[g] # NoConn => \E k \in 1 .. numOfClntSock - 1 : hSockArr[k] = g
        /\ numOfClntSock \in Int
    BY DEF AsyncInv, Parallel, AsyncTyped
  <2>3. ASSUME NEW d \in cs, d \in Conns PROVE d \in Served
    <3>1. PICK k \in 0 .. numOfClntSock - 1 : hSockArr[k] # Serv /\ d = owner[hSockArr[k]]
      BY <2>1
    <3>2. k \in 1 .. numOfClntSock - 1
      BY <2>2, <3>1
    <3> QED
      BY <2>2, <2>3, <3>1, <3>2 DEF Served
  <2>4. ASSUME NEW d \in Served PROVE d \in cs
    <3>1. PICK g \in Fds : owner[g] = d
      BY DEF Served
    <3>2. owner[g] # NoConn /\ g # Serv
      BY <3>1, SocketsAssumption DEF Served
    <3>3. PICK k \in 1 .. numOfClntSock - 1 : hSockArr[k] = g
      BY <2>2, <3>2
    <3>4. k \in 0 .. numOfClntSock - 1
      BY <2>2
    <3> QED
      BY <2>1, <3>1, <3>2, <3>3, <3>4
  <2>5. \A d : Owed(d, owner[f])
    BY <1>1 DEF Owed
  <2> QED
    BY <2>3, <2>4, <2>5 DEF cs
<1>2. CASE program # "notify_chat"
  <2>1. cs = {owner[f]}
    BY <1>2 DEF Async!Recipients
  <2>2. \A d : Owed(d, owner[f]) <=> d = owner[f]
    BY <1>2 DEF Owed, AsyncInv, AsyncTyped, OnEvents
  <2> QED
    BY <2>1, <2>2 DEF Served
<1> QED
  BY <1>1, <1>2

LEMMA AsyncFollows ==
    ASSUME AsyncInv, Followed, UNCHANGED program, Async!Next
    PROVE  Followed'
<1> USE DEF Async!net, Async!server
<1>0. /\ AtOnce /\ Followed /\ Network /\ NetTyped /\ ~Stopped
  BY DEF AtOnce, AsyncInv, AsyncTyped, OnEvents, Followed, Netted, Network, Stopped
<1>1. CASE \E c \in Conns : Async!ConnectSignals(c) \/ Async!Arrives(c)
  <2>1. PICK c \in Conns : Async!ConnectSignals(c) \/ Async!Arrives(c)
    BY <1>1
  <2>2. Connect(c) \/ ClientSend(c) \/ ClientShut(c) \/ ClientReset(c)
    BY <2>1 DEF Async!ConnectSignals, Async!Connect, Connect, Async!Arrives,
                Async!ClientSend, ClientSend, Async!ClientShut, ClientShut,
                Async!ClientReset, ClientReset
  <2>3. UNCHANGED pc
    BY <2>1 DEF Async!ConnectSignals, Async!Arrives, Async!Notify
  <2> QED
    BY <1>0, <2>2, <2>3, FollowedClient
<1>2. CASE Async!Wait \/ Async!ScanEnds \/ Async!Skip
  <2>1. UNCHANGED net
    BY <1>2 DEF Async!Wait, Async!ScanEnds, Async!Skip, net
  <2> QED
    BY <1>0, <2>1, FollowedIdle
<1>3. CASE \E f \in Fds : Async!Accept(f)
  <2> PICK f \in Fds : Async!Accept(f)
    BY <1>3
  <2>1. AcceptAs(f) /\ UNCHANGED <<peer, sent, taken, got, pc>>
    BY DEF Async!Accept, Async!AcceptAs, AcceptAs
  <2> QED
    BY <1>0, <2>1, FollowedAccept
<1>4. CASE \E f \in Fds : Async!Read(f) \/ Async!Close(f) \/ Async!Abort(f)
  <2> PICK f \in Fds : Async!Read(f) \/ Async!Close(f) \/ Async!Abort(f)
    BY <1>4
  <2> PICK cs : cs = Async!Recipients(f)
    OBVIOUS
  <2> PICK u : u = NextUnit(owner[f])
    OBVIOUS
  <2>1. Async!WriteTo(cs, u) => WriteTo(cs, u)
    BY DEF Async!WriteTo, WriteTo, Async!Transmit, Transmit, Async!Reported, Reported,
           Async!OnWindows, OnWindows
  <2>2. /\ Async!Signaled(f) /\ UNCHANGED <<backlog, sent, since>>
        /\ owner' = owner \/ CloseFd(f)
        /\ \/ TakeUnit(owner[f]) /\ Async!WriteTo(cs, u)
           \/ UNCHANGED <<taken, peer, got>>
    <3>1. Async!NextUnit(owner[f]) = u
      BY DEF Async!NextUnit, NextUnit
    <3>2. CASE Async!Read(f)
      BY <3>1, <3>2 DEF Async!Read, Async!TakeUnit, TakeUnit
    <3>3. CASE Async!Close(f)
      BY <3>1, <3>3 DEF Async!Close, Async!TakeUnit, TakeUnit, Async!CloseFd, CloseFd
    <3>4. CASE Async!Abort(f)
      BY <3>1, <3>4 DEF Async!Abort, Async!TakeUnit, TakeUnit
    <3> QED
      BY <3>2, <3>3, <3>4
  <2>3. owner[f] \in Conns
    BY <2>2, AsyncEntry DEF Served
  <2>4. /\ cs \cap Conns \subseteq Served
        /\ \A d \in Served : d \in cs <=> Owed(d, owner[f])
    BY <2>3, AsyncOwes
  <2>5. Shrinks
    BY <1>0, <2>2, ShrinksNot, ShrinksClose
  <2>6. CASE TakeUnit(owner[f]) /\ Async!WriteTo(cs, u)
    <3>1. WriteTo(cs, NextUnit(owner[f]))
      BY <2>1, <2>6
    <3> PICK c \in Conns : c = owner[f]
      BY <2>3
    <3> QED
      BY <1>0, <2>2, <2>4, <2>5, <2>6, <3>1, FollowedWrite
  <2>7. CASE UNCHANGED <<taken, peer, got>>
    BY <1>0, <2>2, <2>5, <2>7, FollowedClose, MovesNot
  <2> QED
    BY <2>2, <2>6, <2>7
<1> QED
  BY <1>1, <1>2, <1>3, <1>4 DEF Async!Next, Async!EchoServ, Async!ChatServ, Async!Server

\* echo_mpserv.c and echo_storeserv.c
ForksTyped ==
    /\ pc \in {"accept", "fork", "close"} /\ fd \in Fds \cup {Serv}
    /\ kid \in [Conns -> {"none", "serve", "pipe", "zombie", "reaped"}]
    /\ chld \in BOOLEAN /\ pipe \in Nat /\ stored \in 0 .. StoreReads

\* A child that runs has its connection open.
ForksOwn ==
    /\ Followed /\ ForksTyped
    /\ pc \in {"fork", "close"} => fd \in Fds /\ owner[fd] \in Conns
    /\ \A c \in Conns : kid[c] \in {"serve", "pipe"} => c \in Served

LEMMA ForksTypes ==
    ASSUME ForksTyped, Forks!Next
    PROVE  ForksTyped'
<1> USE DEF Forks!net, Forks!server, ForksTyped
<1>1. CASE \E c \in Conns : Forks!Client(c) /\ UNCHANGED Forks!server
  BY <1>1
<1>2. CASE Forks!Accept
  <2> PICK f : f = Forks!LowestFree
    OBVIOUS
  <2>1. f \in Fds /\ fd' = f /\ pc' = "fork" /\ UNCHANGED <<kid, chld, pipe, stored>>
    BY <1>2 DEF Forks!Accept, Forks!AcceptAs
  <2> QED
    BY <2>1
<1>3. CASE Forks!Fork \/ Forks!ParentClose \/ Forks!Reap
  <2>1. /\ kid' = kid \/ \E c : kid' = [kid EXCEPT ![c] = "serve"] \/ kid' = [kid EXCEPT ![c] = "reaped"]
        /\ UNCHANGED <<pipe, stored>> /\ fd' \in {fd, Serv}
        /\ pc' \in {pc, "accept", "close"} /\ chld' \in {chld, FALSE}
    BY <1>3 DEF Forks!Fork, Forks!ParentClose, Forks!Reap
  <2> QED
    BY <2>1
<1>4. CASE Forks!Store
  <2>1. /\ stored' \in 0 .. StoreReads /\ pipe' \in Nat
        /\ UNCHANGED <<pc, fd, kid>>
    <3>1. stored < StoreReads /\ stored' = stored + 1 /\ UNCHANGED <<pc, fd, kid>>
      BY <1>4 DEF Forks!Store
    <3>2. pipe' \in 0 .. pipe - 1
      BY <1>4 DEF Forks!Store
    <3> QED
      BY <3>1, <3>2, RoundsAssumption
  <2>2. chld' \in BOOLEAN
    BY <1>4 DEF Forks!Store
  <2> QED
    BY <2>1, <2>2
<1>5. ASSUME NEW c \in Conns, Forks!Kid(c) \/ Forks!KidStores(c) PROVE ForksTyped'
  <2>1. /\ UNCHANGED <<pc, fd, stored>> /\ pipe' \in {pipe, pipe + 1} /\ chld' \in {chld, TRUE}
        /\ kid' = kid \/ \E s \in {"zombie", "pipe", "serve"} : kid' = [kid EXCEPT ![c] = s]
    BY <1>5 DEF Forks!Kid, Forks!KidEnds, Forks!KidEchoes, Forks!KidFails, Forks!KidStores, Forks!Exit
  <2>2. kid' \in [Conns -> {"none", "serve", "pipe", "zombie", "reaped"}]
    BY <2>1
  <2>3. chld' \in BOOLEAN
    BY <2>1
  <2>4. pipe' \in Nat
    BY <2>1
  <2> QED
    BY <2>1, <2>2, <2>3, <2>4
<1> QED
  BY <1>1, <1>2, <1>3, <1>4, <1>5
     DEF Forks!Next, Forks!Server, Forks!EchoMpserv, Forks!EchoStoreserv, Forks!Parent

LEMMA ForksFollows ==
    ASSUME OnForks, ForksOwn, UNCHANGED program, Forks!Next
    PROVE  ForksOwn'
<1> USE DEF Forks!net, Forks!server
<1>0. /\ AtOnce /\ Followed /\ Network /\ NetTyped /\ ~Stopped /\ ~Stopped' /\ ForksTyped'
      /\ owner \in [Fds -> Conns \cup {NoConn}] /\ kid \in [Conns -> {"none", "serve", "pipe", "zombie", "reaped"}]
  BY ForksTypes DEF AtOnce, OnForks, ForksOwn, ForksTyped, Followed, Netted, Network, NetTyped, Stopped
<1>o. \A d, x \in Conns : Owed(d, x) <=> d = x
  BY DEF Owed, OnForks
<1>k. ASSUME Followed', UNCHANGED <<owner, kid>>, pc' = pc /\ fd' = fd
      PROVE  ForksOwn'
  BY <1>0, <1>k DEF ForksOwn, Served
<1>1. CASE \E c \in Conns : Forks!Client(c) /\ UNCHANGED Forks!server
  <2>1. PICK c \in Conns : Connect(c) \/ ClientSend(c) \/ ClientShut(c) \/ ClientReset(c)
    BY <1>1 DEF Forks!Client, Forks!Connect, Connect, Forks!ClientSend, ClientSend,
                Forks!ClientShut, ClientShut, Forks!ClientReset, ClientReset
  <2>2. UNCHANGED <<pc, fd, kid, owner>>
    BY <1>1, <2>1 DEF Connect, ClientSend, ClientShut, ClientReset
  <2>3. Followed'
    BY <1>0, <2>1, <2>2, FollowedClient
  <2> QED
    BY <1>k, <2>2, <2>3
<1>2. CASE Forks!Reap \/ Forks!Store \/ Forks!Fork \/ \E c \in Conns : Forks!KidStores(c)
  <2>1. UNCHANGED net
    BY <1>2 DEF Forks!Reap, Forks!Store, Forks!Fork, Forks!KidStores, net
  <2>2. Followed'
    BY <1>0, <2>1, FollowedIdle
  <2>3. Served' = Served /\ UNCHANGED owner
    BY <2>1 DEF net, Served
  <2>4. CASE Forks!Reap
    <3>1. UNCHANGED <<pc, fd>> /\ (kid' = kid \/ \E c \in Conns : kid' = [kid EXCEPT ![c] = "reaped"])
      BY <2>4 DEF Forks!Reap
    <3> QED
      BY <1>0, <2>2, <2>3, <3>1 DEF ForksOwn
  <2>5. CASE Forks!Store
    BY <1>k, <2>2, <2>3, <2>5 DEF Forks!Store
  <2>6. CASE Forks!Fork
    <3>1. /\ pc = "fork" /\ pc' = "close" /\ fd' = fd /\ owner[fd] \in Served /\ fd \in Fds
          /\ kid' = [kid EXCEPT ![owner[fd]] = "serve"] /\ owner[fd] \in Conns
      BY <2>6 DEF Forks!Fork, ForksOwn, Served
    <3> QED
      BY <1>0, <2>2, <2>3, <3>1 DEF ForksOwn
  <2>7. CASE \E c \in Conns : Forks!KidStores(c)
    <3>1. PICK c \in Conns : kid[c] = "pipe" /\ kid' = [kid EXCEPT ![c] = "serve"] /\ UNCHANGED <<pc, fd>>
      BY <2>7 DEF Forks!KidStores
    <3> QED
      BY <1>0, <2>2, <2>3, <3>1 DEF ForksOwn
  <2> QED
    BY <1>2, <2>4, <2>5, <2>6, <2>7
<1>3. CASE Forks!Accept
  <2> PICK f : f = Forks!LowestFree
    OBVIOUS
  <2>1. /\ AcceptAs(f) /\ f \in Fds /\ fd' = f /\ pc' = "fork"
        /\ UNCHANGED <<peer, sent, taken, got, kid>>
    BY <1>3 DEF Forks!Accept, Forks!AcceptAs, AcceptAs
  <2>2. Followed'
    BY <1>0, <2>1, FollowedAccept
  <2>3. /\ owner' = [owner EXCEPT ![f] = Head(backlog)] /\ Head(backlog) \in Conns
        /\ Served' = Served \cup {Head(backlog)}
    BY <1>0, <2>1, NetworkAccept
  <2> QED
    BY <1>0, <2>1, <2>2, <2>3 DEF ForksOwn
<1>4. CASE Forks!ParentClose
  <2>1. /\ pc = "close" /\ pc' = "accept"
        /\ UNCHANGED <<peer, sent, taken, backlog, kid, got, since>>
        /\ \/ kid[owner[fd]] \in {"zombie", "reaped"} /\ CloseFd(fd)
           \/ UNCHANGED owner
    BY <1>4 DEF Forks!ParentClose, Forks!CloseFd, CloseFd
  <2>2. fd \in Fds /\ owner[fd] \in Conns
    BY <2>1 DEF ForksOwn
  <2>3. Followed'
    BY <1>0, <2>1, <2>2, FollowedClose, MovesNot, ShrinksNot, ShrinksClose
  <2>4. \A c \in Conns : kid[c] \in {"serve", "pipe"} => c \in Served'
    <3>1. CASE UNCHANGED owner
      BY <3>1 DEF ForksOwn, Served
    <3>2. CASE kid[owner[fd]] \in {"zombie", "reaped"} /\ CloseFd(fd)
      <4>1. Served' = Served \ {owner[fd]}
        BY <1>0, <2>2, <3>2, ServedClose
      <4> QED
        BY <3>2, <4>1 DEF ForksOwn
    <3> QED
      BY <2>1, <3>1, <3>2
  <2> QED
    BY <1>0, <2>1, <2>3, <2>4 DEF ForksOwn
<1>e. ASSUME NEW c \in Conns, Forks!Exit(c)
      PROVE  /\ Shrinks
             /\ pc' = pc /\ fd' = fd /\ Followed' => ForksOwn'
  <2>1. /\ kid' = [kid EXCEPT ![c] = "zombie"]
        /\ owner' = [f \in Fds |-> IF owner[f] = c /\ f # fd THEN NoConn ELSE owner[f]]
    BY <1>e DEF Forks!Exit
  <2>2. Shrinks
    BY <1>0, <2>1 DEF Shrinks
  <2>3. \A d \in Conns : kid'[d] \in {"serve", "pipe"} => d \in Served'
    <3> SUFFICES ASSUME NEW d \in Conns, kid'[d] \in {"serve", "pipe"} PROVE d \in Served'
      OBVIOUS
    <3>1. d # c /\ kid[d] \in {"serve", "pipe"}
      BY <1>0, <2>1
    <3>2. PICK f \in Fds : owner[f] = d
      BY <3>1 DEF ForksOwn, Served
    <3>3. owner'[f] = d
      BY <2>1, <3>1, <3>2
    <3> QED
      BY <3>3 DEF Served
  <2>4. fd \in Fds => owner'[fd] = owner[fd]
    BY <2>1
  <2> QED
    BY <1>0, <2>2, <2>3, <2>4 DEF ForksOwn
<1>5. ASSUME NEW c \in Conns, Forks!Kid(c) PROVE ForksOwn'
  <2>1. CASE Forks!KidEnds(c)
    <3>1. Forks!Exit(c) /\ UNCHANGED <<peer, backlog, sent, taken, got, since, pc, fd>>
      BY <2>1 DEF Forks!KidEnds
    <3>2. Followed'
      BY <1>0, <1>e, <3>1, FollowedClose, MovesNot
    <3> QED
      BY <1>e, <3>1, <3>2
  <2>2. CASE Forks!KidEchoes(c)
    <3> PICK u : u = NextUnit(c)
      OBVIOUS
    <3>w. Forks!WriteTo({c}, u) => WriteTo({c}, u)
      BY DEF Forks!WriteTo, WriteTo, Forks!Transmit, Transmit, Forks!Reported, Reported,
             Forks!OnWindows, OnWindows
    <3>1. /\ kid[c] = "serve" /\ TakeUnit(c)
          /\ UNCHANGED <<backlog, sent, since, pc, fd>>
          /\ \/ peer[c] = "gone" /\ Forks!Exit(c) /\ UNCHANGED <<peer, got>>
             \/ /\ Forks!WriteTo({c}, u) /\ UNCHANGED owner
                /\ kid' = kid \/ kid' = [kid EXCEPT ![c] = "pipe"]
      <4>1. Forks!NextUnit(c) = u
        BY DEF Forks!NextUnit, NextUnit
      <4> QED
        BY <2>2, <4>1 DEF Forks!KidEchoes, Forks!TakeUnit, TakeUnit, Forks!RaisesSigpipe
    <3>2. CASE peer[c] = "gone" /\ Forks!Exit(c) /\ UNCHANGED <<peer, got>>
      <4>1. /\ taken' \in [Conns -> Nat] /\ \A d \in Conns \ {c} : taken'[d] = taken[d]
        BY <1>0, <3>1, TakeTyped
      <4>2. \A d \in Served : peer[d] = "open" => Steady(d)
        <5> SUFFICES ASSUME NEW d \in Conns, peer[d] = "open" PROVE Steady(d)
          BY DEF Served
        <5>1. d # c
          BY <3>2
        <5> QED
          BY <1>0, <1>o, <4>1, <5>1, AtOncePassed DEF Steady
      <4>3. Moves /\ Shrinks
        BY <1>0, <1>e, <3>2, MovesNot
      <4>4. Netted /\ Tuned /\ got' \in [Conns -> Seq(Unit)]
        BY <1>0, <3>2 DEF Followed, Netted, Noted
      <4>5. Tuned' /\ Netted'
        BY <3>1, <3>2, <4>1, <4>2, <4>3, <4>4, TunedQuiet, NettedOn
      <4> QED
        BY <1>e, <3>1, <3>2, <4>5 DEF Followed
    <3>3. CASE /\ Forks!WriteTo({c}, u) /\ UNCHANGED owner
               /\ kid' = kid \/ kid' = [kid EXCEPT ![c] = "pipe"]
      <4>1. WriteTo({c}, NextUnit(c))
        BY <3>3, <3>w
      <4>2. c \in Served
        BY <3>1 DEF ForksOwn
      <4>3. {c} \cap Conns \subseteq Served /\ \A d \in Served : d \in {c} <=> Owed(d, c)
        BY <1>o, <4>2 DEF Served
      <4>4. Followed'
        BY <1>0, <3>1, <3>3, <4>1, <4>3, FollowedWrite, ShrinksNot
      <4>5. Served' = Served
        BY <3>3 DEF Served
      <4> QED
        BY <1>0, <3>1, <3>3, <4>2, <4>4, <4>5 DEF ForksOwn
    <3> QED
      BY <3>1, <3>2, <3>3
  <2>3. CASE Forks!KidFails(c)
    <3>1. /\ Failed(c) /\ peer' = [peer EXCEPT ![c] = Reported(c)]
          /\ UNCHANGED <<backlog, sent, taken, got, since, owner, pc, fd, kid>>
      BY <2>3 DEF Forks!KidFails, Forks!Failed, Failed, Forks!HasData, HasData,
             Forks!Reported, Reported, Forks!OnWindows, OnWindows
    <3>2. Followed'
      BY <1>0, <3>1, FollowedClose, MovesFail, ShrinksNot
    <3> QED
      BY <1>k, <3>1, <3>2
  <2> QED
    BY <1>5, <2>1, <2>2, <2>3 DEF Forks!Kid
<1> QED
  BY <1>1, <1>2, <1>3, <1>4, <1>5
     DEF Forks!Next, Forks!Server, Forks!EchoMpserv, Forks!EchoStoreserv, Forks!Parent

\* CmplRouEchoServ_win.c: the buffer of a client that has been read from and not
\* been answered yet holds the unit that was read last.
RoutinesTyped ==
    /\ pc \in {"sleep", "accept"} /\ apc \in Seq(Conns)
    /\ op \in [Conns -> {"none", "recv", "recvd", "send", "sent", "failed"}]
    /\ msg \in [Conns -> Unit \cup {Routines!NoUnit}]

RoutinesOwn ==
    /\ Netted /\ Tuned /\ RoutinesTyped
    /\ \A c \in Conns : op[c] # "none" => c \in Served
    /\ \A c \in Conns : op[c] = "send" => msg[c] # Routines!NoUnit
    /\ \A c \in Conns : op[c] \in {"recvd", "send"} =>
          msg[c] \in {Routines!NoUnit, [from |-> c, num |-> taken[c]]}

LEMMA RoutinesTypes ==
    ASSUME RoutinesTyped, NetTyped, Routines!Next
    PROVE  RoutinesTyped'
<1> USE DEF Routines!net, Routines!server
<1>0. /\ NetTyped /\ apc \in Seq(Conns)
      /\ op \in [Conns -> {"none", "recv", "recvd", "send", "sent", "failed"}]
      /\ msg \in [Conns -> Unit \cup {Routines!NoUnit}]
      /\ Routines!NoUnit' = Routines!NoUnit /\ Unit' = Unit
  BY DEF RoutinesTyped, Routines!NoUnit, Unit
<1>1. CASE \E c \in Conns : Routines!Client(c) /\ UNCHANGED Routines!server
  BY <1>0, <1>1 DEF RoutinesTyped
<1>2. CASE Routines!Wake
  BY <1>0, <1>2 DEF Routines!Wake, RoutinesTyped
<1>3. CASE \E f \in Fds : Routines!Accept(f)
  BY <1>0, <1>3 DEF Routines!Accept, Routines!Post, RoutinesTyped
<1>4. ASSUME NEW c \in Conns, Routines!ReceiveCompletes(c) \/ Routines!SendCompletes(c)
      PROVE  RoutinesTyped'
  <2>1. apc' \in Seq(Conns)
    <3>1. apc' = Append(apc, c)
      BY <1>4 DEF Routines!ReceiveCompletes, Routines!SendCompletes
    <3> QED
      BY <1>0, <3>1, AppendProperties
  <2>2. /\ op' \in [Conns -> {"none", "recv", "recvd", "send", "sent", "failed"}] /\ pc' = pc
    BY <1>0, <1>4 DEF Routines!ReceiveCompletes, Routines!SendCompletes
  <2>3. msg' \in [Conns -> Unit \cup {Routines!NoUnit}]
    <3>1. [from |-> c, num |-> taken[c] + 1] \in Unit
      BY <1>0 DEF NetTyped, Unit
    <3>2. \/ msg' = msg \/ msg' = [msg EXCEPT ![c] = Routines!NoUnit]
          \/ msg' = [msg EXCEPT ![c] = [from |-> c, num |-> taken[c] + 1]]
      BY <1>4 DEF Routines!ReceiveCompletes, Routines!SendCompletes, Routines!NextUnit
    <3> QED
      BY <1>0, <3>1, <3>2
  <2> QED
    BY <1>0, <2>1, <2>2, <2>3 DEF RoutinesTyped
<1>5. ASSUME NEW c \in Conns, Routines!Routine(c) PROVE RoutinesTyped'
  <2>1. apc # <<>> /\ apc' = Tail(apc) /\ UNCHANGED <<pc, msg>>
    BY <1>5 DEF Routines!Routine, Routines!ReadEnd, Routines!ReadCompRoutine,
                Routines!WriteCompRoutine, Routines!Due
  <2>2. apc' \in Seq(Conns)
    BY <1>0, <2>1, HeadTailProperties
  <2>3. op' \in [Conns -> {"none", "recv", "recvd", "send", "sent", "failed"}]
    BY <1>0, <1>5 DEF Routines!Routine, Routines!ReadEnd, Routines!ReadCompRoutine,
                Routines!WriteCompRoutine, Routines!Post
  <2> QED
    BY <1>0, <2>1, <2>2, <2>3 DEF RoutinesTyped
<1> QED
  BY <1>1, <1>2, <1>3, <1>4, <1>5 DEF Routines!Next, Routines!Server

\* A client is owed its own units, and no other ones.
LEMMA RoutinesPassed ==
    ASSUME program = "routines", UNCHANGED program, NEW d \in Conns
    PROVE  /\ Passed(d) = IF op[d] \in {"recvd", "send"} /\ msg[d].from = d THEN taken[d] - 1 ELSE taken[d]
           /\ Passed(d)' = IF op'[d] \in {"recvd", "send"} /\ msg'[d].from = d THEN taken'[d] - 1 ELSE taken'[d]
           /\ Passed(d)' = Passed(d) => Steady(d)
           /\ op'[d] = op[d] /\ msg'[d] = msg[d] /\ taken'[d] = taken[d] => Steady(d)
<1>1. /\ Midway = {c \in Conns : op[c] \in {"recvd", "send"} /\ msg[c].from = c}
      /\ Midway' = {c \in Conns : op'[c] \in {"recvd", "send"} /\ msg'[c].from = c}
  BY DEF Midway
<1>2. /\ Passed(d) = IF op[d] \in {"recvd", "send"} /\ msg[d].from = d THEN taken[d] - 1 ELSE taken[d]
      /\ Passed(d)' = IF op'[d] \in {"recvd", "send"} /\ msg'[d].from = d THEN taken'[d] - 1 ELSE taken'[d]
  BY <1>1 DEF Passed
<1>3. \A c \in Conns : (Owed(d, c) <=> d = c) /\ (Barred(d, c)' <=> Barred(d, c))
  BY DEF Owed, Barred
<1>4. Passed(d)' = Passed(d) => Steady(d)
  BY <1>3 DEF Steady
<1> QED
  BY <1>2, <1>4

LEMMA RoutinesFollows ==
    ASSUME program = "routines", UNCHANGED program, RoutinesOwn, Routines!Next
    PROVE  RoutinesOwn'
<1> USE DEF Routines!net, Routines!server
<1>0. /\ Netted /\ Tuned /\ Network /\ NetTyped /\ RoutinesTyped'
      /\ op \in [Conns -> {"none", "recv", "recvd", "send", "sent", "failed"}]
      /\ msg \in [Conns -> Unit \cup {Routines!NoUnit}]
      /\ taken \in [Conns -> Nat] /\ got \in [Conns -> Seq(Unit)]
      /\ Routines!NoUnit' = Routines!NoUnit
      /\ Routines!NoUnit.from = NoConn
  BY RoutinesTypes DEF RoutinesOwn, RoutinesTyped, Netted, Network, NetTyped, Noted, Routines!NoUnit
<1>c. ASSUME NEW c \in Conns
      PROVE  /\ op[c] # "none" => c \in Served
             /\ op[c] = "send" => msg[c] # Routines!NoUnit
             /\ op[c] \in {"recvd", "send"} =>
                   msg[c] \in {Routines!NoUnit, [from |-> c, num |-> taken[c]]}
  BY DEF RoutinesOwn
<1>k. ASSUME Netted', Tuned',
             \A c \in Conns : op'[c] # "none" => c \in Served',
             \A c \in Conns : op'[c] = "send" => msg'[c] # Routines!NoUnit,
             \A c \in Conns : op'[c] \in {"recvd", "send"} =>
                msg'[c] \in {Routines!NoUnit, [from |-> c, num |-> taken'[c]]}
      PROVE  RoutinesOwn'
  BY <1>0, <1>k DEF RoutinesOwn
<1>1. CASE \E c \in Conns : Routines!Client(c) /\ UNCHANGED Routines!server
  <2>1. PICK c \in Conns : Connect(c) \/ ClientSend(c) \/ ClientShut(c) \/ ClientReset(c)
    BY <1>1 DEF Routines!Client, Routines!Connect, Connect, Routines!ClientSend, ClientSend,
                Routines!ClientShut, ClientShut, Routines!ClientReset, ClientReset
  <2>2. UNCHANGED <<op, msg>>
    BY <1>1
  <2>3. Netted' /\ Served' = Served /\ taken' = taken
    BY <1>0, <2>1, NettedClient
  <2>4. Tuned'
    BY <1>0, <2>1, <2>2, <2>3, RoutinesPassed, TunedClient
  <2> QED
    BY <1>c, <1>k, <2>2, <2>3, <2>4
<1>2. CASE Routines!Wake
  <2>1. UNCHANGED net /\ UNCHANGED <<op, msg>>
    BY <1>2 DEF Routines!Wake, net
  <2>2. UNCHANGED <<peer, backlog, sent, taken, got, since, owner>>
    BY <2>1 DEF net
  <2>3. Netted' /\ Served' = Served
    BY <1>0, <2>1, <2>2, NettedIdle DEF Served
  <2>4. Tuned'
    BY <1>0, <2>1, <2>2, RoutinesPassed, TunedQuiet, MovesNot, ShrinksNot DEF Served
  <2> QED
    BY <1>c, <1>k, <2>1, <2>2, <2>3, <2>4
<1>3. CASE \E f \in Fds : Routines!Accept(f)
  <2> PICK f \in Fds : Routines!Accept(f)
    BY <1>3
  <2>1. /\ AcceptAs(f) /\ UNCHANGED <<peer, sent, taken, got, msg>>
        /\ Routines!Post(Head(backlog), "recv")
    BY DEF Routines!Accept, Routines!AcceptAs, AcceptAs
  <2>2. Head(backlog) \in Conns \ Served /\ Served' = Served \cup {Head(backlog)} /\ Netted'
    BY <1>0, <2>1, NetworkAccept, NettedAccept
  <2> PICK h \in Conns : h = Head(backlog)
    BY <2>2
  <2>3. /\ \A c \in Conns \ {h} : op'[c] = op[c]
        /\ op'[h] \in {"recv", "failed"}
    BY <1>0, <2>1 DEF Routines!Post
  <2>4. \A d \in Served : Steady(d)
    BY <2>1, <2>2, <2>3, RoutinesPassed DEF Served
  <2>5. \A c \in Conns : Owed(Head(backlog), c) => c \notin Midway'
    BY <2>3 DEF Owed, Midway
  <2>6. Tuned'
    BY <1>0, <2>1, <2>2, <2>4, <2>5, TunedAccept
  <2> QED
    BY <1>c, <1>k, <2>1, <2>2, <2>3, <2>6
<1>4. ASSUME NEW c \in Conns, Routines!ReceiveCompletes(c) PROVE RoutinesOwn'
  <2>0. /\ op[c] = "recv" /\ op' = [op EXCEPT ![c] = "recvd"]
        /\ UNCHANGED <<peer, backlog, sent, got, since, owner>>
        /\ \/ TakeUnit(c) /\ msg' = [msg EXCEPT ![c] = [from |-> c, num |-> taken[c] + 1]]
           \/ UNCHANGED taken /\ msg' = [msg EXCEPT ![c] = Routines!NoUnit]
    BY <1>4 DEF Routines!ReceiveCompletes, Routines!TakeUnit, TakeUnit, Routines!NextUnit
  <2>1. /\ taken' \in [Conns -> Nat]
        /\ \A d \in Conns \ {c} : taken'[d] = taken[d] /\ op'[d] = op[d] /\ msg'[d] = msg[d]
        /\ op'[c] = "recvd"
        /\ \/ taken'[c] = taken[c] + 1 /\ msg'[c] = [from |-> c, num |-> taken'[c]]
           \/ taken'[c] = taken[c] /\ msg'[c] = Routines!NoUnit
    BY <1>0, <2>0 DEF TakeUnit
  <2>2. Passed(c)' = Passed(c)
    <3>1. Passed(c) = taken[c]
      BY <2>0, RoutinesPassed
    <3>2. Passed(c)' = IF msg'[c].from = c THEN taken'[c] - 1 ELSE taken'[c]
      BY <2>1, RoutinesPassed
    <3>3. CASE taken'[c] = taken[c] + 1 /\ msg'[c] = [from |-> c, num |-> taken'[c]]
      <4>1. msg'[c].from = c
        BY <3>3
      <4>2. Passed(c)' = taken'[c] - 1 /\ taken[c] \in Nat
        BY <1>0, <3>2, <4>1
      <4> QED
        BY <3>1, <3>3, <4>2
    <3>4. CASE taken'[c] = taken[c] /\ msg'[c] = Routines!NoUnit
      <4>1. msg'[c].from # c
        BY <1>0, <3>4, SocketsAssumption
      <4> QED
        BY <3>1, <3>2, <3>4, <4>1
    <3> QED
      BY <2>1, <3>3, <3>4
  <2>3. \A d \in Conns : Steady(d)
    BY <2>1, <2>2, RoutinesPassed
  <2>4. Moves /\ Shrinks /\ Served' = Served /\ got' \in [Conns -> Seq(Unit)]
    BY <1>0, <2>0, MovesNot, ShrinksNot DEF Served
  <2>5. \A d \in Served : peer[d] = "open" => Steady(d)
    BY <2>3 DEF Served
  <2>6. Tuned'
    BY <1>0, <2>0, <2>1, <2>4, <2>5, TunedQuiet
  <2>7. Netted'
    BY <1>0, <2>0, <2>1, <2>4, NettedOn
  <2> QED
    BY <1>c, <1>k, <2>0, <2>1, <2>4, <2>6, <2>7
<1>5. ASSUME NEW c \in Conns, Routines!SendCompletes(c) PROVE RoutinesOwn'
  <2> PICK u : u = msg[c]
    OBVIOUS
  <2>0. /\ op[c] = "send" /\ op' = [op EXCEPT ![c] = "sent"] /\ WriteTo({c}, u)
        /\ UNCHANGED <<backlog, sent, taken, since, owner, msg>>
    BY <1>5 DEF Routines!SendCompletes, Routines!WriteTo, WriteTo, Routines!Transmit, Transmit,
       Routines!Reported, Reported, Routines!OnWindows, OnWindows
  <2>1. u = [from |-> c, num |-> taken[c]] /\ u \in Unit /\ c \in Served
    BY <1>0, <1>c, <2>0
  <2>2. u.from = c /\ u.num = taken[c]
    BY <2>1
  <2>3. op'[c] = "sent" /\ \A d \in Conns \ {c} : op'[d] = op[d]
    BY <1>0, <2>0
  <2>4. u.num = Passed(c) + 1 /\ Passed(c)' = Passed(c) + 1
    <3>1. Passed(c) = taken[c] - 1 /\ Passed(c)' = taken[c]
      BY <2>0, <2>2, <2>3, RoutinesPassed
    <3> QED
      BY <1>0, <2>2, <3>1
  <2>5. Hears(c, u)
    <3>1. \A x \in Conns : (Owed(c, x) <=> c = x) /\ (Barred(c, x)' <=> c # x) /\ (Barred(c, x) <=> c # x)
      BY DEF Owed, Barred
    <3> QED
      BY <2>2, <2>4, <3>1 DEF Hears
  <2>6. \A d \in Served : peer[d] = "open" => IF d \in {c} THEN Hears(d, u) ELSE Steady(d)
    BY <2>0, <2>3, <2>5, RoutinesPassed DEF Served
  <2>7. {c} \cap Conns \subseteq Served
    BY <2>1
  <2>8. Tuned'
    BY <1>0, <2>0, <2>1, <2>6, <2>7, TunedWrite, ShrinksNot
  <2>9. Netted' /\ Served' = Served
    BY <1>0, <2>0, <2>1, WriteTyped, NettedOn, ShrinksNot DEF Served
  <2> QED
    BY <1>c, <1>k, <2>0, <2>1, <2>3, <2>8, <2>9
<1>6. ASSUME NEW c \in Conns, Routines!ReadEnd(c) PROVE RoutinesOwn'
  <2>1. /\ owner' = [f \in Fds |-> IF owner[f] = c THEN NoConn ELSE owner[f]]
        /\ op[c] = "recvd" /\ msg[c] = Routines!NoUnit
        /\ op' = [op EXCEPT ![c] = "none"]
        /\ UNCHANGED <<peer, backlog, sent, taken, got, since, msg>>
    BY <1>6 DEF Routines!ReadEnd, Routines!Due
  <2>2. op'[c] = "none" /\ \A d \in Conns \ {c} : op'[d] = op[d]
    BY <1>0, <2>1
  <2>3. Passed(c)' = Passed(c)
    BY <1>0, <2>1, <2>2, RoutinesPassed, SocketsAssumption
  <2>4. \A d \in Conns : Steady(d)
    BY <2>1, <2>2, <2>3, RoutinesPassed
  <2>5. Shrinks
    BY <1>0, <2>1 DEF Shrinks, NetTyped
  <2>6. Netted' /\ Tuned'
    <3>1. Moves /\ taken' \in [Conns -> Nat] /\ got' \in [Conns -> Seq(Unit)]
      BY <1>0, <2>1, MovesNot
    <3>2. \A d \in Served : peer[d] = "open" => Steady(d)
      BY <2>4 DEF Served
    <3>3. Netted'
      BY <1>0, <2>1, <2>5, <3>1, NettedOn
    <3>4. Tuned'
      BY <1>0, <2>1, <2>5, <3>1, <3>2, TunedQuiet
    <3> QED
      BY <3>3, <3>4
  <2>7. \A d \in Served \ {c} : d \in Served'
    BY <2>1 DEF Served
  <2> QED
    BY <1>c, <1>k, <2>1, <2>2, <2>6, <2>7
<1>7. ASSUME NEW c \in Conns, Routines!ReadCompRoutine(c) \/ Routines!WriteCompRoutine(c)
      PROVE  RoutinesOwn'
  <2>1. /\ UNCHANGED net /\ UNCHANGED msg
        /\ \/ op[c] = "recvd" /\ msg[c] # Routines!NoUnit /\ Routines!Post(c, "send")
           \/ op[c] = "sent" /\ Routines!Post(c, "recv")
    BY <1>7 DEF Routines!ReadCompRoutine, Routines!WriteCompRoutine, Routines!Due, net
  <2>2. UNCHANGED <<peer, backlog, sent, taken, got, since, owner>>
    BY <2>1 DEF net
  <2>3. /\ \A d \in Conns \ {c} : op'[d] = op[d]
        /\ op'[c] = "failed" => peer[c] = "reset"
        /\ \/ op[c] = "recvd" /\ msg[c] # Routines!NoUnit /\ op'[c] \in {"send", "failed"}
           \/ op[c] = "sent" /\ op'[c] \in {"recv", "failed"}
    BY <1>0, <2>1 DEF Routines!Post
  <2>4. \A d \in Served : peer[d] = "open" => Steady(d)
    <3> SUFFICES ASSUME NEW d \in Conns, peer[d] = "open" PROVE Steady(d)
      BY DEF Served
    <3>1. CASE d = c
      <4>1. Passed(c)' = Passed(c)
        BY <2>1, <2>2, <2>3, <3>1, RoutinesPassed
      <4> QED
        BY <3>1, <4>1, RoutinesPassed
    <3>2. CASE d # c
      BY <2>1, <2>2, <2>3, <3>2, RoutinesPassed
    <3> QED
      BY <3>1, <3>2
  <2>5. Netted' /\ Tuned' /\ Served' = Served
    BY <1>0, <2>2, <2>4, TunedQuiet, NettedOn, MovesNot, ShrinksNot DEF Served
  <2> QED
    BY <1>c, <1>k, <2>1, <2>2, <2>3, <2>5
<1> QED
  BY <1>1, <1>2, <1>3, <1>4, <1>5, <1>6, <1>7
     DEF Routines!Next, Routines!Server, Routines!Routine

\* echo_serv.c
LockedTyped ==
    /\ pc \in {"accept", "create", "dead"} /\ clntSock \in Fds \cup {Serv}
    /\ mutex \in Locked!Threads \cup {0}
    /\ thread \in [Locked!Threads -> {"none", "start", "lock", "read", "write", "close", "ended"}]
    /\ sock \in [Locked!Threads -> Fds \cup {Serv}]
    /\ message \in Unit \cup {Locked!NoUnit}

\* What thread t is about to write was read from its client, unless another
\* thread has closed the descriptor since.
Held(t) ==
    \E c \in Conns : /\ message = [from |-> c, num |-> taken[c]]
                     /\ owner[sock[t]] = c \/ Over(c)

\* Only the thread that holds the mutex reads and writes.
LockedOwn ==
    /\ Netted /\ LockedTyped /\ (Stopped \/ Tuned)
    /\ pc = "create" => clntSock \in Fds
    /\ \A t \in Locked!Threads :
          /\ thread[t] # "none" => clntSock \in Fds
          /\ thread[t] \notin {"none", "start"} => sock[t] \in Fds
          /\ thread[t] \in {"read", "write"} => mutex = t
          /\ thread[t] = "write" => Held(t)

Writing == \E t \in Locked!Threads : thread[t] = "write"

LEMMA LockedTypes ==
    ASSUME LockedTyped, NetTyped, Locked!Next,
           \A t \in Locked!Threads : thread[t] = "read" => sock[t] \in Fds
    PROVE  LockedTyped'
<1> USE DEF Locked!net, Locked!server
<1> DEFINE L == {"none", "start", "lock", "read", "write", "close", "ended"}
           T == Locked!Threads
<1>0. /\ pc \in {"accept", "create", "dead"} /\ clntSock \in Fds \cup {Serv}
      /\ mutex \in T \cup {0} /\ thread \in [T -> L]
      /\ sock \in [T -> Fds \cup {Serv}] /\ message \in Unit \cup {Locked!NoUnit}
      /\ owner \in [Fds -> Conns \cup {NoConn}]
  BY DEF LockedTyped, NetTyped
<1>k. ASSUME pc' \in {"accept", "create", "dead"}, clntSock' \in Fds \cup {Serv},
             mutex' \in T \cup {0}, thread' \in [T -> L],
             sock' \in [T -> Fds \cup {Serv}], message' \in Unit \cup {Locked!NoUnit}
      PROVE  LockedTyped'
  BY <1>k DEF LockedTyped, Unit, Locked!NoUnit
<1>1. CASE \E c \in Conns : Locked!Peer(c) /\ UNCHANGED Locked!server
  BY <1>0, <1>1, <1>k
<1>2. CASE Locked!Accept
  <2> PICK f : f = Locked!LowestFree
    OBVIOUS
  <2>1. /\ f \in Fds /\ clntSock' = f /\ pc' = "create" /\ UNCHANGED <<mutex, thread, sock, message>>
    BY <1>2 DEF Locked!Accept, Locked!AcceptAs
  <2> QED
    BY <1>0, <1>k, <2>1
<1>3. CASE Locked!Create
  <2> HIDE DEF T
  <2>1. /\ pc' = "accept" /\ UNCHANGED <<clntSock, mutex, sock, message>>
        /\ \E t \in T : thread' = [thread EXCEPT ![t] = "start"]
    BY <1>3 DEF Locked!Create, T
  <2> QED
    BY <1>0, <1>k, <2>1
<1>4. ASSUME NEW t \in T, Locked!Thread(t) PROVE LockedTyped'
  <2>1. CASE Locked!Start(t)
    BY <1>0, <1>k, <2>1 DEF Locked!Start, Locked!Goto
  <2>2. CASE Locked!Lock(t) \/ Locked!ReadEnd(t) \/ Locked!Close(t) \/ Locked!ReadFails(t)
    <3>1. /\ mutex' \in {mutex, t, 0} /\ UNCHANGED <<pc, clntSock, sock, message>>
          /\ thread' = thread \/ \E s \in {"read", "close", "ended"} : thread' = [thread EXCEPT ![t] = s]
      BY <2>2 DEF Locked!Lock, Locked!ReadEnd, Locked!Close, Locked!ReadFails, Locked!Goto
    <3> QED
      BY <1>0, <1>k, <3>1
  <2>3. CASE Locked!Read(t)
    <3> PICK c : c = owner[sock[t]]
      OBVIOUS
    <3>1. /\ c # NoConn /\ thread[t] = "read"
          /\ message' = [from |-> c, num |-> taken[c] + 1]
          /\ thread' = [thread EXCEPT ![t] = "write"] /\ UNCHANGED <<pc, clntSock, mutex, sock>>
      BY <2>3 DEF Locked!Read, Locked!Client, Locked!NextUnit, Locked!Goto, Locked!At
    <3>2. c \in Conns
      BY <1>0, <3>1
    <3>3. [from |-> c, num |-> taken[c] + 1] \in Unit
      BY <3>2 DEF NetTyped, Unit
    <3> QED
      BY <1>0, <1>k, <3>1, <3>3
  <2>4. CASE Locked!Write(t)
    BY <1>0, <1>k, <2>4 DEF Locked!Write, Locked!Goto
  <2> QED
    BY <1>4, <2>1, <2>2, <2>3, <2>4 DEF Locked!Thread
<1> QED
  BY <1>1, <1>2, <1>3, <1>4 DEF Locked!Next, Locked!Server

LEMMA OverStays ==
    ASSUME Netted,
           \/ \E c \in Conns : Connect(c) \/ ClientSend(c) \/ ClientShut(c) \/ ClientReset(c)
           \/ \E f \in Fds : AcceptAs(f) /\ UNCHANGED <<peer, sent, taken>>
           \/ Moves /\ Shrinks /\ UNCHANGED backlog
    PROVE  \A c \in Conns : Over(c) => Over(c)'
<1>0. Network /\ NetTyped /\ backlog \in Seq(Conns)
  BY DEF Netted, Network, NetTyped
<1>w. \A c \in Conns : /\ Over(c) <=> peer[c] # "none" /\ c \notin Served /\ ~Waiting(c)
                       /\ Over(c)' <=> peer'[c] # "none" /\ c \notin Served' /\ ~Waiting(c)'
  BY DEF Over, Waiting
<1>1. ASSUME NEW c \in Conns, Connect(c) \/ ClientSend(c) \/ ClientShut(c) \/ ClientReset(c),
             NEW d \in Conns, Over(d)
      PROVE  Over(d)'
  <2>1. Served' = Served
    BY <1>1, NettedClient
  <2>2. peer'[d] # "none"
    BY <1>0, <1>1, <1>w DEF Connect, ClientSend, ClientShut, ClientReset, NetTyped
  <2>3. CASE Connect(c)
    <3>1. /\ backlog' = Append(backlog, c) /\ c # d
      BY <1>1, <1>w, <2>3 DEF Connect
    <3>2. \A k \in 1 .. Len(backlog') : backlog'[k] = c \/ (k \in 1 .. Len(backlog) /\ backlog'[k] = backlog[k])
      BY <1>0, <3>1, AppendProperties
    <3> QED
      BY <1>1, <1>w, <2>1, <2>2, <3>1, <3>2 DEF Waiting
  <2>4. CASE ClientSend(c) \/ ClientShut(c) \/ ClientReset(c)
    <3>1. backlog' = backlog
      BY <2>4 DEF ClientSend, ClientShut, ClientReset
    <3> QED
      BY <1>1, <1>w, <2>1, <2>2, <3>1 DEF Waiting
  <2> QED
    BY <1>1, <2>3, <2>4
<1>2. ASSUME NEW f \in Fds, AcceptAs(f), UNCHANGED <<peer, sent, taken>>, NEW d \in Conns, Over(d)
      PROVE  Over(d)'
  <2>1. Served' = Served \cup {Head(backlog)}
    BY <1>0, <1>2, NetworkAccept
  <2>2. /\ backlog # <<>> /\ backlog' = Tail(backlog)
    BY <1>2 DEF AcceptAs
  <2>3. /\ Head(backlog) = backlog[1] /\ Len(backlog) \in Nat /\ Len(backlog) >= 1
        /\ Len(backlog') = Len(backlog) - 1
        /\ \A k \in 1 .. Len(backlog') : backlog'[k] = backlog[k + 1]
    BY <1>0, <2>2, HeadTailProperties, EmptySeq
  <2>4. \A k \in 1 .. Len(backlog) : backlog[k] # d
    BY <1>2 DEF Over
  <2>5. Head(backlog) # d /\ ~Waiting(d)'
    BY <2>3, <2>4 DEF Waiting
  <2> QED
    BY <1>2, <1>w, <2>1, <2>5
<1>3. ASSUME Moves, Shrinks, UNCHANGED backlog, NEW d \in Conns, Over(d) PROVE Over(d)'
  <2>1. Served' \subseteq Served
    BY <1>3, SocketsAssumption DEF Served, Shrinks
  <2> QED
    BY <1>3, <1>w, <2>1 DEF Moves, Waiting
<1> QED
  BY <1>1, <1>2, <1>3

LEMMA LockedPassed ==
    ASSUME program = "locked", UNCHANGED program, LockedTyped, LockedTyped', NEW d \in Conns
    PROVE  /\ Passed(d) = IF message.from = d /\ Writing THEN taken[d] - 1 ELSE taken[d]
           /\ Passed(d)' = IF message'.from = d /\ Writing' THEN taken'[d] - 1 ELSE taken'[d]
<1>1. DOMAIN thread = Locked!Threads /\ DOMAIN thread' = Locked!Threads
  BY DEF LockedTyped, Locked!Threads
<1>2. /\ Midway = {c \in Conns : message.from = c /\ Writing}
      /\ Midway' = {c \in Conns : message'.from = c /\ Writing'}
  BY <1>1 DEF Midway, Writing, Locked!Threads
<1> QED
  BY <1>2 DEF Passed

LEMMA LockedSteady ==
    ASSUME program = "locked", UNCHANGED program, NEW d \in Conns,
           \A c \in Conns : Over(c) => Over(c)', Passed(d)' = Passed(d)
    PROVE  Steady(d)
<1>1. \A c \in Conns : /\ Owed(d, c) <=> d = c
                       /\ Barred(d, c) <=> d # c /\ ~Over(c)
                       /\ Barred(d, c)' <=> d # c /\ ~Over(c)'
  BY DEF Owed, Barred
<1> QED
  BY <1>1 DEF Steady

LEMMA LockedFollows ==
    ASSUME program = "locked", UNCHANGED program, LockedOwn, Locked!Next
    PROVE  LockedOwn'
<1> USE DEF Locked!net, Locked!server
<1> DEFINE T == Locked!Threads
<1>0. /\ Netted /\ Network /\ NetTyped /\ LockedTyped /\ LockedTyped'
      /\ taken \in [Conns -> Nat] /\ got \in [Conns -> Seq(Unit)]
      /\ owner \in [Fds -> Conns \cup {NoConn}]
      /\ thread \in [T -> {"none", "start", "lock", "read", "write", "close", "ended"}]
      /\ sock \in [T -> Fds \cup {Serv}] /\ T' = T
  <2>1. Netted /\ Network /\ NetTyped /\ LockedTyped
    BY DEF LockedOwn, Netted, Network
  <2>2. LockedTyped'
    BY <2>1, LockedTypes DEF LockedOwn
  <2> QED
    BY <2>1, <2>2 DEF LockedTyped, Netted, Noted, NetTyped, Locked!Threads
<1>z. \A t \in T : t # 0
  BY DEF Locked!Threads
<1>t. ASSUME NEW t \in T
      PROVE  /\ thread[t] # "none" => clntSock \in Fds
             /\ thread[t] \notin {"none", "start"} => sock[t] \in Fds
             /\ thread[t] \in {"read", "write"} => mutex = t
             /\ thread[t] = "write" => Held(t)
  BY DEF LockedOwn
<1> HIDE DEF T
<1>k. ASSUME Netted', Stopped' \/ Tuned', pc' = "create" => clntSock' \in Fds,
             \A t \in T : /\ thread'[t] # "none" => clntSock' \in Fds
                          /\ thread'[t] \notin {"none", "start"} => sock'[t] \in Fds
                          /\ thread'[t] \in {"read", "write"} => mutex' = t
                          /\ thread'[t] = "write" => Held(t)'
      PROVE  LockedOwn'
  BY <1>0, <1>k DEF LockedOwn, T
\* What is held stays so, and who is in step, where nothing is read or written.
<1>H. ASSUME NEW t \in T, Held(t), UNCHANGED <<message, taken>>, sock'[t] = sock[t],
             \A c \in Conns : Over(c) => Over(c)',
             \A c \in Conns : owner[sock[t]] = c => owner'[sock[t]] = c \/ Over(c)'
      PROVE  Held(t)'
  BY <1>H DEF Held
<1>S. ASSUME UNCHANGED <<message, taken>>, Writing' = Writing,
             \A c \in Conns : Over(c) => Over(c)'
      PROVE  \A d \in Conns : Steady(d)
  <2> SUFFICES ASSUME NEW d \in Conns PROVE Steady(d)
    OBVIOUS
  <2>1. Passed(d)' = Passed(d)
    BY <1>0, <1>S, LockedPassed
  <2> QED
    BY <1>S, <2>1, LockedSteady
\* A step that neither reads nor writes.
<1>q. ASSUME ~Stopped, UNCHANGED <<backlog, sent, taken, got, since, message>>, Writing' = Writing,
             Moves, Shrinks
      PROVE  Netted' /\ Tuned' /\ \A c \in Conns : Over(c) => Over(c)'
  <2>1. \A c \in Conns : Over(c) => Over(c)'
    BY <1>0, <1>q, OverStays
  <2>2. \A d \in Served : peer[d] = "open" => Steady(d)
    BY <1>S, <1>q, <2>1 DEF Served
  <2>3. taken' \in [Conns -> Nat] /\ got' \in [Conns -> Seq(Unit)] /\ Tuned
    BY <1>0, <1>q DEF LockedOwn
  <2>4. Netted'
    BY <1>0, <1>q, <2>3, NettedOn
  <2>5. Tuned'
    BY <1>0, <1>q, <2>2, <2>3, TunedQuiet
  <2> QED
    BY <2>1, <2>4, <2>5
<1>1. CASE \E c \in Conns : Locked!Peer(c) /\ UNCHANGED Locked!server
  <2>1. PICK c \in Conns : Connect(c) \/ ClientSend(c) \/ ClientShut(c) \/ ClientReset(c)
    BY <1>1 DEF Locked!Peer, Locked!Connect, Connect, Locked!ClientSend, ClientSend,
                Locked!ClientShut, ClientShut, Locked!ClientReset, ClientReset
  <2>2. UNCHANGED <<pc, clntSock, mutex, thread, sock, message, owner>>
    BY <1>1, <2>1 DEF Connect, ClientSend, ClientShut, ClientReset
  <2>3. Netted' /\ taken' = taken
    BY <1>0, <2>1, NettedClient
  <2>4. \A d \in Conns : Over(d) => Over(d)'
    BY <1>0, <2>1, OverStays
  <2>5. Writing' = Writing
    BY <1>0, <2>2 DEF Writing, T
  <2>6. Stopped' \/ Tuned'
    <3>1. CASE Stopped
      BY <2>2, <3>1 DEF Stopped
    <3>2. CASE Tuned
      BY <1>0, <1>S, <2>1, <2>2, <2>3, <2>4, <2>5, <3>2, TunedClient
    <3> QED
      BY <3>1, <3>2 DEF LockedOwn
  <2>7. \A t \in T : thread'[t] = "write" => Held(t)'
    BY <1>H, <1>t, <2>2, <2>3, <2>4
  <2>8. pc' = "create" => clntSock' \in Fds
    BY <2>2 DEF LockedOwn
  <2> QED
    BY <1>k, <1>t, <2>2, <2>3, <2>6, <2>7, <2>8
<1>2. CASE Locked!Accept
  <2> PICK f : f = Locked!LowestFree
    OBVIOUS
  <2>1. /\ AcceptAs(f) /\ f \in Fds /\ clntSock' = f /\ pc = "accept" /\ pc' = "create"
        /\ UNCHANGED <<peer, sent, taken, got, mutex, thread, sock, message>>
    BY <1>2 DEF Locked!Accept, Locked!AcceptAs, AcceptAs
  <2>2. /\ Head(backlog) \in Conns \ Served /\ Served' = Served \cup {Head(backlog)} /\ Netted'
        /\ owner' = [owner EXCEPT ![f] = Head(backlog)]
    BY <1>0, <2>1, NetworkAccept, NettedAccept
  <2> PICK h \in Conns : h = Head(backlog)
    BY <2>2
  <2>3. \A d \in Conns : Over(d) => Over(d)'
    BY <1>0, <2>1, OverStays
  <2>4. Writing' = Writing
    BY <1>0, <2>1 DEF Writing, T
  <2>5. ~Over(h)
    <3>1. backlog # <<>> /\ backlog \in Seq(Conns)
      BY <1>0, <2>1 DEF AcceptAs, NetTyped
    <3>2. 1 \in 1 .. Len(backlog) /\ backlog[1] = h
      BY <3>1, HeadTailProperties, EmptySeq
    <3> QED
      BY <3>2 DEF Over
  <2>6. \A c \in Conns : Owed(h, c) => c \notin Midway'
    <3> SUFFICES ASSUME h \in Midway' PROVE FALSE
      BY DEF Owed
    <3>1. message.from = h /\ Writing
      BY <1>0, <2>1, <2>4 DEF Midway, LockedTyped, Writing
    <3>2. PICK t \in T : thread[t] = "write"
      BY <3>1 DEF Writing, T
    <3>3. PICK c \in Conns : message = [from |-> c, num |-> taken[c]] /\ (owner[sock[t]] = c \/ Over(c))
      BY <1>t, <3>2 DEF Held
    <3>4. c = h
      BY <3>1, <3>3
    <3>5. sock[t] \in Fds
      BY <1>t, <3>2
    <3> QED
      BY <2>2, <2>5, <3>3, <3>4, <3>5 DEF Served
  <2>7. Tuned'
    <3>1. \A d \in Served : Steady(d)
      BY <1>S, <2>1, <2>3, <2>4 DEF Served
    <3>2. Tuned
      BY <2>1 DEF LockedOwn, Stopped
    <3> QED
      BY <1>0, <2>1, <2>2, <2>6, <3>1, <3>2, TunedAccept
  <2>8. ASSUME NEW t \in T, thread'[t] = "write" PROVE Held(t)'
    <3>1. sock[t] \in Fds /\ Held(t)
      BY <1>t, <2>1, <2>8
    <3>2. \A c \in Conns : owner[sock[t]] = c => owner'[sock[t]] = c
      <4>1. owner[f] = NoConn
        BY <2>1 DEF AcceptAs
      <4> QED
        BY <1>0, <2>2, <3>1, <4>1, SocketsAssumption
    <3> QED
      BY <1>H, <2>1, <2>3, <3>1, <3>2
  <2> QED
    BY <1>k, <1>t, <2>1, <2>2, <2>7, <2>8
\* The threads after one of them has taken a step that leaves the network alone.
<1>i. ASSUME ~Stopped, UNCHANGED net, UNCHANGED message, pc' = "create" => clntSock' \in Fds,
             NEW t \in T, NEW s, s # "write", thread[t] # "write", thread' = [thread EXCEPT ![t] = s],
             \A u \in T \ {t} : sock'[u] = sock[u],
             s \notin {"none", "start"} => sock'[t] \in Fds,
             clntSock' = clntSock, clntSock \in Fds,
             s = "read" => mutex' = t,
             \A u \in T \ {t} : thread[u] \in {"read", "write"} => mutex' = u
      PROVE  LockedOwn'
  <2>1. UNCHANGED <<peer, backlog, sent, taken, got, since, owner>>
    BY <1>i DEF net
  <2>2. /\ thread'[t] = s /\ \A u \in T \ {t} : thread'[u] = thread[u]
    BY <1>0, <1>i
  <2>3. Writing' = Writing
    <3>1. \A u \in T : thread'[u] = "write" <=> thread[u] = "write"
      BY <1>i, <2>2
    <3> QED
      BY <1>0, <3>1 DEF Writing, T
  <2>4. Netted' /\ Tuned' /\ \A c \in Conns : Over(c) => Over(c)'
    BY <1>0, <1>i, <1>q, <2>1, <2>3, MovesNot, ShrinksNot
  <2>5. ASSUME NEW u \in T, thread'[u] = "write" PROVE Held(u)'
    <3>1. u # t /\ thread[u] = "write"
      BY <1>i, <2>2, <2>5
    <3>2. Held(u) /\ sock'[u] = sock[u]
      BY <1>i, <1>t, <3>1
    <3> QED
      BY <1>H, <1>i, <2>1, <2>4, <3>2
  <2>6. \A u \in T : /\ thread'[u] # "none" => clntSock' \in Fds
                     /\ thread'[u] \notin {"none", "start"} => sock'[u] \in Fds
                     /\ thread'[u] \in {"read", "write"} => mutex' = u
    <3> SUFFICES ASSUME NEW u \in T
                 PROVE  /\ thread'[u] # "none" => clntSock' \in Fds
                        /\ thread'[u] \notin {"none", "start"} => sock'[u] \in Fds
                        /\ thread'[u] \in {"read", "write"} => mutex' = u
      OBVIOUS
    <3>1. CASE u = t
      BY <1>i, <2>2, <3>1
    <3>2. CASE u # t
      BY <1>i, <1>t, <2>2, <3>2
    <3> QED
      BY <3>1, <3>2
  <2> QED
    BY <1>i, <1>k, <2>4, <2>5, <2>6
<1>3. CASE Locked!Create
  <2>1. PICK t \in T : /\ pc = "create" /\ pc' = "accept" /\ UNCHANGED net
                       /\ thread[t] = "none" /\ thread' = [thread EXCEPT ![t] = "start"]
                       /\ UNCHANGED <<clntSock, mutex, sock, message>>
    BY <1>3 DEF Locked!Create, net, T
  <2>2. clntSock \in Fds
    BY <2>1 DEF LockedOwn
  <2>3. \A u \in T \ {t} : thread[u] \in {"read", "write"} => mutex' = u
    BY <1>t, <2>1
  <2>4. ~Stopped
    BY <2>1 DEF Stopped
  <2> QED
    BY <1>i, <2>1, <2>2, <2>3, <2>4
<1>4. ASSUME NEW t \in T, Locked!Thread(t) PROVE LockedOwn'
  <2>a. ASSUME NEW label, Locked!At(t, label)
        PROVE  ~Stopped /\ thread[t] = label /\ (pc = "create" => clntSock \in Fds)
    BY <1>0, <2>a DEF Locked!At, Stopped, LockedTyped, LockedOwn
  <2>1. CASE Locked!Start(t) \/ Locked!Lock(t) \/ Locked!ReadEnd(t)
    <3>1. /\ UNCHANGED net /\ UNCHANGED <<pc, clntSock, message>> /\ ~Stopped
          /\ pc = "create" => clntSock \in Fds
          /\ \/ /\ thread[t] = "start" /\ thread' = [thread EXCEPT ![t] = "lock"]
                /\ sock' = [sock EXCEPT ![t] = clntSock] /\ mutex' = mutex
             \/ /\ thread[t] = "lock" /\ thread' = [thread EXCEPT ![t] = "read"]
                /\ sock' = sock /\ mutex = 0 /\ mutex' = t
             \/ /\ thread[t] = "read" /\ thread' = [thread EXCEPT ![t] = "close"]
                /\ sock' = sock /\ mutex' = 0
      BY <2>1, <2>a DEF Locked!Start, Locked!Lock, Locked!ReadEnd, Locked!Goto, net
    <3>2. clntSock \in Fds
      BY <1>t, <3>1
    <3>3. /\ \A u \in T \ {t} : sock'[u] = sock[u]
          /\ sock'[t] \in Fds
      BY <1>0, <1>t, <3>1, <3>2
    <3>4. \A u \in T \ {t} : thread[u] \in {"read", "write"} => mutex' = u
      BY <1>t, <1>z, <3>1 DEF T
    <3> QED
      BY <1>i, <3>1, <3>2, <3>3, <3>4
  <2>2. CASE Locked!Close(t)
    <3>1. /\ thread[t] = "close" /\ CloseFd(sock[t]) /\ thread' = [thread EXCEPT ![t] = "ended"]
          /\ UNCHANGED <<peer, backlog, sent, taken, got, since, pc, clntSock, mutex, sock, message>>
          /\ ~Stopped /\ (pc = "create" => clntSock \in Fds)
      BY <2>2, <2>a DEF Locked!Close, Locked!CloseFd, CloseFd, Locked!Goto
    <3>2. sock[t] \in Fds
      BY <1>t, <3>1
    <3>3. thread'[t] = "ended" /\ \A u \in T \ {t} : thread'[u] = thread[u]
      BY <1>0, <3>1
    <3>4. Writing' = Writing
      <4>1. \A u \in T : thread'[u] = "write" <=> thread[u] = "write"
        BY <3>1, <3>3
      <4> QED
        BY <1>0, <4>1 DEF Writing, T
    <3>5. Netted' /\ Tuned' /\ \A c \in Conns : Over(c) => Over(c)'
      BY <1>0, <1>q, <3>1, <3>2, <3>4, MovesNot, ShrinksClose
    <3>6. ASSUME NEW u \in T, thread'[u] = "write" PROVE Held(u)'
      <4>1. Held(u) /\ sock'[u] = sock[u] /\ sock[u] \in Fds
        BY <1>t, <3>1, <3>3, <3>6
      <4>2. ASSUME NEW c \in Conns, owner[sock[u]] = c PROVE owner'[sock[u]] = c \/ Over(c)'
        <5>1. CASE sock[u] # sock[t]
          BY <1>0, <3>1, <4>1, <4>2, <5>1 DEF CloseFd
        <5>2. CASE sock[u] = sock[t]
          <6>1. Served' = Served \ {c}
            BY <1>0, <3>1, <3>2, <4>2, <5>2, ServedClose
          <6>2. c \in Served
            BY <4>1, <4>2 DEF Served
          <6>3. peer[c] # "none" /\ \A k \in 1 .. Len(backlog) : backlog[k] # c
            BY <1>0, <6>2 DEF Network, OnePlace, Waiting
          <6> QED
            BY <3>1, <6>1, <6>3 DEF Over
        <5> QED
          BY <5>1, <5>2
      <4> QED
        BY <1>H, <3>1, <3>5, <4>1, <4>2
    <3>7. \A u \in T : /\ thread'[u] # "none" => clntSock' \in Fds
                       /\ thread'[u] \notin {"none", "start"} => sock'[u] \in Fds
                       /\ thread'[u] \in {"read", "write"} => mutex' = u
      <4> SUFFICES ASSUME NEW u \in T
                   PROVE  /\ thread'[u] # "none" => clntSock' \in Fds
                          /\ thread'[u] \notin {"none", "start"} => sock'[u] \in Fds
                          /\ thread'[u] \in {"read", "write"} => mutex' = u
        OBVIOUS
      <4>1. CASE u = t
        BY <1>t, <3>1, <3>2, <3>3, <4>1
      <4>2. CASE u # t
        BY <1>t, <3>1, <3>3, <4>2
      <4> QED
        BY <4>1, <4>2
    <3> QED
      BY <1>k, <3>1, <3>5, <3>6, <3>7
  <2>3. CASE Locked!ReadFails(t)
    <3>1. /\ thread[t] = "read" /\ ~Stopped /\ (pc = "create" => clntSock \in Fds)
          /\ Failed(owner[sock[t]])
          /\ peer' = [peer EXCEPT ![owner[sock[t]]] = Reported(owner[sock[t]])]
          /\ UNCHANGED <<backlog, sent, taken, got, since, owner, pc, clntSock, mutex, thread, sock, message>>
      BY <2>3, <2>a DEF Locked!ReadFails, Locked!Client, Locked!Failed, Failed, Locked!HasData, HasData,
         Locked!Reported, Reported, Locked!OnWindows, OnWindows
    <3>2. Writing' = Writing
      BY <1>0, <3>1 DEF Writing, T
    <3>3. Netted' /\ Tuned' /\ \A c \in Conns : Over(c) => Over(c)'
      BY <1>0, <1>q, <3>1, <3>2, MovesFail, ShrinksNot
    <3>4. \A u \in T : thread'[u] = "write" => Held(u)'
      BY <1>H, <1>t, <3>1, <3>3
    <3> QED
      BY <1>k, <1>t, <3>1, <3>3, <3>4
  <2>4. CASE Locked!Read(t)
    <3> PICK c : c = owner[sock[t]]
      OBVIOUS
    <3>1. /\ thread[t] = "read" /\ ~Stopped /\ (pc = "create" => clntSock \in Fds)
          /\ c # NoConn /\ TakeUnit(c) /\ message' = [from |-> c, num |-> taken[c] + 1]
          /\ thread' = [thread EXCEPT ![t] = "write"]
          /\ UNCHANGED <<peer, backlog, sent, got, since, owner, pc, clntSock, mutex, sock>>
      BY <2>4, <2>a DEF Locked!Read, Locked!Client, Locked!TakeUnit, TakeUnit, Locked!NextUnit, Locked!Goto
    <3>2. c \in Conns /\ sock[t] \in Fds
      BY <1>0, <1>t, <3>1
    <3>3. /\ thread'[t] = "write" /\ \A u \in T \ {t} : thread'[u] = thread[u]
          /\ taken' \in [Conns -> Nat] /\ taken'[c] = taken[c] + 1
          /\ \A d \in Conns \ {c} : taken'[d] = taken[d]
          /\ message'.from = c
      BY <1>0, <3>1, <3>2, TakeTyped
    <3>4. \A u \in T \ {t} : thread[u] \notin {"read", "write"}
      BY <1>t, <3>1
    <3>5. ~Writing /\ Writing'
      BY <1>0, <3>1, <3>3, <3>4 DEF Writing, T
    <3>6. \A d \in Conns : Over(d) => Over(d)'
      BY <1>0, <3>1, OverStays, MovesNot, ShrinksNot
    <3>7. ASSUME NEW d \in Conns PROVE Passed(d)' = Passed(d)
      <4>1. Passed(d) = taken[d]
        BY <1>0, <3>5, LockedPassed
      <4>2. Passed(d)' = IF c = d THEN taken'[d] - 1 ELSE taken'[d]
        BY <1>0, <3>3, <3>5, LockedPassed
      <4>3. taken[d] \in Nat
        BY <1>0
      <4> QED
        BY <3>3, <4>1, <4>2, <4>3
    <3>8. \A d \in Served : peer[d] = "open" => Steady(d)
      BY <3>6, <3>7, LockedSteady DEF Served
    <3>9. Moves /\ Shrinks /\ Tuned /\ got' \in [Conns -> Seq(Unit)]
      BY <1>0, <3>1, MovesNot, ShrinksNot DEF LockedOwn
    <3>10. Tuned'
      BY <1>0, <3>1, <3>3, <3>8, <3>9, TunedQuiet
    <3>11. Netted'
      BY <1>0, <3>1, <3>3, <3>9, NettedOn
    <3>12. Held(t)'
      BY <3>1, <3>2, <3>3 DEF Held
    <3>13. ASSUME NEW u \in T
           PROVE  /\ thread'[u] # "none" => clntSock' \in Fds
                  /\ thread'[u] \notin {"none", "start"} => sock'[u] \in Fds
                  /\ thread'[u] \in {"read", "write"} => mutex' = u
                  /\ thread'[u] = "write" => Held(u)'
      <4>1. CASE u = t
        BY <1>t, <3>1, <3>2, <3>12, <4>1
      <4>2. CASE u # t
        BY <1>t, <3>1, <3>3, <3>4, <4>2
      <4> QED
        BY <4>1, <4>2
    <3> QED
      BY <1>k, <3>1, <3>10, <3>11, <3>13
  <2>5. CASE Locked!Write(t)
    <3> PICK cs : cs = {owner[sock[t]]} \ {NoConn}
      OBVIOUS
    <3>w. Locked!WriteTo(cs, message) => WriteTo(cs, message)
      BY DEF Locked!WriteTo, WriteTo, Locked!Transmit, Transmit, Locked!Reported, Reported,
             Locked!OnWindows, OnWindows
    <3>1. /\ thread[t] = "write" /\ ~Stopped /\ (pc = "create" => clntSock \in Fds)
          /\ \/ pc' = "dead" /\ UNCHANGED <<peer, got, thread>>
             \/ WriteTo(cs, message) /\ thread' = [thread EXCEPT ![t] = "read"] /\ pc' = pc
          /\ UNCHANGED <<backlog, sent, taken, since, owner, clntSock, mutex, sock, message>>
      BY <2>5, <2>a, <3>w DEF Locked!Write, Locked!Client, Locked!Goto
    <3>2. PICK c \in Conns : message = [from |-> c, num |-> taken[c]] /\ (owner[sock[t]] = c \/ Over(c))
      BY <1>t, <3>1 DEF Held
    <3>3. CASE pc' = "dead" /\ UNCHANGED <<peer, got, thread>>
      <4>1. Netted'
        BY <1>0, <3>1, <3>3, NettedOn, MovesNot, ShrinksNot
      <4>2. \A d \in Conns : Over(d) => Over(d)'
        BY <1>0, <3>1, <3>3, OverStays, MovesNot, ShrinksNot
      <4>3. \A u \in T : thread'[u] = "write" => Held(u)'
        BY <1>H, <1>t, <3>1, <3>3, <4>2
      <4> QED
        BY <1>k, <1>t, <3>1, <3>3, <4>1, <4>3 DEF Stopped
    <3>4. CASE WriteTo(cs, message) /\ thread' = [thread EXCEPT ![t] = "read"] /\ pc' = pc
      <4> PICK u : u = message
        OBVIOUS
      <4>1. u \in Unit /\ u.from = c /\ u.num = taken[c] /\ taken[c] \in Nat
        BY <1>0, <3>2 DEF Unit
      <4>2. /\ thread'[t] = "read" /\ \A v \in T \ {t} : thread'[v] = thread[v]
            /\ \A v \in T \ {t} : thread[v] \notin {"read", "write"}
        BY <1>0, <1>t, <3>1, <3>4
      <4>3. Writing /\ ~Writing'
        BY <1>0, <3>1, <4>2 DEF Writing, T
      <4>4. /\ Moves /\ Shrinks /\ got' \in [Conns -> Seq(Unit)]
        BY <1>0, <3>1, <3>4, <4>1, WriteTyped, ShrinksNot
      <4>5. \A d \in Conns : Over(d) => Over(d)'
        BY <1>0, <3>1, <4>4, OverStays
      <4>6. \A d \in Conns : /\ d # c => Passed(d)' = Passed(d)
                             /\ d = c => Passed(d) = taken[d] - 1 /\ Passed(d)' = taken[d]
        BY <1>0, <3>1, <4>1, <4>3, LockedPassed
      <4>7. cs \cap Conns \subseteq Served /\ (\A d \in Served : d \in cs <=> d = owner[sock[t]])
        BY <1>t, <3>1, SocketsAssumption DEF Served
      <4>8. ASSUME NEW d \in Served PROVE IF d \in cs THEN Hears(d, u) ELSE Steady(d)
        <5>0. d \in Conns
          BY DEF Served
        <5>1. \A x \in Conns : /\ Owed(d, x) <=> d = x
                               /\ Barred(d, x) <=> d # x /\ ~Over(x)
                               /\ Barred(d, x)' <=> d # x /\ ~Over(x)'
          BY DEF Owed, Barred
        <5>2. CASE d \in cs
          <6>1. d = c \/ Over(c)'
            BY <3>2, <4>5, <4>7, <5>2
          <6>2. ~Barred(d, u.from)'
            BY <4>1, <5>1, <6>1
          <6>3. Owed(d, u.from) => u.num = Passed(u.from) + 1 /\ Passed(u.from)' = Passed(u.from) + 1
            BY <4>1, <4>6
          <6>4. \A x \in Conns : /\ Owed(d, x) /\ x # u.from => Passed(x)' = Passed(x)
                                 /\ Barred(d, x)' => Barred(d, x)
            BY <4>1, <4>5, <4>6, <5>1
          <6> QED
            BY <5>2, <6>2, <6>3, <6>4 DEF Hears
        <5>3. CASE d \notin cs
          <6>1. d # c
            BY <3>2, <4>7, <5>3 DEF Over
          <6> QED
            BY <4>5, <4>6, <5>0, <5>3, <6>1, LockedSteady
        <5> QED
          BY <5>2, <5>3
      <4>9. Tuned
        BY <3>1 DEF LockedOwn
      <4>10. Tuned'
        <5>1. WriteTo(cs, u) /\ taken' \in [Conns -> Nat]
          BY <1>0, <3>1, <3>4
        <5>2. \A d \in Served : peer[d] = "open" => IF d \in cs THEN Hears(d, u) ELSE Steady(d)
          BY <4>8
        <5> QED
          BY <1>0, <3>1, <4>1, <4>4, <4>7, <4>9, <5>1, <5>2, TunedWrite
      <4>11. Netted'
        BY <1>0, <3>1, <4>4, NettedOn
      <4>12. ASSUME NEW v \in T
             PROVE  /\ thread'[v] # "none" => clntSock' \in Fds
                    /\ thread'[v] \notin {"none", "start"} => sock'[v] \in Fds
                    /\ thread'[v] \in {"read", "write"} => mutex' = v
                    /\ thread'[v] # "write"
        <5>1. CASE v = t
          BY <1>t, <3>1, <4>2, <5>1
        <5>2. CASE v # t
          BY <1>t, <3>1, <4>2, <5>2
        <5> QED
          BY <5>1, <5>2
      <4> QED
        BY <1>k, <3>1, <3>4, <4>10, <4>11, <4>12
    <3> QED
      BY <3>1, <3>3, <3>4
  <2> QED
    BY <1>4, <2>1, <2>2, <2>3, <2>4, <2>5 DEF Locked!Thread
<1> QED
  BY <1>1, <1>2, <1>3, <1>4 DEF Locked!Next, Locked!Server, T

\* webserv_win.c: only a connection that is over has had an answer.
WebTyped == handler \in SUBSET Web!Handler /\ stray \in BOOLEAN

WebOwn ==
    /\ Netted /\ WebTyped
    /\ \A c \in Conns : ~Over(c) => got[c] = <<>>
    /\ Web!OwnAnswer

LEMMA WebTypes ==
    ASSUME NetTyped, WebTyped, Web!Next
    PROVE  WebTyped'
<1> USE DEF Web!net, Web!server
<1>0. Web!Handler' = Web!Handler
  BY DEF Web!Handler
<1>1. CASE \E c \in Conns : Web!Client(c) /\ UNCHANGED Web!server
  BY <1>0, <1>1 DEF WebTyped
<1>2. CASE \E f \in Fds : Web!Accept(f)
  <2>1. PICK f \in Fds : /\ AcceptAs(f) /\ stray' = stray
                         /\ handler' = handler \cup {[pc |-> "recv", sock |-> f, of |-> Head(backlog)]}
    BY <1>2 DEF Web!Accept, Web!AcceptAs, AcceptAs
  <2>2. Head(backlog) \in Conns
    BY <2>1, HeadTailProperties, EmptySeq DEF NetTyped, AcceptAs
  <2>3. [pc |-> "recv", sock |-> f, of |-> Head(backlog)] \in Web!Handler
    BY <2>2 DEF Web!Handler
  <2> QED
    BY <1>0, <2>1, <2>3 DEF WebTyped
<1>3. ASSUME NEW h \in handler,
             Web!RequestHandler(h) \/ Web!SendErrorMSG(h) \/ Web!CloseAgain(h) \/ Web!SendData(h)
      PROVE  WebTyped'
  <2>1. stray' \in BOOLEAN
    <3>1. stray' = (stray \/ owner[h.sock] \notin {h.of, NoConn})
      BY <1>3 DEF Web!RequestHandler, Web!SendErrorMSG, Web!CloseAgain, Web!SendData, Web!Note
    <3> QED
      BY <3>1
  <2>2. handler' \subseteq Web!Handler
    <3>1. h \in Web!Handler /\ handler \subseteq Web!Handler
      BY DEF WebTyped
    <3>2. \A label \in {"refuse", "close", "send"} : [h EXCEPT !.pc = label] \in Web!Handler
      BY <3>1 DEF Web!Handler
    <3>3. \/ handler' = handler \ {h}
          \/ \E label \in {"refuse", "close", "send"} :
                handler' = (handler \ {h}) \cup {[h EXCEPT !.pc = label]}
      BY <1>3 DEF Web!RequestHandler, Web!SendErrorMSG, Web!CloseAgain, Web!SendData, Web!Goto
    <3> QED
      BY <3>1, <3>2, <3>3
  <2> QED
    BY <1>0, <2>1, <2>2 DEF WebTyped
<1> QED
  BY <1>1, <1>2, <1>3 DEF Web!Next, Web!Server

LEMMA WebFollows ==
    ASSUME program = "web", UNCHANGED program, WebOwn, Web!Next
    PROVE  WebOwn'
<1> USE DEF Web!net, Web!server
<1>0. /\ Netted /\ Network /\ NetTyped /\ WebTyped'
      /\ owner \in [Fds -> Conns \cup {NoConn}] /\ taken \in [Conns -> Nat]
      /\ got \in [Conns -> Seq(Unit)]
  BY WebTypes DEF WebOwn, Netted, Network, NetTyped, Noted
<1>s. ASSUME NEW h, Web!Note(h)
      PROVE  /\ stray => stray'
             /\ ~stray' => ~stray /\ owner[h.sock] \in {h.of, NoConn}
  BY <1>s DEF Web!Note
<1>1. CASE \E c \in Conns : Web!Client(c) /\ UNCHANGED Web!server
  <2>1. PICK c \in Conns : Connect(c) \/ ClientSend(c) \/ ClientShut(c) \/ ClientReset(c)
    BY <1>1 DEF Web!Client, Web!Connect, Connect, Web!ClientSend, ClientSend,
                Web!ClientShut, ClientShut, Web!ClientReset, ClientReset
  <2>2. Netted' /\ UNCHANGED got /\ stray' = stray
    BY <1>0, <1>1, <2>1, NettedClient
  <2>3. \A d \in Conns : Over(d) => Over(d)'
    BY <1>0, <2>1, OverStays
  <2> QED
    BY <1>0, <2>2, <2>3 DEF WebOwn, Web!OwnAnswer
<1>2. CASE \E f \in Fds : Web!Accept(f)
  <2>1. PICK f \in Fds : AcceptAs(f) /\ UNCHANGED <<peer, sent, taken, got, stray>>
    BY <1>2 DEF Web!Accept, Web!AcceptAs, AcceptAs
  <2>2. Netted'
    BY <1>0, <2>1, NettedAccept
  <2>3. \A d \in Conns : Over(d) => Over(d)'
    BY <1>0, <2>1, OverStays
  <2> QED
    BY <1>0, <2>1, <2>2, <2>3 DEF WebOwn, Web!OwnAnswer
<1>3. ASSUME NEW h \in handler, Web!RequestHandler(h) \/ Web!CloseAgain(h) PROVE WebOwn'
  <2>1. h.sock \in Fds
    BY DEF WebOwn, WebTyped, Web!Handler
  <2>2. /\ UNCHANGED <<peer, backlog, sent, got, since>> /\ Web!Note(h)
        /\ owner' = owner \/ CloseFd(h.sock)
        /\ taken' = taken \/ \E c : taken' = [taken EXCEPT ![c] = @ + 1]
    BY <1>3 DEF Web!RequestHandler, Web!CloseAgain, Web!CloseFd, CloseFd, Web!TakeUnit
  <2>3. Moves /\ Shrinks /\ taken' \in [Conns -> Nat]
    BY <1>0, <2>1, <2>2, MovesNot, ShrinksNot, ShrinksClose
  <2>4. Netted'
    BY <1>0, <2>2, <2>3, NettedOn
  <2>5. \A d \in Conns : Over(d) => Over(d)'
    BY <1>0, <2>2, <2>3, OverStays
  <2> QED
    BY <1>0, <1>s, <2>2, <2>4, <2>5 DEF WebOwn, Web!OwnAnswer
<1>4. ASSUME NEW h \in handler, Web!SendErrorMSG(h) \/ Web!SendData(h) PROVE WebOwn'
  <2> DEFINE f == h.sock
             u == [from |-> h.of, num |-> 1]
  <2>1. f \in Fds /\ h.of \in Conns
    BY DEF WebOwn, WebTyped, Web!Handler
  <2> PICK cs : cs = {owner[f]} \ {NoConn}
    OBVIOUS
  <2>w. Web!WriteTo(cs, u) => WriteTo(cs, u)
    <3> HIDE DEF u
    <3> QED
      BY DEF Web!WriteTo, WriteTo, Web!Transmit, Transmit, Web!Reported, Reported,
             Web!OnWindows, OnWindows
  <2>2. /\ Web!WriteTo(cs, u) /\ CloseFd(f) /\ Web!Note(h)
        /\ UNCHANGED <<backlog, sent, taken, since>>
    BY <1>4 DEF Web!SendErrorMSG, Web!SendData, Web!Answer, Web!CloseFd, CloseFd
  <2>3. u \in Unit
    BY <2>1 DEF Unit
  <2> HIDE DEF u, f
  <2>4. /\ Moves /\ Shrinks /\ got' \in [Conns -> Seq(Unit)]
        /\ \A d \in Conns : IF d \in cs /\ peer[d] = "open"
                            THEN got'[d] = Append(got[d], u) ELSE got'[d] = got[d]
    BY <1>0, <2>1, <2>2, <2>3, <2>w, WriteTyped, ShrinksClose
  <2>5. Netted' /\ Served' = Served \ {owner[f]}
    BY <1>0, <2>1, <2>2, <2>4, NettedOn, ServedClose
  <2>6. \A d \in Conns : Over(d) => Over(d)'
    BY <1>0, <2>2, <2>4, OverStays
  <2>7. ASSUME NEW d \in Conns, d \in cs
        PROVE  Over(d)' /\ got[d] = <<>>
    <3>1. d = owner[f] /\ d \in Served
      BY <2>1, <2>7 DEF Served
    <3>2. peer[d] # "none" /\ \A k \in 1 .. Len(backlog) : backlog[k] # d
      BY <1>0, <3>1 DEF Network, OnePlace, Waiting
    <3>3. Over(d)'
      BY <2>2, <2>4, <2>5, <3>1, <3>2 DEF Over, Moves
    <3>4. ~Over(d)
      BY <3>1 DEF Over
    <3> QED
      BY <3>3, <3>4 DEF WebOwn
  <2>8. \A d \in Conns : ~Over(d)' => got'[d] = <<>>
    BY <2>4, <2>6, <2>7 DEF WebOwn
  <2>9. ASSUME ~stray', NEW d \in Conns PROVE got'[d] \in {<<>>, <<[from |-> d, num |-> 1]>>}
    <3>1. ~stray /\ owner[f] \in {h.of, NoConn}
      BY <1>s, <2>2, <2>9 DEF f
    <3>2. CASE d \in cs /\ peer[d] = "open"
      <4>1. d = h.of /\ u = [from |-> d, num |-> 1] /\ got'[d] = Append(<<>>, u)
        BY <2>4, <2>7, <3>1, <3>2 DEF u
      <4>2. Append(<<>>, u) = <<u>>
        OBVIOUS
      <4> QED
        BY <4>1, <4>2
    <3>3. CASE ~(d \in cs /\ peer[d] = "open")
      BY <2>4, <3>1, <3>3 DEF WebOwn, Web!OwnAnswer
    <3> QED
      BY <3>2, <3>3
  <2> QED
    BY <1>0, <2>5, <2>8, <2>9 DEF WebOwn, Web!OwnAnswer
<1> QED
  BY <1>1, <1>2, <1>3, <1>4 DEF Web!Next, Web!Server

-----------------------------------------------------------------------------
(* The invariants of the servers, in all of MCSocketServers.                 *)

\* The server that runs keeps its own invariant.
Lives ==
    \/ program = "select" /\ SelInv
    \/ program = "select_win" /\ WinInv
    \/ OnEpoll /\ EpollInv /\ EpollOwn
    \/ OnEvents /\ AsyncInv /\ Followed
    \/ Iterates /\ IterInv
    \/ OnForks /\ ForksOwn
    \/ program = "routines" /\ RoutinesOwn
    \/ program = "locked" /\ LockedOwn
    \/ program = "web" /\ WebOwn

LEMMA LivesStart == ASSUME Init PROVE Lives
<1>0. NetInit => Followed /\ Netted /\ Tuned
  <2>1. NetInit => \A d \in Conns : d \notin Served /\ got[d] = <<>>
    BY SocketsAssumption DEF NetInit, Served
  <2> QED
    BY <2>1, FollowedInit, NettedInit DEF Tuned
<1>1. CASE Sel!Init /\ program = "select"
  <2>1. /\ NetInit /\ pc = "wait" /\ reads = {Serv} /\ cpyReads = {} /\ fdMax = Serv /\ i = 0
    BY <1>1 DEF Sel!Init, Sel!NetInit, NetInit
  <2>2. SelInv
    BY <1>0, <2>1 DEF SelInv
  <2> QED
    BY <1>1, <2>2 DEF Lives
<1>2. CASE Win!Init /\ program = "select_win"
  <2>1. NetInit /\ pc = "wait" /\ fdArray = <<Serv>> /\ ready = {} /\ arr = <<>> /\ i = 1
    BY <1>2 DEF Win!Init, Win!NetInit, NetInit
  <2>2. WinInv
    BY <1>0, <2>1 DEF WinInv
  <2> QED
    BY <1>2, <2>2 DEF Lives
<1>3. CASE Epoll!Init
  <2>1. NetInit /\ OnEpoll /\ pc = "wait" /\ batch = {} /\ fd = Serv /\ edge = {}
    BY <1>3 DEF Epoll!Init, Epoll!StartEpollServ, Epoll!StartEPLTServ, Epoll!StartEPETProblem,
       Epoll!StartEPETServ, Epoll!StartChatEPETServ, Epoll!Listening, Epoll!NetInit, NetInit, OnEpoll
  <2>2. EpollOwn
    BY <1>0, <2>1 DEF EpollOwn
  <2> QED
    BY <1>3, <2>1, <2>2, EpollStart DEF Lives
<1>4. CASE Async!Init
  <2>1. NetInit /\ OnEvents
    BY <1>4 DEF Async!Init, Async!StartEchoServ, Async!StartChatServ, Async!Listening,
       Async!NetInit, NetInit, OnEvents
  <2> QED
    BY <1>0, <1>4, <2>1, AsyncStart DEF Lives
<1>5. CASE Iter!Init
  <2>1. NetInit /\ Iterates /\ pc = "accept" /\ fd = Serv /\ i = 0
    BY <1>5 DEF Iter!Init, Iter!StartServer, Iter!StartServerWin, Iter!StartReuse,
       Iter!StartStd, Iter!Listening, Iter!NetInit, NetInit, Iterates
  <2>2. IterInv
    BY <1>0, <2>1, RoundsAssumption DEF IterInv, Iter!Last
  <2> QED
    BY <2>1, <2>2 DEF Lives
<1>6. CASE Forks!Init
  <2>1. /\ NetInit /\ OnForks /\ pc = "accept" /\ fd = Serv
        /\ kid = [c \in Conns |-> "none"] /\ chld = FALSE /\ pipe = 0 /\ stored = 0
    BY <1>6 DEF Forks!Init, Forks!StartMpserv, Forks!StartStoreserv, Forks!Listening,
       Forks!NetInit, NetInit, OnForks
  <2>2. ForksOwn
    <3>1. stored \in 0 .. StoreReads /\ pipe \in Nat
      BY <2>1, RoundsAssumption
    <3>2. ForksTyped
      BY <2>1, <3>1 DEF ForksTyped
    <3> QED
      BY <1>0, <2>1, <3>2 DEF ForksOwn
  <2> QED
    BY <2>1, <2>2 DEF Lives
<1>7. CASE Routines!Init
  <2>1. /\ NetInit /\ program = "routines" /\ pc = "sleep" /\ apc = <<>>
        /\ op = [c \in Conns |-> "none"] /\ msg = [c \in Conns |-> Routines!NoUnit]
    BY <1>7 DEF Routines!Init, Routines!NetInit, NetInit
  <2>2. RoutinesOwn
    BY <1>0, <2>1 DEF RoutinesOwn, RoutinesTyped
  <2> QED
    BY <2>1, <2>2 DEF Lives
<1>8. CASE Locked!Init
  <2>1. /\ NetInit /\ program = "locked" /\ pc = "accept" /\ clntSock = Serv /\ mutex = 0
        /\ thread = [t \in Locked!Threads |-> "none"] /\ sock = [t \in Locked!Threads |-> Serv]
        /\ message = Locked!NoUnit
    BY <1>8 DEF Locked!Init, Locked!NetInit, NetInit
  <2>2. LockedOwn
    BY <1>0, <2>1 DEF LockedOwn, LockedTyped
  <2> QED
    BY <2>1, <2>2 DEF Lives
<1>9. CASE Web!Init
  <2>1. NetInit /\ program = "web" /\ handler = {} /\ stray = FALSE
    BY <1>9 DEF Web!Init, Web!NetInit, NetInit
  <2>2. \A c \in Conns : got[c] = <<>> /\ peer[c] = "none"
    BY <2>1 DEF NetInit
  <2>3. WebOwn
    BY <1>0, <2>1, <2>2 DEF WebOwn, WebTyped, Web!OwnAnswer
  <2> QED
    BY <2>1, <2>3 DEF Lives
<1> QED
  BY <1>1, <1>2, <1>3, <1>4, <1>5, <1>6, <1>7, <1>8, <1>9 DEF Init

LEMMA LivesUnchanged == ASSUME Lives, UNCHANGED vars PROVE Lives'
<1>1. UNCHANGED <<program, peer, backlog, sent, taken, got, since, owner, pc, i, fd>>
  BY DEF vars, net
<1>2. /\ UNCHANGED <<reads, cpyReads, fdMax, fdArray, ready, arr, batch, edge>>
      /\ UNCHANGED <<kid, chld, pipe, stored, op, apc, msg>>
      /\ UNCHANGED <<clntSock, mutex, thread, sock, message, handler, stray>>
  BY DEF vars, selectVars, winVars, epollVars, forkVars, routineVars, lockedVars, webVars
<1>3. /\ OnEpoll' = OnEpoll /\ OnEvents' = OnEvents /\ Iterates' = Iterates /\ OnForks' = OnForks
  BY <1>1 DEF OnEpoll, OnEvents, Iterates, OnForks
<1>4. Netted => Netted'
  BY <1>1, NettedIdle DEF net
<1>5. Tuned => Tuned'
  <2>1. \A c \in Conns : Over(c)' = Over(c)
    BY <1>1 DEF Over, Served
  <2>2. \A c \in Conns : Passed(c)' = Passed(c)
    BY <1>1, <1>2 DEF Passed, Midway
  <2>3. \A d, c \in Conns : Owed(d, c)' = Owed(d, c) /\ Barred(d, c)' = Barred(d, c)
    BY <1>1, <2>1 DEF Barred, Owed
  <2> QED
    BY <1>1, <2>2, <2>3 DEF Tuned, Fresh, Waiting, Served, Carries
<1>6. Stopped' = Stopped
  BY <1>1 DEF Stopped
<1>7. Followed => Followed'
  BY <1>4, <1>5, <1>6 DEF Followed
<1>a. CASE program = "select" /\ SelInv
  BY <1>a, <1>1, <1>2, <1>7 DEF Lives, SelInv
<1>b. CASE program = "select_win" /\ WinInv
  BY <1>b, <1>1, <1>2, <1>7 DEF Lives, WinInv
<1>c. CASE OnEpoll /\ EpollInv /\ EpollOwn
  <2>1. EpollOwn'
    BY <1>c, <1>1, <1>2, <1>7 DEF EpollOwn
  <2> QED
    BY <1>c, <1>3, <2>1, EpollUnchanged DEF Lives
<1>d. CASE OnEvents /\ AsyncInv /\ Followed
  BY <1>d, <1>3, <1>7, AsyncUnchanged DEF Lives
<1>e. CASE Iterates /\ IterInv
  BY <1>e, <1>1, <1>3, <1>7 DEF Lives, IterInv, Iter!Last
<1>f. CASE OnForks /\ ForksOwn
  BY <1>f, <1>1, <1>2, <1>3, <1>7 DEF Lives, ForksOwn, ForksTyped, Served
<1>g. CASE program = "routines" /\ RoutinesOwn
  <2>1. RoutinesOwn'
    BY <1>g, <1>1, <1>2, <1>4, <1>5 DEF RoutinesOwn, RoutinesTyped, Routines!NoUnit, Unit, Served
  <2> QED
    BY <1>g, <1>1, <2>1 DEF Lives
<1>h. CASE program = "locked" /\ LockedOwn
  <2>1. LockedTyped' /\ Locked!Threads' = Locked!Threads
    BY <1>h, <1>1, <1>2 DEF LockedOwn, LockedTyped, Locked!NoUnit, Unit, Locked!Threads
  <2>2. \A t \in Locked!Threads : Held(t)' = Held(t)
    BY <1>1, <1>2 DEF Held, Over, Served
  <2>3. LockedOwn'
    BY <1>h, <1>1, <1>2, <1>4, <1>5, <1>6, <2>1, <2>2 DEF LockedOwn
  <2> QED
    BY <1>h, <1>1, <2>3 DEF Lives
<1>i. CASE program = "web" /\ WebOwn
  <2>1. WebTyped' /\ (Web!OwnAnswer <=> Web!OwnAnswer')
    BY <1>i, <1>1, <1>2 DEF WebOwn, WebTyped, Web!Handler, Web!OwnAnswer
  <2>2. WebOwn'
    BY <1>i, <1>1, <1>4, <2>1 DEF WebOwn, Over, Served
  <2> QED
    BY <1>i, <1>1, <2>2 DEF Lives
<1> QED
  BY <1>a, <1>b, <1>c, <1>d, <1>e, <1>f, <1>g, <1>h, <1>i DEF Lives

LEMMA LivesStep == ASSUME Lives, Next PROVE Lives'
<1>0. UNCHANGED program
  BY KeepsProgram
<1>3. /\ OnEpoll' = OnEpoll /\ OnEvents' = OnEvents /\ Iterates' = Iterates /\ OnForks' = OnForks
  BY <1>0 DEF OnEpoll, OnEvents, Iterates, OnForks
<1>4. /\ program = "select" => Sel!Next
      /\ program = "select_win" => Win!Next
      /\ OnEpoll => Epoll!Next
      /\ OnEvents => Async!Next
      /\ Iterates => Iter!Next
      /\ OnForks => Forks!Next
      /\ program = "routines" => Routines!Next
      /\ program = "locked" => Locked!Next
      /\ program = "web" => Web!Next
  BY DEF Next, SelNext, WinNext, EpollNext, AsyncNext, IterNext, ForksNext,
         RoutinesNext, LockedNext, WebNext, OnEpoll, OnEvents, Iterates, OnForks
<1>a. CASE program = "select" /\ SelInv
  BY <1>0, <1>4, <1>a, SelFollows DEF Lives
<1>b. CASE program = "select_win" /\ WinInv
  BY <1>0, <1>4, <1>b, WinFollows DEF Lives
<1>c. CASE OnEpoll /\ EpollInv /\ EpollOwn
  BY <1>0, <1>3, <1>4, <1>c, EpollStep, EpollFollows DEF Lives
<1>d. CASE OnEvents /\ AsyncInv /\ Followed
  BY <1>0, <1>3, <1>4, <1>d, AsyncStep, AsyncFollows DEF Lives
<1>e. CASE Iterates /\ IterInv
  BY <1>0, <1>3, <1>4, <1>e, IterFollows DEF Lives
<1>f. CASE OnForks /\ ForksOwn
  BY <1>0, <1>3, <1>4, <1>f, ForksFollows DEF Lives
<1>g. CASE program = "routines" /\ RoutinesOwn
  BY <1>0, <1>4, <1>g, RoutinesFollows DEF Lives
<1>h. CASE program = "locked" /\ LockedOwn
  BY <1>0, <1>4, <1>h, LockedFollows DEF Lives
<1>i. CASE program = "web" /\ WebOwn
  BY <1>0, <1>4, <1>i, WebFollows DEF Lives
<1> QED
  BY <1>a, <1>b, <1>c, <1>d, <1>e, <1>f, <1>g, <1>h, <1>i DEF Lives

LEMMA LivesAlways == Spec => []Lives
<1>1. Lives /\ [Next]_vars => Lives'
  BY LivesStep, LivesUnchanged
<1> QED
  BY LivesStart, <1>1, PTL DEF Spec

\* Every client that stays is sent, in order, once and without a gap, what the
\* server reads from the moment it was accepted, and nothing else: the units
\* each of the echo loops, of the broadcasts of chat_EPETserv.c and
\* AsynNotiChatServ_win.c, and of the threads, children and completion routines
\* passes on; RequestHandler of webserv_win.c answers a client's own request.
THEOREM ClientsInStepHolds == Spec => []ClientsInStep
<1>1. Lives => ClientsInStep
  <2> SUFFICES ASSUME Lives PROVE ClientsInStep
    OBVIOUS
  <2>1. CASE program = "web"
    BY <2>1 DEF Lives, OnEpoll, OnEvents, Iterates, OnForks, WebOwn, ClientsInStep
  <2>2. CASE program # "web"
    <3>1. Stopped \/ Tuned
      BY <2>2 DEF Lives, SelInv, WinInv, EpollOwn, IterInv, ForksOwn, RoutinesOwn,
                  LockedOwn, Followed
    <3> QED
      BY <2>2, <3>1, TunedIsInStep DEF ClientsInStep
  <2> QED
    BY <2>1, <2>2
<1> QED
  BY <1>1, LivesAlways, PTL

\* The network and the variables of the server that runs keep their types: no
\* descriptor, client, index, label or unit gets out of its set in any handler
\* of any of the servers, and the counters stay within their arrays.
THEOREM ServersTypeOKHolds == Spec => []TypeOK
<1>1. Lives => TypeOK
  <2> SUFFICES ASSUME Lives PROVE TypeOK
    OBVIOUS
  <2>0. /\ NetTypeOK => Sel!NetTypeOK /\ Win!NetTypeOK /\ Epoll!NetTypeOK
        /\ NetTypeOK => Async!NetTypeOK /\ Iter!NetTypeOK /\ Forks!NetTypeOK
        /\ NetTypeOK => Routines!NetTypeOK /\ Locked!NetTypeOK /\ Web!NetTypeOK
    BY DEF NetTypeOK, Sel!NetTypeOK, Win!NetTypeOK, Epoll!NetTypeOK, Async!NetTypeOK,
           Iter!NetTypeOK, Forks!NetTypeOK, Routines!NetTypeOK, Locked!NetTypeOK, Web!NetTypeOK,
           Unit, Sel!Unit, Win!Unit, Epoll!Unit, Async!Unit, Iter!Unit, Forks!Unit,
           Routines!Unit, Locked!Unit, Web!Unit, Peers, Sel!Peers, Win!Peers, Epoll!Peers,
           Async!Peers, Iter!Peers, Forks!Peers, Routines!Peers, Locked!Peers, Web!Peers
  <2>1. NetTypeOK
    <3>1. Netted
      BY DEF Lives, SelInv, WinInv, EpollOwn, IterInv, ForksOwn, RoutinesOwn, LockedOwn,
             WebOwn, Followed
    <3> QED
      BY <3>1, NettedTypes
  <2>a. CASE program = "select" /\ SelInv
    <3>1. Sel!TypeOK
      BY <2>a, <2>0, <2>1 DEF SelInv, Sel!TypeOK, Sel!All
    <3> QED
      BY <2>a, <3>1 DEF TypeOK, OnEpoll, OnEvents, Iterates, OnForks
  <2>b. CASE program = "select_win" /\ WinInv
    <3>1. Win!TypeOK
      BY <2>b, <2>0, <2>1 DEF WinInv, Win!TypeOK, Win!All
    <3> QED
      BY <2>b, <3>1 DEF TypeOK, OnEpoll, OnEvents, Iterates, OnForks
  <2>c. CASE OnEpoll /\ EpollInv /\ EpollOwn
    <3>1. Epoll!TypeOK
      BY <2>c, <2>0, <2>1 DEF EpollInv, EpollTyped, EpollOwn, Epoll!TypeOK, Epoll!All, Epoll!Slots,
                              Room, Epoll!Cardinality, Cardinality
    <3> QED
      BY <2>c, <3>1 DEF TypeOK, OnEpoll, OnEvents, Iterates, OnForks
  <2>d. CASE OnEvents /\ AsyncInv /\ Followed
    <3>1. Async!Slots = 0 .. Room + 1 /\ Async!Events = Conns \cup {Serv}
      BY DEF Async!Slots, Async!Events, Room, Async!Cardinality, Cardinality
    <3>2. Async!TypeOK
      BY <2>d, <2>0, <2>1, <3>1, RoomIsNat DEF AsyncInv, AsyncTyped, Async!TypeOK
    <3> QED
      BY <2>d, <3>2 DEF TypeOK, OnEpoll, OnEvents, Iterates, OnForks
  <2>e. CASE Iterates /\ IterInv
    <3>1. Iter!TypeOK
      BY <2>e, <2>0, <2>1 DEF IterInv, Iter!TypeOK
    <3> QED
      BY <2>e, <3>1 DEF TypeOK, OnEpoll, OnEvents, Iterates, OnForks
  <2>f. CASE OnForks /\ ForksOwn
    <3>1. Forks!TypeOK
      BY <2>f, <2>0, <2>1 DEF ForksOwn, ForksTyped, Forks!TypeOK
    <3> QED
      BY <2>f, <3>1 DEF TypeOK, OnEpoll, OnEvents, Iterates, OnForks
  <2>g. CASE program = "routines" /\ RoutinesOwn
    <3>1. Routines!TypeOK
      BY <2>g, <2>0, <2>1 DEF RoutinesOwn, RoutinesTyped, Routines!TypeOK, Unit, Routines!Unit
    <3> QED
      BY <2>g, <3>1 DEF TypeOK, OnEpoll, OnEvents, Iterates, OnForks
  <2>h. CASE program = "locked" /\ LockedOwn
    <3>1. Locked!TypeOK
      BY <2>h, <2>0, <2>1 DEF LockedOwn, LockedTyped, Locked!TypeOK, Unit, Locked!Unit
    <3> QED
      BY <2>h, <3>1 DEF TypeOK, OnEpoll, OnEvents, Iterates, OnForks
  <2>i. CASE program = "web" /\ WebOwn
    <3>1. Web!TypeOK
      BY <2>i, <2>0, <2>1 DEF WebOwn, WebTyped, Web!TypeOK
    <3> QED
      BY <2>i, <3>1 DEF TypeOK, OnEpoll, OnEvents, Iterates, OnForks
  <2> QED
    BY <2>a, <2>b, <2>c, <2>d, <2>e, <2>f, <2>g, <2>h, <2>i DEF Lives
<1> QED
  BY <1>1, LivesAlways, PTL
=============================================================================
