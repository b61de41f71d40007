----------------------- MODULE IocpStudyServersProofs -----------------------
(* Theorems about IocpStudyServers for any number of clients, workers and    *)
(* blocks: who has an IO_INFO block, which CLNT_INFO is on the heap, and the  *)
(* order in which clients are sent what was read.                            *)
EXTENDS MCIocpStudy, SocketsProofs

-----------------------------------------------------------------------------
(* The inductive invariant.                                                  *)

Started == program \in {"iocp_c", "iocp_wsasend", "iocp_send", "iocp_echo"}

\* Where main and the workers are, and what they hold there.
Placed ==
    /\ mpc # "accept" => reg \in Fds
    /\ \A k \in 1 .. Len(cq) : cq[k].key \in Conns /\ cq[k].io \in Blocks
    /\ \A w \in Workers :
          /\ wpc[w] = "handle" => cur[w].key \in Conns /\ cur[w].io \in Blocks
          /\ wpc[w] \in {"send", "rearm"} => cur[w].key \in Conns
          /\ wpc[w] = "send" /\ Synchronous => cur[w].io \in Blocks
          /\ wpc[w] \in {"get", "remove"} => cur[w].io = 0
          /\ wpc[w] \in {"send", "rearm"} /\ Echo => cur[w].io = 0

\* The blocks of outstanding receives and sends, of completions queued, and
\* of workers.
Receiving == UNION {recvs[c] : c \in Conns}
Sending == UNION {{out[c][k] : k \in 1 .. Len(out[c])} : c \in Conns}
Queued == {cq[k].io : k \in 1 .. Len(cq)}
Worked == {cur[w].io : w \in Workers} \ {0}
Kept == Receiving \cup Sending \cup Queued \cup Worked

\* A block is in one of those places, once, and on the heap.
OneOwner ==
    /\ \A c, d \in Conns : \A b \in recvs[c] : b \in recvs[d] => c = d
    /\ \A c, d \in Conns : \A k \in 1 .. Len(out[c]), l \in 1 .. Len(out[d]) :
          out[c][k] = out[d][l] => c = d /\ k = l
    /\ \A k, l \in 1 .. Len(cq) : cq[k].io = cq[l].io => k = l
    /\ \A v, w \in Workers : cur[v].io = cur[w].io /\ cur[w].io # 0 => v = w
    /\ Receiving \cap Sending = {}
    /\ (Receiving \cup Sending) \cap Queued = {}
    /\ (Receiving \cup Sending \cup Queued) \cap Worked = {}

OnHeap ==
    /\ \A b \in Receiving : io[b] = "READ"
    /\ \A b \in Sending : io[b] = "WRITE"
    /\ \A b \in Queued \cup Worked : io[b] # "free"
    /\ Synchronous => (\A b \in Blocks : io[b] # "WRITE") /\ Sending = {}

\* The right to start the next receive of a connection: main has it before
\* the first, then the receive outstanding, its completion queued, and the
\* worker that handles that one.
Arming == IF mpc = "accept" THEN {} ELSE {owner[reg]}
Awaiting == {c \in Conns : recvs[c] # {}}
IsRead(k) == io[cq[k].io] = "READ"
Arrived == {cq[k].key : k \in {k \in 1 .. Len(cq) : IsRead(k)}}
Busy == {w \in Workers : \/ wpc[w] \in {"send", "rearm"}
                         \/ wpc[w] = "handle" /\ Mode(w) = "READ"}
Serving == {cur[w].key : w \in Busy}

\* One of them has it, the socket is open while somebody has it, and so is
\* the CLNT_INFO on the heap from the first receive on.
OneBearer ==
    /\ \A c \in Conns : \A a, b \in recvs[c] : a = b
    /\ \A k, l \in 1 .. Len(cq) :
          IsRead(k) /\ IsRead(l) /\ cq[k].key = cq[l].key => k = l
    /\ \A v, w \in Busy : cur[v].key = cur[w].key => v = w
    /\ Arming \cap (Awaiting \cup Arrived \cup Serving) = {}
    /\ Awaiting \cap (Arrived \cup Serving) = {} /\ Arrived \cap Serving = {}
    /\ Arming \cup Awaiting \cup Arrived \cup Serving \subseteq Served
    /\ \A c \in Awaiting \cup Arrived \cup Serving : info[c] = "live"

\* A buffer that will be sent from holds a unit.
Filled ==
    /\ Echo => \A b \in Sending : buf[b] \in Unit
    /\ Echo \/ Synchronous =>
          /\ \A k \in 1 .. Len(cq) :
                IsRead(k) /\ cq[k].bytes > 0 => buf[cq[k].io] \in Unit
          /\ \A w \in Workers :
                wpc[w] = "handle" /\ Mode(w) = "READ" /\ cur[w].bytes > 0
                => buf[cur[w].io] \in Unit
    /\ Synchronous => \A w \in Workers : wpc[w] = "send" => buf[cur[w].io] \in Unit

\* The echo server forgets no block but to a broken connection.
NoneLost ==
    Echo => /\ \A b \in Blocks : io[b] # "free" =>
                  b \in Kept \/ \E c \in Conns : peer[c] = "reset"
            /\ \A c \in Conns : out[c] # <<>> => info[c] # "none"

Ownership == OneOwner /\ OnHeap
Contents == Filled /\ NoneLost

IInv ==
    /\ Network /\ TypeOK /\ Started /\ Placed
    /\ Ownership /\ OneBearer /\ Contents

-----------------------------------------------------------------------------
(* Sequences and the network.                                                *)

LEMMA StartedOnWindows == Started => OnWindows
BY DEF Started, OnWindows

\* What a completion port is told about the blocks s of connection c.
LEMMA ReportsAppended ==
    ASSUME NEW c \in Conns, NEW s \in Seq(Blocks), cq \in Seq(Completion),
           cq' = cq \o Reports(c, s)
    PROVE  /\ cq' \in Seq(Completion) /\ Len(cq) \in Nat /\ Len(s) \in Nat
           /\ Len(cq') = IF info[c] = "none" THEN Len(cq) ELSE Len(cq) + Len(s)
           /\ \A k \in 1 .. Len(cq) : cq'[k] = cq[k]
           /\ info[c] # "none" => \A k \in 1 .. Len(s) :
                 cq'[Len(cq) + k] = [key |-> c, io |-> s[k], bytes |-> 1]
<1> DEFINE r == Reports(c, s)
<1>1. CASE info[c] = "none"
  <2>1. r = <<>>
    BY <1>1 DEF Reports
  <2> QED
    BY <1>1, <2>1, ConcatEmptySeq, LenProperties
<1>2. CASE info[c] # "none"
  <2>1. r = [k \in 1 .. Len(s) |-> [key |-> c, io |-> s[k], bytes |-> 1]]
    BY <1>2 DEF Reports
  <2>2. Len(s) \in Nat /\ \A k \in 1 .. Len(s) : s[k] \in Blocks
    BY LenProperties, ElementOfSeq
  <2>3. \A k \in 1 .. Len(s) : [key |-> c, io |-> s[k], bytes |-> 1] \in Completion
    BY <2>2 DEF Completion
  <2>4. r \in Seq(Completion) /\ Len(r) = Len(s)
    BY <2>1, <2>2, <2>3
  <2>5. cq' = cq \o r
    OBVIOUS
  <2> HIDE DEF r
  <2>6. /\ cq' \in Seq(Completion) /\ Len(cq') = Len(cq) + Len(r)
        /\ \A k \in 1 .. Len(cq) + Len(r) :
              cq'[k] = IF k <= Len(cq) THEN cq[k] ELSE r[k - Len(cq)]
    <3>1. cq \in Seq(Completion) /\ r \in Seq(Completion)
      BY <2>4
    <3>2. /\ cq \o r \in Seq(Completion) /\ Len(cq \o r) = Len(cq) + Len(r)
          /\ \A k \in 1 .. Len(cq) + Len(r) :
                (cq \o r)[k] = IF k <= Len(cq) THEN cq[k] ELSE r[k - Len(cq)]
      BY <3>1, ConcatProperties
    <3> QED
      BY <2>5, <3>2
  <2>7. Len(cq) \in Nat
    BY LenProperties
  <2>8. ASSUME NEW k \in 1 .. Len(s)
        PROVE  cq'[Len(cq) + k] = [key |-> c, io |-> s[k], bytes |-> 1]
    <3>1. Len(cq) + k \in 1 .. Len(cq) + Len(r) /\ ~(Len(cq) + k <= Len(cq))
          /\ Len(cq) + k - Len(cq) = k
      BY <2>2, <2>4, <2>7
    <3>2. cq'[Len(cq) + k] = r[k]
      BY <2>6, <3>1, SMTT(30)
    <3> QED
      BY <2>1, <3>2
  <2> QED
    BY <1>2, <2>2, <2>4, <2>6, <2>7, <2>8
<1> QED
  BY <1>1, <1>2

\* Nothing moves that the invariant is about, but perhaps the network.
LEMMA Steady ==
    ASSUME OneOwner, OnHeap, OneBearer,
           UNCHANGED <<program, info, io, recvs, out, cq, Arming, Served, Busy>>,
           \A w \in Workers : cur'[w].io = cur[w].io,
           \A w \in Busy : cur'[w].key = cur[w].key
    PROVE  OneOwner' /\ OnHeap' /\ OneBearer'
<1>1. UNCHANGED <<Receiving, Sending, Queued, Worked, Awaiting, Arrived, Serving>>
  BY DEF Receiving, Sending, Queued, Worked, Awaiting, Arrived, Serving, IsRead
<1>2. OneOwner'
  BY <1>1 DEF OneOwner
<1>3. OnHeap'
  BY <1>1 DEF OnHeap, Synchronous
<1>4. OneBearer'
  BY <1>1 DEF OneBearer, IsRead
<1> QED
  BY <1>2, <1>3, <1>4
LEMMA Start == ASSUME Init PROVE IInv
<1>0. Listening /\ Started
  BY DEF Init, StartCServ, StartWSASendServ, StartSendServ, StartEchoServ, Started
<1>1. Network
  BY <1>0, NetworkInit DEF Listening
<1>2. /\ got \in [Conns -> Seq(Unit)] /\ since \in [Conns -> [Conns -> Nat]]
      /\ reg \in Fds \cup {Serv} /\ mpc = "accept" /\ clntArr \in Seq(Fds)
      /\ cq = <<>> /\ cq \in Seq(Completion)
  BY <1>0 DEF Listening, NetInit
<1>3. /\ out \in [Conns -> Seq(Blocks)] /\ \A c \in Conns : out[c] = <<>>
      /\ recvs \in [Conns -> SUBSET Blocks] /\ \A c \in Conns : recvs[c] = {}
      /\ info \in [Conns -> {"none", "live", "freed"}]
  BY <1>0 DEF Listening
<1>4. /\ io \in [Blocks -> {"free", "READ", "WRITE"}] /\ \A b \in Blocks : io[b] = "free"
      /\ buf \in [Blocks -> Unit \cup {NoUnit}]
  BY <1>0 DEF Listening
<1>5. /\ wpc \in [Workers -> {"get", "handle", "remove", "send", "rearm"}]
      /\ \A w \in Workers : wpc[w] = "get" /\ cur[w] = None
      /\ cur \in [Workers -> Completion] /\ idx \in [Workers -> Nat]
  BY <1>0 DEF Listening, Completion, None
<1>6. TypeOK
  BY <1>1, <1>2, <1>3, <1>4, <1>5 DEF TypeOK, NetTypeOK, Network, NetTyped
<1>7. Receiving = {} /\ Sending = {} /\ Queued = {} /\ Worked = {}
  BY <1>2, <1>3, <1>5 DEF Receiving, Sending, Queued, Worked, None
<1>8. Arming = {} /\ Awaiting = {} /\ Arrived = {} /\ Busy = {} /\ Serving = {}
  BY <1>2, <1>3, <1>5 DEF Arming, Awaiting, Arrived, Busy, Serving
<1>9. Ownership
  BY <1>2, <1>3, <1>4, <1>5, <1>7 DEF Ownership, OneOwner, OnHeap, None
<1>10. OneBearer
  BY <1>2, <1>3, <1>8 DEF OneBearer
<1>11. Placed
  BY <1>2, <1>5 DEF Placed, None
<1>12. Contents
  BY <1>2, <1>3, <1>4, <1>5, <1>7 DEF Contents, Filled, NoneLost
<1> QED
  BY <1>0, <1>1, <1>6, <1>9, <1>10, <1>11, <1>12 DEF IInv

-----------------------------------------------------------------------------
(* Clients and main.                                                         *)

LEMMA ClientStep ==
    ASSUME IInv, NEW c \in Conns, Client(c), UNCHANGED <<program, server>>
    PROVE  IInv'
<1> USE DEF server
<1>1. Network' /\ Served' = Served
  BY NetworkConnect, NetworkArrives DEF Client, Speak, IInv
<1>2. UNCHANGED <<got, since, owner>>
  BY DEF Client, Speak, Connect, ClientSend, ClientShut, ClientReset
<1>3. \A d \in Conns : peer[d] = "reset" => peer'[d] = "reset"
  BY DEF Client, Speak, Connect, ClientSend, ClientShut, ClientReset, IInv, Network, NetTyped
<1>4. UNCHANGED <<Arming, Busy, Receiving, Sending, Queued, Worked, Kept>>
  BY <1>2 DEF Arming, Busy, Mode, Receiving, Sending, Queued, Worked, Kept
<1>5. TypeOK'
  BY <1>1, <1>2 DEF IInv, TypeOK, NetTypeOK, Network, NetTyped
<1>6. Placed'
  BY DEF IInv, Placed, Echo, Synchronous
<1>7. Ownership' /\ OneBearer'
  BY <1>1, <1>4, Steady DEF IInv, Ownership
<1>8. Contents'
  BY <1>3, <1>4 DEF IInv, Contents, Filled, NoneLost, Echo, Synchronous, IsRead, Mode
<1> QED
  BY <1>1, <1>5, <1>6, <1>7, <1>8 DEF IInv, Started

LEMMA AcceptStep ==
    ASSUME IInv, UNCHANGED program, NEW f \in Fds, Accept(f)
    PROVE  IInv'
<1> DEFINE c == Head(backlog)
<1>0. /\ AcceptAs(f) /\ reg' = f /\ mpc = "accept" /\ mpc' \in {"arm", "register"}
      /\ UNCHANGED <<peer, sent, taken, got,
                     clntArr, info, io, buf, recvs, out, cq, wpc, cur, idx>>
  BY DEF Accept
<1>1. /\ Network' /\ c \in Conns \ Served /\ owner' = [owner EXCEPT ![f] = c]
      /\ Served' = Served \cup {c}
  BY <1>0, NetworkAccept DEF IInv
<1>2. /\ owner \in [Fds -> Conns \cup {NoConn}] /\ since' = [since EXCEPT ![c] = taken]
      /\ taken \in [Conns -> Nat] /\ since \in [Conns -> [Conns -> Nat]]
  BY <1>0 DEF AcceptAs, IInv, TypeOK, NetTypeOK
<1> HIDE DEF c
<1>3. TypeOK'
  <2>1. since' \in [Conns -> [Conns -> Nat]]
    BY <1>1, <1>2
  <2> QED
    BY <1>0, <1>1, <2>1 DEF IInv, TypeOK, NetTypeOK, Network, NetTyped
<1>4. Placed'
  BY <1>0 DEF IInv, Placed, Echo, Synchronous
<1>5. UNCHANGED <<Receiving, Sending, Queued, Worked, Kept, Awaiting, Arrived, Busy, Serving>>
  BY <1>0 DEF Receiving, Sending, Queued, Worked, Kept, Awaiting, Arrived, Busy, Serving,
              IsRead, Mode
<1>6. Arming' = {c} /\ Arming = {}
  BY <1>0, <1>1, <1>2 DEF Arming
<1>7. Ownership'
  BY <1>0, <1>5 DEF IInv, Ownership, OneOwner, OnHeap, Synchronous
<1>8. OneBearer'
  BY <1>0, <1>1, <1>5, <1>6 DEF IInv, OneBearer, IsRead
<1>9. Contents'
  BY <1>0, <1>5 DEF IInv, Contents, Filled, NoneLost, Echo, Synchronous, IsRead, Mode
<1> QED
  BY <1>1, <1>3, <1>4, <1>7, <1>8, <1>9 DEF IInv, Started

LEMMA RegisterStep == ASSUME IInv, UNCHANGED program, Register PROVE IInv'
<1>0. /\ mpc = "register" /\ mpc' = "arm" /\ clntArr' = Append(clntArr, reg)
      /\ UNCHANGED <<net, reg, info, io, buf, recvs, out, cq, wpc, cur, idx>>
  BY DEF Register
<1>1. Network' /\ Served' = Served
  BY <1>0 DEF net, IInv, Network, NetTyped, OnePlace, Waiting, Served
<1>2. UNCHANGED <<Arming, Busy, Receiving, Sending, Queued, Worked, Kept>>
  BY <1>0 DEF net, Arming, Busy, Mode, Receiving, Sending, Queued, Worked, Kept
<1>3. TypeOK'
  <2>1. reg \in Fds /\ clntArr \in Seq(Fds)
    BY <1>0 DEF IInv, TypeOK, Placed
  <2>2. clntArr' \in Seq(Fds)
    BY <1>0, <2>1, AppendProperties
  <2> QED
    BY <1>0, <2>2 DEF net, IInv, TypeOK, NetTypeOK
<1>4. Placed'
  BY <1>0 DEF IInv, Placed, Echo, Synchronous
<1>5. Ownership' /\ OneBearer'
  BY <1>0, <1>1, <1>2, Steady DEF IInv, Ownership
<1>6. Contents'
  BY <1>0, <1>2 DEF net, IInv, Contents, Filled, NoneLost, Echo, Synchronous, IsRead, Mode
<1> QED
  BY <1>1, <1>3, <1>4, <1>5, <1>6 DEF IInv, Started

LEMMA NetworkSame == ASSUME Network, UNCHANGED net PROVE Network' /\ Served' = Served
BY DEF net, Network, NetTyped, OnePlace, Waiting, Served

-----------------------------------------------------------------------------
(* Workers: the steps that move no block.                                    *)

LEMMA RemoveStep ==
    ASSUME IInv, UNCHANGED program, NEW w \in Workers, Remove(w)
    PROVE  IInv'
<1> DEFINE n == Len(clntArr)
           at == {k \in 1 .. n : clntArr[k] = idx[w]}
<1>0. /\ wpc[w] = "remove" /\ wpc' = [wpc EXCEPT ![w] = "get"]
      /\ cur' = [cur EXCEPT ![w] = None] /\ idx' = [idx EXCEPT ![w] = 0]
      /\ clntArr' = IF at = {} THEN SubSeq(clntArr, 1, n - 1)
                    ELSE SubSeq(clntArr, 1, Min(at) - 1) \o SubSeq(clntArr, Min(at) + 1, n)
      /\ UNCHANGED <<net, mpc, reg, info, io, buf, recvs, out, cq>>
  BY DEF Remove, Again, Goto
<1>1. Network' /\ Served' = Served
  BY <1>0, NetworkSame DEF IInv
<1>2. /\ clntArr \in Seq(Fds) /\ n \in Nat /\ \A k \in 1 .. n : clntArr[k] \in Fds
      /\ wpc \in [Workers -> {"get", "handle", "remove", "send", "rearm"}]
      /\ cur \in [Workers -> Completion] /\ idx \in [Workers -> Nat]
  BY LenProperties, ElementOfSeq DEF IInv, TypeOK
<1>3. clntArr' \in Seq(Fds)
  <2>1. CASE at = {}
    BY <1>0, <1>2, <2>1, SubSeqProperties
  <2>2. CASE at # {}
    <3> DEFINE m == Min(at)
    <3>1. m \in 1 .. n
      <4>1. at \in SUBSET Nat /\ at \subseteq 1 .. n
        BY <1>2
      <4> HIDE DEF at
      <4> QED
        BY <2>2, <4>1, MinIsLeast
    <3> DEFINE l == SubSeq(clntArr, 1, m - 1)
               r == SubSeq(clntArr, m + 1, n)
    <3>2. clntArr' = l \o r
      BY <1>0, <2>2
    <3> HIDE DEF m
    <3>3. /\ \A k \in 1 .. m - 1 : clntArr[k] \in Fds
          /\ \A k \in m + 1 .. n : clntArr[k] \in Fds
          /\ m - 1 \in Int /\ m + 1 \in Int /\ n \in Int /\ 1 \in Int
      BY <1>2, <3>1
    <3>4. l \in Seq(Fds) /\ r \in Seq(Fds)
      BY <3>3, SubSeqProperties
    <3> HIDE DEF l, r
    <3>5. l \o r \in Seq(Fds)
      BY <3>4, ConcatProperties
    <3> QED
      BY <3>2, <3>5
  <2> QED
    BY <2>1, <2>2
<1> HIDE DEF n, at
<1>4. /\ cur' \in [Workers -> Completion] /\ idx' \in [Workers -> Nat]
      /\ cur'[w] = None /\ wpc'[w] = "get"
      /\ wpc' \in [Workers -> {"get", "handle", "remove", "send", "rearm"}]
      /\ \A v \in Workers \ {w} : cur'[v] = cur[v] /\ wpc'[v] = wpc[v]
  BY <1>0, <1>2 DEF Completion, None
<1>5. TypeOK'
  BY <1>0, <1>3, <1>4 DEF net, IInv, TypeOK, NetTypeOK
<1>6. cur[w].io = 0 /\ \A v \in Workers : cur'[v].io = cur[v].io
  BY <1>0, <1>4 DEF IInv, Placed, None
<1>7. w \notin Busy /\ UNCHANGED <<Busy, Arming>> /\ \A v \in Busy : cur'[v] = cur[v]
  BY <1>0, <1>4 DEF net, Busy, Mode, Arming
<1>8. UNCHANGED <<Receiving, Sending, Queued, Worked, Kept>>
  BY <1>0, <1>6 DEF Receiving, Sending, Queued, Worked, Kept
<1>9. Placed'
  BY <1>0, <1>4, <1>6 DEF IInv, Placed, Echo, Synchronous
<1>10. Ownership' /\ OneBearer'
  BY <1>0, <1>1, <1>6, <1>7, Steady DEF IInv, Ownership
<1>11. Contents'
  BY <1>0, <1>4, <1>8 DEF net, IInv, Contents, Filled, NoneLost, Echo, Synchronous, IsRead,
                          Mode
<1> QED
  BY <1>1, <1>5, <1>9, <1>10, <1>11 DEF IInv, Started

LEMMA SendEndsStep ==
    ASSUME IInv, UNCHANGED program, NEW w \in Workers, SendEnds(w)
    PROVE  IInv'
<1>0. /\ wpc[w] = "send" /\ wpc' = [wpc EXCEPT ![w] = "rearm"]
      /\ UNCHANGED <<net, mpc, reg, clntArr, info, io, buf, recvs, out, cq, cur, idx>>
  BY DEF SendEnds, Goto
<1>1. Network' /\ Served' = Served
  BY <1>0, NetworkSame DEF IInv
<1>2. wpc \in [Workers -> {"get", "handle", "remove", "send", "rearm"}]
  BY DEF IInv, TypeOK
<1>3. /\ wpc'[w] = "rearm" /\ \A v \in Workers \ {w} : wpc'[v] = wpc[v]
      /\ wpc' \in [Workers -> {"get", "handle", "remove", "send", "rearm"}]
  BY <1>0, <1>2
<1>4. TypeOK'
  BY <1>0, <1>3 DEF net, IInv, TypeOK, NetTypeOK
<1>5. UNCHANGED <<Busy, Arming>>
  BY <1>0, <1>3 DEF net, Busy, Mode, Arming
<1>6. UNCHANGED <<Receiving, Sending, Queued, Worked, Kept>>
  BY <1>0 DEF Receiving, Sending, Queued, Worked, Kept
<1>7. Placed'
  BY <1>0, <1>3 DEF IInv, Placed, Echo, Synchronous
<1>8. Ownership' /\ OneBearer'
  BY <1>0, <1>1, <1>5, Steady DEF IInv, Ownership
<1>9. Contents'
  BY <1>0, <1>3, <1>6 DEF net, IInv, Contents, Filled, NoneLost, Echo, Synchronous, IsRead,
                          Mode
<1> QED
  BY <1>1, <1>4, <1>7, <1>8, <1>9 DEF IInv, Started

LEMMA BroadcastMessageStep ==
    ASSUME IInv, UNCHANGED program, NEW w \in Workers, BroadcastMessage(w)
    PROVE  IInv'
<1>0. /\ wpc[w] = "handle" /\ Mode(w) = "READ" /\ cur[w].bytes > 0 /\ Synchronous
      /\ wpc' = [wpc EXCEPT ![w] = "send"]
      /\ UNCHANGED <<net, mpc, reg, clntArr, info, io, buf, recvs, out, cq, cur, idx>>
  BY DEF BroadcastMessage, IsMessage, Goto
<1>1. Network' /\ Served' = Served
  BY <1>0, NetworkSame DEF IInv
<1>2. wpc \in [Workers -> {"get", "handle", "remove", "send", "rearm"}]
  BY DEF IInv, TypeOK
<1>3. /\ wpc'[w] = "send" /\ \A v \in Workers \ {w} : wpc'[v] = wpc[v]
      /\ wpc' \in [Workers -> {"get", "handle", "remove", "send", "rearm"}]
  BY <1>0, <1>2
<1>4. TypeOK'
  BY <1>0, <1>3 DEF net, IInv, TypeOK, NetTypeOK
<1>5. UNCHANGED <<Busy, Arming>>
  BY <1>0, <1>3 DEF net, Busy, Mode, Arming
<1>6. UNCHANGED <<Receiving, Sending, Queued, Worked, Kept>>
  BY <1>0 DEF Receiving, Sending, Queued, Worked, Kept
<1>7. Placed'
  BY <1>0, <1>3 DEF IInv, Placed, Echo, Synchronous
<1>8. Ownership' /\ OneBearer'
  BY <1>0, <1>1, <1>5, Steady DEF IInv, Ownership
<1>9. Contents'
  BY <1>0, <1>3, <1>6 DEF net, IInv, Contents, Filled, NoneLost, Echo, Synchronous, IsRead,
                          Mode
<1> QED
  BY <1>1, <1>4, <1>7, <1>8, <1>9 DEF IInv, Started

\* A write of a unit keeps the types and what has been reset.
LEMMA Written ==
    ASSUME Network, Started, got \in [Conns -> Seq(Unit)], NEW cs, NEW u \in Unit,
           WriteTo(cs, u), UNCHANGED <<backlog, sent, taken, owner>>
    PROVE  /\ Network' /\ Served' = Served /\ got' \in [Conns -> Seq(Unit)]
           /\ \A c \in Conns : peer[c] = "reset" => peer'[c] = "reset"
<1>1. /\ peer' \in [Conns -> Peers]
      /\ \A c \in Conns : \/ peer'[c] = peer[c]
                          \/ peer[c] = "shut" /\ peer'[c] = "reset"
  BY WriteStep, StartedOnWindows DEF Network
<1>2. NetTyped'
  BY <1>1 DEF Network, NetTyped
<1>3. Network'
  BY <1>1, <1>2, NetworkOn
<1>4. got' \in [Conns -> Seq(Unit)]
  <2>1. \A c \in Conns : Append(got[c], u) \in Seq(Unit)
    BY AppendProperties
  <2> QED
    BY <2>1 DEF WriteTo
<1> QED
  BY <1>1, <1>3, <1>4 DEF Served

LEMMA SendSynchronousStep ==
    ASSUME IInv, UNCHANGED program, NEW w \in Workers, SendSynchronous(w)
    PROVE  IInv'
<1> DEFINE cs == {owner[clntArr[idx[w] + 1]]} \ {NoConn}
<1>0. /\ Synchronous /\ wpc[w] = "send" /\ WriteTo(cs, buf[cur[w].io])
      /\ idx' = [idx EXCEPT ![w] = @ + 1] /\ idx \in [Workers -> Nat]
      /\ UNCHANGED <<backlog, sent, taken, since, owner,
                     mpc, reg, clntArr, info, io, buf, recvs, out, cq, wpc, cur>>
  BY DEF SendSynchronous, IInv, TypeOK
<1> HIDE DEF cs
<1>1. buf[cur[w].io] \in Unit /\ got \in [Conns -> Seq(Unit)]
  BY <1>0 DEF IInv, Contents, Filled, TypeOK, NetTypeOK
<1>2. /\ Network' /\ Served' = Served /\ got' \in [Conns -> Seq(Unit)]
      /\ \A c \in Conns : peer[c] = "reset" => peer'[c] = "reset"
  BY <1>0, <1>1, Written DEF IInv
<1>3. TypeOK'
  BY <1>0, <1>2 DEF IInv, TypeOK, NetTypeOK, Network, NetTyped
<1>4. UNCHANGED <<Busy, Arming, Receiving, Sending, Queued, Worked, Kept>>
  BY <1>0 DEF Busy, Mode, Arming, Receiving, Sending, Queued, Worked, Kept
<1>5. Placed'
  BY <1>0 DEF IInv, Placed, Echo, Synchronous
<1>6. Ownership' /\ OneBearer'
  BY <1>0, <1>2, <1>4, Steady DEF IInv, Ownership
<1>7. Contents'
  BY <1>0, <1>2, <1>4 DEF IInv, Contents, Filled, NoneLost, Echo, Synchronous, IsRead, Mode
<1> QED
  BY <1>2, <1>3, <1>5, <1>6, <1>7 DEF IInv, Started

-----------------------------------------------------------------------------
(* Workers: the steps that take or give up a block.                          *)

Labels == {"get", "handle", "remove", "send", "rearm"}

\* The block of a worker and the one of another, or of a completion queued.
LEMMA OtherBlocks ==
    ASSUME Placed, Ownership, NEW w \in Workers, wpc[w] = "handle"
    PROVE  /\ cur[w].io \in Blocks /\ cur[w].io # 0 /\ cur[w].io \in Worked
           /\ \A v \in Workers : cur[v].io = cur[w].io => v = w
           /\ \A k \in 1 .. Len(cq) : cq[k].io # cur[w].io /\ cq[k].io \in Blocks
           /\ cur[w].io \notin Receiving \cup Sending \cup Queued
<1>1. cur[w].io \in Blocks /\ cur[w].io # 0 /\ cur[w].io \in Worked
  BY StudyAssumption DEF Placed, Worked
<1>2. cur[w].io \notin Receiving \cup Sending \cup Queued
  BY <1>1 DEF Ownership, OneOwner
<1>3. \A k \in 1 .. Len(cq) : cq[k].io # cur[w].io /\ cq[k].io \in Blocks
  BY <1>2 DEF Queued, Placed
<1> QED
  BY <1>1, <1>2, <1>3 DEF Ownership, OneOwner

LEMMA GetCompletionStep ==
    ASSUME IInv, UNCHANGED program, NEW w \in Workers, GetCompletion(w)
    PROVE  IInv'
<1> DEFINE x == Head(cq)
           n == Len(cq)
<1>0. /\ wpc[w] = "get" /\ cq # <<>> /\ cq \in Seq(Completion)
      /\ wpc' = [wpc EXCEPT ![w] = "handle"] /\ cur' = [cur EXCEPT ![w] = x]
      /\ cq' = Tail(cq) /\ wpc \in [Workers -> Labels] /\ cur \in [Workers -> Completion]
      /\ UNCHANGED <<net, mpc, reg, clntArr, info, io, buf, recvs, out, idx>>
  BY DEF GetCompletion, Goto, IInv, TypeOK, Labels
<1>1. Network' /\ Served' = Served
  BY <1>0, NetworkSame DEF IInv
<1>2. /\ n \in Nat /\ n >= 1 /\ x \in Completion /\ x = cq[1]
      /\ cq' \in Seq(Completion) /\ Len(cq') = n - 1
      /\ \A k \in 1 .. n - 1 : cq'[k] = cq[k + 1]
  BY <1>0, HeadTailProperties, LenProperties, EmptySeq
<1> HIDE DEF x, n
<1>3. /\ 1 \in 1 .. Len(cq) /\ x.key \in Conns /\ x.io \in Blocks /\ x.io \in Queued
      /\ x.io # 0
  BY <1>2, StudyAssumption DEF n, IInv, Placed, Queued
<1>4. /\ cur' \in [Workers -> Completion] /\ wpc' \in [Workers -> Labels]
      /\ cur'[w] = x /\ wpc'[w] = "handle" /\ cur[w].io = 0
      /\ \A v \in Workers \ {w} : cur'[v] = cur[v] /\ wpc'[v] = wpc[v]
  BY <1>0, <1>2 DEF Labels, IInv, Placed
<1>5. TypeOK'
  BY <1>0, <1>2, <1>4 DEF Labels, net, IInv, TypeOK, NetTypeOK
<1>6. \A k \in 1 .. Len(cq') : k + 1 \in 1 .. Len(cq) /\ k + 1 # 1 /\ cq'[k] = cq[k + 1]
  BY <1>2 DEF n
<1>7. Placed'
  BY <1>0, <1>3, <1>4, <1>6 DEF IInv, Placed, Echo, Synchronous
<1>8. \A k, l \in 1 .. Len(cq) : cq[k].io = cq[l].io => k = l
  BY DEF IInv, Ownership, OneOwner
<1>9. Queued' = Queued \ {x.io} /\ Worked' = Worked \cup {x.io}
  <2>1. ASSUME NEW b \in Queued' PROVE b \in Queued /\ b # x.io
    <3>1. PICK k \in 1 .. Len(cq') : cq'[k].io = b
      BY DEF Queued
    <3>2. k + 1 \in 1 .. Len(cq) /\ k + 1 # 1 /\ cq[k + 1].io = b
      BY <1>6, <3>1
    <3> QED
      BY <1>2, <1>3, <1>8, <3>2 DEF Queued
  <2>2. ASSUME NEW b \in Queued, b # x.io PROVE b \in Queued'
    <3>1. PICK k \in 1 .. Len(cq) : cq[k].io = b
      BY DEF Queued
    <3>2. k # 1 /\ k - 1 \in 1 .. Len(cq') /\ k - 1 + 1 = k
      BY <1>2, <2>2, <3>1 DEF n
    <3> QED
      BY <1>6, <3>1, <3>2 DEF Queued
  <2>3. Worked' = Worked \cup {x.io}
    BY <1>3, <1>4 DEF Worked
  <2> QED
    BY <2>1, <2>2, <2>3
<1>10. UNCHANGED <<Receiving, Sending, Kept>>
  BY <1>0, <1>3, <1>9 DEF Receiving, Sending, Kept
<1>11. Ownership'
  <2>1. ASSUME NEW k \in 1 .. Len(cq'), NEW l \in 1 .. Len(cq'), cq'[k].io = cq'[l].io
        PROVE  k = l
    <3>1. k + 1 = l + 1
      BY <1>6, <1>8, <2>1
    <3> QED
      BY <3>1
  <2>2. \A v \in Workers : cur[v].io # x.io
    BY <1>3 DEF IInv, Ownership, OneOwner, Worked
  <2>3. \A u, v \in Workers : cur'[u].io = cur'[v].io /\ cur'[v].io # 0 => u = v
    BY <1>4, <2>2 DEF IInv, Ownership, OneOwner
  <2>4. OneOwner'
    BY <1>0, <1>3, <1>9, <1>10, <2>1, <2>3, SMTT(30) DEF IInv, Ownership, OneOwner
  <2>5. OnHeap'
    BY <1>0, <1>3, <1>9, <1>10 DEF IInv, Ownership, OnHeap, Synchronous
  <2> QED
    BY <2>4, <2>5 DEF Ownership
<1>12. OneBearer'
  <2>0. \A k \in 1 .. Len(cq') : IsRead(k)' <=> IsRead(k + 1)
    BY <1>0, <1>6 DEF IsRead
  <2>1. UNCHANGED <<Arming, Awaiting>>
    BY <1>0 DEF Arming, Awaiting, net
  <2>2. ASSUME NEW k \in 1 .. Len(cq'), NEW l \in 1 .. Len(cq'),
               IsRead(k)', IsRead(l)', cq'[k].key = cq'[l].key
        PROVE  k = l
    <3>1. k + 1 = l + 1
      BY <1>6, <2>0, <2>2 DEF IInv, OneBearer
    <3> QED
      BY <3>1
  <2>3. \A v \in Workers \ {w} : v \in Busy' <=> v \in Busy
    BY <1>0, <1>4 DEF Busy, Mode
  <2>4. w \notin Busy /\ (w \in Busy' <=> IsRead(1))
    BY <1>0, <1>2, <1>4 DEF Busy, Mode, IsRead
  <2>5. Arrived' \subseteq Arrived
    BY <1>6, <2>0 DEF Arrived
  <2>6. ASSUME IsRead(1) PROVE x.key \in Arrived /\ x.key \notin Arrived'
    <3>1. x.key \in Arrived
      BY <1>2, <1>3, <2>6 DEF Arrived
    <3>2. ASSUME NEW k \in 1 .. Len(cq'), IsRead(k)', cq'[k].key = x.key PROVE FALSE
      BY <1>2, <1>3, <1>6, <2>0, <2>6, <3>2 DEF IInv, OneBearer
    <3> QED
      BY <3>1, <3>2 DEF Arrived
  <2>7. Serving' \subseteq Serving \cup {x.key} /\ (~IsRead(1) => Serving' \subseteq Serving)
    <3>1. \A v \in Busy' : v \in Workers
      BY DEF Busy
    <3> QED
      BY <1>4, <2>3, <2>4, <3>1 DEF Serving
  <2>8. IsRead(1) => x.key \notin Serving
    BY <2>6 DEF IInv, OneBearer
  <2>9. \A u, v \in Busy' : cur'[u].key = cur'[v].key => u = v
    BY <1>4, <2>3, <2>4, <2>8 DEF IInv, OneBearer, Serving, Busy
  <2>10. /\ Arming' \cap (Awaiting' \cup Arrived' \cup Serving') = {}
         /\ Awaiting' \cap (Arrived' \cup Serving') = {} /\ Arrived' \cap Serving' = {}
         /\ Arming' \cup Awaiting' \cup Arrived' \cup Serving' \subseteq Served'
         /\ \A c \in Awaiting' \cup Arrived' \cup Serving' : info'[c] = "live"
    BY <1>0, <1>1, <2>1, <2>5, <2>6, <2>7 DEF IInv, OneBearer
  <2> QED
    BY <1>0, <2>2, <2>9, <2>10 DEF IInv, OneBearer
<1>13. Contents'
  <2>1. NoneLost'
    BY <1>0, <1>10 DEF net, IInv, Contents, NoneLost, Echo
  <2>2. \A k \in 1 .. Len(cq') : IsRead(k)' <=> IsRead(k + 1)
    BY <1>0, <1>6 DEF IsRead
  <2>3. Filled'
    BY <1>0, <1>2, <1>3, <1>4, <1>6, <1>10, <2>2
       DEF IInv, Contents, Filled, Echo, Synchronous, IsRead, Mode
  <2> QED
    BY <2>1, <2>3 DEF Contents
<1> QED
  BY <1>1, <1>5, <1>7, <1>11, <1>12, <1>13 DEF IInv, Started

\* A worker frees the block it has.
LEMMA Released ==
    ASSUME TypeOK, Placed, Ownership, NEW w \in Workers, wpc[w] = "handle",
           io' = [io EXCEPT ![cur[w].io] = "free"], cur'[w].io = 0,
           \A v \in Workers \ {w} : cur'[v] = cur[v],
           UNCHANGED <<program, recvs, out, cq>>
    PROVE  /\ Ownership' /\ io' \in [Blocks -> {"free", "READ", "WRITE"}]
           /\ UNCHANGED <<Receiving, Sending, Queued>> /\ Worked' = Worked \ {cur[w].io}
           /\ \A b \in Blocks : io'[b] = IF b = cur[w].io THEN "free" ELSE io[b]
           /\ \A k \in 1 .. Len(cq) : io'[cq[k].io] = io[cq[k].io]
           /\ \A v \in Workers \ {w} :
                 wpc[v] = "handle" => cur[v].io \in Blocks /\ io'[cur[v].io] = io[cur[v].io]
<1> DEFINE b == cur[w].io
<1>1. /\ b \in Blocks /\ b # 0 /\ b \in Worked
      /\ \A v \in Workers : cur[v].io = b => v = w
      /\ \A k \in 1 .. Len(cq) : cq[k].io # b /\ cq[k].io \in Blocks
      /\ b \notin Receiving \cup Sending \cup Queued
  BY OtherBlocks
<1>2. /\ io' \in [Blocks -> {"free", "READ", "WRITE"}]
      /\ \A d \in Blocks : io'[d] = IF d = b THEN "free" ELSE io[d]
  BY <1>1 DEF TypeOK
<1> HIDE DEF b
<1>3. UNCHANGED <<Receiving, Sending, Queued>>
  BY DEF Receiving, Sending, Queued
<1>4. Worked' = Worked \ {b}
  BY <1>1 DEF Worked, b
<1>5. Kept \subseteq Blocks
  <2>1. \A c \in Conns : \A k \in 1 .. Len(out[c]) : out[c][k] \in Blocks
    BY ElementOfSeq DEF TypeOK
  <2>2. \A v \in Workers : cur[v].io \in Blocks \cup {0}
    BY DEF TypeOK, Completion
  <2> QED
    BY <2>1, <2>2 DEF Kept, Receiving, Sending, Queued, Worked, TypeOK, Placed
<1>6. OneOwner'
  BY <1>1, <1>3, <1>4 DEF Ownership, OneOwner, b
<1>7. OnHeap'
  BY <1>1, <1>2, <1>3, <1>4, <1>5 DEF Ownership, OnHeap, Synchronous, Kept
<1> QED
  BY <1>1, <1>2, <1>3, <1>4, <1>6, <1>7 DEF Ownership, Placed, b

LEMMA HandleWriteStep ==
    ASSUME IInv, UNCHANGED program, NEW w \in Workers, HandleWrite(w)
    PROVE  IInv'
<1> DEFINE b == cur[w].io
<1>0. /\ wpc[w] = "handle" /\ Mode(w) = "WRITE"
      /\ io' = [io EXCEPT ![b] = "free"] /\ buf' = [buf EXCEPT ![b] = NoUnit]
      /\ wpc' = [wpc EXCEPT ![w] = "get"] /\ cur' = [cur EXCEPT ![w] = None]
      /\ idx' = [idx EXCEPT ![w] = 0]
      /\ wpc \in [Workers -> Labels] /\ cur \in [Workers -> Completion]
      /\ idx \in [Workers -> Nat] /\ buf \in [Blocks -> Unit \cup {NoUnit}]
      /\ UNCHANGED <<net, mpc, reg, clntArr, info, recvs, out, cq>>
  BY DEF HandleWrite, Free, Again, Goto, IInv, TypeOK, Labels
<1>1. Network' /\ Served' = Served
  BY <1>0, NetworkSame DEF IInv
<1>2. /\ cur' \in [Workers -> Completion] /\ wpc' \in [Workers -> Labels]
      /\ idx' \in [Workers -> Nat] /\ buf' \in [Blocks -> Unit \cup {NoUnit}]
      /\ cur'[w] = None /\ wpc'[w] = "get"
      /\ \A v \in Workers \ {w} : cur'[v] = cur[v] /\ wpc'[v] = wpc[v]
      /\ \A d \in Blocks \ {b} : buf'[d] = buf[d]
  <2>1. /\ cur' \in [Workers -> Completion] /\ wpc' \in [Workers -> Labels]
        /\ idx' \in [Workers -> Nat] /\ cur'[w] = None /\ wpc'[w] = "get"
        /\ \A v \in Workers \ {w} : cur'[v] = cur[v] /\ wpc'[v] = wpc[v]
    BY <1>0 DEF Labels, Completion, None
  <2> HIDE DEF b
  <2>2. buf' \in [Blocks -> Unit \cup {NoUnit}] /\ \A d \in Blocks \ {b} : buf'[d] = buf[d]
    BY <1>0
  <2> QED
    BY <2>1, <2>2
<1>3. cur'[w].io = 0
  BY <1>2 DEF None
<1>4. /\ Ownership' /\ io' \in [Blocks -> {"free", "READ", "WRITE"}]
      /\ UNCHANGED <<Receiving, Sending, Queued>> /\ Worked' = Worked \ {b}
      /\ \A d \in Blocks : io'[d] = IF d = b THEN "free" ELSE io[d]
      /\ \A k \in 1 .. Len(cq) : io'[cq[k].io] = io[cq[k].io]
      /\ \A v \in Workers \ {w} :
            wpc[v] = "handle" => cur[v].io \in Blocks /\ io'[cur[v].io] = io[cur[v].io]
  BY <1>0, <1>2, <1>3, Released DEF IInv
<1>5. /\ \A v \in Workers : cur[v].io = b => v = w
      /\ \A k \in 1 .. Len(cq) : cq[k].io # b /\ cq[k].io \in Blocks
      /\ b \notin Receiving \cup Sending \cup Queued /\ b \in Blocks
  BY <1>0, OtherBlocks DEF IInv
<1> HIDE DEF b
<1>6. TypeOK'
  BY <1>0, <1>2, <1>4 DEF Labels, net, IInv, TypeOK, NetTypeOK
<1>7. Placed'
  BY <1>0, <1>2, <1>3 DEF IInv, Placed, Echo, Synchronous
<1>8. \A k \in 1 .. Len(cq) : IsRead(k)' <=> IsRead(k)
  BY <1>0, <1>4 DEF IsRead
<1>9. /\ w \notin Busy /\ Busy' = Busy
      /\ UNCHANGED <<Arming, Awaiting, Arrived, Serving>>
  <2>1. w \notin Busy /\ w \notin Busy'
    BY <1>0, <1>2 DEF Busy
  <2>2. \A v \in Workers \ {w} : v \in Busy' <=> v \in Busy
    BY <1>2, <1>4 DEF Busy, Mode
  <2>3. Busy' = Busy
    BY <2>1, <2>2 DEF Busy
  <2>4. Serving' = Serving
    BY <1>2, <2>1, <2>3 DEF Serving, Busy
  <2> QED
    BY <1>0, <1>8, <2>1, <2>3, <2>4 DEF net, Arming, Awaiting, Arrived
<1>10. OneBearer'
  BY <1>0, <1>1, <1>2, <1>8, <1>9 DEF IInv, OneBearer, Busy
<1>11. Contents'
  <2>1. NoneLost'
    BY <1>0, <1>4, <1>5 DEF net, IInv, Contents, NoneLost, Echo, Kept
  <2>2. \A d \in Sending : d \in Blocks /\ d # b
    <3>1. \A c \in Conns : \A k \in 1 .. Len(out[c]) : out[c][k] \in Blocks
      BY ElementOfSeq DEF IInv, TypeOK
    <3> QED
      BY <1>5, <3>1 DEF Sending
  <2>3. \A v \in Workers \ {w} : wpc[v] = "handle" => cur[v].io \in Blocks \ {b}
    BY <1>4, <1>5
  <2>4. Echo => Filled'
    BY <1>0, <1>2, <1>4, <1>5, <1>8, <2>2, <2>3
       DEF IInv, Contents, Filled, Echo, Synchronous, Mode
  <2>5. ~Synchronous
    BY <1>0, <1>5 DEF IInv, Ownership, OnHeap, Mode, b
  <2>6. ~Echo => Filled'
    BY <2>5 DEF Filled, Echo, Synchronous
  <2> QED
    BY <2>1, <2>4, <2>6 DEF Contents
<1> QED
  BY <1>1, <1>4, <1>6, <1>7, <1>10, <1>11 DEF IInv, Started

LEMMA CopyMessageStep ==
    ASSUME IInv, UNCHANGED program, NEW w \in Workers, CopyMessage(w)
    PROVE  IInv'
<1> DEFINE b == cur[w].io
<1>0. /\ wpc[w] = "handle" /\ Mode(w) = "READ" /\ ~Echo /\ ~Synchronous
      /\ io' = [io EXCEPT ![b] = "free"]
      /\ wpc' = [wpc EXCEPT ![w] = "send"] /\ cur' = [cur EXCEPT ![w].io = 0]
      /\ wpc \in [Workers -> Labels] /\ cur \in [Workers -> Completion]
      /\ UNCHANGED <<net, mpc, reg, clntArr, info, buf, recvs, out, cq, idx>>
  BY DEF CopyMessage, IsMessage, Free, Goto, IInv, TypeOK, Labels
<1>1. Network' /\ Served' = Served
  BY <1>0, NetworkSame DEF IInv
<1>2. /\ cur' \in [Workers -> Completion] /\ wpc' \in [Workers -> Labels]
      /\ cur'[w].io = 0 /\ cur'[w].key = cur[w].key /\ wpc'[w] = "send"
      /\ \A v \in Workers \ {w} : cur'[v] = cur[v] /\ wpc'[v] = wpc[v]
  BY <1>0 DEF Labels, Completion
<1>3. /\ Ownership' /\ io' \in [Blocks -> {"free", "READ", "WRITE"}]
      /\ UNCHANGED <<Receiving, Sending, Queued>> /\ Worked' = Worked \ {b}
      /\ \A k \in 1 .. Len(cq) : io'[cq[k].io] = io[cq[k].io]
      /\ \A v \in Workers \ {w} :
            wpc[v] = "handle" => cur[v].io \in Blocks /\ io'[cur[v].io] = io[cur[v].io]
  BY <1>0, <1>2, Released DEF IInv
<1>4. TypeOK'
  BY <1>0, <1>2, <1>3 DEF Labels, net, IInv, TypeOK, NetTypeOK
<1>5. Placed'
  BY <1>0, <1>2 DEF IInv, Placed, Echo, Synchronous
<1>6. \A k \in 1 .. Len(cq) : IsRead(k)' <=> IsRead(k)
  BY <1>0, <1>3 DEF IsRead
<1>7. Busy' = Busy /\ UNCHANGED <<Arming, Awaiting, Arrived, Serving>>
  <2>1. w \in Busy /\ w \in Busy'
    BY <1>0, <1>2 DEF Busy
  <2>2. \A v \in Workers \ {w} : v \in Busy' <=> v \in Busy
    BY <1>2, <1>3 DEF Busy, Mode
  <2>3. Busy' = Busy
    BY <2>1, <2>2 DEF Busy
  <2>4. Serving' = Serving
    BY <1>2, <2>3 DEF Serving, Busy
  <2> QED
    BY <1>0, <1>6, <2>3, <2>4 DEF net, Arming, Awaiting, Arrived
<1>8. OneBearer'
  BY <1>0, <1>1, <1>2, <1>6, <1>7 DEF IInv, OneBearer, Busy
<1>9. Contents'
  BY <1>0 DEF Contents, Filled, NoneLost, Echo, Synchronous
<1> QED
  BY <1>1, <1>3, <1>4, <1>5, <1>8, <1>9 DEF IInv, Started

\* The socket of a worker that has the right to receive is open.
LEMMA SockOpen ==
    ASSUME IInv, NEW w \in Busy
    PROVE  /\ Sock(w) \in Fds /\ owner[Sock(w)] = cur[w].key
           /\ cur[w].key \in Conns /\ cur[w].key # NoConn
           /\ cur[w].key \in Serving /\ info[cur[w].key] = "live"
<1>1. cur[w].key \in Serving /\ cur[w].key \in Served /\ info[cur[w].key] = "live"
  BY DEF IInv, OneBearer, Serving
<1>2. cur[w].key \in Conns /\ \E f \in Fds : owner[f] = cur[w].key
  BY <1>1 DEF Served
<1> QED
  BY <1>1, <1>2, SocketsAssumption DEF Sock

LEMMA SentBlocks ==
    ASSUME TypeOK
    PROVE  Sending \subseteq Blocks /\ Receiving \subseteq Blocks
<1>1. \A c \in Conns : \A k \in 1 .. Len(out[c]) : out[c][k] \in Blocks
  BY ElementOfSeq DEF TypeOK
<1> QED
  BY <1>1 DEF Sending, Receiving, TypeOK

\* WSASend of a block nobody else has.
LEMMA Posted ==
    ASSUME TypeOK, NEW c \in Conns, NEW b \in Blocks, b \notin Sending,
           out' = [out EXCEPT ![c] = Append(@, b)], OneOwner
    PROVE  /\ out' \in [Conns -> Seq(Blocks)] /\ Sending' = Sending \cup {b}
           /\ \A d, e \in Conns : \A k \in 1 .. Len(out'[d]), l \in 1 .. Len(out'[e]) :
                 out'[d][k] = out'[e][l] => d = e /\ k = l
           /\ \A d \in Conns \ {c} : out'[d] = out[d]
<1> DEFINE n == Len(out[c])
<1>1. /\ out[c] \in Seq(Blocks) /\ out \in [Conns -> Seq(Blocks)] /\ n \in Nat
  BY LenProperties DEF TypeOK
<1>2. /\ Append(out[c], b) \in Seq(Blocks) /\ Len(Append(out[c], b)) = n + 1
      /\ Append(out[c], b)[n + 1] = b
      /\ \A k \in 1 .. n : Append(out[c], b)[k] = out[c][k]
  BY <1>1, AppendProperties
<1>3. /\ out'[c] = Append(out[c], b) /\ \A d \in Conns \ {c} : out'[d] = out[d]
      /\ out' \in [Conns -> Seq(Blocks)]
  BY <1>1, <1>2
<1>4. /\ Len(out'[c]) = n + 1 /\ out'[c][n + 1] = b
      /\ \A k \in 1 .. n : out'[c][k] = out[c][k]
  BY <1>2, <1>3
<1> HIDE DEF n
<1>5. ASSUME NEW d \in Conns, NEW k \in 1 .. Len(out'[d])
      PROVE  \/ k \in 1 .. Len(out[d]) /\ out'[d][k] = out[d][k]
             \/ d = c /\ k = n + 1 /\ out'[d][k] = b
  <2>1. CASE d = c
    BY <1>1, <1>4, <2>1 DEF n
  <2>2. CASE d # c
    BY <1>3, <2>2
  <2> QED
    BY <2>1, <2>2
<1>6. ASSUME NEW d \in Conns, NEW k \in 1 .. Len(out[d])
      PROVE  k \in 1 .. Len(out'[d]) /\ out'[d][k] = out[d][k]
  <2>1. CASE d = c
    BY <1>1, <1>4, <2>1 DEF n
  <2>2. CASE d # c
    BY <1>3, <2>2
  <2> QED
    BY <2>1, <2>2
<1>7. Sending' = Sending \cup {b}
  <2>1. \A x \in Sending' : x \in Sending \cup {b}
    BY <1>5 DEF Sending
  <2>2. \A x \in Sending : x \in Sending'
    BY <1>6 DEF Sending
  <2>3. b \in Sending'
    BY <1>1, <1>4 DEF Sending
  <2> QED
    BY <2>1, <2>2, <2>3
<1>8. \A d \in Conns : \A k \in 1 .. Len(out[d]) : out[d][k] # b
  BY DEF Sending
<1>9. ASSUME NEW d \in Conns, NEW e \in Conns,
             NEW k \in 1 .. Len(out'[d]), NEW l \in 1 .. Len(out'[e]),
             out'[d][k] = out'[e][l]
      PROVE  d = e /\ k = l
  BY <1>5, <1>8, <1>9 DEF OneOwner
<1> QED
  BY <1>3, <1>7, <1>9

LEMMA EchoMessageStep ==
    ASSUME IInv, UNCHANGED program, NEW w \in Workers, EchoMessage(w)
    PROVE  IInv'
<1> DEFINE b == cur[w].io
           c == cur[w].key
<1>0. /\ wpc[w] = "handle" /\ Mode(w) = "READ" /\ cur[w].bytes > 0 /\ Echo
      /\ io' = [io EXCEPT ![b] = "WRITE"] /\ PostSend(Sock(w), b)
      /\ wpc' = [wpc EXCEPT ![w] = "rearm"] /\ cur' = [cur EXCEPT ![w].io = 0]
      /\ wpc \in [Workers -> Labels] /\ cur \in [Workers -> Completion]
      /\ io \in [Blocks -> {"free", "READ", "WRITE"}]
      /\ UNCHANGED <<net, mpc, reg, clntArr, info, buf, recvs, cq, idx>>
  BY DEF EchoMessage, IsMessage, Goto, IInv, TypeOK, Labels
<1>1. Network' /\ Served' = Served /\ UNCHANGED <<peer, owner>>
  BY <1>0, NetworkSame DEF IInv, net
<1>2. /\ cur' \in [Workers -> Completion] /\ wpc' \in [Workers -> Labels]
      /\ cur'[w].io = 0 /\ cur'[w].key = cur[w].key /\ wpc'[w] = "rearm"
      /\ \A v \in Workers \ {w} : cur'[v] = cur[v] /\ wpc'[v] = wpc[v]
  BY <1>0 DEF Labels, Completion
<1>3. /\ b \in Blocks /\ b # 0 /\ b \in Worked
      /\ \A v \in Workers : cur[v].io = b => v = w
      /\ \A k \in 1 .. Len(cq) : cq[k].io # b /\ cq[k].io \in Blocks
      /\ b \notin Receiving \cup Sending \cup Queued
  BY <1>0, OtherBlocks DEF IInv
<1>4. w \in Busy
  BY <1>0 DEF Busy
<1>5. c \in Conns /\ info[c] = "live" /\ owner[Sock(w)] = c /\ c # NoConn
  BY <1>4, SockOpen
<1>6. buf[b] \in Unit
  BY <1>0 DEF IInv, Contents, Filled
<1>7. out' = IF peer[c] = "reset" THEN out ELSE [out EXCEPT ![c] = Append(@, b)]
  BY <1>0, <1>5 DEF PostSend
<1>8. /\ io' \in [Blocks -> {"free", "READ", "WRITE"}]
      /\ \A d \in Blocks : io'[d] = IF d = b THEN "WRITE" ELSE io[d]
  BY <1>0, <1>3
<1> HIDE DEF b, c
<1>9. /\ out' \in [Conns -> Seq(Blocks)]
      /\ Sending' = IF peer[c] = "reset" THEN Sending ELSE Sending \cup {b}
      /\ \A d, e \in Conns : \A k \in 1 .. Len(out'[d]), l \in 1 .. Len(out'[e]) :
            out'[d][k] = out'[e][l] => d = e /\ k = l
      /\ \A d \in Conns \ {c} : out'[d] = out[d]
  <2>1. CASE peer[c] = "reset"
    BY <1>7, <2>1 DEF IInv, TypeOK, Ownership, OneOwner, Sending
  <2>2. CASE peer[c] # "reset"
    <3>1. out' = [out EXCEPT ![c] = Append(@, b)] /\ b \notin Sending
      BY <1>3, <1>7, <2>2
    <3>2. TypeOK /\ OneOwner
      BY DEF IInv, Ownership
    <3>3. /\ out' \in [Conns -> Seq(Blocks)] /\ Sending' = Sending \cup {b}
          /\ \A d, e \in Conns : \A k \in 1 .. Len(out'[d]), l \in 1 .. Len(out'[e]) :
                out'[d][k] = out'[e][l] => d = e /\ k = l
          /\ \A d \in Conns \ {c} : out'[d] = out[d]
      BY <1>3, <1>5, <3>1, <3>2, Posted
    <3> QED
      BY <2>2, <3>3
  <2> QED
    BY <2>1, <2>2
<1>10. TypeOK'
  BY <1>0, <1>2, <1>8, <1>9 DEF Labels, net, IInv, TypeOK, NetTypeOK
<1>11. Placed'
  BY <1>0, <1>2 DEF IInv, Placed, Echo, Synchronous
<1>12. /\ UNCHANGED <<Receiving, Queued>> /\ Worked' = Worked \ {b}
  <2>1. UNCHANGED <<Receiving, Queued>>
    BY <1>0 DEF Receiving, Queued
  <2>2. Worked' = Worked \ {b}
    BY <1>2, <1>3 DEF Worked, b
  <2> QED
    BY <2>1, <2>2
<1>13. Ownership'
  <2>1. \A u, v \in Workers : cur'[u].io = cur'[v].io /\ cur'[v].io # 0 => u = v
    BY <1>2 DEF IInv, Ownership, OneOwner
  <2>2. OneOwner'
    BY <1>0, <1>3, <1>9, <1>12, <2>1 DEF IInv, Ownership, OneOwner
  <2>3. Queued \cup Worked \subseteq Blocks /\ Sending \subseteq Blocks /\ Receiving \subseteq Blocks
    BY SentBlocks DEF IInv, Placed, Queued, Worked, TypeOK, Completion
  <2>4. ~Synchronous
    BY <1>0 DEF Synchronous, Echo
  <2>5. OnHeap'
    BY <1>0, <1>3, <1>8, <1>9, <1>12, <2>3, <2>4 DEF IInv, Ownership, OnHeap, Synchronous
  <2> QED
    BY <2>2, <2>5 DEF Ownership
<1>14. \A k \in 1 .. Len(cq) : IsRead(k)' <=> IsRead(k)
  BY <1>0, <1>3, <1>8 DEF IsRead
<1>15. Busy' = Busy /\ UNCHANGED <<Arming, Awaiting, Arrived, Serving>>
  <2>1. w \in Busy'
    BY <1>0, <1>2 DEF Busy
  <2>2. \A v \in Workers \ {w} : wpc[v] = "handle" => cur[v].io \in Blocks \ {b}
    BY <1>3 DEF IInv, Placed
  <2>3. \A v \in Workers \ {w} : v \in Busy' <=> v \in Busy
    BY <1>2, <1>8, <2>2 DEF Busy, Mode
  <2>4. Busy' = Busy
    BY <1>4, <2>1, <2>3 DEF Busy
  <2>5. Serving' = Serving
    BY <1>2, <2>4 DEF Serving, Busy
  <2> QED
    BY <1>0, <1>1, <1>14, <2>4, <2>5 DEF Arming, Awaiting, Arrived
<1>16. OneBearer'
  BY <1>0, <1>1, <1>2, <1>14, <1>15 DEF IInv, OneBearer, Busy
<1>17. Contents'
  <2>1. \A v \in Workers \ {w} : wpc[v] = "handle" => cur[v].io \in Blocks \ {b}
    BY <1>3 DEF IInv, Placed
  <2>2. Filled'
    BY <1>0, <1>2, <1>3, <1>6, <1>8, <1>9, <1>14, <2>1
       DEF IInv, Contents, Filled, Echo, Synchronous, Mode
  <2>3. \A d \in Conns : out'[d] # <<>> => info[d] # "none"
    BY <1>0, <1>5, <1>9 DEF IInv, Contents, NoneLost
  <2>4. \A d \in Blocks : io'[d] # "free" => d = b \/ io[d] # "free"
    BY <1>8
  <2>5. Kept \ {b} \subseteq Kept' /\ (peer[c] # "reset" => b \in Kept')
    BY <1>9, <1>12 DEF Kept
  <2>6. NoneLost'
    BY <1>0, <1>1, <1>5, <2>3, <2>4, <2>5 DEF IInv, Contents, NoneLost, Echo
  <2> QED
    BY <2>2, <2>6 DEF Contents
<1> QED
  BY <1>1, <1>10, <1>11, <1>13, <1>16, <1>17 DEF IInv, Started

LEMMA HandleEndStep ==
    ASSUME IInv, UNCHANGED program, NEW w \in Workers, HandleEnd(w)
    PROVE  IInv'
<1> DEFINE b == cur[w].io
           c == cur[w].key
           f == Sock(w)
           n == Len(cq)
<1>0. /\ wpc[w] = "handle" /\ Mode(w) = "READ"
      /\ CloseFd(f) /\ out' = [out EXCEPT ![c] = <<>>]
      /\ cq' = cq \o Reports(c, out[c]) /\ info' = [info EXCEPT ![c] = "freed"]
      /\ io' = [io EXCEPT ![b] = "free"]
      /\ cur' = [cur EXCEPT ![w] = None]
      /\ \E l \in {"get", "remove"} : wpc' = [wpc EXCEPT ![w] = l]
      /\ \E m \in {0, f} : idx' = [idx EXCEPT ![w] = m]
      /\ UNCHANGED <<peer, backlog, sent, taken, got, since,
                     mpc, reg, clntArr, buf, recvs>>
  BY DEF HandleEnd, Free, Again, Goto
<1>1. /\ b \in Blocks /\ b # 0 /\ b \in Worked
      /\ \A v \in Workers : cur[v].io = b => v = w
      /\ \A k \in 1 .. n : cq[k].io # b /\ cq[k].io \in Blocks
      /\ b \notin Receiving \cup Sending \cup Queued
  BY <1>0, OtherBlocks DEF IInv
<1>2. w \in Busy
  BY <1>0 DEF Busy
<1>3. /\ f \in Fds /\ owner[f] = c /\ c \in Conns /\ c # NoConn
      /\ c \in Serving /\ info[c] = "live"
  BY <1>2, SockOpen
<1>4. /\ Served' = Served \ {c} /\ owner' \in [Fds -> Conns \cup {NoConn}]
      /\ owner' = [owner EXCEPT ![f] = NoConn] /\ owner \in [Fds -> Conns \cup {NoConn}]
  BY <1>0, <1>3, ServedClose DEF IInv, Network, NetTyped, CloseFd
<1>5. Network'
  <2>1. NetTyped'
    BY <1>0, <1>4 DEF IInv, Network, NetTyped
  <2> QED
    BY <1>0, <1>3, <2>1, NetworkOn DEF IInv
<1> DEFINE s == out[c]
<1>6. s \in Seq(Blocks) /\ cq \in Seq(Completion) /\ \A k \in 1 .. Len(s) : s[k] \in Blocks
  <2>1. s \in Seq(Blocks) /\ cq \in Seq(Completion)
    BY <1>3 DEF IInv, TypeOK
  <2> HIDE DEF s
  <2> QED
    BY <2>1, ElementOfSeq
<1>7. /\ cq' \in Seq(Completion) /\ n \in Nat /\ Len(s) \in Nat /\ Len(cq') = n + Len(s)
      /\ \A k \in 1 .. n : cq'[k] = cq[k]
      /\ \A k \in 1 .. Len(s) : cq'[n + k] = [key |-> c, io |-> s[k], bytes |-> 1]
  <2>1. cq' = cq \o Reports(c, s) /\ c \in Conns /\ info[c] = "live"
    BY <1>0, <1>3
  <2> HIDE DEF c, s, n
  <2>2. /\ cq' \in Seq(Completion) /\ Len(cq) \in Nat /\ Len(s) \in Nat
        /\ Len(cq') = IF info[c] = "none" THEN Len(cq) ELSE Len(cq) + Len(s)
        /\ \A k \in 1 .. Len(cq) : cq'[k] = cq[k]
        /\ info[c] # "none" => \A k \in 1 .. Len(s) :
              cq'[Len(cq) + k] = [key |-> c, io |-> s[k], bytes |-> 1]
    BY <1>6, <2>1, ReportsAppended
  <2>3. Len(cq') = Len(cq) + Len(s) /\ info[c] # "none"
    BY <2>1, <2>2
  <2> QED
    BY <2>2, <2>3, Zenon DEF n
<1>8. /\ io \in [Blocks -> {"free", "READ", "WRITE"}]
      /\ wpc \in [Workers -> Labels] /\ cur \in [Workers -> Completion]
      /\ idx \in [Workers -> Nat] /\ out \in [Conns -> Seq(Blocks)]
      /\ info \in [Conns -> {"none", "live", "freed"}]
  BY DEF IInv, TypeOK, Labels
<1> HIDE DEF b, c, f
<1>9. /\ io' \in [Blocks -> {"free", "READ", "WRITE"}]
      /\ \A d \in Blocks : io'[d] = IF d = b THEN "free" ELSE io[d]
      /\ out' \in [Conns -> Seq(Blocks)] /\ out'[c] = <<>>
      /\ \A d \in Conns \ {c} : out'[d] = out[d]
      /\ info' \in [Conns -> {"none", "live", "freed"}] /\ info'[c] = "freed"
      /\ \A d \in Conns \ {c} : info'[d] = info[d]
  BY <1>0, <1>1, <1>3, <1>8
<1>10. /\ cur' \in [Workers -> Completion] /\ cur'[w] = None /\ None.io = 0
       /\ wpc' \in [Workers -> Labels] /\ wpc'[w] \in {"get", "remove"}
       /\ \A v \in Workers \ {w} : cur'[v] = cur[v] /\ wpc'[v] = wpc[v]
       /\ idx' \in [Workers -> Nat]
  <2>1. None \in Completion /\ None.io = 0
    BY DEF None, Completion
  <2>2. f \in Nat
    BY <1>3, SocketsAssumption
  <2> QED
    BY <1>0, <1>8, <2>1, <2>2 DEF Labels
<1>11. TypeOK'
  BY <1>0, <1>4, <1>7, <1>9, <1>10 DEF Labels, IInv, TypeOK, NetTypeOK
<1>12. ASSUME NEW k \in 1 .. Len(cq')
       PROVE  \/ k \in 1 .. n /\ cq'[k] = cq[k]
              \/ /\ k - n \in 1 .. Len(s) /\ cq'[k].io = s[k - n] /\ cq'[k].key = c
                 /\ s[k - n] \in Sending
  <2>1. CASE k <= n
    BY <1>7, <2>1
  <2>2. CASE k > n
    <3>1. k - n \in 1 .. Len(s) /\ n + (k - n) = k
      BY <1>7, <2>2
    <3>2. cq'[k] = [key |-> c, io |-> s[k - n], bytes |-> 1]
      BY <1>7, <3>1
    <3> QED
      BY <1>3, <3>1, <3>2 DEF Sending
  <2> QED
    BY <1>7, <2>1, <2>2
<1>13. ASSUME NEW k \in 1 .. Len(s)
       PROVE  n + k \in 1 .. Len(cq') /\ cq'[n + k].io = s[k]
  <2>1. n + k \in 1 .. Len(cq')
    BY <1>7
  <2>2. cq'[n + k] = [key |-> c, io |-> s[k], bytes |-> 1]
    BY <1>7
  <2> QED
    BY <2>1, <2>2
<1>14. \A k \in 1 .. n : k \in 1 .. Len(cq') /\ cq'[k] = cq[k]
  BY <1>7
<1> DEFINE S == {s[k] : k \in 1 .. Len(s)}
<1>15. S \subseteq Sending /\ b \notin S
  BY <1>1, <1>3 DEF Sending
<1>16. /\ Queued' = Queued \cup S /\ Sending' \subseteq Sending \ S /\ Sending \ S \subseteq Sending'
       /\ Worked' = Worked \ {b} /\ Receiving' = Receiving
  <2>1. \A x \in Queued' : x \in Queued \cup S
    BY <1>12 DEF Queued
  <2>2. \A x \in Queued : x \in Queued'
    BY <1>14 DEF Queued
  <2>3. \A x \in S : x \in Queued'
    BY <1>13 DEF Queued
  <2>4. ASSUME NEW x \in Sending' PROVE x \in Sending \ S
    <3>1. PICK d \in Conns : \E k \in 1 .. Len(out'[d]) : out'[d][k] = x
      BY DEF Sending
    <3>2. d # c /\ out'[d] = out[d]
      BY <1>9, <3>1
    <3>3. x \in Sending
      BY <3>1, <3>2 DEF Sending
    <3>4. \A l \in 1 .. Len(out[c]) : out[c][l] # x
      BY <1>3, <3>1, <3>2 DEF IInv, Ownership, OneOwner
    <3> QED
      BY <3>3, <3>4
  <2>5. ASSUME NEW x \in Sending, x \notin S PROVE x \in Sending'
    <3>1. PICK d \in Conns : \E k \in 1 .. Len(out[d]) : out[d][k] = x
      BY DEF Sending
    <3>2. d # c
      BY <2>5, <3>1
    <3> QED
      BY <1>9, <3>1, <3>2 DEF Sending
  <2>6. Worked' = Worked \ {b}
    BY <1>1, <1>10 DEF Worked, b
  <2>7. Receiving' = Receiving
    BY <1>0 DEF Receiving
  <2> QED
    BY <2>1, <2>2, <2>3, <2>4, <2>5, <2>6, <2>7
<1>17. Placed'
  <2>1. \A k \in 1 .. Len(cq') : cq'[k].key \in Conns /\ cq'[k].io \in Blocks
    BY <1>3, <1>6, <1>12 DEF IInv, Placed
  <2> QED
    BY <1>0, <1>10, <2>1 DEF IInv, Placed, Echo, Synchronous
<1>18. \A k \in 1 .. Len(s), x \in Queued : s[k] # x
  BY <1>15 DEF IInv, Ownership, OneOwner
<1> HIDE DEF s, S
<1>19. Ownership'
  <2>1. \A u, v \in Workers : cur'[u].io = cur'[v].io /\ cur'[v].io # 0 => u = v
    BY <1>10 DEF IInv, Ownership, OneOwner
  <2>2. ASSUME NEW k \in 1 .. Len(cq'), NEW l \in 1 .. Len(cq'), cq'[k].io = cq'[l].io
        PROVE  k = l
    <3>1. \A j \in 1 .. n : cq[j].io \in Queued
      BY DEF Queued
    <3>2. CASE k \in 1 .. n /\ l \in 1 .. n
      BY <1>14, <2>2, <3>2 DEF IInv, Ownership, OneOwner
    <3>3. CASE k \notin 1 .. n /\ l \notin 1 .. n
      <4>1. s[k - n] = s[l - n] /\ k - n \in 1 .. Len(s) /\ l - n \in 1 .. Len(s)
        BY <1>12, <2>2, <3>3
      <4>2. k - n = l - n
        BY <1>3, <4>1 DEF s, IInv, Ownership, OneOwner
      <4> QED
        BY <1>7, <4>2
    <3>4. CASE k \in 1 .. n /\ l \notin 1 .. n
      BY <1>12, <1>14, <1>18, <2>2, <3>1, <3>4
    <3>5. CASE k \notin 1 .. n /\ l \in 1 .. n
      BY <1>12, <1>14, <1>18, <2>2, <3>1, <3>5
    <3> QED
      BY <3>2, <3>3, <3>4, <3>5
  <2>3. ASSUME NEW d \in Conns, NEW e \in Conns,
               NEW k \in 1 .. Len(out'[d]), NEW l \in 1 .. Len(out'[e]), out'[d][k] = out'[e][l]
        PROVE  d = e /\ k = l
    <3>0. \A j \in 1 .. Len(out'[c]) : FALSE
      BY <1>9
    <3>1. d # c /\ e # c
      BY <3>0
    <3>2. out'[d] = out[d] /\ out'[e] = out[e]
      BY <1>9, <3>1
    <3>3. k \in 1 .. Len(out[d]) /\ l \in 1 .. Len(out[e]) /\ out[d][k] = out[e][l]
      BY <2>3, <3>2
    <3> QED
      BY <3>3 DEF IInv, Ownership, OneOwner
  <2>4. OneOwner'
    BY <1>0, <1>15, <1>16, <2>1, <2>2, <2>3 DEF IInv, Ownership, OneOwner
  <2>5. Queued \cup Worked \subseteq Blocks /\ Sending \subseteq Blocks /\ Receiving \subseteq Blocks
    BY SentBlocks DEF IInv, Placed, Queued, Worked, TypeOK, Completion
  <2>6. OnHeap'
    BY <1>0, <1>1, <1>9, <1>15, <1>16, <2>5 DEF IInv, Ownership, OnHeap, Synchronous
  <2> QED
    BY <2>4, <2>6 DEF Ownership
<1>20. /\ \A k \in 1 .. n : IsRead(k)' <=> IsRead(k)
       /\ \A k \in 1 .. Len(cq') : IsRead(k)' => k \in 1 .. n
  <2>1. \A k \in 1 .. n : IsRead(k)' <=> IsRead(k)
    BY <1>1, <1>9, <1>14 DEF IsRead
  <2>2. \A x \in Sending : io'[x] # "READ"
    BY <1>9, SentBlocks DEF IInv, Ownership, OnHeap
  <2> QED
    BY <1>12, <2>1, <2>2 DEF IsRead
<1>21. /\ Busy' = Busy \ {w} /\ Serving' \subseteq Serving \ {c}
       /\ Arrived' = Arrived /\ UNCHANGED <<Arming, Awaiting>>
  <2>1. w \notin Busy'
    BY <1>10 DEF Busy
  <2>2. \A v \in Workers \ {w} : wpc[v] = "handle" => cur[v].io \in Blocks \ {b}
    BY <1>1 DEF IInv, Placed
  <2>3. \A v \in Workers \ {w} : v \in Busy' <=> v \in Busy
    BY <1>9, <1>10, <2>2 DEF Busy, Mode
  <2>4. Busy' = Busy \ {w}
    BY <2>1, <2>3 DEF Busy
  <2>5. \A v \in Busy \ {w} : cur[v].key # c /\ v \in Workers
    BY <1>2 DEF IInv, OneBearer, c, Busy
  <2>6. Serving' \subseteq Serving \ {c}
    BY <1>10, <2>4, <2>5 DEF Serving
  <2>7. Arrived' = Arrived
    BY <1>14, <1>20 DEF Arrived
  <2>8. Arming' = Arming
    <3>1. CASE mpc = "accept"
      BY <1>0, <3>1 DEF Arming
    <3>2. CASE mpc # "accept"
      <4>1. owner[reg] \in Arming /\ owner[reg] # c /\ reg \in Fds
        BY <1>3, <3>2 DEF Arming, IInv, OneBearer, Placed
      <4> QED
        BY <1>0, <1>3, <1>4, <3>2, <4>1 DEF Arming
    <3> QED
      BY <3>1, <3>2
  <2> QED
    BY <1>0, <2>4, <2>6, <2>7, <2>8 DEF Awaiting
<1>22. OneBearer'
  <2>1. c \notin Arming \cup Awaiting \cup Arrived \cup Serving'
    BY <1>3, <1>21 DEF IInv, OneBearer
  <2>2. \A d \in Awaiting \cup Arrived \cup Serving' : info'[d] = "live"
    <3>1. Awaiting \cup Arrived \cup Serving' \subseteq Conns
      BY <1>21 DEF IInv, OneBearer, Served
    <3> QED
      BY <1>9, <1>21, <2>1, <3>1 DEF IInv, OneBearer
  <2>3. \A k, l \in 1 .. Len(cq') : IsRead(k)' /\ IsRead(l)' /\ cq'[k].key = cq'[l].key => k = l
    BY <1>14, <1>20 DEF IInv, OneBearer
  <2>4. \A u, v \in Busy' : cur'[u].key = cur'[v].key => u = v
    BY <1>10, <1>21 DEF IInv, OneBearer, Busy
  <2>5. /\ Arming' \cap (Awaiting' \cup Arrived' \cup Serving') = {}
        /\ Awaiting' \cap (Arrived' \cup Serving') = {} /\ Arrived' \cap Serving' = {}
        /\ Arming' \cup Awaiting' \cup Arrived' \cup Serving' \subseteq Served'
    BY <1>4, <1>21, <2>1 DEF IInv, OneBearer
  <2> QED
    BY <1>0, <1>21, <2>2, <2>3, <2>4, <2>5 DEF IInv, OneBearer
<1>23. Contents'
  <2>1. \A v \in Workers \ {w} : wpc[v] = "handle" => cur[v].io \in Blocks \ {b}
    BY <1>1 DEF IInv, Placed
  <2>2. Filled'
    <3>1. Echo => \A x \in Sending' : buf'[x] \in Unit
      BY <1>0, <1>16 DEF IInv, Contents, Filled
    <3>2. Echo \/ Synchronous =>
             /\ \A k \in 1 .. Len(cq') :
                   IsRead(k)' /\ cq'[k].bytes > 0 => buf'[cq'[k].io] \in Unit
             /\ \A v \in Workers :
                   wpc'[v] = "handle" /\ Mode(v)' = "READ" /\ cur'[v].bytes > 0
                   => buf'[cur'[v].io] \in Unit
      BY <1>0, <1>9, <1>10, <1>14, <1>20, <2>1 DEF IInv, Contents, Filled, Mode
    <3>3. Synchronous => \A v \in Workers : wpc'[v] = "send" => buf'[cur'[v].io] \in Unit
      BY <1>0, <1>10 DEF IInv, Contents, Filled
    <3> QED
      BY <3>1, <3>2, <3>3 DEF Filled, Echo, Synchronous
  <2>3. \A d \in Conns : out'[d] # <<>> => info'[d] # "none"  \/ ~Echo
    BY <1>9 DEF IInv, Contents, NoneLost
  <2>4. Kept \ {b} \subseteq Kept'
    BY <1>15, <1>16 DEF Kept
  <2>5. NoneLost'
    BY <1>0, <1>9, <2>3, <2>4 DEF IInv, Contents, NoneLost, Echo
  <2> QED
    BY <2>2, <2>5 DEF Contents
<1> QED
  BY <1>5, <1>11, <1>17, <1>19, <1>22, <1>23 DEF IInv, Started

-----------------------------------------------------------------------------
(* The steps that take a new block.                                          *)

LEMMA KeptBlocks == ASSUME TypeOK, Placed PROVE Kept \subseteq Blocks
<1>1. Queued \subseteq Blocks /\ Worked \subseteq Blocks
  BY DEF Placed, Queued, Worked, TypeOK, Completion
<1> QED
  BY <1>1, SentBlocks DEF Kept

LEMMA Allocated ==
    ASSUME TypeOK, Placed, Ownership, NEW m \in {"READ", "WRITE"}, Malloc(m)
    PROVE  /\ NewBlock \in Blocks \ Kept /\ NewBlock # 0
           /\ io' \in [Blocks -> {"free", "READ", "WRITE"}]
           /\ \A b \in Blocks : io'[b] = IF b = NewBlock THEN m ELSE io[b]
           /\ \A k \in 1 .. Len(cq) : io'[cq[k].io] = io[cq[k].io]
           /\ \A v \in Workers : wpc[v] = "handle" => io'[cur[v].io] = io[cur[v].io]
<1>1. /\ NewBlock \in Blocks /\ io[NewBlock] = "free"
      /\ io' = [io EXCEPT ![NewBlock] = m] /\ io \in [Blocks -> {"free", "READ", "WRITE"}]
  BY DEF Malloc, TypeOK
<1>2. NewBlock \notin Kept
  BY <1>1 DEF Kept, Ownership, OnHeap
<1> HIDE DEF NewBlock
<1>3. /\ io' \in [Blocks -> {"free", "READ", "WRITE"}]
      /\ \A b \in Blocks : io'[b] = IF b = NewBlock THEN m ELSE io[b]
  BY <1>1
<1>4. NewBlock # 0
  BY <1>1, StudyAssumption
<1>5. \A k \in 1 .. Len(cq) : cq[k].io \in Blocks /\ cq[k].io # NewBlock
  BY <1>2 DEF Placed, Kept, Queued
<1>6. \A v \in Workers : wpc[v] = "handle" => cur[v].io \in Blocks /\ cur[v].io # NewBlock
  BY <1>2, StudyAssumption DEF Placed, Kept, Worked
<1> QED
  BY <1>1, <1>2, <1>3, <1>4, <1>5, <1>6

\* WSARecv with a block nobody else has, on a connection that has none.
LEMMA Awaited ==
    ASSUME TypeOK, OneOwner, OneBearer, NEW c \in Conns, c \notin Awaiting,
           NEW b \in Blocks, b \notin Receiving, PostReceive(c, b)
    PROVE  /\ recvs' \in [Conns -> SUBSET Blocks]
           /\ Receiving' = IF peer[c] = "reset" THEN Receiving ELSE Receiving \cup {b}
           /\ Awaiting' = IF peer[c] = "reset" THEN Awaiting ELSE Awaiting \cup {c}
           /\ \A d, e \in Conns : \A x \in recvs'[d] : x \in recvs'[e] => d = e
           /\ \A d \in Conns : \A x, y \in recvs'[d] : x = y
<1>0. recvs \in [Conns -> SUBSET Blocks] /\ recvs[c] = {}
  BY DEF TypeOK, Awaiting
<1>1. CASE peer[c] = "reset"
  <2>1. recvs' = recvs
    BY <1>1 DEF PostReceive
  <2> QED
    BY <1>0, <1>1, <2>1 DEF Receiving, Awaiting, OneOwner, OneBearer
<1>2. CASE peer[c] # "reset"
  <2>1. /\ recvs' \in [Conns -> SUBSET Blocks] /\ recvs'[c] = {b}
        /\ \A d \in Conns \ {c} : recvs'[d] = recvs[d]
    BY <1>0, <1>2 DEF PostReceive
  <2>2. \A d \in Conns : b \notin recvs[d]
    BY DEF Receiving
  <2>3. Receiving' = Receiving \cup {b}
    BY <1>0, <2>1 DEF Receiving
  <2>4. Awaiting' = Awaiting \cup {c}
    BY <1>0, <2>1 DEF Awaiting
  <2>5. \A d, e \in Conns : \A x \in recvs'[d] : x \in recvs'[e] => d = e
    BY <2>1, <2>2 DEF OneOwner
  <2>6. \A d \in Conns : \A x, y \in recvs'[d] : x = y
    BY <2>1 DEF OneBearer
  <2> QED
    BY <1>2, <2>1, <2>3, <2>4, <2>5, <2>6
<1> QED
  BY <1>1, <1>2

LEMMA ArmStep == ASSUME IInv, UNCHANGED program, Arm PROVE IInv'
<1> DEFINE b == NewBlock
           c == owner[reg]
<1>0. /\ mpc = "arm" /\ mpc' = "accept" /\ reg' = Serv
      /\ info' = [info EXCEPT ![c] = "live"]
      /\ Malloc("READ") /\ PostReceive(c, b)
      /\ info \in [Conns -> {"none", "live", "freed"}]
      /\ UNCHANGED <<net, clntArr, buf, out, cq, wpc, cur, idx>>
  BY DEF Arm, IInv, TypeOK
<1>1. Network' /\ Served' = Served /\ UNCHANGED <<peer, owner>>
  BY <1>0, NetworkSame DEF IInv, net
<1>2. /\ Arming = {c} /\ Arming' = {} /\ c \in Served /\ c \in Conns
      /\ c \notin Awaiting \cup Arrived \cup Serving
  BY <1>0 DEF Arming, IInv, OneBearer, Served
<1>3. /\ b \in Blocks \ Kept /\ b # 0
      /\ io' \in [Blocks -> {"free", "READ", "WRITE"}]
      /\ \A d \in Blocks : io'[d] = IF d = b THEN "READ" ELSE io[d]
      /\ \A k \in 1 .. Len(cq) : io'[cq[k].io] = io[cq[k].io]
      /\ \A v \in Workers : wpc[v] = "handle" => io'[cur[v].io] = io[cur[v].io]
  BY <1>0, Allocated DEF IInv
<1>4. /\ recvs' \in [Conns -> SUBSET Blocks]
      /\ Receiving' = IF peer[c] = "reset" THEN Receiving ELSE Receiving \cup {b}
      /\ Awaiting' = IF peer[c] = "reset" THEN Awaiting ELSE Awaiting \cup {c}
      /\ \A d, e \in Conns : \A x \in recvs'[d] : x \in recvs'[e] => d = e
      /\ \A d \in Conns : \A x, y \in recvs'[d] : x = y
  <2>1. b \in Blocks /\ b \notin Receiving
    BY <1>3 DEF Kept
  <2> QED
    BY <1>0, <1>2, <2>1, Awaited DEF IInv, Ownership
<1> HIDE DEF b, c
<1>5. /\ info' \in [Conns -> {"none", "live", "freed"}]
      /\ info'[c] = "live" /\ \A d \in Conns \ {c} : info'[d] = info[d]
  BY <1>0, <1>2
<1>6. TypeOK'
  BY <1>0, <1>1, <1>3, <1>4, <1>5 DEF net, IInv, TypeOK, NetTypeOK
<1>7. Placed'
  BY <1>0 DEF IInv, Placed, Echo, Synchronous
<1>8. UNCHANGED <<Sending, Queued, Worked>>
  BY <1>0 DEF Sending, Queued, Worked
<1>9. Ownership'
  <2>1. OneOwner'
    BY <1>0, <1>3, <1>4, <1>8 DEF IInv, Ownership, OneOwner, Kept
  <2>2. Kept \subseteq Blocks
    BY KeptBlocks DEF IInv
  <2>3. OnHeap'
    BY <1>3, <1>4, <1>8, <2>2 DEF IInv, Ownership, OnHeap, Synchronous, Kept
  <2> QED
    BY <2>1, <2>3 DEF Ownership
<1>10. \A k \in 1 .. Len(cq) : IsRead(k)' <=> IsRead(k)
  BY <1>0, <1>3 DEF IsRead
<1>11. UNCHANGED <<Busy, Arrived, Serving>>
  <2>1. Busy' = Busy
    BY <1>0, <1>3 DEF Busy, Mode
  <2> QED
    BY <1>0, <1>10, <2>1 DEF Arrived, Serving
<1>12. OneBearer'
  <2>1. Awaiting \cup Arrived \cup Serving \subseteq Conns
    BY DEF IInv, OneBearer, Served
  <2> QED
    BY <1>0, <1>1, <1>2, <1>4, <1>5, <1>10, <1>11, <2>1 DEF IInv, OneBearer
<1>13. Contents'
  <2>1. Filled'
    BY <1>0, <1>3, <1>8, <1>10 DEF IInv, Contents, Filled, Echo, Synchronous, Mode
  <2>2. Kept \subseteq Kept' /\ (peer[c] # "reset" => b \in Kept')
    BY <1>4, <1>8 DEF Kept
  <2>3. NoneLost'
    BY <1>0, <1>1, <1>2, <1>3, <1>5, <2>2 DEF IInv, Contents, NoneLost, Echo
  <2> QED
    BY <2>1, <2>3 DEF Contents
<1> QED
  BY <1>1, <1>6, <1>7, <1>9, <1>12, <1>13 DEF IInv, Started

LEMMA RearmStep ==
    ASSUME IInv, UNCHANGED program, NEW w \in Workers, Rearm(w)
    PROVE  IInv'
<1> DEFINE b == NewBlock
           c == cur[w].key
           o == cur[w].io
<1>0. /\ wpc[w] = "rearm" /\ Malloc("READ") /\ PostReceive(c, b)
      /\ wpc' = [wpc EXCEPT ![w] = "get"] /\ cur' = [cur EXCEPT ![w] = None]
      /\ idx' = [idx EXCEPT ![w] = 0]
      /\ wpc \in [Workers -> Labels] /\ cur \in [Workers -> Completion]
      /\ idx \in [Workers -> Nat]
      /\ UNCHANGED <<net, mpc, reg, clntArr, info, buf, out, cq>>
  BY DEF Rearm, Again, Goto, IInv, TypeOK, Labels
<1>1. Network' /\ Served' = Served /\ UNCHANGED <<peer, owner>>
  BY <1>0, NetworkSame DEF IInv, net
<1>2. /\ w \in Busy /\ c \in Serving /\ c \in Conns /\ info[c] = "live"
      /\ c \notin Arming \cup Awaiting \cup Arrived
  <2>1. w \in Busy
    BY <1>0 DEF Busy
  <2> QED
    BY <2>1, SockOpen DEF IInv, OneBearer
<1>3. /\ b \in Blocks \ Kept /\ b # 0
      /\ io' \in [Blocks -> {"free", "READ", "WRITE"}]
      /\ \A d \in Blocks : io'[d] = IF d = b THEN "READ" ELSE io[d]
      /\ \A k \in 1 .. Len(cq) : io'[cq[k].io] = io[cq[k].io]
      /\ \A v \in Workers : wpc[v] = "handle" => io'[cur[v].io] = io[cur[v].io]
  BY <1>0, Allocated DEF IInv
<1>4. /\ recvs' \in [Conns -> SUBSET Blocks]
      /\ Receiving' = IF peer[c] = "reset" THEN Receiving ELSE Receiving \cup {b}
      /\ Awaiting' = IF peer[c] = "reset" THEN Awaiting ELSE Awaiting \cup {c}
      /\ \A d, e \in Conns : \A x \in recvs'[d] : x \in recvs'[e] => d = e
      /\ \A d \in Conns : \A x, y \in recvs'[d] : x = y
  <2>1. b \in Blocks /\ b \notin Receiving
    BY <1>3 DEF Kept
  <2> QED
    BY <1>0, <1>2, <2>1, Awaited DEF IInv, Ownership
<1> HIDE DEF b, c, o
<1>5. /\ cur' \in [Workers -> Completion] /\ cur'[w] = None /\ None.io = 0
      /\ wpc' \in [Workers -> Labels] /\ wpc'[w] = "get"
      /\ \A v \in Workers \ {w} : cur'[v] = cur[v] /\ wpc'[v] = wpc[v]
      /\ idx' \in [Workers -> Nat]
  BY <1>0 DEF Labels, None, Completion
<1>6. TypeOK'
  BY <1>0, <1>1, <1>3, <1>4, <1>5 DEF Labels, net, IInv, TypeOK, NetTypeOK
<1>7. Placed'
  BY <1>0, <1>5 DEF IInv, Placed, Echo, Synchronous
<1>8. UNCHANGED <<Sending, Queued>> /\ Worked' \subseteq Worked /\ Worked \ {o} \subseteq Worked'
  <2>1. UNCHANGED <<Sending, Queued>>
    BY <1>0 DEF Sending, Queued
  <2>2. Worked' \subseteq Worked
    BY <1>5 DEF Worked
  <2>3. Worked \ {o} \subseteq Worked'
    BY <1>5 DEF Worked, o
  <2> QED
    BY <2>1, <2>2, <2>3
<1>9. Ownership'
  <2>1. \A u, v \in Workers : cur'[u].io = cur'[v].io /\ cur'[v].io # 0 => u = v
    BY <1>5 DEF IInv, Ownership, OneOwner
  <2>2. OneOwner'
    <3>1. /\ Receiving' \subseteq Receiving \cup {b}
          /\ b \notin Receiving \cup Sending \cup Queued \cup Worked
      BY <1>3, <1>4 DEF Kept
    <3>2. /\ Receiving' \cap Sending' = {} /\ (Receiving' \cup Sending') \cap Queued' = {}
          /\ (Receiving' \cup Sending' \cup Queued') \cap Worked' = {}
      BY <1>8, <3>1 DEF IInv, Ownership, OneOwner
    <3>3. UNCHANGED <<out, cq>>
      BY <1>0
    <3> QED
      BY <1>4, <2>1, <3>2, <3>3 DEF IInv, Ownership, OneOwner
  <2>3. Kept \subseteq Blocks
    BY KeptBlocks DEF IInv
  <2>4. OnHeap'
    BY <1>3, <1>4, <1>8, <2>3 DEF IInv, Ownership, OnHeap, Synchronous, Kept
  <2> QED
    BY <2>2, <2>4 DEF Ownership
<1>10. \A k \in 1 .. Len(cq) : IsRead(k)' <=> IsRead(k)
  BY <1>0, <1>3 DEF IsRead
<1>11. /\ Busy' = Busy \ {w} /\ Serving' \subseteq Serving \ {c}
       /\ UNCHANGED <<Arming, Arrived>>
  <2>1. w \notin Busy'
    BY <1>5 DEF Busy
  <2>2. \A v \in Workers \ {w} : v \in Busy' <=> v \in Busy
    BY <1>3, <1>5 DEF Busy, Mode
  <2>3. Busy' = Busy \ {w}
    BY <2>1, <2>2 DEF Busy
  <2>4. \A v \in Busy \ {w} : cur[v].key # c /\ v \in Workers
    BY <1>2 DEF IInv, OneBearer, c, Busy
  <2>5. Serving' \subseteq Serving \ {c}
    BY <1>5, <2>3, <2>4 DEF Serving
  <2> QED
    BY <1>0, <1>1, <1>10, <2>3, <2>5 DEF Arming, Arrived
<1>12. OneBearer'
  <2>1. \A u, v \in Busy' : cur'[u].key = cur'[v].key => u = v
    BY <1>5, <1>11 DEF IInv, OneBearer, Busy
  <2>2. c \in Served
    BY <1>2 DEF IInv, OneBearer
  <2>3. \A k, l \in 1 .. Len(cq') : IsRead(k)' /\ IsRead(l)' /\ cq'[k].key = cq'[l].key => k = l
    BY <1>0, <1>10 DEF IInv, OneBearer
  <2> QED
    BY <1>0, <1>1, <1>2, <1>4, <1>11, <2>1, <2>2, <2>3 DEF IInv, OneBearer
<1>13. Contents'
  <2>1. Filled'
    BY <1>0, <1>3, <1>5, <1>8, <1>10 DEF IInv, Contents, Filled, Echo, Synchronous, Mode
  <2>2. Echo => Kept \subseteq Kept'
    <3>1. Echo => o = 0
      BY <1>0 DEF IInv, Placed, o
    <3>2. 0 \notin Worked
      BY DEF Worked
    <3> QED
      BY <1>4, <1>8, <3>1, <3>2 DEF Kept
  <2>3. peer[c] # "reset" => b \in Kept'
    BY <1>4 DEF Kept
  <2>4. NoneLost'
    BY <1>0, <1>1, <1>2, <1>3, <2>2, <2>3 DEF IInv, Contents, NoneLost, Echo
  <2> QED
    BY <2>1, <2>4 DEF Contents
<1> QED
  BY <1>1, <1>6, <1>7, <1>9, <1>12, <1>13 DEF IInv, Started

LEMMA SendOverlappedStep ==
    ASSUME IInv, UNCHANGED program, ~Echo, NEW w \in Workers, SendOverlapped(w)
    PROVE  IInv'
<1> DEFINE b == NewBlock
           f == clntArr[idx[w] + 1]
           c == owner[f]
<1>0. /\ ~Synchronous /\ wpc[w] = "send" /\ idx[w] < Len(clntArr)
      /\ Malloc("WRITE") /\ PostSend(f, b)
      /\ idx' = [idx EXCEPT ![w] = @ + 1] /\ idx \in [Workers -> Nat]
      /\ UNCHANGED <<net, mpc, reg, clntArr, info, buf, recvs, cq, wpc, cur>>
  BY DEF SendOverlapped, IInv, TypeOK
<1>1. Network' /\ Served' = Served /\ UNCHANGED <<peer, owner>>
  BY <1>0, NetworkSame DEF IInv, net
<1>2. /\ b \in Blocks \ Kept /\ b # 0
      /\ io' \in [Blocks -> {"free", "READ", "WRITE"}]
      /\ \A d \in Blocks : io'[d] = IF d = b THEN "WRITE" ELSE io[d]
      /\ \A k \in 1 .. Len(cq) : io'[cq[k].io] = io[cq[k].io]
      /\ \A v \in Workers : wpc[v] = "handle" => io'[cur[v].io] = io[cur[v].io]
  BY <1>0, Allocated DEF IInv
<1>3. c \in Conns \cup {NoConn}
  <2>1. clntArr \in Seq(Fds) /\ Len(clntArr) \in Nat /\ idx[w] + 1 \in 1 .. Len(clntArr)
    BY <1>0, LenProperties DEF IInv, TypeOK
  <2>2. f \in Fds
    BY <2>1, ElementOfSeq
  <2> HIDE DEF f
  <2> QED
    BY <2>2 DEF IInv, Network, NetTyped
<1>4. \/ out' = out
      \/ c \in Conns /\ out' = [out EXCEPT ![c] = Append(@, b)]
  BY <1>0, <1>3 DEF PostSend
<1> HIDE DEF b, f, c
<1>5. /\ out' \in [Conns -> Seq(Blocks)] /\ Sending \subseteq Sending'
      /\ Sending' \subseteq Sending \cup {b}
      /\ \A d, e \in Conns : \A k \in 1 .. Len(out'[d]), l \in 1 .. Len(out'[e]) :
            out'[d][k] = out'[e][l] => d = e /\ k = l
  <2>1. CASE out' = out
    BY <2>1 DEF IInv, TypeOK, Ownership, OneOwner, Sending
  <2>2. CASE c \in Conns /\ out' = [out EXCEPT ![c] = Append(@, b)]
    <3>1. b \in Blocks /\ b \notin Sending
      BY <1>2 DEF Kept
    <3>2. TypeOK /\ OneOwner
      BY DEF IInv, Ownership
    <3> QED
      BY <2>2, <3>1, <3>2, Posted
  <2> QED
    BY <1>4, <2>1, <2>2
<1>6. TypeOK'
  BY <1>0, <1>1, <1>2, <1>5 DEF net, IInv, TypeOK, NetTypeOK
<1>7. Placed'
  BY <1>0 DEF IInv, Placed, Echo, Synchronous
<1>8. UNCHANGED <<Receiving, Queued, Worked>>
  BY <1>0 DEF Receiving, Queued, Worked
<1>9. Ownership'
  <2>1. OneOwner'
    BY <1>0, <1>2, <1>5, <1>8 DEF IInv, Ownership, OneOwner, Kept
  <2>2. Kept \subseteq Blocks
    BY KeptBlocks DEF IInv
  <2>3. OnHeap'
    BY <1>0, <1>2, <1>5, <1>8, <2>2, ZenonT(40) DEF IInv, Ownership, OnHeap, Synchronous, Kept
  <2> QED
    BY <2>1, <2>3 DEF Ownership
<1>10. \A k \in 1 .. Len(cq) : IsRead(k)' <=> IsRead(k)
  BY <1>0, <1>2 DEF IsRead
<1>11. UNCHANGED <<Busy, Arming, Awaiting, Arrived, Serving>>
  <2>1. Busy' = Busy
    BY <1>0, <1>2 DEF Busy, Mode
  <2> QED
    BY <1>0, <1>1, <1>10, <2>1 DEF Arming, Awaiting, Arrived, Serving
<1>12. OneBearer'
  BY <1>0, <1>1, <1>10, <1>11 DEF IInv, OneBearer
<1>13. Contents'
  BY <1>0 DEF Contents, Filled, NoneLost, Echo, Synchronous
<1> QED
  BY <1>1, <1>6, <1>7, <1>9, <1>12, <1>13 DEF IInv, Started

-----------------------------------------------------------------------------
(* The system completes receives and sends.                                  *)

LEMMA ReceiveCompletesStep ==
    ASSUME IInv, UNCHANGED program, NEW c \in Conns, ReceiveCompletes(c)
    PROVE  IInv'
<1> DEFINE n == Len(cq)
<1>0. PICK b \in recvs[c], m \in {0, 1} :
         /\ recvs' = [recvs EXCEPT ![c] = @ \ {b}]
         /\ cq' = Append(cq, [key |-> c, io |-> b, bytes |-> m])
         /\ \/ m = 0 /\ UNCHANGED <<taken, buf>>
            \/ /\ taken' = [taken EXCEPT ![c] = @ + 1]
               /\ buf' = IF Echo \/ Synchronous THEN [buf EXCEPT ![b] = NextUnit(c)] ELSE buf
  BY DEF ReceiveCompletes, TakeUnit
<1>1. UNCHANGED <<peer, backlog, sent, got, since, owner,
                  mpc, reg, clntArr, info, io, out, wpc, cur, idx>>
  BY DEF ReceiveCompletes
<1>2. /\ recvs \in [Conns -> SUBSET Blocks] /\ taken \in [Conns -> Nat]
      /\ buf \in [Blocks -> Unit \cup {NoUnit}] /\ cq \in Seq(Completion)
  BY DEF IInv, TypeOK, NetTypeOK
<1>3. /\ b \in Blocks /\ io[b] = "READ" /\ b \in Receiving /\ c \in Awaiting
      /\ info[c] = "live" /\ recvs[c] = {b}
      /\ b \notin Sending \cup Queued \cup Worked
      /\ c \notin Arming \cup Arrived \cup Serving
  <2>1. b \in Blocks /\ b \in Receiving /\ c \in Awaiting
    BY <1>2 DEF Receiving, Awaiting
  <2>2. recvs[c] = {b}
    BY DEF IInv, OneBearer
  <2> QED
    BY <2>1, <2>2 DEF IInv, Ownership, OneOwner, OnHeap, OneBearer
<1>4. NextUnit(c) \in Unit
  BY <1>2 DEF NextUnit, Unit
<1>5. /\ taken' \in [Conns -> Nat] /\ buf' \in [Blocks -> Unit \cup {NoUnit}]
      /\ \A d \in Blocks \ {b} : buf'[d] = buf[d]
      /\ (Echo \/ Synchronous) /\ m > 0 => buf'[b] \in Unit
  <2>1. CASE UNCHANGED <<taken, buf>> /\ m = 0
    BY <1>2, <2>1
  <2>2. CASE /\ taken' = [taken EXCEPT ![c] = @ + 1]
             /\ buf' = IF Echo \/ Synchronous THEN [buf EXCEPT ![b] = NextUnit(c)] ELSE buf
    <3> HIDE DEF NextUnit
    <3> QED
      BY <1>2, <1>3, <1>4, <2>2
  <2> QED
    BY <1>0, <2>1, <2>2
<1>6. Network' /\ Served' = Served
  <2>1. NetTyped'
    BY <1>1, <1>5 DEF IInv, Network, NetTyped
  <2> QED
    BY <1>1, <2>1, NetworkOn DEF IInv, Served
<1> DEFINE x == [key |-> c, io |-> b, bytes |-> m]
<1>7. x \in Completion /\ x.key = c /\ x.io = b /\ x.bytes = m
  BY <1>3 DEF Completion
<1>8. cq' = Append(cq, x)
  BY <1>0
<1> HIDE DEF x
<1>9. /\ cq' \in Seq(Completion) /\ n \in Nat /\ Len(cq') = n + 1 /\ cq'[n + 1] = x
      /\ \A k \in 1 .. n : cq'[k] = cq[k]
  BY <1>2, <1>7, <1>8, AppendProperties, LenProperties
<1> HIDE DEF n
<1>10. /\ \A k \in 1 .. Len(cq') : \/ k \in 1 .. n /\ cq'[k] = cq[k]
                                   \/ k = n + 1 /\ cq'[k] = x
       /\ \A k \in 1 .. n : k \in 1 .. Len(cq') /\ cq'[k] = cq[k]
       /\ n + 1 \in 1 .. Len(cq') /\ n + 1 \notin 1 .. n
  BY <1>9
<1>11. /\ recvs' \in [Conns -> SUBSET Blocks] /\ recvs'[c] = {}
       /\ \A d \in Conns \ {c} : recvs'[d] = recvs[d]
  BY <1>0, <1>2, <1>3
<1>12. TypeOK'
  BY <1>1, <1>5, <1>9, <1>11 DEF IInv, TypeOK, NetTypeOK
<1>13. Placed'
  <2>1. \A k \in 1 .. Len(cq') : cq'[k].key \in Conns /\ cq'[k].io \in Blocks
    BY <1>3, <1>7, <1>10 DEF IInv, Placed, n
  <2> QED
    BY <1>1, <2>1 DEF IInv, Placed, Echo, Synchronous
<1>14. /\ UNCHANGED <<Sending, Worked>> /\ Queued' = Queued \cup {b}
       /\ Receiving' = Receiving \ {b} /\ Awaiting' = Awaiting \ {c}
  <2>1. UNCHANGED <<Sending, Worked>>
    BY <1>1 DEF Sending, Worked
  <2>2. \A y \in Queued' : y \in Queued \cup {b}
    BY <1>7, <1>10 DEF Queued, n
  <2>3. \A y \in Queued : y \in Queued'
    BY <1>10 DEF Queued, n
  <2>4. b \in Queued'
    BY <1>7, <1>9, <1>10 DEF Queued
  <2>5. \A d \in Conns \ {c} : b \notin recvs[d]
    BY DEF IInv, Ownership, OneOwner
  <2>6. Receiving' = Receiving \ {b}
    BY <1>3, <1>11, <2>5 DEF Receiving
  <2>7. Awaiting' = Awaiting \ {c}
    BY <1>11 DEF Awaiting
  <2> QED
    BY <2>1, <2>2, <2>3, <2>4, <2>6, <2>7
<1>15. Ownership'
  <2>1. \A k \in 1 .. n : cq[k].io # b
    BY <1>3 DEF Queued, n
  <2>2. \A k, l \in 1 .. Len(cq') : cq'[k].io = cq'[l].io => k = l
    BY <1>7, <1>10, <2>1 DEF IInv, Ownership, OneOwner, n
  <2>3. \A d, e \in Conns : \A y \in recvs'[d] : y \in recvs'[e] => d = e
    BY <1>11 DEF IInv, Ownership, OneOwner
  <2>4. OneOwner'
    BY <1>1, <1>3, <1>14, <2>2, <2>3 DEF IInv, Ownership, OneOwner
  <2>5. OnHeap'
    BY <1>1, <1>3, <1>14 DEF IInv, Ownership, OnHeap, Synchronous
  <2> QED
    BY <2>4, <2>5 DEF Ownership
<1>16. \A k \in 1 .. n : IsRead(k)' <=> IsRead(k)
  BY <1>1, <1>10 DEF IsRead
<1>17. /\ UNCHANGED <<Arming, Busy, Serving>> /\ Arrived' \subseteq Arrived \cup {c}
  <2>1. UNCHANGED <<Arming, Busy>>
    BY <1>1 DEF Arming, Busy, Mode
  <2>2. Serving' = Serving
    BY <1>1, <2>1 DEF Serving
  <2>3. Arrived' \subseteq Arrived \cup {c}
    BY <1>7, <1>10, <1>16 DEF Arrived, n
  <2> QED
    BY <2>1, <2>2, <2>3
<1>18. OneBearer'
  <2>1. \A k \in 1 .. n : IsRead(k) => cq[k].key # c
    BY <1>3 DEF Arrived, n
  <2>2. \A k, l \in 1 .. Len(cq') : IsRead(k)' /\ IsRead(l)' /\ cq'[k].key = cq'[l].key => k = l
    BY <1>7, <1>10, <1>16, <2>1 DEF IInv, OneBearer, n
  <2>3. \A d \in Conns : \A y, z \in recvs'[d] : y = z
    BY <1>11 DEF IInv, OneBearer
  <2>4. c \in Served
    BY <1>3 DEF IInv, OneBearer
  <2> QED
    BY <1>1, <1>3, <1>6, <1>14, <1>17, <2>2, <2>3, <2>4 DEF IInv, OneBearer
<1>19. Contents'
  <2>1. Sending \subseteq Blocks \ {b} /\ \A k \in 1 .. n : cq[k].io \in Blocks \ {b}
    BY <1>3, SentBlocks DEF IInv, Placed, Queued, n
  <2>2. \A v \in Workers : /\ wpc[v] = "handle" => cur[v].io \in Blocks \ {b}
                           /\ wpc[v] = "send" /\ Synchronous => cur[v].io \in Blocks \ {b}
    BY <1>3, StudyAssumption DEF IInv, Placed, Worked
  <2>3. Filled'
    <3>1. Echo => \A y \in Sending' : buf'[y] \in Unit
      BY <1>5, <1>14, <2>1 DEF IInv, Contents, Filled
    <3>2. Echo \/ Synchronous => \A k \in 1 .. Len(cq') :
             IsRead(k)' /\ cq'[k].bytes > 0 => buf'[cq'[k].io] \in Unit
      BY <1>5, <1>7, <1>10, <1>16, <2>1 DEF IInv, Contents, Filled, n
    <3>3. Echo \/ Synchronous => \A v \in Workers :
             wpc[v] = "handle" /\ Mode(v) = "READ" /\ cur[v].bytes > 0
             => buf'[cur[v].io] \in Unit
      BY <1>5, <2>2 DEF IInv, Contents, Filled
    <3>4. Synchronous => \A v \in Workers : wpc[v] = "send" => buf'[cur[v].io] \in Unit
      BY <1>5, <2>2 DEF IInv, Contents, Filled
    <3> QED
      BY <1>1, <3>1, <3>2, <3>3, <3>4 DEF Filled, Echo, Synchronous, Mode
  <2>4. Kept' = Kept
    BY <1>3, <1>14 DEF Kept
  <2>5. NoneLost'
    BY <1>1, <2>4 DEF IInv, Contents, NoneLost, Echo
  <2> QED
    BY <2>3, <2>5 DEF Contents
<1> QED
  BY <1>6, <1>12, <1>13, <1>15, <1>18, <1>19 DEF IInv, Started

LEMMA SendCompletesStep ==
    ASSUME IInv, UNCHANGED program, NEW c \in Conns, SendCompletes(c)
    PROVE  IInv'
<1> DEFINE n == Len(cq)
           h == Head(out[c])
           s == <<h>>
<1>0. /\ out[c] # <<>> /\ out' = [out EXCEPT ![c] = Tail(@)]
      /\ cq' = cq \o Reports(c, s)
      /\ IF Echo THEN WriteTo({c}, buf[h]) ELSE Transmit({c}) /\ UNCHANGED got
      /\ UNCHANGED <<backlog, sent, taken, since, owner,
                     mpc, reg, clntArr, info, io, buf, recvs, wpc, cur, idx>>
  BY DEF SendCompletes
<1>1. /\ out[c] \in Seq(Blocks) /\ out \in [Conns -> Seq(Blocks)]
      /\ cq \in Seq(Completion) /\ got \in [Conns -> Seq(Unit)]
  BY DEF IInv, TypeOK, NetTypeOK
<1>2. /\ h \in Blocks /\ Len(out[c]) \in Nat /\ Len(out[c]) >= 1 /\ h = out[c][1]
      /\ Tail(out[c]) \in Seq(Blocks) /\ Len(Tail(out[c])) = Len(out[c]) - 1
      /\ \A k \in 1 .. Len(Tail(out[c])) : Tail(out[c])[k] = out[c][k + 1]
  BY <1>0, <1>1, HeadTailProperties, LenProperties, EmptySeq
<1>3. s \in Seq(Blocks) /\ Len(s) = 1 /\ s[1] = h
  BY <1>2
<1> HIDE DEF h, s
<1>4. /\ cq' \in Seq(Completion) /\ n \in Nat
      /\ \A k \in 1 .. n : cq'[k] = cq[k]
      /\ IF info[c] = "none" THEN Len(cq') = n
         ELSE Len(cq') = n + 1 /\ cq'[n + 1] = [key |-> c, io |-> h, bytes |-> 1]
  <2>1. /\ cq' \in Seq(Completion) /\ Len(cq) \in Nat /\ Len(s) \in Nat
        /\ Len(cq') = IF info[c] = "none" THEN Len(cq) ELSE Len(cq) + Len(s)
        /\ \A k \in 1 .. Len(cq) : cq'[k] = cq[k]
        /\ info[c] # "none" => \A k \in 1 .. Len(s) :
              cq'[Len(cq) + k] = [key |-> c, io |-> s[k], bytes |-> 1]
    BY <1>0, <1>1, <1>3, ReportsAppended
  <2> QED
    BY <1>3, <2>1
<1> HIDE DEF n
<1>5. h \in Sending /\ h \notin Receiving \cup Queued \cup Worked /\ io[h] = "WRITE"
  <2>1. 1 \in 1 .. Len(out[c])
    BY <1>2
  <2>2. h \in Sending
    BY <1>2, <2>1 DEF Sending
  <2> QED
    BY <2>2 DEF IInv, Ownership, OneOwner, OnHeap
<1>6. /\ Network' /\ Served' = Served /\ got' \in [Conns -> Seq(Unit)]
      /\ \A d \in Conns : peer[d] = "reset" => peer'[d] = "reset"
  <2>1. CASE Echo
    <3>1. buf[h] \in Unit
      BY <1>5, <2>1 DEF IInv, Contents, Filled
    <3> QED
      BY <1>0, <1>1, <2>1, <3>1, Written DEF IInv
  <2>2. CASE ~Echo
    <3>1. /\ peer' \in [Conns -> Peers]
          /\ \A d \in Conns : \/ peer'[d] = peer[d]
                              \/ peer[d] \in {"shut", "reset"} /\ peer'[d] \in {"reset", "gone"}
      BY <1>0, <2>2, TransmitStep DEF IInv, Network
    <3>2. \A d \in Conns : peer[d] = "reset" => peer'[d] = "reset"
      BY <1>0, <2>2, StartedOnWindows DEF Transmit, Reported, IInv
    <3>3. NetTyped'
      BY <1>0, <3>1 DEF IInv, Network, NetTyped
    <3>4. Network'
      BY <1>0, <3>1, <3>3, NetworkOn DEF IInv
    <3> QED
      BY <1>0, <1>1, <2>2, <3>2, <3>4 DEF Served
  <2> QED
    BY <2>1, <2>2
<1>7. /\ out' \in [Conns -> Seq(Blocks)] /\ Len(out'[c]) = Len(out[c]) - 1
      /\ \A k \in 1 .. Len(out'[c]) : out'[c][k] = out[c][k + 1]
      /\ \A d \in Conns \ {c} : out'[d] = out[d]
  <2>1. out'[c] = Tail(out[c])
    BY <1>0, <1>1
  <2>2. \A d \in Conns \ {c} : out'[d] = out[d]
    BY <1>0, <1>1
  <2>3. out' \in [Conns -> Seq(Blocks)]
    BY <1>0, <1>1, <1>2
  <2> QED
    BY <1>2, <2>1, <2>2, <2>3
<1>8. TypeOK'
  BY <1>0, <1>4, <1>6, <1>7 DEF IInv, TypeOK, NetTypeOK, Network, NetTyped
<1>9. /\ \A k \in 1 .. Len(cq') : \/ k \in 1 .. n /\ cq'[k] = cq[k]
                                  \/ k = n + 1 /\ cq'[k].key = c /\ cq'[k].io = h
      /\ \A k \in 1 .. n : k \in 1 .. Len(cq') /\ cq'[k] = cq[k]
      /\ n + 1 \notin 1 .. n
      /\ info[c] # "none" => n + 1 \in 1 .. Len(cq') /\ cq'[n + 1].io = h
  BY <1>4
<1>10. Placed'
  <2>1. \A k \in 1 .. Len(cq') : cq'[k].key \in Conns /\ cq'[k].io \in Blocks
    BY <1>2, <1>9 DEF IInv, Placed, n
  <2> QED
    BY <1>0, <2>1 DEF IInv, Placed, Echo, Synchronous
<1>11. ASSUME NEW d \in Conns, NEW k \in 1 .. Len(out'[d])
       PROVE  \E j \in 1 .. Len(out[d]) : /\ out'[d][k] = out[d][j]
                                          /\ IF d = c THEN j = k + 1 ELSE j = k
  <2>1. CASE d = c
    <3>1. k \in 1 .. Len(out'[c]) /\ k + 1 \in 1 .. Len(out[c])
      BY <1>2, <1>7, <2>1
    <3> QED
      BY <1>7, <2>1, <3>1
  <2>2. CASE d # c
    BY <1>7, <2>2
  <2> QED
    BY <2>1, <2>2
<1>12. /\ UNCHANGED <<Receiving, Worked>>
       /\ Queued' \subseteq Queued \cup {h} /\ Queued \subseteq Queued'
       /\ (info[c] # "none" => h \in Queued')
       /\ Sending' \subseteq Sending \ {h} /\ Sending \ {h} \subseteq Sending'
  <2>1. UNCHANGED <<Receiving, Worked>>
    BY <1>0 DEF Receiving, Worked
  <2>2. \A y \in Queued' : y \in Queued \cup {h}
    BY <1>9 DEF Queued, n
  <2>3. \A y \in Queued : y \in Queued'
    BY <1>9 DEF Queued, n
  <2>4. info[c] # "none" => h \in Queued'
    BY <1>9 DEF Queued
  <2>5. ASSUME NEW y \in Sending' PROVE y \in Sending \ {h}
    <3>1. PICK d \in Conns : \E k \in 1 .. Len(out'[d]) : out'[d][k] = y
      BY DEF Sending
    <3>2. PICK k \in 1 .. Len(out'[d]) : out'[d][k] = y
      BY <3>1
    <3>3. PICK j \in 1 .. Len(out[d]) : out[d][j] = y /\ (IF d = c THEN j = k + 1 ELSE j = k)
      BY <1>11, <3>2
    <3>4. y \in Sending
      BY <3>3 DEF Sending
    <3>5. 1 \in 1 .. Len(out[c]) /\ (d = c => j # 1)
      BY <1>2, <1>7, <3>3
    <3>6. y # h
      BY <1>2, <3>3, <3>5 DEF IInv, Ownership, OneOwner
    <3> QED
      BY <3>4, <3>6
  <2>6. ASSUME NEW y \in Sending, y # h PROVE y \in Sending'
    <3>1. PICK d \in Conns : \E k \in 1 .. Len(out[d]) : out[d][k] = y
      BY DEF Sending
    <3>2. PICK k \in 1 .. Len(out[d]) : out[d][k] = y
      BY <3>1
    <3>3. CASE d # c
      BY <1>7, <3>2, <3>3, SMTT(30) DEF Sending
    <3>4. CASE d = c
      <4>1. k # 1 /\ k - 1 \in 1 .. Len(out'[c]) /\ k - 1 + 1 = k
        BY <1>2, <1>7, <2>6, <3>2, <3>4
      <4>2. out'[c][k - 1] = y
        BY <1>7, <3>2, <3>4, <4>1
      <4> QED
        BY <4>1, <4>2 DEF Sending
    <3> QED
      BY <3>3, <3>4
  <2> QED
    BY <2>1, <2>2, <2>3, <2>4, <2>5, <2>6
<1>13. Ownership'
  <2>1. \A k \in 1 .. n : cq[k].io # h
    BY <1>5 DEF Queued, n
  <2>2. \A k, l \in 1 .. Len(cq') : cq'[k].io = cq'[l].io => k = l
    BY <1>9, <2>1 DEF IInv, Ownership, OneOwner, n
  <2>3. ASSUME NEW d \in Conns, NEW e \in Conns,
               NEW k \in 1 .. Len(out'[d]), NEW l \in 1 .. Len(out'[e]), out'[d][k] = out'[e][l]
        PROVE  d = e /\ k = l
    <3>1. PICK j \in 1 .. Len(out[d]) : /\ out'[d][k] = out[d][j]
                                        /\ IF d = c THEN j = k + 1 ELSE j = k
      BY <1>11
    <3>2. PICK i \in 1 .. Len(out[e]) : /\ out'[e][l] = out[e][i]
                                        /\ IF e = c THEN i = l + 1 ELSE i = l
      BY <1>11
    <3>3. out[d][j] = out[e][i]
      BY <2>3, <3>1, <3>2
    <3>4. d = e /\ j = i
      <4>1. \A d1, e1 \in Conns : \A k1 \in 1 .. Len(out[d1]), l1 \in 1 .. Len(out[e1]) :
               out[d1][k1] = out[e1][l1] => d1 = e1 /\ k1 = l1
        BY DEF IInv, Ownership, OneOwner
      <4>2. j \in 1 .. Len(out[d]) /\ i \in 1 .. Len(out[e])
        BY <3>1, <3>2
      <4> HIDE DEF s
      <4> QED
        BY <3>3, <4>1, <4>2
    <3>5. CASE d = c
      BY <3>1, <3>2, <3>4, <3>5
    <3>6. CASE d # c
      BY <3>1, <3>2, <3>4, <3>6
    <3> QED
      BY <3>5, <3>6
  <2>4. OneOwner'
    BY <1>0, <1>5, <1>12, <2>2, <2>3, SMTT(30) DEF IInv, Ownership, OneOwner
  <2>5. OnHeap'
    BY <1>0, <1>5, <1>12 DEF IInv, Ownership, OnHeap, Synchronous
  <2> QED
    BY <2>4, <2>5 DEF Ownership
<1>14. /\ \A k \in 1 .. n : IsRead(k)' <=> IsRead(k)
       /\ \A k \in 1 .. Len(cq') : IsRead(k)' => k \in 1 .. n
  BY <1>0, <1>5, <1>9 DEF IsRead
<1>15. UNCHANGED <<Arming, Awaiting, Arrived, Busy, Serving>>
  <2>1. UNCHANGED <<Arming, Awaiting, Busy>>
    BY <1>0 DEF Arming, Awaiting, Busy, Mode
  <2>2. Serving' = Serving
    BY <1>0, <2>1 DEF Serving
  <2>3. Arrived' = Arrived
    BY <1>9, <1>14 DEF Arrived, n
  <2> QED
    BY <2>1, <2>2, <2>3
<1>16. OneBearer'
  <2>1. \A k, l \in 1 .. Len(cq') : IsRead(k)' /\ IsRead(l)' /\ cq'[k].key = cq'[l].key => k = l
    BY <1>9, <1>14 DEF IInv, OneBearer, n
  <2> QED
    BY <1>0, <1>6, <1>15, <2>1 DEF IInv, OneBearer
<1>17. Contents'
  <2>1. Filled'
    BY <1>0, <1>9, <1>12, <1>14 DEF IInv, Contents, Filled, Echo, Synchronous, Mode, n
  <2>2. info[c] # "none" => Kept \subseteq Kept'
    BY <1>12 DEF Kept
  <2>3. Echo => info[c] # "none"
    BY <1>0 DEF IInv, Contents, NoneLost
  <2>4. \A d \in Conns : out'[d] # <<>> => out[d] # <<>>
    BY <1>0, <1>7
  <2>5. NoneLost'
    BY <1>0, <1>6, <2>2, <2>3, <2>4 DEF IInv, Contents, NoneLost, Echo
  <2> QED
    BY <2>1, <2>5 DEF Contents
<1> QED
  BY <1>6, <1>8, <1>10, <1>13, <1>16, <1>17 DEF IInv, Started

-----------------------------------------------------------------------------
(* The theorems.                                                             *)

LEMMA WorkerStep ==
    ASSUME IInv, UNCHANGED program, NEW w \in Workers, Worker(w)
    PROVE  IInv'
<1>1. CASE Receive(w)
  BY <1>1, GetCompletionStep, HandleEndStep, RearmStep DEF Receive
<1>2. ASSUME ~Echo, Overlapped(w) PROVE IInv'
  BY <1>2, CopyMessageStep, SendOverlappedStep, SendEndsStep, RemoveStep, HandleWriteStep
     DEF Overlapped
<1>3. CASE SendServ(w)
  BY <1>1, <1>3, BroadcastMessageStep, SendSynchronousStep, SendEndsStep, RemoveStep
     DEF SendServ
<1>4. CASE EchoServ(w)
  BY <1>1, <1>4, EchoMessageStep, HandleWriteStep DEF EchoServ
<1>5. CASE CServ(w) \/ WSASendServ(w)
  BY <1>1, <1>2, <1>5 DEF CServ, WSASendServ, Echo
<1> QED
  BY <1>3, <1>4, <1>5 DEF Worker

LEMMA Stutter == ASSUME IInv, UNCHANGED vars PROVE IInv'
<1>1. Network' /\ Served' = Served
  BY NetworkSame DEF vars, IInv
<1>2. UNCHANGED <<Arming, Busy, Receiving, Sending, Queued, Worked, Kept>>
  BY DEF vars, server, net, Arming, Busy, Mode, Receiving, Sending, Queued, Worked, Kept
<1>3. TypeOK' /\ Placed' /\ Started'
  BY DEF vars, server, net, IInv, TypeOK, NetTypeOK, Placed, Started, Echo, Synchronous
<1>4. Ownership' /\ OneBearer'
  BY <1>1, <1>2, Steady DEF vars, server, IInv, Ownership
<1>5. Contents'
  BY <1>2 DEF vars, server, net, IInv, Contents, Filled, NoneLost, Echo, Synchronous,
              IsRead, Mode
<1> QED
  BY <1>1, <1>3, <1>4, <1>5 DEF IInv

LEMMA Inductive == Spec => []IInv
<1>1. ASSUME IInv, Next, UNCHANGED program PROVE IInv'
  <2>1. CASE Main
    BY <1>1, <2>1, AcceptStep, RegisterStep, ArmStep DEF Main
  <2>2. CASE \E w \in Workers : Worker(w)
    BY <1>1, <2>2, WorkerStep
  <2>3. CASE \E c \in Conns : Kernel(c) \/ (Client(c) /\ UNCHANGED server)
    BY <1>1, <2>3, ReceiveCompletesStep, SendCompletesStep, ClientStep DEF Kernel
  <2> QED
    BY <1>1, <2>1, <2>2, <2>3 DEF Next
<1>2. IInv /\ [Next /\ UNCHANGED program]_vars => IInv'
  BY <1>1, Stutter
<1> QED
  BY <1>2, Start, PTL DEF Spec

\* Types are respected: no unit that was never sent reaches a client, whatever
\* the number of clients, workers and blocks.
THEOREM TypeCorrect == Spec => []TypeOK
<1>1. IInv => TypeOK
  BY DEF IInv
<1> QED
  BY <1>1, Inductive, PTL

\* The CLNT_INFO that a completion brings to a worker of the server that
\* broadcasts with send is on the heap (IOCPChatServ_win.c:114): the worker
\* that freed it was the last one to have it.
THEOREM KeyLiveHolds == Spec => []KeyLive
<1>1. ASSUME IInv, Synchronous, NEW w \in Workers, wpc[w] = "handle"
      PROVE  info[cur[w].key] = "live"
  <2>1. cur[w].io \in Blocks /\ cur[w].io \in Worked
    BY <1>1, StudyAssumption DEF IInv, Placed, Worked
  <2>2. io[cur[w].io] \in {"free", "READ", "WRITE"} \ {"free", "WRITE"}
    BY <1>1, <2>1 DEF IInv, Ownership, OnHeap, TypeOK
  <2>3. w \in Busy
    BY <1>1, <2>2 DEF Busy, Mode
  <2> QED
    BY <1>1, <2>3, SockOpen
<1>2. IInv => KeyLive
  BY <1>1 DEF KeyLive
<1> QED
  BY <1>2, Inductive, PTL

\* Who has block b is a receive, a send, a completion or a worker.
LEMMA HolderIs ==
    ASSUME NEW b \in Blocks, NEW x
    PROVE  x \in Holders(b) <=>
              \/ \E c \in Conns : b \in recvs[c] /\ x = <<"recv", c>>
              \/ \E c \in Conns : \E k \in 1 .. Len(out[c]) :
                    out[c][k] = b /\ x = <<"send", c, k>>
              \/ \E k \in 1 .. Len(cq) : cq[k].io = b /\ x = <<"done", k>>
              \/ \E w \in Workers : cur[w].io = b /\ x = <<"held", w>>
<1> DEFINE R == {<<"recv", c>> : c \in {c \in Conns : b \in recvs[c]}}
           S == UNION {{<<"send", c, k>> : k \in {k \in 1 .. Len(out[c]) : out[c][k] = b}}
                       : c \in Conns}
           D == {<<"done", k>> : k \in {k \in 1 .. Len(cq) : cq[k].io = b}}
           W == {<<"held", w>> : w \in {w \in Workers : cur[w].io = b}}
<1>1. x \in R <=> \E c \in Conns : b \in recvs[c] /\ x = <<"recv", c>>
  BY Zenon
<1>2. x \in S <=> \E c \in Conns : \E k \in 1 .. Len(out[c]) :
                     out[c][k] = b /\ x = <<"send", c, k>>
  <2>1. ASSUME NEW c \in Conns
        PROVE  x \in {<<"send", c, k>> : k \in {k \in 1 .. Len(out[c]) : out[c][k] = b}}
               <=> \E k \in 1 .. Len(out[c]) : out[c][k] = b /\ x = <<"send", c, k>>
    BY Zenon
  <2> QED
    BY <2>1
<1>3. x \in D <=> \E k \in 1 .. Len(cq) : cq[k].io = b /\ x = <<"done", k>>
  BY Zenon
<1>4. x \in W <=> \E w \in Workers : cur[w].io = b /\ x = <<"held", w>>
  BY Zenon
<1>5. x \in Holders(b) <=> x \in R \/ x \in S \/ x \in D \/ x \in W
  BY Zenon DEF Holders
<1> HIDE DEF R, S, D, W
<1> QED
  BY <1>1, <1>2, <1>3, <1>4, <1>5

\* A block that the system or a worker still has is on the heap, and one of
\* them has it (IOCPChatServWSASend_win.c:119, IOCPEchoServ_win.c:85): no
\* OVERLAPPED serves two operations and none is freed twice; the echo server
\* forgets a block only if a connection breaks.
THEOREM BlocksOwnedHolds == Spec => []BlocksOwned
<1>1. ASSUME IInv, NEW b \in Blocks PROVE b \in Kept <=> Holders(b) # {}
  <2>1. b \in Receiving <=> \E c \in Conns : b \in recvs[c]
    BY DEF Receiving
  <2>2. b \in Sending <=> \E c \in Conns : \E k \in 1 .. Len(out[c]) : out[c][k] = b
    BY DEF Sending
  <2>3. b \in Queued <=> \E k \in 1 .. Len(cq) : cq[k].io = b
    BY DEF Queued
  <2>4. b \in Worked <=> \E w \in Workers : cur[w].io = b
    BY StudyAssumption DEF Worked
  <2>5. ASSUME b \in Kept PROVE \E x : x \in Holders(b)
    <3>1. CASE \E c \in Conns : b \in recvs[c]
      BY <3>1, HolderIs
    <3>2. CASE \E c \in Conns : \E k \in 1 .. Len(out[c]) : out[c][k] = b
      <4>1. PICK c \in Conns : \E k \in 1 .. Len(out[c]) : out[c][k] = b
        BY <3>2
      <4>2. PICK k \in 1 .. Len(out[c]) : out[c][k] = b
        BY <4>1
      <4>3. <<"send", c, k>> \in Holders(b)
        BY <4>2, HolderIs
      <4> QED
        BY <4>3
    <3>3. CASE \E k \in 1 .. Len(cq) : cq[k].io = b
      BY <3>3, HolderIs
    <3>4. CASE \E w \in Workers : cur[w].io = b
      BY <3>4, HolderIs
    <3> QED
      BY <2>1, <2>2, <2>3, <2>4, <2>5, <3>1, <3>2, <3>3, <3>4 DEF Kept
  <2>6. ASSUME NEW x \in Holders(b) PROVE b \in Kept
    BY <2>1, <2>2, <2>3, <2>4, <2>6, HolderIs DEF Kept
  <2> QED
    BY <2>5, <2>6
<1>2. ASSUME IInv, NEW b \in Blocks, NEW x \in Holders(b) PROVE Holders(b) \subseteq {x}
  <2>1. OneOwner /\ b # 0
    BY <1>2, StudyAssumption DEF IInv, Ownership
  <2>2. ASSUME NEW c \in Conns, b \in recvs[c], NEW y \in Holders(b), x = <<"recv", c>>
        PROVE  y = x
    <3>1. b \in Receiving /\ b \notin Sending \cup Queued \cup Worked
      BY <2>1, <2>2 DEF OneOwner, Receiving
    <3>2. PICK d \in Conns : y = <<"recv", d>> /\ b \in recvs[d]
      BY <2>1, <2>2, <3>1, HolderIs DEF Sending, Queued, Worked
    <3> QED
      BY <2>1, <2>2, <3>2 DEF OneOwner
  <2>3. ASSUME NEW c \in Conns, NEW k \in 1 .. Len(out[c]), out[c][k] = b,
               NEW y \in Holders(b), x = <<"send", c, k>>
        PROVE  y = x
    <3>1. b \in Sending /\ b \notin Receiving \cup Queued \cup Worked
      BY <2>1, <2>3 DEF OneOwner, Sending
    <3>2. PICK d \in Conns : \E l \in 1 .. Len(out[d]) : y = <<"send", d, l>> /\ out[d][l] = b
      BY <2>1, <2>3, <3>1, HolderIs DEF Receiving, Queued, Worked
    <3>3. PICK l \in 1 .. Len(out[d]) : y = <<"send", d, l>> /\ out[d][l] = b
      BY <3>2
    <3>4. d = c /\ l = k
      BY <2>1, <2>3, <3>3 DEF OneOwner
    <3> QED
      BY <2>3, <3>3, <3>4
  <2>4. ASSUME NEW k \in 1 .. Len(cq), cq[k].io = b, NEW y \in Holders(b), x = <<"done", k>>
        PROVE  y = x
    <3>1. b \in Queued /\ b \notin Receiving \cup Sending \cup Worked
      BY <2>1, <2>4 DEF OneOwner, Queued
    <3>2. PICK l \in 1 .. Len(cq) : y = <<"done", l>> /\ cq[l].io = b
      BY <2>1, <2>4, <3>1, HolderIs DEF Receiving, Sending, Worked
    <3> QED
      BY <2>1, <2>4, <3>2 DEF OneOwner
  <2>5. ASSUME NEW w \in Workers, cur[w].io = b, NEW y \in Holders(b), x = <<"held", w>>
        PROVE  y = x
    <3>1. b \in Worked /\ b \notin Receiving \cup Sending \cup Queued
      BY <2>1, <2>5 DEF OneOwner, Worked
    <3>2. PICK v \in Workers : y = <<"held", v>> /\ cur[v].io = b
      BY <2>1, <2>5, <3>1, HolderIs DEF Receiving, Sending, Queued
    <3> QED
      BY <2>1, <2>5, <3>2 DEF OneOwner
  <2>6. \/ \E c \in Conns : b \in recvs[c] /\ x = <<"recv", c>>
        \/ \E c \in Conns : \E k \in 1 .. Len(out[c]) : out[c][k] = b /\ x = <<"send", c, k>>
        \/ \E k \in 1 .. Len(cq) : cq[k].io = b /\ x = <<"done", k>>
        \/ \E w \in Workers : cur[w].io = b /\ x = <<"held", w>>
    BY <1>2, HolderIs
  <2> QED
    BY <2>2, <2>3, <2>4, <2>5, <2>6
<1>3. ASSUME IInv, NEW b \in Blocks PROVE Cardinality(Holders(b)) <= 1
  <2>1. CASE Holders(b) = {}
    BY <2>1, FS_EmptySet
  <2>2. ASSUME NEW x \in Holders(b) PROVE Cardinality(Holders(b)) = 1
    <3>1. Holders(b) = {x}
      BY <1>2, <1>3, <2>2
    <3> QED
      BY <3>1, FS_Singleton
  <2> QED
    BY <2>1, <2>2
<1>4. ASSUME IInv, NEW b \in Blocks, Holders(b) # {} PROVE io[b] # "free"
  BY <1>1, <1>4 DEF IInv, Ownership, OnHeap, Kept
<1>5. ASSUME IInv, NEW b \in Blocks, Echo, io[b] # "free", Holders(b) = {}
      PROVE  \E c \in Conns : peer[c] = "reset"
  BY <1>1, <1>5 DEF IInv, Contents, NoneLost
<1>6. IInv => BlocksOwned
  BY <1>3, <1>4, <1>5 DEF BlocksOwned
<1> QED
  BY <1>6, Inductive, PTL

-----------------------------------------------------------------------------
(* What a client is sent, in order.                                          *)

\* The completions of receives on their way: queued, or with a worker that
\* has not yet done with the message.
Holding == {w \in Workers : \/ wpc[w] = "handle" /\ Mode(w) = "READ"
                            \/ wpc[w] = "send" /\ Synchronous}
InFlight == {cq[k] : k \in {k \in 1 .. Len(cq) : IsRead(k)}} \cup {cur[w] : w \in Holding}

Connected(c) == peer[c] \in {"none", "open"}
Newest(c) == [from |-> c, num |-> taken[c]]
Pending(c) == \E x \in InFlight : x.key = c /\ x.bytes > 0

\* The block of a message on its way holds the unit read last from its client.
Latest ==
    /\ \A x \in InFlight : x.bytes > 0 => buf[x.io] = Newest(x.key)
    /\ Synchronous => \A w \in Workers : wpc[w] = "send" => cur[w].bytes > 0

\* The units read from a connected client of the echo server: the answers it
\* got, those under way in order, and at most one that is still on its way.
Answering ==
    /\ \A c \in Conns : \A k \in 1 .. Len(got[c]) : got[c][k] = [from |-> c, num |-> k]
    /\ \A c \in Conns : peer[c] = "none" => taken[c] = 0
    /\ \A x \in InFlight : x.bytes = 0 => ~Connected(x.key)
    /\ \A c \in Conns : Connected(c) =>
          /\ taken[c] = Len(got[c]) + Len(out[c]) + IF Pending(c) THEN 1 ELSE 0
          /\ \A k \in 1 .. Len(out[c]) :
                buf[out[c][k]] = [from |-> c, num |-> Len(got[c]) + k]

\* A client of the server that broadcasts with send has seen nothing that was
\* not read, and the units of each client in order.
Seen ==
    \A d \in Conns : \A k \in 1 .. Len(got[d]) :
       /\ got[d][k].num <= taken[got[d][k].from]
       /\ \A j \in 1 .. k : got[d][j].from = got[d][k].from => got[d][j].num <= got[d][k].num

News == (Echo \/ Synchronous => Latest) /\ (Echo => Answering) /\ (Synchronous => Seen)

\* A message on its way has a block of its own and the right to receive.
LEMMA FlightIs ==
    ASSUME IInv, NEW x \in InFlight
    PROVE  /\ x.io \in Blocks /\ x.io \in Queued \cup Worked
           /\ x.io \notin Receiving \cup Sending
           /\ x.key \in Conns /\ x.key \in Arrived \cup Serving
           /\ x.key \notin Awaiting /\ x.key \in Served
           /\ x \in Completion
           /\ \A y \in InFlight : y.key = x.key => y = x
<1>1. \/ \E k \in 1 .. Len(cq) : IsRead(k) /\ x = cq[k]
      \/ \E w \in Holding : x = cur[w]
  BY DEF InFlight
<1>2. \A k \in 1 .. Len(cq) : cq[k] \in Completion
  BY ElementOfSeq DEF IInv, TypeOK
<1>3. ASSUME NEW w \in Holding
      PROVE  w \in Workers /\ w \in Busy /\ cur[w].io \in Blocks /\ cur[w].key \in Conns
             /\ cur[w].io \in Worked /\ cur[w].key \in Serving /\ cur[w] \in Completion
  BY StudyAssumption DEF Holding, Busy, Serving, Worked, IInv, Placed, TypeOK
<1>4. ASSUME NEW k \in 1 .. Len(cq), IsRead(k)
      PROVE  cq[k].io \in Queued /\ cq[k].key \in Arrived /\ cq[k].io \in Blocks /\ cq[k].key \in Conns
  BY <1>4 DEF Queued, Arrived, IInv, Placed
<1>5. /\ x.io \in Blocks /\ x.io \in Queued \cup Worked
      /\ x.key \in Conns /\ x.key \in Arrived \cup Serving /\ x \in Completion
  BY <1>1, <1>2, <1>3, <1>4
<1>6. /\ x.io \notin Receiving \cup Sending /\ x.key \notin Awaiting /\ x.key \in Served
  BY <1>5 DEF IInv, Ownership, OneOwner, OneBearer
<1>7. ASSUME NEW y \in InFlight, y.key = x.key PROVE y = x
  <2>1. \/ \E k \in 1 .. Len(cq) : IsRead(k) /\ y = cq[k]
        \/ \E w \in Holding : y = cur[w]
    BY DEF InFlight
  <2>2. Arrived \cap Serving = {}
    BY DEF IInv, OneBearer
  <2>3. \A k, l \in 1 .. Len(cq) :
          IsRead(k) /\ IsRead(l) /\ cq[k].key = cq[l].key => k = l
    BY DEF IInv, OneBearer
  <2>4. \A v, w \in Busy : cur[v].key = cur[w].key => v = w
    BY DEF IInv, OneBearer
  <2> QED
    BY <1>1, <1>3, <1>4, <1>7, <2>1, <2>2, <2>3, <2>4
<1> QED
  BY <1>5, <1>6, <1>7

LEMMA SendingIs ==
    ASSUME NEW c \in Conns, NEW k \in 1 .. Len(out[c]) PROVE out[c][k] \in Sending
BY DEF Sending

\* Steps that read nothing and write nothing, and end at most the connections
\* that are broken.
LEMMA NewsStays ==
    ASSUME IInv, News, UNCHANGED <<program, taken, got>>,
           InFlight' \subseteq InFlight,
           \A x \in InFlight' : buf'[x.io] = buf[x.io],
           Synchronous => \A w \in Workers : wpc'[w] = "send" => cur'[w].bytes > 0,
           Echo => /\ \A x \in InFlight \ InFlight' : x.bytes = 0
                   /\ \A c \in Conns :
                         /\ peer'[c] = "none" => peer[c] = "none"
                         /\ peer'[c] \in {"none", "open"} =>
                               /\ Connected(c) /\ out'[c] = out[c]
                               /\ \A k \in 1 .. Len(out[c]) : buf'[out[c][k]] = buf[out[c][k]]
    PROVE  News'
<1>0. UNCHANGED <<Echo, Synchronous>>
  BY DEF Echo, Synchronous
<1>1. Echo \/ Synchronous => Latest'
  BY <1>0 DEF News, Latest, Newest
<1>2. ASSUME Echo PROVE Answering'
  <2>1. Answering
    BY <1>2 DEF News
  <2>2. \A c \in Conns : \A k \in 1 .. Len(got'[c]) : got'[c][k] = [from |-> c, num |-> k]
    BY <2>1 DEF Answering
  <2>3. \A c \in Conns : peer'[c] = "none" => taken'[c] = 0
    BY <1>2, <2>1 DEF Answering
  <2>4. \A c \in Conns : Connected(c)' => Connected(c)
    BY <1>2 DEF Connected
  <2>5. \A x \in InFlight' : x.bytes = 0 => ~Connected(x.key)'
    BY <2>1, <2>4, FlightIs DEF Answering
  <2>6. \A c \in Conns : Pending(c)' <=> Pending(c)
    BY <1>2 DEF Pending
  <2>7. ASSUME NEW c \in Conns, Connected(c)'
        PROVE  /\ taken'[c] = Len(got'[c]) + Len(out'[c]) + IF Pending(c)' THEN 1 ELSE 0
               /\ \A k \in 1 .. Len(out'[c]) :
                     buf'[out'[c][k]] = [from |-> c, num |-> Len(got'[c]) + k]
    <3>1. /\ Connected(c) /\ out'[c] = out[c]
          /\ \A k \in 1 .. Len(out[c]) : buf'[out[c][k]] = buf[out[c][k]]
      BY <1>2, <2>7 DEF Connected
    <3>2. /\ taken[c] = Len(got[c]) + Len(out[c]) + IF Pending(c) THEN 1 ELSE 0
          /\ \A k \in 1 .. Len(out[c]) :
                buf[out[c][k]] = [from |-> c, num |-> Len(got[c]) + k]
      BY <2>1, <3>1 DEF Answering
    <3> QED
      BY <2>6, <3>1, <3>2
  <2> QED
    BY <2>2, <2>3, <2>5, <2>7 DEF Answering
<1>3. Synchronous => Seen'
  BY DEF News, Seen
<1> QED
  BY <1>0, <1>1, <1>2, <1>3 DEF News

\* The messages on their way when what is said of them stays.
LEMMA FlightStays ==
    ASSUME UNCHANGED <<program, cq, wpc, cur>>,
           \A k \in 1 .. Len(cq) : IsRead(k)' <=> IsRead(k),
           \A w \in Workers : wpc[w] = "handle" => io'[cur[w].io] = io[cur[w].io]
    PROVE  InFlight' = InFlight
<1>1. Holding' = Holding
  BY DEF Holding, Mode, Synchronous
<1> QED
  BY <1>1 DEF InFlight

LEMMA NewsStart == ASSUME Init PROVE News
<1>1. Listening
  BY DEF Init, StartCServ, StartWSASendServ, StartSendServ, StartEchoServ
<1>2. /\ cq = <<>> /\ \A w \in Workers : wpc[w] = "get"
      /\ \A c \in Conns : got[c] = <<>> /\ taken[c] = 0 /\ out[c] = <<>>
  BY <1>1 DEF Listening, NetInit
<1>3. InFlight = {}
  BY <1>2 DEF InFlight, Holding
<1>4. \A c \in Conns : ~Pending(c) /\ Len(got[c]) = 0 /\ Len(out[c]) = 0
  BY <1>2, <1>3 DEF Pending
<1>5. ASSUME NEW c \in Conns
      PROVE  /\ taken[c] = Len(got[c]) + Len(out[c]) + IF Pending(c) THEN 1 ELSE 0
             /\ 1 .. Len(out[c]) = {} /\ 1 .. Len(got[c]) = {}
  <2>1. ~Pending(c) /\ Len(got[c]) = 0 /\ Len(out[c]) = 0 /\ taken[c] = 0
    BY <1>2, <1>4
  <2> HIDE DEF Pending
  <2> QED
    BY <2>1
<1>6. Answering
  BY <1>2, <1>3, <1>5 DEF Answering
<1> QED
  BY <1>2, <1>3, <1>5, <1>6 DEF News, Latest, Seen

\* The messages on their way when blocks are only taken or filled elsewhere.
LEMMA MainNews ==
    ASSUME IInv, News, UNCHANGED <<program, taken, got, out, buf, cq, wpc, cur>>,
           \A k \in 1 .. Len(cq) : io'[cq[k].io] = io[cq[k].io],
           \A w \in Workers : wpc[w] = "handle" => io'[cur[w].io] = io[cur[w].io],
           \A c \in Conns : /\ peer'[c] = "none" => peer[c] = "none"
                            /\ peer'[c] \in {"none", "open"} => Connected(c)
    PROVE  News'
<1>1. InFlight' = InFlight
  BY FlightStays DEF IsRead
<1>2. Synchronous => \A w \in Workers : wpc'[w] = "send" => cur'[w].bytes > 0
  BY DEF News, Latest
<1> QED
  BY <1>1, <1>2, NewsStays

LEMMA ClientNews ==
    ASSUME IInv, News, NEW c \in Conns, Client(c), UNCHANGED <<program, server>>
    PROVE  News'
<1>1. UNCHANGED <<taken, got>>
  BY DEF Client, Speak, Connect, ClientSend, ClientShut, ClientReset
<1>2. \A d \in Conns : /\ peer'[d] = "none" => peer[d] = "none"
                       /\ peer'[d] \in {"none", "open"} => Connected(d)
  BY DEF Client, Speak, Connect, ClientSend, ClientShut, ClientReset, Connected, IInv, Network,
         NetTyped
<1> QED
  BY <1>1, <1>2, MainNews DEF server

LEMMA AcceptNews ==
    ASSUME IInv, News, UNCHANGED program, NEW f \in Fds, Accept(f)
    PROVE  News'
BY MainNews DEF Accept, Connected

LEMMA RegisterNews == ASSUME IInv, News, UNCHANGED program, Register PROVE News'
BY MainNews DEF Register, net, Connected

LEMMA ArmNews == ASSUME IInv, News, UNCHANGED program, Arm PROVE News'
<1>1. Malloc("READ") /\ UNCHANGED <<net, clntArr, buf, out, cq, wpc, cur, idx>>
  BY DEF Arm
<1>2. /\ \A k \in 1 .. Len(cq) : io'[cq[k].io] = io[cq[k].io]
      /\ \A v \in Workers : wpc[v] = "handle" => io'[cur[v].io] = io[cur[v].io]
  BY <1>1, Allocated DEF IInv
<1> QED
  BY <1>1, <1>2, MainNews DEF net, Connected

\* A worker's step, when the messages on their way are what they were or fewer.
LEMMA WorkerNews ==
    ASSUME IInv, News, UNCHANGED <<program, net, out, buf>>, InFlight' \subseteq InFlight,
           Synchronous => \A w \in Workers : wpc'[w] = "send" => cur'[w].bytes > 0,
           Echo => \A x \in InFlight : x \in InFlight'
    PROVE  News'
<1>1. \A c \in Conns : peer'[c] = "none" => peer[c] = "none"
  BY DEF net
<1>2. \A c \in Conns : peer'[c] \in {"none", "open"} => Connected(c)
  BY DEF net, Connected
<1> QED
  BY <1>1, <1>2, NewsStays DEF net

\* Which workers hold a message.
LEMMA HoldingIs ==
    ASSUME NEW w \in Workers
    PROVE  w \in Holding <=> \/ wpc[w] = "handle" /\ io[cur[w].io] = "READ"
                             \/ wpc[w] = "send" /\ Synchronous
BY DEF Holding, Mode

LEMMA GetCompletionNews ==
    ASSUME IInv, News, UNCHANGED program, NEW w \in Workers, GetCompletion(w)
    PROVE  News'
<1> DEFINE n == Len(cq)
<1>0. /\ wpc[w] = "get" /\ cq # <<>> /\ cq \in Seq(Completion)
      /\ wpc' = [wpc EXCEPT ![w] = "handle"] /\ cur' = [cur EXCEPT ![w] = Head(cq)]
      /\ cq' = Tail(cq) /\ wpc \in [Workers -> Labels] /\ cur \in [Workers -> Completion]
      /\ UNCHANGED <<net, mpc, reg, clntArr, info, io, buf, recvs, out, idx>>
  BY DEF GetCompletion, Goto, IInv, TypeOK, Labels
<1>2. /\ n \in Nat /\ n >= 1 /\ Head(cq) = cq[1] /\ Len(cq') = n - 1
      /\ \A k \in 1 .. n - 1 : cq'[k] = cq[k + 1]
  BY <1>0, HeadTailProperties, LenProperties, EmptySeq
<1>3. /\ cur'[w] = cq[1] /\ wpc'[w] = "handle"
      /\ \A v \in Workers \ {w} : cur'[v] = cur[v] /\ wpc'[v] = wpc[v]
  BY <1>0, <1>2
<1>4. UNCHANGED <<Synchronous, io>>
  BY <1>0 DEF Synchronous
<1>5. /\ w \notin Holding /\ (w \in Holding' <=> IsRead(1))
      /\ \A v \in Workers \ {w} : v \in Holding' <=> v \in Holding
  BY <1>0, <1>3, <1>4 DEF Holding, Mode, IsRead
<1>6. \A k \in 1 .. n - 1 : k + 1 \in 1 .. n /\ (IsRead(k)' <=> IsRead(k + 1))
  BY <1>2, <1>4 DEF IsRead
<1>7. ASSUME NEW x \in InFlight' PROVE x \in InFlight
  <2>1. CASE \E k \in 1 .. Len(cq') : IsRead(k)' /\ x = cq'[k]
    BY <1>2, <1>6, <2>1 DEF InFlight
  <2>2. CASE \E v \in Holding' : x = cur'[v]
    <3>1. PICK v \in Holding' : x = cur'[v]
      BY <2>2
    <3>2. v \in Workers /\ 1 \in 1 .. n
      BY <1>2 DEF Holding
    <3> QED
      BY <1>3, <1>5, <3>1, <3>2 DEF InFlight
  <2> QED
    BY <2>1, <2>2 DEF InFlight
<1>8. ASSUME NEW x \in InFlight PROVE x \in InFlight'
  <2>1. CASE \E k \in 1 .. Len(cq) : IsRead(k) /\ x = cq[k]
    <3>1. PICK k \in 1 .. n : IsRead(k) /\ x = cq[k]
      BY <2>1
    <3>2. CASE k = 1
      BY <1>3, <1>5, <3>1, <3>2 DEF InFlight
    <3>3. CASE k # 1
      <4>1. k - 1 \in 1 .. n - 1 /\ k - 1 + 1 = k
        BY <1>2, <3>3
      <4> QED
        BY <1>2, <1>6, <3>1, <4>1 DEF InFlight
    <3> QED
      BY <3>2, <3>3
  <2>2. CASE \E v \in Holding : x = cur[v]
    <3>1. PICK v \in Holding : x = cur[v]
      BY <2>2
    <3>2. v \in Workers /\ v # w
      BY <1>5 DEF Holding
    <3> QED
      BY <1>3, <1>5, <3>1, <3>2 DEF InFlight
  <2> QED
    BY <2>1, <2>2 DEF InFlight
<1>9. Synchronous => \A v \in Workers : wpc'[v] = "send" => cur'[v].bytes > 0
  BY <1>3 DEF News, Latest
<1> QED
  BY <1>0, <1>7, <1>8, <1>9, WorkerNews

\* One worker has moved and the queue is what it was.
LEMMA FlightOf ==
    ASSUME NEW w \in Workers, UNCHANGED <<program, cq>>,
           \A k \in 1 .. Len(cq) : io'[cq[k].io] = io[cq[k].io],
           \A v \in Workers \ {w} : /\ cur'[v] = cur[v] /\ wpc'[v] = wpc[v]
                                    /\ wpc[v] = "handle" => io'[cur[v].io] = io[cur[v].io]
    PROVE  /\ w \notin Holding' => InFlight' \subseteq InFlight
           /\ w \notin Holding => InFlight \subseteq InFlight'
           /\ w \in Holding => InFlight \subseteq InFlight' \cup {cur[w]}
           /\ w \in Holding' /\ w \in Holding /\ cur'[w] = cur[w] => InFlight' = InFlight
<1>1. \A v \in Workers \ {w} : v \in Holding' <=> v \in Holding
  BY DEF Holding, Mode, Synchronous
<1>2. \A k \in 1 .. Len(cq) : IsRead(k)' <=> IsRead(k)
  BY DEF IsRead
<1>3. \A v \in Holding \cup Holding' : v \in Workers
  BY DEF Holding
<1>4. \A x : x \in InFlight <=> \/ \E k \in 1 .. Len(cq) : IsRead(k) /\ x = cq[k]
                                \/ \E v \in Holding : x = cur[v]
  BY DEF InFlight
<1>5. \A x : x \in InFlight' <=> \/ \E k \in 1 .. Len(cq) : IsRead(k) /\ x = cq[k]
                                 \/ \E v \in Holding' : x = cur'[v]
  BY <1>2 DEF InFlight
<1>6. ASSUME NEW x \in InFlight' PROVE x \in InFlight \/ (w \in Holding' /\ x = cur'[w])
  BY <1>1, <1>3, <1>4, <1>5, <1>6
<1>7. ASSUME NEW x \in InFlight PROVE x \in InFlight' \/ (w \in Holding /\ x = cur[w])
  BY <1>1, <1>3, <1>4, <1>5, <1>7
<1>8. w \in Holding => cur[w] \in InFlight
  BY <1>4
<1>9. w \in Holding' => cur'[w] \in InFlight'
  BY <1>5
<1>10. ASSUME w \notin Holding' PROVE InFlight' \subseteq InFlight
  BY <1>6, <1>10
<1>11. ASSUME w \notin Holding PROVE InFlight \subseteq InFlight'
  BY <1>7, <1>11
<1>12. InFlight \subseteq InFlight' \cup {cur[w]}
  BY <1>7
<1>13. ASSUME w \in Holding', w \in Holding, cur'[w] = cur[w] PROVE InFlight' = InFlight
  <2>1. \A x \in InFlight' : x \in InFlight
    BY <1>6, <1>8, <1>13
  <2>2. \A x \in InFlight : x \in InFlight'
    BY <1>7, <1>9, <1>13
  <2> QED
    BY <2>1, <2>2
<1> QED
  BY <1>10, <1>11, <1>12, <1>13

LEMMA HandleWriteNews ==
    ASSUME IInv, News, UNCHANGED program, NEW w \in Workers, HandleWrite(w)
    PROVE  News'
<1> DEFINE b == cur[w].io
<1>0. /\ wpc[w] = "handle" /\ io[b] = "WRITE"
      /\ io' = [io EXCEPT ![b] = "free"] /\ buf' = [buf EXCEPT ![b] = NoUnit]
      /\ wpc' = [wpc EXCEPT ![w] = "get"] /\ cur' = [cur EXCEPT ![w] = None]
      /\ wpc \in [Workers -> Labels] /\ cur \in [Workers -> Completion]
      /\ buf \in [Blocks -> Unit \cup {NoUnit}]
      /\ UNCHANGED <<net, mpc, reg, clntArr, info, recvs, out, cq>>
  BY DEF HandleWrite, Free, Again, Goto, IInv, TypeOK, Labels, Mode
<1>1. /\ wpc'[w] = "get" /\ cur'[w].io = 0
      /\ \A v \in Workers \ {w} : cur'[v] = cur[v] /\ wpc'[v] = wpc[v]
  BY <1>0 DEF None
<1>2. /\ \A k \in 1 .. Len(cq) : io'[cq[k].io] = io[cq[k].io]
      /\ \A v \in Workers \ {w} : wpc[v] = "handle" => io'[cur[v].io] = io[cur[v].io]
  BY <1>0, <1>1, Released DEF IInv
<1>3. b \notin Queued /\ b \notin Sending /\ b \in Blocks
      /\ \A v \in Workers : cur[v].io = b => v = w
  BY <1>0, OtherBlocks DEF IInv
<1>4. w \notin Holding /\ w \notin Holding'
  BY <1>0, <1>1 DEF Holding, Mode
<1>5. \A x \in InFlight : x.io # b
  <2>1. \A v \in Holding : v \in Workers /\ cur[v].io # b
    BY <1>3, <1>4 DEF Holding
  <2> QED
    BY <1>3, <2>1 DEF InFlight, Queued
<1>6. /\ InFlight' \subseteq InFlight /\ InFlight \subseteq InFlight'
  BY <1>0, <1>1, <1>2, <1>4, FlightOf
<1> HIDE DEF b
<1>7. \A d \in Blocks \ {b} : buf'[d] = buf[d]
  BY <1>0
<1>8. \A x \in InFlight' : buf'[x.io] = buf[x.io]
  BY <1>5, <1>6, <1>7, FlightIs
<1>9. \A c \in Conns : \A k \in 1 .. Len(out[c]) : buf'[out[c][k]] = buf[out[c][k]]
  BY <1>3, <1>7, SendingIs, SentBlocks DEF IInv
<1>10. Synchronous => \A v \in Workers : wpc'[v] = "send" => cur'[v].bytes > 0
  BY <1>1 DEF News, Latest
<1> QED
  BY <1>0, <1>6, <1>8, <1>9, <1>10, NewsStays DEF net, Connected

LEMMA RemoveNews ==
    ASSUME IInv, News, UNCHANGED program, NEW w \in Workers, Remove(w)
    PROVE  News'
<1>0. /\ wpc[w] = "remove" /\ wpc' = [wpc EXCEPT ![w] = "get"]
      /\ cur' = [cur EXCEPT ![w] = None]
      /\ wpc \in [Workers -> Labels] /\ cur \in [Workers -> Completion]
      /\ UNCHANGED <<net, mpc, reg, info, io, buf, recvs, out, cq>>
  BY DEF Remove, Again, Goto, IInv, TypeOK, Labels
<1>1. wpc'[w] = "get" /\ \A v \in Workers \ {w} : cur'[v] = cur[v] /\ wpc'[v] = wpc[v]
  BY <1>0
<1>2. w \notin Holding /\ w \notin Holding'
  BY <1>0, <1>1 DEF Holding
<1>3. /\ InFlight' \subseteq InFlight /\ InFlight \subseteq InFlight'
  BY <1>0, <1>1, <1>2, FlightOf
<1>4. Synchronous => \A v \in Workers : wpc'[v] = "send" => cur'[v].bytes > 0
  BY <1>1 DEF News, Latest
<1> QED
  BY <1>0, <1>3, <1>4, WorkerNews

LEMMA SendEndsNews ==
    ASSUME IInv, News, UNCHANGED program, NEW w \in Workers, SendEnds(w), ~Echo
    PROVE  News'
<1>0. /\ wpc[w] = "send" /\ wpc' = [wpc EXCEPT ![w] = "rearm"] /\ wpc \in [Workers -> Labels]
      /\ UNCHANGED <<net, mpc, reg, clntArr, info, io, buf, recvs, out, cq, cur, idx>>
  BY DEF SendEnds, Goto, IInv, TypeOK, Labels
<1>1. wpc'[w] = "rearm" /\ \A v \in Workers \ {w} : wpc'[v] = wpc[v]
  BY <1>0
<1>2. w \notin Holding'
  BY <1>1 DEF Holding
<1>3. InFlight' \subseteq InFlight
  BY <1>0, <1>1, <1>2, FlightOf
<1>4. Synchronous => \A v \in Workers : wpc'[v] = "send" => cur'[v].bytes > 0
  BY <1>0, <1>1 DEF News, Latest
<1> QED
  BY <1>0, <1>3, <1>4, WorkerNews

LEMMA BroadcastMessageNews ==
    ASSUME IInv, News, UNCHANGED program, NEW w \in Workers, BroadcastMessage(w)
    PROVE  News'
<1>0. /\ wpc[w] = "handle" /\ Mode(w) = "READ" /\ cur[w].bytes > 0 /\ Synchronous
      /\ wpc' = [wpc EXCEPT ![w] = "send"] /\ wpc \in [Workers -> Labels]
      /\ UNCHANGED <<net, mpc, reg, clntArr, info, io, buf, recvs, out, cq, cur, idx>>
  BY DEF BroadcastMessage, IsMessage, Goto, IInv, TypeOK, Labels
<1>1. wpc'[w] = "send" /\ \A v \in Workers \ {w} : wpc'[v] = wpc[v]
  BY <1>0
<1>2. w \in Holding /\ w \in Holding'
  BY <1>0, <1>1 DEF Holding, Synchronous
<1>3. InFlight' = InFlight
  BY <1>0, <1>1, <1>2, FlightOf
<1>4. Synchronous => \A v \in Workers : wpc'[v] = "send" => cur'[v].bytes > 0
  BY <1>0, <1>1 DEF News, Latest
<1> QED
  BY <1>0, <1>3, <1>4, WorkerNews

LEMMA RearmNews ==
    ASSUME IInv, News, UNCHANGED program, NEW w \in Workers, Rearm(w)
    PROVE  News'
<1>0. /\ wpc[w] = "rearm" /\ wpc' = [wpc EXCEPT ![w] = "get"]
      /\ cur' = [cur EXCEPT ![w] = None] /\ Malloc("READ")
      /\ wpc \in [Workers -> Labels] /\ cur \in [Workers -> Completion]
      /\ UNCHANGED <<net, mpc, reg, clntArr, info, buf, out, cq>>
  BY DEF Rearm, Again, Goto, IInv, TypeOK, Labels
<1>1. wpc'[w] = "get" /\ \A v \in Workers \ {w} : cur'[v] = cur[v] /\ wpc'[v] = wpc[v]
  BY <1>0
<1>2. w \notin Holding /\ w \notin Holding'
  BY <1>0, <1>1 DEF Holding
<1>3. /\ \A k \in 1 .. Len(cq) : io'[cq[k].io] = io[cq[k].io]
      /\ \A v \in Workers : wpc[v] = "handle" => io'[cur[v].io] = io[cur[v].io]
  BY <1>0, Allocated DEF IInv
<1>4. /\ InFlight' \subseteq InFlight /\ InFlight \subseteq InFlight'
  BY <1>0, <1>1, <1>2, <1>3, FlightOf
<1>5. Synchronous => \A v \in Workers : wpc'[v] = "send" => cur'[v].bytes > 0
  BY <1>1 DEF News, Latest
<1> QED
  BY <1>0, <1>4, <1>5, WorkerNews

LEMMA SendSynchronousNews ==
    ASSUME IInv, News, UNCHANGED program, NEW w \in Workers, SendSynchronous(w)
    PROVE  News'
<1> DEFINE cs == {owner[clntArr[idx[w] + 1]]} \ {NoConn}
           u == buf[cur[w].io]
<1>0. /\ Synchronous /\ wpc[w] = "send" /\ WriteTo(cs, u)
      /\ got \in [Conns -> Seq(Unit)] /\ taken \in [Conns -> Nat]
      /\ UNCHANGED <<backlog, sent, taken, since, owner,
                     mpc, reg, clntArr, info, io, buf, recvs, out, cq, wpc, cur>>
  BY DEF SendSynchronous, IInv, TypeOK, NetTypeOK
<1>1. InFlight' = InFlight
  BY <1>0, FlightStays DEF IsRead
<1>2. w \in Holding /\ cur[w] \in InFlight /\ cur[w].bytes > 0
  BY <1>0 DEF Holding, InFlight, News, Latest
<1>3. u = Newest(cur[w].key) /\ cur[w].key \in Conns
  BY <1>0, <1>2, FlightIs DEF News, Latest
<1>4. u \in Unit /\ u.num = taken[u.from]
  BY <1>0, <1>3 DEF Newest, Unit
<1> HIDE DEF cs, u
<1>5. ASSUME NEW d \in Conns
      PROVE  \A k \in 1 .. Len(got'[d]) :
                /\ got'[d][k].num <= taken[got'[d][k].from]
                /\ \A j \in 1 .. k :
                      got'[d][j].from = got'[d][k].from => got'[d][j].num <= got'[d][k].num
  <2>1. \A k \in 1 .. Len(got[d]) :
           /\ got[d][k].num <= taken[got[d][k].from]
           /\ \A j \in 1 .. k : got[d][j].from = got[d][k].from => got[d][j].num <= got[d][k].num
    BY <1>0 DEF News, Seen
  <2>2. CASE got'[d] = got[d]
    BY <2>1, <2>2
  <2>3. CASE got'[d] = Append(got[d], u)
    <3> DEFINE n == Len(got[d])
    <3>1. /\ n \in Nat /\ Len(got'[d]) = n + 1 /\ got'[d][n + 1] = u
          /\ \A k \in 1 .. n : got'[d][k] = got[d][k]
      BY <1>0, <1>4, <2>3, AppendProperties, LenProperties
    <3> HIDE DEF n
    <3>2. \A k \in 1 .. Len(got'[d]) : k \in 1 .. n \/ k = n + 1
      BY <3>1
    <3>3. ASSUME NEW k \in 1 .. n
          PROVE  /\ got'[d][k].num <= taken[got'[d][k].from]
                 /\ \A j \in 1 .. k :
                       got'[d][j].from = got'[d][k].from => got'[d][j].num <= got'[d][k].num
      <4>1. k \in 1 .. Len(got[d]) /\ got'[d][k] = got[d][k]
        BY <3>1 DEF n
      <4>2. /\ got[d][k].num <= taken[got[d][k].from]
            /\ \A j \in 1 .. k : got[d][j].from = got[d][k].from => got[d][j].num <= got[d][k].num
        BY <2>1, <4>1
      <4>3. \A j \in 1 .. k : got'[d][j] = got[d][j]
        BY <3>1
      <4> QED
        BY <4>1, <4>2, <4>3
    <3>4. /\ got'[d][n + 1].num <= taken[got'[d][n + 1].from]
          /\ \A j \in 1 .. n + 1 :
                got'[d][j].from = got'[d][n + 1].from => got'[d][j].num <= got'[d][n + 1].num
      <4>1. u.num \in Nat /\ u.num <= taken[u.from]
        BY <1>4 DEF Unit
      <4>2. ASSUME NEW j \in 1 .. n + 1, got'[d][j].from = u.from PROVE got'[d][j].num <= u.num
        <5>1. CASE j = n + 1
          BY <3>1, <4>1, <5>1
        <5>2. CASE j \in 1 .. n
          <6>1. got'[d][j] = got[d][j] /\ got[d][j].num <= taken[got[d][j].from]
            BY <2>1, <3>1, <5>2 DEF n
          <6> QED
            BY <1>4, <4>2, <6>1
        <5> QED
          BY <3>1, <5>1, <5>2
      <4> QED
        BY <3>1, <4>1, <4>2
    <3>5. ASSUME NEW k \in 1 .. Len(got'[d])
          PROVE  /\ got'[d][k].num <= taken[got'[d][k].from]
                 /\ \A j \in 1 .. k :
                       got'[d][j].from = got'[d][k].from => got'[d][j].num <= got'[d][k].num
      <4>1. CASE k = n + 1
        BY <3>4, <4>1
      <4>2. CASE k \in 1 .. n
        BY <3>3, <4>2
      <4> QED
        BY <3>2, <4>1, <4>2
    <3> QED
      BY <3>5
  <2> QED
    BY <1>0, <2>2, <2>3 DEF WriteTo
<1>6. Seen'
  BY <1>0, <1>5 DEF Seen
<1>7. Latest'
  BY <1>0, <1>1 DEF News, Latest, Newest, Synchronous
<1> QED
  BY <1>0, <1>6, <1>7 DEF News, Echo, Synchronous

LEMMA HandleEndNews ==
    ASSUME IInv, News, UNCHANGED program, NEW w \in Workers, HandleEnd(w)
    PROVE  News'
<1> DEFINE b == cur[w].io
           c == cur[w].key
           n == Len(cq)
<1>0. /\ wpc[w] = "handle" /\ Mode(w) = "READ" /\ cur[w].bytes = 0
      /\ out' = [out EXCEPT ![c] = <<>>] /\ cq' = cq \o Reports(c, out[c])
      /\ io' = [io EXCEPT ![b] = "free"]
      /\ cur' = [cur EXCEPT ![w] = None]
      /\ wpc' = [wpc EXCEPT ![w] = IF Echo THEN "get" ELSE "remove"]
      /\ wpc \in [Workers -> Labels] /\ cur \in [Workers -> Completion]
      /\ io \in [Blocks -> {"free", "READ", "WRITE"}]
      /\ cq \in Seq(Completion) /\ out \in [Conns -> Seq(Blocks)]
      /\ UNCHANGED <<peer, sent, taken, got, buf>>
  BY DEF HandleEnd, Free, Again, Goto, IInv, TypeOK, Labels
<1>1. /\ wpc'[w] # "handle" /\ wpc'[w] # "send"
      /\ \A v \in Workers \ {w} : cur'[v] = cur[v] /\ wpc'[v] = wpc[v]
  BY <1>0
<1>2. /\ b \in Blocks /\ c \in Conns
      /\ \A v \in Workers : cur[v].io = b => v = w
      /\ \A k \in 1 .. n : cq[k].io # b /\ cq[k].io \in Blocks
      /\ b \notin Sending
  BY <1>0, OtherBlocks DEF IInv, Placed
<1>3. w \in Holding /\ cur[w] \in InFlight
  BY <1>0 DEF Holding, InFlight
<1> HIDE DEF b, c, n
<1>4. \A d \in Blocks : io'[d] = IF d = b THEN "free" ELSE io[d]
  BY <1>0, <1>2
<1>5. /\ n \in Nat /\ \A k \in 1 .. n : k \in 1 .. Len(cq') /\ cq'[k] = cq[k]
      /\ \A k \in 1 .. Len(cq') : k \in 1 .. n \/ cq'[k].io \in Sending
  <2>1. out[c] \in Seq(Blocks)
    BY <1>0, <1>2
  <2>2. /\ Len(cq) \in Nat /\ Len(out[c]) \in Nat
        /\ Len(cq') = IF info[c] = "none" THEN Len(cq) ELSE Len(cq) + Len(out[c])
        /\ \A k \in 1 .. Len(cq) : cq'[k] = cq[k]
        /\ info[c] # "none" => \A k \in 1 .. Len(out[c]) :
              cq'[Len(cq) + k] = [key |-> c, io |-> out[c][k], bytes |-> 1]
    BY <1>0, <1>2, <2>1, ReportsAppended
  <2>3. ASSUME NEW k \in 1 .. Len(cq'), k \notin 1 .. n PROVE cq'[k].io \in Sending
    <3>1. /\ info[c] # "none" /\ k - n \in 1 .. Len(out[c]) /\ Len(cq) + (k - n) = k
      BY <2>2, <2>3 DEF n
    <3>2. PICK j \in 1 .. Len(out[c]) : Len(cq) + j = k
      BY <3>1
    <3>3. cq'[Len(cq) + j] = [key |-> c, io |-> out[c][j], bytes |-> 1]
      BY <2>2, <3>1
    <3>4. cq'[k].io = out[c][j]
      BY <3>2, <3>3
    <3> QED
      BY <1>2, <3>4, SendingIs
  <2> QED
    BY <2>2, <2>3 DEF n
<1>6. \A x \in Sending : x \in Blocks /\ x # b /\ io[x] = "WRITE"
  BY <1>2, SentBlocks DEF IInv, Ownership, OnHeap
<1>7. /\ \A k \in 1 .. n : IsRead(k)' <=> IsRead(k)
      /\ \A k \in 1 .. Len(cq') : IsRead(k)' => k \in 1 .. n
  BY <1>2, <1>4, <1>5, <1>6 DEF IsRead
<1>8. /\ w \notin Holding'
      /\ \A v \in Workers \ {w} : v \in Holding' <=> v \in Holding
  <2>1. \A v \in Workers \ {w} : wpc[v] = "handle" => cur[v].io \in Blocks \ {b}
    BY <1>2 DEF IInv, Placed
  <2> QED
    BY <1>1, <1>4, <2>1 DEF Holding, Mode, Synchronous
<1>9. ASSUME NEW x \in InFlight' PROVE x \in InFlight
  <2>1. CASE \E k \in 1 .. Len(cq') : IsRead(k)' /\ x = cq'[k]
    BY <1>5, <1>7, <2>1 DEF InFlight, n
  <2>2. CASE \E v \in Holding' : x = cur'[v]
    <3>1. PICK v \in Holding' : x = cur'[v]
      BY <2>2
    <3>2. v \in Workers /\ v # w
      BY <1>8 DEF Holding
    <3> QED
      BY <1>1, <1>8, <3>1, <3>2 DEF InFlight
  <2> QED
    BY <2>1, <2>2 DEF InFlight
<1>10. ASSUME NEW x \in InFlight, x # cur[w] PROVE x \in InFlight'
  <2>1. CASE \E k \in 1 .. Len(cq) : IsRead(k) /\ x = cq[k]
    <3>1. PICK k \in 1 .. n : IsRead(k) /\ x = cq[k]
      BY <2>1 DEF n
    <3> QED
      BY <1>5, <1>7, <3>1 DEF InFlight
  <2>2. CASE \E v \in Holding : x = cur[v]
    <3>1. PICK v \in Holding : x = cur[v]
      BY <2>2
    <3>2. v \in Workers /\ v # w
      BY <1>10, <3>1 DEF Holding
    <3> QED
      BY <1>1, <1>8, <3>1, <3>2 DEF InFlight
  <2> QED
    BY <2>1, <2>2 DEF InFlight
<1>11. \A x \in InFlight \ InFlight' : x.bytes = 0
  BY <1>0, <1>10
<1>12. Synchronous => \A v \in Workers : wpc'[v] = "send" => cur'[v].bytes > 0
  BY <1>1 DEF News, Latest
<1>13. Echo => ~Connected(c)
  BY <1>0, <1>3 DEF News, Answering, c
<1>14. \A d \in Conns \ {c} : out'[d] = out[d]
  BY <1>0
<1>15. Echo => \A d \in Conns : Connected(d) => out'[d] = out[d]
  BY <1>13, <1>14
<1> QED
  BY <1>0, <1>9, <1>11, <1>12, <1>15, NewsStays DEF Connected

LEMMA EchoMessageNews ==
    ASSUME IInv, News, UNCHANGED program, NEW w \in Workers, EchoMessage(w)
    PROVE  News'
<1> DEFINE b == cur[w].io
           c == cur[w].key
<1>0. /\ wpc[w] = "handle" /\ Mode(w) = "READ" /\ cur[w].bytes > 0 /\ Echo
      /\ io' = [io EXCEPT ![b] = "WRITE"] /\ PostSend(Sock(w), b)
      /\ wpc' = [wpc EXCEPT ![w] = "rearm"] /\ cur' = [cur EXCEPT ![w].io = 0]
      /\ wpc \in [Workers -> Labels] /\ cur \in [Workers -> Completion]
      /\ io \in [Blocks -> {"free", "READ", "WRITE"}]
      /\ out \in [Conns -> Seq(Blocks)] /\ got \in [Conns -> Seq(Unit)]
      /\ taken \in [Conns -> Nat]
      /\ UNCHANGED <<net, mpc, reg, clntArr, info, buf, recvs, cq, idx>>
  BY DEF EchoMessage, IsMessage, Goto, IInv, TypeOK, NetTypeOK, Labels
<1>1. /\ wpc'[w] = "rearm" /\ \A v \in Workers \ {w} : cur'[v] = cur[v] /\ wpc'[v] = wpc[v]
  BY <1>0
<1>2. /\ b \in Blocks
      /\ \A v \in Workers : cur[v].io = b => v = w
      /\ \A k \in 1 .. Len(cq) : cq[k].io # b /\ cq[k].io \in Blocks
  BY <1>0, OtherBlocks DEF IInv
<1>3. w \in Busy /\ w \in Holding /\ cur[w] \in InFlight
  BY <1>0 DEF Busy, Holding, InFlight
<1>4. c \in Conns /\ owner[Sock(w)] = c /\ c # NoConn
  BY <1>3, SockOpen
<1>5. out' = IF peer[c] = "reset" THEN out ELSE [out EXCEPT ![c] = Append(@, b)]
  BY <1>0, <1>4 DEF PostSend
<1> HIDE DEF b
<1>6. \A d \in Blocks : io'[d] = IF d = b THEN "WRITE" ELSE io[d]
  BY <1>0, <1>2
<1>7. w \notin Holding' /\ ~Synchronous
  BY <1>0, <1>1 DEF Holding, Echo, Synchronous
<1>8. /\ \A k \in 1 .. Len(cq) : io'[cq[k].io] = io[cq[k].io]
      /\ \A v \in Workers \ {w} : wpc[v] = "handle" => io'[cur[v].io] = io[cur[v].io]
  BY <1>2, <1>6 DEF IInv, Placed
<1>9. InFlight' \subseteq InFlight /\ InFlight \subseteq InFlight' \cup {cur[w]}
  BY <1>0, <1>1, <1>3, <1>7, <1>8, FlightOf
<1>10. Answering /\ Latest
  BY <1>0 DEF News
<1>11. Latest'
  BY <1>0, <1>7, <1>9, <1>10 DEF Latest, Newest, net, Synchronous
<1>12. cur[w] \notin InFlight'
  <2>1. \A k \in 1 .. Len(cq) : cq[k].io # b
    BY <1>2
  <2>2. \A v \in Holding' : v \in Workers /\ v # w
    BY <1>7 DEF Holding
  <2>3. \A v \in Holding' : cur'[v].io # b
    BY <1>1, <1>2, <2>2
  <2> QED
    BY <1>0, <2>1, <2>3 DEF InFlight, b
<1>13. \A d \in Conns : d = c => ~Pending(d)' /\ Pending(d)
  <2>1. \A x \in InFlight : x.key = c => x = cur[w]
    BY <1>3, FlightIs
  <2> QED
    BY <1>0, <1>3, <1>9, <1>12, <2>1 DEF Pending
<1>14. \A d \in Conns \ {c} : Pending(d)' <=> Pending(d)
  <2>1. cur[w].key = c
    OBVIOUS
  <2> HIDE DEF c
  <2> QED
    BY <1>9, <2>1 DEF Pending
<1>15. buf[b] = [from |-> c, num |-> taken[c]]
  BY <1>0, <1>3, <1>10 DEF Latest, Newest, b
<1> HIDE DEF c
<1>16. ASSUME NEW d \in Conns, Connected(d)'
       PROVE  /\ taken'[d] = Len(got'[d]) + Len(out'[d]) + IF Pending(d)' THEN 1 ELSE 0
              /\ \A k \in 1 .. Len(out'[d]) :
                    buf'[out'[d][k]] = [from |-> d, num |-> Len(got'[d]) + k]
  <2>0. UNCHANGED <<taken, got, buf, peer>> /\ Connected(d)
    BY <1>0, <1>16 DEF net, Connected
  <2>1. /\ taken[d] = Len(got[d]) + Len(out[d]) + IF Pending(d) THEN 1 ELSE 0
        /\ \A k \in 1 .. Len(out[d]) : buf[out[d][k]] = [from |-> d, num |-> Len(got[d]) + k]
    BY <1>10, <2>0 DEF Answering
  <2>2. CASE d # c
    BY <1>0, <1>5, <1>14, <2>0, <2>1, <2>2
  <2>3. CASE d = c
    <3> DEFINE n == Len(out[c])
    <3>1. peer[c] # "reset"
      BY <2>0, <2>3 DEF Connected
    <3>2. out'[c] = Append(out[c], b) /\ out[c] \in Seq(Blocks)
      BY <1>0, <1>4, <1>5, <3>1
    <3>3. /\ n \in Nat /\ Len(out'[c]) = n + 1 /\ out'[c][n + 1] = b
          /\ \A k \in 1 .. n : out'[c][k] = out[c][k]
      BY <1>2, <3>2, AppendProperties, LenProperties
    <3>4. Len(got[c]) \in Nat
      BY <1>0, <1>4, LenProperties
    <3> HIDE DEF n
    <3>5. taken[c] = Len(got[c]) + n + 1
      <4>1. Pending(d) /\ (Pending(d) => taken[d] = Len(got[d]) + Len(out[d]) + 1)
        BY <1>13, <2>1, <2>3
      <4> QED
        BY <2>3, <4>1 DEF n
    <3>6. taken[c] = Len(got[c]) + (n + 1)
      <4>1. \A x, y, z \in Nat : z = x + y + 1 => z = x + (y + 1)
        OBVIOUS
      <4>2. taken[c] \in Nat /\ n \in Nat
        BY <1>0, <1>4, <3>3
      <4> QED
        BY <3>4, <3>5, <4>1, <4>2
    <3>7. \A k \in 1 .. Len(out'[c]) : k \in 1 .. n \/ k = n + 1
      BY <3>3
    <3>8. ASSUME NEW k \in 1 .. Len(out'[c])
          PROVE  buf[out'[c][k]] = [from |-> c, num |-> Len(got[c]) + k]
      <4>1. CASE k = n + 1
        BY <1>15, <3>3, <3>6, <4>1
      <4>2. CASE k \in 1 .. n
        BY <2>1, <2>3, <3>3, <4>2 DEF n
      <4> QED
        BY <3>7, <4>1, <4>2
    <3>9. taken[d] = Len(got[d]) + Len(out'[d]) + 0 /\ ~Pending(d)'
      BY <1>13, <2>3, <3>3, <3>4, <3>6
    <3> QED
      BY <2>0, <2>3, <3>8, <3>9
  <2> QED
    BY <2>2, <2>3
<1>17. Answering'
  BY <1>0, <1>9, <1>10, <1>16 DEF Answering, net, Connected
<1> QED
  BY <1>7, <1>11, <1>17 DEF News, Synchronous

LEMMA ReceiveCompletesNews ==
    ASSUME IInv, News, UNCHANGED program, NEW c \in Conns, ReceiveCompletes(c)
    PROVE  News'
<1> DEFINE n == Len(cq)
<1>0. PICK b \in recvs[c], m \in {0, 1} :
         /\ recvs' = [recvs EXCEPT ![c] = @ \ {b}]
         /\ cq' = Append(cq, [key |-> c, io |-> b, bytes |-> m])
         /\ \/ m = 0 /\ UNCHANGED <<taken, buf>> /\ ~Connected(c)
            \/ /\ m = 1 /\ taken' = [taken EXCEPT ![c] = @ + 1]
               /\ buf' = IF Echo \/ Synchronous THEN [buf EXCEPT ![b] = NextUnit(c)] ELSE buf
  BY DEF ReceiveCompletes, TakeUnit, AtEnd, Failed, Connected
<1>1. UNCHANGED <<peer, backlog, sent, got, since, owner,
                  mpc, reg, clntArr, info, io, out, wpc, cur, idx>>
  BY DEF ReceiveCompletes
<1>2. /\ recvs \in [Conns -> SUBSET Blocks] /\ taken \in [Conns -> Nat]
      /\ buf \in [Blocks -> Unit \cup {NoUnit}] /\ cq \in Seq(Completion)
      /\ got \in [Conns -> Seq(Unit)] /\ out \in [Conns -> Seq(Blocks)]
  BY DEF IInv, TypeOK, NetTypeOK
<1>3. /\ b \in Blocks /\ io[b] = "READ" /\ b \in Receiving /\ c \in Awaiting
      /\ b \notin Sending \cup Queued \cup Worked
      /\ c \notin Arrived \cup Serving /\ c \in Served
  <2>1. b \in Blocks /\ b \in Receiving /\ c \in Awaiting
    BY <1>2 DEF Receiving, Awaiting
  <2> QED
    BY <2>1 DEF IInv, Ownership, OneOwner, OnHeap, OneBearer
<1> DEFINE x == [key |-> c, io |-> b, bytes |-> m]
<1>4. x \in Completion /\ x.key = c /\ x.io = b /\ x.bytes = m
  BY <1>3 DEF Completion
<1>5. cq' = Append(cq, x)
  BY <1>0
<1> HIDE DEF x
<1>6. /\ n \in Nat /\ Len(cq') = n + 1 /\ cq'[n + 1] = x
      /\ \A k \in 1 .. n : cq'[k] = cq[k]
  BY <1>2, <1>4, <1>5, AppendProperties, LenProperties
<1>7. \A k \in 1 .. Len(cq') : k \in 1 .. n \/ k = n + 1
  BY <1>6
<1>8. /\ Holding' = Holding /\ UNCHANGED <<Echo, Synchronous>>
      /\ \A k \in 1 .. n : k \in 1 .. Len(cq') /\ (IsRead(k)' <=> IsRead(k))
      /\ \E k \in 1 .. Len(cq') : cq'[k] = x /\ IsRead(k)'
  <2>1. n + 1 \in 1 .. Len(cq') /\ io'[cq'[n + 1].io] = "READ"
    BY <1>1, <1>3, <1>4, <1>6
  <2>2. \E k \in 1 .. Len(cq') : cq'[k] = x /\ IsRead(k)'
    BY <1>6, <2>1 DEF IsRead
  <2> QED
    BY <1>1, <1>6, <2>2 DEF Holding, Mode, Echo, Synchronous, IsRead
<1>9. InFlight' = InFlight \cup {x}
  <2>1. \A y \in InFlight' : y \in InFlight \cup {x}
    BY <1>1, <1>6, <1>7, <1>8 DEF InFlight
  <2>2. \A y \in InFlight : y \in InFlight'
    BY <1>1, <1>6, <1>8 DEF InFlight
  <2>3. x \in InFlight'
    BY <1>8 DEF InFlight
  <2> QED
    BY <2>1, <2>2, <2>3
<1> HIDE DEF n
<1>10. \A y \in InFlight : y.io # b /\ y.key # c /\ y.io \in Blocks /\ y.key \in Conns
  BY <1>3, FlightIs DEF IInv, OneBearer
<1>11. \A d \in Conns \ {c} : taken'[d] = taken[d]
  BY <1>0, <1>2
<1>12. ASSUME Echo \/ Synchronous
       PROVE  /\ \A d \in Blocks \ {b} : buf'[d] = buf[d]
              /\ m = 1 => buf'[b] = Newest(c)'
  <2>1. CASE m = 0
    BY <1>0, <2>1
  <2>2. CASE m = 1
    <3>1. /\ taken'[c] = taken[c] + 1
          /\ buf' = [buf EXCEPT ![b] = NextUnit(c)]
      BY <1>0, <1>2, <1>12, <2>2
    <3>2. NextUnit(c) = Newest(c)'
      BY <3>1 DEF NextUnit, Newest
    <3> HIDE DEF NextUnit
    <3> QED
      BY <1>2, <1>3, <3>1, <3>2
  <2> QED
    BY <2>1, <2>2
<1>13. ASSUME Echo \/ Synchronous PROVE Latest'
  <2>1. Latest
    BY <1>13 DEF News
  <2>2. \A y \in InFlight : y.bytes > 0 => buf'[y.io] = Newest(y.key)'
    BY <1>10, <1>11, <1>12, <1>13, <2>1 DEF Latest, Newest
  <2>3. x.bytes > 0 => buf'[x.io] = Newest(x.key)'
    BY <1>4, <1>12, <1>13
  <2> QED
    BY <1>1, <1>8, <1>9, <2>1, <2>2, <2>3 DEF Latest
<1>14. ASSUME Synchronous PROVE Seen'
  <2>1. ASSUME NEW d \in Conns
        PROVE  taken[d] <= taken'[d] /\ taken[d] \in Nat /\ taken'[d] \in Nat
    <3>1. taken[d] \in Nat
      BY <1>2
    <3>2. taken'[d] = taken[d] \/ taken'[d] = taken[d] + 1
      BY <1>0, <1>2
    <3> QED
      BY <3>1, <3>2
  <2>2. ASSUME NEW d \in Conns, NEW k \in 1 .. Len(got[d])
        PROVE  /\ got[d][k].num <= taken'[got[d][k].from]
               /\ \A j \in 1 .. k : got[d][j].from = got[d][k].from => got[d][j].num <= got[d][k].num
    <3>1. /\ got[d][k].num <= taken[got[d][k].from]
          /\ \A j \in 1 .. k : got[d][j].from = got[d][k].from => got[d][j].num <= got[d][k].num
      BY <1>14 DEF News, Seen
    <3>2. got[d][k].from \in Conns /\ got[d][k].num \in Nat
      <4>1. got[d] \in Seq(Unit)
        BY <1>2
      <4>2. got[d][k] \in Unit
        BY <4>1, ElementOfSeq
      <4> QED
        BY <4>2 DEF Unit
    <3>3. got[d][k].num <= taken'[got[d][k].from]
      BY <2>1, <3>1, <3>2
    <3> QED
      BY <3>1, <3>3
  <2> QED
    BY <1>1, <2>2 DEF Seen
<1>15. ASSUME Echo PROVE Answering'
  <2>1. Answering
    BY <1>15 DEF News
  <2>2. peer[c] # "none"
    BY <1>3 DEF IInv, Network, OnePlace
  <2>3. \A d \in Conns : peer'[d] = "none" => taken'[d] = 0
    BY <1>1, <1>11, <2>1, <2>2 DEF Answering
  <2>4. \A y \in InFlight' : y.bytes = 0 => ~Connected(y.key)'
    BY <1>0, <1>1, <1>4, <1>9, <2>1 DEF Answering, Connected
  <2>5. \A d \in Conns \ {c} : Pending(d)' <=> Pending(d)
    BY <1>4, <1>9 DEF Pending
  <2>6. \A d \in Conns : d = c => ~Pending(d) /\ (m = 1 => Pending(d)')
    BY <1>4, <1>9, <1>10 DEF Pending
  <2>7. \A d \in Conns : \A k \in 1 .. Len(out[d]) : buf'[out[d][k]] = buf[out[d][k]]
    BY <1>3, <1>12, <1>15, SendingIs, SentBlocks DEF IInv
  <2>8. ASSUME NEW d \in Conns, Connected(d)'
        PROVE  /\ taken'[d] = Len(got[d]) + Len(out[d]) + IF Pending(d)' THEN 1 ELSE 0
               /\ \A k \in 1 .. Len(out[d]) :
                     buf'[out[d][k]] = [from |-> d, num |-> Len(got[d]) + k]
    <3>1. Connected(d)
      BY <1>1, <2>8 DEF Connected
    <3>2. /\ taken[d] = Len(got[d]) + Len(out[d]) + IF Pending(d) THEN 1 ELSE 0
          /\ \A k \in 1 .. Len(out[d]) : buf[out[d][k]] = [from |-> d, num |-> Len(got[d]) + k]
      BY <2>1, <3>1 DEF Answering
    <3>3. CASE d # c
      BY <1>11, <2>5, <2>7, <3>2, <3>3
    <3>4. CASE d = c
      <4>1. m = 1 /\ taken'[d] = taken[d] + 1
        BY <1>0, <1>2, <3>1, <3>4
      <4>2. taken[d] = Len(got[d]) + Len(out[d]) + 0
        BY <2>6, <3>2, <3>4
      <4>3. Len(got[d]) \in Nat /\ Len(out[d]) \in Nat
        BY <1>2, LenProperties
      <4>4. \A p, q, r \in Nat : r = p + q + 0 => r + 1 = p + q + 1
        OBVIOUS
      <4>5. taken'[d] = Len(got[d]) + Len(out[d]) + 1
        BY <1>2, <4>1, <4>2, <4>3, <4>4
      <4>6. Pending(d)'
        BY <2>6, <3>4, <4>1
      <4> QED
        BY <2>7, <3>2, <4>5, <4>6
    <3> QED
      BY <3>3, <3>4
  <2> QED
    BY <1>1, <2>1, <2>3, <2>4, <2>8 DEF Answering
<1> QED
  BY <1>8, <1>13, <1>14, <1>15 DEF News

LEMMA SendCompletesNews ==
    ASSUME IInv, News, UNCHANGED program, NEW c \in Conns, SendCompletes(c)
    PROVE  News'
<1> DEFINE n == Len(cq)
           h == Head(out[c])
           s == <<h>>
<1>0. /\ out[c] # <<>> /\ out' = [out EXCEPT ![c] = Tail(@)]
      /\ cq' = cq \o Reports(c, s)
      /\ IF Echo THEN WriteTo({c}, buf[h]) ELSE UNCHANGED got
      /\ UNCHANGED <<backlog, sent, taken, since, owner,
                     mpc, reg, clntArr, info, io, buf, recvs, wpc, cur, idx>>
  BY DEF SendCompletes
<1>1. /\ out[c] \in Seq(Blocks) /\ out \in [Conns -> Seq(Blocks)]
      /\ cq \in Seq(Completion) /\ got \in [Conns -> Seq(Unit)] /\ taken \in [Conns -> Nat]
  BY DEF IInv, TypeOK, NetTypeOK
<1>2. /\ h \in Blocks /\ Len(out[c]) \in Nat /\ Len(out[c]) >= 1 /\ h = out[c][1]
      /\ Len(Tail(out[c])) = Len(out[c]) - 1
      /\ \A k \in 1 .. Len(Tail(out[c])) : Tail(out[c])[k] = out[c][k + 1]
  BY <1>0, <1>1, HeadTailProperties, LenProperties, EmptySeq
<1>3. s \in Seq(Blocks) /\ Len(s) = 1 /\ s[1] = h /\ 1 \in 1 .. Len(out[c])
  BY <1>2
<1>4. io[h] = "WRITE"
  <2>1. h \in Sending
    BY <1>2, <1>3, SendingIs
  <2> QED
    BY <2>1 DEF IInv, Ownership, OnHeap
<1> HIDE DEF h, s
<1>5. /\ n \in Nat /\ \A k \in 1 .. n : k \in 1 .. Len(cq') /\ cq'[k] = cq[k]
      /\ \A k \in 1 .. Len(cq') : k \in 1 .. n \/ cq'[k].io = h
  <2>1. /\ cq' \in Seq(Completion) /\ Len(cq) \in Nat /\ Len(s) \in Nat
        /\ Len(cq') = IF info[c] = "none" THEN Len(cq) ELSE Len(cq) + Len(s)
        /\ \A k \in 1 .. Len(cq) : cq'[k] = cq[k]
        /\ info[c] # "none" => \A k \in 1 .. Len(s) :
              cq'[Len(cq) + k] = [key |-> c, io |-> s[k], bytes |-> 1]
    BY <1>0, <1>1, <1>3, ReportsAppended
  <2>2. info[c] # "none" => cq'[Len(cq) + 1].io = h
    BY <1>3, <2>1
  <2>3. \A k \in 1 .. Len(cq') : k \in 1 .. n \/ (k = Len(cq) + 1 /\ info[c] # "none")
    BY <1>3, <2>1
  <2> QED
    BY <1>3, <2>1, <2>2, <2>3
<1> HIDE DEF n
<1>6. /\ Holding' = Holding /\ UNCHANGED <<Echo, Synchronous>>
      /\ \A k \in 1 .. n : IsRead(k)' <=> IsRead(k)
      /\ \A k \in 1 .. Len(cq') : IsRead(k)' => k \in 1 .. n
  BY <1>0, <1>4, <1>5 DEF Holding, Mode, Echo, Synchronous, IsRead
<1>7. InFlight' = InFlight
  <2>1. \A y \in InFlight' : y \in InFlight
    BY <1>0, <1>5, <1>6 DEF InFlight, n
  <2>2. \A y \in InFlight : y \in InFlight'
    BY <1>0, <1>5, <1>6 DEF InFlight, n
  <2> QED
    BY <2>1, <2>2
<1>8. Echo \/ Synchronous => Latest'
  BY <1>0, <1>6, <1>7 DEF News, Latest, Newest
<1>9. Synchronous => Seen'
  BY <1>0, <1>6 DEF News, Seen, Echo, Synchronous
<1>10. ASSUME Echo PROVE Answering'
  <2>1. Answering
    BY <1>10 DEF News
  <2>2. WriteTo({c}, buf[h])
    BY <1>0, <1>10
  <2>3. \A d \in Conns : \/ peer'[d] = peer[d]
                         \/ peer[d] = "shut" /\ peer'[d] = "reset"
    BY <2>2, WriteStep, StartedOnWindows DEF IInv, Network
  <2>4. /\ \A d \in Conns : Connected(d)' <=> Connected(d)
        /\ \A d \in Conns : peer'[d] = "none" => peer[d] = "none"
    BY <2>3 DEF Connected
  <2>5. \A d \in Conns : Pending(d)' <=> Pending(d)
    BY <1>7 DEF Pending
  <2>6. /\ out'[c] = Tail(out[c]) /\ \A d \in Conns \ {c} : out'[d] = out[d]
        /\ \A d \in Conns \ {c} : got'[d] = got[d]
        /\ got'[c] = IF peer[c] = "open" THEN Append(got[c], buf[h]) ELSE got[c]
    BY <1>0, <1>1, <2>2 DEF WriteTo
  <2>11. ASSUME NEW d \in Conns, Connected(d), out'[d] = out[d], got'[d] = got[d]
         PROVE  /\ taken'[d] = Len(got'[d]) + Len(out'[d]) + IF Pending(d)' THEN 1 ELSE 0
                /\ \A k \in 1 .. Len(out'[d]) :
                      buf'[out'[d][k]] = [from |-> d, num |-> Len(got'[d]) + k]
    <3>1. /\ taken[d] = Len(got[d]) + Len(out[d]) + IF Pending(d) THEN 1 ELSE 0
          /\ \A k \in 1 .. Len(out[d]) : buf[out[d][k]] = [from |-> d, num |-> Len(got[d]) + k]
      BY <2>1, <2>11 DEF Answering
    <3>2. Pending(d)' <=> Pending(d)
      BY <2>5
    <3> QED
      BY <1>0, <2>11, <3>1, <3>2
  <2> DEFINE g == Len(got[c])
             o == Len(out[c])
  <2>7. g \in Nat /\ o \in Nat /\ got[c] \in Seq(Unit)
    BY <1>1, LenProperties
  <2>8. peer[c] # "none"
    <3>1. ASSUME peer[c] = "none" PROVE FALSE
      <4>1. taken[c] = 0 /\ Connected(c)
        BY <2>1, <3>1 DEF Answering, Connected
      <4>2. taken[c] = g + o + IF Pending(c) THEN 1 ELSE 0
        BY <2>1, <4>1 DEF Answering
      <4> HIDE DEF g, o
      <4>3. \A p, q \in Nat : 0 = p + q \/ 0 = p + q + 1 => q = 0
        OBVIOUS
      <4>4. 0 = g + o \/ 0 = g + o + 1
        BY <2>7, <4>1, <4>2
      <4>5. o = 0
        BY <2>7, <4>3, <4>4
      <4> QED
        BY <1>2, <4>5 DEF o
    <3> QED
      BY <3>1
  <2>9. CASE ~Connected(c)
    <3>1. got'[c] = got[c]
      BY <2>6, <2>9 DEF Connected
    <3>2. got' = got
      BY <1>1, <2>2, <2>6, <3>1 DEF WriteTo
    <3>3. ASSUME NEW d \in Conns, Connected(d)'
          PROVE  /\ taken'[d] = Len(got'[d]) + Len(out'[d]) + IF Pending(d)' THEN 1 ELSE 0
                 /\ \A k \in 1 .. Len(out'[d]) :
                       buf'[out'[d][k]] = [from |-> d, num |-> Len(got'[d]) + k]
      <4>1. Connected(d) /\ d # c /\ out'[d] = out[d]
        BY <2>4, <2>6, <2>9, <3>3
      <4> QED
        BY <2>11, <3>2, <4>1
    <3>4. /\ \A d \in Conns : \A k \in 1 .. Len(got'[d]) : got'[d][k] = [from |-> d, num |-> k]
          /\ \A d \in Conns : peer'[d] = "none" => taken'[d] = 0
          /\ \A y \in InFlight' : y.bytes = 0 => ~Connected(y.key)'
      BY <1>0, <1>7, <2>1, <2>4, <3>2, FlightIs DEF Answering
    <3> QED
      BY <3>3, <3>4 DEF Answering
  <2>10. CASE Connected(c)
    <3>1. peer[c] = "open"
      BY <2>8, <2>10 DEF Connected
    <3>2. /\ taken[c] = g + o + IF Pending(c) THEN 1 ELSE 0
          /\ \A k \in 1 .. o : buf[out[c][k]] = [from |-> c, num |-> g + k]
      BY <2>1, <2>10 DEF Answering
    <3>3. buf[h] = [from |-> c, num |-> g + 1]
      BY <1>2, <1>3, <3>2
    <3>4. buf[h] \in Unit /\ got'[c] = Append(got[c], buf[h])
      BY <2>6, <2>7, <3>1, <3>3 DEF Unit
    <3>5. /\ Len(got'[c]) = g + 1 /\ got'[c][g + 1] = buf[h]
          /\ \A k \in 1 .. g : got'[c][k] = got[c][k]
      BY <2>7, <3>4, AppendProperties
    <3> HIDE DEF g, o
    <3>6. /\ Len(out'[c]) = o - 1 /\ o >= 1
          /\ \A k \in 1 .. o - 1 : k + 1 \in 1 .. o /\ out'[c][k] = out[c][k + 1]
      BY <1>2, <2>6 DEF o
    <3>7. \A k \in 1 .. Len(got'[c]) : got'[c][k] = [from |-> c, num |-> k]
      <4>1. \A k \in 1 .. g : got'[c][k] = [from |-> c, num |-> k]
        BY <2>1, <3>5 DEF Answering, g
      <4>2. \A k \in 1 .. Len(got'[c]) : k \in 1 .. g \/ k = g + 1
        BY <2>7, <3>5
      <4> QED
        BY <3>3, <3>5, <4>1, <4>2
    <3>8. taken[c] = Len(got'[c]) + Len(out'[c]) + IF Pending(c)' THEN 1 ELSE 0
      <4>1. Pending(c)' <=> Pending(c)
        BY <2>5
      <4>2. \A p, q \in Nat : q >= 1 => p + q = (p + 1) + (q - 1)
        OBVIOUS
      <4>3. g + o = Len(got'[c]) + Len(out'[c])
        BY <2>7, <3>5, <3>6, <4>2
      <4> QED
        BY <3>2, <4>1, <4>3
    <3>9. ASSUME NEW k \in 1 .. Len(out'[c])
          PROVE  buf[out'[c][k]] = [from |-> c, num |-> Len(got'[c]) + k]
      <4>1. k + 1 \in 1 .. o /\ out'[c][k] = out[c][k + 1]
        BY <3>6
      <4>2. buf[out[c][k + 1]] = [from |-> c, num |-> g + (k + 1)]
        BY <3>2, <4>1
      <4>3. g + (k + 1) = Len(got'[c]) + k
        BY <2>7, <3>5
      <4> QED
        BY <4>1, <4>2, <4>3
    <3>10. ASSUME NEW d \in Conns, Connected(d)'
           PROVE  /\ taken'[d] = Len(got'[d]) + Len(out'[d]) + IF Pending(d)' THEN 1 ELSE 0
                  /\ \A k \in 1 .. Len(out'[d]) :
                        buf'[out'[d][k]] = [from |-> d, num |-> Len(got'[d]) + k]
      <4>1. CASE d = c
        BY <1>0, <3>8, <3>9, <4>1
      <4>2. CASE d # c
        <5>1. Connected(d) /\ out'[d] = out[d] /\ got'[d] = got[d]
          BY <2>4, <2>6, <3>10, <4>2
        <5> QED
          BY <2>11, <5>1
      <4> QED
        BY <4>1, <4>2
    <3>11. ASSUME NEW d \in Conns, NEW k \in 1 .. Len(got'[d])
           PROVE  got'[d][k] = [from |-> d, num |-> k]
      <4>1. CASE d = c
        BY <3>7, <4>1
      <4>2. CASE d # c
        BY <2>1, <2>6, <4>2 DEF Answering
      <4> QED
        BY <4>1, <4>2
    <3>12. /\ \A d \in Conns : peer'[d] = "none" => taken'[d] = 0
           /\ \A y \in InFlight' : y.bytes = 0 => ~Connected(y.key)'
      BY <1>0, <1>7, <2>1, <2>4, FlightIs DEF Answering
    <3> QED
      BY <3>10, <3>11, <3>12 DEF Answering
  <2> QED
    BY <2>9, <2>10
<1> QED
  BY <1>6, <1>8, <1>9, <1>10 DEF News

LEMMA WorkerStepNews ==
    ASSUME IInv, News, UNCHANGED program, NEW w \in Workers, Worker(w)
    PROVE  News'
<1>1. CASE Receive(w)
  BY <1>1, GetCompletionNews, HandleEndNews, RearmNews DEF Receive
<1>2. CASE SendServ(w)
  BY <1>1, <1>2, BroadcastMessageNews, SendSynchronousNews, SendEndsNews, RemoveNews
     DEF SendServ, Echo
<1>3. CASE EchoServ(w)
  BY <1>1, <1>3, EchoMessageNews, HandleWriteNews DEF EchoServ
<1>4. CASE CServ(w) \/ WSASendServ(w)
  BY <1>4 DEF CServ, WSASendServ, News, Echo, Synchronous
<1> QED
  BY <1>2, <1>3, <1>4 DEF Worker

LEMMA NewsInductive == Spec => []News
<1>1. ASSUME IInv, News, Next, UNCHANGED program PROVE News'
  <2>1. CASE Main
    BY <1>1, <2>1, AcceptNews, RegisterNews, ArmNews DEF Main
  <2>2. CASE \E w \in Workers : Worker(w)
    BY <1>1, <2>2, WorkerStepNews
  <2>3. CASE \E c \in Conns : Kernel(c) \/ (Client(c) /\ UNCHANGED server)
    BY <1>1, <2>3, ReceiveCompletesNews, SendCompletesNews, ClientNews DEF Kernel
  <2> QED
    BY <1>1, <2>1, <2>2, <2>3 DEF Next
<1>2. ASSUME IInv, News, UNCHANGED vars PROVE News'
  BY <1>2, MainNews DEF vars, server, net, Connected
<1>3. IInv /\ News /\ [Next /\ UNCHANGED program]_vars => News'
  BY <1>1, <1>2
<1> QED
  BY <1>3, NewsStart, Inductive, PTL DEF Spec

\* Whatever the interleaving of completions, workers and clients: the echo
\* server answers each client with its own units, each once and in order, from
\* buffers nobody has changed since (IOCPEchoServ_win.c:134); a client of the
\* server that broadcasts with send never sees a unit after a later one of the
\* same client (IOCPChatServ_win.c:144).
THEOREM SentInOrderHolds == Spec => []SentInOrder
<1>1. ASSUME News, NEW d \in Conns, NEW k \in 1 .. Len(got[d]) PROVE
         /\ Echo => got[d][k] = [from |-> d, num |-> k]
         /\ Synchronous => \A j \in 1 .. k :
               got[d][j].from = got[d][k].from => got[d][j].num <= got[d][k].num
  BY <1>1 DEF News, Answering, Seen
<1>2. News => SentInOrder
  BY <1>1 DEF SentInOrder
<1> QED
  BY <1>2, NewsInductive, PTL
=============================================================================
