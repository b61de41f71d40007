---------------------------- MODULE SocketsProofs ----------------------------
(* What the calls of Sockets do to the network, for any number of clients    *)
(* and descriptors: lemmas for the proofs about the servers that make them.  *)
EXTENDS Sockets, FiniteSetTheorems, SequenceTheorems, WellFoundedInduction, TLAPS

-----------------------------------------------------------------------------
(* The network.                                                              *)

LEMMA MinIsLeast ==
    ASSUME NEW S \in SUBSET Nat, S # {}
    PROVE  Min(S) \in S /\ \A y \in S : Min(S) <= y
<1> DEFINE R == {ss \in Nat \X Nat : ss[1] < ss[2]}
<1>1. IsWellFoundedOn(R, Nat)
  BY NatLessThanWellFounded DEF OpToRel
<1>2. PICK x \in S : \A y \in S : ~(<<y, x>> \in R)
  <2> HIDE DEF R
  <2> QED
    BY <1>1, WFMin
<1>3. ASSUME NEW y \in S PROVE x <= y
  <2>1. x \in Nat /\ y \in Nat /\ ~(<<y, x>> \in R)
    BY <1>2
  <2>2. y < x => <<y, x>> \in R
    BY <2>1
  <2> QED
    BY <2>1, <2>2
<1> QED
  BY <1>3 DEF Min

NetTyped ==
    /\ peer \in [Conns -> Peers] /\ backlog \in Seq(Conns)
    /\ sent \in [Conns -> Nat] /\ taken \in [Conns -> Nat]
    /\ owner \in [Fds -> Conns \cup {NoConn}]

Waiting(c) == \E k \in 1 .. Len(backlog) : backlog[k] = c

\* A connection is made once, waits for accept in one place, and is on one
\* descriptor after that.
OnePlace ==
    /\ \A c \in Conns : c \in Served \/ Waiting(c) => peer[c] # "none"
    /\ \A c \in Conns : ~(c \in Served /\ Waiting(c))
    /\ \A k, l \in 1 .. Len(backlog) : backlog[k] = backlog[l] => k = l
    /\ \A f, g \in Fds : owner[f] = owner[g] /\ owner[f] # NoConn => f = g

Network == NetTyped /\ OnePlace

LEMMA NetworkInit == ASSUME NetInit PROVE Network
<1>1. NetTyped
  BY DEF NetInit, NetTyped, Peers
<1>2. Served = {}
  BY SocketsAssumption DEF NetInit, Served
<1>3. OnePlace
  BY <1>2 DEF NetInit, OnePlace, Waiting
<1> QED
  BY <1>1, <1>3 DEF Network

LEMMA NetworkConnect ==
    ASSUME Network, NEW c \in Conns, Connect(c)
    PROVE  Network' /\ Served' = Served
<1> USE DEF Network
<1>0. /\ peer[c] = "none" /\ peer' = [peer EXCEPT ![c] = "open"]
      /\ backlog' = Append(backlog, c) /\ backlog \in Seq(Conns)
      /\ UNCHANGED <<sent, taken, owner>>
  BY DEF Connect, NetTyped
<1>1. /\ backlog' \in Seq(Conns) /\ Len(backlog') = Len(backlog) + 1
      /\ backlog'[Len(backlog) + 1] = c /\ Len(backlog) \in Nat
      /\ \A k \in 1 .. Len(backlog) : backlog'[k] = backlog[k]
  BY <1>0, AppendProperties
<1>2. NetTyped'
  BY <1>0, <1>1 DEF NetTyped, Peers
<1>3. Served' = Served
  BY <1>0 DEF Served
<1>4. c \notin Served /\ ~Waiting(c)
  BY <1>0 DEF OnePlace
<1>5. \A d \in Conns : Waiting(d)' => Waiting(d) \/ d = c
  BY <1>1 DEF Waiting
<1>6. \A d \in Conns : peer[d] # "none" => peer'[d] # "none"
  BY <1>0 DEF NetTyped
<1>7. peer'[c] # "none"
  BY <1>0 DEF NetTyped
<1>8. \A k, l \in 1 .. Len(backlog') : backlog'[k] = backlog'[l] => k = l
  BY <1>1, <1>4 DEF OnePlace, Waiting
<1> QED
  BY <1>0, <1>2, <1>3, <1>4, <1>5, <1>6, <1>7, <1>8 DEF OnePlace

LEMMA NetworkAccept ==
    ASSUME Network, NEW f \in Fds, AcceptAs(f), UNCHANGED <<peer, sent, taken>>
    PROVE  /\ Network'
           /\ Head(backlog) \in Conns \ Served
           /\ owner' = [owner EXCEPT ![f] = Head(backlog)]
           /\ Served' = Served \cup {Head(backlog)}
<1> USE DEF Network
<1> DEFINE c == Head(backlog)
<1>0. /\ backlog # <<>> /\ owner[f] = NoConn /\ backlog \in Seq(Conns)
      /\ owner' = [owner EXCEPT ![f] = c] /\ backlog' = Tail(backlog)
      /\ owner \in [Fds -> Conns \cup {NoConn}]
  BY DEF AcceptAs, NetTyped
<1>1. /\ c \in Conns /\ c = backlog[1] /\ Len(backlog) \in Nat /\ Len(backlog) >= 1
      /\ Tail(backlog) \in Seq(Conns) /\ Len(Tail(backlog)) = Len(backlog) - 1
      /\ \A k \in 1 .. Len(Tail(backlog)) : Tail(backlog)[k] = backlog[k + 1]
  BY <1>0, HeadTailProperties, EmptySeq
<1>2. Waiting(c)
  BY <1>1 DEF Waiting
<1>3. c \notin Served /\ peer[c] # "none"
  BY <1>1, <1>2 DEF OnePlace
<1> HIDE DEF c
<1>4. Served' = Served \cup {c}
  <2>1. \A d \in Conns : d \in Served' => d \in Served \cup {c}
    BY <1>0 DEF Served
  <2>2. c \in Served'
    BY <1>0, <1>1 DEF Served
  <2>3. ASSUME NEW d \in Served PROVE d \in Served'
    <3>1. PICK g \in Fds : owner[g] = d
      BY DEF Served
    <3>2. g # f /\ d \in Conns
      BY <1>0, <3>1, SocketsAssumption DEF Served
    <3> QED
      BY <1>0, <3>1, <3>2 DEF Served
  <2> QED
    BY <2>1, <2>2, <2>3 DEF Served
<1>5. NetTyped'
  BY <1>0, <1>1 DEF NetTyped
<1>6. \A d \in Conns : Waiting(d)' => Waiting(d) /\ d # c
  <2> SUFFICES ASSUME NEW k \in 1 .. Len(backlog')
               PROVE  /\ backlog'[k] # c
                      /\ \E l \in 1 .. Len(backlog) : backlog[l] = backlog'[k]
    BY DEF Waiting
  <2>1. k + 1 \in 1 .. Len(backlog) /\ backlog'[k] = backlog[k + 1]
        /\ 1 \in 1 .. Len(backlog) /\ k + 1 # 1
    BY <1>0, <1>1
  <2> QED
    BY <1>1, <2>1 DEF OnePlace
<1>7. \A k, l \in 1 .. Len(backlog') : backlog'[k] = backlog'[l] => k = l
  <2> SUFFICES ASSUME NEW k \in 1 .. Len(backlog'), NEW l \in 1 .. Len(backlog'),
                      backlog'[k] = backlog'[l]
               PROVE  k = l
    OBVIOUS
  <2>1. /\ k + 1 \in 1 .. Len(backlog) /\ backlog'[k] = backlog[k + 1]
        /\ l + 1 \in 1 .. Len(backlog) /\ backlog'[l] = backlog[l + 1]
    BY <1>0, <1>1
  <2>2. k + 1 = l + 1
    BY <2>1 DEF OnePlace
  <2> QED
    BY <1>0, <1>1, <2>2
<1>8. \A g, h \in Fds : owner'[g] = owner'[h] /\ owner'[g] # NoConn => g = h
  <2>1. \A g \in Fds : owner[g] # c
    BY <1>1, <1>3 DEF Served
  <2> QED
    BY <1>0, <2>1 DEF OnePlace
<1>9. OnePlace'
  BY <1>3, <1>4, <1>6, <1>7, <1>8 DEF OnePlace
<1> QED
  BY <1>0, <1>1, <1>3, <1>4, <1>5, <1>9 DEF c

\* The steps that only move connections on, or close one.
LEMMA NetworkOn ==
    ASSUME Network, NetTyped', UNCHANGED backlog,
           owner' = owner \/ \E f \in Fds : CloseFd(f),
           \A c \in Conns : peer[c] # "none" => peer'[c] # "none"
    PROVE  Network' /\ Served' \subseteq Served
<1> USE DEF Network
<1>1. \A f \in Fds : owner'[f] \in {owner[f], NoConn}
  BY DEF CloseFd, NetTyped
<1>2. Served' \subseteq Served
  BY <1>1, SocketsAssumption DEF Served
<1>3. \A c \in Conns : Waiting(c)' <=> Waiting(c)
  BY DEF Waiting
<1>4. \A f, g \in Fds : owner'[f] = owner'[g] /\ owner'[f] # NoConn => f = g
  BY <1>1 DEF OnePlace
<1>5. OnePlace'
  BY <1>2, <1>3, <1>4 DEF OnePlace
<1> QED
  BY <1>2, <1>5

LEMMA NetworkArrives ==
    ASSUME Network, NEW c \in Conns, ClientSend(c) \/ ClientShut(c) \/ ClientReset(c)
    PROVE  Network' /\ UNCHANGED Served
<1>0. /\ sent \in [Conns -> Nat] /\ taken[c] \in Nat /\ Quota[c] \in Nat
      /\ peer \in [Conns -> Peers] /\ taken \in [Conns -> Nat]
      /\ backlog \in Seq(Conns) /\ owner \in [Fds -> Conns \cup {NoConn}]
  BY SocketsAssumption DEF Network, NetTyped
<1>1. /\ UNCHANGED <<backlog, taken, owner>> /\ peer[c] = "open"
      /\ \E p \in {"open", "shut", "reset"} : peer' = [peer EXCEPT ![c] = p]
  BY <1>0 DEF ClientSend, ClientShut, ClientReset
<1>2. sent' \in [Conns -> Nat]
  <2>1. CASE ClientSend(c)
    BY <1>0, <2>1 DEF ClientSend
  <2>2. CASE ClientShut(c)
    BY <1>0, <2>2 DEF ClientShut
  <2>3. CASE ClientReset(c)
    BY <1>0, <2>3 DEF ClientReset
  <2> QED
    BY <2>1, <2>2, <2>3
<1>3. /\ peer' \in [Conns -> Peers]
      /\ \A d \in Conns : peer[d] # "none" => peer'[d] # "none"
  BY <1>0, <1>1 DEF Peers
<1>4. NetTyped'
  BY <1>0, <1>1, <1>2, <1>3 DEF NetTyped
<1> QED
  BY <1>1, <1>3, <1>4, NetworkOn DEF Served

\* The same for any number of connections closed in one step.
Shrinks == /\ owner' \in [Fds -> Conns \cup {NoConn}]
           /\ \A f \in Fds : owner'[f] \in {owner[f], NoConn}

LEMMA NetworkShrinks ==
    ASSUME Network, NetTyped', UNCHANGED backlog, Shrinks,
           \A c \in Conns : peer[c] # "none" => peer'[c] # "none"
    PROVE  Network' /\ Served' \subseteq Served
<1> USE DEF Network
<1>2. Served' \subseteq Served
  BY SocketsAssumption DEF Served, Shrinks
<1>3. \A c \in Conns : Waiting(c)' <=> Waiting(c)
  BY DEF Waiting
<1>4. \A f, g \in Fds : owner'[f] = owner'[g] /\ owner'[f] # NoConn => f = g
  BY DEF OnePlace, Shrinks
<1>5. OnePlace'
  BY <1>2, <1>3, <1>4 DEF OnePlace
<1> QED
  BY <1>2, <1>5

\* close gives up the connection of one descriptor.
LEMMA ServedClose ==
    ASSUME Network, NEW f \in Fds, CloseFd(f)
    PROVE  /\ Served' = Served \ {owner[f]}
           /\ owner' \in [Fds -> Conns \cup {NoConn}]
<1>0. owner' = [owner EXCEPT ![f] = NoConn] /\ owner \in [Fds -> Conns \cup {NoConn}]
  BY DEF CloseFd, Network, NetTyped
<1>1. ASSUME NEW c \in Served', c = owner[f] PROVE FALSE
  <2>1. PICK g \in Fds : owner'[g] = c
    BY <1>1 DEF Served
  <2>2. c \in Conns /\ c # NoConn
    BY <1>1, SocketsAssumption DEF Served
  <2>3. g # f /\ owner[g] = c
    BY <1>0, <2>1, <2>2
  <2> QED
    BY <1>1, <2>2, <2>3 DEF Network, OnePlace
<1>2. ASSUME NEW c \in Served, c # owner[f] PROVE c \in Served'
  BY <1>0, <1>2 DEF Served
<1>3. Served' \subseteq Served
  BY <1>0, SocketsAssumption DEF Served
<1> QED
  BY <1>0, <1>1, <1>2, <1>3

\* What a write does to the clients.
LEMMA TransmitStep ==
    ASSUME NetTyped, NEW cs, Transmit(cs)
    PROVE  /\ peer' \in [Conns -> Peers]
           /\ \A c \in Conns : \/ peer'[c] = peer[c]
                               \/ peer[c] \in {"shut", "reset"} /\ peer'[c] \in {"reset", "gone"}
<1>1. PICK refused \in SUBSET {c \in cs : peer[c] = "shut"} :
         peer' = [c \in Conns |->
                    IF c \in refused THEN IF OnWindows THEN "reset" ELSE "gone"
                    ELSE IF c \in cs /\ peer[c] = "reset" THEN Reported(c)
                    ELSE peer[c]]
  BY DEF Transmit
<1>2. ASSUME NEW c \in Conns
      PROVE  /\ peer'[c] \in Peers
             /\ \/ peer'[c] = peer[c]
                \/ peer[c] \in {"shut", "reset"} /\ peer'[c] \in {"reset", "gone"}
  BY <1>1 DEF Reported, NetTyped, Peers
<1> QED
  BY <1>1, <1>2

\* What a write does to them on Windows.
LEMMA WriteStep ==
    ASSUME NetTyped, OnWindows, NEW cs, NEW u, WriteTo(cs, u)
    PROVE  /\ peer' \in [Conns -> Peers]
           /\ \A c \in Conns : \/ peer'[c] = peer[c]
                               \/ peer[c] = "shut" /\ peer'[c] = "reset"
<1>1. PICK refused \in SUBSET {c \in cs : peer[c] = "shut"} :
         peer' = [c \in Conns |->
                    IF c \in refused THEN "reset"
                    ELSE IF c \in cs /\ peer[c] = "reset" THEN peer[c]
                    ELSE peer[c]]
  BY DEF WriteTo, Transmit, Reported
<1> QED
  BY <1>1 DEF NetTyped, Peers

\* Reading a unit and passing it on, or not.
LEMMA ReadStep ==
    ASSUME NetTyped, OnWindows, NEW c \in Conns, NEW cs, NEW u,
           \/ TakeUnit(c) /\ WriteTo(cs, u)
           \/ UNCHANGED <<taken, peer, got>>
    PROVE  /\ peer' \in [Conns -> Peers] /\ taken' \in [Conns -> Nat]
           /\ \A d \in Conns : \/ peer'[d] = peer[d]
                               \/ peer[d] = "shut" /\ peer'[d] = "reset"
           /\ \A d \in Conns \ {c} : taken'[d] = taken[d]
<1>1. CASE TakeUnit(c) /\ WriteTo(cs, u)
  BY <1>1, WriteStep DEF TakeUnit, NetTyped
<1>2. CASE UNCHANGED <<taken, peer, got>>
  BY <1>2 DEF NetTyped
<1> QED
  BY <1>1, <1>2

-----------------------------------------------------------------------------
(* What a client has been sent.                                              *)

LEMMA CarriesNone ==
    ASSUME NEW c, NEW n \in Nat
    PROVE  Carries(<<>>, c, n, n)
<1>1. n + 1 .. n = {} /\ 1 .. Len(<<>>) = {}
  OBVIOUS
<1> QED
  BY <1>1 DEF Carries

\* One unit more.
LEMMA CarriesNext ==
    ASSUME NEW s \in Seq(Unit), NEW c \in Conns, NEW m \in Nat, NEW n \in Int,
           NEW u \in Unit, u.from = c, u.num = n + 1,
           Carries(s, c, m, n)
    PROVE  Carries(Append(s, u), c, m, n + 1)
<1> DEFINE z == Append(s, u)
           A == {k \in 1 .. Len(s) : s[k].from = c}
           Z == {k \in 1 .. Len(z) : z[k].from = c}
<1>1. /\ m <= n /\ {s[k].num : k \in A} = m + 1 .. n
      /\ \A j, k \in A : j < k => s[j].num < s[k].num
  BY DEF Carries
<1>2. /\ Len(s) \in Nat /\ Len(z) = Len(s) + 1 /\ z[Len(s) + 1] = u
      /\ \A k \in 1 .. Len(s) : z[k] = s[k]
  BY AppendProperties
<1> HIDE DEF z
<1>3. Z = A \cup {Len(s) + 1}
  BY <1>2
<1>4. \A k \in A : k \in 1 .. Len(s) /\ z[k] = s[k] /\ s[k].num \in m + 1 .. n
  BY <1>1, <1>2
<1>5. {z[k].num : k \in Z} = {s[k].num : k \in A} \cup {n + 1}
  BY <1>2, <1>3, <1>4, SMTT(30)
<1>6. {z[k].num : k \in Z} = m + 1 .. n + 1
  <2>1. m + 1 .. n + 1 = (m + 1 .. n) \cup {n + 1}
    BY <1>1
  <2> HIDE DEF A, Z
  <2> QED
    BY <1>1, <1>5, <2>1
<1>7. \A j, k \in Z : j < k => z[j].num < z[k].num
  <2> SUFFICES ASSUME NEW j \in Z, NEW k \in Z, j < k PROVE z[j].num < z[k].num
    OBVIOUS
  <2>1. j \in A
    BY <1>2, <1>3
  <2>2. CASE k \in A
    BY <1>1, <1>4, <2>1, <2>2
  <2>3. CASE k = Len(s) + 1
    BY <1>2, <1>4, <2>1, <2>3
  <2> QED
    BY <1>3, <2>2, <2>3
<1>8. m <= n + 1 /\ n + 1 \in Int
  BY <1>1
<1> QED
  BY <1>6, <1>7, <1>8 DEF Carries, z

\* A unit of another client in between.
LEMMA CarriesOther ==
    ASSUME NEW s \in Seq(Unit), NEW c, NEW m, NEW n, NEW u \in Unit, u.from # c,
           Carries(s, c, m, n)
    PROVE  Carries(Append(s, u), c, m, n)
<1> DEFINE z == Append(s, u)
           A == {k \in 1 .. Len(s) : s[k].from = c}
           Z == {k \in 1 .. Len(z) : z[k].from = c}
<1>1. /\ m <= n /\ {s[k].num : k \in A} = m + 1 .. n
      /\ \A j, k \in A : j < k => s[j].num < s[k].num
  BY DEF Carries
<1>2. /\ Len(s) \in Nat /\ Len(z) = Len(s) + 1 /\ z[Len(s) + 1] = u
      /\ \A k \in 1 .. Len(s) : z[k] = s[k]
  BY AppendProperties
<1> HIDE DEF z
<1>3. Z = A /\ \A k \in A : z[k] = s[k]
  BY <1>2
<1>4. {z[k].num : k \in Z} = {s[k].num : k \in A}
  BY <1>3
<1>5. \A j, k \in Z : j < k => z[j].num < z[k].num
  BY <1>1, <1>3
<1> QED
  BY <1>1, <1>4, <1>5 DEF Carries, z

-----------------------------------------------------------------------------
(* The steps of the servers and their clients, as far as the network and its *)
(* history go.                                                               *)

Noted == got \in [Conns -> Seq(Unit)] /\ since \in [Conns -> [Conns -> Nat]]

Netted == Network /\ Noted

LEMMA NettedTypes == ASSUME Netted PROVE NetTypeOK
BY DEF Netted, Network, NetTyped, Noted, NetTypeOK

LEMMA NettedInit == ASSUME NetInit PROVE Netted
BY NetworkInit DEF NetInit, Netted, Noted

LEMMA NettedIdle ==
    ASSUME Netted, UNCHANGED net
    PROVE  Netted'
BY DEF net, Netted, Network, NetTyped, OnePlace, Noted, Served, Waiting, Unit

LEMMA NettedClient ==
    ASSUME Netted, NEW c \in Conns,
           Connect(c) \/ ClientSend(c) \/ ClientShut(c) \/ ClientReset(c)
    PROVE  Netted' /\ Served' = Served /\ UNCHANGED <<taken, got, since>>
<1>1. UNCHANGED <<taken, got, since>>
  BY DEF Connect, ClientSend, ClientShut, ClientReset
<1>2. Network' /\ Served' = Served
  BY NetworkConnect, NetworkArrives DEF Netted
<1> QED
  BY <1>1, <1>2 DEF Netted, Noted, Unit

LEMMA NettedAccept ==
    ASSUME Netted, NEW f \in Fds, AcceptAs(f), UNCHANGED <<peer, sent, taken, got>>
    PROVE  Netted'
<1>1. Network' /\ Head(backlog) \in Conns
  BY NetworkAccept DEF Netted
<1>2. since' \in [Conns -> [Conns -> Nat]]
  BY <1>1 DEF AcceptAs, Netted, Noted, Network, NetTyped
<1> QED
  BY <1>1, <1>2 DEF Netted, Noted, Unit

\* How far the clients have got, after a step of the server.
Moves == /\ peer' \in [Conns -> Peers]
         /\ \A c \in Conns : /\ peer[c] # "none" <=> peer'[c] # "none"
                             /\ peer[c] = "open" <=> peer'[c] = "open"

LEMMA MovesNot == ASSUME NetTyped, UNCHANGED peer PROVE Moves
BY DEF NetTyped, Moves

LEMMA MovesTransmit == ASSUME NetTyped, NEW cs, Transmit(cs) PROVE Moves
BY TransmitStep DEF Moves

LEMMA MovesFail ==
    ASSUME NetTyped, NEW c, Failed(c), peer' = [peer EXCEPT ![c] = Reported(c)]
    PROVE  Moves
BY DEF NetTyped, Peers, Failed, Reported, Moves

LEMMA NettedOn ==
    ASSUME Netted, Moves, Shrinks, UNCHANGED <<backlog, sent, since>>,
           taken' \in [Conns -> Nat], got' \in [Conns -> Seq(Unit)]
    PROVE  Netted' /\ Served' \subseteq Served
<1>1. NetTyped'
  BY DEF Netted, Network, NetTyped, Moves, Shrinks
<1>2. Network' /\ Served' \subseteq Served
  BY <1>1, NetworkShrinks DEF Netted, Moves
<1> QED
  BY <1>2 DEF Netted, Noted, Unit

\* What a write does to what the clients have been sent.
LEMMA WriteTyped ==
    ASSUME Netted, NEW cs, NEW u \in Unit, WriteTo(cs, u)
    PROVE  /\ Moves
           /\ got' \in [Conns -> Seq(Unit)]
           /\ \A d \in Conns : IF d \in cs /\ peer[d] = "open"
                               THEN got'[d] = Append(got[d], u)
                               ELSE got'[d] = got[d]
<1>1. Moves
  BY MovesTransmit DEF WriteTo, Netted, Network
<1>2. got' = [d \in Conns |-> IF d \in cs /\ peer[d] = "open"
                              THEN Append(got[d], u) ELSE got[d]]
  BY DEF WriteTo
<1>3. \A d \in Conns : got[d] \in Seq(Unit) /\ Append(got[d], u) \in Seq(Unit)
  BY AppendProperties DEF Netted, Noted
<1> QED
  BY <1>1, <1>2, <1>3

LEMMA TakeTyped ==
    ASSUME NetTyped, NEW c \in Conns, TakeUnit(c)
    PROVE  /\ taken' \in [Conns -> Nat] /\ taken'[c] = taken[c] + 1
           /\ \A d \in Conns \ {c} : taken'[d] = taken[d]
           /\ NextUnit(c) \in Unit
BY DEF NetTyped, TakeUnit, NextUnit, Unit
=============================================================================
