----------------------- MODULE ThreadChatServerProofs -----------------------
(* Theorems about ThreadChatServer for any number of clients, descriptors    *)
(* and messages.                                                             *)
EXTENDS ThreadChatServer, FiniteSetTheorems, TLAPS

-----------------------------------------------------------------------------
(* Type correctness.                                                         *)

\* The connection main has in hand is a new one; a thread exists once main has
\* accepted something, and has a socket once it has started; only the thread
\* that holds the mutex is in the loop of send_msg.
Shape ==
    /\ mpc \in {"register", "create"} =>
          last \in Conns /\ pc[last] = "none" /\ peer[last] # "none"
    /\ mpc = "accept" => last = NoConn
    /\ mpc # "accept" \/ (\E c \in Conns : peer[c] # "none") => clntSock \in Fds
    /\ \A c \in Conns :
          /\ peer[c] = "none" => pc[c] = "none"
          /\ pc[c] \notin {"none", "start"} => sock[c] \in Fds
          /\ pc[c] \in {"none", "start"} => sock[c] = NoFd

\* The mutex is held by the thread in the loop of send_msg, and by no other.
LockHeld == \A t \in Conns : mutex = t <=> pc[t] = "send"

Typed == TypeOK /\ Shape /\ LockHeld

LEMMA TypeInit == Init => Typed
<1> SUFFICES ASSUME Init PROVE Typed
  OBVIOUS
<1>1. got \in [Conns -> Seq(Message)]
  BY DEF Init
<1>2. clntSocks \in [Slots -> Fds \cup {NoFd}]
  BY DEF Init
<1>3. TypeOK
  BY <1>1, <1>2 DEF Init, TypeOK
<1>4. Shape /\ LockHeld
  BY NullAssumption DEF Init, Shape, LockHeld
<1> QED
  BY <1>3, <1>4 DEF Typed

LEMMA TypeClient ==
    ASSUME Typed, NEW c \in Conns, ClientSend(c) \/ ClientShut(c) \/ ClientReset(c)
    PROVE  Typed'
<1> SUFFICES ASSUME TypeOK, Shape, LockHeld PROVE TypeOK' /\ Shape' /\ LockHeld'
  BY DEF Typed
<1>1. CASE ClientSend(c)
  <2>1. sent[c] + 1 \in Nat
    BY DEF TypeOK
  <2> QED
    BY <1>1, <2>1 DEF TypeOK, Shape, LockHeld, ClientSend, registry, main, threads
<1>2. CASE ClientShut(c)
  BY <1>2 DEF TypeOK, Shape, LockHeld, ClientShut, registry, main, threads
<1>3. CASE ClientReset(c)
  <2>1. sent' \in [Conns -> Nat]
    BY <1>3 DEF TypeOK, ClientReset
  <2> QED
    BY <1>3, <2>1 DEF TypeOK, Shape, LockHeld, ClientReset, registry, main, threads
<1> QED
  BY <1>1, <1>2, <1>3

LEMMA TypeMain == Typed /\ MainStep => Typed'
<1> SUFFICES ASSUME TypeOK, Shape, LockHeld, MainStep
             PROVE  TypeOK' /\ Shape' /\ LockHeld'
  BY DEF Typed
<1>1. ASSUME NEW c \in Conns, NEW f \in Fds, Accept(c, f)
      PROVE  TypeOK' /\ Shape' /\ LockHeld'
  BY <1>1 DEF TypeOK, Shape, LockHeld, Accept, MainGoto, registry
<1>2. ASSUME Register PROVE TypeOK' /\ Shape' /\ LockHeld'
  BY <1>2 DEF TypeOK, Shape, LockHeld, Register, MainGoto, net, threads
<1>3. ASSUME CreateThread PROVE TypeOK' /\ Shape' /\ LockHeld'
  BY <1>3 DEF TypeOK, Shape, LockHeld, CreateThread, MainGoto, net, registry
<1> QED
  BY <1>1, <1>2, <1>3 DEF MainStep

\* What a descriptor may denote, and what a write may do to it.
LEMMA RecipientsType ==
    ASSUME TypeOK, NEW k \in Nat
    PROVE  Recipients(k) \subseteq Conns \cup {NoConn}
BY DEF TypeOK, Recipients, Loaded

LEMMA WrittenType ==
    ASSUME TypeOK, NEW c \in Conns
    PROVE  /\ Written(c) \subseteq {"none", "open", "shut", "gone", "reset"}
           /\ \A p \in Written(c) : (p = "open" <=> peer[c] = "open")
                                 /\ (p = "none" <=> peer[c] = "none")
<1>1. peer[c] \in {"none", "open", "shut", "gone", "reset"}
  BY DEF TypeOK
<1>2. CASE peer[c] = "shut"
  BY <1>2 DEF Written
<1>3. CASE peer[c] = "reset"
  BY <1>3 DEF Written, ErrorReported
<1>4. CASE peer[c] \notin {"shut", "reset"}
  BY <1>1, <1>4 DEF Written
<1> QED
  BY <1>2, <1>3, <1>4

\* A write changes what one client got and how far it has got, if anything.
LEMMA SendOneEffect ==
    ASSUME Typed, NEW t \in Conns, SendOne(t)
    PROVE  /\ peer' \in [Conns -> {"none", "open", "shut", "gone", "reset"}]
           /\ \A c \in Conns : /\ peer'[c] = "open" <=> peer[c] = "open"
                               /\ peer'[c] = "none" <=> peer[c] = "none"
           /\ \/ got' = got
              \/ \E c \in Conns : /\ c \in Recipients(idx[t]) /\ peer[c] = "open"
                                  /\ msg[t] \in Message
                                  /\ got' = [got EXCEPT ![c] = Append(@, msg[t])]
           /\ got' \in [Conns -> Seq(Message)]
<1>1. PICK c \in Recipients(idx[t]) :
          IF c = NoConn \/ msg[t] = Error
          THEN UNCHANGED <<peer, got>>
          ELSE /\ peer[c] # "gone"
               /\ \E p \in Written(c) : peer' = [peer EXCEPT ![c] = p]
               /\ got' = IF peer[c] = "open"
                         THEN [got EXCEPT ![c] = Append(@, msg[t])] ELSE got
  BY DEF SendOne
<1>2. idx[t] \in Nat /\ msg[t] \in Message \cup {Error}
  BY DEF Typed, TypeOK
<1>3. c \in Conns \cup {NoConn}
  BY <1>2, RecipientsType DEF Typed
<1>4. CASE c = NoConn \/ msg[t] = Error
  BY <1>1, <1>4 DEF Typed, TypeOK
<1>5. CASE c # NoConn /\ msg[t] # Error
  <2>1. c \in Conns /\ msg[t] \in Message
    BY <1>2, <1>3, <1>5
  <2>2. PICK p \in Written(c) : peer' = [peer EXCEPT ![c] = p]
    BY <1>1, <1>5
  <2>3. /\ p \in {"none", "open", "shut", "gone", "reset"}
        /\ p = "open" <=> peer[c] = "open"
        /\ p = "none" <=> peer[c] = "none"
    BY <2>1, <2>2, WrittenType DEF Typed
  <2>4. Append(got[c], msg[t]) \in Seq(Message)
    BY <2>1 DEF Typed, TypeOK
  <2> QED
    BY <1>1, <1>5, <2>1, <2>2, <2>3, <2>4 DEF Typed, TypeOK
<1> QED
  BY <1>4, <1>5

LEMMA TypeThread ==
    ASSUME Typed, NEW t \in Conns, ThreadStep(t), Running
    PROVE  Typed'
<1> SUFFICES ASSUME TypeOK, Shape, LockHeld PROVE TypeOK' /\ Shape' /\ LockHeld'
  BY DEF Typed
<1>1. CASE Start(t)
  <2>1. clntSock \in Fds
    BY <1>1 DEF Start, Shape
  <2> QED
    BY <1>1, <2>1 DEF TypeOK, Shape, LockHeld, Start, Goto, net, registry, main
<1>2. CASE ReadMessage(t)
  <2>1. sock[t] \in Fds
    BY <1>2 DEF ReadMessage, Shape
  <2> DEFINE c == owner[sock[t]]
  <2>2. c \in Conns /\ taken[c] + 1 \in Nat
    BY <1>2, <2>1, SMTT(30) DEF ReadMessage, TypeOK
  <2>3. [from |-> c, num |-> taken[c] + 1] \in Message
    BY <2>2 DEF Message
  <2> QED
    BY <1>2, <2>2, <2>3 DEF TypeOK, Shape, LockHeld, ReadMessage, Goto, registry, main
<1>3. CASE ReadEof(t)
  BY <1>3 DEF TypeOK, Shape, LockHeld, ReadEof, Goto, net, registry, main
<1>4. CASE ReadError(t)
  <2>1. /\ peer' \in [Conns -> {"none", "open", "shut", "gone", "reset"}]
        /\ \A c \in Conns : peer'[c] = "none" <=> peer[c] = "none"
    <3>1. sock[t] \in Fds
      BY <1>4 DEF ReadError, Shape
    <3>2. owner[sock[t]] \in Conns \cup {NoConn}
      BY <3>1 DEF TypeOK
    <3> QED
      BY <1>4, <3>2 DEF ReadError, ErrorReported, TypeOK
  <2>2. msg' = [msg EXCEPT ![t] = Error] /\ pc' = [pc EXCEPT ![t] = "lock"]
        /\ pc[t] = "read"
        /\ UNCHANGED <<sent, taken, owner, got, registry, mutex, main,
                       sock, idx, fdOf>>
    BY <1>4 DEF ReadError, Goto
  <2> QED
    BY <2>1, <2>2, SMTT(30) DEF TypeOK, Shape, LockHeld, registry, main
<1>5. CASE SendLock(t)
  BY <1>5, NullAssumption DEF TypeOK, Shape, LockHeld, SendLock, Goto, net, registry, main
<1>6. CASE SendOne(t)
  <2>1. idx' \in [Conns -> Nat]
    BY <1>6 DEF SendOne, TypeOK
  <2>2. UNCHANGED <<sent, taken, owner, registry, mutex, main, pc, sock, msg, fdOf>>
    BY <1>6 DEF SendOne
  <2> QED
    BY <1>6, <2>1, <2>2, SendOneEffect DEF TypeOK, Shape, LockHeld, registry, main
<1>7. CASE SendPipe(t)
  <2>1. \E c \in Conns : peer[c] # "none"
    BY <1>7 DEF SendPipe, Shape
  <2> QED
    BY <1>7, <2>1 DEF TypeOK, Shape, LockHeld, SendPipe, MainGoto, net, registry, threads
<1>8. CASE SendDone(t)
  BY <1>8, NullAssumption DEF TypeOK, Shape, LockHeld, SendDone, Goto, net, registry, main
<1>9. CASE Remove(t)
  <2>1. clntSocks' \in [Slots -> Fds \cup {NoFd}] /\ clntCnt' \in Int
    <3>1. PICK past \in Loaded(clntCnt - 1) :
             clntSocks' = ShiftFrom(IndexOf(sock[t]), past)
      BY <1>9 DEF Remove
    <3>2. past \in Fds \cup {NoFd}
      BY DEF TypeOK, Loaded
    <3>3. \A k \in Slots : Following(k, past) \in Fds \cup {NoFd}
      BY <3>2 DEF TypeOK, Following
    <3>4. clntSocks' \in [Slots -> Fds \cup {NoFd}]
      BY <3>1, <3>3 DEF TypeOK, ShiftFrom, ShiftLinux, ShiftWindows
    <3> QED
      BY <1>9, <3>4 DEF Remove, TypeOK
  <2> QED
    BY <1>9, <2>1 DEF TypeOK, Shape, LockHeld, Remove, Goto, net, main
<1>10. CASE Close(t)
  BY <1>10 DEF TypeOK, Shape, LockHeld, Close, Goto, registry, main
<1> QED
  BY <1>1, <1>2, <1>3, <1>4, <1>5, <1>6, <1>7, <1>8, <1>9, <1>10 DEF ThreadStep

LEMMA TypeStep == Typed /\ [Next]_vars => Typed'
<1>1. Typed /\ UNCHANGED vars => Typed'
  BY DEF Typed, TypeOK, Shape, LockHeld, vars, net, registry, main, threads
<1> QED
  BY <1>1, TypeMain, TypeThread, TypeClient DEF Next, Thread

LEMMA TypedAlways == Spec => []Typed
BY TypeInit, TypeStep, PTL DEF Spec

\* The state stays within its types in every behaviour: in particular no
\* thread reads a socket before main has one for it.
THEOREM TypeCorrect == Spec => []TypeOK
<1>1. Typed => TypeOK
  BY DEF Typed
<1> QED
  BY <1>1, TypedAlways, PTL

-----------------------------------------------------------------------------
(* The counter.                                                              *)

\* clnt_cnt counts the registered connections while the program runs, also
\* while send_msg holds the mutex; SIGPIPE ends the program inside send_msg.
Balanced ==
    /\ Running => IsFiniteSet(Registered) /\ clntCnt = Cardinality(Registered)
    /\ ~Running => mutex # Free

\* The set of registered connections changes only where main registers one and
\* where a thread takes its own out.
LEMMA RegisteredGrows ==
    ASSUME Typed, Register
    PROVE  /\ last \in Conns /\ last \notin Registered
           /\ Registered' = Registered \cup {last}
<1>1. /\ mpc = "register" /\ mpc' = "create" /\ last' = last /\ pc' = pc
      /\ last \in Conns /\ pc[last] = "none"
  BY DEF Typed, Shape, Register, MainGoto, threads
<1> QED
  BY <1>1 DEF Registered

LEMMA RegisteredShrinks ==
    ASSUME Typed, NEW t \in Conns, Remove(t)
    PROVE  t \in Registered /\ Registered' = Registered \ {t}
<1>1. /\ pc[t] = "leave" /\ pc' = [pc EXCEPT ![t] = "close"]
      /\ mpc' = mpc /\ last' = last
  BY DEF Remove, Goto, main
<1>2. mpc = "create" => last # t
  BY <1>1 DEF Typed, Shape
<1> QED
  BY <1>1, <1>2 DEF Registered, Typed, TypeOK

LEMMA RegisteredSame ==
    ASSUME Typed, [Next]_vars, ~Register, ~ \E t \in Conns : Remove(t),
           ~ \E t \in Conns : SendPipe(t)
    PROVE  /\ Registered' = Registered /\ clntCnt' = clntCnt
           /\ clntSocks' = clntSocks /\ (Running' <=> Running)
           /\ mpc = "dead" => mutex' = mutex
<1>1. ASSUME NEW c \in Conns, NEW f \in Fds, Accept(c, f)
      PROVE  /\ Registered' = Registered /\ UNCHANGED registry
             /\ mpc # "dead" /\ mpc' # "dead"
  BY <1>1 DEF Accept, MainGoto, Registered
<1>2. ASSUME CreateThread
      PROVE  /\ Registered' = Registered /\ UNCHANGED registry
             /\ mpc # "dead" /\ mpc' # "dead"
  <2>1. last \in Conns /\ pc[last] = "none" /\ mpc = "create" /\ mpc' = "accept"
        /\ pc' = [pc EXCEPT ![last] = "start"] /\ UNCHANGED registry
    BY <1>2 DEF CreateThread, MainGoto, Typed, Shape
  <2> QED
    BY <2>1 DEF Registered, Typed, TypeOK
<1>3. ASSUME NEW t \in Conns, ThreadStep(t), Running
      PROVE  /\ Registered' = Registered /\ UNCHANGED registry
             /\ mpc # "dead" /\ mpc' # "dead"
  <2>1. UNCHANGED <<registry, mpc, last>>
    BY <1>3 DEF ThreadStep, Start, ReadMessage, ReadEof, ReadError, SendLock,
                SendOne, SendDone, Close, main
  <2>2. \/ pc' = pc
        \/ /\ pc[t] \in {"start", "read", "lock", "send"}
           /\ \E l \in {"read", "lock", "send", "leave"} :
                 pc' = [pc EXCEPT ![t] = l]
        \/ pc[t] = "close" /\ pc' = [pc EXCEPT ![t] = "end"]
    BY <1>3 DEF ThreadStep, Start, ReadMessage, ReadEof, ReadError, SendLock,
                SendOne, SendDone, Close, Goto
  <2> QED
    BY <1>3, <2>1, <2>2 DEF Registered, Typed, TypeOK, Running
<1>4. ASSUME NEW c \in Conns, ClientSend(c) \/ ClientShut(c) \/ ClientReset(c)
      PROVE  UNCHANGED <<registry, main, threads, mutex>>
  BY <1>4 DEF ClientSend, ClientShut, ClientReset
<1>5. ASSUME UNCHANGED vars
      PROVE  UNCHANGED <<registry, main, threads, mutex>>
  BY <1>5 DEF vars
<1>6. ASSUME UNCHANGED <<registry, main, threads, mutex>>
      PROVE  Registered' = Registered /\ UNCHANGED <<registry, mpc, mutex>>
  BY <1>6 DEF Registered, main, threads
<1> QED
  BY <1>1, <1>2, <1>3, <1>4, <1>5, <1>6
  DEF Next, MainStep, Thread, Running, registry

LEMMA BalancedInit == Init => Balanced
<1> SUFFICES ASSUME Init PROVE Balanced
  OBVIOUS
<1>1. Registered = {}
  BY DEF Init, Registered
<1> QED
  BY <1>1, FS_EmptySet DEF Init, Balanced, Running

LEMMA BalancedStep == Typed /\ Balanced /\ [Next]_vars => Balanced'
<1> SUFFICES ASSUME Typed, Balanced, [Next]_vars PROVE Balanced'
  OBVIOUS
<1>1. Running => IsFiniteSet(Registered) /\ Cardinality(Registered) \in Nat
  BY FS_CardinalityType DEF Balanced
<1>2. CASE Register
  <2>2. clntCnt' = clntCnt + 1 /\ mpc = "register" /\ mpc' = "create"
    BY <1>2 DEF Register, MainGoto
  <2>1. IsFiniteSet(Registered') /\ Cardinality(Registered') = Cardinality(Registered) + 1
    BY <1>1, <1>2, <2>2, RegisteredGrows, FS_AddElement DEF Running
  <2> QED
    BY <2>1, <2>2 DEF Balanced, Running
<1>3. ASSUME NEW t \in Conns, Remove(t) PROVE Balanced'
  <2>1. Running => /\ IsFiniteSet(Registered')
                   /\ Cardinality(Registered') = Cardinality(Registered) - 1
    BY <1>1, <1>3, RegisteredShrinks, FS_RemoveElement
  <2>2. /\ clntCnt' = clntCnt - 1 /\ mpc' = mpc /\ mutex' = mutex
        /\ mutex = Free
    BY <1>3 DEF Remove, main
  <2> QED
    BY <2>1, <2>2 DEF Balanced, Running
<1>4. ASSUME NEW t \in Conns, SendPipe(t) PROVE Balanced'
  <2>1. mutex = t /\ mutex' = mutex /\ mpc' = "dead"
    BY <1>4 DEF SendPipe, MainGoto, Typed, LockHeld
  <2> QED
    BY <2>1, NullAssumption DEF Balanced, Running
<1>5. CASE ~Register /\ (~ \E t \in Conns : Remove(t))
                     /\ ~ \E t \in Conns : SendPipe(t)
  <2>1. /\ Registered' = Registered /\ clntCnt' = clntCnt
        /\ Running' <=> Running
        /\ mpc = "dead" => mutex' = mutex
    BY <1>5, RegisteredSame
  <2> QED
    BY <2>1 DEF Balanced, Running
<1> QED
  BY <1>2, <1>3, <1>4, <1>5

LEMMA BalancedAlways == Spec => []Balanced
BY BalancedInit, BalancedStep, TypedAlways, PTL DEF Spec

\* clnt_cnt is the number of connections registered and not yet taken out
\* whenever the mutex is free, on both platforms and whatever sockets the
\* threads got.
THEOREM CountBalancedHolds == Spec => []CountBalanced
<1>1. Balanced => CountBalanced
  BY DEF Balanced, CountBalanced
<1> QED
  BY <1>1, BalancedAlways, PTL

\* At most one thread at a time writes a message to the clients.
THEOREM OneSender ==
    Spec => [](\A t, u \in Conns : pc[t] = "send" /\ pc[u] = "send" => t = u)
<1>1. Typed => \A t, u \in Conns : pc[t] = "send" /\ pc[u] = "send" => t = u
  BY DEF Typed, LockHeld
<1> QED
  BY <1>1, TypedAlways, PTL

-----------------------------------------------------------------------------
(* The order of messages.                                                    *)

\* Thread t is about to write, or writing, the message it has read.
Carrying(t) == pc[t] \in {"lock", "send"} /\ msg[t] # Error

\* Nothing was written, and no thread carries, what has not been read; two
\* threads never carry one message; a message that waits for the mutex was
\* written to nobody; one that is being written is the last one everywhere.
Serial ==
    /\ \A c \in Conns : \A i \in 1 .. Len(got[c]) :
          got[c][i].num <= taken[got[c][i].from]
    /\ \A t \in Conns : Carrying(t) => msg[t].num <= taken[msg[t].from]
    /\ \A t, u \in Conns :
          Carrying(t) /\ Carrying(u) /\ msg[t] = msg[u] => t = u
    /\ \A t \in Conns : Carrying(t) /\ pc[t] = "lock" =>
          \A c \in Conns : \A i \in 1 .. Len(got[c]) : got[c][i] # msg[t]
    /\ \A t \in Conns : Carrying(t) /\ pc[t] = "send" =>
          \A c \in Conns : \A i, j \in 1 .. Len(got[c]) :
             i <= j /\ got[c][i] = msg[t] => got[c][j] = msg[t]

LEMMA SerialInit == Init => Serial /\ AgreedOrder
<1> SUFFICES ASSUME Init PROVE Serial /\ AgreedOrder
  OBVIOUS
<1>1. /\ \A c \in Conns : Len(got[c]) = 0
      /\ \A t \in Conns : ~Carrying(t)
  BY DEF Init, Carrying
<1> QED
  BY <1>1 DEF Serial, AgreedOrder

LEMMA OrderStays == ASSUME AgreedOrder, got' = got PROVE AgreedOrder'
BY SMTT(30) DEF AgreedOrder

\* A step that reads nothing, writes nothing and picks up nothing keeps order.
LEMMA SerialQuiet ==
    ASSUME Typed, Serial, AgreedOrder, got' = got, taken' = taken,
           \A t \in Conns : Carrying(t)' =>
              Carrying(t) /\ msg'[t] = msg[t] /\ pc'[t] = pc[t]
    PROVE  Serial' /\ AgreedOrder'
<1>1. AgreedOrder'
  BY OrderStays
<1> QED
  BY <1>1 DEF Serial

LEMMA SerialRead ==
    ASSUME Typed, Serial, AgreedOrder, NEW t \in Conns, ReadMessage(t)
    PROVE  Serial' /\ AgreedOrder'
<1> DEFINE c == owner[sock[t]]
           m == [from |-> c, num |-> taken[c] + 1]
<1>1. /\ taken' = [taken EXCEPT ![c] = @ + 1] /\ msg' = [msg EXCEPT ![t] = m]
      /\ pc' = [pc EXCEPT ![t] = "lock"] /\ got' = got /\ pc[t] = "read"
  BY DEF ReadMessage, Goto
<1>2. c \in Conns
  BY DEF ReadMessage, Typed, TypeOK, Shape
<1>3. /\ \A d \in Conns : taken[d] \in Nat /\ taken'[d] \in Nat
                          /\ taken[d] <= taken'[d]
      /\ taken'[c] = taken[c] + 1
  <2>1. taken \in [Conns -> Nat]
    BY DEF Typed, TypeOK
  <2>2. taken[c] + 1 \in Nat /\ taken[c] <= taken[c] + 1
    BY <1>2, <2>1
  <2> HIDE DEF c
  <2> QED
    BY <1>1, <1>2, <2>1, <2>2
<1>4. \A d \in Conns : \A i \in 1 .. Len(got[d]) :
         /\ got[d][i] \in Message /\ got[d][i].num <= taken[got[d][i].from]
         /\ got[d][i] # m
  <2> SUFFICES ASSUME NEW d \in Conns, NEW i \in 1 .. Len(got[d])
               PROVE  /\ got[d][i] \in Message /\ got[d][i] # m
                      /\ got[d][i].num <= taken[got[d][i].from]
    OBVIOUS
  <2>1. got[d][i] \in Message
    BY DEF Typed, TypeOK
  <2>2. got[d][i].num <= taken[got[d][i].from]
    BY DEF Serial
  <2> QED
    BY <1>2, <1>3, <2>1, <2>2 DEF Message
<1>5. /\ msg'[t] = m /\ pc'[t] = "lock"
      /\ \A u \in Conns \ {t} : /\ msg'[u] = msg[u] /\ pc'[u] = pc[u]
                                /\ Carrying(u)' <=> Carrying(u)
  BY <1>1 DEF Typed, TypeOK, Carrying
<1>6. \A u \in Conns : Carrying(u) =>
         /\ msg[u] \in Message /\ msg[u].num <= taken[msg[u].from]
         /\ msg[u] # m
  <2> SUFFICES ASSUME NEW u \in Conns, Carrying(u)
               PROVE  /\ msg[u] \in Message /\ msg[u] # m
                      /\ msg[u].num <= taken[msg[u].from]
    OBVIOUS
  <2>1. msg[u] \in Message
    BY DEF Carrying, Typed, TypeOK
  <2>2. msg[u].num <= taken[msg[u].from]
    BY DEF Serial
  <2> QED
    BY <1>2, <1>3, <2>1, <2>2 DEF Message
<1>7. \A d \in Conns : \A i \in 1 .. Len(got'[d]) :
         got'[d][i].num <= taken'[got'[d][i].from]
  <2> SUFFICES ASSUME NEW d \in Conns, NEW i \in 1 .. Len(got[d])
               PROVE  got[d][i].num <= taken'[got[d][i].from]
    BY <1>1
  <2>1. got[d][i].from \in Conns /\ got[d][i].num \in Nat
        /\ got[d][i].num <= taken[got[d][i].from]
    BY <1>4 DEF Message
  <2> QED
    BY <1>3, <2>1
<1>8. \A u \in Conns : Carrying(u)' => msg'[u].num <= taken'[msg'[u].from]
  <2> SUFFICES ASSUME NEW u \in Conns, Carrying(u)'
               PROVE  msg'[u].num <= taken'[msg'[u].from]
    OBVIOUS
  <2>1. CASE u = t
    <3>1. msg'[u].num = taken[c] + 1 /\ msg'[u].from = c
      BY <1>5, <2>1
    <3> HIDE DEF c
    <3> QED
      BY <1>2, <1>3, <3>1
  <2>2. CASE u # t
    <3>1. msg'[u].from \in Conns /\ msg'[u].num \in Nat
          /\ msg'[u].num <= taken[msg'[u].from]
      BY <1>5, <1>6, <2>2 DEF Message
    <3> QED
      BY <1>3, <3>1
  <2> QED
    BY <2>1, <2>2
<1>9. \A u, v \in Conns :
         Carrying(u)' /\ Carrying(v)' /\ msg'[u] = msg'[v] => u = v
  BY <1>5, <1>6 DEF Serial
<1>10. \A u \in Conns : Carrying(u)' /\ pc'[u] = "lock" =>
          \A d \in Conns : \A i \in 1 .. Len(got'[d]) : got'[d][i] # msg'[u]
  BY <1>1, <1>4, <1>5 DEF Serial
<1>11. \A u \in Conns : Carrying(u)' /\ pc'[u] = "send" =>
          \A d \in Conns : \A i, j \in 1 .. Len(got'[d]) :
             i <= j /\ got'[d][i] = msg'[u] => got'[d][j] = msg'[u]
  BY <1>1, <1>5 DEF Serial
<1>12. AgreedOrder'
  BY <1>1, OrderStays
<1> QED
  BY <1>7, <1>8, <1>9, <1>10, <1>11, <1>12 DEF Serial

LEMMA SerialSend ==
    ASSUME Typed, Serial, AgreedOrder, NEW t \in Conns, SendOne(t)
    PROVE  Serial' /\ AgreedOrder'
<1>1. /\ taken' = taken /\ pc' = pc /\ msg' = msg /\ pc[t] = "send"
      /\ \A u \in Conns : Carrying(u)' <=> Carrying(u)
  BY DEF SendOne, Carrying
<1>2. CASE got' = got
  BY <1>1, <1>2, SerialQuiet
<1>3. ASSUME NEW c \in Conns, msg[t] \in Message,
             got' = [got EXCEPT ![c] = Append(@, msg[t])]
      PROVE  Serial' /\ AgreedOrder'
  <2> DEFINE m == msg[t]
  <2>1. Carrying(t)
    <3>1. msg[t].from \in Conns
      BY <1>3 DEF Message
    <3> QED
      BY <1>1, <3>1, NullAssumption DEF Carrying, Error
  <2>2. \A d \in Conns : got[d] \in Seq(Message)
    BY DEF Typed, TypeOK
  \* What is in got'[d]: what was there, and m at the end for c.
  <2>3. \A d \in Conns : /\ Len(got'[d]) \in Nat /\ Len(got[d]) \in Nat
                         /\ Len(got[d]) <= Len(got'[d])
                         /\ \A i \in 1 .. Len(got[d]) : got'[d][i] = got[d][i]
                         /\ \A i \in 1 .. Len(got'[d]) : i > Len(got[d]) => got'[d][i] = m
    <3> SUFFICES ASSUME NEW d \in Conns
                 PROVE  /\ Len(got'[d]) \in Nat /\ Len(got[d]) \in Nat
                        /\ Len(got[d]) <= Len(got'[d])
                        /\ \A i \in 1 .. Len(got[d]) : got'[d][i] = got[d][i]
                        /\ \A i \in 1 .. Len(got'[d]) : i > Len(got[d]) => got'[d][i] = m
      OBVIOUS
    <3>1. CASE d = c
      <4>1. got'[d] = Append(got[d], m)
        BY <1>3, <3>1 DEF Typed, TypeOK
      <4> QED
        BY <1>3, <2>2, <4>1
    <3>2. CASE d # c
      <4>1. got'[d] = got[d]
        BY <1>3, <3>2 DEF Typed, TypeOK
      <4> QED
        BY <2>2, <4>1
    <3> QED
      BY <3>1, <3>2
  \* m is the last message everywhere, before and after.
  <2>4. \A d \in Conns : \A i, j \in 1 .. Len(got[d]) :
           i <= j /\ got[d][i] = m => got[d][j] = m
    BY <1>1, <2>1 DEF Serial
  <2>5. \A d \in Conns : \A i, j \in 1 .. Len(got'[d]) :
           i <= j /\ got'[d][i] = m => got'[d][j] = m
    BY <2>3, <2>4, SMTT(30)
  <2>6. m.num <= taken[m.from]
    BY <2>1 DEF Serial
  <2>7. \A d \in Conns : \A i \in 1 .. Len(got'[d]) :
           got'[d][i].num <= taken[got'[d][i].from]
    <3> SUFFICES ASSUME NEW d \in Conns, NEW i \in 1 .. Len(got'[d])
                 PROVE  got'[d][i].num <= taken[got'[d][i].from]
      OBVIOUS
    <3>1. CASE i \in 1 .. Len(got[d])
      BY <2>3, <3>1 DEF Serial
    <3>2. CASE i \notin 1 .. Len(got[d])
      <4>1. got'[d][i] = m
        BY <2>3, <3>2
      <4> QED
        BY <2>6, <4>1
    <3> QED
      BY <3>1, <3>2
  <2>8. \A u \in Conns : Carrying(u) /\ pc[u] = "lock" =>
           \A d \in Conns : \A i \in 1 .. Len(got'[d]) : got'[d][i] # msg[u]
    <3> SUFFICES ASSUME NEW u \in Conns, Carrying(u), pc[u] = "lock",
                        NEW d \in Conns, NEW i \in 1 .. Len(got'[d])
                 PROVE  got'[d][i] # msg[u]
      OBVIOUS
    <3>1. msg[u] # m
      BY <1>1, <2>1 DEF Serial
    <3>2. i \in 1 .. Len(got[d]) => got[d][i] # msg[u]
      BY DEF Serial
    <3> QED
      BY <2>3, <3>1, <3>2
  <2>9. \A u \in Conns : pc[u] = "send" => u = t
    BY <1>1 DEF Typed, LockHeld
  <2>10. Serial'
    <3>1. \A u, v \in Conns :
             Carrying(u) /\ Carrying(v) /\ msg[u] = msg[v] => u = v
      BY DEF Serial
    <3>2. \A u \in Conns : Carrying(u) => msg[u].num <= taken[msg[u].from]
      BY DEF Serial
    <3> QED
      BY <1>1, <2>5, <2>7, <2>8, <2>9, <3>1, <3>2 DEF Serial
  <2>11. AgreedOrder'
    <3> SUFFICES ASSUME NEW d \in Conns, NEW e \in Conns,
                        NEW i \in 1 .. Len(got'[d]), NEW j \in 1 .. Len(got'[d]),
                        NEW k \in 1 .. Len(got'[e]), NEW l \in 1 .. Len(got'[e]),
                        i < j, k < l,
                        got'[d][i] = got'[e][l], got'[d][j] = got'[e][k]
                 PROVE  got'[d][i] = got'[d][j]
      BY DEF AgreedOrder
    <3> HIDE DEF m
    <3>0. i <= j /\ k <= l
      BY <2>3
    <3>1. CASE got'[d][j] = m
      <4>1. got'[e][l] = m
        BY <2>5, <3>0, <3>1
      <4> QED
        BY <3>1, <4>1
    <3>2. CASE got'[d][i] = m
      BY <2>5, <3>0, <3>2
    <3>3. CASE got'[d][i] # m /\ got'[d][j] # m
      <4>1. \A f \in Conns : \A n \in 1 .. Len(got'[f]) :
               got'[f][n] # m => n \in 1 .. Len(got[f])
        BY <2>3
      <4>2. /\ i \in 1 .. Len(got[d]) /\ j \in 1 .. Len(got[d])
            /\ k \in 1 .. Len(got[e]) /\ l \in 1 .. Len(got[e])
        BY <3>3, <4>1
      <4> QED
        BY <2>3, <4>2 DEF AgreedOrder
    <3> QED
      BY <3>1, <3>2, <3>3
  <2> QED
    BY <2>10, <2>11
<1> QED
  BY <1>2, <1>3, SendOneEffect

LEMMA SerialStep ==
    Typed /\ Serial /\ AgreedOrder /\ [Next]_vars => Serial' /\ AgreedOrder'
<1> SUFFICES ASSUME Typed, Serial, AgreedOrder, [Next]_vars
             PROVE  Serial' /\ AgreedOrder'
  OBVIOUS
<1>1. ASSUME NEW c \in Conns, NEW f \in Fds, Accept(c, f)
      PROVE  Serial' /\ AgreedOrder'
  BY <1>1, SerialQuiet DEF Accept, Carrying
<1>2. CASE Register
  BY <1>2, SerialQuiet DEF Register, Carrying, net, threads
<1>3. CASE CreateThread
  <2>1. got' = got /\ taken' = taken /\ msg' = msg
        /\ pc' = [pc EXCEPT ![last] = "start"]
    BY <1>3 DEF CreateThread, net
  <2> QED
    BY <2>1, SerialQuiet DEF Carrying, Typed, TypeOK
<1>4. ASSUME NEW t \in Conns, ThreadStep(t) PROVE Serial' /\ AgreedOrder'
  <2>1. CASE ReadMessage(t)
    BY <2>1, SerialRead
  <2>2. CASE SendOne(t)
    BY <2>2, SerialSend
  <2>3. CASE SendLock(t)
    <3>1. /\ got' = got /\ taken' = taken /\ msg' = msg
          /\ pc[t] = "lock" /\ pc' = [pc EXCEPT ![t] = "send"]
      BY <2>3 DEF SendLock, Goto, net
    <3>2. \A u \in Conns : Carrying(u)' <=> Carrying(u)
      BY <3>1 DEF Carrying, Typed, TypeOK
    <3>3. \A u \in Conns \ {t} : pc'[u] = pc[u]
      BY <3>1 DEF Typed, TypeOK
    <3>4. pc'[t] = "send"
      BY <3>1 DEF Typed, TypeOK
    <3>5. AgreedOrder'
      BY <3>1, OrderStays
    <3>6. /\ \A c \in Conns : \A i \in 1 .. Len(got'[c]) :
                got'[c][i].num <= taken'[got'[c][i].from]
          /\ \A u \in Conns : Carrying(u)' => msg'[u].num <= taken'[msg'[u].from]
      BY <3>1, <3>2 DEF Serial
    <3>7. \A u, v \in Conns :
             Carrying(u)' /\ Carrying(v)' /\ msg'[u] = msg'[v] => u = v
      BY <3>1, <3>2 DEF Serial
    <3>8. \A u \in Conns : Carrying(u)' /\ pc'[u] = "lock" =>
             \A c \in Conns : \A i \in 1 .. Len(got'[c]) : got'[c][i] # msg'[u]
      BY <3>1, <3>2, <3>3, <3>4 DEF Serial
    <3>9. ASSUME NEW u \in Conns, Carrying(u)', pc'[u] = "send",
                 NEW c \in Conns, NEW i \in 1 .. Len(got'[c]), NEW j \in 1 .. Len(got'[c]),
                 i <= j, got'[c][i] = msg'[u]
          PROVE  got'[c][j] = msg'[u]
      <4>1. Carrying(u) /\ got[c][i] = msg[u] /\ i \in 1 .. Len(got[c])
        BY <3>1, <3>2, <3>9
      <4>2. pc[u] # "lock"
        BY <4>1 DEF Serial
      <4>3. pc[u] = "send"
        BY <3>1, <3>3, <3>9, <4>2
      <4> QED
        BY <3>1, <3>9, <4>1, <4>3 DEF Serial
    <3>10. Serial'
      BY <3>6, <3>7, <3>8, <3>9 DEF Serial
    <3> QED
      BY <3>5, <3>10
  <2>4. CASE Start(t) \/ ReadEof(t) \/ SendDone(t) \/ Remove(t) \/ Close(t)
    <3>1. /\ got' = got /\ taken' = taken /\ msg' = msg
          /\ \E l \in {"read", "leave", "close", "end"} :
                pc' = [pc EXCEPT ![t] = l]
      BY <2>4 DEF Start, ReadEof, SendDone, Remove, Close, Goto, net
    <3> QED
      BY <3>1, SerialQuiet DEF Carrying, Typed, TypeOK
  <2>5. CASE ReadError(t)
    <3>1. /\ got' = got /\ taken' = taken /\ msg' = [msg EXCEPT ![t] = Error]
          /\ pc' = [pc EXCEPT ![t] = "lock"]
      BY <2>5 DEF ReadError, Goto
    <3>2. ~Carrying(t)' /\ \A u \in Conns \ {t} : msg'[u] = msg[u] /\ pc'[u] = pc[u]
      BY <3>1 DEF Carrying, Typed, TypeOK
    <3> QED
      BY <3>1, <3>2, SerialQuiet DEF Carrying
  <2>6. CASE SendPipe(t)
    BY <2>6, SerialQuiet DEF SendPipe, Carrying, net, threads
  <2> QED
    BY <1>4, <2>1, <2>2, <2>3, <2>4, <2>5, <2>6 DEF ThreadStep
<1>5. ASSUME NEW c \in Conns, ClientSend(c) \/ ClientShut(c) \/ ClientReset(c)
      PROVE  Serial' /\ AgreedOrder'
  BY <1>5, SerialQuiet DEF ClientSend, ClientShut, ClientReset, Carrying, threads
<1>6. CASE UNCHANGED vars
  BY <1>6, SerialQuiet DEF vars, net, threads, Carrying
<1> QED
  BY <1>1, <1>2, <1>3, <1>4, <1>5, <1>6 DEF Next, MainStep, Thread

\* Any two clients of the chat room see the messages that reach both of them
\* in one order, on both platforms and even when threads got each other's
\* sockets: the mutex around the loop of send_msg serialises the broadcasts.
THEOREM AgreedOrderHolds == Spec => []AgreedOrder
<1>1. Spec => [](Typed /\ Serial /\ AgreedOrder)
  BY TypedAlways, SerialInit, SerialStep, PTL DEF Spec
<1> QED
  BY <1>1, PTL

-----------------------------------------------------------------------------
(* The registry of the Windows program.                                      *)

\* A descriptor denotes an accepted connection.  While no thread has got the
\* socket of another client, a connection keeps the descriptor it was accepted
\* with until its thread has closed it.
Owning ==
    /\ mpc \in {"register", "create"} => clntSock = fdOf[last]
    /\ \A f \in Fds : owner[f] # NoConn => peer[owner[f]] # "none"
    /\ ~Mixed => \A c \in Conns :
          peer[c] # "none" /\ pc[c] # "end" => fdOf[c] \in Fds /\ owner[fdOf[c]] = c

LEMMA OwningInit == Init => Owning
BY DEF Init, Owning

\* Sockets once mixed up stay so.
LEMMA MixedStays == Typed /\ [Next]_vars /\ Mixed => Mixed'
<1> SUFFICES ASSUME Typed, [Next]_vars, NEW t \in Conns,
                    sock[t] # NoFd, sock[t] # fdOf[t]
             PROVE  sock'[t] # NoFd /\ sock'[t] # fdOf'[t]
  BY DEF Mixed
<1>1. pc[t] \notin {"none", "start"} /\ peer[t] # "none"
  BY DEF Typed, Shape
<1>2. ASSUME NEW c \in Conns, NEW f \in Fds, Accept(c, f)
      PROVE  sock'[t] = sock[t] /\ fdOf'[t] = fdOf[t]
  BY <1>1, <1>2 DEF Accept, Typed, TypeOK
<1>3. ASSUME Register \/ CreateThread
      PROVE  sock'[t] = sock[t] /\ fdOf'[t] = fdOf[t]
  BY <1>3 DEF Register, CreateThread, threads
<1>4. ASSUME NEW u \in Conns, ThreadStep(u)
      PROVE  sock'[t] = sock[t] /\ fdOf'[t] = fdOf[t]
  <2>1. CASE Start(u)
    BY <1>1, <2>1 DEF Start, Typed, TypeOK
  <2>2. CASE ~Start(u)
    BY <1>4, <2>2 DEF ThreadStep, ReadMessage, ReadEof, ReadError, SendLock,
                      SendOne, SendPipe, SendDone, Remove, Close, threads
  <2> QED
    BY <2>1, <2>2
<1>5. ASSUME NEW c \in Conns, ClientSend(c) \/ ClientShut(c) \/ ClientReset(c)
      PROVE  sock'[t] = sock[t] /\ fdOf'[t] = fdOf[t]
  BY <1>5 DEF ClientSend, ClientShut, ClientReset, threads
<1>6. UNCHANGED vars => sock'[t] = sock[t] /\ fdOf'[t] = fdOf[t]
  BY DEF vars, threads
<1> QED
  BY <1>2, <1>3, <1>4, <1>5, <1>6 DEF Next, MainStep, Thread

LEMMA OwningStep == Typed /\ Owning /\ [Next]_vars => Owning'
<1> SUFFICES ASSUME Typed, Owning, [Next]_vars PROVE Owning'
  OBVIOUS
<1>1. ~Mixed' => ~Mixed
  BY MixedStays
<1>2. ASSUME NEW c \in Conns, NEW f \in Fds, Accept(c, f) PROVE Owning'
  <2>1. /\ peer' = [peer EXCEPT ![c] = "open"] /\ owner' = [owner EXCEPT ![f] = c]
        /\ clntSock' = f /\ last' = c /\ fdOf' = [fdOf EXCEPT ![c] = f]
        /\ pc' = pc /\ owner[f] = NoConn /\ mpc' = "register"
    BY <1>2 DEF Accept, MainGoto
  <2>2. /\ peer'[c] = "open" /\ owner'[f] = c /\ fdOf'[c] = f
        /\ \A d \in Conns \ {c} : peer'[d] = peer[d] /\ fdOf'[d] = fdOf[d]
        /\ \A g \in Fds \ {f} : owner'[g] = owner[g]
    BY <2>1 DEF Typed, TypeOK
  <2>3. \A g \in Fds : owner[g] \in Conns \cup {NoConn}
    BY DEF Typed, TypeOK
  <2>4. \A g \in Fds : owner'[g] # NoConn => peer'[owner'[g]] # "none"
    BY <2>2, <2>3 DEF Owning
  <2>5. ~Mixed' => \A d \in Conns : peer'[d] # "none" /\ pc'[d] # "end" =>
           fdOf'[d] \in Fds /\ owner'[fdOf'[d]] = d
    <3> SUFFICES ASSUME ~Mixed, NEW d \in Conns, peer'[d] # "none", pc[d] # "end"
                 PROVE  fdOf'[d] \in Fds /\ owner'[fdOf'[d]] = d
      BY <1>1, <2>1
    <3>1. CASE d = c
      BY <2>2, <3>1
    <3>2. CASE d # c
      <4>1. fdOf[d] \in Fds /\ owner[fdOf[d]] = d
        BY <2>2, <3>2 DEF Owning
      <4>2. fdOf[d] # f
        BY <2>1, <4>1, NullAssumption
      <4> QED
        BY <2>2, <3>2, <4>1, <4>2
    <3> QED
      BY <3>1, <3>2
  <2> QED
    BY <2>1, <2>2, <2>4, <2>5 DEF Owning
<1>3. ASSUME NEW t \in Conns, Close(t) PROVE Owning'
  <2>1. /\ owner' = [owner EXCEPT ![sock[t]] = NoConn] /\ pc[t] = "close"
        /\ pc' = [pc EXCEPT ![t] = "end"]
        /\ UNCHANGED <<peer, main, sock, fdOf>>
    BY <1>3 DEF Close, Goto
  <2>2. sock[t] \in Fds /\ peer[t] # "none"
    BY <2>1 DEF Typed, Shape
  <2>3. /\ pc'[t] = "end" /\ owner'[sock[t]] = NoConn
        /\ \A d \in Conns \ {t} : pc'[d] = pc[d]
        /\ \A g \in Fds : g # sock[t] => owner'[g] = owner[g]
    BY <2>1, <2>2 DEF Typed, TypeOK
  <2>4. ~Mixed => \A d \in Conns : peer[d] # "none" /\ pc'[d] # "end" =>
           fdOf[d] \in Fds /\ owner'[fdOf[d]] = d
    <3> SUFFICES ASSUME ~Mixed, NEW d \in Conns \ {t}, peer[d] # "none", pc[d] # "end"
                 PROVE  fdOf[d] \in Fds /\ owner'[fdOf[d]] = d
      BY <2>3
    <3>1. sock[t] = fdOf[t]
      BY <2>2, NullAssumption DEF Mixed
    <3>2. owner[fdOf[t]] = t /\ owner[fdOf[d]] = d /\ fdOf[d] \in Fds
      BY <2>1, <2>2 DEF Owning
    <3> QED
      BY <2>3, <3>1, <3>2
  <2>5. \A g \in Fds : owner'[g] # NoConn => peer[owner'[g]] # "none"
    BY <2>3 DEF Owning
  <2> QED
    BY <1>1, <2>1, <2>4, <2>5 DEF Owning, main
\* Every other step leaves owners, descriptors and the ends of threads alone.
<1>4. ASSUME /\ owner' = owner /\ fdOf' = fdOf /\ clntSock' = clntSock
             /\ mpc' \in {"register", "create"} =>
                   mpc \in {"register", "create"} /\ last' = last
             /\ \A c \in Conns : /\ peer'[c] = "none" <=> peer[c] = "none"
                                 /\ pc'[c] = "end" <=> pc[c] = "end"
      PROVE  Owning'
  <2>1. \A f \in Fds : owner[f] # NoConn => owner[f] \in Conns
    BY DEF Typed, TypeOK
  <2> QED
    BY <1>1, <1>4, <2>1 DEF Owning
<1>5. ASSUME Register \/ CreateThread PROVE Owning'
  <2>1. \A c \in Conns : pc'[c] = "end" <=> pc[c] = "end"
    BY <1>5 DEF Register, CreateThread, threads, Typed, TypeOK, Shape
  <2> QED
    BY <1>4, <1>5, <2>1 DEF Register, CreateThread, MainGoto, net, threads
<1>6. ASSUME NEW t \in Conns, ThreadStep(t), ~Close(t) PROVE Owning'
  <2>1. \A c \in Conns : peer'[c] = "none" <=> peer[c] = "none"
    <3>1. CASE SendOne(t)
      BY <3>1, SendOneEffect
    <3>2. CASE ReadError(t)
      <4>1. sock[t] \in Fds
        BY <3>2 DEF ReadError, Typed, Shape
      <4> QED
        BY <3>2, <4>1 DEF ReadError, ErrorReported, Typed, TypeOK
    <3> QED
      BY <1>6, <3>1, <3>2 DEF ThreadStep, Start, ReadMessage, ReadEof, SendLock,
                              SendPipe, SendDone, Remove, net
  <2>2. \A c \in Conns : pc'[c] = "end" <=> pc[c] = "end"
    <3>1. \/ pc' = pc
          \/ /\ pc[t] # "end"
             /\ \E l \in {"read", "lock", "send", "leave", "close"} :
                   pc' = [pc EXCEPT ![t] = l]
      BY <1>6 DEF ThreadStep, Start, ReadMessage, ReadEof, ReadError, SendLock,
                  SendOne, SendPipe, SendDone, Remove, Goto, threads
    <3> QED
      BY <3>1 DEF Typed, TypeOK
  <2>3. /\ owner' = owner /\ fdOf' = fdOf /\ clntSock' = clntSock
        /\ mpc' \in {"register", "create"} => mpc' = mpc /\ last' = last
    BY <1>6 DEF ThreadStep, Start, ReadMessage, ReadEof, ReadError, SendLock,
                SendOne, SendPipe, SendDone, Remove, MainGoto, net, main, threads
  <2> QED
    BY <1>4, <2>1, <2>2, <2>3
<1>7. ASSUME NEW c \in Conns, ClientSend(c) \/ ClientShut(c) \/ ClientReset(c)
      PROVE  Owning'
  BY <1>4, <1>7 DEF ClientSend, ClientShut, ClientReset, main, threads, Typed, TypeOK
<1>8. CASE UNCHANGED vars
  BY <1>4, <1>8 DEF vars, net, main, threads
<1> QED
  BY <1>2, <1>3, <1>5, <1>6, <1>7, <1>8 DEF Next, MainStep, Thread

LEMMA OwningAlways == Spec => []Owning
BY OwningInit, OwningStep, TypedAlways, PTL DEF Spec

\* clnt_socks has a slot for every socket the process can have open.
Room == IsFiniteSet(Fds) /\ Cardinality(Fds) <= MaxClnt

\* The slots below clnt_cnt and the registered connections correspond one to
\* one, also while send_msg goes through them.
Listed ==
    Running /\ ~Mixed =>
       /\ \A k \in 0 .. clntCnt - 1 : \E c \in Registered : clntSocks[k] = fdOf[c]
       /\ \A c \in Registered : \E k \in 0 .. clntCnt - 1 : clntSocks[k] = fdOf[c]
       /\ \A k, l \in 0 .. clntCnt - 1 : clntSocks[k] = clntSocks[l] => k = l

\* Two registered connections, or one and the one main is about to register,
\* have different descriptors.
LEMMA DescriptorsDiffer ==
    ASSUME Typed, Owning, ~Mixed,
           NEW c \in Registered \cup (IF mpc = "register" THEN {last} ELSE {}),
           NEW d \in Registered \cup (IF mpc = "register" THEN {last} ELSE {}),
           fdOf[c] = fdOf[d]
    PROVE  c = d
<1>1. \A e \in Registered \cup (IF mpc = "register" THEN {last} ELSE {}) :
         e \in Conns /\ peer[e] # "none" /\ pc[e] # "end"
  BY DEF Registered, Typed, Shape
<1> QED
  BY <1>1 DEF Owning

\* So, while sockets are not mixed up, clnt_cnt stays within the array, and
\* main finds a free slot.
LEMMA RoomForRegistered ==
    ASSUME Typed, Balanced, Owning, ~Mixed, Running, Room
    PROVE  clntCnt \in 0 .. MaxClnt
           /\ (mpc = "register" => clntCnt \in 0 .. MaxClnt - 1)
<1> DEFINE All == Registered \cup (IF mpc = "register" THEN {last} ELSE {})
           g == [c \in All |-> fdOf[c]]
<1>1. IsFiniteSet(Registered) /\ clntCnt = Cardinality(Registered)
  BY DEF Balanced
<1>2. \A e \in All : e \in Conns /\ peer[e] # "none" /\ pc[e] # "end"
  BY DEF Registered, Typed, Shape
<1>3. g \in Injection(All, Fds)
  <2>1. \A c \in All : fdOf[c] \in Fds
    BY <1>2 DEF Owning
  <2>2. g \in [All -> Fds]
    BY <2>1
  <2>3. \A c, d \in All : g[c] = g[d] => c = d
    BY DescriptorsDiffer
  <2> HIDE DEF All, g
  <2> QED
    BY <2>2, <2>3 DEF Injection, IsInjective
<1>4. IsFiniteSet(All) /\ Cardinality(All) <= Cardinality(Fds)
  BY <1>3, FS_Injection DEF Room
<1>5. /\ Cardinality(All) \in Nat /\ Cardinality(Fds) \in Nat
      /\ Cardinality(Registered) \in Nat
  BY <1>1, <1>4, FS_CardinalityType DEF Room
<1>6. mpc # "register" => All = Registered
  OBVIOUS
<1>7. mpc = "register" => Cardinality(All) = Cardinality(Registered) + 1
  <2> SUFFICES ASSUME mpc = "register"
               PROVE  Cardinality(All) = Cardinality(Registered) + 1
    OBVIOUS
  <2>1. last \notin Registered /\ All = Registered \cup {last}
    BY DEF Typed, Shape, Registered
  <2> QED
    BY <1>1, <2>1, FS_AddElement
<1> HIDE DEF All
<1> QED
  BY <1>1, <1>4, <1>5, <1>6, <1>7, RoomAssumption DEF Room

LEMMA ListedInit == Init => Listed
<1> SUFFICES ASSUME Init PROVE Listed
  OBVIOUS
<1>1. Registered = {} /\ 0 .. clntCnt - 1 = {}
  BY DEF Init, Registered
<1> QED
  BY <1>1 DEF Listed

\* Main appends the new descriptor.
LEMMA ListedRegister ==
    ASSUME Typed, Balanced, Owning, Listed, Register, ~Mixed,
           Room
    PROVE  Listed'
<1>1. /\ clntSocks' = [k \in Slots |-> IF k = clntCnt THEN clntSock
                                       ELSE clntSocks[k]]
      /\ clntCnt' = clntCnt + 1 /\ fdOf' = fdOf /\ mpc = "register"
  BY DEF Register, threads
<1>2. clntCnt \in 0 .. MaxClnt - 1
  BY <1>1, RoomForRegistered DEF Running
<1>3. /\ clntSocks'[clntCnt] = fdOf[last]
      /\ \A k \in 0 .. clntCnt - 1 : clntSocks'[k] = clntSocks[k]
  <2>1. clntSock = fdOf[last]
    BY <1>1 DEF Owning
  <2>2. \A k \in 0 .. clntCnt : k \in Slots
    BY <1>2, RoomAssumption DEF Slots
  <2> QED
    BY <1>1, <1>2, <2>1, <2>2
<1>4. Registered' = Registered \cup {last}
  BY RegisteredGrows
<1>5. \A c \in Registered : fdOf[c] # fdOf[last]
  BY <1>1, RegisteredGrows, DescriptorsDiffer
<1>6. /\ \A k \in 0 .. clntCnt - 1 : \E c \in Registered : clntSocks[k] = fdOf[c]
      /\ \A c \in Registered : \E k \in 0 .. clntCnt - 1 : clntSocks[k] = fdOf[c]
      /\ \A k, l \in 0 .. clntCnt - 1 : clntSocks[k] = clntSocks[l] => k = l
  BY <1>1 DEF Listed, Running
<1>7. 0 .. clntCnt' - 1 = (0 .. clntCnt - 1) \cup {clntCnt}
  BY <1>1, <1>2
<1>8. \A k \in 0 .. clntCnt' - 1 : \E c \in Registered' : clntSocks'[k] = fdOf[c]
  BY <1>3, <1>4, <1>6, <1>7
<1>9. \A c \in Registered' : \E k \in 0 .. clntCnt' - 1 : clntSocks'[k] = fdOf[c]
  BY <1>3, <1>4, <1>6, <1>7
<1>10. \A k, l \in 0 .. clntCnt' - 1 : clntSocks'[k] = clntSocks'[l] => k = l
  BY <1>3, <1>5, <1>6, <1>7
<1> QED
  BY <1>1, <1>8, <1>9, <1>10 DEF Listed

\* The first index of a descriptor that one slot holds.
LEMMA IndexFound ==
    ASSUME NEW f, NEW i \in Slots, i < clntCnt, clntSocks[i] = f,
           \A k \in 0 .. clntCnt - 1 : clntSocks[k] = f => k = i, clntCnt \in Int
    PROVE  IndexOf(f) = i
<1> DEFINE at == {k \in Slots : k < clntCnt /\ clntSocks[k] = f}
<1>1. at = {i}
  BY RoomAssumption DEF Slots
<1>2. (CHOOSE k \in at : \A l \in at : k <= l) = i
  BY <1>1, RoomAssumption DEF Slots
<1> QED
  BY <1>1, <1>2 DEF IndexOf

\* A thread takes its descriptor out and closes the gap.
LEMMA ListedRemove ==
    ASSUME Typed, Balanced, Owning, Listed, Running, ~Mixed, Platform = "windows",
           Room, NEW t \in Conns, Remove(t)
    PROVE  Listed'
<1>1. clntCnt' = clntCnt - 1 /\ fdOf' = fdOf /\ pc[t] = "leave"
  BY DEF Remove
<1>2. clntCnt \in 0 .. MaxClnt
  BY RoomForRegistered
<1>3. t \in Registered /\ Registered' = Registered \ {t}
  BY RegisteredShrinks
<1>4. sock[t] = fdOf[t]
  BY <1>1, NullAssumption DEF Mixed, Typed, Shape
<1>5. /\ \A k \in 0 .. clntCnt - 1 : \E c \in Registered : clntSocks[k] = fdOf[c]
      /\ \A c \in Registered : \E k \in 0 .. clntCnt - 1 : clntSocks[k] = fdOf[c]
      /\ \A k, l \in 0 .. clntCnt - 1 : clntSocks[k] = clntSocks[l] => k = l
  BY DEF Listed
<1>6. PICK i \in 0 .. clntCnt - 1 : clntSocks[i] = fdOf[t]
  BY <1>3, <1>5
<1>7. /\ \A k \in 0 .. clntCnt - 1 : k \in Slots
      /\ \A k \in 0 .. clntCnt - 2 : k \in 0 .. clntCnt - 1 /\ k + 1 \in 0 .. clntCnt - 1
  BY <1>2, RoomAssumption DEF Slots
<1>8. IndexOf(sock[t]) = i
  BY <1>2, <1>4, <1>5, <1>6, <1>7, IndexFound
<1>9. \A k \in 0 .. clntCnt - 2 :
         clntSocks'[k] = IF k < i THEN clntSocks[k] ELSE clntSocks[k + 1]
  <2>1. PICK past : clntSocks' = ShiftWindows(i, past)
    BY <1>8 DEF Remove, ShiftFrom
  <2>2. \A k \in 0 .. clntCnt - 2 : k \in Slots /\ k + 1 \in Slots
    BY <1>7
  <2> QED
    BY <1>2, <2>1, <2>2 DEF ShiftWindows, Following
<1>10. \A k \in 0 .. clntCnt - 2 : \E l \in 0 .. clntCnt - 1 :
          l # i /\ clntSocks'[k] = clntSocks[l]
  <2> SUFFICES ASSUME NEW k \in 0 .. clntCnt - 2
               PROVE  \E l \in 0 .. clntCnt - 1 : l # i /\ clntSocks'[k] = clntSocks[l]
    OBVIOUS
  <2>1. CASE k < i
    BY <1>7, <1>9, <2>1
  <2>2. CASE k >= i
    <3>1. k + 1 # i /\ k + 1 \in 0 .. clntCnt - 1
      BY <1>7, <2>2
    <3> QED
      BY <1>9, <2>2, <3>1
  <2> QED
    BY <2>1, <2>2
<1>11. \A l \in 0 .. clntCnt - 1 : l # i =>
          \E k \in 0 .. clntCnt - 2 : clntSocks'[k] = clntSocks[l]
  <2> SUFFICES ASSUME NEW l \in 0 .. clntCnt - 1, l # i
               PROVE  \E k \in 0 .. clntCnt - 2 : clntSocks'[k] = clntSocks[l]
    OBVIOUS
  <2>1. CASE l < i
    <3>1. l \in 0 .. clntCnt - 2
      BY <1>2, <2>1
    <3> QED
      BY <1>9, <2>1, <3>1
  <2>2. CASE l > i
    <3>1. l - 1 \in 0 .. clntCnt - 2 /\ ~(l - 1 < i) /\ (l - 1) + 1 = l
      BY <1>2, <2>2
    <3> QED
      BY <1>9, <3>1
  <2> QED
    BY <2>1, <2>2
<1>12. \A k \in 0 .. clntCnt - 2 : \E c \in Registered \ {t} : clntSocks'[k] = fdOf[c]
  <2> SUFFICES ASSUME NEW k \in 0 .. clntCnt - 2
               PROVE  \E c \in Registered \ {t} : clntSocks'[k] = fdOf[c]
    OBVIOUS
  <2>1. PICK l \in 0 .. clntCnt - 1 : l # i /\ clntSocks'[k] = clntSocks[l]
    BY <1>10
  <2>2. PICK c \in Registered : clntSocks[l] = fdOf[c]
    BY <1>5
  <2>3. c # t
    BY <1>5, <1>6, <2>1, <2>2
  <2> QED
    BY <2>1, <2>2, <2>3
<1>13. \A c \in Registered \ {t} : \E k \in 0 .. clntCnt - 2 : clntSocks'[k] = fdOf[c]
  <2> SUFFICES ASSUME NEW c \in Registered \ {t}
               PROVE  \E k \in 0 .. clntCnt - 2 : clntSocks'[k] = fdOf[c]
    OBVIOUS
  <2>1. PICK l \in 0 .. clntCnt - 1 : clntSocks[l] = fdOf[c]
    BY <1>5
  <2>2. l # i
    BY <1>3, <1>6, <2>1, DescriptorsDiffer
  <2> QED
    BY <1>11, <2>1, <2>2
<1>14. \A k, l \in 0 .. clntCnt - 2 : clntSocks'[k] = clntSocks'[l] => k = l
  <2> SUFFICES ASSUME NEW k \in 0 .. clntCnt - 2, NEW l \in 0 .. clntCnt - 2,
                      clntSocks'[k] = clntSocks'[l]
               PROVE  k = l
    OBVIOUS
  <2>1. k \in 0 .. clntCnt - 1 /\ k + 1 \in 0 .. clntCnt - 1
        /\ l \in 0 .. clntCnt - 1 /\ l + 1 \in 0 .. clntCnt - 1
    BY <1>7
  <2>2. CASE k < i /\ l < i
    BY <1>5, <1>9, <2>1, <2>2
  <2>3. CASE k >= i /\ l >= i
    <3>1. k + 1 = l + 1
      BY <1>5, <1>9, <2>1, <2>3
    <3> QED
      BY <3>1
  <2>4. CASE k < i /\ l >= i
    <3>1. k = l + 1
      BY <1>5, <1>9, <2>1, <2>4
    <3> QED
      BY <2>4, <3>1
  <2>5. CASE k >= i /\ l < i
    <3>1. k + 1 = l
      BY <1>5, <1>9, <2>1, <2>5
    <3> QED
      BY <2>5, <3>1
  <2> QED
    BY <2>2, <2>3, <2>4, <2>5
<1>15. 0 .. clntCnt' - 1 = 0 .. clntCnt - 2
  BY <1>1, <1>2
<1> QED
  BY <1>1, <1>3, <1>12, <1>13, <1>14, <1>15, ZenonT(40) DEF Listed

LEMMA ListedStep ==
    ASSUME Platform = "windows", Room
    PROVE  Typed /\ Balanced /\ Owning /\ Listed /\ [Next]_vars => Listed'
<1> SUFFICES ASSUME Typed, Balanced, Owning, Listed, [Next]_vars,
                    Running', ~Mixed'
             PROVE  Listed'
  BY DEF Listed
<1>1. ~Mixed
  BY MixedStays
<1>2. CASE Register
  BY <1>1, <1>2, ListedRegister
<1>3. ASSUME NEW t \in Conns, Remove(t) PROVE Listed'
  <2>1. Running
    BY <1>3 DEF Remove, Running, main
  <2> QED
    BY <1>1, <1>3, <2>1, ListedRemove
<1>4. ASSUME NEW t \in Conns, SendPipe(t) PROVE FALSE
  BY <1>4 DEF SendPipe, MainGoto, Running
<1>5. CASE ~Register /\ (~ \E t \in Conns : Remove(t))
                     /\ ~ \E t \in Conns : SendPipe(t)
  <2>1. /\ Registered' = Registered /\ clntCnt' = clntCnt
        /\ clntSocks' = clntSocks /\ Running
    BY <1>5, RegisteredSame
  <2>2. \A c \in Registered : fdOf'[c] = fdOf[c]
    <3>1. ASSUME NEW d \in Conns, NEW f \in Fds, Accept(d, f)
          PROVE  \A c \in Registered : fdOf'[c] = fdOf[c]
      <4>1. d \notin Registered
        BY <3>1 DEF Accept, Registered, Typed, Shape
      <4> QED
        BY <3>1, <4>1 DEF Accept, Registered, Typed, TypeOK
    <3>2. CASE ~ \E d \in Conns, f \in Fds : Accept(d, f)
      <4>1. fdOf' = fdOf
        BY <1>5, <3>2 DEF Next, MainStep, Thread, ThreadStep, CreateThread, Start,
              ReadMessage, ReadEof, ReadError, SendLock, SendOne, SendDone, Close,
              ClientSend, ClientShut, ClientReset, threads, vars
      <4> QED
        BY <4>1
    <3> QED
      BY <3>1, <3>2
  <2> QED
    BY <1>1, <2>1, <2>2 DEF Listed
<1> QED
  BY <1>2, <1>3, <1>4, <1>5

LEMMA ListedAlways ==
    ASSUME Platform = "windows", Room
    PROVE  Spec => []Listed
BY ListedInit, ListedStep, TypedAlways, BalancedAlways, OwningAlways, PTL DEF Spec

\* If clnt_socks has room for every open socket, the registry of the Windows program
\* lists exactly the sockets of the clients that are being served whenever the
\* mutex is free, until two threads get each other's sockets.
THEOREM RegistryExactHolds ==
    ASSUME Platform = "windows", Room
    PROVE  Spec => []RegistryExact
<1>1. Balanced /\ Listed => RegistryExact
  <2> SUFFICES ASSUME Balanced, Listed, mutex = Free, ~Mixed
               PROVE  {clntSocks[k] : k \in 0 .. clntCnt - 1}
                         = {fdOf[c] : c \in Registered}
    BY DEF RegistryExact
  <2>1. Running
    BY DEF Balanced
  <2> QED
    BY <2>1 DEF Listed
<1> QED
  BY <1>1, BalancedAlways, ListedAlways, PTL

\* Client c was written its own message n.
Has(c, n) ==
    \E i \in 1 .. Len(got[c]) : got[c][i] = [from |-> c, num |-> n]

\* The thread of c has message n in hand and has not come to the slot of c.
Coming(c, n) ==
    /\ pc[c] \in {"lock", "send"} /\ msg[c] = [from |-> c, num |-> n]
    /\ \A k \in 0 .. idx[c] - 1 : clntSocks[k] # fdOf[c]

\* Of what was read from c, while it is there, everything was written back to
\* it or is about to be.
EchoOf(c) ==
    peer[c] = "open" =>
       /\ pc[c] \in {"none", "start"} => taken[c] = 0
       /\ \A n \in 1 .. taken[c] : Has(c, n) \/ Coming(c, n)

Echoing ==
    /\ \A c \in Conns : peer[c] = "none" => taken[c] = 0
    /\ \A t \in Conns : pc[t] # "send" => idx[t] = 0
    /\ ~Mixed => \A c \in Conns : EchoOf(c)

LEMMA EchoingInit == Init => Echoing
BY DEF Init, Echoing, EchoOf

\* What a client has got it keeps.
LEMMA HasStays ==
    ASSUME Typed, [Next]_vars, NEW c \in Conns, NEW n, Has(c, n)
    PROVE  Has(c, n)'
<1>1. CASE got' = got
  BY <1>1 DEF Has
<1>2. ASSUME NEW t \in Conns, SendOne(t) PROVE Has(c, n)'
  <2>1. ASSUME NEW d \in Conns, msg[t] \in Message,
               got' = [got EXCEPT ![d] = Append(@, msg[t])]
        PROVE  Has(c, n)'
    <3>1. got[c] \in Seq(Message) /\ got[d] \in Seq(Message)
      BY DEF Typed, TypeOK
    <3>2. got'[c] = got[c] \/ got'[c] = Append(got[c], msg[t])
      BY <2>1 DEF Typed, TypeOK
    <3>3. /\ Len(got[c]) \in Nat /\ Len(got'[c]) \in Nat
          /\ Len(got[c]) <= Len(got'[c])
          /\ \A i \in 1 .. Len(got[c]) : got'[c][i] = got[c][i]
      BY <2>1, <3>1, <3>2
    <3> QED
      BY <3>3 DEF Has
  <2> QED
    BY <1>1, <1>2, <2>1, SendOneEffect
<1>3. CASE ~ \E t \in Conns : SendOne(t)
  <2>1. got' = got
    BY <1>3 DEF Next, MainStep, Accept, Register, CreateThread, Thread,
                ThreadStep, Start, ReadMessage, ReadEof, ReadError, SendLock,
                SendPipe, SendDone, Remove, Close, ClientSend, ClientShut,
                ClientReset, vars, net
  <2> QED
    BY <1>1, <2>1
<1> QED
  BY <1>2, <1>3

\* While no sockets are mixed up a thread that reads reads from its client.
LEMMA ReadsOwn ==
    ASSUME Typed, Owning, ~Mixed, NEW t \in Conns, pc[t] \notin {"none", "start", "end"}
    PROVE  sock[t] \in Fds /\ sock[t] = fdOf[t] /\ owner[sock[t]] = t
BY NullAssumption DEF Typed, Shape, Owning, Mixed

\* A step that is not of c's thread, and does not touch what its thread reads,
\* keeps what EchoOf says of c.
LEMMA EchoQuiet ==
    ASSUME Typed, Echoing, ~Mixed, [Next]_vars, NEW c \in Conns,
           peer'[c] = "open" => peer[c] = "open",
           taken'[c] = taken[c], msg'[c] = msg[c], idx'[c] = idx[c],
           fdOf'[c] = fdOf[c],
           pc[c] \in {"lock", "send"} => pc'[c] = pc[c],
           pc[c] = "send" => clntSocks' = clntSocks,
           pc'[c] \in {"none", "start"} => pc[c] \in {"none", "start"}
    PROVE  EchoOf(c)'
<1> SUFFICES ASSUME peer'[c] = "open"
             PROVE  /\ pc'[c] \in {"none", "start"} => taken[c] = 0
                    /\ \A n \in 1 .. taken[c] : Has(c, n)' \/ Coming(c, n)'
  BY DEF EchoOf
<1>1. EchoOf(c) /\ peer[c] = "open"
  BY DEF Echoing
<1>2. ASSUME NEW n \in 1 .. taken[c], Coming(c, n) PROVE Coming(c, n)'
  <2>1. pc[c] # "send" => idx[c] = 0
    BY DEF Echoing
  <2> QED
    BY <1>2, <2>1 DEF Coming
<1> QED
  BY <1>1, <1>2, HasStays DEF EchoOf

LEMMA EchoThread ==
    ASSUME Typed, Balanced, Owning, Listed, Echoing, ~Mixed, [Next]_vars,
           Room,
           NEW t \in Conns, ThreadStep(t), Running
    PROVE  EchoOf(t)'
<1>0. (peer[t] = "open" => EchoOf(t)) /\ (pc[t] # "send" => idx[t] = 0)
  BY DEF Echoing
<1>1. CASE Start(t)
  <2>1. peer' = peer /\ taken' = taken /\ pc[t] = "start" /\ pc' = [pc EXCEPT ![t] = "read"]
    BY <1>1 DEF Start, Goto, net
  <2>2. pc'[t] = "read" /\ (peer[t] = "open" => taken[t] = 0)
    BY <1>0, <2>1 DEF EchoOf, Typed, TypeOK
  <2> QED
    BY <2>1, <2>2 DEF EchoOf
<1>2. CASE ReadMessage(t)
  <2>1. owner[sock[t]] = t
    BY <1>2, ReadsOwn DEF ReadMessage
  <2>2. /\ peer' = peer /\ pc[t] = "read" /\ idx' = idx
        /\ taken' = [taken EXCEPT ![t] = @ + 1]
        /\ msg' = [msg EXCEPT ![t] = [from |-> t, num |-> taken[t] + 1]]
        /\ pc' = [pc EXCEPT ![t] = "lock"]
    BY <1>2, <2>1 DEF ReadMessage, Goto
  <2>3. /\ pc'[t] = "lock" /\ idx'[t] = 0 /\ taken'[t] = taken[t] + 1
        /\ msg'[t] = [from |-> t, num |-> taken[t] + 1] /\ taken[t] \in Nat
    BY <1>0, <2>2 DEF Typed, TypeOK
  <2>4. \A n : n = taken[t] + 1 => Coming(t, n)'
    BY <2>3 DEF Coming
  <2>5. peer[t] = "open" => \A n \in 1 .. taken[t] : Has(t, n)
    BY <1>0, <2>2 DEF EchoOf, Coming
  <2>6. peer[t] = "open" => \A n \in 1 .. taken'[t] : Has(t, n)' \/ Coming(t, n)'
    <3> SUFFICES ASSUME peer[t] = "open", NEW n \in 1 .. taken[t] + 1
                 PROVE  Has(t, n)' \/ Coming(t, n)'
      BY <2>3
    <3>1. CASE n = taken[t] + 1
      BY <2>4, <3>1
    <3>2. CASE n # taken[t] + 1
      <4>1. n \in 1 .. taken[t]
        BY <2>3, <3>2
      <4> QED
        BY <2>5, <4>1, HasStays
    <3> QED
      BY <3>1, <3>2
  <2> QED
    BY <2>2, <2>3, <2>6 DEF EchoOf
<1>3. CASE ReadEof(t) \/ ReadError(t)
  <2>1. owner[sock[t]] = t
    BY <1>3, ReadsOwn DEF ReadEof, ReadError
  <2>2. peer[t] \in {"shut", "gone", "reset"}
    BY <1>3, <2>1, NullAssumption DEF ReadEof, ReadError, Ended
  <2>3. peer'[t] # "open"
    <3>1. peer' = peer \/ peer' = [peer EXCEPT ![t] = ErrorReported(t)]
      BY <1>3, <2>1 DEF ReadEof, ReadError, net
    <3> QED
      BY <2>2, <3>1 DEF ErrorReported, Typed, TypeOK
  <2> QED
    BY <2>3 DEF EchoOf
<1>4. CASE SendLock(t)
  <2>1. /\ UNCHANGED <<net, msg, idx, fdOf, clntSocks>> /\ pc[t] = "lock"
        /\ pc'[t] = "send"
    BY <1>4 DEF SendLock, Goto, registry, Typed, TypeOK
  <2>2. \A n \in 1 .. taken[t] : Coming(t, n) => Coming(t, n)'
    BY <2>1 DEF Coming
  <2> QED
    BY <1>0, <2>1, <2>2, HasStays DEF EchoOf, net
<1>5. CASE SendOne(t)
  <2>1. /\ UNCHANGED <<taken, registry, pc, msg, fdOf>> /\ pc[t] = "send"
        /\ idx[t] < clntCnt /\ idx'[t] = idx[t] + 1 /\ idx[t] \in Nat
    BY <1>5 DEF SendOne, Typed, TypeOK
  <2>2. peer'[t] = "open" => peer[t] = "open"
    BY <1>5, SendOneEffect
  <2>3. ASSUME NEW n \in 1 .. taken[t], Coming(t, n), peer[t] = "open"
        PROVE  Has(t, n)' \/ Coming(t, n)'
    <3>1. CASE clntSocks[idx[t]] = fdOf[t]
      <4>1. fdOf[t] \in Fds /\ owner[fdOf[t]] = t
        BY <2>1, ReadsOwn
      <4>2. idx[t] \in Slots
        BY <2>1, RoomForRegistered, RoomAssumption DEF Slots
      <4>3. Recipients(idx[t]) = {t}
        BY <3>1, <4>1, <4>2, NullAssumption DEF Recipients, Loaded
      <4>4. msg[t] = [from |-> t, num |-> n] /\ msg[t] # Error
        BY <2>3, NullAssumption DEF Coming, Error
      <4>5. got' = [got EXCEPT ![t] = Append(@, msg[t])]
        BY <1>5, <2>3, <4>3, <4>4, NullAssumption DEF SendOne
      <4>6. got[t] \in Seq(Message) /\ msg[t] \in Message
        BY <4>4 DEF Typed, TypeOK
      <4>7. got'[t] = Append(got[t], msg[t])
        BY <4>5 DEF Typed, TypeOK
      <4>8. /\ Len(got[t]) + 1 \in 1 .. Len(got'[t])
            /\ got'[t][Len(got[t]) + 1] = msg[t]
        BY <4>6, <4>7
      <4> QED
        BY <4>4, <4>8 DEF Has
    <3>2. CASE clntSocks[idx[t]] # fdOf[t]
      <4>1. \A k \in 0 .. idx'[t] - 1 : k \in 0 .. idx[t] - 1 \/ k = idx[t]
        BY <2>1
      <4>2. \A k \in 0 .. idx'[t] - 1 : clntSocks[k] # fdOf[t]
        BY <2>3, <3>2, <4>1 DEF Coming
      <4> QED
        BY <2>1, <2>3, <4>2 DEF Coming, registry
    <3> QED
      BY <3>1, <3>2
  <2> QED
    BY <1>0, <2>1, <2>2, <2>3, HasStays DEF EchoOf
<1>6. CASE SendDone(t)
  <2>1. /\ UNCHANGED <<net, registry>> /\ pc[t] = "send" /\ pc'[t] = "read"
        /\ idx[t] >= clntCnt /\ idx[t] \in Nat
    BY <1>6 DEF SendDone, Goto, Typed, TypeOK
  <2>2. t \in Registered
    BY <2>1 DEF Registered
  <2>3. PICK k \in 0 .. clntCnt - 1 : clntSocks[k] = fdOf[t]
    BY <2>2 DEF Listed
  <2>4. clntCnt \in Int
    BY DEF Typed, TypeOK
  <2>5. k \in 0 .. idx[t] - 1
    BY <2>1, <2>3, <2>4
  <2>6. \A n \in 1 .. taken[t] : ~Coming(t, n)
    BY <2>3, <2>5 DEF Coming
  <2> QED
    BY <1>0, <2>1, <2>6, HasStays DEF EchoOf, net
<1>7. CASE SendPipe(t)
  BY <1>7, EchoQuiet DEF SendPipe, net, registry, threads
<1>8. CASE Remove(t) \/ Close(t)
  <2>1. /\ UNCHANGED <<peer, taken, msg, idx, fdOf>> /\ pc[t] \in {"leave", "close"}
        /\ pc'[t] \in {"close", "end"}
    BY <1>8 DEF Remove, Close, Goto, net, Typed, TypeOK
  <2> QED
    BY <2>1, EchoQuiet
<1> QED
  BY <1>1, <1>2, <1>3, <1>4, <1>5, <1>6, <1>7, <1>8 DEF ThreadStep

LEMMA EchoOthers ==
    ASSUME Typed, Owning, Echoing, ~Mixed, [Next]_vars,
           NEW t \in Conns, ThreadStep(t), NEW c \in Conns \ {t}
    PROVE  EchoOf(c)'
<1>1. /\ msg'[c] = msg[c] /\ idx'[c] = idx[c] /\ fdOf'[c] = fdOf[c] /\ pc'[c] = pc[c]
  BY DEF ThreadStep, Start, ReadMessage, ReadEof, ReadError, SendLock, SendOne,
         SendPipe, SendDone, Remove, Close, Goto, threads, Typed, TypeOK
<1>2. taken'[c] = taken[c]
  <2>1. CASE ReadMessage(t)
    <3>1. owner[sock[t]] = t
      BY <2>1, ReadsOwn DEF ReadMessage
    <3> QED
      BY <2>1, <3>1 DEF ReadMessage, Typed, TypeOK
  <2> QED
    BY <2>1 DEF ThreadStep, Start, ReadEof, ReadError, SendLock, SendOne,
                SendPipe, SendDone, Remove, Close, net
<1>3. peer'[c] = "open" => peer[c] = "open"
  <2>1. CASE SendOne(t)
    BY <2>1, SendOneEffect
  <2>2. CASE ReadError(t)
    <3>1. owner[sock[t]] = t
      BY <2>2, ReadsOwn DEF ReadError
    <3> QED
      BY <2>2, <3>1 DEF ReadError, Typed, TypeOK
  <2> QED
    BY <2>1, <2>2 DEF ThreadStep, Start, ReadMessage, ReadEof, SendLock,
                SendPipe, SendDone, Remove, Close, net
<1>4. pc[c] = "send" => clntSocks' = clntSocks
  <2>1. CASE Remove(t)
    BY <2>1, NullAssumption DEF Remove, Typed, LockHeld
  <2> QED
    BY <2>1 DEF ThreadStep, Start, ReadMessage, ReadEof, ReadError, SendLock,
                SendOne, SendPipe, SendDone, Close, registry
<1> QED
  BY <1>1, <1>2, <1>3, <1>4, EchoQuiet

\* The two facts Echoing needs whatever sockets the threads have.
LEMMA EchoCounters ==
    ASSUME Typed, Owning, Echoing, [Next]_vars
    PROVE  /\ \A c \in Conns : peer'[c] = "none" => taken'[c] = 0
           /\ \A t \in Conns : pc'[t] # "send" => idx'[t] = 0
<1>0. /\ \A c \in Conns : peer[c] = "none" => taken[c] = 0
      /\ \A t \in Conns : pc[t] # "send" => idx[t] = 0
  BY DEF Echoing
<1>1. ASSUME NEW c \in Conns, NEW f \in Fds, Accept(c, f)
      PROVE  /\ \A d \in Conns : peer'[d] = "none" => taken'[d] = 0
             /\ \A t \in Conns : pc'[t] # "send" => idx'[t] = 0
  BY <1>0, <1>1 DEF Accept, Typed, TypeOK
<1>2. CASE Register \/ UNCHANGED vars
  BY <1>0, <1>2 DEF Register, vars, net, threads
<1>3. CASE CreateThread
  <2>1. /\ peer' = peer /\ taken' = taken /\ idx' = idx /\ last \in Conns
        /\ pc[last] = "none" /\ pc' = [pc EXCEPT ![last] = "start"]
    BY <1>3 DEF CreateThread, net, Typed, Shape
  <2> QED
    BY <1>0, <2>1 DEF Typed, TypeOK
<1>4. ASSUME NEW t \in Conns, ThreadStep(t)
      PROVE  /\ \A d \in Conns : peer'[d] = "none" => taken'[d] = 0
             /\ \A u \in Conns : pc'[u] # "send" => idx'[u] = 0
  <2>1. \A d \in Conns : peer'[d] = "none" => taken'[d] = 0
    <3>1. CASE SendOne(t)
      <4>1. taken' = taken
        BY <3>1 DEF SendOne
      <4> QED
        BY <1>0, <3>1, <4>1, SendOneEffect
    <3>2. CASE ReadMessage(t)
      <4>1. sock[t] \in Fds
        BY <3>2 DEF ReadMessage, Typed, Shape
      <4>2. /\ peer' = peer
            /\ taken' = [taken EXCEPT ![owner[sock[t]]] = @ + 1]
            /\ peer[owner[sock[t]]] # "none"
        BY <3>2, <4>1 DEF ReadMessage, Owning
      <4> QED
        BY <1>0, <4>2 DEF Typed, TypeOK
    <3>3. CASE ReadError(t)
      <4>1. sock[t] \in Fds /\ taken' = taken
        BY <3>3 DEF ReadError, Typed, Shape
      <4>2. \A d \in Conns : peer'[d] = "none" => peer[d] = "none"
        BY <3>3, <4>1 DEF ReadError, ErrorReported, Typed, TypeOK
      <4> QED
        BY <1>0, <4>1, <4>2
    <3> QED
      BY <1>0, <1>4, <3>1, <3>2, <3>3
      DEF ThreadStep, Start, ReadEof, SendLock, SendPipe, SendDone, Remove,
          Close, net
  <2>2. \A u \in Conns : pc'[u] # "send" => idx'[u] = 0
    <3>1. CASE SendOne(t)
      BY <1>0, <3>1 DEF SendOne, Typed, TypeOK
    <3>2. CASE SendDone(t)
      BY <1>0, <3>2 DEF SendDone, Goto, Typed, TypeOK
    <3>3. CASE SendPipe(t)
      BY <1>0, <3>3 DEF SendPipe, threads
    <3>4. CASE ~SendOne(t) /\ ~SendDone(t) /\ ~SendPipe(t)
      <4>1. /\ idx' = idx /\ pc[t] # "send"
            /\ \A u \in Conns \ {t} : pc'[u] = pc[u]
        BY <1>4, <3>4 DEF ThreadStep, Start, ReadMessage, ReadEof, ReadError,
                          SendLock, Remove, Close, Goto, Typed, TypeOK
      <4> QED
        BY <1>0, <4>1
    <3> QED
      BY <3>1, <3>2, <3>3, <3>4
  <2> QED
    BY <2>1, <2>2
<1>5. ASSUME NEW c \in Conns, ClientSend(c) \/ ClientShut(c) \/ ClientReset(c)
      PROVE  /\ \A d \in Conns : peer'[d] = "none" => taken'[d] = 0
             /\ \A t \in Conns : pc'[t] # "send" => idx'[t] = 0
  BY <1>0, <1>5 DEF ClientSend, ClientShut, ClientReset, threads, Typed, TypeOK
<1> QED
  BY <1>1, <1>2, <1>3, <1>4, <1>5 DEF Next, MainStep, Thread

LEMMA EchoingStep ==
    ASSUME Room
    PROVE  Typed /\ Balanced /\ Owning /\ Listed /\ Echoing /\ [Next]_vars => Echoing'
<1> SUFFICES ASSUME Typed, Balanced, Owning, Listed, Echoing, [Next]_vars,
                    ~Mixed', NEW c \in Conns
             PROVE  EchoOf(c)'
  BY EchoCounters DEF Echoing
<1>1. ~Mixed
  BY MixedStays
<1>2. ASSUME NEW d \in Conns, NEW f \in Fds, Accept(d, f) PROVE EchoOf(c)'
  <2>1. /\ peer[d] = "none" /\ peer' = [peer EXCEPT ![d] = "open"]
        /\ fdOf' = [fdOf EXCEPT ![d] = f]
        /\ UNCHANGED <<taken, clntSocks, pc, msg, idx>>
    BY <1>2 DEF Accept, registry
  <2>2. CASE c = d
    <3>1. taken'[c] = 0
      BY <2>1, <2>2 DEF Echoing
    <3> QED
      BY <3>1 DEF EchoOf
  <2>3. CASE c # d
    <3>1. peer'[c] = peer[c] /\ fdOf'[c] = fdOf[c]
      BY <2>1, <2>3 DEF Typed, TypeOK
    <3> QED
      BY <1>1, <2>1, <3>1, EchoQuiet
  <2> QED
    BY <2>2, <2>3
<1>3. CASE Register
  <2>1. pc[c] # "send"
    BY <1>3, NullAssumption DEF Register, Typed, LockHeld
  <2> QED
    BY <1>1, <1>3, <2>1, EchoQuiet DEF Register, net, threads
<1>4. CASE CreateThread
  <2>1. /\ UNCHANGED <<peer, taken, msg, idx, fdOf, clntSocks>>
        /\ last \in Conns /\ pc[last] = "none" /\ pc' = [pc EXCEPT ![last] = "start"]
    BY <1>4 DEF CreateThread, net, registry, Typed, Shape
  <2>2. pc'[c] = pc[c] \/ (pc[c] = "none" /\ pc'[c] = "start")
    BY <2>1 DEF Typed, TypeOK
  <2> QED
    BY <1>1, <2>1, <2>2, EchoQuiet
<1>5. ASSUME NEW t \in Conns, ThreadStep(t), Running PROVE EchoOf(c)'
  <2>1. CASE c = t
    BY <1>1, <1>5, <2>1, EchoThread
  <2>2. CASE c # t
    BY <1>1, <1>5, <2>2, EchoOthers
  <2> QED
    BY <2>1, <2>2
<1>6. ASSUME NEW d \in Conns, ClientSend(d) \/ ClientShut(d) \/ ClientReset(d)
      PROVE  EchoOf(c)'
  <2>1. UNCHANGED <<taken, clntSocks, threads>> /\ (peer'[c] = "open" => peer[c] = "open")
    BY <1>6 DEF ClientSend, ClientShut, ClientReset, registry, Typed, TypeOK
  <2> QED
    BY <1>1, <2>1, EchoQuiet DEF threads
<1>7. CASE UNCHANGED vars
  BY <1>1, <1>7, EchoQuiet DEF vars, net, registry, threads
<1> QED
  BY <1>2, <1>3, <1>4, <1>5, <1>6, <1>7 DEF Next, MainStep, Thread

\* If clnt_socks has room for every open socket, the Windows program writes each
\* message back to its own sender before it reads the next one, until the
\* sender leaves or two threads get each other's sockets.
THEOREM EchoedHolds ==
    ASSUME Platform = "windows", Room
    PROVE  Spec => []Echoed
<1>1. Spec => []Echoing
  BY EchoingInit, EchoingStep, TypedAlways, BalancedAlways, OwningAlways,
     ListedAlways, PTL DEF Spec
<1>2. Echoing => Echoed
  BY DEF Echoing, EchoOf, Echoed, Coming, Has
<1> QED
  BY <1>1, <1>2, PTL

=============================================================================
