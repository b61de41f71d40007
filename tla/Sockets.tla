------------------------------ MODULE Sockets ------------------------------
(* TCP as the single-threaded servers of 0707, 0709 and 0721 see it: clients *)
(* that connect, send and leave, and what accept, read and write do.         *)
(*                                                                           *)
(* Abstractions: input is counted in units of what one read returns; a       *)
(* client has room for whatever is written to it.                            *)
EXTENDS Integers, Sequences, FiniteSets, FiniteSetsExt

CONSTANTS Conns,   \* connections
          Fds,     \* descriptors or SOCKET values of accepted connections
          Quota,   \* bound: units a client may send
          Serv,    \* the listening socket
          NoConn

ASSUME SocketsAssumption ==
    /\ IsFiniteSet(Fds) /\ Fds \cup {Serv} \subseteq Nat
    /\ Serv \notin Fds \cup Conns /\ NoConn \notin Conns
    /\ Quota \in [Conns -> Nat]

VARIABLES
    program,     \* which server was started
    peer,        \* how far the client at the other end has got
    backlog,     \* connections not yet accepted
    sent, taken, \* units a client sent / the server read
    got,         \* history: the units written to a client that was there
    since,       \* history: what had been read when a client was accepted
    owner        \* the connection a descriptor denotes

net == <<peer, backlog, sent, taken, got, since, owner>>

Unit == [from : Conns, num : Nat]
Peers == {"none", "open", "shut", "reset", "gone"}

NetTypeOK ==
    /\ peer \in [Conns -> Peers]
    /\ backlog \in Seq(Conns)
    /\ sent \in [Conns -> Nat] /\ taken \in [Conns -> Nat]
    /\ got \in [Conns -> Seq(Unit)]
    /\ since \in [Conns -> [Conns -> Nat]]
    /\ owner \in [Fds -> Conns \cup {NoConn}]

NetInit ==
    /\ peer = [c \in Conns |-> "none"]
    /\ backlog = <<>>
    /\ sent = [c \in Conns |-> 0] /\ taken = [c \in Conns |-> 0]
    /\ got = [c \in Conns |-> <<>>]
    /\ since = [c \in Conns |-> [d \in Conns |-> 0]]
    /\ owner = [f \in Fds |-> NoConn]

OnWindows == program \in {"select_win", "notify_echo", "notify_chat", "iter_win", "routines", "web", "iocp_c", "iocp_wsasend", "iocp_send", "iocp_echo"}

-----------------------------------------------------------------------------
(* The clients.                                                              *)

Connect(c) ==
    /\ peer[c] = "none"
    /\ peer' = [peer EXCEPT ![c] = "open"]
    /\ backlog' = Append(backlog, c)
    /\ UNCHANGED <<sent, taken, got, since, owner>>

\* One call may carry more than one read of the server returns.
ClientSend(c) ==
    /\ peer[c] = "open"
    /\ \E n \in sent[c] + 1 .. Quota[c] : sent' = [sent EXCEPT ![c] = n]
    /\ UNCHANGED <<peer, backlog, taken, got, since, owner>>

ClientShut(c) ==
    /\ peer[c] = "open"
    /\ peer' = [peer EXCEPT ![c] = "shut"]
    /\ UNCHANGED <<backlog, sent, taken, got, since, owner>>

\* The connection breaks; some of what was not read may be lost.
ClientReset(c) ==
    /\ peer[c] = "open"
    /\ peer' = [peer EXCEPT ![c] = "reset"]
    /\ \E n \in taken[c] .. sent[c] : sent' = [sent EXCEPT ![c] = n]
    /\ UNCHANGED <<backlog, taken, got, since, owner>>

-----------------------------------------------------------------------------
(* The calls of the server.                                                  *)

\* accept returns the oldest connection on a free descriptor; that it fails
\* for want of one is left out.
AcceptAs(f) ==
    /\ backlog # <<>>
    /\ f \in Fds /\ owner[f] = NoConn
    /\ owner' = [owner EXCEPT ![f] = Head(backlog)]
    /\ since' = [since EXCEPT ![Head(backlog)] = taken]
    /\ backlog' = Tail(backlog)

LowestFree == Min({f \in Fds : owner[f] = NoConn})

HasData(c) == taken[c] < sent[c]
AtEnd(c) == ~HasData(c) /\ peer[c] \in {"shut", "gone"}
Failed(c) == ~HasData(c) /\ peer[c] = "reset"
Readable(c) == HasData(c) \/ AtEnd(c) \/ Failed(c)

TakeUnit(c) == taken' = [taken EXCEPT ![c] = @ + 1]
NextUnit(c) == [from |-> c, num |-> taken[c] + 1]

\* Linux reports a broken connection once, Windows every time.
Reported(c) == IF OnWindows THEN peer[c] ELSE "gone"

\* A client that has closed answers a write with a reset, which may come
\* before the next write; a broken connection reports its error.
Transmit(cs) ==
    \E refused \in SUBSET {c \in cs : peer[c] = "shut"} :
       peer' = [c \in Conns |->
                  IF c \in refused THEN IF OnWindows THEN "reset" ELSE "gone"
                  ELSE IF c \in cs /\ peer[c] = "reset" THEN Reported(c)
                  ELSE peer[c]]

WriteTo(cs, u) ==
    /\ Transmit(cs)
    /\ got' = [c \in Conns |-> IF c \in cs /\ peer[c] = "open"
                               THEN Append(got[c], u) ELSE got[c]]

\* A write to a connection that is known to be broken raises SIGPIPE on
\* Linux, which no program handles.
RaisesSigpipe(cs) == ~OnWindows /\ \E c \in cs : peer[c] = "gone"

CloseFd(f) == owner' = [owner EXCEPT ![f] = NoConn]

-----------------------------------------------------------------------------
\* The connections the server has accepted and not closed.
Served == {c \in Conns : \E f \in Fds : owner[f] = c}

\* A connection is over for the server: accepted once, and closed.
Over(c) == peer[c] # "none" /\ c \notin Served
           /\ \A k \in 1 .. Len(backlog) : backlog[k] # c

\* The units of client c in s are those after the first m up to unit n, in
\* order and once.
Carries(s, c, m, n) ==
    LET At == {k \in 1 .. Len(s) : s[k].from = c} IN
    /\ m <= n
    /\ {s[k].num : k \in At} = m + 1 .. n
    /\ \A j, k \in At : j < k => s[j].num < s[k].num
=============================================================================
