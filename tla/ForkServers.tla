----------------------------- MODULE ForkServers -----------------------------
(* The servers of 0706/linux that fork a process for each client:            *)
(*   fork       echo_mpserv.c                                                *)
(*   fork_store echo_storeserv.c, where the children also write what they    *)
(*              read to a pipe, which one more process stores                *)
(*                                                                           *)
(* A descriptor of Fds stands for an open connection here: every process     *)
(* has numbers of its own.  fork is taken to succeed, and the pipe to have   *)
(* room.                                                                     *)
EXTENDS Sockets

CONSTANT StoreReads   \* bound: the reads of the store process, ten in the code

VARIABLES pc, fd,     \* the parent and the connection it accepted last
          kid,        \* the child of a connection
          chld,       \* SIGCHLD is pending for the parent
          pipe, reads \* messages in the pipe, the reads the store has done

server == <<pc, fd, kid, chld, pipe, reads>>

Stores == program = "fork_store"

TypeOK ==
    /\ NetTypeOK
    /\ pc \in {"accept", "fork", "close"} /\ fd \in Fds \cup {Serv}
    /\ kid \in [Conns -> {"none", "serve", "pipe", "zombie", "reaped"}]
    /\ chld \in BOOLEAN
    /\ pipe \in Nat /\ reads \in 0 .. StoreReads

Listening ==
    /\ NetInit
    /\ pc = "accept" /\ fd = Serv
    /\ kid = [c \in Conns |-> "none"] /\ chld = FALSE
    /\ pipe = 0 /\ reads = 0

StartMpserv == program = "fork" /\ Listening
\* The store process has been forked.
StartStoreserv == program = "fork_store" /\ Listening

Init == StartMpserv \/ StartStoreserv

-----------------------------------------------------------------------------
(* The parent.                                                               *)

Accept ==
    /\ pc = "accept"
    /\ AcceptAs(LowestFree)
    /\ fd' = LowestFree /\ pc' = "fork"
    /\ UNCHANGED <<peer, sent, taken, got, kid, chld, pipe, reads>>

Fork ==
    /\ pc = "fork"
    /\ kid' = [kid EXCEPT ![owner[fd]] = "serve"]
    /\ pc' = "close"
    /\ UNCHANGED <<net, fd, chld, pipe, reads>>

\* The connection is closed when both processes have closed it.
ParentClose ==
    /\ pc = "close"
    /\ IF kid[owner[fd]] \in {"zombie", "reaped"} THEN CloseFd(fd) ELSE UNCHANGED owner
    /\ pc' = "accept" /\ fd' = Serv
    /\ UNCHANGED <<peer, backlog, sent, taken, got, since, kid, chld, pipe, reads>>

\* read_childproc runs between two steps of main: one child is waited for,
\* however many have ended; it may be the store process.
Reap ==
    LET zombies == {c \in Conns : kid[c] = "zombie"} IN
    /\ chld
    /\ chld' = FALSE
    /\ \/ \E c \in zombies : kid' = [kid EXCEPT ![c] = "reaped"]
       \/ (zombies = {} \/ reads = StoreReads) /\ UNCHANGED kid
    /\ UNCHANGED <<net, pc, fd, pipe, reads>>

-----------------------------------------------------------------------------
(* The child of c.                                                           *)

\* The end of the process closes what it has open, and SIGCHLD is raised.
Exit(c) ==
    /\ kid' = [kid EXCEPT ![c] = "zombie"]
    /\ chld' = TRUE
    /\ owner' = [f \in Fds |-> IF owner[f] = c /\ f # fd THEN NoConn ELSE owner[f]]

KidEnds(c) ==
    /\ kid[c] = "serve" /\ AtEnd(c)
    /\ Exit(c)
    /\ UNCHANGED <<peer, backlog, sent, taken, got, since, pc, fd, pipe, reads>>

\* SIGPIPE ends the child alone.
KidEchoes(c) ==
    /\ kid[c] = "serve" /\ HasData(c)
    /\ TakeUnit(c)
    /\ IF RaisesSigpipe({c})
       THEN Exit(c) /\ UNCHANGED <<peer, got>>
       ELSE /\ WriteTo({c}, NextUnit(c))
            /\ kid' = IF Stores THEN [kid EXCEPT ![c] = "pipe"] ELSE kid
            /\ UNCHANGED <<owner, chld>>
    /\ UNCHANGED <<backlog, sent, since, pc, fd, pipe, reads>>

KidStores(c) ==
    /\ kid[c] = "pipe"
    /\ pipe' = pipe + 1
    /\ kid' = [kid EXCEPT ![c] = "serve"]
    /\ UNCHANGED <<net, pc, fd, chld, reads>>

KidFails(c) ==
    /\ kid[c] = "serve" /\ Failed(c)
    /\ peer' = [peer EXCEPT ![c] = Reported(c)]
    /\ UNCHANGED <<backlog, sent, taken, got, since, owner, server>>

\* A read of the store process takes one or more of the messages; after the
\* last it ends, and what is written then stays in the pipe.
Store ==
    /\ reads < StoreReads
    /\ \E n \in 0 .. pipe - 1 : pipe' = n
    /\ reads' = reads + 1
    /\ chld' = (chld \/ reads + 1 = StoreReads)
    /\ UNCHANGED <<net, pc, fd, kid>>

Parent == Accept \/ Fork \/ ParentClose
Kid(c) == KidEnds(c) \/ KidEchoes(c) \/ KidFails(c)

EchoMpserv == program = "fork" /\ (Parent \/ Reap \/ \E c \in Conns : Kid(c))
EchoStoreserv ==
    /\ program = "fork_store"
    /\ Parent \/ Reap \/ Store \/ \E c \in Conns : Kid(c) \/ KidStores(c)

Server == EchoMpserv \/ EchoStoreserv

Client(c) == Connect(c) \/ ClientSend(c) \/ ClientShut(c) \/ ClientReset(c)

Next == Server \/ \E c \in Conns : Client(c) /\ UNCHANGED server
=============================================================================
