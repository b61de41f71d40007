----------------------- MODULE CompletionRoutineServer -----------------------
(* 0723/windows/CmplRouEchoServ_win.c: one thread that alternates between    *)
(* SleepEx, in which the completion routines of finished overlapped calls    *)
(* run, and accept on a listening socket that does not block.  Each client   *)
(* has one OVERLAPPED and one buffer for all its calls.                      *)
(*                                                                           *)
(* Input is counted in units of what a receive returns, which gets smaller:  *)
(* wsaBuf.len keeps the length of the last message.                          *)
EXTENDS Sockets

VARIABLES pc,   \* in SleepEx or before accept
          op,   \* the overlapped call of a client: none, outstanding, done
          apc,  \* the clients whose completion routine is due
          msg   \* what is in a client's buffer

server == <<pc, op, apc, msg>>

NoUnit == [from |-> NoConn, num |-> 0]

TypeOK ==
    /\ NetTypeOK
    /\ pc \in {"sleep", "accept"}
    /\ op \in [Conns -> {"none", "recv", "recvd", "send", "sent", "failed"}]
    /\ apc \in Seq(Conns)
    /\ msg \in [Conns -> Unit \cup {NoUnit}]

Init ==
    /\ NetInit
    /\ program = "routines"
    /\ pc = "sleep" /\ apc = <<>>
    /\ op = [c \in Conns |-> "none"] /\ msg = [c \in Conns |-> NoUnit]

\* WSARecv and WSASend fail at once on a broken connection, and then no
\* routine is called.
Post(c, call) ==
    op' = [op EXCEPT ![c] = IF peer[c] = "reset" THEN "failed" ELSE call]

ReceiveCompletes(c) ==
    /\ op[c] = "recv" /\ Readable(c)
    /\ IF HasData(c)
       THEN TakeUnit(c) /\ msg' = [msg EXCEPT ![c] = NextUnit(c)]
       ELSE msg' = [msg EXCEPT ![c] = NoUnit] /\ UNCHANGED taken
    /\ op' = [op EXCEPT ![c] = "recvd"]
    /\ apc' = Append(apc, c)
    /\ UNCHANGED <<peer, backlog, sent, got, since, owner, pc>>

SendCompletes(c) ==
    /\ op[c] = "send"
    /\ WriteTo({c}, msg[c])
    /\ op' = [op EXCEPT ![c] = "sent"]
    /\ apc' = Append(apc, c)
    /\ UNCHANGED <<backlog, sent, taken, since, owner, pc, msg>>

Due(c, state) == pc = "sleep" /\ apc # <<>> /\ Head(apc) = c /\ op[c] = state

\* ReadCompRoutine with 0 bytes (or an error): closesocket, free, free.
ReadEnd(c) ==
    /\ Due(c, "recvd") /\ msg[c] = NoUnit
    /\ owner' = [f \in Fds |-> IF owner[f] = c THEN NoConn ELSE owner[f]]
    /\ op' = [op EXCEPT ![c] = "none"]
    /\ apc' = Tail(apc)
    /\ UNCHANGED <<peer, backlog, sent, taken, got, since, pc, msg>>

ReadCompRoutine(c) ==
    /\ Due(c, "recvd") /\ msg[c] # NoUnit
    /\ Post(c, "send")
    /\ apc' = Tail(apc)
    /\ UNCHANGED <<net, pc, msg>>

WriteCompRoutine(c) ==
    /\ Due(c, "sent")
    /\ Post(c, "recv")
    /\ apc' = Tail(apc)
    /\ UNCHANGED <<net, pc, msg>>

\* SleepEx returns when it has run what was due.  If accept then finds no
\* connection the loop starts again, which is no step.
Wake ==
    /\ pc = "sleep" /\ apc = <<>> /\ backlog # <<>>
    /\ pc' = "accept"
    /\ UNCHANGED <<net, op, apc, msg>>

Accept(f) ==
    /\ pc = "accept"
    /\ AcceptAs(f)
    /\ Post(Head(backlog), "recv")
    /\ pc' = "sleep"
    /\ UNCHANGED <<peer, sent, taken, got, apc, msg>>

Routine(c) == ReadEnd(c) \/ ReadCompRoutine(c) \/ WriteCompRoutine(c)

Server ==
    \/ Wake
    \/ \E f \in Fds : Accept(f)
    \/ \E c \in Conns : ReceiveCompletes(c) \/ SendCompletes(c) \/ Routine(c)

Client(c) == Connect(c) \/ ClientSend(c) \/ ClientShut(c) \/ ClientReset(c)

Next == Server \/ \E c \in Conns : Client(c) /\ UNCHANGED server
=============================================================================
