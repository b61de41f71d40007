------------------------------ MODULE WebServer ------------------------------
(* 0729/windows/webserv_win.c: a thread for each connection reads one        *)
(* request, sends a file or an error and closes the socket.  SendErrorMSG    *)
(* closes it too, and a handler that has called it goes on: it closes the    *)
(* socket again, or, if the request was no GET, sends to it first.           *)
(*                                                                           *)
(* A unit of a client's input is a request; one whose file name has no       *)
(* extension, which ContentType cannot take apart, is left out.              *)
EXTENDS Sockets

VARIABLES handler   \* the request handlers: where each is, its hClntSock and
                    \* the connection it was created for
VARIABLES stray     \* history: a handler went on with a socket that had
                    \* become that of another connection

server == <<handler, stray>>

Handler == [pc : {"recv", "refuse", "close", "send"}, sock : Fds, of : Conns]

TypeOK ==
    /\ NetTypeOK
    /\ handler \in SUBSET Handler /\ stray \in BOOLEAN

Init == NetInit /\ program = "web" /\ handler = {} /\ stray = FALSE

\* main hands the socket over by value.
Accept(f) ==
    /\ AcceptAs(f)
    /\ handler' = handler \cup {[pc |-> "recv", sock |-> f, of |-> Head(backlog)]}
    /\ UNCHANGED <<peer, sent, taken, got, stray>>

Note(h) == stray' = (stray \/ owner[h.sock] \notin {h.of, NoConn})

Goto(h, label) == handler' = (handler \ {h}) \cup {[h EXCEPT !.pc = label]}

\* What recv left in buf decides; after 0 or -1 (as for a socket that another
\* handler has closed) that is anything.  A GET goes on to SendData.
RequestHandler(h) ==
    LET c == owner[h.sock] IN
    /\ h.pc = "recv"
    /\ IF c = NoConn THEN UNCHANGED taken
       ELSE IF HasData(c) THEN TakeUnit(c) ELSE Readable(c) /\ UNCHANGED taken
    /\ \E next \in {"refuse", "send"} : Goto(h, next)
    /\ Note(h)
    /\ UNCHANGED <<peer, backlog, sent, got, since, owner>>

\* Sends what there is to send to whoever has the socket now.
Answer(h) ==
    LET to == {owner[h.sock]} \ {NoConn} IN
    /\ WriteTo(to, [from |-> h.of, num |-> 1])
    /\ CloseFd(h.sock)
    /\ UNCHANGED <<backlog, sent, taken, since>>

\* After SendErrorMSG comes SendData, or if there was no "HTTP/" the end.
SendErrorMSG(h) ==
    /\ h.pc = "refuse"
    /\ Answer(h)
    /\ Note(h)
    /\ \E next \in {"close", "send"} : Goto(h, next)

\* The closesocket of RequestHandler after SendErrorMSG.
CloseAgain(h) ==
    /\ h.pc = "close"
    /\ CloseFd(h.sock)
    /\ Note(h)
    /\ handler' = handler \ {h}
    /\ UNCHANGED <<peer, backlog, sent, taken, got, since>>

\* The file, or the error again if there is none.
SendData(h) ==
    /\ h.pc = "send"
    /\ Answer(h)
    /\ Note(h)
    /\ handler' = handler \ {h}

Server ==
    \/ \E f \in Fds : Accept(f)
    \/ \E h \in handler : RequestHandler(h) \/ SendErrorMSG(h) \/ CloseAgain(h)
                         \/ SendData(h)

Client(c) == Connect(c) \/ ClientSend(c) \/ ClientShut(c) \/ ClientReset(c)

Next == Server \/ \E c \in Conns : Client(c) /\ UNCHANGED server
-----------------------------------------------------------------------------
\* As long as no handler has gone on with a socket of another connection, a
\* client gets one answer at most, to its own request.
OwnAnswer ==
    ~stray => \A c \in Conns : got[c] \in {<<>>, <<[from |-> c, num |-> 1]>>}
=============================================================================
