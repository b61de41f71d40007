---------------------------- MODULE StreamScripts ----------------------------
(* The programs that come in pairs and run through one exchange of messages: *)
(* over a TCP connection (0702, 0704, 0705, 0707, 0708, 0722), parent and child    *)
(* over pipes (0706), and the echo and chat clients with a server.  Each     *)
(* program, process or thread is the sequence of its calls.                  *)
(*                                                                           *)
(* A channel carries bytes one way; what they mean is left out, so is what a *)
(* program does after a read that was shorter than it relies on.  Servers    *)
(* are started first, files exist, fork succeeds and no connection breaks.   *)
EXTENDS Integers, Sequences

CONSTANTS
    Num, Str,  \* bytes of an int, of a message
    Lines      \* bound: messages the user of a client types before q

\* What the constants may be.
StreamParameters ==
    Num \in Nat \ {0} /\ Str \in Nat \ {0} /\ Lines \in Nat

VARIABLES
    script,   \* which pair was started
    todo,     \* the calls each side has still to make
    up,       \* how far the connection is
    bytes,    \* unread bytes of each channel
    shut,     \* channels nobody can write to any more
    gone,     \* channels nobody can read from any more
    garbled,  \* a read was shorter than the program relies on
    refused   \* history: something was written that nobody can read

stream == <<todo, up, bytes, shut, gone, garbled, refused>>

\* The client or child is 1, the server or parent 2; channel 1 leads from 1 to
\* 2 and channel 2 back.  3 is a second process or thread of the client.
Sides == 1 .. 3
Chans == 1 .. 2

-----------------------------------------------------------------------------
(* Calls.                                                                    *)

Call(op, c, n) == [op |-> op, chan |-> c, len |-> n]

Listen == Call("listen", 0, 0)
Accept == Call("accept", 0, 0)
Connect == Call("connect", 0, 0)
Begin == Call("begin", 0, 0)          \* the client has made this process or thread
Write(c, n) == Call("write", c, n)
Read(c, n) == Call("read", c, n)      \* one read that should return n bytes
ReadSome(c, n) == Call("some", c, n)  \* one read, whatever it returns
Peek(c) == Call("peek", c, 0)         \* looks until there is something
Fill(c, n) == Call("fill", c, n)      \* reads until n bytes have come
Drain(c) == Call("drain", c, 0)       \* reads to the end of the stream
Follow(c) == Call("follow", c, 0)     \* reads for ever
Echo == Call("echo", 1, 0)            \* sends back all that comes until the end
Shut(c) == Call("shut", c, 0)
Close == Call("close", 0, 0)
Exit == Call("exit", 0, 0)            \* of the process, with all its threads

Times(n, calls) == [k \in 1 .. n * Len(calls) |-> calls[((k - 1) % Len(calls)) + 1]]

-----------------------------------------------------------------------------
(* 0702: a greeting.                                                         *)

HelloServer == <<Listen, Accept, Write(2, Str), Close>>
HelloClient == <<Connect, Read(2, Str), Close>>
HelloServerWin == <<Listen, Accept, Write(2, Str), Close>>
HelloClientWin == <<Connect, Read(2, Str), Close>>
TcpServer == <<Listen, Accept, Write(2, Str), Close>>
TcpClient == <<Connect, Drain(2), Close>>
TcpServerWin == <<Listen, Accept, Write(2, Str), Close>>
TcpClientWin == <<Connect, Drain(2), Close>>
\* Three writes, and a client that hopes to read them at once.
TcpServer2 == <<Listen, Accept>> \o Times(3, <<Write(2, 1)>>) \o <<Close>>
TcpClient2 == <<Connect, Read(2, 3), Close>>

(* 0704: three strings with their lengths, a calculator, a file.             *)

StringServer ==
    <<Listen, Accept>>
    \o Times(3, <<Write(2, Num), Write(2, Str), Read(1, Num), Read(1, Str)>>)
    \o <<Close>>
StringClient ==
    <<Connect>>
    \o Times(3, <<Read(2, Num), Read(2, Str), Write(1, Num), Write(1, Str)>>)
    \o <<Close>>
OpServer ==
    <<Listen, Accept, Read(1, Num)>> \o Times(2, <<Read(1, Num)>>)
    \o <<Read(1, 1), Write(2, Num), Close>>
OpClient ==
    <<Connect, Write(1, Num)>> \o Times(2, <<Write(1, Num)>>)
    \o <<Write(1, 1), Read(2, Num), Close>>
FileByNameServer == <<Listen, Accept, Read(1, Str), Write(2, Str), Close>>
FileByNameClient == <<Connect, Write(1, Str), Read(2, Str), Close>>

(* 0705: a file in pieces, its end marked by half closing.                   *)

FileServer ==
    <<Listen, Accept, Write(2, Str), Write(2, 1), Shut(2), Read(1, Str), Close>>
FileClient == <<Connect, Drain(2), Write(1, Str), Close>>
FileServerWin ==
    <<Listen, Accept, Write(2, Str), Write(2, 1), Shut(2), Read(1, Str), Close>>
FileClientWin == <<Connect, Drain(2), Write(1, Str), Close>>

(* 0708: the same through FILEs.                                             *)

\* fclose(writefp) closes the socket; fgets(readfp) fails.
SepServ == <<Listen, Accept, Write(2, Str), Close>>
\* writefp is on a dup; shutdown half closes the connection all the same.
SepServ2 == <<Listen, Accept, Write(2, Str), Shut(2), Read(1, Str), Close>>
SepClnt == <<Connect, Drain(2), Write(1, Str), Close>>

(* 0707: data looked at with MSG_PEEK and read after that.                   *)

PeekSend == <<Connect, Write(1, Str), Close>>
PeekRecv == <<Listen, Accept, Peek(1), Read(1, Str), Close>>

(* 0722: one overlapped send and one overlapped receive, waited for with an  *)
(* event object or with a completion routine.                                *)

OverlappedSend == <<Connect, Write(1, Str), Close>>
OverlappedRecv == <<Listen, Accept, Read(1, Str), Close>>
CmplRoutinesRecv == <<Listen, Accept, Read(1, Str), Close>>

(* 0706: pipes.  In pipe2.c both processes read and write the same one.      *)

Pipe1Child == <<Write(1, Str), Close>>
Pipe1Parent == <<Read(1, Str), Close>>
Pipe2Child == <<Write(1, Str), Read(1, Str), Close>>
Pipe2Parent == <<Read(1, Str), Write(1, Str), Close>>
Pipe3Child == <<Write(1, Str), Read(2, Str), Close>>
Pipe3Parent == <<Read(1, Str), Write(2, Str), Close>>
StrPipeChild == Times(3, <<Write(1, Str), Read(2, Str)>>) \o <<Close>>
StrPipeParent == Times(3, <<Read(1, Str), Write(2, Str)>>) \o <<Close>>

(* The echo clients; their user types Lines messages and q.                  *)

\* One read per message.
EchoClient == <<Connect>> \o Times(Lines, <<Write(1, Str), ReadSome(2, Str)>>) \o <<Close>>
EchoClientWin == <<Connect>> \o Times(Lines, <<Write(1, Str), ReadSome(2, Str)>>) \o <<Close>>

\* Mutant: the inner loop ends after one read.
EchoClient2Once == <<Connect>> \o Times(Lines, <<Write(1, Str), ReadSome(2, Str)>>) \o <<Close>>

EchoClient2 == <<Connect>> \o Times(Lines, <<Write(1, Str), Fill(2, Str)>>) \o <<Close>>

EchoStdClient == <<Connect>> \o Times(Lines, <<Write(1, Str), Fill(2, Str)>>) \o <<Close>>
StableEchoClnt == <<Connect>> \o Times(Lines, <<Write(1, Str), Fill(2, Str)>>) \o <<Close>>

\* Mutant: without shutdown, the parent still has the socket.
WriteRoutineCloses == <<Begin>> \o Times(Lines, <<Write(1, Str)>>) \o <<Close>>

\* Two processes; the child half closes and the parent reads to the end.
WriteRoutine == <<Begin>> \o Times(Lines, <<Write(1, Str)>>) \o <<Shut(1), Close>>

ReadRoutine == <<Connect, Drain(2), Close>>

(* The chat clients: two threads.  On q the sending one closes and ends the  *)
(* process; that of chat_client.cpp returns after its messages.              *)

SendMsg == <<Begin>> \o Times(Lines, <<Write(1, Str)>>) \o <<Exit>>
ChatClnt == <<Connect, Follow(2)>>
SendMsgWin == <<Begin>> \o Times(Lines, <<Write(1, Str)>>) \o <<Exit>>
ChatClntWin == <<Connect, Follow(2)>>
SendMsgCpp == <<Begin>> \o Times(Lines, <<Write(1, Str)>>) \o <<Exit>>
ConnectServer == <<Connect, Follow(2)>>
SendMsgC == <<Begin>> \o Times(Lines, <<Write(1, Str)>>)
ChatClientC == <<Connect, Follow(2)>>

\* What the echo and chat servers are to a client.
Answerer == <<Listen, Accept, Echo, Close>>

Pairs ==
    [hello |-> <<HelloClient, HelloServer>>,
     hello_win |-> <<HelloClientWin, HelloServerWin>>,
     tcp |-> <<TcpClient, TcpServer>>, tcp_win |-> <<TcpClientWin, TcpServerWin>>,
     tcp2 |-> <<TcpClient2, TcpServer2>>,
     string3 |-> <<StringClient, StringServer>>, op |-> <<OpClient, OpServer>>,
     file_name |-> <<FileByNameClient, FileByNameServer>>,
     file |-> <<FileClient, FileServer>>,
     file_win |-> <<FileClientWin, FileServerWin>>,
     sep |-> <<SepClnt, SepServ>>, sep2 |-> <<SepClnt, SepServ2>>,
     peek |-> <<PeekSend, PeekRecv>>,
     overlapped |-> <<OverlappedSend, OverlappedRecv>>,
     routine |-> <<OverlappedSend, CmplRoutinesRecv>>,
     pipe1 |-> <<Pipe1Child, Pipe1Parent>>, pipe2 |-> <<Pipe2Child, Pipe2Parent>>,
     pipe3 |-> <<Pipe3Child, Pipe3Parent>>,
     pipe_str |-> <<StrPipeChild, StrPipeParent>>,
     once |-> <<EchoClient, Answerer>>, once_win |-> <<EchoClientWin, Answerer>>,
     count |-> <<EchoClient2, Answerer>>, line |-> <<EchoStdClient, Answerer>>,
     stable |-> <<StableEchoClnt, Answerer>>,
     split |-> <<ReadRoutine, Answerer, WriteRoutine>>,
     chat |-> <<ChatClnt, Answerer, SendMsg>>,
     chat_win |-> <<ChatClntWin, Answerer, SendMsgWin>>,
     chat_cpp |-> <<ConnectServer, Answerer, SendMsgCpp>>,
     chat_c |-> <<ChatClientC, Answerer, SendMsgC>>]

OnPipes == script \in {"pipe1", "pipe2", "pipe3", "pipe_str"}

-----------------------------------------------------------------------------
TypeOK ==
    /\ script \in DOMAIN Pairs
    /\ todo \in [Sides -> Seq([op : {"listen", "accept", "connect", "begin", "write",
                                     "read", "some", "peek", "fill", "drain", "follow",
                                     "echo", "shut", "close", "exit"},
                               chan : {0} \cup Chans, len : Nat])]
    /\ up \subseteq {"listening", "connected"}
    /\ bytes \in [Chans -> Nat]
    /\ shut \in SUBSET Chans /\ gone \in SUBSET Chans
    /\ garbled \in BOOLEAN /\ refused \in BOOLEAN

Init ==
    /\ script \in DOMAIN Pairs
    /\ todo = [s \in Sides |-> IF s <= Len(Pairs[script]) THEN Pairs[script][s] ELSE <<>>]
    /\ up = {} /\ bytes = [c \in Chans |-> 0]
    /\ shut = {} /\ gone = {} /\ garbled = FALSE /\ refused = FALSE

Ended(s) == todo[s] = <<>>

\* Side s is about to make this call.
Now(s) == Head(todo[s])
Calls(s, op) == ~garbled /\ ~Ended(s) /\ Now(s).op = op
Done(s) == todo' = [todo EXCEPT ![s] = Tail(@)]

\* accept returns when the client has connected, connect when the server
\* listens.
Establish(s) ==
    /\ \/ Calls(s, "listen") /\ up' = up \cup {"listening"}
       \/ Calls(s, "connect") /\ "listening" \in up /\ up' = up \cup {"connected"}
       \/ Calls(s, "accept") /\ "connected" \in up /\ UNCHANGED up
       \/ Calls(s, "begin") /\ "connected" \in up /\ UNCHANGED up
    /\ Done(s)
    /\ UNCHANGED <<bytes, shut, gone, garbled, refused>>

DoWrite(s) ==
    /\ Calls(s, "write")
    /\ IF Now(s).chan \in gone
       THEN refused' = TRUE /\ UNCHANGED bytes
       ELSE bytes' = [bytes EXCEPT ![Now(s).chan] = @ + Now(s).len] /\ UNCHANGED refused
    /\ Done(s)
    /\ UNCHANGED <<up, shut, gone, garbled>>

\* A read returns what a pipe holds; TCP may have delivered a part only.  At
\* the end of the stream it returns nothing.
Returned(c, n) ==
    LET most == IF bytes[c] < n THEN bytes[c] ELSE n IN
    IF bytes[c] = 0 THEN (IF c \in shut THEN {0} ELSE {})
    ELSE IF OnPipes THEN {most} ELSE 1 .. most

DoRead(s) ==
    /\ Calls(s, "read")
    /\ \E n \in Returned(Now(s).chan, Now(s).len) :
          /\ bytes' = [bytes EXCEPT ![Now(s).chan] = @ - n]
          /\ garbled' = (n < Now(s).len)
    /\ Done(s)
    /\ UNCHANGED <<up, shut, gone, refused>>

DoReadSome(s) ==
    /\ Calls(s, "some")
    /\ \E n \in Returned(Now(s).chan, Now(s).len) :
          bytes' = [bytes EXCEPT ![Now(s).chan] = @ - n]
    /\ Done(s)
    /\ UNCHANGED <<up, shut, gone, garbled, refused>>

DoPeek(s) ==
    /\ Calls(s, "peek") /\ bytes[Now(s).chan] > 0
    /\ Done(s)
    /\ UNCHANGED <<up, bytes, shut, gone, garbled, refused>>

\* The reads of the inner loop as one; never done if the end comes first.
DoFill(s) ==
    /\ Calls(s, "fill") /\ bytes[Now(s).chan] >= Now(s).len
    /\ bytes' = [bytes EXCEPT ![Now(s).chan] = @ - Now(s).len]
    /\ Done(s)
    /\ UNCHANGED <<up, shut, gone, garbled, refused>>

DoDrain(s) ==
    LET c == Now(s).chan IN
    /\ Calls(s, "drain")
    /\ \/ bytes[c] > 0 /\ bytes' = [bytes EXCEPT ![c] = 0] /\ UNCHANGED todo
       \/ bytes[c] = 0 /\ c \in shut /\ Done(s) /\ UNCHANGED bytes
    /\ UNCHANGED <<up, shut, gone, garbled, refused>>

\* At the end of the stream recv returns 0 over and over.
DoFollow(s) ==
    /\ Calls(s, "follow")
    /\ \E n \in 1 .. bytes[Now(s).chan] :
          bytes' = [bytes EXCEPT ![Now(s).chan] = @ - n]
    /\ UNCHANGED <<todo, up, shut, gone, garbled, refused>>

DoEcho(s) ==
    /\ Calls(s, "echo")
    /\ \/ /\ \E n \in 1 .. bytes[1] :
                bytes' = [bytes EXCEPT ![1] = @ - n, ![2] = IF 2 \in gone THEN @ ELSE @ + n]
          /\ refused' = (refused \/ 2 \in gone)
          /\ UNCHANGED todo
       \/ /\ bytes[1] = 0 /\ 1 \in shut
          /\ Done(s)
          /\ UNCHANGED <<bytes, refused>>
    /\ UNCHANGED <<up, shut, gone, garbled>>

DoShut(s) ==
    /\ Calls(s, "shut")
    /\ shut' = shut \cup {Now(s).chan}
    /\ Done(s)
    /\ UNCHANGED <<up, bytes, gone, garbled, refused>>

\* The side whose ends of the channels s has, and who else has them.
End(s) == IF s = 3 THEN 1 ELSE s
Shares(s, r) == s # r /\ (script = "pipe2" \/ End(s) = End(r))

\* close, or the end of the process: of ends two processes have, only the
\* second closes them.
DoClose(s) ==
    /\ Calls(s, "close")
    /\ IF \E r \in Sides : Shares(s, r) /\ ~Ended(r) THEN UNCHANGED <<shut, gone>>
       ELSE shut' = shut \cup {End(s)} /\ gone' = gone \cup {3 - End(s)}
    /\ Done(s)
    /\ UNCHANGED <<up, bytes, garbled, refused>>

DoExit(s) ==
    /\ Calls(s, "exit")
    /\ todo' = [r \in Sides |-> IF End(r) = End(s) THEN <<>> ELSE todo[r]]
    /\ shut' = shut \cup {End(s)} /\ gone' = gone \cup {3 - End(s)}
    /\ UNCHANGED <<up, bytes, garbled, refused>>

Runs(s) ==
    \/ Establish(s) \/ DoWrite(s) \/ DoRead(s) \/ DoReadSome(s) \/ DoPeek(s) \/ DoFill(s)
    \/ DoDrain(s) \/ DoFollow(s) \/ DoEcho(s)
    \/ DoShut(s) \/ DoClose(s) \/ DoExit(s)

\* Nothing is left to wait for.  pipe2.c may wait for ever; chat_client.cpp
\* does, once it has shown all that came.
AtRest ==
    \/ garbled \/ script = "pipe2" \/ \A s \in Sides : Ended(s)
    \/ script = "chat_c" /\ Ended(3) /\ \A c \in Chans : bytes[c] = 0

Finished == AtRest /\ UNCHANGED stream

Next == ((\E s \in Sides : Runs(s)) \/ Finished) /\ UNCHANGED script

-----------------------------------------------------------------------------
\* When all programs of a script have ended without a short read, each has
\* read all that was written to it, in one piece where it relies on that.  Not
\* so: sep_serv.c, as its successor sep_serv2.c shows, pipe2.c, as pipe3.c
\* does, the clients that read once per message, as echo_client_win.c:46 says,
\* and the chat clients, which end without waiting for their last messages.
Delivered ==
    script \notin {"sep", "pipe2", "once", "once_win", "chat", "chat_win", "chat_cpp"}
    /\ (\A s \in Sides : Ended(s)) /\ ~garbled
    => ~refused /\ \A c \in Chans : bytes[c] = 0
=============================================================================
