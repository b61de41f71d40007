------------------------------ MODULE Datagrams ------------------------------
(* The programs that exchange datagrams: the UDP echo and chat programs of   *)
(* 0705 with two clients, bound_host1.c and bound_host2.c, and the senders   *)
(* and receivers of news (0707, multicast and broadcast).  Hosts 1 and 2 run *)
(* the clients or receivers, or bound_host1 and bound_host2; host 0 the      *)
(* server or the sender.                                                     *)
(*                                                                           *)
(* The network may lose a datagram, deliver it late and, once, deliver it    *)
(* twice.  What a datagram says is the number of the message it carries or   *)
(* answers.                                                                  *)
EXTENDS Integers, Sequences

CONSTANT Lines   \* bound: messages a client's user types; lines of the news

VARIABLES
    kit,            \* which programs were started
    flight,         \* datagrams on their way
    at, serv,       \* what each host, and the server, is about to do
    asked,          \* datagrams each host has sent
    cur,            \* the datagram the server received last
    seen,           \* history: what each host has received
    lost, doubled   \* history: a datagram was lost, delivered twice

exchange == <<flight, at, serv, asked, cur, seen, lost, doubled>>

Clients == 1 .. 2
Hosts == 0 .. 2
Datagram == [to : Hosts, from : Hosts, num : Nat, of : Hosts]
None == [to |-> 0, from |-> 0, num |-> 0, of |-> 0]

EchoKits == {"uecho", "uecho_con", "uecho_win"}
NewsKits == {"news", "news_brd", "news_win"}
Kits == EchoKits \cup NewsKits \cup {"uchat", "hosts"}

TypeOK ==
    /\ kit \in Kits
    /\ flight \in SUBSET Datagram /\ cur \in Datagram
    /\ at \in [Clients -> {"type", "recv", "ended"}]
    /\ serv \in {"recv", "send", "ended"}
    /\ asked \in [Hosts -> Nat]
    /\ seen \in [Clients -> Seq([of : Hosts, num : Nat, asked : Nat])]
    /\ lost \in BOOLEAN /\ doubled \in BOOLEAN

\* bound_host1.c and the receivers of news begin with recvfrom.
Init ==
    /\ kit \in Kits
    /\ flight = {} /\ cur = None
    /\ at = [c \in Clients |-> IF kit \in NewsKits \/ (kit = "hosts" /\ c = 1)
                               THEN "recv" ELSE "type"]
    /\ serv = IF kit \in NewsKits THEN "send" ELSE "recv"
    /\ asked = [h \in Hosts |-> 0] /\ seen = [c \in Clients |-> <<>>]
    /\ lost = FALSE /\ doubled = FALSE

-----------------------------------------------------------------------------
(* The network.                                                              *)

\* recvfrom takes a datagram; the network may deliver it again.
Taken(d) ==
    \/ flight' = flight \ {d} /\ UNCHANGED doubled
    \/ ~doubled /\ doubled' = TRUE /\ UNCHANGED flight

\* Nobody misses one that comes for a host that has ended.
Lose(d) ==
    /\ flight' = flight \ {d}
    /\ lost' = (lost \/ d.to = 0 \/ at[d.to] # "ended")
    /\ UNCHANGED <<at, serv, asked, cur, seen, doubled>>

-----------------------------------------------------------------------------
(* The clients.                                                              *)

Goto(c, label) == at' = [at EXCEPT ![c] = label]

\* fgets, sendto: the next message to the other side.
SendTo(c, h, next) ==
    /\ at[c] = "type"
    /\ asked' = [asked EXCEPT ![c] = @ + 1]
    /\ flight' = flight \cup {[to |-> h, from |-> c, num |-> asked[c] + 1, of |-> c]}
    /\ Goto(c, next)
    /\ UNCHANGED <<serv, cur, seen, lost, doubled>>

Quit(c) ==
    /\ at[c] = "type"
    /\ Goto(c, "ended")
    /\ UNCHANGED <<flight, serv, asked, cur, seen, lost, doubled>>

\* recvfrom does not ask whom the datagram is from, nor what it answers.
ReceiveFrom(c, next) ==
    /\ at[c] = "recv"
    /\ \E d \in flight :
          /\ d.to = c
          /\ Taken(d)
          /\ seen' = [seen EXCEPT ![c] =
                        Append(@, [of |-> d.of, num |-> d.num, asked |-> asked[c]])]
    /\ Goto(c, next)
    /\ UNCHANGED <<serv, asked, cur, lost>>

\* A datagram for a server that has ended is answered with an error: recv
\* returns -1 on the connected socket, and the client goes on all the same.
Refused(c) ==
    /\ at[c] = "recv" /\ serv = "ended"
    /\ \E d \in flight : d.to = 0 /\ d.from = c /\ flight' = flight \ {d}
    /\ Goto(c, "type")
    /\ UNCHANGED <<serv, asked, cur, seen, lost, doubled>>

Converses(c) ==
    (asked[c] < Lines /\ SendTo(c, 0, "recv")) \/ Quit(c) \/ ReceiveFrom(c, "type")

UechoClient(c) == kit = "uecho" /\ Converses(c)
UechoConClient(c) == kit = "uecho_con" /\ Converses(c)
UechoClientWin(c) == kit = "uecho_win" /\ Converses(c)
UchatClientWin(c) == kit = "uchat" /\ (Converses(c) \/ Refused(c))

\* Three receives.
BoundHost1 ==
    /\ kit = "hosts"
    /\ ReceiveFrom(1, IF Len(seen[1]) = 2 THEN "ended" ELSE "recv")

\* Three sends, the last of which ends the program.
BoundHost2 ==
    /\ kit = "hosts"
    /\ SendTo(2, 1, IF asked[2] = 2 THEN "ended" ELSE "type")

NewsReceiver(c) == kit = "news" /\ ReceiveFrom(c, "recv")
NewsReceiverBrd(c) == kit = "news_brd" /\ ReceiveFrom(c, "recv")
NewsReceiverWin(c) == kit = "news_win" /\ ReceiveFrom(c, "recv")

Host(c) ==
    \/ UechoClient(c) \/ UechoConClient(c) \/ UechoClientWin(c) \/ UchatClientWin(c)
    \/ (c = 1 /\ BoundHost1) \/ (c = 2 /\ BoundHost2)
    \/ NewsReceiver(c) \/ NewsReceiverBrd(c) \/ NewsReceiverWin(c)

-----------------------------------------------------------------------------
(* The servers and senders.                                                  *)

\* recvfrom, which says whom to answer.
Request ==
    /\ serv = "recv"
    /\ \E d \in flight : d.to = 0 /\ Taken(d) /\ cur' = d
    /\ serv' = "send"
    /\ UNCHANGED <<at, asked, seen, lost>>

\* Mutant: the address is the one of the first client.
AnswerFirst ==
    /\ serv = "send"
    /\ flight' = flight \cup {[to |-> 1, from |-> 0, num |-> cur.num, of |-> cur.from]}
    /\ serv' = "recv"
    /\ UNCHANGED <<at, asked, cur, seen, lost, doubled>>

\* sendto, to that address.
Answer ==
    /\ serv = "send"
    /\ flight' = flight \cup {[to |-> cur.from, from |-> 0, num |-> cur.num, of |-> cur.from]}
    /\ serv' = "recv"
    /\ UNCHANGED <<at, asked, cur, seen, lost, doubled>>

\* q, typed in place of an answer.
Leave ==
    /\ serv = "send"
    /\ serv' = "ended"
    /\ UNCHANGED <<flight, at, asked, cur, seen, lost, doubled>>

UechoServer == kit \in {"uecho", "uecho_con"} /\ (Request \/ Answer)
UechoServerWin == kit = "uecho_win" /\ (Request \/ Answer)
UchatServerWin == kit = "uchat" /\ (Request \/ Answer \/ Leave)

\* fgets and sendto while feof is not set: if the last line is complete, feof
\* is set by one more fgets, which leaves it in buf to be sent again.
Tell ==
    /\ serv = "send"
    /\ asked' = [asked EXCEPT ![0] = @ + 1]
    /\ flight' = flight \cup {[to |-> c, from |-> 0, num |-> asked[0] + 1, of |-> 0] : c \in Clients}
    /\ \/ asked[0] < Lines /\ UNCHANGED serv
       \/ asked[0] >= Lines - 1 /\ serv' = "ended"
    /\ UNCHANGED <<at, cur, seen, lost, doubled>>

NewsSender == kit = "news" /\ Tell
NewsSenderBrd == kit = "news_brd" /\ Tell
NewsSenderWin == kit = "news_win" /\ Tell

Server ==
    \/ UechoServer \/ UechoServerWin \/ UchatServerWin
    \/ NewsSender \/ NewsSenderBrd \/ NewsSenderWin

\* Nothing is on its way, and whoever has not ended waits for it.
Finished ==
    /\ flight = {} /\ serv # "send"
    /\ \A c \in Clients : at[c] # "type"
    /\ UNCHANGED exchange

Next ==
    /\ \/ \E c \in Clients : Host(c)
       \/ Server \/ Finished
       \/ \E d \in flight : Lose(d)
    /\ UNCHANGED kit

-----------------------------------------------------------------------------
\* What a client of the echo and chat servers shows as the answer is one to a
\* message of its own and, unless the network has delivered something twice,
\* to its last.
AnswersMatch ==
    kit \in EchoKits \cup {"uchat"} =>
       \A c \in Clients : \A k \in 1 .. Len(seen[c]) :
          LET s == seen[c][k] IN
          s.of = c /\ s.num <= s.asked /\ (doubled \/ s.num = s.asked)

\* When nothing is on its way any more and nothing was lost, the receivers have
\* seen every line of the news, and bound_host1.c, unless something came
\* twice, each of its three messages.
AllSeen ==
    LET Seen(c) == {seen[c][k].num : k \in 1 .. Len(seen[c])} IN
    flight = {} /\ ~lost =>
       /\ kit \in NewsKits /\ serv = "ended" => \A c \in Clients : 1 .. Lines \subseteq Seen(c)
       /\ kit = "hosts" /\ at[2] = "ended" /\ ~doubled => Seen(1) = 1 .. 3

\* The exchange comes to an end, unless the network has lost something or the
\* server has left; the receivers of news wait for more.
AtRest ==
    kit \in NewsKits \/ lost \/ serv = "ended" \/ \A c \in Clients : at[c] = "ended"
=============================================================================
