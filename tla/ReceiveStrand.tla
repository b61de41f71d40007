---------------------------- MODULE ReceiveStrand ----------------------------
(* What EchoThreadMain and AcceptRoutine promise about one connection,       *)
(* however many threads serve the completion port: its input is handled by   *)
(* one thread at a time.  At every moment a connection either waits for      *)
(* input (one receive outstanding), or has one result waiting in the queue,  *)
(* or is in the hands of one thread, which either asks for the next input or *)
(* gives the connection up; a connection given up never comes back.          *)
CONSTANT Conns

VARIABLE phase

Phases == {"new", "armed", "fired", "held", "over"}

Init == phase = [c \in Conns |-> "new"]

Move(c, from, to) ==
    /\ phase[c] = from
    /\ phase' = [phase EXCEPT ![c] = to]

\* "over" at once: the connection broke before the first receive was posted.
Start(c) == Move(c, "new", "armed") \/ Move(c, "new", "over")
Fire(c) == Move(c, "armed", "fired")
Take(c) == Move(c, "fired", "held")
GiveBack(c) == Move(c, "held", "armed")
GiveUp(c) == Move(c, "held", "over")

Next ==
    \E c \in Conns :
       /\ phase'[c] # phase[c]
       /\ Start(c) \/ Fire(c) \/ Take(c) \/ GiveBack(c) \/ GiveUp(c)

Spec == Init /\ [][Next]_phase

\* A result is always taken up, and a thread never keeps a connection.
LiveSpec ==
    /\ Spec
    /\ \A c \in Conns : WF_phase(Take(c)) /\ WF_phase(GiveBack(c) \/ GiveUp(c))
=============================================================================
