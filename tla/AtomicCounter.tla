--------------------------- MODULE AtomicCounter ----------------------------
(* What the counting programs are meant to do: every thread changes num      *)
(* Rounds times, by one, and no change is lost.                              *)
EXTENDS Integers

CONSTANTS Threads, Rounds, Delta(_)

VARIABLES num, count

Init == num = 0 /\ count = [t \in Threads |-> 0]

Change(t) ==
    /\ count[t] < Rounds
    /\ num' = num + Delta(t)
    /\ count' = [count EXCEPT ![t] = @ + 1]

Next == \E t \in Threads : Change(t)

Spec == Init /\ [][Next]_<<num, count>>
=============================================================================
