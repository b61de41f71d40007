------------------------------- MODULE OneSlot -------------------------------
(* What two threads that pass numbers through one variable promise: the      *)
(* variable is a one-place buffer, no number is lost, added twice or         *)
(* overwritten before it was added.                                          *)
EXTENDS Integers

CONSTANT Values, Empty

VARIABLES slot, received

Init == slot = Empty /\ received = 0

Put(v) == slot = Empty /\ slot' = v /\ UNCHANGED received

Get == slot # Empty /\ received' = received + slot /\ slot' = Empty

Next == Get \/ \E v \in Values : Put(v)

Spec == Init /\ [][Next]_<<slot, received>>
=============================================================================
