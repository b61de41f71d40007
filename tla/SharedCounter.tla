--------------------------- MODULE SharedCounter ----------------------------
(* Threads that increment and decrement one global counter: thread4.c and    *)
(* thread3_win.c without a lock, mutex.c, SyncCS_win.c and SyncMutex_win.c   *)
(* with a lock around the whole loop or around each iteration.               *)
EXTENDS Integers, FiniteSets

CONSTANTS NumThread,         \* NUM_THREAD: 100 on Linux, 50 on Windows
          Rounds,            \* iterations of each loop: 50000000
          IncLock, DecLock   \* what the lock is held for in thread_inc, thread_dec

Parameters ==
    /\ NumThread \in Nat /\ NumThread % 2 = 0
    /\ Rounds \in Nat \ {0}
    /\ {IncLock, DecLock} \subseteq {"none", "whole", "each"}

Threads == 0 .. NumThread - 1
Nobody == -1

VARIABLES
    num,
    holder,           \* the thread that owns the mutex, or Nobody
    pc, count, reg,   \* per thread: label, loop counter, value of num loaded
    created, joined   \* main's two loop counters

thread == <<pc, count, reg>>
main == <<created, joined>>
vars == <<num, holder, thread, main>>

\* Odd threads run thread_inc, even ones thread_dec.
IsInc(t) == t % 2 = 1
Mode(t) == IF IsInc(t) THEN IncLock ELSE DecLock
Delta(t) == IF IsInc(t) THEN 1 ELSE -1

TypeOK ==
    /\ num \in Int
    /\ holder \in Threads \cup {Nobody}
    /\ pc \in [Threads -> {"new", "lock", "load", "store", "unlock", "done"}]
    /\ count \in [Threads -> 0 .. Rounds]
    /\ reg \in [Threads -> Int]
    /\ created \in 0 .. NumThread /\ joined \in 0 .. NumThread

Init ==
    /\ num = 0 /\ holder = Nobody
    /\ pc = [t \in Threads |-> "new"]
    /\ count = [t \in Threads |-> 0]
    /\ reg = [t \in Threads |-> 0]
    /\ created = 0 /\ joined = 0

-----------------------------------------------------------------------------
\* Mutant: the loop runs once too often.
AgainOnce(t) == count[t] <= Rounds

Again(t) == count[t] + 1 < Rounds

Lock(t) ==
    /\ pc[t] = "lock" /\ holder = Nobody
    /\ holder' = t
    /\ pc' = [pc EXCEPT ![t] = "load"]
    /\ UNCHANGED <<num, count, reg, main>>

\* num += 1 and num -= 1 read the variable first ...
Load(t) ==
    /\ pc[t] = "load"
    /\ reg' = [reg EXCEPT ![t] = num]
    /\ pc' = [pc EXCEPT ![t] = "store"]
    /\ UNCHANGED <<num, holder, count, main>>

AfterStore(t) ==
    IF Mode(t) = "each" THEN "unlock"
    ELSE IF Again(t) THEN "load"
    ELSE IF Mode(t) = "whole" THEN "unlock" ELSE "done"

\* ... and write it back.
Store(t) ==
    /\ pc[t] = "store"
    /\ num' = reg[t] + Delta(t)
    /\ count' = [count EXCEPT ![t] = @ + 1]
    /\ pc' = [pc EXCEPT ![t] = AfterStore(t)]
    /\ UNCHANGED <<holder, reg, main>>

Unlock(t) ==
    /\ pc[t] = "unlock"
    /\ holder' = Nobody
    /\ pc' = [pc EXCEPT ![t] = IF count[t] < Rounds THEN "lock" ELSE "done"]
    /\ UNCHANGED <<num, count, reg, main>>

Work(t) == Lock(t) \/ Load(t) \/ Store(t) \/ Unlock(t)

Create ==
    /\ created < NumThread
    /\ created' = created + 1
    /\ pc' = [pc EXCEPT ![created] =
                 IF Mode(created) = "none" THEN "load" ELSE "lock"]
    /\ UNCHANGED <<num, holder, count, reg, joined>>

\* Mutant: main goes on to the next thread without waiting.
JoinNoWait ==
    /\ created = NumThread /\ joined < NumThread
    /\ joined' = joined + 1
    /\ UNCHANGED <<num, holder, thread, created>>

Join ==
    /\ created = NumThread /\ joined < NumThread
    /\ pc[joined] = "done"
    /\ joined' = joined + 1
    /\ UNCHANGED <<num, holder, thread, created>>

\* main has printed num and the program exits.
Printed == joined = NumThread /\ UNCHANGED vars

Next == Create \/ Join \/ (\E t \in Threads : Work(t)) \/ Printed

Spec == Init /\ [][Next]_vars

-----------------------------------------------------------------------------
\* Whoever is inside the loop body owns the lock, so no two threads are
\* between the load and the store of num together.
Exclusive ==
    \A t \in Threads : pc[t] \in {"load", "store", "unlock"} => holder = t

\* The comment on the printf in main (mutex.c:28, thread4.c:27): "expected
\* value is 0".
ResultZero == joined = NumThread => num = 0

\* Every update is counted: the program counts as if += and -= were atomic.
Atomic == INSTANCE AtomicCounter
AtomicSpec == Atomic!Spec
=============================================================================
