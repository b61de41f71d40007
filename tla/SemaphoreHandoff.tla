-------------------------- MODULE SemaphoreHandoff --------------------------
(* Two threads in strict alternation by two semaphores: Read fills num, Accu *)
(* adds it to sum.  0719/linux/semaphore.c and 0720/windows/SyncSema_win.c   *)
(* call scanf between the semaphore operations, SycnSemaRead_win.c calls it  *)
(* before, into a local variable.                                            *)
EXTENDS Integers

CONSTANTS N,           \* iterations of each loop (5 in the programs)
          Values,      \* what the user may type
          ScanOutside, \* the program is SycnSemaRead_win.c
          Empty        \* stands for an empty slot in OneSlot

ASSUME NAssumption == N \in Nat
ASSUME ValuesAssumption == Values \subseteq Int /\ 0 \in Values
ASSUME EmptyAssumption == Empty \notin Values
ASSUME ScanAssumption == ScanOutside \in BOOLEAN

VARIABLES
    semOne, semTwo, num,
    rpc, ri, temp,      \* Read
    apc, ai, sum,       \* Accu
    total               \* history: the sum of what Read has put into num

read == <<rpc, ri, temp>>
accu == <<apc, ai, sum>>
vars == <<semOne, semTwo, num, read, accu, total>>

TypeOK ==
    /\ semOne \in Nat /\ semTwo \in Nat
    /\ num \in Values /\ temp \in Values
    /\ rpc \in {"scan", "wait", "fill", "post", "done"} /\ ri \in 0 .. N
    /\ apc \in {"wait", "add", "post", "done"} /\ ai \in 0 .. N
    /\ sum \in Int /\ total \in Int

\* The label at the head of each loop, for a loop that has gone round i times.
ReadHead(i) == IF i = N THEN "done" ELSE IF ScanOutside THEN "scan" ELSE "wait"
AccuHead(i) == IF i = N THEN "done" ELSE "wait"

Init ==
    /\ semOne = 0 /\ semTwo = 1
    /\ num = 0 /\ temp \in Values    \* num is static, temp is not initialised
    /\ rpc = ReadHead(0) /\ ri = 0
    /\ apc = AccuHead(0) /\ ai = 0 /\ sum = 0
    /\ total = 0

-----------------------------------------------------------------------------
\* scanf leaves its variable alone when the input is no number or has ended.
Typed(old) == Values \cup {old}

\* Mutant: the number is asked for until it is typed twice.
ScanConfirms ==
    /\ rpc = "scan"
    /\ \E v \in Typed(temp) :
          temp' = v /\ rpc' = IF v = temp THEN "wait" ELSE "scan"
    /\ UNCHANGED <<semOne, semTwo, num, ri, accu, total>>

ScanTemp ==
    /\ rpc = "scan"
    /\ \E v \in Typed(temp) : temp' = v
    /\ rpc' = "wait"
    /\ UNCHANGED <<semOne, semTwo, num, ri, accu, total>>

\* Mutant: the value is stored without waiting for the other thread.
ReadNoWait ==
    /\ rpc = "wait"
    /\ rpc' = "fill"
    /\ UNCHANGED <<semOne, semTwo, num, ri, temp, accu, total>>

ReadWait ==
    /\ rpc = "wait" /\ semTwo > 0
    /\ semTwo' = semTwo - 1
    /\ rpc' = "fill"
    /\ UNCHANGED <<semOne, num, ri, temp, accu, total>>

\* scanf("%d", &num), or num = temp.
Fill ==
    /\ rpc = "fill"
    /\ \E v \in IF ScanOutside THEN {temp} ELSE Typed(num) :
          num' = v /\ total' = total + v
    /\ rpc' = "post"
    /\ UNCHANGED <<semOne, semTwo, ri, temp, accu>>

ReadPost ==
    /\ rpc = "post"
    /\ semOne' = semOne + 1
    /\ ri' = ri + 1 /\ rpc' = ReadHead(ri + 1)
    /\ UNCHANGED <<semTwo, num, temp, accu, total>>

AccuWait ==
    /\ apc = "wait" /\ semOne > 0
    /\ semOne' = semOne - 1
    /\ apc' = "add"
    /\ UNCHANGED <<semTwo, num, ai, sum, read, total>>

\* Mutant: the result is overwritten, not added to.
AddOverwrites ==
    /\ apc = "add"
    /\ sum' = num
    /\ apc' = "post"
    /\ UNCHANGED <<semOne, semTwo, num, ai, read, total>>

\* Mutant: the loop counts an iteration before it is over.
AddCounts ==
    /\ apc = "add"
    /\ sum' = sum + num
    /\ ai' = ai + 1 /\ apc' = "post"
    /\ UNCHANGED <<semOne, semTwo, num, read, total>>

\* sum += num
Add ==
    /\ apc = "add"
    /\ sum' = sum + num
    /\ apc' = "post"
    /\ UNCHANGED <<semOne, semTwo, num, ai, read, total>>

AccuPost ==
    /\ apc = "post"
    /\ semTwo' = semTwo + 1
    /\ ai' = ai + 1 /\ apc' = AccuHead(ai + 1)
    /\ UNCHANGED <<semOne, num, sum, read, total>>

Read == ScanTemp \/ ReadWait \/ Fill \/ ReadPost
Accu == AccuWait \/ Add \/ AccuPost

\* Both threads ended: the joins in main return and the program exits.
Finished == rpc = "done" /\ apc = "done" /\ UNCHANGED vars

Next == Read \/ Accu \/ Finished

Spec == Init /\ [][Next]_vars

\* Threads that can run do run, and the user answers every scanf.
FairSpec == Spec /\ WF_vars(Read) /\ WF_vars(Accu)

-----------------------------------------------------------------------------
\* Exactly one permit exists, in a semaphore or in the hands of a thread: the
\* two threads never touch num together, and no semaphore exceeds the maximum
\* 1 the Windows programs create it with.
OnePermit ==
    semOne + semTwo + (IF rpc \in {"fill", "post"} THEN 1 ELSE 0)
                    + (IF apc \in {"add", "post"} THEN 1 ELSE 0) = 1

\* The printed result is the sum of the numbers that were read.
ResultExact == rpc = "done" /\ apc = "done" => sum = total

\* Both loops end: neither thread waits for a permit that never comes.
Terminates == <>(rpc = "done" /\ apc = "done")

\* num holds a number that has not been added yet.
Pending == semOne > 0 \/ rpc = "post" \/ apc = "add"

\* num is a one-place buffer between the threads.
Slot == INSTANCE OneSlot
            WITH slot <- IF Pending THEN num ELSE Empty,
                 received <- sum
SlotSpec == Slot!Spec
=============================================================================
